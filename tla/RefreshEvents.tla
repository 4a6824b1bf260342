----------------------------- MODULE RefreshEvents -----------------------------
(***************************************************************************)
(* The live "refreshing" indicator: Scheduler.setRefreshing publishes the  *)
(* feed being refreshed in two steps (an atomic store, then the close of   *)
(* the broadcast channel), and two kinds of Server-Sent Event handlers     *)
(* follow it: the sidebar (handleFeedTreeEvents) and the badge of one feed *)
(* (handleFeedRefreshEvents).  They differ in the order in which they take *)
(* the channel and read the state.                                         *)
(*                                                                         *)
(* A channel is closed once and replaced, so all a stream can learn from   *)
(* the one it holds is whether it has been closed since it was taken: that *)
(* is notified[s], and stands for the channel's identity.                  *)
(***************************************************************************)
CONSTANTS Feeds,        \* feed IDs
          Idle,         \* ID 0: no feed is being refreshed
          TreeStreams,  \* open sidebars
          FeedStreams,  \* open badges
          Watched,      \* Watched[s]: the feed whose badge s shows
          ReadsFail     \* may the sidebar's queries fail?

ASSUME StreamAssumption ==
    /\ Idle \notin Feeds
    /\ TreeStreams \cap FeedStreams = {}
    /\ Watched \in [FeedStreams -> Feeds]
    /\ ReadsFail \in BOOLEAN

VARIABLES
    refreshing,  \* Scheduler.refreshingFeedID
    pending,     \* setRefreshing has stored but not yet closed the channel
    pc,          \* where each handler goroutine is
    notified,    \* the channel the stream holds is closed (TRUE: holds none)
    last,        \* the handler's variable last
    shown,       \* what the browser shows
    skipped      \* history: sidebars whose latest push gave up

vars == <<refreshing, pending, pc, notified, last, shown, skipped>>
streamVars == <<pc, notified, last, shown, skipped>>

Streams == TreeStreams \cup FeedStreams
States  == Feeds \cup {Idle}

TypeOK ==
    /\ refreshing \in States
    /\ pending \in BOOLEAN
    /\ pc \in [Streams -> {"off", "open", "first", "write", "grab", "wait", "read"}]
    /\ notified \in [Streams -> BOOLEAN]
    /\ last \in [Streams -> States]
    /\ shown \in [Streams -> States]
    /\ skipped \subseteq TreeStreams

Init ==
    /\ refreshing = Idle
    /\ pending = FALSE
    /\ pc = [s \in Streams |-> "off"]
    /\ notified = [s \in Streams |-> TRUE]
    /\ last = [s \in Streams |-> Idle]
    /\ shown = [s \in Streams |-> Idle]
    /\ skipped = {}

--------------------------------------------------------------------------------
(* The scheduler's goroutine: refreshOne. *)

\* First half of setRefreshing: the atomic store.
Store(v) ==
    /\ ~pending
    /\ refreshing' = v
    /\ pending' = TRUE
    /\ UNCHANGED streamVars

Start(f) == refreshing = Idle /\ Store(f)

Finish == refreshing # Idle /\ Store(Idle)

\* Mutant: the channel is replaced without being closed.
ReplaceOnly ==
    /\ pending
    /\ pending' = FALSE
    /\ UNCHANGED <<refreshing, pc, notified, last, shown, skipped>>

\* Second half of setRefreshing: whoever holds the channel sees it closed.
Broadcast ==
    /\ pending
    /\ pending' = FALSE
    /\ notified' = [s \in Streams |-> TRUE]
    /\ UNCHANGED <<refreshing, pc, last, shown, skipped>>

--------------------------------------------------------------------------------
(* The steps that the handlers are made of. *)

GoTo(s, label) == pc' = [pc EXCEPT ![s] = label]

\* Scheduler.Changed(): the channel that the next setRefreshing will close.
TakeChannel(s) == notified' = [notified EXCEPT ![s] = FALSE]

\* The browser opens the stream.
Connect(s) ==
    /\ pc[s] = "off"
    /\ GoTo(s, "open")
    /\ UNCHANGED <<refreshing, pending, notified, last, shown, skipped>>

\* The handler returns: the request's context is done, or a write failed.
Leave(s) ==
    /\ pc[s] \in {"wait", "write"}
    /\ GoTo(s, "off")
    /\ notified' = [notified EXCEPT ![s] = TRUE]
    /\ UNCHANGED <<refreshing, pending, last, shown, skipped>>

\* Mutant: only the first state is ever written.
ReadFirstOnly(s, cur, otherwise) ==
    /\ last' = [last EXCEPT ![s] = cur]
    /\ GoTo(s, IF pc[s] \in {"first", "open"} THEN "write" ELSE otherwise)

\* Mutant: last keeps the first state, later ones are only compared with it.
ReadWithoutLast(s, cur, otherwise) ==
    /\ last' = [last EXCEPT ![s] = IF pc[s] \in {"first", "open"} THEN cur ELSE @]
    /\ GoTo(s, IF pc[s] \in {"first", "open"} \/ cur # last[s]
               THEN "write" ELSE otherwise)

\* The state is read and last is set; the first state is always written, a
\* later one only when it differs.
ReadState(s, cur, otherwise) ==
    /\ last' = [last EXCEPT ![s] = cur]
    /\ GoTo(s, IF pc[s] \in {"first", "open"} \/ cur # last[s]
               THEN "write" ELSE otherwise)

--------------------------------------------------------------------------------
(* handleFeedTreeEvents: the channel first, then the state. *)

TreeGrab(s) ==
    /\ \/ pc[s] = "open" /\ GoTo(s, "first")
       \/ pc[s] = "wait" /\ notified[s] /\ GoTo(s, "read")
    /\ TakeChannel(s)
    /\ UNCHANGED <<refreshing, pending, last, shown, skipped>>

TreeRead(s) ==
    /\ pc[s] \in {"first", "read"}
    /\ ReadState(s, refreshing, "wait")
    /\ UNCHANGED <<refreshing, pending, notified, shown, skipped>>

\* Mutant: the channel is taken after the state has been read and written.
TreeWriteThenGrab(s) ==
    /\ pc[s] = "write"
    /\ shown' = [shown EXCEPT ![s] = last[s]]
    /\ skipped' = skipped \ {s}
    /\ GoTo(s, "wait")
    /\ TakeChannel(s)
    /\ UNCHANGED <<refreshing, pending, last>>

\* writeFolders: queries the tables and pushes the sidebar.
TreeWrite(s) ==
    /\ pc[s] = "write"
    /\ shown' = [shown EXCEPT ![s] = last[s]]
    /\ skipped' = skipped \ {s}
    /\ GoTo(s, "wait")
    /\ UNCHANGED <<refreshing, pending, notified, last>>

\* writeFolders gives up when a query fails, and the handler carries on.
TreeSkip(s) ==
    /\ ReadsFail
    /\ pc[s] = "write"
    /\ GoTo(s, "wait")
    /\ skipped' = skipped \cup {s}
    /\ UNCHANGED <<refreshing, pending, notified, last, shown>>

--------------------------------------------------------------------------------
(* handleFeedRefreshEvents: the state first, then the channel. *)

\* IsRefreshing, as the feed itself or Idle.
BadgeState(s) == IF refreshing = Watched[s] THEN Watched[s] ELSE Idle

FeedRead(s) ==
    /\ \/ pc[s] = "open"
       \/ pc[s] = "wait" /\ notified[s]
    /\ ReadState(s, BadgeState(s), "grab")
    /\ UNCHANGED <<refreshing, pending, notified, shown, skipped>>

FeedWrite(s) ==
    /\ pc[s] = "write"
    /\ shown' = [shown EXCEPT ![s] = last[s]]
    /\ GoTo(s, "grab")
    /\ UNCHANGED <<refreshing, pending, notified, last, skipped>>

FeedGrab(s) ==
    /\ pc[s] = "grab"
    /\ TakeChannel(s)
    /\ GoTo(s, "wait")
    /\ UNCHANGED <<refreshing, pending, last, shown, skipped>>

--------------------------------------------------------------------------------
Scheduler == (\E f \in Feeds : Start(f)) \/ Finish \/ Broadcast

TreeStep(s) == TreeGrab(s) \/ TreeRead(s) \/ TreeWrite(s) \/ TreeSkip(s)
FeedStep(s) == FeedRead(s) \/ FeedWrite(s) \/ FeedGrab(s)

Next ==
    \/ Scheduler
    \/ \E s \in Streams : Connect(s) \/ Leave(s)
    \/ \E s \in TreeStreams : TreeStep(s)
    \/ \E s \in FeedStreams : FeedStep(s)

\* Every goroutine that can run does; a refresh ends because the HTTP client
\* has a timeout.  Nothing makes a feed due or a browser connect.
Fairness ==
    /\ WF_vars(Broadcast)
    /\ WF_vars(Finish)
    /\ \A s \in TreeStreams : WF_vars(TreeStep(s))
    /\ \A s \in FeedStreams : WF_vars(FeedStep(s))

Spec == Init /\ [][Next]_vars /\ Fairness

--------------------------------------------------------------------------------
(* Properties *)

\* A stream that sleeps on a channel no one has closed or is about to close.
Asleep(s) == pc[s] = "wait" /\ ~notified[s] /\ ~pending

\* handler.go:784 "Grab the change channel before reading the state so a
\* transition between the two can't be missed": a sidebar never sleeps on an
\* old state, wherever the scheduler's store and close fall.
TreeNoMissedChange == \A s \in TreeStreams : Asleep(s) => last[s] = refreshing

\* A connected sidebar ends up showing the feed being refreshed (or none),
\* unless the scheduler moves on first or the sidebar's queries fail.
TreeConverges ==
    \A s \in TreeStreams, v \in States :
        (pc[s] # "off" /\ refreshing = v)
            ~> (shown[s] = v \/ refreshing # v \/ pc[s] = "off" \/ s \in skipped)

\* A badge that missed the end of its refresh is put right by a later change:
\* while other feeds keep being refreshed, its spinner does not stay for ever.
FeedRecovers ==
    []<><<\E f \in Feeds : Start(f)>>_vars =>
        \A s \in FeedStreams :
            (shown[s] = Watched[s] /\ refreshing = Idle)
                ~> (shown[s] = Idle \/ refreshing = Watched[s] \/ pc[s] = "off")

\* The sidebars implement the abstract indicator: what they saw last follows
\* the feed being refreshed.
Indicator == INSTANCE LiveIndicator WITH
    Observers <- TreeStreams,
    Values    <- States,
    Initial   <- Idle,
    actual    <- refreshing,
    view      <- [s \in TreeStreams |-> last[s]],
    online    <- {s \in TreeStreams : pc[s] \notin {"off", "open", "first"}}

SidebarIsLiveIndicator == Indicator!Spec
================================================================================
