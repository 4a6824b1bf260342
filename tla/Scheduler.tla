------------------------------- MODULE Scheduler -------------------------------
(***************************************************************************)
(* The background scheduler of goread, its callers and its shutdown.       *)
(*                                                                         *)
(* One goroutine (Scheduler.Run) refreshes feeds: those that are due, on a *)
(* ticker, and those asked for through the bounded channel manual.  HTTP   *)
(* handlers ask without waiting (TriggerRefresh, which drops the request   *)
(* when the channel is full) or wait for the answer (TriggerRefreshSync).  *)
(* main ends it all: a signal, or a failing listener, cancels the          *)
(* scheduler's context, the HTTP server drains, the scheduler is waited    *)
(* for and the database is closed.                                         *)
(*                                                                         *)
(* A request is the feed and the caller that waits on its done channel     *)
(* (Nobody: done is nil); the caller's name stands for the channel, so it  *)
(* calls again only when no request of its last call is left.              *)
(***************************************************************************)
EXTENDS Naturals, Sequences, FiniteSets

CONSTANTS Feeds,       \* feed IDs
          Callers,     \* handleRefreshFeed goroutines
          Nobody,      \* no done channel
          NoRequest,   \* nothing is being refreshed
          QueueCap,    \* capacity of the channel manual (16 in NewScheduler)
          QueriesFail, \* may FeedRepo.List fail?
          MaxStoring   \* bound: handlers that have stored a feed and not yet asked

ASSUME SchedulerAssumption ==
    /\ Feeds # {}
    /\ Nobody \notin Callers
    /\ QueueCap \in Nat \ {0} /\ MaxStoring \in Nat \ {0}
    /\ QueriesFail \in BOOLEAN
    /\ NoRequest \notin [feed : Feeds, from : Callers \cup {Nobody}]

VARIABLES
    rows,       \* feeds in the database
    due,        \* feeds whose next refresh time has come
    queue,      \* the buffer of manual
    blocked,    \* callers blocked on sending to manual, in order
    at, wants,  \* where each caller is, and for which feed
    answered,   \* callers whose done channel is closed
    pc,         \* where Run is
    todo,       \* the due feeds refreshDue has yet to visit
    active,     \* the request being refreshed
    tick,       \* the ticker's channel holds a tick
    stopping,   \* the scheduler's context is cancelled
    base,       \* the base context of all HTTP requests is cancelled
    phase,      \* where main is
    triggers,   \* feeds a handler has stored and will ask a refresh for
    since       \* history: the latest refresh of the caller's feed after its call

schedVars  == <<pc, todo, active>>
callerVars == <<at, wants, answered, since>>
mainVars   == <<stopping, base, phase>>
tableVars  == <<rows, due>>
vars == <<tableVars, queue, blocked, callerVars, schedVars, tick, mainVars,
          triggers>>

Requests == [feed : Feeds, from : Callers \cup {Nobody}]

\* refreshOne is under way.
Refreshing == pc \in {"walkRefresh", "manualRefresh"}

TypeOK ==
    /\ rows \subseteq Feeds
    /\ due \subseteq rows
    /\ queue \in Seq(Requests) /\ Len(queue) <= QueueCap
    /\ blocked \in Seq(Callers)
    /\ at \in [Callers -> {"idle", "sending", "waiting"}]
    /\ wants \in [Callers -> Feeds]
    /\ answered \subseteq Callers
    /\ pc \in {"list", "walk", "walkRefresh", "select", "manualRefresh", "returned"}
    /\ todo \subseteq Feeds
    /\ active \in IF Refreshing THEN Requests ELSE {NoRequest}
    /\ tick \in BOOLEAN /\ stopping \in BOOLEAN /\ base \in BOOLEAN
    /\ phase \in {"serving", "draining", "failing", "closed"}
    /\ triggers \subseteq Feeds
    /\ since \in [Callers -> {"none", "started", "finished"}]

Init ==
    /\ rows \in SUBSET Feeds
    /\ due \in SUBSET rows
    /\ queue = <<>> /\ blocked = <<>>
    /\ at = [c \in Callers |-> "idle"]
    /\ wants = [c \in Callers |-> CHOOSE f \in Feeds : TRUE]
    /\ answered = {}
    /\ pc = "list" /\ todo = {} /\ active = NoRequest
    /\ tick = FALSE /\ stopping = FALSE /\ base = FALSE
    /\ phase = "serving"
    /\ triggers = {}
    /\ since = [c \in Callers |-> "none"]

RequestOf(c) == [feed |-> wants[c], from |-> c]
Queued(r) == \E i \in 1..Len(queue) : queue[i] = r

--------------------------------------------------------------------------------
(* Run's goroutine. *)

\* refreshOne begins; history: the refresh of f has started for its callers.
Begin(r, label) ==
    /\ active' = r
    /\ pc' = label
    /\ since' = [c \in Callers |->
                    IF wants[c] = r.feed /\ since[c] = "none"
                    THEN "started" ELSE since[c]]

\* refreshDue: one query, whose rows Due judges by one clock reading.
List ==
    /\ pc = "list"
    /\ pc' = "walk"
    /\ todo' = due
    /\ UNCHANGED <<tableVars, queue, blocked, callerVars, active, tick, mainVars,
                   triggers>>

ListFails ==
    /\ QueriesFail
    /\ pc = "list"
    /\ pc' = "select"
    /\ UNCHANGED <<tableVars, queue, blocked, callerVars, todo, active, tick,
                   mainVars, triggers>>

WalkNext(f) ==
    /\ pc = "walk"
    /\ ~stopping
    /\ f \in todo
    /\ todo' = todo \ {f}
    /\ Begin([feed |-> f, from |-> Nobody], "walkRefresh")
    /\ UNCHANGED <<tableVars, queue, blocked, at, wants, answered, tick, mainVars,
                   triggers>>

\* Mutant: the walk may be given up although feeds are left.
WalkGivenUp ==
    /\ pc = "walk"
    /\ pc' = "select"
    /\ todo' = {}
    /\ UNCHANGED <<tableVars, queue, blocked, callerVars, active, tick, mainVars,
                   triggers>>

\* The walk is over, or is cut short by a cancelled context.
WalkDone ==
    /\ pc = "walk"
    /\ stopping \/ todo = {}
    /\ pc' = "select"
    /\ todo' = {}
    /\ UNCHANGED <<tableVars, queue, blocked, callerVars, active, tick, mainVars,
                   triggers>>

\* Mutant: a blocked sender is not let in.
TakeWithoutHandover ==
    /\ pc = "select"
    /\ queue # <<>>
    /\ Begin(Head(queue), "manualRefresh")
    /\ queue' = Tail(queue)
    /\ UNCHANGED <<tableVars, blocked, at, wants, answered, todo, tick, mainVars,
                   triggers>>

\* The receive takes the oldest request and lets the first blocked sender in.
TakeRequest ==
    /\ pc = "select"
    /\ queue # <<>>
    /\ Begin(Head(queue), "manualRefresh")
    /\ \/ /\ blocked = <<>>
          /\ queue' = Tail(queue)
          /\ UNCHANGED <<blocked, at>>
       \/ /\ blocked # <<>>
          /\ queue' = Append(Tail(queue), RequestOf(Head(blocked)))
          /\ at' = [at EXCEPT ![Head(blocked)] = "waiting"]
          /\ blocked' = Tail(blocked)
    /\ UNCHANGED <<tableVars, wants, answered, todo, tick, mainVars, triggers>>

TakeTick ==
    /\ pc = "select"
    /\ tick
    /\ tick' = FALSE
    /\ pc' = "list"
    /\ UNCHANGED <<tableVars, queue, blocked, callerVars, todo, active, mainVars,
                   triggers>>

\* Mutant: the queue is drained before Run returns.
StopWhenDrained ==
    /\ pc = "select"
    /\ stopping /\ queue = <<>>
    /\ pc' = "returned"
    /\ UNCHANGED <<tableVars, queue, blocked, callerVars, todo, active, tick,
                   mainVars, triggers>>

Stop ==
    /\ pc = "select"
    /\ stopping
    /\ pc' = "returned"
    /\ UNCHANGED <<tableVars, queue, blocked, callerVars, todo, active, tick,
                   mainVars, triggers>>

\* Mutant: done stays open (say, after a refresh that failed).
AnswersNobody(r) == {}

\* Mutant: a refresh answers everyone who waits for its feed.
AnswersTogether(r) == {c \in Callers : at[c] = "waiting" /\ wants[c] = r.feed}

\* Callers whose done channel the end of request r closes.
Answers(r) == {r.from} \ {Nobody}

\* refreshOne returns.  Unless the feed's row could not be written, its next
\* refresh time has moved on; after a manual refresh done is closed.
FinishRefresh ==
    /\ Refreshing
    /\ due' \in {due, due \ {active.feed}}
    /\ answered' = answered \cup Answers(active)
    /\ pc' = IF pc = "walkRefresh" THEN "walk" ELSE "select"
    /\ active' = NoRequest
    /\ since' = [c \in Callers |->
                    IF wants[c] = active.feed /\ since[c] = "started"
                    THEN "finished" ELSE since[c]]
    /\ UNCHANGED <<rows, queue, blocked, at, wants, todo, tick, mainVars, triggers>>

--------------------------------------------------------------------------------
(* Time, and the handlers that store feeds. *)

Tick ==
    /\ ~tick
    /\ tick' = TRUE
    /\ UNCHANGED <<tableVars, queue, blocked, callerVars, schedVars, mainVars,
                   triggers>>

BecomesDue(f) ==
    /\ f \in rows \ due
    /\ due' = due \cup {f}
    /\ UNCHANGED <<rows, queue, blocked, callerVars, schedVars, tick, mainVars,
                   triggers>>

\* Handlers under way go on while main shuts the server down and waits for the
\* scheduler, until the process ends: nothing stops them but their contexts.
Handling == phase # "closed"

MayStore == Handling /\ Cardinality(triggers) < MaxStoring

\* AddFeed and ImportOPML: a row that was never refreshed, which is due.
Subscribe(f) ==
    /\ MayStore
    /\ f \notin rows \cup triggers
    /\ rows' = rows \cup {f}
    /\ due' = due \cup {f}
    /\ triggers' = triggers \cup {f}
    /\ UNCHANGED <<queue, blocked, callerVars, schedVars, tick, mainVars>>

\* handleUpdateFeed stores another feed URL.
EditURL(f) ==
    /\ MayStore
    /\ f \in rows \ triggers
    /\ triggers' = triggers \cup {f}
    /\ UNCHANGED <<tableVars, queue, blocked, callerVars, schedVars, tick, mainVars>>

Delete(f) ==
    /\ Handling
    /\ f \in rows
    /\ rows' = rows \ {f}
    /\ due' = due \ {f}
    /\ UNCHANGED <<queue, blocked, callerVars, schedVars, tick, mainVars, triggers>>

Enqueue(r) == queue' = Append(queue, r)

\* TriggerRefresh: a send that gives up at once when the buffer is full.
TriggerRefresh(f) ==
    /\ f \in triggers
    /\ triggers' = triggers \ {f}
    /\ \/ Len(queue) < QueueCap /\ Enqueue([feed |-> f, from |-> Nobody])
       \/ Len(queue) = QueueCap /\ UNCHANGED queue
    /\ UNCHANGED <<tableVars, blocked, callerVars, schedVars, tick, mainVars>>

--------------------------------------------------------------------------------
(* handleRefreshFeed: TriggerRefreshSync. *)

\* No request of an earlier call is left.
Released(c) ==
    /\ \A i \in 1..Len(queue) : queue[i].from # c
    /\ Refreshing => active.from # c

Call(c, f) ==
    /\ Handling
    /\ at[c] = "idle" /\ Released(c)
    /\ f \in rows
    /\ wants' = [wants EXCEPT ![c] = f]
    /\ answered' = answered \ {c}
    /\ since' = [since EXCEPT ![c] = "none"]
    /\ \/ /\ Len(queue) < QueueCap
          /\ Enqueue([feed |-> f, from |-> c])
          /\ at' = [at EXCEPT ![c] = "waiting"]
          /\ UNCHANGED blocked
       \/ /\ Len(queue) = QueueCap
          /\ blocked' = Append(blocked, c)
          /\ at' = [at EXCEPT ![c] = "sending"]
          /\ UNCHANGED queue
    /\ UNCHANGED <<tableVars, schedVars, tick, mainVars, triggers>>

\* done is closed: the handler renders the feed as the refresh left it.
Reply(c) ==
    /\ at[c] = "waiting"
    /\ c \in answered
    /\ at' = [at EXCEPT ![c] = "idle"]
    /\ UNCHANGED <<tableVars, queue, blocked, wants, answered, since, schedVars,
                   tick, mainVars, triggers>>

\* seq without its i-th element.
Without(seq, i) == [j \in 1..(Len(seq) - 1) |-> IF j < i THEN seq[j] ELSE seq[j + 1]]

\* The request's context is done: the client has gone, or base is cancelled.
\* A send that is still blocked is withdrawn; a request sent stays queued.
Cancel(c) ==
    /\ \/ at[c] = "waiting" /\ UNCHANGED blocked
       \/ /\ at[c] = "sending"
          /\ \E i \in 1..Len(blocked) :
                 blocked[i] = c /\ blocked' = Without(blocked, i)
    /\ at' = [at EXCEPT ![c] = "idle"]
    /\ UNCHANGED <<tableVars, queue, wants, answered, since, schedVars, tick,
                   mainVars, triggers>>

--------------------------------------------------------------------------------
(* main. *)

restVars == <<tableVars, queue, blocked, callerVars, schedVars, tick, triggers>>

Signal ==
    /\ phase = "serving" /\ ~stopping
    /\ stopping' = TRUE
    /\ UNCHANGED <<base, phase, restVars>>

\* Serve returns an error: main cancels the scheduler and waits for it.
ServeFails ==
    /\ phase = "serving"
    /\ stopping' = TRUE
    /\ phase' = "failing"
    /\ UNCHANGED <<base, restVars>>

\* http.Server.Shutdown begins; it runs cancelBase in a goroutine of its own.
Shutdown ==
    /\ phase = "serving" /\ stopping
    /\ phase' = "draining"
    /\ UNCHANGED <<stopping, base, restVars>>

CancelBase ==
    /\ phase = "draining" /\ ~base
    /\ base' = TRUE
    /\ UNCHANGED <<stopping, phase, restVars>>

\* Mutant: the database is closed without waiting for the scheduler.
CloseAtOnce ==
    /\ phase \in {"draining", "failing"}
    /\ phase' = "closed"
    /\ base' = TRUE
    /\ UNCHANGED <<stopping, restVars>>

\* Shutdown has returned, when the handlers had or after shutdownTimeout, and so
\* has wg.Wait; cancelBase and sqlDB.Close are deferred.
Close ==
    /\ phase \in {"draining", "failing"}
    /\ pc = "returned"
    /\ phase' = "closed"
    /\ base' = TRUE
    /\ UNCHANGED <<stopping, restVars>>

\* The process has ended.
Exited == phase = "closed" /\ UNCHANGED vars

--------------------------------------------------------------------------------
Run == List \/ ListFails \/ (\E f \in Feeds : WalkNext(f)) \/ WalkDone \/ FinishRefresh

Next ==
    \/ Run \/ TakeRequest \/ TakeTick \/ Stop
    \/ Tick
    \/ \E f \in Feeds : \/ BecomesDue(f) \/ Subscribe(f) \/ EditURL(f)
                        \/ Delete(f) \/ TriggerRefresh(f)
    \/ \E c \in Callers : \/ \E f \in Feeds : Call(c, f)
                          \/ Reply(c) \/ Cancel(c)
    \/ Signal \/ ServeFails \/ Shutdown \/ CancelBase \/ Close
    \/ Exited

\* Goroutines that can run do.  The three branches of Run's select are chosen
\* at random among those that are ready, so that none is passed over for ever:
\* strong fairness.  A refresh ends because the HTTP client has a timeout, and
\* a query that lists the feeds does not fail for ever.
\* Clients need not give up, but every handler sees base cancelled.
Fairness ==
    /\ WF_vars(Run) /\ SF_vars(List)
    /\ SF_vars(TakeRequest) /\ SF_vars(TakeTick) /\ SF_vars(Stop)
    /\ WF_vars(Tick)
    /\ \A c \in Callers : WF_vars(Reply(c)) /\ WF_vars(base /\ Cancel(c))
    /\ WF_vars(Shutdown) /\ WF_vars(CancelBase) /\ WF_vars(Close)

Spec == Init /\ [][Next]_vars /\ Fairness
--------------------------------------------------------------------------------
(* Properties *)

\* A caller that waits for its answer has its request in the queue or under
\* way: no order of sends, receives, cancelled clients and shutdown steps
\* loses it (TriggerRefreshSync, scheduler.go:109).
NoLostRequest ==
    \A c \in Callers :
        (at[c] = "waiting" /\ c \notin answered)
            => Queued(RequestOf(c)) \/ (Refreshing /\ active = RequestOf(c))

\* A caller that is answered renders the feed's "post-refresh state"
\* (scheduler.go:111): a refresh of its feed has begun and ended since it
\* called, even if another one was under way when it did.
AnsweredAfterRefresh ==
    \A c \in Callers :
        (at[c] = "waiting" /\ c \in answered) => since[c] = "finished"

\* "Waits for the scheduler's currently active refresh (if any) to finish ...
\* before we return and close the DB" (main.go:114): the database is closed
\* under no refresh, on either way out of main.
FinishBeforeClose ==
    phase = "closed" => ~Refreshing /\ pc # "list"

\* No caller of TriggerRefreshSync waits for ever: it is answered, or released
\* by the end of the program, with the queue full or not.
CallersReturn == \A c \in Callers : at[c] # "idle" ~> at[c] = "idle"

\* The program ends after a signal or a failing listener: neither waiting
\* callers nor queued requests keep main from closing the database.
ShutdownCompletes == stopping ~> phase = "closed"

\* A due feed is refreshed however many manual requests, for this or for another
\* feed, compete with the ticker: a feed that was stored while another's request
\* filled the queue, and whose own was dropped, too (scheduler.go:99-107, 140-150).
DueFeedsRefreshed ==
    \A f \in Feeds :
        f \in due ~> (f \notin due \/ (Refreshing /\ active.feed = f) \/ stopping)

Service == INSTANCE RefreshService WITH
    current  <- IF Refreshing THEN {active.feed} ELSE {},
    wish     <- wants,
    progress <- since,
    done     <- answered,
    closed   <- phase = "closed"

\* The queue, the ticker, callers that go away and the shutdown together keep
\* what TriggerRefreshSync and main promise (scheduler.go:109, main.go:114): one
\* refresh at a time, done closed by a refresh that began after the call, also
\* when the caller has left or blocks on a full queue, and none after Close.
ImplementsRefreshService == Service!Spec
================================================================================
