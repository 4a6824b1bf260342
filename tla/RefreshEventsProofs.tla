-------------------------- MODULE RefreshEventsProofs --------------------------
(***************************************************************************)
(* That no sidebar sleeps through a change, for every number of feeds and  *)
(* streams.                                                                *)
(***************************************************************************)
EXTENDS RefreshEvents, TLAPS

\* A sidebar between its read and its sleep, too, has the current state in
\* last unless its channel has been or is about to be closed.
TreeInv ==
    \A s \in TreeStreams :
        (pc[s] \in {"write", "wait"} /\ ~notified[s] /\ ~pending)
            => last[s] = refreshing

\* The control states, values and flags of scheduler and streams stay in their
\* ranges.
THEOREM TypeCorrect == Spec => []TypeOK
<1>1. Init => TypeOK
  BY StreamAssumption DEF Init, TypeOK, States
<1>2. TypeOK /\ [Next]_vars => TypeOK'
  <2> SUFFICES ASSUME TypeOK, [Next]_vars PROVE TypeOK'
    OBVIOUS
  <2> USE StreamAssumption DEF TypeOK, States, Streams
  <2>1. ASSUME NEW f \in Feeds, Start(f) PROVE TypeOK'
    BY <2>1 DEF Start, Store, streamVars
  <2>2. CASE Finish
    BY <2>2 DEF Finish, Store, streamVars
  <2>3. CASE Broadcast
    BY <2>3 DEF Broadcast
  <2>4. ASSUME NEW s \in Streams, Connect(s) \/ Leave(s) PROVE TypeOK'
    BY <2>4 DEF Connect, Leave, GoTo
  <2>5. ASSUME NEW s \in TreeStreams, TreeGrab(s) PROVE TypeOK'
    BY <2>5 DEF TreeGrab, TakeChannel, GoTo
  <2>6. ASSUME NEW s \in TreeStreams, TreeRead(s) PROVE TypeOK'
    BY <2>6 DEF TreeRead, ReadState, GoTo
  <2>7. ASSUME NEW s \in TreeStreams, TreeWrite(s) \/ TreeSkip(s) PROVE TypeOK'
    BY <2>7 DEF TreeWrite, TreeSkip, GoTo
  <2>8. ASSUME NEW s \in FeedStreams, FeedRead(s) PROVE TypeOK'
    BY <2>8 DEF FeedRead, ReadState, BadgeState, GoTo
  <2>9. ASSUME NEW s \in FeedStreams, FeedWrite(s) \/ FeedGrab(s) PROVE TypeOK'
    BY <2>9 DEF FeedWrite, FeedGrab, TakeChannel, GoTo
  <2>10. CASE UNCHANGED vars
    BY <2>10 DEF vars
  <2> QED
    BY <2>1, <2>2, <2>3, <2>4, <2>5, <2>6, <2>7, <2>8, <2>9, <2>10
    DEF Next, Scheduler, TreeStep, FeedStep
<1>3. QED
  BY <1>1, <1>2, PTL DEF Spec

\* handler.go:784: with the channel taken before the state is read, a sidebar
\* that sleeps has seen the state there is, whatever the scheduler does.
THEOREM NoMissedChange == Spec => []TreeNoMissedChange
<1>1. Init => TreeInv
  BY DEF Init, TreeInv, Streams
<1>2. TypeOK /\ TreeInv /\ [Next]_vars => TreeInv'
  <2> SUFFICES ASSUME TypeOK, TreeInv, [Next]_vars PROVE TreeInv'
    OBVIOUS
  <2> USE StreamAssumption DEF TypeOK, TreeInv, Streams
  <2>1. ASSUME NEW v, Store(v) PROVE TreeInv'
    BY <2>1 DEF Store
  <2>2. CASE Broadcast
    BY <2>2 DEF Broadcast
  <2>3. ASSUME NEW s \in Streams, Connect(s) \/ Leave(s) PROVE TreeInv'
    BY <2>3 DEF Connect, Leave, GoTo
  <2>4. ASSUME NEW s \in TreeStreams, TreeGrab(s) PROVE TreeInv'
    BY <2>4 DEF TreeGrab, TakeChannel, GoTo
  <2>5. ASSUME NEW s \in TreeStreams, TreeRead(s) PROVE TreeInv'
    BY <2>5 DEF TreeRead, ReadState, GoTo
  <2>6. ASSUME NEW s \in TreeStreams, TreeWrite(s) \/ TreeSkip(s) PROVE TreeInv'
    BY <2>6 DEF TreeWrite, TreeSkip, GoTo
  <2>7. ASSUME NEW s \in FeedStreams, FeedStep(s) PROVE TreeInv'
    BY <2>7 DEF FeedStep, FeedRead, FeedWrite, FeedGrab, ReadState, TakeChannel, GoTo
  <2>8. CASE UNCHANGED vars
    BY <2>8 DEF vars
  <2> QED
    BY <2>1, <2>2, <2>3, <2>4, <2>5, <2>6, <2>7, <2>8
    DEF Next, Scheduler, Start, Finish, TreeStep
<1>3. TreeInv => TreeNoMissedChange
  BY DEF TreeInv, TreeNoMissedChange, Asleep
<1>4. QED
  BY <1>1, <1>2, <1>3, TypeCorrect, PTL DEF Spec

--------------------------------------------------------------------------------
(* The safety part of the refinement. *)

Online == {s \in TreeStreams : pc[s] \notin {"off", "open", "first"}}
View == [s \in TreeStreams |-> last[s]]

\* A step that touches no sidebar's last, nor whether it has begun, stutters.
LEMMA Stutters ==
    ASSUME UNCHANGED refreshing,
           \A s \in TreeStreams : last'[s] = last[s] /\ (s \in Online <=> s \in Online')
    PROVE  UNCHANGED Indicator!vars
BY DEF Indicator!vars, Online

\* A sidebar that reads the state joins the abstract observers, observes the new
\* value, or stutters.
LEMMA ReadRefines ==
    ASSUME TypeOK, NEW s \in TreeStreams, TreeRead(s)
    PROVE  [Indicator!Next]_(Indicator!vars)
<1> USE StreamAssumption DEF TypeOK, Streams
<1>1. refreshing' = refreshing /\ last' = [last EXCEPT ![s] = refreshing]
  BY DEF TreeRead, ReadState
<1>2. pc' = [pc EXCEPT ![s] = IF pc[s] = "first" \/ refreshing # last[s] THEN "write" ELSE "wait"]
  BY DEF TreeRead, ReadState, GoTo
<1>3. View' = [View EXCEPT ![s] = refreshing]
  BY <1>1 DEF View
<1>4. CASE pc[s] = "first"
  <2>1. s \notin Online /\ Online' = Online \cup {s}
    BY <1>2, <1>4 DEF Online
  <2> QED
    BY <1>1, <1>3, <2>1 DEF Indicator!Next, Indicator!Join, Online, View
<1>5. CASE pc[s] = "read"
  <2>1. s \in Online /\ Online' = Online
    BY <1>2, <1>5 DEF Online
  <2>2. CASE last[s] # refreshing
    BY <1>1, <1>3, <2>1, <2>2 DEF Indicator!Next, Indicator!Observe, Online, View
  <2>3. CASE last[s] = refreshing
    BY <1>1, <2>1, <2>3, Stutters
  <2> QED
    BY <2>2, <2>3
<1> QED
  BY <1>4, <1>5 DEF TreeRead

\* Each step of scheduler and streams is a step of the abstract indicator: the
\* value changes, a sidebar joins, observes or leaves, or nothing happens.
LEMMA StepRefines == TypeOK /\ [Next]_vars => [Indicator!Next]_(Indicator!vars)
<1> SUFFICES ASSUME TypeOK, [Next]_vars PROVE [Indicator!Next]_(Indicator!vars)
  OBVIOUS
<1> USE StreamAssumption DEF TypeOK, Streams
<1>1. ASSUME NEW v \in States, Store(v), v # refreshing PROVE Indicator!Next
  <2>1. refreshing' \in States \ {refreshing} /\ View' = View /\ Online' = Online
    BY <1>1 DEF Store, streamVars, View, Online
  <2> QED
    BY <2>1 DEF Indicator!Next, Indicator!Change, View, Online
<1>2. CASE \E f \in Feeds : Start(f)
  BY <1>1, <1>2 DEF Start, States
<1>3. CASE Finish
  BY <1>1, <1>3 DEF Finish, States
<1>4. CASE Broadcast
  BY <1>4, Stutters DEF Broadcast, Online
<1>5. ASSUME NEW s \in Streams, Connect(s) PROVE UNCHANGED Indicator!vars
  BY <1>5, Stutters DEF Connect, GoTo, Online
<1>6. ASSUME NEW s \in Streams, Leave(s) PROVE [Indicator!Next]_(Indicator!vars)
  <2>1. CASE s \in TreeStreams
    <3>1. s \in Online /\ Online' = Online \ {s} /\ View' = View /\ refreshing' = refreshing
      BY <1>6, <2>1 DEF Leave, GoTo, Online, View
    <3> QED
      BY <2>1, <3>1 DEF Indicator!Next, Indicator!Leave, Online, View
  <2>2. CASE s \notin TreeStreams
    BY <1>6, <2>2, Stutters DEF Leave, GoTo, Online
  <2> QED
    BY <2>1, <2>2
<1>7. ASSUME NEW s \in TreeStreams, TreeGrab(s) PROVE UNCHANGED Indicator!vars
  BY <1>7, Stutters DEF TreeGrab, TakeChannel, GoTo, Online
<1>8. ASSUME NEW s \in TreeStreams, TreeWrite(s) \/ TreeSkip(s) PROVE UNCHANGED Indicator!vars
  BY <1>8, Stutters DEF TreeWrite, TreeSkip, GoTo, Online
<1>9. ASSUME NEW s \in FeedStreams, FeedStep(s) PROVE UNCHANGED Indicator!vars
  BY <1>9, Stutters
  DEF FeedStep, FeedRead, FeedWrite, FeedGrab, ReadState, TakeChannel, GoTo, Online
<1>10. CASE UNCHANGED vars
  BY <1>10, Stutters DEF vars, Online
<1> QED
  BY <1>2, <1>3, <1>4, <1>5, <1>6, <1>7, <1>8, <1>9, <1>10, ReadRefines
  DEF Next, Scheduler, TreeStep

\* handler.go:718-731, safety: what the sidebars saw last follows the feed being
\* refreshed as the abstract indicator promises, for any number of feeds and
\* streams; that each of them keeps looking rests on fairness.
THEOREM IndicatorSteps == Spec => Indicator!Init /\ [][Indicator!Next]_(Indicator!vars)
<1>1. Init => Indicator!Init
  BY DEF Init, Indicator!Init, Streams
<1>2. TypeOK /\ [Next]_vars => [Indicator!Next]_(Indicator!vars)
  BY StepRefines
<1>3. QED
  BY <1>1, <1>2, TypeCorrect, PTL DEF Spec
================================================================================
