---------------------------- MODULE SchedulerProofs ----------------------------
(***************************************************************************)
(* For every number of feeds, callers and queue slots: the scheduler and   *)
(* its queue stay well formed, no waiting caller's request is lost, an     *)
(* answer follows a refresh that began after the call, the database is     *)
(* closed under no refresh, and all this implements the refresh service.   *)
(***************************************************************************)
EXTENDS Scheduler, TLAPS

\* Cancelling a blocked send leaves the other senders in their order.
LEMMA WithoutType ==
    ASSUME NEW S, NEW seq \in Seq(S), NEW i \in 1..Len(seq)
    PROVE  /\ Without(seq, i) \in Seq(S)
           /\ Len(Without(seq, i)) = Len(seq) - 1
           /\ \A j \in 1..(Len(seq) - 1) :
                  Without(seq, i)[j] = IF j < i THEN seq[j] ELSE seq[j + 1]
<1>1. Len(seq) - 1 \in Nat
  OBVIOUS
<1>2. \A j \in 1..(Len(seq) - 1) : (IF j < i THEN seq[j] ELSE seq[j + 1]) \in S
  OBVIOUS
<1>3. QED
  BY <1>1, <1>2 DEF Without

\* A sequence without repetitions has none when an element is taken out.
LEMMA WithoutInjective ==
    ASSUME NEW S, NEW seq \in Seq(S), NEW k \in 1..Len(seq),
           \A i, j \in 1..Len(seq) : seq[i] = seq[j] => i = j
    PROVE  \A i, j \in 1..(Len(seq) - 1) :
               Without(seq, k)[i] = Without(seq, k)[j] => i = j
<1> SUFFICES ASSUME NEW i \in 1..(Len(seq) - 1), NEW j \in 1..(Len(seq) - 1),
                    Without(seq, k)[i] = Without(seq, k)[j]
             PROVE  i = j
  OBVIOUS
<1>1. /\ i \in 1..Len(seq) /\ i + 1 \in 1..Len(seq)
      /\ j \in 1..Len(seq) /\ j + 1 \in 1..Len(seq)
  OBVIOUS
<1>2. (IF i < k THEN seq[i] ELSE seq[i + 1]) = (IF j < k THEN seq[j] ELSE seq[j + 1])
  BY WithoutType
<1>3. CASE i < k /\ j < k
  BY <1>1, <1>2, <1>3
<1>4. CASE i < k /\ ~(j < k)
  <2>1. i = j + 1
    BY <1>1, <1>2, <1>4
  <2> QED BY <1>4, <2>1
<1>5. CASE ~(i < k) /\ j < k
  <2>1. i + 1 = j
    BY <1>1, <1>2, <1>5
  <2> QED BY <1>5, <2>1
<1>6. CASE ~(i < k) /\ ~(j < k)
  <2>1. i + 1 = j + 1
    BY <1>1, <1>2, <1>6
  <2> QED BY <2>1
<1> QED BY <1>3, <1>4, <1>5, <1>6

\* What a send and a receive do to the elements of a queue.
LEMMA AppendFacts ==
    ASSUME NEW S, NEW seq \in Seq(S), NEW e \in S
    PROVE  /\ Append(seq, e) \in Seq(S)
           /\ Len(Append(seq, e)) = Len(seq) + 1
           /\ \A i \in 1..Len(seq) : Append(seq, e)[i] = seq[i]
           /\ Append(seq, e)[Len(seq) + 1] = e
  OBVIOUS

LEMMA TailFacts ==
    ASSUME NEW S, NEW seq \in Seq(S), seq # <<>>
    PROVE  /\ Head(seq) \in S /\ Head(seq) = seq[1]
           /\ Tail(seq) \in Seq(S)
           /\ Len(seq) \in Nat \ {0}
           /\ Len(Tail(seq)) = Len(seq) - 1
           /\ \A i \in 1..Len(Tail(seq)) : Tail(seq)[i] = seq[i + 1]
  OBVIOUS

LEMMA RequestFacts ==
    /\ \A f \in Feeds, c \in Callers \cup {Nobody} :
           [feed |-> f, from |-> c] \in Requests
    /\ \A r \in Requests : r.feed \in Feeds /\ r.from \in Callers \cup {Nobody}
    /\ NoRequest \notin Requests
  BY SchedulerAssumption DEF Requests

\* The control states, requests and sets stay in their ranges, and the queue
\* within its capacity.
THEOREM TypeCorrect == Spec => []TypeOK
<1>1. Init => TypeOK
  <2> SUFFICES ASSUME Init PROVE TypeOK
    OBVIOUS
  <2>1. (CHOOSE f \in Feeds : TRUE) \in Feeds
    BY SchedulerAssumption
  <2>2. wants \in [Callers -> Feeds]
    BY <2>1 DEF Init
  <2>3. /\ queue \in Seq(Requests) /\ Len(queue) <= QueueCap
        /\ blocked \in Seq(Callers)
    BY SchedulerAssumption DEF Init
  <2> QED
    BY <2>2, <2>3 DEF Init, TypeOK, Refreshing
<1>2. TypeOK /\ [Next]_vars => TypeOK'
  <2> SUFFICES ASSUME TypeOK, [Next]_vars PROVE TypeOK'
    OBVIOUS
  <2> USE SchedulerAssumption, RequestFacts
      DEF TypeOK, Refreshing, tableVars, callerVars, schedVars, mainVars
  <2>1. CASE List \/ ListFails \/ WalkDone
    BY <2>1 DEF List, ListFails, WalkDone
  <2>2. ASSUME NEW f \in Feeds, WalkNext(f) PROVE TypeOK'
    BY <2>2 DEF WalkNext, Begin
  <2>3. CASE FinishRefresh
    BY <2>3 DEF FinishRefresh, Answers
  <2>4. CASE TakeRequest
    <3>1. Head(queue) \in Requests /\ Tail(queue) \in Seq(Requests)
          /\ Len(Tail(queue)) = Len(queue) - 1
      BY <2>4, TailFacts DEF TakeRequest
    <3>2. CASE blocked = <<>>
      <4>1. queue' \in Seq(Requests) /\ Len(queue') <= QueueCap /\ blocked' = blocked
        <5>1. queue' = Tail(queue) /\ blocked' = blocked
          BY <2>4, <3>2 DEF TakeRequest
        <5>2. Len(queue) \in Nat /\ Len(queue) <= QueueCap
          OBVIOUS
        <5>3. Len(Tail(queue)) <= QueueCap
          BY <3>1, <5>2
        <5> QED BY <3>1, <5>1, <5>3
      <4>2. at' = at /\ since' \in [Callers -> {"none", "started", "finished"}]
        BY <2>4, <3>2 DEF TakeRequest, Begin
      <4>3. active' \in Requests /\ pc' = "manualRefresh"
        BY <2>4, <3>1 DEF TakeRequest, Begin
      <4>4. UNCHANGED <<tableVars, wants, answered, todo, tick, mainVars, triggers>>
        BY <2>4 DEF TakeRequest
      <4> QED BY <4>1, <4>2, <4>3, <4>4
    <3>3. CASE blocked # <<>>
      <4>1. Head(blocked) \in Callers /\ Tail(blocked) \in Seq(Callers)
        BY <3>3, TailFacts
      <4>2. RequestOf(Head(blocked)) \in Requests
        BY <4>1 DEF RequestOf
      <4>3. /\ Append(Tail(queue), RequestOf(Head(blocked))) \in Seq(Requests)
            /\ Len(Append(Tail(queue), RequestOf(Head(blocked)))) = Len(queue)
        BY <3>1, <4>2, AppendFacts
      <4> QED
        <5>1. /\ queue' \in Seq(Requests) /\ Len(queue') <= QueueCap
              /\ blocked' \in Seq(Callers)
          BY <2>4, <3>3, <4>1, <4>3 DEF TakeRequest
        <5>2. /\ at' \in [Callers -> {"idle", "sending", "waiting"}]
              /\ since' \in [Callers -> {"none", "started", "finished"}]
          BY <2>4, <3>3, <4>1 DEF TakeRequest, Begin
        <5>3. active' \in Requests /\ pc' = "manualRefresh"
          BY <2>4, <3>1 DEF TakeRequest, Begin
        <5>4. UNCHANGED <<tableVars, wants, answered, todo, tick, mainVars, triggers>>
          BY <2>4 DEF TakeRequest
        <5> QED BY <5>1, <5>2, <5>3, <5>4
    <3> QED BY <3>2, <3>3
  <2>5. CASE TakeTick \/ Stop \/ Tick
    BY <2>5 DEF TakeTick, Stop, Tick
  <2>6. ASSUME NEW f \in Feeds,
               BecomesDue(f) \/ Subscribe(f) \/ EditURL(f) \/ Delete(f)
        PROVE  TypeOK'
    BY <2>6 DEF BecomesDue, Subscribe, EditURL, Delete
  <2>7. ASSUME NEW f \in Feeds, TriggerRefresh(f) PROVE TypeOK'
    <3> DEFINE r == [feed |-> f, from |-> Nobody]
    <3>1. /\ Append(queue, r) \in Seq(Requests)
          /\ Len(Append(queue, r)) = Len(queue) + 1
      BY AppendFacts
    <3>2. queue' \in Seq(Requests) /\ Len(queue') <= QueueCap
      <4>1. CASE Len(queue) < QueueCap /\ Enqueue(r)
        BY <4>1, <3>1 DEF Enqueue
      <4>2. CASE UNCHANGED queue
        BY <4>2
      <4> QED BY <2>7, <4>1, <4>2 DEF TriggerRefresh
    <3> QED
      BY <2>7, <3>2 DEF TriggerRefresh
  <2>8. ASSUME NEW c \in Callers, NEW f \in Feeds, Call(c, f) PROVE TypeOK'
    <3> DEFINE r == [feed |-> f, from |-> c]
    <3>1. /\ Append(queue, r) \in Seq(Requests)
          /\ Len(Append(queue, r)) = Len(queue) + 1
          /\ Append(blocked, c) \in Seq(Callers)
      BY AppendFacts
    <3>2. /\ queue' \in Seq(Requests) /\ Len(queue') <= QueueCap
          /\ blocked' \in Seq(Callers)
      <4>1. CASE Len(queue) < QueueCap /\ Enqueue(r) /\ UNCHANGED blocked
        BY <4>1, <3>1 DEF Enqueue
      <4>2. CASE blocked' = Append(blocked, c) /\ UNCHANGED queue
        BY <4>2, <3>1
      <4> QED BY <2>8, <4>1, <4>2 DEF Call
    <3>3. at' \in [Callers -> {"idle", "sending", "waiting"}]
      BY <2>8 DEF Call
    <3> QED
      BY <2>8, <3>2, <3>3 DEF Call
  <2>9. ASSUME NEW c \in Callers, Reply(c) PROVE TypeOK'
    BY <2>9 DEF Reply
  <2>10. ASSUME NEW c \in Callers, Cancel(c) PROVE TypeOK'
    BY <2>10, WithoutType DEF Cancel
  <2>11. CASE Signal \/ ServeFails \/ Shutdown
    BY <2>11 DEF Signal, ServeFails, Shutdown, restVars
  <2>12. CASE CancelBase \/ Close
    BY <2>12 DEF CancelBase, Close, restVars
  <2>13. CASE UNCHANGED vars
    BY <2>13 DEF vars
  <2> QED
    BY <2>1, <2>2, <2>3, <2>4, <2>5, <2>6, <2>7, <2>8, <2>9, <2>10, <2>11, <2>12, <2>13
    DEF Next, Run, Exited
<1>3. QED
  BY <1>1, <1>2, PTL DEF Spec

--------------------------------------------------------------------------------
\* A send keeps what is queued and adds the request.
LEMMA QueuedByAppend ==
    ASSUME NEW r \in Requests, queue \in Seq(Requests), queue' = Append(queue, r)
    PROVE  \A q : Queued(q) \/ q = r => Queued(q)'
<1> SUFFICES ASSUME NEW q, Queued(q) \/ q = r PROVE Queued(q)'
  OBVIOUS
<1>1. /\ Len(queue') = Len(queue) + 1 /\ Len(queue) \in Nat
      /\ \A i \in 1..Len(queue) : queue'[i] = queue[i]
      /\ queue'[Len(queue) + 1] = r
  BY AppendFacts
<1>2. CASE q = r
  <2>1. Len(queue) + 1 \in 1..Len(queue')
    BY <1>1
  <2> QED BY <1>1, <1>2, <2>1 DEF Queued
<1>3. CASE Queued(q)
  BY <1>1, <1>3 DEF Queued
<1> QED BY <1>2, <1>3

\* A receive takes the head and nothing else.
LEMMA QueuedByTail ==
    ASSUME NEW q, queue \in Seq(Requests), queue # <<>>, Queued(q), q # Head(queue)
    PROVE  \E i \in 1..Len(Tail(queue)) : Tail(queue)[i] = q
<1>1. PICK i \in 1..Len(queue) : queue[i] = q
  BY DEF Queued
<1>2. i # 1 /\ i - 1 \in 1..Len(Tail(queue)) /\ Tail(queue)[i - 1] = queue[i]
  BY <1>1, TailFacts
<1> QED BY <1>1, <1>2

\* scheduler.go:109: whatever sends, receives, cancellations and shutdown steps
\* fall between, a caller of TriggerRefreshSync that waits and is not answered
\* has its request queued or under way.
THEOREM RequestsAreKept == Spec => []NoLostRequest
<1>1. Init => NoLostRequest
  BY DEF Init, NoLostRequest
<1>2. TypeOK /\ NoLostRequest /\ [Next]_vars => NoLostRequest'
  <2> SUFFICES ASSUME TypeOK, NoLostRequest, [Next]_vars,
                      NEW c \in Callers,
                      at'[c] = "waiting", c \notin answered'
               PROVE  (Queued(RequestOf(c)) \/ (Refreshing /\ active = RequestOf(c)))'
    BY DEF NoLostRequest
  <2> DEFINE Kept == Queued(RequestOf(c)) \/ (Refreshing /\ active = RequestOf(c))
  <2> USE DEF tableVars, callerVars, schedVars, mainVars
  <2>0. queue \in Seq(Requests) /\ blocked \in Seq(Callers)
        /\ at \in [Callers -> {"idle", "sending", "waiting"}]
        /\ wants \in [Callers -> Feeds]
    BY DEF TypeOK
  <2>1. ASSUME UNCHANGED <<queue, at, wants, answered>>,
               UNCHANGED <<pc, active>> \/ ~Refreshing
        PROVE  Kept'
    BY <2>1 DEF NoLostRequest, Queued, RequestOf, Refreshing
  <2>2. CASE List \/ ListFails \/ WalkDone \/ TakeTick \/ Stop \/ Tick
    BY <2>1, <2>2 DEF List, ListFails, WalkDone, TakeTick, Stop, Tick, Refreshing
  <2>3. ASSUME NEW f \in Feeds, WalkNext(f) PROVE Kept'
    BY <2>1, <2>3 DEF WalkNext, Begin, Refreshing
  <2>4. CASE FinishRefresh
    <3>1. UNCHANGED <<queue, at, wants>> /\ c \notin answered
      BY <2>4 DEF FinishRefresh
    <3>2. active # RequestOf(c)
      <4>1. c # Nobody
        BY SchedulerAssumption
      <4> QED
        BY <2>4, <4>1 DEF FinishRefresh, Answers, RequestOf
    <3> QED
      BY <3>1, <3>2 DEF NoLostRequest, Queued, RequestOf
  <2>5. CASE TakeRequest
    <3>1. /\ queue # <<>> /\ ~Refreshing /\ Refreshing' /\ active' = Head(queue)
          /\ UNCHANGED <<wants, answered>>
      BY <2>5 DEF TakeRequest, Begin, Refreshing
    <3>2. CASE blocked = <<>>
      <4>1. queue' = Tail(queue) /\ at' = at
        BY <2>5, <3>2 DEF TakeRequest
      <4>2. Queued(RequestOf(c))
        BY <3>1, <4>1 DEF NoLostRequest
      <4> QED
        BY <2>0, <3>1, <4>1, <4>2, QueuedByTail DEF Queued, RequestOf
    <3>3. CASE blocked # <<>>
      <4> DEFINE h == Head(blocked)
      <4>1. /\ queue' = Append(Tail(queue), RequestOf(h))
            /\ at' = [at EXCEPT ![h] = "waiting"]
        BY <2>5, <3>3 DEF TakeRequest
      <4>2. h \in Callers /\ Tail(queue) \in Seq(Requests)
        BY <2>0, <3>1, <3>3, TailFacts
      <4>3. RequestOf(h) \in Requests
        BY <2>0, <4>2, RequestFacts DEF RequestOf
      <4>4. /\ Len(queue') = Len(Tail(queue)) + 1 /\ Len(Tail(queue)) \in Nat
            /\ \A i \in 1..Len(Tail(queue)) : queue'[i] = Tail(queue)[i]
            /\ queue'[Len(Tail(queue)) + 1] = RequestOf(h)
        BY <4>1, <4>2, <4>3, AppendFacts
      <4>5. CASE c = h
        <5>1. Len(Tail(queue)) + 1 \in 1..Len(queue')
          BY <4>4
        <5>2. RequestOf(c)' = RequestOf(h)
          BY <3>1, <4>5 DEF RequestOf
        <5>3. queue'[Len(Tail(queue)) + 1] = RequestOf(c)'
          BY <4>4, <5>2
        <5>4. Queued(RequestOf(c))'
          BY <5>1, <5>3 DEF Queued
        <5> QED BY <5>4
      <4>6. CASE c # h
        <5>1. Queued(RequestOf(c))
          BY <2>0, <3>1, <4>1, <4>2, <4>6 DEF NoLostRequest
        <5>2. CASE RequestOf(c) = Head(queue)
          BY <3>1, <5>2 DEF RequestOf
        <5>3. CASE RequestOf(c) # Head(queue)
          <6>1. PICK i \in 1..Len(Tail(queue)) : Tail(queue)[i] = RequestOf(c)
            BY <2>0, <3>1, <5>1, <5>3, QueuedByTail
          <6>2. i \in 1..Len(queue') /\ queue'[i] = RequestOf(c)'
            BY <3>1, <4>4, <6>1 DEF RequestOf
          <6>3. Queued(RequestOf(c))'
            BY <6>2 DEF Queued
          <6> QED BY <6>3
        <5> QED BY <5>2, <5>3
      <4> QED BY <4>5, <4>6
    <3> QED BY <3>2, <3>3
  <2>6. ASSUME NEW f \in Feeds,
               BecomesDue(f) \/ Subscribe(f) \/ EditURL(f) \/ Delete(f)
        PROVE  Kept'
    BY <2>1, <2>6 DEF BecomesDue, Subscribe, EditURL, Delete
  <2>7. ASSUME NEW f \in Feeds, TriggerRefresh(f) PROVE Kept'
    <3>1. UNCHANGED <<at, wants, answered, pc, active>>
      BY <2>7 DEF TriggerRefresh
    <3>2. \A q : Queued(q) => Queued(q)'
      <4>1. [feed |-> f, from |-> Nobody] \in Requests
        BY RequestFacts
      <4>2. CASE UNCHANGED queue
        BY <4>2 DEF Queued
      <4> QED
        BY <2>0, <2>7, <4>1, <4>2, QueuedByAppend DEF TriggerRefresh, Enqueue
    <3> QED
      BY <3>1, <3>2 DEF NoLostRequest, RequestOf, Refreshing
  <2>8. ASSUME NEW d \in Callers, NEW f \in Feeds, Call(d, f) PROVE Kept'
    <3> DEFINE r == [feed |-> f, from |-> d]
    <3>1. r \in Requests
      BY RequestFacts
    <3>2. \A q : Queued(q) => Queued(q)'
      <4>1. CASE UNCHANGED queue
        BY <4>1 DEF Queued
      <4> QED
        BY <2>0, <2>8, <3>1, <4>1, QueuedByAppend DEF Call, Enqueue
    <3>3. CASE c = d
      <4>1. queue' = Append(queue, r) /\ wants'[c] = f
        BY <2>0, <2>8, <3>3 DEF Call, Enqueue
      <4> QED
        BY <2>0, <3>1, <3>3, <4>1, QueuedByAppend DEF RequestOf
    <3>4. CASE c # d
      <4>1. at[c] = "waiting" /\ c \notin answered /\ wants'[c] = wants[c]
        BY <2>0, <2>8, <3>4 DEF Call
      <4> QED
        BY <2>8, <3>2, <4>1 DEF Call, NoLostRequest, RequestOf, Refreshing
    <3> QED BY <3>3, <3>4
  <2>9. ASSUME NEW d \in Callers, Reply(d) \/ Cancel(d) PROVE Kept'
    <3>1. UNCHANGED <<queue, wants, answered, pc, active>> /\ at[c] = "waiting"
      BY <2>0, <2>9 DEF Reply, Cancel
    <3> QED
      BY <3>1 DEF NoLostRequest, Queued, RequestOf, Refreshing
  <2>10. CASE Signal \/ ServeFails \/ Shutdown \/ CancelBase \/ Close
    BY <2>1, <2>10
    DEF Signal, ServeFails, Shutdown, CancelBase, Close, restVars
  <2>11. CASE UNCHANGED vars
    BY <2>1, <2>11 DEF vars
  <2> QED
    BY <2>2, <2>3, <2>4, <2>5, <2>6, <2>7, <2>8, <2>9, <2>10, <2>11
    DEF Next, Run, Exited
<1>3. QED
  BY <1>1, <1>2, TypeCorrect, PTL DEF Spec

\* The database is closed only once Run has returned.
ClosedInv == phase = "closed" => pc = "returned"

LEMMA StaysClosed == Spec => []ClosedInv
<1>1. Init => ClosedInv
  BY DEF Init, ClosedInv
<1>2. ClosedInv /\ [Next]_vars => ClosedInv'
  <2> SUFFICES ASSUME ClosedInv, [Next]_vars PROVE ClosedInv'
    OBVIOUS
  <2> USE DEF ClosedInv, tableVars, callerVars, schedVars, mainVars
  <2>1. CASE List \/ ListFails \/ WalkDone \/ FinishRefresh \/ \E f \in Feeds : WalkNext(f)
    BY <2>1 DEF List, ListFails, WalkDone, FinishRefresh, Refreshing, WalkNext
  <2>2. CASE TakeRequest \/ TakeTick \/ Stop \/ Tick
    BY <2>2 DEF TakeRequest, TakeTick, Stop, Tick
  <2>3. ASSUME NEW f \in Feeds,
               \/ BecomesDue(f) \/ Subscribe(f) \/ EditURL(f)
               \/ Delete(f) \/ TriggerRefresh(f)
        PROVE  ClosedInv'
    BY <2>3 DEF BecomesDue, Subscribe, EditURL, Delete, TriggerRefresh
  <2>4. ASSUME NEW c \in Callers,
               (\E f \in Feeds : Call(c, f)) \/ Reply(c) \/ Cancel(c)
        PROVE  ClosedInv'
    BY <2>4 DEF Call, Reply, Cancel
  <2>5. CASE Signal \/ ServeFails \/ Shutdown \/ CancelBase \/ Close
    BY <2>5 DEF Signal, ServeFails, Shutdown, CancelBase, Close, restVars
  <2>6. CASE UNCHANGED vars
    BY <2>6 DEF vars
  <2> QED
    BY <2>1, <2>2, <2>3, <2>4, <2>5, <2>6 DEF Next, Run, Exited
<1>3. QED
  BY <1>1, <1>2, PTL DEF Spec

\* main.go:114: the database is closed only once Run has returned, and a
\* scheduler that has returned starts nothing again.
THEOREM ClosedAfterRefreshes == Spec => []FinishBeforeClose
<1>1. ClosedInv => FinishBeforeClose
  BY DEF ClosedInv, FinishBeforeClose, Refreshing
<1>2. QED
  BY <1>1, StaysClosed, PTL

--------------------------------------------------------------------------------
(* What AnsweredAfterRefresh rests on: a queued or active request names the *)
(* feed its caller wants, and a caller that is still sending has no request *)
(* and no answer from an earlier call.                                      *)

RequestsInv ==
    \A c \in Callers :
        /\ \A i \in 1..Len(queue) : queue[i].from = c => queue[i].feed = wants[c]
        /\ (Refreshing /\ active.from = c)
               => active.feed = wants[c] /\ since[c] # "none"

SendersInv ==
    /\ \A c \in Callers : at[c] = "sending" => Released(c) /\ c \notin answered
    /\ \A i \in 1..Len(blocked) : at[blocked[i]] = "sending"
    /\ \A i, j \in 1..Len(blocked) : blocked[i] = blocked[j] => i = j

AnswerInv == RequestsInv /\ SendersInv /\ AnsweredAfterRefresh

LEMMA RequestsMatch == Spec => []AnswerInv
<1>1. Init => AnswerInv
  BY SchedulerAssumption
  DEF Init, AnswerInv, RequestsInv, SendersInv, AnsweredAfterRefresh, Refreshing
<1>2. TypeOK /\ AnswerInv /\ [Next]_vars => AnswerInv'
  <2> SUFFICES ASSUME TypeOK, AnswerInv, [Next]_vars PROVE AnswerInv'
    OBVIOUS
  <2> USE DEF tableVars, callerVars, schedVars, mainVars
  <2>0. /\ queue \in Seq(Requests) /\ blocked \in Seq(Callers)
        /\ Len(queue) \in Nat /\ Len(blocked) \in Nat
        /\ at \in [Callers -> {"idle", "sending", "waiting"}]
        /\ wants \in [Callers -> Feeds]
        /\ since \in [Callers -> {"none", "started", "finished"}]
        /\ Refreshing => active \in Requests
        /\ Nobody \notin Callers
    BY SchedulerAssumption DEF TypeOK
  <2>1. ASSUME UNCHANGED <<queue, blocked, callerVars>>,
               UNCHANGED <<pc, active>> \/ ~Refreshing'
        PROVE  AnswerInv'
    BY <2>1
    DEF AnswerInv, RequestsInv, SendersInv, AnsweredAfterRefresh, Refreshing, Released
  <2>2. CASE List \/ ListFails \/ WalkDone \/ TakeTick \/ Stop \/ Tick
    BY <2>1, <2>2 DEF List, ListFails, WalkDone, TakeTick, Stop, Tick, Refreshing
  <2>3. ASSUME NEW f \in Feeds, WalkNext(f) PROVE AnswerInv'
    <3>1. /\ UNCHANGED <<queue, blocked, at, wants, answered>>
          /\ active' = [feed |-> f, from |-> Nobody]
          /\ \A c \in Callers : since[c] # "none" => since'[c] = since[c]
      BY <2>3, <2>0 DEF WalkNext, Begin
    <3> QED
      <4>1. RequestsInv'
        BY <2>0, <3>1 DEF AnswerInv, RequestsInv
      <4>2. SendersInv'
        BY <2>0, <3>1 DEF AnswerInv, SendersInv, Released
      <4>3. AnsweredAfterRefresh'
        BY <2>0, <3>1 DEF AnswerInv, AnsweredAfterRefresh
      <4> QED BY <4>1, <4>2, <4>3 DEF AnswerInv
  <2>4. CASE FinishRefresh
    <3>1. /\ UNCHANGED <<queue, blocked, at, wants>>
          /\ Refreshing /\ ~Refreshing'
          /\ \A c \in Callers : c \in answered' => c \in answered \/ active.from = c
          /\ \A c \in Callers :
                 since'[c] = IF wants[c] = active.feed /\ since[c] = "started"
                             THEN "finished" ELSE since[c]
      BY <2>4 DEF FinishRefresh, Answers, Refreshing
    <3>2. RequestsInv'
      BY <3>1 DEF AnswerInv, RequestsInv
    <3>3. SendersInv'
      BY <3>1 DEF AnswerInv, SendersInv, Released
    <3>4. AnsweredAfterRefresh'
      BY <2>0, <3>1 DEF AnswerInv, RequestsInv, AnsweredAfterRefresh
    <3> QED BY <3>2, <3>3, <3>4 DEF AnswerInv
  <2>5. CASE TakeRequest
    <3>1. /\ queue # <<>> /\ ~Refreshing /\ active' = Head(queue)
          /\ UNCHANGED <<wants, answered>>
          /\ \A c \in Callers :
                 since'[c] = IF wants[c] = active'.feed /\ since[c] = "none"
                             THEN "started" ELSE since[c]
      BY <2>5 DEF TakeRequest, Begin, Refreshing
    <3>2. /\ Head(queue) = queue[1] /\ 1 \in 1..Len(queue)
          /\ Tail(queue) \in Seq(Requests) /\ Len(Tail(queue)) \in Nat
          /\ Len(Tail(queue)) = Len(queue) - 1
          /\ \A i \in 1..Len(Tail(queue)) :
                 i + 1 \in 1..Len(queue) /\ Tail(queue)[i] = queue[i + 1]
      BY <2>0, <3>1, TailFacts
    <3>3. \A c \in Callers :
              active'.from = c => active'.feed = wants'[c] /\ since'[c] # "none"
      BY <2>0, <3>1, <3>2 DEF AnswerInv, RequestsInv
    <3>4. CASE blocked = <<>>
      <4>1. queue' = Tail(queue) /\ UNCHANGED <<at, blocked>>
        BY <2>5, <3>4 DEF TakeRequest
      <4>2. RequestsInv'
        BY <3>1, <3>2, <3>3, <4>1 DEF AnswerInv, RequestsInv
      <4>3. SendersInv'
        BY <3>1, <3>2, <4>1 DEF AnswerInv, SendersInv, Released
      <4>4. AnsweredAfterRefresh'
        BY <3>1, <4>1 DEF AnswerInv, AnsweredAfterRefresh
      <4> QED BY <4>2, <4>3, <4>4 DEF AnswerInv
    <3>5. CASE blocked # <<>>
      <4> DEFINE h == Head(blocked)
                 r == RequestOf(h)
      <4>1. /\ queue' = Append(Tail(queue), r)
            /\ at' = [at EXCEPT ![h] = "waiting"]
            /\ blocked' = Tail(blocked)
        BY <2>5, <3>5 DEF TakeRequest
      <4>2. /\ h \in Callers /\ h = blocked[1] /\ 1 \in 1..Len(blocked)
            /\ Len(Tail(blocked)) \in Nat
            /\ \A i \in 1..Len(Tail(blocked)) :
                   i + 1 \in 1..Len(blocked) /\ Tail(blocked)[i] = blocked[i + 1]
        BY <2>0, <3>5, TailFacts
      <4>3. r \in Requests /\ r.feed = wants[h] /\ r.from = h
        BY <2>0, <4>2, RequestFacts DEF RequestOf
      <4>4. /\ Len(queue') = Len(queue)
            /\ \A i \in 1..Len(queue') :
                   \/ i + 1 \in 1..Len(queue) /\ queue'[i] = queue[i + 1]
                   \/ queue'[i] = r
        <5> DEFINE rest == Tail(queue)
        <5>1. /\ Len(queue') = Len(rest) + 1
              /\ \A i \in 1..Len(rest) : queue'[i] = rest[i]
              /\ queue'[Len(rest) + 1] = r
          BY <3>2, <4>1, <4>3, AppendFacts
        <5>2. /\ Len(rest) \in Nat /\ Len(queue) = Len(rest) + 1
              /\ \A i \in 1..Len(rest) : i + 1 \in 1..Len(queue) /\ rest[i] = queue[i + 1]
          BY <2>0, <3>2
        <5> HIDE DEF rest, r
        <5>3. \A i \in 1..Len(queue') : i \in 1..Len(rest) \/ i = Len(rest) + 1
          BY <5>1, <5>2
        <5> QED BY <5>1, <5>2, <5>3
      <4>5. RequestsInv'
        BY <3>1, <3>3, <4>3, <4>4 DEF AnswerInv, RequestsInv
      <4>6. SendersInv'
        <5>1. \A i \in 1..Len(blocked') :
                  /\ i + 1 \in 1..Len(blocked) /\ blocked'[i] = blocked[i + 1]
                  /\ blocked'[i] # h
          BY <2>0, <4>1, <4>2 DEF AnswerInv, SendersInv
        <5>2. \A c \in Callers : at'[c] = "sending" => at[c] = "sending" /\ c # h
          BY <2>0, <4>1, <4>2
        <5>3. \A c \in Callers : at'[c] = "sending" => Released(c)' /\ c \notin answered'
          <6> SUFFICES ASSUME NEW c \in Callers, at'[c] = "sending"
                       PROVE  Released(c)' /\ c \notin answered'
            OBVIOUS
          <6>1. at[c] = "sending" /\ c # h
            BY <5>2
          <6>2. Released(c) /\ c \notin answered
            BY <6>1 DEF AnswerInv, SendersInv
          <6>3. \A i \in 1..Len(queue') : queue'[i].from # c
            BY <4>3, <4>4, <6>1, <6>2 DEF Released
          <6> QED BY <2>0, <3>1, <3>2, <6>2, <6>3 DEF Released, Refreshing
        <5>4. \A i \in 1..Len(blocked') : at'[blocked'[i]] = "sending"
          BY <2>0, <4>1, <4>2, <5>1 DEF AnswerInv, SendersInv
        <5>5. \A i, j \in 1..Len(blocked') : blocked'[i] = blocked'[j] => i = j
          <6>1. Len(blocked') \in Nat
            BY <4>1, <4>2
          <6> QED
            BY <2>0, <5>1, <6>1 DEF AnswerInv, SendersInv
        <5> QED BY <5>3, <5>4, <5>5 DEF SendersInv
      <4>7. AnsweredAfterRefresh'
        <5>1. at[h] = "sending" /\ h \notin answered
          BY <4>2 DEF AnswerInv, SendersInv
        <5> QED
          BY <2>0, <3>1, <4>1, <5>1 DEF AnswerInv, AnsweredAfterRefresh
      <4> QED BY <4>5, <4>6, <4>7 DEF AnswerInv
    <3> QED BY <3>4, <3>5
  <2>6. ASSUME NEW f \in Feeds,
               BecomesDue(f) \/ Subscribe(f) \/ EditURL(f) \/ Delete(f)
        PROVE  AnswerInv'
    BY <2>1, <2>6 DEF BecomesDue, Subscribe, EditURL, Delete
  <2>7. ASSUME NEW f \in Feeds, TriggerRefresh(f) PROVE AnswerInv'
    <3> DEFINE r == [feed |-> f, from |-> Nobody]
    <3>1. UNCHANGED <<blocked, callerVars, pc, active>>
      BY <2>7 DEF TriggerRefresh
    <3>2. CASE UNCHANGED queue
      BY <2>1, <3>1, <3>2
    <3>3. CASE queue' = Append(queue, r)
      <4>1. r \in Requests /\ r.from = Nobody
        BY RequestFacts
      <4>2. \A i \in 1..Len(queue') :
                (i \in 1..Len(queue) /\ queue'[i] = queue[i]) \/ queue'[i] = r
        BY <2>0, <3>3, <4>1, AppendFacts
      <4> QED
        BY <2>0, <3>1, <4>1, <4>2
        DEF AnswerInv, RequestsInv, SendersInv, AnsweredAfterRefresh, Refreshing, Released
    <3> QED BY <2>7, <3>2, <3>3 DEF TriggerRefresh, Enqueue
  <2>8. ASSUME NEW d \in Callers, NEW f \in Feeds, Call(d, f) PROVE AnswerInv'
    <3> DEFINE r == [feed |-> f, from |-> d]
    <3>1. /\ at[d] = "idle" /\ Released(d)
          /\ wants' = [wants EXCEPT ![d] = f]
          /\ answered' = answered \ {d}
          /\ since' = [since EXCEPT ![d] = "none"]
          /\ UNCHANGED <<pc, active>>
      BY <2>8 DEF Call
    <3>2. CASE Enqueue(r) /\ at' = [at EXCEPT ![d] = "waiting"] /\ UNCHANGED blocked
      <4>1. r \in Requests /\ r.from = d /\ r.feed = f
        BY RequestFacts
      <4>2. \A i \in 1..Len(queue') :
                (i \in 1..Len(queue) /\ queue'[i] = queue[i]) \/ queue'[i] = r
        BY <2>0, <3>2, <4>1, AppendFacts DEF Enqueue
      <4>3. RequestsInv'
        <5>1. ASSUME NEW c \in Callers, c = d PROVE RequestsInv!(c)'
          BY <2>0, <3>1, <4>1, <4>2, <5>1 DEF Released, Refreshing
        <5>2. ASSUME NEW c \in Callers, c # d PROVE RequestsInv!(c)'
          BY <2>0, <3>1, <4>1, <4>2, <5>2 DEF AnswerInv, RequestsInv, Refreshing
        <5> QED BY <5>1, <5>2 DEF RequestsInv
      <4>4. SendersInv'
        <5>1. UNCHANGED blocked /\ \A i \in 1..Len(blocked) : at[blocked[i]] = "sending"
          BY <3>2 DEF AnswerInv, SendersInv
        <5>2. \A i \in 1..Len(blocked) : at'[blocked[i]] = "sending"
          BY <2>0, <3>1, <3>2, <5>1
        <5>3. ASSUME NEW c \in Callers, at'[c] = "sending"
              PROVE  Released(c)' /\ c \notin answered'
          <6>1. c # d /\ at[c] = "sending"
            BY <2>0, <3>2, <5>3
          <6>2. Released(c) /\ c \notin answered
            BY <6>1 DEF AnswerInv, SendersInv
          <6> QED BY <3>1, <4>1, <4>2, <6>1, <6>2 DEF Released, Refreshing
        <5>4. \A i, j \in 1..Len(blocked) : blocked[i] = blocked[j] => i = j
          BY DEF AnswerInv, SendersInv
        <5> QED BY <5>1, <5>2, <5>3, <5>4 DEF SendersInv
      <4>5. AnsweredAfterRefresh'
        BY <2>0, <3>1, <3>2 DEF AnswerInv, AnsweredAfterRefresh
      <4> QED BY <4>3, <4>4, <4>5 DEF AnswerInv
    <3>3. CASE /\ blocked' = Append(blocked, d)
               /\ at' = [at EXCEPT ![d] = "sending"] /\ UNCHANGED queue
      <4>1. RequestsInv'
        BY <2>0, <3>1, <3>3 DEF AnswerInv, RequestsInv, Released, Refreshing
      <4>2. SendersInv'
        <5>1. /\ Len(blocked') = Len(blocked) + 1
              /\ \A i \in 1..Len(blocked) : blocked'[i] = blocked[i]
              /\ blocked'[Len(blocked) + 1] = d
          BY <2>0, <3>3, AppendFacts
        <5>2. \A i \in 1..Len(blocked) : blocked[i] # d
          BY <3>1 DEF AnswerInv, SendersInv
        <5>3. \A c \in Callers : at'[c] = "sending" => Released(c)' /\ c \notin answered'
          BY <2>0, <3>1, <3>3 DEF AnswerInv, SendersInv, Released, Refreshing
        <5>4. \A i \in 1..Len(blocked') : at'[blocked'[i]] = "sending"
          BY <2>0, <3>3, <5>1, <5>2 DEF AnswerInv, SendersInv
        <5>5. \A i, j \in 1..Len(blocked') : blocked'[i] = blocked'[j] => i = j
          BY <2>0, <5>1, <5>2 DEF AnswerInv, SendersInv
        <5> QED BY <5>3, <5>4, <5>5 DEF SendersInv
      <4>3. AnsweredAfterRefresh'
        BY <2>0, <3>1, <3>3 DEF AnswerInv, AnsweredAfterRefresh
      <4> QED BY <4>1, <4>2, <4>3 DEF AnswerInv
    <3> QED BY <2>8, <3>2, <3>3 DEF Call
  <2>9. ASSUME NEW d \in Callers, Reply(d) PROVE AnswerInv'
    <3>1. /\ UNCHANGED <<queue, blocked, wants, answered, since, pc, active>>
          /\ at[d] = "waiting" /\ at' = [at EXCEPT ![d] = "idle"]
      BY <2>9 DEF Reply
    <3> QED
      BY <2>0, <3>1
      DEF AnswerInv, RequestsInv, SendersInv, AnsweredAfterRefresh, Refreshing, Released
  <2>10. ASSUME NEW d \in Callers, Cancel(d) PROVE AnswerInv'
    <3>1. /\ UNCHANGED <<queue, wants, answered, since, pc, active>>
          /\ at' = [at EXCEPT ![d] = "idle"]
      BY <2>10 DEF Cancel
    <3>2. RequestsInv' /\ AnsweredAfterRefresh'
      BY <2>0, <3>1 DEF AnswerInv, RequestsInv, AnsweredAfterRefresh, Refreshing
    <3>3. \A c \in Callers : at'[c] = "sending" => Released(c)' /\ c \notin answered'
      BY <2>0, <3>1 DEF AnswerInv, SendersInv, Released, Refreshing
    <3>4. CASE at[d] = "waiting" /\ UNCHANGED blocked
      BY <2>0, <3>1, <3>2, <3>3, <3>4 DEF AnswerInv, SendersInv
    <3>5. ASSUME NEW k \in 1..Len(blocked),
                 blocked[k] = d, blocked' = Without(blocked, k)
          PROVE  AnswerInv'
      <4>1. /\ Len(blocked') = Len(blocked) - 1
            /\ \A j \in 1..(Len(blocked) - 1) :
                   blocked'[j] = IF j < k THEN blocked[j] ELSE blocked[j + 1]
        <5>1. blocked \in Seq(Callers)
          BY <2>0
        <5>2. /\ Len(Without(blocked, k)) = Len(blocked) - 1
              /\ \A j \in 1..(Len(blocked) - 1) :
                     Without(blocked, k)[j] = IF j < k THEN blocked[j] ELSE blocked[j + 1]
          BY <3>5, <5>1, WithoutType
        <5> QED BY <3>5, <5>2
      <4>2. \A j \in 1..Len(blocked') :
                /\ blocked'[j] \in Callers /\ blocked'[j] # d
                /\ at[blocked'[j]] = "sending"
        <5>1. /\ \A i \in 1..Len(blocked) : blocked[i] \in Callers /\ at[blocked[i]] = "sending"
              /\ \A i \in 1..Len(blocked) : blocked[i] = blocked[k] => i = k
          BY <2>0, <3>5 DEF AnswerInv, SendersInv
        <5>2. Len(blocked) \in Nat
          BY <2>0
        <5> SUFFICES ASSUME NEW j \in 1..Len(blocked')
                     PROVE  /\ blocked'[j] \in Callers /\ blocked'[j] # d
                            /\ at[blocked'[j]] = "sending"
          OBVIOUS
        <5>3. j \in 1..(Len(blocked) - 1) /\ j \in 1..Len(blocked) /\ j + 1 \in 1..Len(blocked)
          BY <4>1, <5>2
        <5>4. PICK i \in 1..Len(blocked) : i # k /\ blocked'[j] = blocked[i]
          <6>1. CASE j < k
            BY <4>1, <5>3, <6>1
          <6>2. CASE ~(j < k)
            BY <4>1, <5>2, <5>3, <6>2
          <6> QED BY <6>1, <6>2
        <5> QED BY <3>5, <5>1, <5>4
      <4>3. \A j \in 1..Len(blocked') : at'[blocked'[j]] = "sending"
        BY <2>0, <3>1, <4>2
      <4>4. \A i, j \in 1..Len(blocked') : blocked'[i] = blocked'[j] => i = j
        <5>1. blocked \in Seq(Callers)
          BY <2>0
        <5>2. \A i, j \in 1..Len(blocked) : blocked[i] = blocked[j] => i = j
          BY DEF AnswerInv, SendersInv
        <5> HIDE DEF AnswerInv, TypeOK
        <5>3. \A i, j \in 1..(Len(blocked) - 1) :
                  Without(blocked, k)[i] = Without(blocked, k)[j] => i = j
          BY <3>5, <5>1, <5>2, WithoutInjective
        <5> QED BY <3>5, <4>1, <5>3
      <4> QED BY <3>2, <3>3, <4>3, <4>4 DEF AnswerInv, SendersInv
    <3> QED BY <2>10, <3>4, <3>5 DEF Cancel
  <2>11. CASE Signal \/ ServeFails \/ Shutdown \/ CancelBase \/ Close
    BY <2>1, <2>11
    DEF Signal, ServeFails, Shutdown, CancelBase, Close, restVars
  <2>12. CASE UNCHANGED vars
    BY <2>1, <2>12 DEF vars
  <2> QED
    BY <2>2, <2>3, <2>4, <2>5, <2>6, <2>7, <2>8, <2>9, <2>10, <2>11, <2>12
    DEF Next, Run, Exited
<1>3. QED
  BY <1>1, <1>2, TypeCorrect, PTL DEF Spec

\* scheduler.go:111: an answered caller renders a state that a whole refresh of
\* its feed, begun after the call, has left, although requests outlive the
\* callers that gave up and refreshes of the same feed overlap the call.
THEOREM AnswersAreFresh == Spec => []AnsweredAfterRefresh
<1>1. AnswerInv => AnsweredAfterRefresh
  BY DEF AnswerInv
<1>2. QED
  BY <1>1, RequestsMatch, PTL

--------------------------------------------------------------------------------
(* The refinement of RefreshService. *)

Current == IF Refreshing THEN {active.feed} ELSE {}

LEMMA ServiceStutters ==
    ASSUME UNCHANGED callerVars, Current' = Current, phase' = "closed" <=> phase = "closed"
    PROVE  UNCHANGED Service!serviceVars
  BY DEF Service!serviceVars, callerVars, Current

\* A refresh begins, out of the queue or because the feed is due.
LEMMA BeginServes ==
    ASSUME ClosedInv, NEW r \in Requests, NEW label \in {"walkRefresh", "manualRefresh"},
           ~Refreshing, pc # "returned", Begin(r, label), UNCHANGED <<wants, answered, phase>>
    PROVE  Service!Next
<1>1. r.feed \in Feeds
  BY RequestFacts
<1>2. Current = {} /\ Current' = {r.feed} /\ phase # "closed" /\ phase' # "closed"
  BY DEF Current, Begin, Refreshing, ClosedInv
<1>3. Service!Begin(r.feed)
  BY <1>2 DEF Service!Begin, Begin, Current
<1> QED BY <1>1, <1>3 DEF Service!Next

\* It ends, and closes done for its caller, who may have gone, at most.
LEMMA FinishServes ==
    ASSUME TypeOK, RequestsInv, FinishRefresh
    PROVE  Service!Next
<1>1. active \in Requests /\ Current = {active.feed} /\ Current' = {}
  BY DEF TypeOK, FinishRefresh, Refreshing, Current
<1>2. since' = [c \in Callers |-> IF wants[c] \in Current /\ since[c] = "started"
                                  THEN "finished" ELSE since[c]]
  BY <1>1 DEF FinishRefresh
<1>3. Answers(active) \in SUBSET {c \in Callers : wants[c] \in Current /\ since'[c] = "finished"}
  <2> SUFFICES ASSUME NEW c, c \in Answers(active)
               PROVE  c \in Callers /\ wants[c] \in Current /\ since'[c] = "finished"
    OBVIOUS
  <2>1. c = active.from /\ c \in Callers
    BY <1>1, RequestFacts DEF Answers
  <2>2. wants[c] = active.feed /\ since[c] \in {"started", "finished"}
    BY <2>1 DEF RequestsInv, FinishRefresh, TypeOK
  <2> QED BY <1>1, <1>2, <2>1, <2>2
<1>4. answered' = answered \cup Answers(active) /\ UNCHANGED <<wants, phase>>
  BY DEF FinishRefresh, mainVars
<1>5. Service!End
  BY <1>1, <1>2, <1>3, <1>4 DEF Service!End, Current
<1> QED BY <1>5 DEF Service!Next

\* Each step is one of the service's, or none that it speaks of.
LEMMA StepServes ==
    ASSUME TypeOK, AnswerInv, ClosedInv, [Next]_vars
    PROVE  [Service!Next]_(Service!serviceVars)
<1> USE DEF tableVars, callerVars, schedVars, mainVars
<1>1. CASE List \/ ListFails \/ WalkDone \/ TakeTick \/ Stop \/ Tick
  <2>1. UNCHANGED callerVars /\ Current' = Current /\ phase' = phase
    BY <1>1 DEF List, ListFails, WalkDone, TakeTick, Stop, Tick, Current, Refreshing
  <2> QED BY <2>1, ServiceStutters
<1>2. ASSUME NEW f \in Feeds, WalkNext(f) PROVE Service!Next
  <2>1. [feed |-> f, from |-> Nobody] \in Requests
    BY RequestFacts
  <2> QED BY <1>2, <2>1, BeginServes DEF WalkNext, Refreshing
<1>3. CASE TakeRequest
  <2>1. Head(queue) \in Requests
    BY <1>3, TailFacts DEF TakeRequest, TypeOK
  <2> QED BY <1>3, <2>1, BeginServes DEF TakeRequest, Refreshing
<1>4. CASE FinishRefresh
  BY <1>4, FinishServes DEF AnswerInv
<1>5. ASSUME NEW f \in Feeds,
             \/ BecomesDue(f) \/ Subscribe(f) \/ EditURL(f)
             \/ Delete(f) \/ TriggerRefresh(f)
      PROVE  UNCHANGED Service!serviceVars
  <2>1. UNCHANGED callerVars /\ Current' = Current /\ phase' = phase
    BY <1>5 DEF BecomesDue, Subscribe, EditURL, Delete, TriggerRefresh, Current, Refreshing
  <2> QED BY <2>1, ServiceStutters
<1>6. ASSUME NEW c \in Callers, NEW f \in Feeds, Call(c, f) PROVE Service!Next
  <2>1. Current' = Current /\ phase' = phase /\ phase # "closed"
    BY <1>6 DEF Call, Current, Refreshing, Handling
  <2>2. Service!Call(c, f)
    BY <1>6, <2>1 DEF Service!Call, Call, Current
  <2> QED BY <2>2 DEF Service!Next
<1>7. ASSUME NEW c \in Callers, Reply(c) \/ Cancel(c) PROVE UNCHANGED Service!serviceVars
  <2>1. UNCHANGED <<wants, answered, since>> /\ Current' = Current /\ phase' = phase
    BY <1>7 DEF Reply, Cancel, Current, Refreshing
  <2> QED BY <2>1 DEF Service!serviceVars, Current
<1>8. CASE Close
  <2>1. /\ UNCHANGED callerVars /\ Current' = Current /\ Current = {}
        /\ phase' = "closed"
    BY <1>8 DEF Close, restVars, Current, Refreshing
  <2>2. Service!Close
    BY <2>1 DEF Service!Close, Current
  <2> QED BY <2>2 DEF Service!Next
<1>9. CASE Signal \/ ServeFails \/ Shutdown \/ CancelBase
  <2>1. UNCHANGED callerVars /\ Current' = Current /\ phase # "closed" /\ phase' # "closed"
    BY <1>9
    DEF Signal, ServeFails, Shutdown, CancelBase, restVars, Current, Refreshing
  <2> QED BY <2>1, ServiceStutters
<1>10. CASE UNCHANGED vars
  <2>1. UNCHANGED callerVars /\ Current' = Current /\ phase' = phase
    BY <1>10 DEF vars, Current, Refreshing
  <2> QED BY <2>1, ServiceStutters
<1> QED
  BY <1>1, <1>2, <1>3, <1>4, <1>5, <1>6, <1>7, <1>8, <1>9, <1>10 DEF Next, Run, Exited

\* scheduler.go:109-150 and main.go:114, safety: for any number of feeds, callers
\* and queue slots the scheduler does what the abstract refresh service does; that
\* every refresh ends rests on fairness.
THEOREM ServiceSteps == Spec => Service!Init /\ [][Service!Next]_(Service!serviceVars)
<1>1. Init => Service!Init
  <2> SUFFICES ASSUME Init PROVE Service!Init
    OBVIOUS
  <2>1. wants \in [Callers -> Feeds]
    BY SchedulerAssumption DEF Init
  <2> QED BY <2>1 DEF Init, Service!Init, Refreshing
<1>2. TypeOK /\ AnswerInv /\ ClosedInv /\ [Next]_vars => [Service!Next]_(Service!serviceVars)
  BY StepServes
<1>3. QED
  BY <1>1, <1>2, TypeCorrect, RequestsMatch, StaysClosed, PTL DEF Spec
================================================================================
