---------------------------- MODULE RefreshService -----------------------------
(***************************************************************************)
(* What the scheduler promises to those who ask for a refresh.  Feeds are  *)
(* refreshed one at a time; done, which a caller waits for, is closed for  *)
(* it by the end of a refresh of its feed that began after its call; and   *)
(* once the database is closed no refresh begins.  Which feed comes next,  *)
(* and how requests reach the scheduler, is left open: Scheduler shows how *)
(* the queue, the ticker and main's shutdown do it.                        *)
(***************************************************************************)
CONSTANTS Feeds, Callers

VARIABLES current,   \* the feed being refreshed: a set with at most one member
          wish,      \* the feed of each caller's latest call
          progress,  \* the first refresh of that feed to begin after the call
          done,      \* the callers whose done is closed
          closed     \* the database is closed

serviceVars == <<current, wish, progress, done, closed>>

Init == /\ current = {}
        /\ wish \in [Callers -> Feeds]
        /\ progress = [c \in Callers |-> "none"]
        /\ done = {}
        /\ closed = FALSE

Call(c, f) == /\ ~closed
              /\ wish' = [wish EXCEPT ![c] = f]
              /\ progress' = [progress EXCEPT ![c] = "none"]
              /\ done' = done \ {c}
              /\ UNCHANGED <<current, closed>>

Begin(f) == /\ ~closed
            /\ current = {} /\ current' = {f}
            /\ progress' = [c \in Callers |-> IF wish[c] = f /\ progress[c] = "none"
                                              THEN "started" ELSE progress[c]]
            /\ UNCHANGED <<wish, done, closed>>

End == /\ current # {} /\ current' = {}
       /\ progress' = [c \in Callers |-> IF wish[c] \in current /\ progress[c] = "started"
                                         THEN "finished" ELSE progress[c]]
       /\ \E asked \in SUBSET {c \in Callers : wish[c] \in current /\ progress'[c] = "finished"} :
             done' = done \cup asked
       /\ UNCHANGED <<wish, closed>>

Close == /\ current = {}
         /\ closed' = TRUE
         /\ UNCHANGED <<current, wish, progress, done>>

Next == \/ \E c \in Callers, f \in Feeds : Call(c, f)
        \/ \E f \in Feeds : Begin(f)
        \/ End \/ Close

\* A refresh that has begun ends.
Spec == Init /\ [][Next]_serviceVars /\ WF_serviceVars(End)
================================================================================
