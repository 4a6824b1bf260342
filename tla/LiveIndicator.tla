----------------------------- MODULE LiveIndicator -----------------------------
(***************************************************************************)
(* What a live indicator promises: some value changes now and then, and    *)
(* every observer that stays online keeps looking at it until what it saw  *)
(* last is what is there now.  How observers learn of a change is left     *)
(* open; RefreshEvents shows how the sidebar streams of goread do it.      *)
(***************************************************************************)
CONSTANTS Observers,  \* the connected pages
          Values,     \* what can be observed
          Initial     \* the value at start-up

VARIABLES actual,  \* the value to be shown
          view,    \* view[o]: the value observer o saw last
          online   \* the observers that are connected

vars == <<actual, view, online>>

Init == /\ actual = Initial
        /\ view = [o \in Observers |-> Initial]
        /\ online = {}

Change == /\ actual' \in Values \ {actual}
          /\ UNCHANGED <<view, online>>

\* An observer is given the current value when it joins.
Join(o) == /\ o \notin online
           /\ online' = online \cup {o}
           /\ view' = [view EXCEPT ![o] = actual]
           /\ UNCHANGED actual

Observe(o) == /\ o \in online
              /\ view[o] # actual
              /\ view' = [view EXCEPT ![o] = actual]
              /\ UNCHANGED <<actual, online>>

Leave(o) == /\ o \in online
            /\ online' = online \ {o}
            /\ UNCHANGED <<actual, view>>

Next == \/ Change
        \/ \E o \in Observers : Join(o) \/ Observe(o) \/ Leave(o)

\* No observer is left with an old value while the value rests.
Spec == /\ Init /\ [][Next]_vars
        /\ \A o \in Observers : WF_vars(Observe(o))
================================================================================
