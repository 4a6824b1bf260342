----------------------------- MODULE RefreshHistory ----------------------------
(***************************************************************************)
(* The feeds table with a history of the refreshes that were cut off.  A   *)
(* refresh stores the validators of what it has fetched first and the      *)
(* articles afterwards, in other transactions, so that an error or the end *)
(* of the process between the two leaves validators without their          *)
(* articles.  lost remembers which.                                        *)
(***************************************************************************)
EXTENDS Refresher

VARIABLE lost  \* history: the versions of each feed whose validators were stored,
               \* and whose articles were not, since its articles last were

\* What the refresh under way has fetched, and is storing: the validators are
\* written, the articles are not.
New == [src |-> fetched.final, ver |-> fetched.ver]
Storing == step \in {"syncLoad", "syncMeta", "articles"}

\* The end of the storing: with the articles stored, or without.
Remember ==
    lost' = IF ~Storing \/ Storing' THEN lost
            ELSE [lost EXCEPT ![job] = IF step' = "iconLoad" THEN {} ELSE @ \cup {New}]

NextRemembered == Next /\ Remember

HistorySpec ==
    /\ Init /\ lost = [i \in IDs |-> {}]
    /\ [][NextRemembered]_<<vars, lost>>

--------------------------------------------------------------------------------
\* The validators of a feed run ahead of its articles only while a refresh is
\* between the two writes (refresh.go:125-129), or by the very version of one
\* that failed or was killed there, until articles are stored again.  No row
\* that a handler or the favicon writes back, no failed fetch and no redirect
\* does it: the server would answer 304, on which "the caller should keep
\* whatever it already had stored" (fetch.go:19), and the articles would not be
\* fetched.  For Ops without "edit".
ValidatorBacked ==
    \A i \in Live :
        \/ feeds[i].val = Nothing
        \/ Storing /\ job = i /\ feeds[i].val = New
        \/ feeds[i].val \in lost[i]
        \/ /\ stored[i] # Nothing
           /\ stored[i].src = feeds[i].val.src
           /\ stored[i].ver >= feeds[i].val.ver
================================================================================
