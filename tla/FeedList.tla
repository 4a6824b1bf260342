-------------------------------- MODULE FeedList -------------------------------
(***************************************************************************)
(* The rows of the feeds table as the sidebar shows them: List             *)
(* (feed_repo.go) and buildFolders (handler.go).                           *)
(*                                                                         *)
(* A name is the sequence of its words, a folder "Tech/Go" the sequence of *)
(* its parts, "" is <<>>.  Words are numbers because the list is sorted.   *)
(***************************************************************************)
EXTENDS Naturals, Sequences, FiniteSets

Names == Seq(Nat)

\* s comes first where they differ, or ends there.
Precedes(s, t) ==
    \E k \in DOMAIN t :
        /\ k <= Len(s) + 1
        /\ \A j \in 1 .. k - 1 : s[j] = t[j]
        /\ k <= Len(s) => s[k] < t[k]

\* Mutant: ORDER BY title.
BeforeByTitle(f, g) ==
    \/ Precedes(f.title, g.title)
    \/ f.title = g.title /\ f.id < g.id

\* ORDER BY folder, title; SQLite visits equal rows in the order of their ids.
Before(f, g) ==
    \/ Precedes(f.folder, g.folder)
    \/ f.folder = g.folder /\ Precedes(f.title, g.title)
    \/ f.folder = g.folder /\ f.title = g.title /\ f.id < g.id

List(rows) ==
    CHOOSE list \in [1 .. Cardinality(rows) -> rows] :
        \A i, j \in DOMAIN list : i < j => Before(list[i], list[j])

\* The heading that a feed is shown under.
Label(f, uncategorized) == IF f.folder = <<>> THEN uncategorized ELSE f.folder

\* A feed joins the last folder when that has its label.
Put(folders, f, label) ==
    LET n == Len(folders) IN
    IF n > 0 /\ folders[n].name = label
    THEN [folders EXCEPT ![n].feeds = Append(@, f)]
    ELSE Append(folders, [name |-> label, feeds |-> <<f>>])

\* The folders after each of the feeds.
Foldering(list, uncategorized) ==
    LET upTo[n \in 0 .. Len(list)] ==
            IF n = 0 THEN <<>>
            ELSE Put(upTo[n - 1], list[n], Label(list[n], uncategorized))
    IN  upTo

buildFolders(list, uncategorized) == Foldering(list, uncategorized)[Len(list)]
================================================================================
