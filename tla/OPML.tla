---------------------------------- MODULE OPML ---------------------------------
(***************************************************************************)
(* The subscription list as a document (internal/opml).                    *)
(*                                                                         *)
(* Names and folders are as in FeedList; the word 0 is punctuation only.   *)
(***************************************************************************)
EXTENDS FeedList, SequencesExt

CONSTANTS URLs,
          Depth  \* bound: how deep outlines are nested

NoURL == ""

\* An export has folders with feeds in them.
ASSUME OPMLAssumption == NoURL \notin URLs /\ Depth \in Nat \ {0, 1}

Sites == URLs \cup {NoURL}

\* The lists of outlines that are nested at most d deep.
Forests[d \in 0 .. Depth] ==
    IF d = 0 THEN {<<>>}
    ELSE Seq([title : Names, text : Names, url : Sites, site : Sites, kids : Forests[d - 1]])

Entries == [title : Names, url : URLs, site : Sites, folder : Names]

outlineName(o) == IF o.title # <<>> THEN o.title ELSE o.text
normalizeName(name) == SelectSeq(name, LAMBDA w : w # 0)
\* Mutant: only the innermost folder counts.
innerFolder(parent, name) == name

joinFolder(parent, name) == parent \o name

Within(short, long) ==
    \E i \in 0 .. Len(long) - Len(short) : SubSeq(long, i + 1, i + Len(short)) = short

Related(outer, inner) ==
    /\ outer # <<>> /\ inner # <<>>
    /\ Within(outer, inner) \/ Within(inner, outer)

\* Mutant: a wrapper may have more children.
unwrapFirst(o) ==
    /\ o.kids # <<>>
    /\ o.kids[1].url # NoURL /\ o.kids[1].kids = <<>>
    /\ Related(normalizeName(outlineName(o)), normalizeName(outlineName(o.kids[1])))

\* o merely wraps its only child, a feed with about the same name.
unwrapFeedOutline(o) ==
    /\ Len(o.kids) = 1
    /\ o.kids[1].url # NoURL /\ o.kids[1].kids = <<>>
    /\ Related(normalizeName(outlineName(o)), normalizeName(outlineName(o.kids[1])))

Entry(o, folder) == [title |-> outlineName(o), url |-> o.url, site |-> o.site,
                     folder |-> folder]

walkOutlines[d \in 0 .. Depth] ==
    [outlines \in Forests[d] |-> [folder \in Names |->
        FlattenSeq([i \in DOMAIN outlines |->
            LET o == outlines[i] IN
            IF o.url # NoURL THEN <<Entry(o, folder)>>
            ELSE IF unwrapFeedOutline(o) THEN <<Entry(o.kids[1], folder)>>
            ELSE walkOutlines[d - 1][o.kids][joinFolder(folder, outlineName(o))]])]]

Parse(document) == walkOutlines[Depth][document][<<>>]

--------------------------------------------------------------------------------
Leaf(f) == [title |-> f.title, text |-> f.title, url |-> f.url, site |-> f.site,
            kids |-> <<>>]
Group(folder, leaves) == [title |-> folder, text |-> folder, url |-> NoURL,
                          site |-> NoURL, kids |-> leaves]

\* One outline per folder, in the order of their first feeds; the feeds without
\* a folder stand for themselves.
Generate(list) ==
    LET Leaves(folder) ==
            FlattenSeq([i \in DOMAIN list |->
                IF list[i].folder = folder THEN <<Leaf(list[i])>> ELSE <<>>])
        Written(folder) ==
            IF folder = <<>> THEN Leaves(folder) ELSE <<Group(folder, Leaves(folder))>>
        Opens(i) == \A j \in 1 .. i - 1 : list[j].folder # list[i].folder
    IN  FlattenSeq([i \in DOMAIN list |->
            IF Opens(i) THEN Written(list[i].folder) ELSE <<>>])
================================================================================
