----------------------------- MODULE Subscriptions -----------------------------
(***************************************************************************)
(* Import and export of the subscription list.  ImportOPML applies a       *)
(* document one feed at a time, each feed with a lookup and a write        *)
(* (opml_import.go); between any two of them other requests and the        *)
(* refresh of a feed change the table, an error or a crash may end the     *)
(* import, and the user may import again, also what was exported before.   *)
(*                                                                         *)
(* Other requests are single steps here, and a refresh is its read and its *)
(* write; module Refresher has their queries one by one.                   *)
(***************************************************************************)
EXTENDS OPML

CONSTANTS
    Documents,     \* the OPML documents the user has
    Folders,       \* the folders that are typed into forms
    Published,     \* what is found at a URL: title, site and the URL it moved to
    Uncategorized, \* the label of the feeds without a folder
    MaxId,         \* bound: feeds ever created
    MaxOthers      \* bound: steps of others than the import

ASSUME SubscriptionsAssumption ==
    /\ Documents \subseteq Forests[Depth]
    /\ \A u \in URLs : Published[u] \in [title : Names, site : Sites, moved : URLs]
    /\ Folders \subseteq Names /\ Uncategorized \in Names
    /\ MaxId \in Nat /\ MaxOthers \in Nat

VARIABLES
    rows,       \* feeds: a set of rows with different ids and URLs
    lastId,     \* AUTOINCREMENT
    file,       \* the user's copy of the last export
    import,     \* the import under way or the last one
    existing,   \* the row GetByURL returned to the import
    held,       \* the row that the refresh under way has read
    dirty,      \* history: URLs of rows that others wrote after the import did, or since it began
    resited,    \* history: those that others wrote before the import's last lookup of them,
                \* unless an entry has named the site since
    others      \* bound: steps of others so far

vars == <<rows, lastId, file, import, existing, held, dirty, resited, others>>

NoRow == [id |-> 0]
None == <<>>
NoImport == [at |-> "none", document |-> None, entries |-> <<>>, next |-> 1]

Row(id, e) == [id |-> id, title |-> e.title, url |-> e.url, site |-> e.site,
               folder |-> e.folder]

Ids == 1 .. MaxId
Rows == [id : Ids, title : Names, url : URLs, site : Sites, folder : Names]

\* feed_url is UNIQUE.
TypeOK ==
    /\ rows \subseteq Rows
    /\ \A r, s \in rows : r.id = s.id \/ r.url = s.url => r = s
    /\ lastId \in 0 .. MaxId /\ \A r \in rows : r.id <= lastId
    /\ file \in Forests[Depth]
    /\ DOMAIN import = DOMAIN NoImport
    /\ import.document \in Forests[Depth]
    /\ import.at \in {"none", "look", "write", "done"}
    /\ import.entries \in Seq(Entries)
    /\ import.next \in 1 .. Len(import.entries) + 1
    /\ existing \in Rows \cup {NoRow} /\ held \in Rows \cup {NoRow}
    /\ dirty \subseteq URLs /\ resited \subseteq URLs
    /\ others \in 0 .. MaxOthers

Init ==
    /\ rows = {} /\ lastId = 0
    /\ file = None
    /\ import = NoImport
    /\ existing = NoRow /\ held = NoRow
    /\ dirty = {} /\ resited = {} /\ others = 0

--------------------------------------------------------------------------------
(* The feeds table. *)

WithURL(u) == {r \in rows : r.url = u}
WithId(i) == {r \in rows : r.id = i}
RowOf(set) == IF set = {} THEN NoRow ELSE CHOOSE r \in set : TRUE

CanUpdate(r) == WithId(r.id) # {} /\ WithURL(r.url) \subseteq WithId(r.id)
Update(r) == rows' = (rows \ WithId(r.id)) \cup {r}

Create(e) ==
    /\ WithURL(e.url) = {} /\ lastId < MaxId
    /\ lastId' = lastId + 1
    /\ rows' = rows \cup {Row(lastId', e)}

--------------------------------------------------------------------------------
(* ImportOPML. *)

Importing == import.at \in {"look", "write"}
Now == import.entries[import.next]

StartImport ==
    /\ ~Importing
    /\ \E document \in Documents \cup {file} :
          import' = [at |-> "look", document |-> document,
                     entries |-> Parse(document), next |-> 1]
    /\ dirty' = {} /\ resited' = {}
    /\ UNCHANGED <<rows, lastId, file, existing, held, others>>

LookUp ==
    /\ import.at = "look" /\ import.next <= Len(import.entries)
    /\ existing' = RowOf(WithURL(Now.url))
    /\ import' = [import EXCEPT !.at = "write"]
    /\ resited' = resited \cup (dirty \cap {Now.url})
    /\ UNCHANGED <<rows, lastId, file, held, dirty, others>>

Applied(r, e) == [r EXCEPT !.title = e.title, !.folder = e.folder,
                           !.site = IF e.site # NoURL THEN e.site ELSE @]

\* TriggerRefresh: here a feed may be refreshed at any time.
Wrote ==
    /\ import' = [import EXCEPT !.at = "look", !.next = @ + 1]
    /\ existing' = NoRow
    /\ dirty' = dirty \ {Now.url}
    /\ resited' = IF Now.site # NoURL THEN resited \ {Now.url} ELSE resited
    /\ UNCHANGED <<file, held, others>>

ImportCreate ==
    /\ import.at = "write" /\ existing = NoRow
    /\ Create(Now)
    /\ Wrote

\* Mutant: the import goes on when the row cannot be written.
ImportUpdateAnyway ==
    /\ import.at = "write" /\ existing # NoRow
    /\ LET r == Applied(existing, Now) IN
          IF CanUpdate(r) THEN Update(r) ELSE UNCHANGED rows
    /\ Wrote
    /\ UNCHANGED lastId

\* The whole row as it was at the lookup, with what the entry says: what others
\* changed of it meanwhile is undone.
ImportUpdate ==
    /\ import.at = "write" /\ existing # NoRow
    /\ LET r == Applied(existing, Now) IN CanUpdate(r) /\ Update(r)
    /\ Wrote
    /\ UNCHANGED lastId

ImportDone ==
    /\ import.at = "look" /\ import.next > Len(import.entries)
    /\ import' = [import EXCEPT !.at = "done"]
    /\ UNCHANGED <<rows, lastId, file, existing, held, dirty, resited, others>>

\* A query fails, for UNIQUE, for a deleted feed or for any other reason: what
\* was imported before it stays.
ImportFails ==
    /\ Importing
    /\ import' = NoImport /\ existing' = NoRow
    /\ dirty' = {} /\ resited' = {}
    /\ UNCHANGED <<rows, lastId, file, held, others>>

Import == StartImport \/ LookUp \/ ImportCreate \/ ImportUpdate \/ ImportDone \/ ImportFails

--------------------------------------------------------------------------------
(* Other requests and the refresh of a feed. *)

Another == others < MaxOthers /\ others' = others + 1

Disturbs(urls) == dirty' = IF import = NoImport THEN {} ELSE dirty \cup urls

Export ==
    /\ Another
    /\ file' = Generate(List(rows))
    /\ UNCHANGED <<rows, lastId, import, existing, held, dirty, resited>>

AddFeed ==
    /\ Another
    /\ \E u \in URLs, folder \in Folders :
          /\ Create([title |-> Published[u].title, url |-> u,
                     site |-> Published[u].site, folder |-> folder])
          /\ Disturbs({u})
    /\ UNCHANGED <<file, import, existing, held, resited>>

EditFeed ==
    /\ Another
    /\ \E r \in rows, u \in URLs, folder \in Folders :
       \E site \in {r.site, NoURL} :
          LET edited == [r EXCEPT !.folder = folder, !.url = u, !.site = site] IN
          /\ edited # r /\ CanUpdate(edited)
          /\ Update(edited)
          /\ Disturbs({r.url, u})
    /\ UNCHANGED <<lastId, file, import, existing, held, resited>>

DeleteFeed ==
    /\ Another
    /\ \E r \in rows : rows' = rows \ {r} /\ Disturbs({r.url})
    /\ UNCHANGED <<lastId, file, import, existing, held, resited>>

RefreshLoads ==
    /\ Another
    /\ held = NoRow /\ held' \in rows
    /\ UNCHANGED <<rows, lastId, file, import, existing, dirty, resited>>

\* The URL the answer came from, unless another feed has that.
Moved(r) ==
    [r EXCEPT !.url = LET target == Published[@].moved IN
                      IF WithURL(target) = {} THEN target ELSE @]

\* With the title and the site the document gives.
Refreshed(r) ==
    [Moved(r) EXCEPT !.title = Published[r.url].title, !.site = Published[r.url].site]

\* A refresh that failed writes the row it has read, one that was answered 304
\* or garbage moves it; when the row is gone or the URL taken the write fails.
RefreshSaves ==
    /\ Another
    /\ held # NoRow
    /\ \E r \in {held, Moved(held), Refreshed(held)} :
          IF CanUpdate(r)
          THEN Update(r) /\ Disturbs({r.url, held.url} \cup {s.url : s \in WithId(r.id)})
          ELSE UNCHANGED <<rows, dirty>>
    /\ held' = NoRow
    /\ UNCHANGED <<lastId, file, import, existing, resited>>

\* The process ends and starts again.
Restart ==
    /\ Another
    /\ import' = NoImport /\ existing' = NoRow /\ held' = NoRow
    /\ dirty' = {} /\ resited' = {}
    /\ UNCHANGED <<rows, lastId, file>>

Requests == Export \/ AddFeed \/ EditFeed \/ DeleteFeed

Others == Requests \/ RefreshLoads \/ RefreshSaves \/ Restart

Next == Import \/ Others

Spec == Init /\ [][Next]_vars

--------------------------------------------------------------------------------
(* Properties. *)

\* The entries of a document and what each of them stands under, the outermost first.
Above == Seq([title : Names, text : Names, url : Sites, site : Sites, kids : Forests[Depth]])

LeavesBelow[d \in 0 .. Depth] ==
    [outlines \in Forests[d] |-> [above \in Above |->
        FlattenSeq([i \in DOMAIN outlines |->
            LET o == outlines[i] IN
            IF o.url # NoURL THEN <<[leaf |-> o, above |-> above]>>
            ELSE LeavesBelow[d - 1][o.kids][Append(above, o)]])]]

\* All outlines name a folder but the nearest one when that is a wrapper of the
\* feed, and the feed has no outlines of its own.
PathOf(above) ==
    FlattenSeq([i \in DOMAIN above |->
        IF unwrapFeedOutline(above[i]) THEN <<>> ELSE outlineName(above[i])])

\* What the document means: a feed belongs into the folder whose path is the
\* names of all the outlines around it, wrappers aside; in document order.
Meant ==
    LET leaves == LeavesBelow[Depth][import.document][<<>>]
    IN  [i \in DOMAIN leaves |-> Entry(leaves[i].leaf, PathOf(leaves[i].above))]

\* An import works on what its document means, whatever the nesting: no path leaks
\* from one branch into the next, and a wrapper of one feed is no folder
\* (opml.go:64-121).
ReadsAsMeant == import.at # "none" => import.entries = Meant

\* The only feed of a folder reads like a wrapped one when their names are related.
LooksWrapped(r) ==
    /\ \A s \in rows : s.folder = r.folder => s = r
    /\ Related(normalizeName(r.folder), normalizeName(r.title))

\* What is exported now would be imported with the same feeds, titles, sites
\* and folders, each once and in the order of the list; only a feed that is alone
\* in a folder with a related name comes back without the folder
\* (opml.go:103-121, 157-191).
BackupKeepsFeeds ==
    LET list == List(rows) IN
    Parse(Generate(list)) =
        [i \in DOMAIN list |->
            Entry(Leaf(list[i]), IF LooksWrapped(list[i]) THEN <<>> ELSE list[i].folder)]

\* When an import has succeeded, each feed of the document exists, with the title
\* and the folder of its last entry, unless others wrote it after the import did
\* (opml_import.go:39-68).  It makes no difference what others did to the feed
\* between the lookup and the write: a row that they moved or changed is written
\* back whole; one that they deleted, or whose URL another feed has got, fails the
\* import.  The site is the last one that an entry names (opml_import.go:60-62),
\* unless others wrote the feed between the entry that names it and the lookup for
\* a later one that does not.
\* However often a feed is listed, and also when earlier imports of it failed half-way.
ImportApplied ==
    import.at = "done" =>
        \A n \in DOMAIN import.entries :
            LET e == import.entries[n]
                later == {m \in DOMAIN import.entries : m > n /\ import.entries[m].url = e.url}
            IN  e.url \notin dirty =>
                    \E r \in rows :
                        /\ r.url = e.url
                        /\ later = {} => r.title = e.title /\ r.folder = e.folder
                        /\ /\ e.site # NoURL /\ e.url \notin resited
                           /\ \A m \in later : import.entries[m].site = NoURL
                           => r.site = e.site

\* The sidebar shows each folder once: the list is sorted so that equal names
\* are neighbours.  A folder that is itself called "Uncategorized" may appear
\* apart from the feeds without a folder (handler.go:171-185).
FoldersListedOnce ==
    LET folders == buildFolders(List(rows), Uncategorized) IN
    \A i, j \in DOMAIN folders :
        folders[i].name = folders[j].name => i = j \/ folders[i].name = Uncategorized
================================================================================
