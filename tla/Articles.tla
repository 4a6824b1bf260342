-------------------------------- MODULE Articles --------------------------------
(***************************************************************************)
(* The articles table and the search index: Syncer.Sync, query by query,   *)
(* beside the handlers that mark articles read, delete feeds and merge     *)
(* them.  Sync runs on the scheduler's goroutine only, so that there is at *)
(* most one; the handlers run between any two of its queries.              *)
(***************************************************************************)
EXTENDS Naturals, Sequences

CONSTANTS
    Feeds,       \* IDs of feeds
    Items,       \* items of feed documents: [guid, link, date]
    Docs,        \* documents that a feed may publish: sequences of items
    MaxId,       \* bound: how many articles are ever created
    Empty,       \* the empty string
    NoArticle,   \* no row with this ID
    NoFeed,      \* Sync does not run
    NoEntry,     \* no entry in the index
    OldTitle     \* an entry with a title that its feed no longer has

VARIABLES
    live,        \* the feeds table: which feeds there are
    articles,    \* the articles table
    nextId,      \* AUTOINCREMENT
    index,       \* articles_fts: the feed whose title each entry has
    step,        \* where Sync is, between two queries
    syncing,     \* Sync's feed
    doc,         \* Sync's document
    pos,         \* Sync's item
    existing,    \* Sync's snapshot of the feed's articles
    seen,        \* Sync's articles that are in the document, or were swept
    match,       \* what FindByIdentity returned
    disturbed    \* history: did a merge or a delete come between?

dbVars == <<live, articles, nextId, index>>
syncVars == <<step, syncing, doc, pos, existing, seen, match>>
vars == <<dbVars, syncVars, disturbed>>

IDs == 1..MaxId

\* The columns that matter here: those that identify an article (item), read and
\* state.  Update writes all of them.
Rows == [feed : Feeds, item : Items, read : BOOLEAN, state : {"present", "deleted"}]

ASSUME ArticlesAssumption ==
    /\ MaxId \in Nat \ {0}
    /\ Docs # {} /\ Docs \subseteq Seq(Items)
    /\ \A x \in Items : <<x.link, x.date>> # Empty
    /\ NoArticle \notin Rows
    /\ {NoFeed, NoEntry, OldTitle} \cap Feeds = {} /\ NoEntry # OldTitle

\* What Sync's variables hold while it does not run.
NoMatch == [id |-> 1, read |-> FALSE]
AnyDoc == CHOOSE d \in Docs : TRUE

TypeOK ==
    /\ live \subseteq Feeds
    /\ articles \in [IDs -> Rows \cup {NoArticle}]
    /\ nextId \in 1..(MaxId + 1)
    /\ index \in [IDs -> Feeds \cup {NoEntry, OldTitle}]
    /\ step \in {"idle", "list", "guid", "link", "hash", "create", "update", "sweep"}
    /\ syncing \in IF step = "idle" THEN {NoFeed} ELSE Feeds
    /\ doc \in Docs
    /\ pos \in 1..(Len(doc) + 1)
    /\ existing \in [IDs -> Rows \cup {NoArticle}]
    /\ seen \subseteq IDs
    /\ match \in [id : IDs, read : BOOLEAN]
    /\ disturbed \in BOOLEAN

Init ==
    /\ live = Feeds
    /\ articles = [i \in IDs |-> NoArticle]
    /\ nextId = 1
    /\ index = [i \in IDs |-> NoEntry]
    /\ step = "idle" /\ pos = 1
    /\ syncing = NoFeed /\ doc = AnyDoc
    /\ existing = articles /\ seen = {} /\ match = NoMatch
    /\ disturbed = FALSE

ArticlesOf(table, f) == {i \in IDs : table[i] # NoArticle /\ table[i].feed = f}

--------------------------------------------------------------------------------
(* Identity: GUID, then link, then content hash. *)

\* Mutant: the link is tried before the GUID.
LinkFirst == <<"link", "guid", "hash">>

Chain == <<"guid", "link", "hash">>

\* ContentHash joins link and date, and is never empty.
Key(item, column) ==
    CASE column = "guid" -> item.guid
      [] column = "link" -> item.link
      [] column = "hash" -> <<item.link, item.date>>

Matching(table, f, item, column) ==
    IF Key(item, column) = Empty THEN {}
    ELSE {i \in ArticlesOf(table, f) : Key(table[i].item, column) = Key(item, column)}

\* LIMIT 1: SQLite walks an index whose entries end in the ID.
First(S) == CHOOSE i \in S : \A j \in S : i <= j

\* FindByIdentity in one go: the article found, or none.
Identified(table, f, item) ==
    LET hits == {n \in 1..3 : Matching(table, f, item, Chain[n]) # {}}
    IN  IF hits = {} THEN {}
        ELSE {First(Matching(table, f, item, Chain[First(hits)]))}

--------------------------------------------------------------------------------
(* The two writes of Sync, under the constraints of migration 0001. *)

\* UNIQUE (feed_id, guid) WHERE guid != '', and REFERENCES feeds.
Permitted(i, r) ==
    /\ r.feed \in live
    /\ r.item.guid = Empty
       \/ \A j \in ArticlesOf(articles, r.feed) \ {i} : articles[j].item.guid # r.item.guid

Insert(r) ==
    /\ Permitted(nextId, r)
    /\ articles' = [articles EXCEPT ![nextId] = r]
    /\ index' = [index EXCEPT ![nextId] = r.feed]
    /\ nextId' = nextId + 1

\* articles_fts_au leaves feed_title alone.
Update(i, r) ==
    /\ articles[i] # NoArticle
    /\ Permitted(i, r)
    /\ articles' = [articles EXCEPT ![i] = r]
    /\ UNCHANGED <<nextId, index>>

--------------------------------------------------------------------------------
(* Sync *)

\* feeds.title is written: the trigger feeds_fts_au updates the entries of the
\* feed's articles, any other entry that has its title is out of date.
Retitled(f) ==
    index' = [i \in IDs |-> IF i \in ArticlesOf(articles, f) THEN f
                            ELSE IF index[i] = f THEN OldTitle ELSE index[i]]

\* Refresh calls Sync with a parsed document; the feed's metadata is stored.
SyncMeta(f, d) ==
    /\ step = "idle"
    /\ f \in live
    /\ Retitled(f)
    /\ step' = "list" /\ syncing' = f /\ doc' = d /\ pos' = 1 /\ disturbed' = FALSE
    /\ UNCHANGED <<live, articles, nextId, existing, seen, match>>

ToItem(n) ==
    /\ pos' = n
    /\ step' = IF n <= Len(doc) THEN Chain[1] ELSE "sweep"
    /\ match' = NoMatch
    /\ UNCHANGED <<syncing, doc>>

Return ==
    /\ step' = "idle" /\ syncing' = NoFeed /\ doc' = AnyDoc /\ pos' = 1
    /\ existing' = [i \in IDs |-> NoArticle] /\ seen' = {} /\ match' = NoMatch
    /\ disturbed' = FALSE

SyncList ==
    /\ step = "list"
    /\ existing' = [i \in IDs |-> IF i \in ArticlesOf(articles, syncing)
                                  THEN articles[i] ELSE NoArticle]
    /\ seen' = {}
    /\ ToItem(1)
    /\ UNCHANGED <<dbVars, disturbed>>

\* One query of FindByIdentity.
SyncLookup ==
    \E n \in 1..3 :
        /\ step = Chain[n]
        /\ LET found == Matching(articles, syncing, doc[pos], Chain[n])
           IN  \/ /\ found # {}
                  /\ match' = [id |-> First(found), read |-> articles[First(found)].read]
                  /\ step' = "update"
               \/ /\ found = {}
                  /\ step' = IF n < 3 THEN Chain[n + 1] ELSE "create"
                  /\ UNCHANGED match
        /\ UNCHANGED <<dbVars, syncing, doc, pos, existing, seen, disturbed>>

Unread(item) == [feed |-> syncing, item |-> item, read |-> FALSE, state |-> "present"]

SyncCreate ==
    /\ step = "create"
    /\ nextId <= MaxId
    /\ Insert(Unread(doc[pos]))
    /\ ToItem(pos + 1)
    /\ UNCHANGED <<live, existing, seen, disturbed>>

\* Mutant: the state of the row found is kept, as its read flag is.
MatchedInOldState ==
    [Unread(doc[pos]) EXCEPT !.read = match.read,
                             !.state = IF articles[match.id] = NoArticle THEN "present"
                                       ELSE articles[match.id].state]

\* The item in the place of the article that it was identified with.
Matched == [Unread(doc[pos]) EXCEPT !.read = match.read]

SyncUpdate ==
    /\ step = "update"
    /\ Update(match.id, Matched)
    /\ seen' = seen \cup {match.id}
    /\ ToItem(pos + 1)
    /\ UNCHANGED <<live, existing, disturbed>>

\* Articles of the snapshot that the document no longer has.
Unswept ==
    {i \in IDs \ seen : existing[i] # NoArticle /\ existing[i].state # "deleted"}

\* Mutant: a state that no query asks for.
MarkedRemoved(r) == [r EXCEPT !.state = "removed"]

MarkedDeleted(r) == [r EXCEPT !.state = "deleted"]

\* The order of the sweep is that of publication; nothing depends on it.
SyncSweep(i) ==
    /\ step = "sweep"
    /\ i \in Unswept
    /\ Update(i, MarkedDeleted(existing[i]))
    /\ seen' = seen \cup {i}
    /\ UNCHANGED <<live, step, syncing, doc, pos, existing, match, disturbed>>

SyncDone ==
    /\ step = "sweep"
    /\ Unswept = {}
    /\ Return
    /\ UNCHANGED dbVars

\* A query that fails ends Sync where it is: on a constraint, a row that has
\* gone or a database error.  A crash does the same, for all else that Sync
\* has are local variables.
SyncFails ==
    /\ step # "idle"
    /\ Return
    /\ UNCHANGED dbVars

Sync ==
    \/ \E f \in Feeds, d \in Docs : SyncMeta(f, d)
    \/ SyncList \/ SyncLookup \/ SyncCreate \/ SyncUpdate
    \/ \E i \in IDs : SyncSweep(i)
    \/ SyncDone \/ SyncFails

--------------------------------------------------------------------------------
(* Handlers *)

\* Opening an article marks it read, the button sets it either way.
SetRead(i, read) ==
    /\ articles[i] # NoArticle
    /\ articles[i].read # read
    /\ articles' = [articles EXCEPT ![i].read = read]
    /\ UNCHANGED <<live, nextId, index, syncVars, disturbed>>

MarkAllRead(f) ==
    /\ f \in live
    /\ articles' = [i \in IDs |-> IF i \in ArticlesOf(articles, f)
                                  THEN [articles[i] EXCEPT !.read = TRUE]
                                  ELSE articles[i]]
    /\ UNCHANGED <<live, nextId, index, syncVars, disturbed>>

\* An import of a feed that is known stores the title of its outline.
Retitle(f) ==
    /\ f \in live
    /\ Retitled(f)
    /\ UNCHANGED <<live, articles, nextId, syncVars, disturbed>>

\* ON DELETE CASCADE, and the index entries with the articles.
Dropped(f, table, entries) ==
    /\ live' = live \ {f}
    /\ articles' = [i \in IDs |-> IF i \in ArticlesOf(table, f) THEN NoArticle ELSE table[i]]
    /\ index' = [i \in IDs |-> IF i \in ArticlesOf(table, f) THEN NoEntry ELSE entries[i]]
    /\ disturbed' = (step # "idle")

DeleteFeed(f) ==
    /\ f \in live
    /\ Dropped(f, articles, index)
    /\ UNCHANGED <<nextId, syncVars>>

\* Mutant: the read state of a duplicate is dropped with it.
AbsorbedUnread(table, i, s) ==
    IF Identified(table, s, table[i].item) # {} THEN table
    ELSE [table EXCEPT ![i].feed = s]

\* The loser's article i: a duplicate leaves its read state to the survivor's
\* article, any other article moves.
Absorbed(table, i, s) ==
    LET found == Identified(table, s, table[i].item)
    IN  IF found # {}
        THEN [j \in IDs |-> IF j \in found
                            THEN [table[j] EXCEPT !.read = @ \/ table[i].read]
                            ELSE table[j]]
        ELSE [table EXCEPT ![i].feed = s]

\* The table after each of the loser's articles, in the order of their IDs.
Merging(s, l) ==
    LET upTo[i \in 0..MaxId] ==
            IF i = 0 THEN articles
            ELSE IF i \in ArticlesOf(articles, l) THEN Absorbed(upTo[i - 1], i, s)
            ELSE upTo[i - 1]
    IN  upTo

Merged(s, l) == Merging(s, l)[MaxId]

\* Mutant: moved articles keep their entries in the index.
OldEntries(table, s, l) == index

\* An article that moves gets the survivor's title in the index.
MovedEntries(table, s, l) ==
    [i \in IDs |-> IF i \in ArticlesOf(articles, l) \cap ArticlesOf(table, s)
                   THEN s ELSE index[i]]

\* MergeFeeds, one transaction.
Merge(s, l) ==
    /\ s # l /\ s \in live /\ l \in live
    /\ LET table == Merged(s, l) IN Dropped(l, table, MovedEntries(table, s, l))
    /\ UNCHANGED <<nextId, syncVars>>

Handlers ==
    \/ \E i \in IDs, read \in BOOLEAN : SetRead(i, read)
    \/ \E f \in Feeds : MarkAllRead(f) \/ Retitle(f) \/ DeleteFeed(f)
    \/ \E s, l \in Feeds : Merge(s, l)

Next == Sync \/ Handlers

Spec == Init /\ [][Next]_vars

--------------------------------------------------------------------------------
(* Properties *)

\* Without a merge or a delete in between, no write of Sync meets a constraint:
\* an item that brings a GUID which another article of its feed has is
\* identified with that article, whatever its link and date say.
SyncNeverConflicts ==
    ~disturbed =>
        /\ step = "create" => Permitted(nextId, Unread(doc[pos]))
        /\ step = "update" => Permitted(match.id, Matched)
        /\ step = "sweep" => \A i \in Unswept : Permitted(i, existing[i])

\* Two items of a document that FindByIdentity may lead to the same article.
Share(x, y) == \E n \in 1..3 : Key(x, Chain[n]) # Empty /\ Key(x, Chain[n]) = Key(y, Chain[n])

\* "Existing articles are updated in place; new articles are inserted; articles
\* that previously existed but are no longer present in the feed are marked as
\* deleted" (sync.go:32-35): at the end of a sync the articles that are present
\* come from the document, and each of its items is there, present, unless a
\* later item shares its GUID, link or date and may have replaced it.
SyncReflectsDocument ==
    (step = "sweep" /\ Unswept = {} /\ ~disturbed) =>
        /\ \A i \in ArticlesOf(articles, syncing) :
               articles[i].state = "present" => \E n \in 1..Len(doc) : articles[i].item = doc[n]
        /\ \A n \in 1..Len(doc) :
               \/ \E m \in (n + 1)..Len(doc) : Share(doc[n], doc[m])
               \/ \E i \in ArticlesOf(articles, syncing) :
                      articles[i].item = doc[n] /\ articles[i].state = "present"

\* A search by feed name finds the articles of the feed that has the name now:
\* the copy in the index follows renames, merges and deletes, whatever Sync
\* writes in between.
IndexHasFeedTitle ==
    \A i \in IDs :
        index[i] = IF articles[i] = NoArticle THEN NoEntry ELSE articles[i].feed

\* "The survivor's copy is kept, marked read if either copy was" (merge.go:17):
\* after a merge, whatever the user had read in the loser is found, by the
\* identity chain, as a read article of the survivor, and the survivor's own
\* articles are where they were.
MergeKeepsRead ==
    [][\A s, l \in Feeds : Merge(s, l) =>
          /\ \A i \in ArticlesOf(articles, l) :
                 \E j \in Identified(articles', s, articles[i].item) :
                     articles[i].read => articles'[j].read
          /\ \A i \in ArticlesOf(articles, s) :
                 /\ i \in ArticlesOf(articles', s)
                 /\ articles[i].read => articles'[i].read]_vars

\* "Existing articles are updated in place (preserving their ID and read
\* state)" (sync.go:32): no step of Sync makes a read article unread.
SyncKeepsRead ==
    [][syncVars' # syncVars =>
          \A i \in IDs :
              (articles[i] # NoArticle /\ articles[i].read) => articles'[i].read]_vars
================================================================================
