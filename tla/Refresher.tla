------------------------------- MODULE Refresher -------------------------------
(***************************************************************************)
(* The feeds table and those who write it.  Refresher.Refresh (and the     *)
(* Syncer and favicon steps it ends with) runs in the scheduler's          *)
(* goroutine, one feed at a time; HTTP handlers add, import, edit, merge   *)
(* and delete feeds at the same time.  Every FeedRepo call is atomic (one  *)
(* connection), but all of these read a row, do something else (a network  *)
(* request, another query) and then write the WHOLE row back.              *)
(*                                                                         *)
(* Content is abstracted to versions: a URL publishes version 1, 2, ...,   *)
(* a validator (ETag, Last-Modified) names the version it came with, and   *)
(* stored[id] is the version whose articles were synced into the feed.     *)
(***************************************************************************)
EXTENDS Naturals, Sequences

CONSTANTS
    MaxId,        \* bound: feed IDs ever assigned
    MaxVer,       \* bound: versions a URL publishes
    URLs, Folders,
    Target,       \* Target[u]: where the permanent redirects of u end
    FirstURLs,    \* the URLs of the feeds at start-up, in the order of their IDs
    Handlers,     \* HTTP requests that run at the same time
    Ops,          \* what they do: "edit", "move" (edit that keeps the URL),
                  \* "add", "import", "merge", "delete"
    HasFavicons,  \* is a favicon client configured?
    Faults,       \* "crash", "dbError"
    NoRow,        \* no row with this ID
    Nothing       \* no validator, no articles

NoFeed == 0

IDs == 1..MaxId
Content == [src : URLs, ver : 1..MaxVer]

\* The columns of a feeds row that matter here: merge_candidate_id is cand,
\* etag and last_modified are val, refresh_error is err.
Rows == [url : URLs, folder : Folders, val : Content \cup {Nothing},
         cand : IDs \cup {NoFeed}, err : BOOLEAN, icon : BOOLEAN]

ASSUME RefresherAssumption ==
    /\ MaxId \in Nat \ {0} /\ MaxVer \in Nat \ {0}
    /\ URLs # {} /\ Folders # {}
    /\ Target \in [URLs -> URLs]
    /\ \A u \in URLs : Target[Target[u]] = Target[u]
    /\ FirstURLs \in Seq(URLs) /\ Len(FirstURLs) <= MaxId
    /\ \A i, j \in 1..Len(FirstURLs) : FirstURLs[i] = FirstURLs[j] => i = j
    /\ Ops \subseteq {"edit", "move", "add", "import", "merge", "delete"}
    /\ HasFavicons \in BOOLEAN
    /\ Faults \subseteq {"crash", "dbError"}
    /\ NoRow \notin Rows
    /\ Nothing \notin Content

VARIABLES
    feeds,      \* the feeds table
    nextId,     \* AUTOINCREMENT
    stored,     \* what the feed's articles are
    published,  \* the version each URL publishes
    step,       \* where Refresh is
    job,        \* the feed it refreshes
    row,        \* its variable f
    other,      \* its variable existing, and that feed's ID
    fetched,    \* its FetchResult
    req         \* the HTTP requests: where they are and what they read

tableVars   == <<feeds, nextId, stored>>
refreshVars == <<step, job, row, other, fetched>>
vars == <<tableVars, published, refreshVars, req>>

NewRow(u, d) == [url |-> u, folder |-> d, val |-> Nothing, cand |-> NoFeed,
                 err |-> FALSE, icon |-> FALSE]

AnyFolder == CHOOSE d \in Folders : TRUE
AnyURL == CHOOSE u \in URLs : TRUE
BlankRow == NewRow(AnyURL, AnyFolder)
NoOther == [id |-> 1, row |-> BlankRow]
NoFetch == [result |-> "failed", final |-> AnyURL, ver |-> 1]
NoRequest == [at |-> "idle", id |-> NoFeed, row |-> BlankRow, aim |-> NoFeed]

Results == {"failed", "notModified", "garbled", "ok"}

TypeOK ==
    /\ feeds \in [IDs -> Rows \cup {NoRow}]
    /\ nextId \in 1..(MaxId + 1)
    /\ stored \in [IDs -> Content \cup {Nothing}]
    /\ published \in [URLs -> 1..MaxVer]
    /\ step \in {"idle", "fetch", "lookup", "flag", "save", "syncLoad", "syncMeta",
                 "articles", "iconLoad", "iconSave"}
    /\ job \in IDs
    /\ row \in Rows
    /\ other \in [id : IDs, row : Rows]
    /\ fetched \in [result : Results, final : URLs, ver : 1..MaxVer]
    /\ req \in [Handlers ->
                  [at : {"idle", "check", "save", "importSave", "create",
                         "form", "merge"},
                   id : IDs \cup {NoFeed}, row : Rows, aim : IDs \cup {NoFeed}]]

Init ==
    /\ feeds = [i \in IDs |-> IF i <= Len(FirstURLs)
                              THEN NewRow(FirstURLs[i], AnyFolder) ELSE NoRow]
    /\ nextId = Len(FirstURLs) + 1
    /\ stored = [i \in IDs |-> Nothing]
    /\ published = [u \in URLs |-> 1]
    /\ step = "idle" /\ job = 1 /\ row = BlankRow
    /\ other = NoOther
    /\ fetched = NoFetch
    /\ req = [h \in Handlers |-> NoRequest]

--------------------------------------------------------------------------------
(* FeedRepo. *)

Live == {i \in IDs : feeds[i] # NoRow}

Taken(u) == \E i \in Live : feeds[i].url = u

\* Whether an UPDATE finds its row and meets UNIQUE(feed_url) and the foreign
\* key of merge_candidate_id.
CanUpdate(id, r) ==
    /\ id \in Live
    /\ \A i \in Live \ {id} : feeds[i].url # r.url
    /\ r.cand \in Live \cup {NoFeed}

Update(id, r) == CanUpdate(id, r) /\ feeds' = [feeds EXCEPT ![id] = r]

UpdateFails(id, r) == (~CanUpdate(id, r) \/ "dbError" \in Faults) /\ UNCHANGED feeds

\* Mutant: IDs of deleted feeds are given out again.
CreateReusing(r) ==
    /\ ~Taken(r.url)
    /\ \E id \in IDs \ Live :
           /\ feeds' = [feeds EXCEPT ![id] = r]
           /\ stored' = [stored EXCEPT ![id] = Nothing]
           /\ nextId' = IF id = nextId THEN id + 1 ELSE nextId

Create(r) ==
    /\ nextId <= MaxId
    /\ ~Taken(r.url)
    /\ feeds' = [feeds EXCEPT ![nextId] = r]
    /\ nextId' = nextId + 1
    /\ UNCHANGED stored

\* The table without feed id: ON DELETE SET NULL clears the references to it.
Deleted(table, id) ==
    [i \in IDs |-> IF i = id \/ table[i] = NoRow THEN NoRow
                   ELSE IF table[i].cand = id THEN [table[i] EXCEPT !.cand = NoFeed]
                   ELSE table[i]]

--------------------------------------------------------------------------------
(* Refresher.Refresh, Syncer.Sync and fetchFaviconIfMissing. *)

\* Refresh returns, its variables are gone.
Return ==
    /\ step' = "idle"
    /\ job' = 1
    /\ row' = BlankRow
    /\ other' = NoOther
    /\ fetched' = NoFetch

GoOn(label) == step' = label /\ UNCHANGED <<job, row, other, fetched>>

Begin(id) ==
    /\ step = "idle"
    /\ id \in Live
    /\ job' = id
    /\ row' = feeds[id]
    /\ step' = "fetch"
    /\ UNCHANGED <<tableVars, published, other, fetched, req>>

\* The server compares the validator it is sent with the version it has; it
\* cannot tell where the validator came from.
Matches(val, u) == val # Nothing /\ val.ver = published[u]

\* A network error, a bad status, too many redirects.
FetchFails ==
    /\ step = "fetch"
    /\ fetched' = [result |-> "failed", final |-> row.url, ver |-> 1]
    /\ step' = "save"
    /\ UNCHANGED <<tableVars, published, job, row, other, req>>

FetchAnswers ==
    /\ step = "fetch"
    /\ LET final == Target[row.url]
       IN /\ \E result \in {"notModified", "garbled", "ok"} :
                 /\ (result = "notModified") = Matches(row.val, final)
                 /\ fetched' = [result |-> result, final |-> final,
                                ver |-> published[final]]
          /\ step' = IF final # row.url THEN "lookup" ELSE "save"
    /\ UNCHANGED <<tableVars, published, job, row, other, req>>

\* Mutant: the feed that has the URL may be this feed itself.
CollideSelf ==
    /\ step = "lookup"
    /\ \E o \in Live :
          /\ feeds[o].url = fetched.final
          /\ row' = [row EXCEPT !.cand = o]
          /\ other' = [id |-> o, row |-> [feeds[o] EXCEPT !.cand = job]]
    /\ step' = "flag"
    /\ UNCHANGED <<tableVars, published, job, fetched, req>>

\* The redirect's target is another feed's URL: keep this one's, and make the
\* two merge candidates.
Collide ==
    /\ step = "lookup"
    /\ \E o \in Live \ {job} :
          /\ feeds[o].url = fetched.final
          /\ row' = [row EXCEPT !.cand = o]
          /\ other' = [id |-> o, row |-> [feeds[o] EXCEPT !.cand = job]]
    /\ step' = "flag"
    /\ UNCHANGED <<tableVars, published, job, fetched, req>>

\* Mutant: the new URL is adopted without asking who has it.
AdoptAnyway ==
    /\ step = "lookup"
    /\ row' = [row EXCEPT !.url = fetched.final]
    /\ step' = "save"
    /\ UNCHANGED <<tableVars, published, job, other, fetched, req>>

\* Nobody else has it, or the query failed.
Adopt ==
    /\ step = "lookup"
    /\ \/ \A o \in Live \ {job} : feeds[o].url # fetched.final
       \/ "dbError" \in Faults
    /\ row' = [row EXCEPT !.url = fetched.final]
    /\ step' = "save"
    /\ UNCHANGED <<tableVars, published, job, other, fetched, req>>

\* Mutant: only this feed is flagged.
FlagNothing ==
    /\ step = "flag"
    /\ GoOn("save")
    /\ UNCHANGED <<tableVars, published, req>>

\* A failure to flag the other feed is only logged.
Flag ==
    /\ step = "flag"
    /\ Update(other.id, other.row) \/ UpdateFails(other.id, other.row)
    /\ GoOn("save")
    /\ UNCHANGED <<nextId, stored, published, req>>

\* Mutant: the new validators are stored before the body is known to parse.
OutcomeEager(r) ==
    IF fetched.result \in {"ok", "garbled"}
    THEN [r EXCEPT !.err = fetched.result # "ok",
                   !.val = [src |-> fetched.final, ver |-> fetched.ver]]
    ELSE [r EXCEPT !.err = fetched.result = "failed"]

\* What a refresh makes of the row it loaded.
Outcome(r) ==
    CASE fetched.result \in {"failed", "garbled"} -> [r EXCEPT !.err = TRUE]
      [] fetched.result = "notModified" -> [r EXCEPT !.err = FALSE]
      [] fetched.result = "ok" ->
             [r EXCEPT !.err = FALSE,
                       !.val = [src |-> fetched.final, ver |-> fetched.ver]]

Save ==
    /\ step = "save"
    /\ \/ /\ Update(job, Outcome(row))
          /\ IF fetched.result = "ok" THEN GoOn("syncLoad") ELSE Return
       \/ UpdateFails(job, Outcome(row)) /\ Return
    /\ UNCHANGED <<nextId, stored, published, req>>

\* Sync and fetchFaviconIfMissing load the row again; they go on when it is
\* there, the latter only when the feed has no favicon.
Load(from, to, needed) ==
    /\ step = from
    /\ \/ /\ job \in Live /\ needed
          /\ row' = feeds[job] /\ step' = to
          /\ UNCHANGED <<job, other, fetched>>
       \/ /\ ~(job \in Live /\ needed) \/ "dbError" \in Faults
          /\ Return
    /\ UNCHANGED <<tableVars, published, req>>

SyncLoad == Load("syncLoad", "syncMeta", TRUE)

\* Title, description and site URL: columns that this model leaves out, in a
\* write of all columns.
SyncMeta ==
    /\ step = "syncMeta"
    /\ \/ Update(job, row) /\ GoOn("articles")
       \/ UpdateFails(job, row) /\ Return
    /\ UNCHANGED <<nextId, stored, published, req>>

\* The articles of the fetched version, in full; Sync's own steps are not
\* modelled here.
StoreArticles ==
    /\ step = "articles"
    /\ job \in Live
    /\ stored' = [stored EXCEPT ![job] = [src |-> fetched.final, ver |-> fetched.ver]]
    /\ GoOn("iconLoad")
    /\ UNCHANGED <<feeds, nextId, published, req>>

\* The feed is gone (foreign key), or the database fails.
SyncFails ==
    /\ step = "articles"
    /\ job \notin Live \/ "dbError" \in Faults
    /\ Return
    /\ UNCHANGED <<tableVars, published, req>>

IconLoad == Load("iconLoad", "iconSave", HasFavicons /\ ~feeds[job].icon)

\* Between the two the favicon is fetched, which may fail.
IconSave ==
    /\ step = "iconSave"
    /\ Update(job, [row EXCEPT !.icon = TRUE]) \/ UNCHANGED feeds
    /\ Return
    /\ UNCHANGED <<nextId, stored, published, req>>

--------------------------------------------------------------------------------
(* The HTTP handlers. *)

handlerUnchanged == UNCHANGED <<published, refreshVars>>

Goes(h, q) == req' = [req EXCEPT ![h] = q]
Ends(h) == Goes(h, NoRequest)

\* handleUpdateFeed: the row is read, and the form's values put in.
EditLoad(h, id, u, d) ==
    /\ req[h].at = "idle"
    /\ \/ "edit" \in Ops
       \/ "move" \in Ops /\ id \in Live /\ u = feeds[id].url
    /\ id \in Live
    /\ Goes(h, [at |-> IF u = feeds[id].url THEN "save" ELSE "check", id |-> id,
                row |-> [feeds[id] EXCEPT !.url = u, !.folder = d], aim |-> NoFeed])
    /\ UNCHANGED tableVars /\ handlerUnchanged

EditCheck(h) ==
    /\ req[h].at = "check"
    /\ IF \E i \in Live \ {req[h].id} : feeds[i].url = req[h].row.url
       THEN Ends(h)
       ELSE Goes(h, [req[h] EXCEPT !.at = "save"])
    /\ UNCHANGED tableVars /\ handlerUnchanged

\* The update ends in a page or in a 500.
EditSave(h) ==
    /\ req[h].at = "save"
    /\ Update(req[h].id, req[h].row) \/ UpdateFails(req[h].id, req[h].row)
    /\ Ends(h)
    /\ UNCHANGED <<nextId, stored>> /\ handlerUnchanged

\* AddFeed and ImportOPML look the URL up; AddFeed gives up when it is there.
Subscribe(h, u, d) ==
    /\ req[h].at = "idle"
    /\ \/ \E i \in Live :
             /\ "import" \in Ops
             /\ feeds[i].url = u
             /\ Goes(h, [at |-> "importSave", id |-> i,
                         row |-> [feeds[i] EXCEPT !.folder = d], aim |-> NoFeed])
       \/ /\ "add" \in Ops \/ "import" \in Ops
          /\ ~Taken(u)
          /\ Goes(h, [NoRequest EXCEPT !.at = "create", !.row = NewRow(u, d)])
    /\ UNCHANGED tableVars /\ handlerUnchanged

ImportSave(h) ==
    /\ req[h].at = "importSave"
    /\ Update(req[h].id, req[h].row) \/ UpdateFails(req[h].id, req[h].row)
    /\ Ends(h)
    /\ UNCHANGED <<nextId, stored>> /\ handlerUnchanged

\* AddFeed fetches between the lookup and this.
SubscribeCreate(h) ==
    /\ req[h].at = "create"
    /\ \/ Create(req[h].row)
       \/ Taken(req[h].row.url) /\ UNCHANGED tableVars
    /\ Ends(h)
    /\ handlerUnchanged

\* The row goes, and by ON DELETE CASCADE its articles.
Delete(id) ==
    /\ "delete" \in Ops
    /\ id \in Live
    /\ feeds' = Deleted(feeds, id)
    /\ stored' = [stored EXCEPT ![id] = Nothing]
    /\ UNCHANGED <<nextId, req>> /\ handlerUnchanged

\* handleMergeFeedForm shows the feed and its candidate.
MergeForm(h, id) ==
    /\ req[h].at = "idle"
    /\ "merge" \in Ops
    /\ id \in Live
    /\ feeds[id].cand # NoFeed
    /\ Goes(h, [NoRequest EXCEPT !.at = "form", !.id = id, !.aim = feeds[id].cand])
    /\ UNCHANGED tableVars /\ handlerUnchanged

\* handleMergeFeed reads the candidate again.  aim becomes the loser; survivor,
\* which the form names, must be the feed or its candidate, or the request ends.
MergeSubmit(h, survivor) ==
    /\ req[h].at = "form"
    /\ survivor \in {req[h].id, req[h].aim}
    /\ LET id == req[h].id
           cand == feeds[id].cand
       IN IF id \in Live /\ cand # NoFeed /\ survivor \in {id, cand}
          THEN Goes(h, [req[h] EXCEPT
                          !.at = "merge", !.id = survivor,
                          !.aim = IF survivor = cand THEN id ELSE cand])
          ELSE Ends(h)
    /\ UNCHANGED tableVars /\ handlerUnchanged

\* MergeFeeds, one transaction, which fails when one of the feeds is gone.
Merge(h) ==
    /\ req[h].at = "merge"
    /\ LET survivor == req[h].id
           loser == req[h].aim
       IN \/ /\ survivor \in Live /\ loser \in Live
             /\ feeds' = Deleted([feeds EXCEPT ![survivor].cand = NoFeed], loser)
             /\ stored' = [stored EXCEPT ![loser] = Nothing]
          \/ /\ ~({survivor, loser} \subseteq Live) \/ "dbError" \in Faults
             /\ UNCHANGED <<feeds, stored>>
    /\ Ends(h)
    /\ UNCHANGED nextId /\ handlerUnchanged

--------------------------------------------------------------------------------
\* A web site publishes something new; a URL that redirects has nothing of its own.
Publish(u) ==
    /\ Target[u] = u
    /\ published[u] < MaxVer
    /\ published' = [published EXCEPT ![u] = @ + 1]
    /\ UNCHANGED <<tableVars, refreshVars, req>>

\* The process ends and is started again: only the tables are left.
Crash ==
    /\ "crash" \in Faults
    /\ Return
    /\ req' = [h \in Handlers |-> NoRequest]
    /\ UNCHANGED <<tableVars, published>>

Advance == \/ FetchAnswers \/ FetchFails \/ Collide \/ Adopt \/ Flag \/ Save
           \/ SyncLoad \/ SyncMeta \/ StoreArticles \/ SyncFails
           \/ IconLoad \/ IconSave

Edits(h) ==
    \/ \E id \in IDs, u \in URLs, d \in Folders : EditLoad(h, id, u, d)
    \/ EditCheck(h) \/ EditSave(h)

Subscriptions(h) ==
    \/ \E u \in URLs, d \in Folders : Subscribe(h, u, d)
    \/ ImportSave(h) \/ SubscribeCreate(h)

Merges(h) ==
    \/ \E id \in IDs : MergeForm(h, id) \/ MergeSubmit(h, id)
    \/ Merge(h)

Next ==
    \/ \E id \in IDs : Begin(id) \/ Delete(id)
    \/ Advance
    \/ \E h \in Handlers : Edits(h) \/ Subscriptions(h) \/ Merges(h)
    \/ \E u \in URLs : Publish(u)
    \/ Crash

Spec == Init /\ [][Next]_vars

\* The scheduler comes back to every feed; a server that has something new, or
\* has not, is heard in the end.
FairSpec ==
    /\ Spec
    /\ WF_vars(Advance)
    /\ \A id \in IDs :
           /\ SF_vars(Begin(id))
           /\ SF_vars(FetchAnswers /\ job = id /\ fetched'.result # "garbled")

--------------------------------------------------------------------------------
(* Properties *)

\* A refresh without rivals never meets the UNIQUE constraint, however the
\* redirects of the feeds converge: the guard that "keeps this feed's original
\* URL rather than failing every future refresh" (refresh.go:86).
RefreshNeverConflicts == step = "save" => CanUpdate(job, Outcome(row))

\* Merge candidates are set on both feeds involved, so that the action "is
\* visible from either one" (0003_feed_merge.sql:4): between refreshes, a feed
\* that is some feed's candidate has one itself.  It need not be the same pair:
\* when three feeds converge, the later collision takes over.
CandidatesVisible ==
    step = "idle" =>
        \A i \in Live : feeds[i].cand # NoFeed => feeds[feeds[i].cand].cand # NoFeed

\* No feed is proposed for a merge with itself, whatever stale rows are written
\* back: MergeFeeds refuses it, so the proposal could not be got rid of.
NoSelfCandidate == \A i \in Live : feeds[i].cand # i

\* Articles only go into the feed they were fetched for: a refresh that was
\* under way when its feed was deleted leaves nothing in one added since, whose
\* ID is new (AUTOINCREMENT).  For Ops without "edit".
ArticlesFromOwnURL ==
    \A i \in Live : stored[i] # Nothing => stored[i].src = Target[feeds[i].url]

\* "Fetch and parse failures ... leave existing feed/article data unchanged"
\* (refresh.go:56): what the user set while the request was out stays set.
FailedRefreshKeepsSettings ==
    [][(/\ step = "save" /\ step' = "idle"
        /\ fetched.result \in {"failed", "garbled"}
        /\ job \in Live /\ feeds'[job] # NoRow)
          => /\ feeds'[job].url = feeds[job].url
             /\ feeds'[job].folder = feeds[job].folder]_vars

\* Every feed ends up with what its URL publishes, through failed fetches,
\* garbled bodies, colliding redirects and 304 answers.
CatchesUp ==
    \A i \in IDs, u \in URLs, v \in 1..MaxVer :
        (i \in Live /\ feeds[i].url = u /\ published[Target[u]] = v)
            ~> \/ i \notin Live
               \/ published[Target[u]] # v
               \/ stored[i] = [src |-> Target[u], ver |-> v]
================================================================================
