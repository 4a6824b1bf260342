# TLA+ model of goread

goread is a single-user RSS/Atom reader: one Go process with an SQLite
database, an HTTP server that renders the pages, and one background goroutine
that refreshes the feeds. These modules model the parts of it whose correctness
depends on the order of events or on arithmetic at a boundary: the scheduler and
the shutdown, the start of one or several instances on one database, the live
indicator streamed to the browser, the many read-modify-write cycles on the feeds
table, the reconciliation of articles, how often and from where a feed is fetched,
the subscription list as a document, and the images fetched for articles and icons.
Line numbers refer to the source in this repository.

## 1. Inventory

| Component | State it keeps | Operations | Hard behaviour |
|---|---|---|---|
| Scheduler (`internal/feed/scheduler.go`) | channel `requests` of 16 slots, `refreshingFeedID`, broadcast channel `changed` | `Run` (ticker, queue, stop), `refreshDue`, `refreshOne`, `TriggerRefresh`, `TriggerRefreshSync`, `IsRefreshing`, `Changed` | a bounded queue shared by senders that wait, senders that give up and callers that go away; random `select`; cancellation |
| main (`cmd/goread/main.go`) | contexts `ctx` and `baseCtx`, wait group, `sqlDB` | start, signal, `Shutdown`, deferred `Close` | two ways out, handlers blocked on the scheduler, closing under a refresh |
| SSE handlers (`internal/server/handler.go` 646-807) | per connection: `last`, the channel held | feed badge, sidebar | a missed wake-up between reading the state and taking the channel |
| Refresher (`internal/feed/refresh.go`) | the row `f` it loaded | `Due`, `Refresh`, `fetchFaviconIfMissing` | whole-row writes after a network request, redirects that collide, validators written ahead of the articles |
| Feed repository (`internal/db/feed_repo.go`, migrations 0001, 0003) | table `feeds` | `Create`, `Update`, `Get`, `GetByURL`, `List`, `Delete` | UNIQUE and foreign keys, `ON DELETE SET NULL` and `CASCADE` |
| Add and import (`internal/feed/add.go`, `opml_import.go`) | none | `AddFeed`, `ImportOPML` | lookup, fetch, insert: three separate steps |
| Feed and merge handlers (`handler.go` 197-429) | none | add, update, delete, merge form, merge | check-then-act across queries and across requests |
| Syncer and article repository (`internal/feed/sync.go`, `internal/db/article_repo.go`) | table `articles` | `Sync`, `FindByIdentity`, `SetRead`, `MarkAllReadForFeed`, `UnreadCounts` | an item-by-item reconciliation that overlaps with read marks |
| Merge (`internal/db/merge.go`) | none | `MergeFeeds`, one transaction | identity chain against articles moved a moment before |
| Fetcher (`internal/feed/fetch.go`) | none | `Fetch` and its redirect loop | bound on hops, which hop is permanent |
| TTL (`ttl.go`, `Due`) | `refresh_ttl_seconds`, `last_refresh_at` | `TTL`, `Due` | zero, missing and enormous values, clamps, whole seconds |
| Identity, conversion (`identity.go`, `convert.go`, `parse.go`) | none | pure functions | items without identity |
| OPML (`internal/opml`), sidebar (`buildFolders`) | none | `Parse`, `Generate`, `List` | nested outlines, wrappers, the document read back |
| Migrations (`internal/db/migrate.go`), `Open` (`db.go`), `Listen` (`server/listen.go`) | the schema, `schema_migrations`, the port | one transaction per file | crashes between files, several instances, the busy timeout |
| Image proxy, favicon client (`internal/imageproxy`, `internal/favicon`) | none | `Fetch`, `downsize` | deadlines that outlive the call, refused hosts, fallbacks, truncated sizes |
| Sanitizer (`internal/sanitize`), `handleArticleFrame` | none | two rewritings around a policy | the order of the passes |
| Search index (migration 0002, `Search`) | table `articles_fts` | triggers | `feed_title` is a copy |
| Article and page handlers | none | read marks, pages, export, import | stale forms |
| Data directory, browser, backup | none | I/O | none that depends on order |

**How they interact.** The scheduler's goroutine is the only caller of
`Refresher.Refresh`. Handlers run on goroutines of their own, call the
repositories directly, and reach the scheduler in three ways: `TriggerRefresh`
(send or give up), `TriggerRefreshSync` (send, then wait for `done` or for their
context), and `IsRefreshing`/`Changed` (an atomic load and a broadcast channel).
The database handle is limited to one connection (`db.go`), so each repository
call is atomic and a transaction excludes everything else; there is no lock that
spans two calls. `main` cancels the scheduler's context, lets the HTTP server
drain, waits for the scheduler and closes the database.

**What makes each part correct.** Scheduler: no request is lost while someone
waits for it, an answer means a refresh that began after the call, due feeds are
refreshed, everyone is released. Lifecycle: the database is closed after the
last refresh, and it is closed. Streams: nobody sleeps on an old state.
Refresher and feeds table: what a user saved survives, a 304 means the content
is there, no feed is stuck on a constraint, articles stay with their feed.
Polling: a feed is asked as often as it wants, never more than every five minutes,
and its URL settles. Start: the schema is a history of whole migrations, whoever
is killed when. Subscription list: a document means the same however it is nested,
an interrupted import can be repeated, a backup can be read back. Images: a browser
contacts nobody but goread, an icon is the one the document names, and nothing
that a site or a browser does holds a connection for ever.

## 2. Modules

| Module | Models | Composes |
|---|---|---|
| `LiveIndicator` | abstract: observers follow a changing value | |
| `RefreshEvents` | `setRefreshing`, `Changed`, the two SSE handlers | implements `LiveIndicator` |
| `RefreshEventsProofs` | theorems about `RefreshEvents` | |
| `RefreshService` | abstract: who asks for a feed's refresh is told of one that began afterwards | |
| `Scheduler` | `Scheduler` and its callers, `main`'s shutdown | scheduler, handlers, lifecycle; implements `RefreshService` |
| `SchedulerProofs` | theorems about `Scheduler` | |
| `Refresher` | the feeds table, `Refresh`, every handler that writes the table | refresher, repository, handlers |
| `RefreshHistory` | `Refresher` with a memory of the refreshes cut off between validators and articles | `Refresher` |
| `RefresherProofs` | theorems about `Refresher` and `RefreshHistory` | |
| `Articles` | the articles table and the search index: `Sync` query by query, read marks, deletes, merges | syncer, repository, handlers |
| `ArticlesProofs` | theorems about `Articles` | |
| `Fetch` | the redirect loop of one fetch | |
| `TTL` | the interval a document advertises, how it is stored, `Due` | |
| `Polling`, `PollingProofs` | refreshes of one feed over time | `Fetch`, `TTL` |
| `SchemaVersion` | abstract: a version that goes up by one and that a power failure sets back | |
| `Startup`, `StartupProofs` | `Open`, `Migrate` and `Listen` of several instances | implements `SchemaVersion` |
| `FeedList` | `List` and `buildFolders` | |
| `OPML` | `Parse` and `Generate` on trees of outlines | `FeedList` |
| `Subscriptions`, `SubscriptionsProofs` | `ImportOPML` entry by entry, export, everyone else who writes the list; what a document means, what an export keeps | `OPML`, `FeedList` |
| `ArticleFrame` | the passes over an article's HTML | |
| `Downsize` | the arithmetic of `favicon.resize` | |
| `RemoteImages`, `RemoteImagesProofs` | the image proxy, the favicon client, the article frame | `ArticleFrame`, `Downsize` |
| `MC...` | constants for TLC | |

No module declares a `RECURSIVE` operator: where the code recurs or loops over data
(`walkOutlines`, `buildFolders`, the articles of a merge, the redirects of a fetch) the
model has a recursive function, so that proofs can speak of it.

### RefreshEvents

`setRefreshing` is two steps, `Store` (`refreshingFeedID.Store`, scheduler.go:70)
and `Broadcast` (close and replace the channel, 71-76), with `pending` between
them. A handler is a
program counter: `open`, `first` (channel taken, nothing sent yet), `write`,
`grab`, `wait` (in `select`), `read`. A channel is closed once and replaced, so
all that a stream can learn from the one it holds is whether it has been closed
since it was taken: `notified[s]`. `last` is the handler's variable, `shown` what
has been written to the browser. `skipped` (sidebars whose latest push gave up on a failed query) is a
history variable. The sidebar takes the channel and then reads (`TreeGrab`,
`TreeRead`); the badge reads and then takes it (`FeedRead`, `FeedGrab`). HTML is
left out.

### Scheduler

`queue` is the channel's buffer (`QueueCap` for 16) and `blocked` the goroutines
blocked in the send of `TriggerRefreshSync`, in order: a receive from a full
channel hands its slot to the first of them, as Go's runtime does
(`TakeRequest`). A caller is `idle`, `sending` or `waiting`; `answered` are those
whose `done` is closed. Requests of a cancelled caller stay queued, as in the
code. `Run` is `select`, `list`, `walk`, `walkRefresh`, `manualRefresh`,
`returned`. `rows` and `due` are the feeds table and the feeds `Due` accepts;
`triggers` are handlers between storing a feed and calling `TriggerRefresh`
(`MaxStoring` bounds them).
`phase` is `main`: `serving`, `draining` (inside `Shutdown`, then `wg.Wait`; the
handlers' requests are cancelled, but what they have begun may go on past both),
`failing` (the other way out), `closed`; `stopping` is the scheduler's context,
`base` the handlers'. `since[c]` is a history variable: has a
refresh of the feed begun, or begun and ended, since the call.

`RefreshService` is what is left of all this for those who ask: one feed at a time is
refreshed, `done` is closed by the end of a refresh of the caller's feed that began after
the call, and nothing is refreshed once the database is closed.

What a refresh does to the tables is `Refresher`'s subject; here it takes a
while, and the feed may remain due (its row could not be written).

### Refresher

`feeds` is the table with the columns that matter here: URL, folder, validators
(`val`), merge candidate (`cand`), error flag, favicon present. `CanUpdate` is
what an `UPDATE` of all columns meets: the row exists, `UNIQUE(feed_url)`, the
foreign key of `merge_candidate_id`. `Deleted` applies `ON DELETE SET NULL`.

`Refresh` is a sequence of database calls with other goroutines between any two
of them: `Begin` (`Get`), `FetchAnswers`/`FetchFails`, `Collide`/`Adopt`
(`GetByURL`), `Flag` (update of the other feed, whose failure is only logged),
`Save`, then `SyncLoad`, `SyncMeta`, `StoreArticles` (the Syncer), `IconLoad`,
`IconSave`. `row`, `other` and `fetched` are the function's variables: stale
copies are kept and written back whole, as in the code. Each handler is a
process too: `EditLoad`/`EditCheck`/`EditSave`, `Subscribe`/`SubscribeCreate`
(add and import of a new feed) and `ImportSave` (import of a known one),
`MergeForm`/`MergeSubmit`/`Merge`, `Delete`.

Content is a version: a URL publishes version 1, 2, ...; a validator names the
version (and, as history, the URL) it came with, and the server compares the
version only, as a server that gets `If-Modified-Since` does; `stored[id]` is the
version whose articles are in the feed. The Syncer's own steps are one step here.
Title, description, TTL and times are left out: they are written in the same
writes and nothing here depends on them.

`RefreshHistory` adds one history variable to all this: `lost[i]` is the versions of
feed `i` whose refresh ended between the write of the validators and that of the
articles, by an error or with the process, since articles were last stored.

### Articles

`Sync` between its queries: `SyncMeta` (the feed's row), `SyncList` (the snapshot
`existing`), for each item up to three lookups (`SyncLookup`: `guid`, `link`, `hash`)
and `SyncCreate` or `SyncUpdate`, then `SyncSweep` for each article of the snapshot
that is not in `seen`. `SyncFails` stands for a constraint, a row that has gone, a
database error and a crash: all else that `Sync` holds are local variables. Writes
need `Permitted`: the feed exists, and the GUID is free in it. Handlers run between
any two queries: `SetRead`, `MarkAllRead`, `Retitle` (an import), `DeleteFeed`
(cascade), `Merge` (one transaction: `Merging` is a recursive function over the loser's
articles, with the table after each of them).
An article is its item (GUID, link, date), its read mark and its state; texts are left
out. `index` says whose current title an entry of the search index has, or that it has
an old one. `Refresher` has the same `Sync` as three steps, of which the last one
stores all articles; what it says about validators does not depend on single
articles, and nothing here depends on validators.

### Fetch, TTL, Polling

`Fetch` follows one fetch: `hop` requests so far, `permanentTarget` and
`allPermanent` are the function's variables, `web` what each URL answers (a page, an
error, a permanent or temporary redirect, possibly to nowhere). `Asking` is the bound
of the loop; headers, bodies and validators are left out: any page may answer 304
(`Serve`), which the code accepts whether it sent validators or not.
`TTL` has the durations of `ttl.go` in the arithmetic of `time.Duration`, wrapping at
`HalfWord`, the whole seconds of `refresh_ttl_seconds` (`Stored`) and `Due`. `Polling`
puts them together for one feed: `row` is what is stored, `age` how long ago
`last_refresh_at` is, `elapsed` how long the fetch has taken (`last_refresh_at` is when
it began). `Idles` and `Waits` let time pass, `BeginDue` is the scheduler, `BeginManual`
the user; `Record...` are the ways out of `Refresh` in its order: failure, redirect, 304,
parse error, document. `Abandon` is a row that cannot be written, or the end of the
process. `quiet` and `advert` are history. Redirects that converge with other feeds are
in `Refresher`, and so is everyone else who writes the feed's row: an edit, an import or
the `Flag` of another feed's refresh that read the row before a refresh and writes it
back afterwards (handler.go:300, opml_import.go:63, refresh.go:94) would put the old
`last_refresh_at`, interval and URL back. What `Polling` says is about refreshes alone.

### Startup

One process per instance: `Start` picks its release, `OpenDatabase`, `CreateTable`, then
per migration the query (`Skip`, `Missing`), outside the transaction, and `Apply`,
`Record`, `Commit`; `Conflict` is a table that exists already. `lock` is SQLite's write
lock, `work` what its holder's transaction sees, `disk` what a power failure leaves
(`synchronous = NORMAL`: a commit that has not been synced may be undone, never in
part). Who waits for the lock may give up (`Busy`), and any instance may end at any
moment (`End`), which rolls back. `Listen` counts ports up while others come and go.
`alone` is history. What the migration files create is not modelled, only that each can
be executed once.

### FeedList, OPML and Subscriptions

A name is a sequence of words, a folder the sequence of its parts. `Forests[d]` are the
lists of outlines nested at most `d` deep, an outline being a record with such a list
below it, and a document is a member of `Forests[Depth]`: `Depth` is not in the code,
which recurs as deep as the document goes; any document has some depth. `walkOutlines`
recurs on `d`, with `unwrapFeedOutline` and `joinFolder`; `Generate` groups a sorted
list; `List` is the query's order and `buildFolders` the sidebar's grouping.
`LeavesBelow` and `PathOf` are the reference for what a document means: they list each
feed with the outlines around it first and name the folder afterwards, where the code
carries the path along.
`Subscriptions` has the import as the program runs it: `LookUp` and
`ImportCreate` or `ImportUpdate` for each entry, with `ImportFails` and `Restart` at
any point, and other requests (`AddFeed`, `EditFeed`, `DeleteFeed`, `Export`) and the
read and the write of a refresh (`RefreshLoads`, `RefreshSaves`) in between. `file` is
the last export, which may be imported again; `dirty` and `resited` are history: the
URLs that others wrote after the import's last write of them (or since it began), and
those that they wrote before a later lookup of the import.

### ArticleFrame, Downsize, RemoteImages

A document is the set of its elements that refer to something: a link, an image, a
script. `Frame` is the three passes of `handleArticleFrame`; `HTML` stands for the
sanitizer library with the options of `newPolicy` (no scripts, no unsafe references,
`target` and `rel` on absolute links only). A `job` is a fetch by the image proxy
("view") or of an icon: `gate` (`checkHost`), `request` (with `CheckRedirect` for each
further hop), `answered`, `reading`. `timer` is the deadline of its context and `conn`
the connection; `Expire` may come at any time, as does `NoAnswer`, and a browser may
stop reading (nothing happens) or go away (`Leave`). For an icon, a failure goes on to
the next of `candidates`, and the result is stored `downsize`d, or as it is when it cannot
be decoded; what was cut off at `MaxBytes` may or may not be. `missed` is history: the
sources that failed for other reasons than what the web answers. Both clients have the
same gate, bound and deadline in the code; addresses and pixels are left out. `Downsize`
gives each edge the values that a truncated floating-point product may have.

## 3. Runs

| Run | Question | Size |
|---|---|---|
| `events_streams` | Does a sidebar ever sleep on an old state? Does it end up showing the current one, and implement `LiveIndicator`? Is a badge that missed a change put right? | 15 k states |
| `sched_service` | Are requests lost, answers premature, is the database closed under a refresh? Does every call return, every due feed get its refresh, the program end? Does all this implement `RefreshService`? | 118 k |
| `refresh_sequential` | Without rivals, do converging redirects block a refresh or hide a merge suggestion, and does every feed catch up? | 13 k |
| `refresh_rivals` | With handlers between any two steps of a refresh, failing queries and crashes, which validators can run ahead of the articles, and are articles those of the feed's URL? | 3.1 M |
| `refresh_faults` | With all handlers, crashes and database errors, does a feed ever become its own merge candidate? | 4.1 M |
| `articles_sync` | Do a sync's writes ever meet a constraint, does its end reflect the document, does the search index follow, do merges keep read marks? | 1.3 M |
| `polling` | Is the answer the end of the redirect chain, with as many requests as promised? Is the advertised interval kept, five minutes' rest granted, and does the URL move once? | 106 k |
| `startup` | Is the schema always a history of whole migrations? Does who serves have its tables? Does a start fail over existing tables only because of a rival, does it end, does the schema implement `SchemaVersion`? | 19 k |
| `subscriptions` | Does a document mean the same however it is nested, and is it in the table after an import? Would what is exported now be imported again, feed for feed and in the same order? Does the sidebar show each folder once? | 187 k |
| `remote_images` | Does a frame load from the proxy only? Is the icon the one that the document names, if it can be had, and how large is it? Does a connection end? | 353 k |

### Disagreements between the code and what it says

These two runs are expected to end in a counterexample:

- `refresh_edit_reverted`: a refresh, even a failed one, writes back the row it read
  before its network request, and so reverts a URL or folder saved meanwhile;
  refresh.go:56 says that failures leave existing data unchanged.
- `articles_read_lost`: `Sync` writes back the read mark it read when it looked the
  article up (sync.go:57, 70-71), or listed it; an article opened in between turns
  unread again. sync.go:32 says that the read state is preserved.

More disagreements that the models admit, and that the properties describe from the
other side, as what does hold:

- The badge's handler reads the state and takes the channel afterwards
  (handler.go:695-707), so that a change in between is not sent, where its comment (647)
  promises one event per change. `FeedRecovers`: the next refresh of any other feed
  corrects it.
- The sidebar's handler skips a wake-up when the refreshing feed equals the last one
  seen (handler.go:799): a refresh that starts and ends before the goroutine runs leaves
  its unread counts unsent. `TreeConverges` speaks of the feed being refreshed only.
- The validators are stored before the articles (refresh.go:125, 129). If a query fails or
  the process ends in between, the server answers 304 from then on, and the articles wait
  until it publishes again. `ValidatorBacked`, checked and proved with these faults, says
  that nothing else does it: the validators that run ahead of the articles are those of a
  version that was cut off there (`lost`). `CatchesUp` is checked without crashes and
  failing queries.
- `ImportOPML` writes back the whole row it has looked up (opml_import.go:39-63), and with it
  the URL and the site that others may have changed in between. `ImportApplied` says what the
  import is there for, that the title, folder and site of the document survive this.
- The merge is done with the candidate at submit time (handler.go:392), not with the one
  the form showed.
- `Generate` writes a folder of one feed as an outline around one feed (opml.go:186-190),
  which is what `unwrapFeedOutline` takes for a wrapper when one name contains the other
  (opml.go:104-120): the feed comes back without its folder, where docs/spec.md:139 wants
  the hierarchy preserved. `BackupKeepsFeeds` says that this is the only loss.
- `TriggerRefresh` drops what does not fit in the queue although opml_import.go:21 says
  that every imported feed is queued. `DueFeedsRefreshed`: the next tick refreshes them;
  an edited URL is not due until its interval has passed.
- Two starts at once may both find a migration missing; the later one then fails
  (migrate.go:55-74). `ConflictMeansRival`: nothing else makes a start fail that way, and
  the next start gets further.
- An RSS ttl so large that minutes overflow `time.Duration` becomes some other interval
  (ttl.go:42); `QuietForMinTTL` holds for it too, `IntervalKept` is about the others.
- A loser's article whose link is that of an article moved a moment before is taken for
  its duplicate and dropped (merge.go:77), and two items of a document that share a GUID,
  a link or a date may end up as one article, the later one's (sync.go:57):
  `SyncReflectsDocument` says that nothing else is missing after a sync.
- An edited URL keeps the validators of the old one (handler.go:300) and may meet a 304
  of the new server; a merge candidate that is deleted between `Get` and `Update` in
  `Sync` makes that update fail on the foreign key (sync.go:44), after the validators
  were stored; with three feeds that converge on one URL the candidates are not pairwise
  symmetric (refresh.go:93), which is why `CandidatesVisible` only asks that each feed
  involved shows the merge action; an edit that passed the uniqueness check can still
  fail on it (handler.go:284).
- An icon of 49 pixels may become one of 31 (favicon.go:179-184); whatever a site serves
  as an icon with status 200 is stored, image or not (favicon.go:130-146), although the
  comment of `Fetch` speaks of a usable image (favicon.go:75), and an answer over the
  size limit is cut off, not refused. `FaviconByPriority` says which source is stored.

### Bounds

- Two feeds and two streams for the events: a stream only distinguishes its own
  feed, another feed and none.
- Scheduler: two feeds, one queue slot, one caller and one handler at a time that has
  stored a feed and not yet asked (`MaxStoring`). A request for one feed fills the slot, so
  that the other's is dropped or its caller blocks, and a due feed waits while requests for
  the other keep coming. A larger queue only delays that. Callers that block behind each
  other need a second one, which the liveness check has no time for: the safety
  properties of this run and the steps of the refinement are proved for any number of
  feeds, callers and slots.
- Two feeds, three articles and three documents: an item that keeps its GUID and
  takes another item's link, items without GUID, items with neither GUID nor link, two
  items of one document that share a link, and articles that go and come back. With `MaxId = 3`, a merge meets two articles on one
  side. `CHECK_DEADLOCK FALSE`: both feeds may be deleted.
- Two or three feeds, `MaxId = 3`: one feed can be deleted and one added under a
  refresh (`MaxId` bounds the IDs ever assigned), and two redirects can converge
  on the URL of a third feed. `MaxVer = 2` versions: one that was fetched and one
  that was not; `refresh_faults` has one, as no property of that run is about
  versions. One handler at a time beside the refresher: a lost update needs one
  reader that writes late and one writer. `refresh_rivals` starts with one feed
  (`MaxId = 2`: another beside it, or after it) and has no redirects, so that what is
  stored tells which URL it came from; both its properties are proved with them.

- Polling: four URLs and `MaxRedirects = 3` for 10 give every chain, loop and dead end of
  up to one hop more than the bound; the document's numbers include one below the minimum, one
  whose interval is a fraction of a second off, nonsense, and one that overflows
  (`HalfWord` = 2^26 half seconds, `Second` = 2, so that halves of a second exist);
  `Moments` lie on, just before and just after each boundary; ten requests of thirty
  seconds are `Delays`.
- Startup: two instances, releases of two and of three migrations, two ports: one
  instance is between its query and its transaction while the other migrates, and each
  port is free, a stranger's or the rival's. The safety properties are proved for any
  number of each.
- Subscriptions: `Depth = 3`, the deepest of the documents (an export has two levels);
  three URLs and IDs, two documents (nested folders, an empty one, a
  wrapper whose name differs in punctuation, a feed listed twice, a nameless folder)
  and every export; two steps of others (`MaxOthers`) in any of their places: one that
  reads and one that writes, or an edit and a deletion under an import.
- Images: `MaxRequests = 3` for 5 and `MaxBytes = 2`, with redirects to the refused host,
  in a circle and one longer than the bound, an empty icon, one cut off and one that does
  not decode; two fetches at a time share nothing but the frame and the icon.
- `CHECK_DEADLOCK FALSE` is not needed in the other runs.

### Fairness

- Weak fairness for every goroutine that can run, and for the end of a refresh:
  the HTTP clients have timeouts (30 s per request), and the SQLite calls return.
- Strong fairness for the branches of `Run`'s `select`: Go chooses at random among
  the ready ones, so that none is passed over for ever. Weak fairness would not do,
  since a branch is not enabled while a refresh runs.
- Strong fairness for the query that lists the feeds: it may fail, not for ever.
- The ticker ticks. Clients need not give up, but each handler sees `baseCtx`
  cancelled (`WF_vars(base /\ Cancel(c))`).
- `FairSpec` of `Refresher`: the scheduler comes back to each feed, and its server
  is reached again and again (strong fairness for an answer that is not garbled).
  Nothing forces a server to publish, a user to act or a process to crash.
- `Startup`: each process goes on (`WF_vars(Run(p))`): an instance that waits for the
  write lock is released by the holder's commit or by the busy timeout of 5 s (`Busy`).
- `RemoteImages`: deadlines pass (`WF_vars(Expire(j))`), which the runtime's timers do.
  Sites need not answer and browsers need not read.
- `FeedRecovers` assumes, in the formula itself, that feeds keep being refreshed.

## 4. Proofs

| Theorem | Statement |
|---|---|
| `RefreshEventsProofs!TypeCorrect`, `NoMissedChange` | `Spec => []TypeOK`, `Spec => []TreeNoMissedChange` |
| `RefreshEventsProofs!IndicatorSteps` | `Spec => Indicator!Init /\ [][Indicator!Next]_(Indicator!vars)` |
| `SchedulerProofs!TypeCorrect` | `Spec => []TypeOK` |
| `SchedulerProofs!RequestsAreKept` | `Spec => []NoLostRequest` |
| `SchedulerProofs!AnswersAreFresh` | `Spec => []AnsweredAfterRefresh` |
| `SchedulerProofs!ClosedAfterRefreshes` | `Spec => []FinishBeforeClose` |
| `SchedulerProofs!ServiceSteps` | `Spec => Service!Init /\ [][Service!Next]_(Service!serviceVars)` |
| `RefresherProofs!TypeCorrect`, `NeverOwnCandidate` | `Spec => []TypeOK`, `Spec => []NoSelfCandidate` |
| `RefresherProofs!ArticlesAreOwn` | `Spec => []ArticlesFromOwnURL`, unless URLs are edited |
| `RefresherProofs!RefreshesAloneFit`, `CandidatesOnBoth` | `Spec => []RefreshNeverConflicts`, `Spec => []CandidatesVisible`, without handlers; the first also without failing queries, the second without any fault |
| `RefresherProofs!ValidatorsBacked` | `HistorySpec => []ValidatorBacked`, unless URLs are edited |
| `ArticlesProofs!TypeCorrect`, `IndexFollows` | `Spec => []TypeOK`, `Spec => []IndexHasFeedTitle` |
| `ArticlesProofs!SyncMeetsNoConstraint`, `SyncReflects` | `Spec => []SyncNeverConflicts`, `Spec => []SyncReflectsDocument` |
| `ArticlesProofs!MergeKeeps` | `Spec => MergeKeepsRead` |
| `PollingProofs!TypeCorrect`, `RestsFiveMinutes`, `MovesOnlyOnce` | `Spec => []TypeOK`, `Spec => QuietForMinTTL`, `Spec => MovesOnce` |
| `PollingProofs!FetchEndsAtPage`, `IntervalsKept` | `Spec => []AnswerIsChainEnd`, `Spec => []IntervalKept` |
| `StartupProofs!TypeCorrect`, `SchemaSound`, `ServingIsMigrated` | `Spec => []TypeOK`, `Spec => []SchemaIsHistory`, `Spec => []ServesMigrated` |
| `StartupProofs!ConflictsHaveRivals`, `SchemaRefines` | `Spec => ConflictMeansRival`, `Spec => ImplementsSchemaVersion` |
| `SubscriptionsProofs!TypeCorrect`, `ImportHolds`, `FoldersOnce` | `Spec => []TypeOK`, `Spec => []ImportApplied`, `Spec => []FoldersListedOnce` |
| `SubscriptionsProofs!ReadsMeaning`, `BackupKeeps` | `Spec => []ReadsAsMeant`, `Spec => []BackupKeepsFeeds` |
| `RemoteImagesProofs!TypeCorrect`, `FrameLocal` | `Spec => []TypeOK`, `Spec => []FrameStaysLocal` |
| `RemoteImagesProofs!IconsAreSmall`, `IconByPriority` | `Spec => []IconFits`, `Spec => []FaviconByPriority` |
| `RemoteImagesProofs!ResizeFits`, `SamplesInside` | sizes of 1 to 32 pixels, copied from within the image |

They hold for all sets of feeds, streams, callers, handlers and instances, every queue
capacity, every web, document, article, advertisement, number of feed IDs, article IDs,
URLs, versions, migrations and ports, every depth of nesting, under the modules' named assumptions and, in
`RefresherProofs`, what the table says of `Ops` and `Faults`. `TypeOK` of `RefreshEvents`, `Scheduler`,
`Refresher`, `Polling`, `Subscriptions` and `RemoteImages` is proved and not listed in a run.

- **NoMissedChange.** `TreeNoMissedChange` speaks of sleeping sidebars and is not
  inductive: `TreeInv` adds those about to write. Between a sidebar's read and its
  sleep, `last` is the current state unless its channel has been closed or is about
  to be. It holds because the channel is taken before the state is read.
- **IndicatorSteps.** The safety part of the refinement of `LiveIndicator`. A sidebar is
  online once it has read the state: its first read is `Join`, a later one `Observe` or,
  when the state is the one it has, a stutter; storing another state is `Change`; all
  other steps but `Leave` stutter. It needs `TypeOK`.
- **RequestsAreKept.** `NoLostRequest` is inductive with `TypeOK`. The lemmas about
  the queue (`AppendFacts`, `TailFacts`, `QueuedByAppend`, `QueuedByTail`,
  `WithoutType`) say which requests survive a send, a receive and a withdrawn send.
- **AnswersAreFresh.** `AnswerInv` strengthens the property: each request in the
  queue that belongs to a waiting caller is for the feed the caller wants and the
  caller has had no answer (`RequestsInv`); blocked callers are exactly the sending
  ones (`SendersInv`); and the refresh under way for a caller started after its call.
- **ClosedAfterRefreshes.** The database is closed only when `pc = "returned"`, which
  nothing leaves.
- **ServiceSteps.** The safety part of the refinement of `RefreshService`: `TakeRequest` and
  `WalkNext` are `Begin`, `FinishRefresh` is `End`; sends, receives, cancelled callers and
  ticks stutter. That `End` answers only whom it may is `RequestsInv`, which also speaks of
  callers that have gone; that nothing begins after `Close` is `ClosedInv`.
- **NeverOwnCandidate.** `NoSelfCandidate` is about the table; `CandidateInv` adds the
  copies that will be written back to it: the refresher's row never names its own feed,
  the other feed's copy in `Flag` is another feed's and names the one refreshed, and the
  rows held by the handlers do not name their feed (`RefreshCopies`, `RequestCopies`).
  Deletes and merges only clear candidates (`DeletedTypes`).
- **ArticlesAreOwn.** `HomeInv`: all copies of a feed's row, the table's, the refresher's and
  those that handlers hold, lead to the same site, although some have the URL before a
  permanent redirect and some the one after it; a feed's articles are that site's; and an
  ID that was never given out has no articles, which is what a refresh of a deleted feed
  would otherwise leave to the next one. An edit changes where a URL leads, and that is
  `refresh_edit_reverted`'s subject.
- **RefreshesAloneFit, CandidatesOnBoth.** `AloneInv`: the refresher's copies are the rows as
  they are, but for its own changes, and candidates are live feeds. The URL that `Save` writes
  is the row's own, or was free when it was looked up and nobody else writes. For
  candidates, `CandidatesMutual` looks at the table as the refresh under way is about to
  leave it (`Cand`): after `Flag` the other feed has its candidate and this one not yet.
- **ValidatorsBacked.** `BackedInv`: each validator, in the table or in a copy that may be
  written back, is one whose articles are stored, the one whose articles are about to be,
  or one that is `lost`; versions only grow. Whatever makes a refresh end between its two
  writes, a crash, a failing query, a deleted feed, a constraint, is a step of `Remember`;
  a copy of the row that a handler took meanwhile has the new validators too, and may bring
  them back later: that is why `lost` keeps them until articles are stored, and why copies
  are in the invariant. `LostInv`: what is lost came from the feed's own URL, is no newer
  than what the site has published, and an ID never given out has lost nothing.
- **Articles, TypeCorrect and IndexFollows.** `BaseInv`: GUIDs are unique within a feed
  (`GUIDsUnique`, the partial index, through moves between feeds), IDs are given out once
  (`Fresh`), and a sync has a current item when it looks one up. An index entry is right
  because what a sync writes is a row of its feed: what it matched a query ago is still the
  feed's, if the feed is still there (`CopiesInv`, `StayHome`: a merge moves articles
  only out of a feed that goes).
- **SyncMeetsNoConstraint, SyncReflects.** `UndisturbedInv`: until a delete or a merge comes in
  between, the lookups that found nothing would find nothing now (`MatchInv`), the snapshot
  is true of what has not been dealt with (`SnapshotInv`), what has been dealt with has an
  item of the document (`FromDoc`), and each item up to here is in the table, present and
  kept from the sweep, or a later one shares a key with it (`FromTable`). `GUID` comes first
  in the identity chain: that is why no write meets the unique index. Proving it for any document
  showed that an earlier form of `SyncReflectsDocument` was false for documents whose items
  share keys in a chain; the property now says which items may be missing.
- **MergeKeeps.** `MergeInv` about the table after n of the loser's articles: the survivor's
  articles have their items and marks (`Kept`), the articles dealt with are found in the
  survivor (`Found`), the others are as before. An article that moves may hide one that
  was found until then, but only if it is found itself by the same item (`MoveKeepsFound`).
  Induction over the articles is not available to the provers; the proof takes the least n
  whose table is wrong (`LeastElement`, from the well-foundedness of `<`), and looks at the
  step before. `ReachedSteps` and `MergingSteps` unroll the recursive functions that way.
- **RestsFiveMinutes.** `BeginDue` is an action property: it follows from `RestInv` (the
  stored interval is 0, for none, or at least five minutes: `IntervalAtLeastMin` and
  `StoredAtLeastMin`, through every overflow) and `AgeInv` (`last_refresh_at` is when the
  last recorded refresh began).
- **MovesOnlyOnce.** `MoveInv`: a stored URL other than the first is `Settled`, that is, no
  permanent redirect lies ahead of it; a fetch that starts from a settled URL meets only
  settled ones and reports no move; and only temporary redirects lead from a permanent
  target to the current URL (`LeadsTo`). When such a chain ends in a page, its start is
  settled (`EndSettles`).
- **FetchEndsAtPage.** `ChainInv`: after `hop` requests the fetch is at the URL that `Reached`
  gives for that hop, has met redirects only (`RedirectsOnly`), and `permanentTarget` is where the
  last permanent one led. `PageOf` has at most one element, since a page ends the way
  (`PageIsEnd`); a failure means that there is none within the bound.
- **IntervalsKept.** `AdvertInv`: the stored seconds are those of the last stored document's
  advertisement. `StoredAsAsked` relates them to what was asked for, through the division of
  the period by the updates, the clamps and the cut to whole seconds (`Quotient`).
- **SchemaSound.** `MigrationInv`: database and disk are histories (`SchemaIsHistory`);
  what an instance has seen recorded stays recorded until it is down (`SeenSoFar`); it
  does not go beyond its release (`WithinRelease`); the transaction holds the database
  plus the next migration (`WorkIsNext`). `MissingIsNext` is the core: the migration that
  is missing in the check, and whose tables do not exist in the transaction, is the next.
- **ServingIsMigrated** needs `SeenSoFar`: a power failure, which may undo commits, also
  ends every instance. **ConflictsHaveRivals** needs `AloneInv`: what an instance that runs
  alone found missing is still missing. **SchemaRefines** maps the version to
  `Len(db.schema)`; every step but `Commit`, `Sync` and `PowerLoss` stutters.
- **ImportHolds.** `ImportApplied` speaks of an import that is done. `AppliedInv` says the same of
  the entries before the current one (`AppliedUpTo`), and of the row that the lookup returned:
  it has the entry's URL and the site that an earlier entry named, unless others wrote it before
  the lookup, and whatever row has its ID by now is the same or one that others wrote
  (`ExistingInv`). Nothing is assumed of the table's own row of that URL: the write replaces it.
  Others may do anything that marks the URLs it takes away and brings (`MarkedChanges`): that is
  all the proof uses of `AddFeed`, `EditFeed`, `DeleteFeed` and `RefreshSaves`. The write of an
  entry keeps what earlier entries say of other feeds, because the row it replaces is either the
  one looked up or one whose URL is dirty (`WroteKeepsApplied`).
- **FoldersOnce.** The order of the query is a strict total order (`PrecedesTransitive`,
  `PrecedesTotal`, by the least place where two names differ), so every table can be listed in it
  (`ListSorted`, by counting rows) and a folder's feeds are neighbours (`FoldersTogether`).
  `PutOnce` is the step of the grouping: the label of the next feed is the last folder's or one
  that no folder has, except "Uncategorized".
- **ReadsMeaning.** The import under way holds what `Parse` gave for its document
  (`ImportOK`); the rest is about `Parse` alone (`ParseMeans`). `ForestsSteps`, `WalkSteps` and
  `LeavesSteps` unroll the three recursive functions, one depth from the next. `WalkIsMeant`
  says of every depth that the walk from a folder is what `MeantOf` makes of the leaves, if
  the folder is the path of the outlines above; it takes the least depth at which this fails,
  since induction with a predicate is not available. A wrapper adds an outline above its feed
  and no name to the path; any other outline adds its name (`PathSteps`). The lemmas on
  `FlattenSeq` (`FlatSteps`, `FlattenIs` and those after them) unroll the library's fold in
  the same way: of a sequence cut in two, of segments, of images under a map.
- **BackupKeeps.** The list is sorted, so a folder's feeds are those from the one that opens it
  to some `hi` (`SpanOfFolder`), and what `Generate` writes for the folder is their leaves, in a
  group unless the folder is empty (`LeavesOfSpan`). Read alone, that gives each of them back
  (`WrittenIsRead`): a group of one is unwrapped just when `LooksWrapped`. `Parse` of two
  documents in a row is the one and then the other (`ParseConcat`), and `WritingAll` goes down
  the list: after `n` feeds, what is written is read as all feeds of the folders opened so far
  (`ReadsTo`). That exports are documents again (`file` in `TypeOK`) comes out of it too.
  An earlier form of the property compared sets of feeds; it now says the order as well.
- **FrameLocal.** The proof follows a document through the three passes: after the first,
  links are absolute or unsafe; after the second, nothing unsafe is left and absolute
  links open in their own tab; after the third, images have the proxy's address.
- **TypeCorrect** of the images needs `FrameLocal` (what a browser asks the proxy for is a
  reference of the frame). **IconsAreSmall** needs `ResizeFits`, which rests on `EdgesFit`: the product for an
  edge is at most 32 because the edge is at most the longer one.

- **IconByPriority.** `IconInv`: an icon's fetch tries what the document names first, and the
  fallback only if that was `Lost`: there is none, it leads nowhere, or it was missed; the
  current URL is where the candidate's redirects lead after as many requests (`Way`).

Only model-checked:

- The liveness properties and the fairness part of the refinements of `LiveIndicator` and
  `RefreshService`: fairness is beyond the prover.

## 5. Not modelled

- The pages that only show rows, `Search` with its query syntax and ranking, texts,
  authors and metadata of items: data that nothing else depends on.
- The backup (`VACUUM INTO` and a copy of the file), the data directory and the browser
  launcher: calls to SQLite and the operating system without state.
- The allow list of the sanitizer library, the parsing of XML, HTML and dates, the
  decoding of images: libraries; their results are enumerated or described.
- Addresses: which hosts `checkHost` refuses is a constant (`Gated`).

## 6. Plan

1. `Scheduler` as the source of the events in `RefreshEvents`.
2. Larger instances: three instances at the start, two handlers beside the refresher.
