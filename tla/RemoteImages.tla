------------------------------ MODULE RemoteImages ------------------------------
(***************************************************************************)
(* How goread fetches images: for a browser that shows an article          *)
(* (handleImageProxy, package imageproxy) and as the icon of a feed        *)
(* (fetchFaviconIfMissing, package favicon).  Both clients refuse some     *)
(* hosts, follow few redirects, bound the time of a request and the size   *)
(* of an answer; the proxy streams the body, and the browser may stop      *)
(* reading at any moment without going away.                               *)
(*                                                                         *)
(* A connection is given back when its body is closed or its request's     *)
(* context ends, by its deadline or by a cancel.                           *)
(***************************************************************************)
EXTENDS ArticleFrame, Downsize, Sequences

CONSTANTS
    Jobs,          \* bound: fetches at a time
    Articles,      \* [content, link]: what articles contain and link to
    Sites,         \* what documents name as the feed's site, or NoRef
    FeedURL,
    Gated,         \* URLs of hosts that are refused (checkHost), or with other schemes
    Webs,          \* what URLs answer
    Icons,         \* what documents name as the feed's icon, or NoRef
    Fallback,      \* /favicon.ico of the feed's site
    MaxRequests,   \* 5: the requests that CheckRedirect allows
    MaxBytes,      \* where an answer is cut off
    NoIcon

Dimensions == (Nat \ {0}) \X (Nat \ {0})

\* dims: the size in pixels of an image that the standard library decodes.
Answers == [kind : {"redirect", "ok", "error"}, to : URLs \cup {NoRef},
            image : BOOLEAN, dims : Dimensions \cup {NoRef}, size : Nat]

ASSUME RemoteImagesAssumption ==
    /\ NoRef \notin URLs \cup Paths /\ URLs \cap Paths = {} /\ Unsafe \notin URLs \cup Paths
    /\ \A b \in URLs, p \in Paths : Joined(b, p) \in URLs
    /\ FeedURL \in URLs
    /\ \A a \in Articles : a.content \subseteq Elements
    /\ Webs \subseteq [URLs -> Answers]
    /\ Icons \subseteq URLs \cup {NoRef} /\ Fallback \in URLs \cup {NoRef}
    /\ MaxRequests \in Nat \ {0} /\ MaxBytes \in Nat \ {0}

VARIABLES
    web,
    base, shown,   \* the base and the elements of the frame that is open
    job,           \* the fetches
    favicon        \* the feed's icon, and, as history, how it was found

vars == <<web, base, shown, job, favicon>>

Idle == [at |-> "idle", kind |-> "view", url |-> NoRef, made |-> 0, got |-> 0,
         timer |-> FALSE, conn |-> FALSE,
         named |-> NoRef, rest |-> <<>>, origin |-> NoRef, missed |-> {}]

Fetches == [
    at : {"idle", "next", "gate", "request", "answered", "reading"},
    kind : {"view", "icon"}, url : URLs \cup Paths \cup {NoRef},
    made : 0 .. MaxRequests, got : 0 .. MaxBytes, timer : BOOLEAN, conn : BOOLEAN,
    named : URLs \cup {NoRef}, rest : Seq(URLs), origin : URLs \cup {NoRef},
    missed : SUBSET (URLs \cup {NoRef})]

\* A fetch that has ended holds nothing, and what is read stays within bounds.
TypeOK ==
    /\ web \in Webs
    /\ base \in URLs \cup {NoRef}
    /\ job \in [Jobs -> Fetches]
    /\ \A j \in Jobs :
          IF job[j].at \in {"idle", "next", "gate"} THEN ~job[j].timer /\ ~job[j].conn
          ELSE job[j].url \in URLs
    /\ favicon # NoIcon =>
          favicon.url \in URLs /\ favicon.png \in ((1 .. 32) \X (1 .. 32)) \cup {NoRef}

Init ==
    /\ web \in Webs
    /\ base = NoRef /\ shown = {}
    /\ job = [j \in Jobs |-> Idle]
    /\ favicon = NoIcon

Becomes(j, r) == job' = [job EXCEPT ![j] = r] /\ UNCHANGED <<web, base, shown>>

--------------------------------------------------------------------------------
(* The requests. *)

\* The feed's row may be gone by the time its URLs are asked for.
handleArticleFrame ==
    /\ \E a \in Articles :
          /\ \/ \E site \in Sites : base' = contentBaseURL(a.link, site, FeedURL)
             \/ base' = contentBaseURL(a.link, NoRef, NoRef)
          /\ shown' = Frame(a.content, base')
    /\ UNCHANGED <<web, job, favicon>>

\* The browser asks for an image of the frame.
handleImageProxy(j) ==
    /\ job[j] = Idle
    /\ \E e \in shown :
          /\ e.tag = "img"
          /\ Becomes(j, [Idle EXCEPT !.at = "gate", !.url = e.ref[2]])
    /\ UNCHANGED favicon

Try(u) == IF u = NoRef THEN <<>> ELSE <<u>>

\* Mutant: the site's own icon first.
fallbackFirst(named) == Try(Fallback) \o Try(named)

candidates(named) == Try(named) \o Try(Fallback)

\* Refreshes run one at a time; an icon that is stored is not fetched again.
fetchFaviconIfMissing(j) ==
    /\ job[j] = Idle /\ favicon = NoIcon
    /\ \A k \in Jobs : job[k].kind # "icon"
    /\ \E named \in Icons :
          Becomes(j, [Idle EXCEPT !.at = "next", !.kind = "icon", !.named = named,
                                  !.rest = candidates(named)])
    /\ UNCHANGED favicon

Next1(j) ==
    /\ job[j].at = "next"
    /\ Becomes(j, IF job[j].rest = <<>> THEN Idle
                  ELSE [job[j] EXCEPT !.at = "gate", !.url = Head(job[j].rest),
                                      !.origin = Head(job[j].rest), !.rest = Tail(@)])
    /\ UNCHANGED favicon

--------------------------------------------------------------------------------
(* One fetch: Client.Fetch of imageproxy, fetchOne of favicon. *)

Released(r) == [r EXCEPT !.timer = FALSE, !.conn = FALSE, !.made = 0, !.got = 0]

\* The proxy answers 502; for an icon the next candidate is tried.
Failed(r) == IF r.kind = "view" THEN Idle ELSE [Released(r) EXCEPT !.at = "next"]
\* The same, for a cause that is not what the web answers.
Missed(r) == Failed([r EXCEPT !.missed = @ \cup {r.origin}])

Refused(j) ==
    /\ job[j].at = "gate"
    /\ job[j].url \notin URLs \ Gated
    /\ Becomes(j, Failed(job[j])) /\ UNCHANGED favicon

Send(j) ==
    /\ job[j].at = "gate"
    /\ job[j].url \in URLs \ Gated
    /\ Becomes(j, [job[j] EXCEPT !.at = "request", !.timer = TRUE, !.made = 1])
    /\ UNCHANGED favicon

CheckRedirect(j) ==
    /\ job[j].at = "request" /\ job[j].timer
    /\ web[job[j].url].kind = "redirect"
    /\ LET target == web[job[j].url].to IN
       Becomes(j, IF job[j].made < MaxRequests /\ target \in URLs \ Gated
                  THEN [job[j] EXCEPT !.url = target, !.made = @ + 1]
                  ELSE Failed(job[j]))
    /\ UNCHANGED favicon

NoAnswer(j) ==
    /\ job[j].at = "request"
    /\ Becomes(j, Missed(job[j])) /\ UNCHANGED favicon

\* Mutant: the deadline bounds the headers only.
AnswerUnbounded(j) ==
    /\ job[j].at = "request" /\ job[j].timer
    /\ web[job[j].url].kind # "redirect"
    /\ Becomes(j, [job[j] EXCEPT !.at = "answered", !.conn = TRUE, !.timer = FALSE])
    /\ UNCHANGED favicon

Answer(j) ==
    /\ job[j].at = "request" /\ job[j].timer
    /\ web[job[j].url].kind # "redirect"
    /\ Becomes(j, [job[j] EXCEPT !.at = "answered", !.conn = TRUE])
    /\ UNCHANGED favicon

Acceptable(r) == web[r.url].kind = "ok" /\ (r.kind = "view" => web[r.url].image)

Reject(j) ==
    /\ job[j].at = "answered" /\ ~Acceptable(job[j])
    /\ Becomes(j, Failed(job[j])) /\ UNCHANGED favicon

Accept(j) ==
    /\ job[j].at = "answered" /\ Acceptable(job[j])
    /\ Becomes(j, [job[j] EXCEPT !.at = "reading"]) /\ UNCHANGED favicon

Limit(u) == IF web[u].size < MaxBytes THEN web[u].size ELSE MaxBytes

\* A piece of the body is read and, for a browser, written.
Read(j) ==
    /\ job[j].at = "reading" /\ job[j].timer
    /\ job[j].got < Limit(job[j].url)
    /\ Becomes(j, [job[j] EXCEPT !.got = @ + 1]) /\ UNCHANGED favicon

AtEnd(j) == job[j].at = "reading" /\ job[j].timer /\ job[j].got = Limit(job[j].url)

\* cancelOnCloseBody.Close.
EndView(j) ==
    /\ AtEnd(j) /\ job[j].kind = "view"
    /\ Becomes(j, Idle)
    /\ UNCHANGED favicon

\* What can be decoded is stored as a small PNG, anything else as it is; an answer
\* that was cut off seldom can.
downsize(answer) ==
    (IF answer.dims # NoRef THEN resize(answer.dims[1], answer.dims[2]) ELSE {})
    \cup (IF answer.dims = NoRef \/ answer.size > MaxBytes THEN {NoRef} ELSE {})

\* The feed may be gone, or the update fail.
EndIcon(j) ==
    /\ AtEnd(j) /\ job[j].kind = "icon"
    /\ IF job[j].got = 0
       THEN Becomes(j, Failed(job[j])) /\ UNCHANGED favicon
       ELSE /\ Becomes(j, Idle)
            /\ \/ UNCHANGED favicon
               \/ \E png \in downsize(web[job[j].url]) :
                     favicon' = [url |-> job[j].url, png |-> png,
                                 named |-> job[j].named, missed |-> job[j].missed]

\* The deadline passes: the transport drops the connection.
Expire(j) ==
    /\ job[j].timer
    /\ Becomes(j, [job[j] EXCEPT !.timer = FALSE, !.conn = FALSE]) /\ UNCHANGED favicon

\* The next read fails.
Broken(j) ==
    /\ job[j].at = "reading" /\ ~job[j].timer
    /\ Becomes(j, Missed(job[j])) /\ UNCHANGED favicon

\* The browser goes away, or the program stops: the context is cancelled.
Leave(j) ==
    /\ job[j].at # "idle"
    /\ Becomes(j, Idle) /\ UNCHANGED favicon

Fetch(j) ==
    \/ Refused(j) \/ Send(j) \/ CheckRedirect(j) \/ NoAnswer(j) \/ Answer(j)
    \/ Reject(j) \/ Accept(j) \/ Read(j) \/ EndView(j) \/ EndIcon(j) \/ Broken(j)

Next ==
    \/ handleArticleFrame
    \/ \E j \in Jobs : \/ handleImageProxy(j) \/ fetchFaviconIfMissing(j) \/ Next1(j)
                       \/ Fetch(j) \/ Expire(j) \/ Leave(j)

\* Deadlines pass.  Browsers need not read, nor servers answer.
Spec == Init /\ [][Next]_vars /\ \A j \in Jobs : WF_vars(Expire(j))

--------------------------------------------------------------------------------
(* Properties. *)

\* Whatever the article contains, the frame makes the browser load nothing from
\* anywhere but the proxy, and its links open in a tab of their own, without
\* referrer; both are absolute when there is anything to resolve them against
\* (sanitize.go:48-51, handler.go:815-819).
FrameStaysLocal ==
    LET resolved == URLs \cup (IF base = NoRef THEN Paths ELSE {}) IN
    \A e \in shown :
        \/ e.tag = "a" /\ e.ref \in resolved /\ (e.ref \in URLs => e.blank)
        \/ e.tag = "img" /\ ~e.srcset /\ e.ref \in {proxyImageURL(ref) : ref \in resolved}

\* No connection to a site outlives its deadline, even when the browser has
\* stopped reading and never goes away (imageproxy.go:85-88).
ConnectionsEnd == \A j \in Jobs : job[j].conn ~> ~job[j].conn

\* What is stored of an icon has 1 to 32 pixels either way, wherever the products of
\* the shorter edge are cut, unless it cannot be decoded: because it is no image of
\* the standard library's, or because it was cut off (favicon.go:134, 155-186).
IconFits ==
    favicon # NoIcon =>
        \/ favicon.png \in (1 .. 32) \X (1 .. 32)
        \/ /\ favicon.png = NoRef
           /\ web[favicon.url].dims = NoRef \/ web[favicon.url].size > MaxBytes

\* Way(u)[n] is the URL of the n-th request that is made for u, if there is one.
Way(u) ==
    LET r[n \in 1 .. MaxRequests] ==
            LET v == IF n = 1 THEN u
                     ELSE IF r[n-1] # NoRef /\ web[r[n-1]].kind = "redirect"
                          THEN web[r[n-1]].to ELSE NoRef
            IN  IF v \in URLs \ Gated THEN v ELSE NoRef
    IN  r

\* The URL at the end of u's redirects, if it answers with something.
Source(u) ==
    LET way == Way(u)
        ends == {way[n] : n \in {m \in 1 .. MaxRequests :
                                   way[m] # NoRef /\ web[way[m]].kind = "ok"}}
    IN  IF \E v \in ends : web[v].size > 0 THEN CHOOSE v \in ends : TRUE ELSE NoRef

\* The icon stored is what the document names, if that answers; the site's own
\* is only a fallback for one that is missing, refused or unreachable
\* (docs/spec.md:172, favicon.go:72).
FaviconByPriority ==
    favicon # NoIcon =>
        \/ favicon.url = Source(favicon.named)
        \/ /\ favicon.url = Source(Fallback)
           /\ favicon.named \in favicon.missed \cup {NoRef} \/ Source(favicon.named) = NoRef
================================================================================
