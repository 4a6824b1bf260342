--------------------------------- MODULE Fetch ---------------------------------
(***************************************************************************)
(* Fetcher.Fetch: the redirects of a feed's URL are followed one request   *)
(* at a time, and the target of the last permanent one is reported, so     *)
(* that the caller can store it as the feed's URL.                         *)
(***************************************************************************)
EXTENDS Naturals

CONSTANTS
    URLs,
    NoURL,          \* no URL: "" in the code
    MaxRedirects,   \* maxRedirects
    Webs            \* the webs considered: what each URL answers

\* "permanent" is 301 and 308, "temporary" 302, 303 and 307, "page" 2xx or 304,
\* "refused" any other status.  A redirect to NoURL has no usable Location.
Answers == [kind : {"permanent", "temporary", "page", "refused"}, to : URLs \cup {NoURL}]

ASSUME FetchAssumption ==
    /\ NoURL \notin URLs
    /\ URLs # {}
    /\ MaxRedirects \in Nat \ {0}
    /\ Webs \subseteq [URLs -> Answers]

VARIABLES
    web,              \* what each URL answers
    at,               \* "idle", before the next "request", or "answered"
    feedURL,          \* the argument of Fetch
    currentURL, redirects, permanentTarget,   \* its local variables
    result            \* what it returned; the FinalURL is permanentTarget

fetchVars == <<web, at, feedURL, currentURL, redirects, permanentTarget, result>>

\* "failed" is what the web answers, "unreachable" a request that got no answer.
Results == {"none", "failed", "unreachable", "page", "notModified"}

FetchTypeOK ==
    /\ web \in Webs
    /\ at \in {"idle", "request", "answered"}
    /\ feedURL \in URLs /\ currentURL \in URLs
    /\ redirects \in 0..MaxRedirects
    /\ permanentTarget \in URLs \cup {NoURL}
    /\ result \in Results

AnyURL == CHOOSE u \in URLs : TRUE

FetchInit ==
    /\ web \in Webs
    /\ at = "idle"
    /\ feedURL = AnyURL /\ currentURL = AnyURL
    /\ redirects = 0 /\ permanentTarget = NoURL
    /\ result = "none"

IsRedirect(answer) == answer.kind \in {"permanent", "temporary"}

StartFetch(u) ==
    /\ at = "idle"
    /\ at' = "request"
    /\ feedURL' = u /\ currentURL' = u
    /\ redirects' = 0 /\ permanentTarget' = NoURL
    /\ result' = "none"
    /\ UNCHANGED web

Return(r) ==
    /\ at = "request"
    /\ at' = "answered" /\ result' = r
    /\ UNCHANGED <<web, feedURL, currentURL, redirects, permanentTarget>>

TooManyRedirects == redirects >= MaxRedirects /\ Return("failed")

\* Mutant: one request more.
AskingOnceMore == at = "request" /\ redirects <= MaxRedirects

\* Another request is sent.
Asking == at = "request" /\ redirects < MaxRedirects

\* The request or the reading of its body fails.
RequestFails == Asking /\ Return("unreachable")

Follow ==
    /\ Asking
    /\ LET answer == web[currentURL]
       IN  /\ IsRedirect(answer) /\ answer.to # NoURL
           /\ currentURL' = answer.to
           /\ permanentTarget' = IF answer.kind = "permanent" THEN answer.to
                                                              ELSE permanentTarget
    /\ redirects' = redirects + 1
    /\ UNCHANGED <<web, at, feedURL, result>>

Refuse ==
    /\ Asking
    /\ \/ web[currentURL].kind = "refused"
       \/ IsRedirect(web[currentURL]) /\ web[currentURL].to = NoURL
    /\ Return("failed")

\* A 304 is taken at its word, whether the request carried validators or not.
Serve ==
    /\ Asking
    /\ web[currentURL].kind = "page"
    /\ Return("page") \/ Return("notModified")

\* Fetch has returned and its variables are gone.
EndFetch ==
    /\ at' = "idle"
    /\ feedURL' = AnyURL /\ currentURL' = AnyURL
    /\ redirects' = 0 /\ permanentTarget' = NoURL
    /\ result' = "none"
    /\ UNCHANGED web

FetchStep == TooManyRedirects \/ RequestFails \/ Follow \/ Refuse \/ Serve

--------------------------------------------------------------------------------
(* The same by definition: what a URL leads to. *)

\* Reached(u)[n] is the URL that n redirects lead to from u, if there is one.
Reached(u) ==
    LET r[n \in 0..MaxRedirects] ==
            IF n = 0 THEN u
            ELSE IF r[n-1] # NoURL /\ IsRedirect(web[r[n-1]]) THEN web[r[n-1]].to
            ELSE NoURL
    IN  r

\* The numbers of redirects after which Fetch still sends a request.
Hops(u) == {n \in 0..(MaxRedirects - 1) : Reached(u)[n] # NoURL}

\* The page at the end of u's redirects: a set of one URL, or empty.
PageOf(u) == {Reached(u)[n] : n \in {m \in Hops(u) : web[Reached(u)[m]].kind = "page"}}

\* Where the last permanent redirect on the way leads.
MovedTo(u) ==
    LET moves == {n \in Hops(u) : web[Reached(u)[n]].kind = "permanent"}
    IN  IF moves = {} THEN NoURL
        ELSE web[Reached(u)[CHOOSE n \in moves : \A m \in moves : m <= n]].to

\* Fetch succeeds exactly for the URLs that lead to a page within the bound,
\* ends at that page, and reports where the last permanent redirect led: loops,
\* chains that are too long and redirects to nowhere fail (fetch.go:61-97).  The
\* URL reported leads to the same page, so that it can be stored (fetch.go:26).
AnswerIsChainEnd ==
    at = "answered" /\ result # "unreachable" =>
        IF PageOf(feedURL) = {}
        THEN result = "failed"
        ELSE /\ result \in {"page", "notModified"}
             /\ PageOf(feedURL) = {currentURL}
             /\ permanentTarget = MovedTo(feedURL)
             /\ permanentTarget # NoURL => PageOf(permanentTarget) = PageOf(feedURL)
================================================================================
