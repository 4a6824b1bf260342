-------------------------------- MODULE Polling --------------------------------
(***************************************************************************)
(* How often one feed is fetched, and from where.  The scheduler refreshes *)
(* it when Due says so, the user whenever he likes; Refresh fetches it     *)
(* (module Fetch), stores the interval the document advertises (module     *)
(* TTL) and the URL a permanent redirect led to.                           *)
(*                                                                         *)
(* Here the web stays as it is, no other feed has the URL in question, and *)
(* nobody else writes the row.  Module Refresher has redirects that        *)
(* converge, and the handlers and imports that write back whole rows which *)
(* they read before a refresh (handler.go:300, opml_import.go:63,          *)
(* refresh.go:94): those put its old URL, time and interval back, too.     *)
(***************************************************************************)
EXTENDS Fetch, TTL

CONSTANTS
    FirstURL,   \* the URL the user subscribed to
    FeedAds,    \* what its documents advertise, at one time or another
    NoAd,
    Moments,    \* the ages of the last refresh that are looked at
    Delays,     \* how long a fetch may take
    MaxAge      \* bound: how long a feed may go unrefreshed

ASSUME PollingAssumption ==
    /\ FirstURL \in URLs
    /\ FeedAds \subseteq Ads /\ NoAd \notin Ads
    /\ Moments \subseteq Nat /\ Delays \subseteq Nat
    /\ MaxAge \in Nat

VARIABLES
    row,       \* feed_url, refresh_ttl_seconds, refresh_error
    age,       \* now - last_refresh_at
    elapsed,   \* how long the refresh under way has taken
    quiet,     \* history: time since the last refresh that was recorded began
    advert     \* history: what the last document stored advertises

vars == <<fetchVars, row, age, elapsed, quiet, advert>>

Rows == [url : URLs, ttl : Int, err : BOOLEAN]

TypeOK ==
    /\ FetchTypeOK
    /\ row \in Rows
    /\ age \in Nat \cup {Never} /\ quiet \in Nat \cup {Never}
    /\ elapsed \in Nat
    /\ advert \in FeedAds \cup {NoAd}

Init ==
    /\ FetchInit
    /\ row = [url |-> FirstURL, ttl |-> 0, err |-> FALSE]
    /\ age = Never /\ quiet = Never /\ elapsed = 0
    /\ advert = NoAd

--------------------------------------------------------------------------------
Later(t, d) == IF t = Never THEN Never ELSE t + d

Idles ==
    /\ at = "idle" /\ age # Never
    /\ \E t \in Moments :
          /\ t > age
          /\ age' = t /\ quiet' = Later(quiet, t - age)
    /\ UNCHANGED <<fetchVars, row, elapsed, advert>>

Waits ==
    /\ at # "idle"
    /\ \E d \in Delays :
          /\ d > elapsed
          /\ age # Never => age + (d - elapsed) <= MaxAge
          /\ age' = Later(age, d - elapsed) /\ quiet' = Later(quiet, d - elapsed)
          /\ elapsed' = d
    /\ UNCHANGED <<fetchVars, row, advert>>

Begin ==
    /\ StartFetch(row.url)
    /\ elapsed' = 0
    /\ UNCHANGED <<row, age, quiet, advert>>

BeginDue == Due(row.ttl, age) /\ Begin

\* TriggerRefresh, TriggerRefreshSync.
BeginManual == Begin

Fetching ==
    /\ FetchStep
    /\ UNCHANGED <<row, age, elapsed, quiet, advert>>

--------------------------------------------------------------------------------
(* What Refresh makes of the answer. *)

\* last_refresh_at is the time the refresh began.
Record(r) ==
    /\ at = "answered" /\ EndFetch
    /\ row' = r /\ age' = elapsed /\ quiet' = elapsed
    /\ elapsed' = 0

Moved == [row EXCEPT !.url = IF permanentTarget # NoURL THEN permanentTarget ELSE @]

\* Mutant: the URL is taken over before the error is looked at.
RecordFailureMoved ==
    /\ result \in {"failed", "unreachable"}
    /\ Record([Moved EXCEPT !.err = TRUE])
    /\ UNCHANGED advert

RecordFailure ==
    /\ result \in {"failed", "unreachable"}
    /\ Record([row EXCEPT !.err = TRUE])
    /\ UNCHANGED advert

RecordNotModified ==
    /\ result = "notModified"
    /\ Record([Moved EXCEPT !.err = FALSE])
    /\ UNCHANGED advert

\* The URL is taken over before the body is parsed.
RecordGarbled ==
    /\ result = "page"
    /\ Record([Moved EXCEPT !.err = TRUE])
    /\ UNCHANGED advert

RecordDocument ==
    /\ result = "page"
    /\ \E ad \in FeedAds :
          /\ Record([Moved EXCEPT !.ttl = Stored(Interval(ad)), !.err = FALSE])
          /\ advert' = ad

\* The row cannot be written, or the process ends before it is.
Abandon ==
    /\ at # "idle" /\ EndFetch
    /\ elapsed' = 0
    /\ UNCHANGED <<row, age, quiet, advert>>

RecordOutcome == RecordFailure \/ RecordNotModified \/ RecordGarbled \/ RecordDocument

Next ==
    \/ Idles \/ Waits \/ BeginDue \/ BeginManual
    \/ Fetching \/ RecordOutcome \/ Abandon

Spec == Init /\ [][Next]_vars

--------------------------------------------------------------------------------
(* Properties. *)

\* Whatever a document advertises, whether it is parsed or not and whether the
\* fetch succeeds or not, and unless others write the row, the scheduler leaves a feed alone for five minutes
\* after the beginning of its last refresh (MinTTL, ttl.go:15).
QuietForMinTTL == [][BeginDue => quiet = Never \/ quiet >= MinTTL]_vars

\* The interval a document asks for, as a fraction, by the rules of RSS and of
\* the syndication module, in unbounded arithmetic.
Asked(ad) ==
    IF Positive(ad.rss) THEN <<ad.rss[1] * Minute, 1>>
    ELSE IF HasSyndication(ad) THEN <<Base(ad), Times(ad)>>
    ELSE <<DefaultTTL, 1>>

Representable(ad) == Asked(ad)[1] < HalfWord

\* The scheduler does not come back before the interval that the last stored
\* document advertises, but for the fraction of a second that
\* refresh_ttl_seconds cuts off, and is ready to when that interval and five
\* minutes have passed; 304s and failures in between change nothing
\* (ttl.go:23, feed_repo.go:76, refresh.go:43).
IntervalKept ==
    (quiet # Never /\ advert # NoAd /\ Representable(advert)) =>
        LET interval == Asked(advert)[1]
            times == Asked(advert)[2]
        IN  /\ Due(row.ttl, age) => (quiet + Second) * times > interval
            /\ (quiet >= MinTTL /\ quiet * times >= interval) => Due(row.ttl, age)

\* As long as the redirects stay as they are, the stored URL moves once: no
\* permanent redirect lies ahead of the URL that is stored, also when its page
\* answers 304 or cannot be parsed (fetch.go:92, refresh.go:98).
MovesOnce == [][row'.url # row.url => row.url = FirstURL]_vars

================================================================================
