----------------------------- MODULE PollingProofs -----------------------------
(***************************************************************************)
(* Proofs about the polling of a feed, for any web, any number of          *)
(* redirects, any advertised intervals and any duration of a second.       *)
(***************************************************************************)
EXTENDS Polling, TLAPS, WellFoundedInduction

--------------------------------------------------------------------------------
(* Intervals. *)

LEMMA Units ==
  /\ Second \in Nat \ {0} /\ HalfWord \in Nat \ {0}
  /\ Minute = 60 * Second /\ MinTTL = 300 * Second /\ DefaultTTL = 3600 * Second
  /\ Hour = 3600 * Second /\ Day = 86400 * Second
  BY TTLAssumption DEF Minute, MinTTL, DefaultTTL, Hour, Day

LEMMA WrapInt ==
  ASSUME NEW x \in Int
  PROVE  Wrap(x) \in Int
  <1>1. 2 * HalfWord \in Nat \ {0} /\ x + HalfWord \in Int
    BY Units
  <1>2. (x + HalfWord) % (2 * HalfWord) \in Int
    BY <1>1
  <1> QED BY <1>2, Units DEF Wrap

\* The parts of an advertisement.
LEMMA AdParts ==
  ASSUME NEW ad \in Ads
  PROVE  /\ ad.rss # <<>> => ad.rss[1] \in Int
         /\ ad.freq # <<>> => ad.freq[1] \in Int
         /\ ad.period \in {"", "unknown", "hourly", "daily", "weekly", "monthly", "yearly"}
  <1>1. \A s \in Seq(Int) : s # <<>> => s[1] \in Int
    <2> SUFFICES ASSUME NEW s \in Seq(Int), s # <<>> PROVE s[1] \in Int
      OBVIOUS
    <2>1. Len(s) \in Nat /\ Len(s) # 0 /\ s \in [1 .. Len(s) -> Int]
      OBVIOUS
    <2> QED BY <2>1
  <1>2. ad.rss \in Seq(Int) /\ ad.freq \in Seq(Int)
    BY DEF Ads, Numbers
  <1>3. ad.period \in {"", "unknown"} \cup DOMAIN Periods
    BY DEF Ads
  <1> QED BY <1>1, <1>2, <1>3 DEF Periods

LEMMA SyndicationParts ==
  ASSUME NEW ad \in Ads, HasSyndication(ad)
  PROVE  /\ Times(ad) \in Nat \ {0} /\ Base(ad) \in Int
         /\ syndicationTTL(ad) \in Int
  <1>1. Times(ad) \in Nat \ {0}
    <2>1. CASE ad.freq = <<>>
      BY <2>1 DEF Times
    <2>2. CASE Positive(ad.freq)
      <3>1. ad.freq # <<>> /\ ad.freq[1] > 0 /\ ad.freq[1] \in Int
        BY <2>2, AdParts DEF Positive
      <3> QED BY <3>1 DEF Times
    <2> QED BY <2>1, <2>2 DEF HasSyndication
  <1>2. Base(ad) \in Int
    <2>1. Hour \in Int /\ Day \in Int
      BY Units
    <2>2. ad.period \in {"", "hourly", "daily", "weekly", "monthly", "yearly"}
      BY AdParts DEF HasSyndication
    <2>3. \A period \in DOMAIN Periods : Periods[period] \in Int
      BY <2>1, Units DEF Periods
    <2>4. ad.period # "" => ad.period \in DOMAIN Periods
      BY <2>2 DEF Periods
    <2> QED BY <2>1, <2>3, <2>4 DEF Base
  <1> QED BY <1>1, <1>2 DEF syndicationTTL

LEMMA IntervalAtLeastMin ==
  ASSUME NEW ad \in Ads
  PROVE  Interval(ad) \in Int /\ Interval(ad) >= MinTTL
  <1>1. \A d \in Int : clampTTL(d) \in Int /\ clampTTL(d) >= MinTTL
    BY Units DEF clampTTL
  <1>2. CASE Positive(ad.rss)
    <2>1. ad.rss[1] \in Int
      BY <1>2, AdParts DEF Positive
    <2>2. rssTTL(ad) \in Int
      BY <2>1, Units, WrapInt DEF rssTTL
    <2> QED BY <1>1, <1>2, <2>2 DEF Interval
  <1>3. CASE ~Positive(ad.rss) /\ HasSyndication(ad)
    BY <1>1, <1>3, SyndicationParts DEF Interval
  <1>4. CASE ~Positive(ad.rss) /\ ~HasSyndication(ad)
    BY <1>4, Units DEF Interval
  <1> QED BY <1>2, <1>3, <1>4

\* Cutting off the fraction of a second does not go below five minutes.
LEMMA StoredAtLeastMin ==
  ASSUME NEW d \in Int, d >= MinTTL
  PROVE  Stored(d) \in Int /\ Stored(d) >= MinTTL
  <1> DEFINE q == d \div Second
  <1>1. q \in Int /\ d < (q + 1) * Second
    BY Units
  <1>2. q >= 300
    <2> SUFFICES ASSUME q + 1 <= 300 PROVE FALSE
      BY <1>1
    <2>1. (q + 1) * Second <= 300 * Second
      BY <1>1, Units
    <2> QED BY <1>1, <2>1, Units
  <1>3. q * Second >= 300 * Second
    BY <1>1, <1>2, Units
  <1> QED BY <1>1, <1>3, Units DEF Stored

LEMMA StoredIntervals ==
  ASSUME NEW ad \in FeedAds
  PROVE  Stored(Interval(ad)) \in Int /\ Stored(Interval(ad)) >= MinTTL
  BY IntervalAtLeastMin, StoredAtLeastMin, PollingAssumption

--------------------------------------------------------------------------------
(* Types. *)

LEMMA AnyIsURL == AnyURL \in URLs
  BY FetchAssumption DEF AnyURL

LEMMA TypeInit == Init => TypeOK
  BY AnyIsURL, FetchAssumption, PollingAssumption
     DEF Init, FetchInit, TypeOK, FetchTypeOK, Rows, Results

LEMMA FetchStepTyped ==
  ASSUME FetchTypeOK, FetchStep
  PROVE  FetchTypeOK'
  <1>1. web[currentURL] \in Answers
    BY FetchAssumption DEF FetchTypeOK
  <1>2. CASE Follow
    <2>1. web[currentURL].to \in URLs
      BY <1>1, <1>2 DEF Follow, Answers
    <2>2. redirects' \in 0 .. MaxRedirects
      BY <1>2, FetchAssumption DEF Follow, Asking, FetchTypeOK
    <2> QED BY <1>2, <2>1, <2>2 DEF Follow, FetchTypeOK
  <1>3. CASE \E r \in Results : Return(r)
    BY <1>3 DEF Return, FetchTypeOK
  <1>4. TooManyRedirects \/ RequestFails \/ Refuse \/ Serve
          => \E r \in Results : Return(r)
    BY DEF TooManyRedirects, RequestFails, Refuse, Serve, Results
  <1> QED BY <1>2, <1>3, <1>4 DEF FetchStep

LEMMA StartFetchTyped ==
  ASSUME FetchTypeOK, NEW u \in URLs, StartFetch(u)
  PROVE  FetchTypeOK'
  BY FetchAssumption DEF FetchTypeOK, StartFetch, Results

LEMMA EndFetchTyped ==
  ASSUME FetchTypeOK, EndFetch
  PROVE  FetchTypeOK'
  BY AnyIsURL, FetchAssumption DEF FetchTypeOK, EndFetch, Results

LEMMA MovedTyped ==
  ASSUME TypeOK
  PROVE  Moved \in Rows /\ Moved.ttl = row.ttl
  BY DEF TypeOK, FetchTypeOK, Moved, Rows

\* What the four outcomes have in common.
LEMMA Outcomes ==
  ASSUME TypeOK, RecordOutcome
  PROVE  /\ row' \in Rows /\ advert' \in FeedAds \cup {NoAd}
         /\ Record(row')
         /\ \/ row'.ttl = row.ttl /\ advert' = advert
            \/ advert' \in FeedAds /\ row'.ttl = Stored(Interval(advert'))
         /\ \/ row'.url = row.url
            \/ row'.url = Moved.url /\ result \in {"page", "notModified"}
  <1>0. row \in Rows /\ Moved \in Rows /\ Moved.ttl = row.ttl /\ advert \in FeedAds \cup {NoAd}
    BY MovedTyped DEF TypeOK
  <1>1. CASE RecordFailure
    <2>1. row' = [row EXCEPT !.err = TRUE] /\ advert' = advert /\ Record(row')
      BY <1>1 DEF RecordFailure, Record
    <2> QED BY <1>0, <2>1 DEF Rows
  <1>2. CASE RecordNotModified
    <2>1. /\ row' = [Moved EXCEPT !.err = FALSE] /\ advert' = advert /\ Record(row')
          /\ result = "notModified"
      BY <1>2 DEF RecordNotModified, Record
    <2> QED BY <1>0, <2>1 DEF Rows
  <1>3. CASE RecordGarbled
    <2>1. /\ row' = [Moved EXCEPT !.err = TRUE] /\ advert' = advert /\ Record(row')
          /\ result = "page"
      BY <1>3 DEF RecordGarbled, Record
    <2> QED BY <1>0, <2>1 DEF Rows
  <1>4. CASE RecordDocument
    <2>1. PICK ad \in FeedAds :
             /\ Record([Moved EXCEPT !.ttl = Stored(Interval(ad)), !.err = FALSE])
             /\ advert' = ad
      BY <1>4 DEF RecordDocument
    <2>2. /\ row' = [Moved EXCEPT !.ttl = Stored(Interval(ad)), !.err = FALSE]
          /\ Record(row') /\ result = "page"
      BY <1>4, <2>1 DEF Record, RecordDocument
    <2>3. Stored(Interval(ad)) \in Int
      BY StoredIntervals
    <2> QED BY <1>0, <2>1, <2>2, <2>3 DEF Rows
  <1> QED BY <1>1, <1>2, <1>3, <1>4 DEF RecordOutcome

LEMMA TypeStep == TypeOK /\ [Next]_vars => TypeOK'
  <1> SUFFICES ASSUME TypeOK, [Next]_vars PROVE TypeOK'
    OBVIOUS
  <1>0. FetchTypeOK /\ row \in Rows /\ elapsed \in Nat
    BY DEF TypeOK
  <1>1. CASE Idles
    BY <1>1, PollingAssumption DEF Idles, TypeOK, FetchTypeOK, fetchVars, Later
  <1>2. CASE Waits
    BY <1>2, PollingAssumption DEF Waits, TypeOK, FetchTypeOK, fetchVars, Later
  <1>3. CASE Begin
    <2>1. FetchTypeOK'
      BY <1>0, <1>3, StartFetchTyped DEF Begin, Rows
    <2> QED BY <1>3, <2>1 DEF Begin, TypeOK
  <1>4. CASE Fetching
    <2>1. FetchTypeOK'
      BY <1>0, <1>4, FetchStepTyped DEF Fetching, Rows
    <2> QED BY <1>4, <2>1 DEF Fetching, TypeOK
  <1>5. CASE RecordOutcome
    <2>1. row' \in Rows /\ advert' \in FeedAds \cup {NoAd} /\ Record(row')
      BY <1>5, Outcomes
    <2>2. FetchTypeOK'
      BY <1>0, <2>1, EndFetchTyped DEF Record
    <2> QED BY <1>0, <2>1, <2>2 DEF Record, TypeOK
  <1>6. CASE Abandon
    <2>1. FetchTypeOK'
      BY <1>0, <1>6, EndFetchTyped DEF Abandon
    <2> QED BY <1>6, <2>1 DEF Abandon, TypeOK
  <1>7. CASE UNCHANGED vars
    BY <1>7 DEF vars, fetchVars, TypeOK, FetchTypeOK
  <1> QED BY <1>1, <1>2, <1>3, <1>4, <1>5, <1>6, <1>7 DEF Next, BeginDue, BeginManual

\* The feed's row, the clock and the fetch stay well formed.
THEOREM TypeCorrect == Spec => []TypeOK
  BY TypeInit, TypeStep, PTL DEF Spec

--------------------------------------------------------------------------------
(* Five minutes of rest. *)

\* The interval that is stored is none or at least five minutes.
RestInv == row.ttl = 0 \/ row.ttl >= MinTTL
AgeInv == quiet = age

LEMMA RestStep == TypeOK /\ RestInv /\ AgeInv /\ [Next]_vars => RestInv' /\ AgeInv'
  <1> SUFFICES ASSUME TypeOK, RestInv, AgeInv, [Next]_vars PROVE RestInv' /\ AgeInv'
    OBVIOUS
  <1>1. CASE RecordOutcome
    <2>1. Record(row')
      BY <1>1, Outcomes
    <2>2. AgeInv'
      BY <2>1 DEF Record, AgeInv
    <2>3. row'.ttl = row.ttl \/ \E ad \in FeedAds : row'.ttl = Stored(Interval(ad))
      BY <1>1, Outcomes
    <2>4. RestInv'
      BY <2>3, StoredIntervals DEF RestInv
    <2> QED BY <2>2, <2>4
  <1>2. CASE ~RecordOutcome
    <2>1. row' = row
      BY <1>2 DEF Next, Idles, Waits, BeginDue, BeginManual, Begin, Fetching, Abandon, vars
    <2>2. ASSUME Idles PROVE AgeInv'
      <3>1. PICK t \in Moments : age' = t /\ quiet' = Later(quiet, t - age)
        BY <2>2 DEF Idles
      <3>2. age \in Nat /\ t \in Nat /\ quiet = age /\ age # Never
        BY <2>2, PollingAssumption DEF Idles, TypeOK, AgeInv
      <3>3. quiet' = t
        BY <3>1, <3>2 DEF Later
      <3> QED BY <3>1, <3>3 DEF AgeInv
    <2>3. ASSUME Waits PROVE AgeInv'
      BY <2>3 DEF Waits, AgeInv
    <2>4. ASSUME UNCHANGED <<age, quiet>> PROVE AgeInv'
      BY <2>4 DEF AgeInv
    <2>5. AgeInv'
      BY <1>2, <2>2, <2>3, <2>4
         DEF Next, BeginDue, BeginManual, Begin, Fetching, Abandon, vars
    <2> QED BY <2>1, <2>5 DEF RestInv
  <1> QED BY <1>1, <1>2

\* Whatever a feed advertises, the scheduler leaves it alone for five minutes.
THEOREM RestsFiveMinutes == Spec => QuietForMinTTL
  <1> DEFINE All == TypeOK /\ RestInv /\ AgeInv
  <1>1. Init => All
    BY TypeInit DEF Init, RestInv, AgeInv
  <1>2. All /\ [Next]_vars => All'
    BY TypeStep, RestStep
  <1>3. All => (BeginDue => quiet = Never \/ quiet >= MinTTL)
    <2> SUFFICES ASSUME All, Due(row.ttl, age), age # Never PROVE age >= MinTTL
      BY DEF BeginDue, AgeInv
    <2>1. age \in Nat /\ row.ttl \in Int
      BY DEF TypeOK, Rows
    <2> QED BY <2>1, Units DEF Due, RestInv
  <1>4. All /\ [Next]_vars => [BeginDue => quiet = Never \/ quiet >= MinTTL]_vars
    BY <1>3
  <1> QED BY <1>1, <1>2, <1>4, PTL DEF Spec, QuietForMinTTL

--------------------------------------------------------------------------------
(* One move. *)

PermanentAt(v) == web[v].kind = "permanent" /\ web[v].to # NoURL
RedirectsAt(v) == IsRedirect(web[v]) /\ web[v].to # NoURL

\* No permanent redirect lies ahead of u: a set of URLs holds u and, with each
\* URL, where it redirects to, and none of them redirects for good.
Settled(u) ==
    \E T \in SUBSET URLs :
        /\ u \in T
        /\ \A v \in T : ~PermanentAt(v) /\ (RedirectsAt(v) => web[v].to \in T)

\* Only temporary redirects lead from u to w.
LeadsTo(u, w) ==
    \E T \in SUBSET URLs :
        /\ u \in T
        /\ \A v \in T \ {w} : ~PermanentAt(v) /\ (RedirectsAt(v) => web[v].to \in T)

\* Once the stored URL has moved it is settled; a fetch that starts from a
\* settled URL reports no move, and one that reports a move has met only
\* temporary redirects since.
MoveInv ==
    /\ row.url # FirstURL => Settled(row.url)
    /\ at # "idle" => (Settled(row.url) => Settled(currentURL) /\ permanentTarget = NoURL)
    /\ permanentTarget # NoURL => LeadsTo(permanentTarget, currentURL)
    /\ at = "answered" /\ result \in {"page", "notModified"} => web[currentURL].kind = "page"

\* Where the redirects have an end, what leads there is settled.
LEMMA EndSettles ==
  ASSUME NEW u \in URLs, LeadsTo(u, currentURL), web[currentURL].kind = "page"
  PROVE  Settled(u)
  <1>1. PICK T \in SUBSET URLs :
           /\ u \in T
           /\ \A v \in T \ {currentURL} : ~PermanentAt(v) /\ (RedirectsAt(v) => web[v].to \in T)
    BY DEF LeadsTo
  <1>2. ~PermanentAt(currentURL) /\ ~RedirectsAt(currentURL)
    BY DEF PermanentAt, RedirectsAt, IsRedirect
  <1> QED BY <1>1, <1>2 DEF Settled

LEMMA FollowKeepsMoveInv ==
  ASSUME TypeOK, MoveInv, Follow, UNCHANGED row
  PROVE  MoveInv'
  <1>0. /\ web' = web /\ at = "request" /\ at' = "request"
        /\ RedirectsAt(currentURL) /\ currentURL' = web[currentURL].to
        /\ currentURL \in URLs /\ currentURL' \in URLs
        /\ permanentTarget \in URLs \cup {NoURL}
        /\ permanentTarget' = IF PermanentAt(currentURL) THEN currentURL' ELSE permanentTarget
    BY FetchAssumption
       DEF Follow, Asking, RedirectsAt, PermanentAt, TypeOK, FetchTypeOK, Answers
  <1>1. \A u : Settled(u)' <=> Settled(u)
    BY <1>0 DEF Settled, PermanentAt, RedirectsAt
  <1>2. Settled(currentURL) => Settled(currentURL') /\ ~PermanentAt(currentURL)
    BY <1>0 DEF Settled
  <1>3. Settled(row.url) => Settled(currentURL') /\ permanentTarget' = NoURL
    BY <1>0, <1>2 DEF MoveInv
  <1>4. CASE PermanentAt(currentURL)
    <2>1. \E T \in SUBSET URLs : T = {currentURL'}
      BY <1>0
    <2>2. LeadsTo(permanentTarget, currentURL)'
      BY <1>0, <1>4, <2>1 DEF LeadsTo
    <2> QED BY <1>0, <1>1, <1>3, <2>2 DEF MoveInv
  <1>5. CASE ~PermanentAt(currentURL)
    <2> SUFFICES ASSUME permanentTarget # NoURL
                 PROVE  LeadsTo(permanentTarget, currentURL)'
      BY <1>0, <1>1, <1>3, <1>5 DEF MoveInv
    <2>1. PICK T \in SUBSET URLs :
             /\ permanentTarget \in T
             /\ \A v \in T \ {currentURL} :
                   ~PermanentAt(v) /\ (RedirectsAt(v) => web[v].to \in T)
      BY DEF MoveInv, LeadsTo
    <2> DEFINE U == T \cup {currentURL'}
    <2>2. U \in SUBSET URLs /\ permanentTarget' \in U
      BY <1>0, <1>5, <2>1
    <2>3. \A v \in U \ {currentURL'} : ~PermanentAt(v) /\ (RedirectsAt(v) => web[v].to \in U)
      BY <1>0, <1>5, <2>1
    <2>4. \A v \in U \ {currentURL'} : ~PermanentAt(v)' /\ (RedirectsAt(v)' => web'[v].to \in U)
      BY <1>0, <2>3 DEF PermanentAt, RedirectsAt
    <2> QED BY <2>2, <2>4 DEF LeadsTo
  <1> QED BY <1>4, <1>5

LEMMA MoveStep == TypeOK /\ MoveInv /\ [Next]_vars => MoveInv' /\ (row'.url # row.url => row.url = FirstURL)
  <1> SUFFICES ASSUME TypeOK, MoveInv, [Next]_vars
               PROVE  MoveInv' /\ (row'.url # row.url => row.url = FirstURL)
    OBVIOUS
  <1>0. web' = web
    <2>1. RecordOutcome => web' = web
      BY Outcomes DEF Record, EndFetch
    <2> QED
      BY <2>1
         DEF Next, Idles, Waits, BeginDue, BeginManual, Begin, StartFetch, Fetching, FetchStep,
             TooManyRedirects, RequestFails, Follow, Refuse, Serve, Return, Abandon, EndFetch,
             vars, fetchVars
  <1>1. \A u, w : (Settled(u)' <=> Settled(u)) /\ (LeadsTo(u, w)' <=> LeadsTo(u, w))
    BY <1>0 DEF Settled, LeadsTo, PermanentAt, RedirectsAt
  <1>2. CASE Begin
    <2>1. row' = row /\ currentURL' = row.url /\ permanentTarget' = NoURL /\ at' = "request"
      BY <1>2 DEF Begin, StartFetch
    <2> QED BY <1>1, <2>1 DEF MoveInv
  <1>3. CASE Fetching
    <2>1. CASE Follow
      BY <1>3, <2>1, FollowKeepsMoveInv DEF Fetching
    <2>2. CASE TooManyRedirects \/ RequestFails \/ Refuse
      <3>1. /\ UNCHANGED <<row, currentURL, permanentTarget>>
            /\ at = "request" /\ result' \notin {"page", "notModified"}
        BY <1>3, <2>2 DEF Fetching, TooManyRedirects, RequestFails, Refuse, Return
      <3> QED BY <1>1, <3>1 DEF MoveInv
    <2>3. CASE Serve
      <3>1. /\ UNCHANGED <<row, currentURL, permanentTarget>>
            /\ at = "request" /\ web[currentURL].kind = "page"
        BY <1>3, <2>3 DEF Fetching, Serve, Return
      <3> QED BY <1>0, <1>1, <3>1 DEF MoveInv
    <2> QED BY <1>3, <2>1, <2>2, <2>3 DEF Fetching, FetchStep
  <1>4. CASE RecordOutcome
    <2>1. /\ at = "answered" /\ at' = "idle" /\ permanentTarget' = NoURL
          /\ \/ row'.url = row.url
             \/ row'.url = Moved.url /\ result \in {"page", "notModified"}
      BY <1>4, Outcomes DEF Record, EndFetch
    <2>2. CASE row'.url = row.url
      BY <1>1, <2>1, <2>2 DEF MoveInv
    <2>3. CASE row'.url # row.url
      <3>1. /\ row'.url = permanentTarget /\ permanentTarget # NoURL
            /\ web[currentURL].kind = "page"
        BY <2>1, <2>3 DEF Moved, MoveInv, TypeOK, Rows
      <3>2. Settled(permanentTarget)
        BY <3>1, EndSettles DEF MoveInv, TypeOK, FetchTypeOK
      <3>3. row.url = FirstURL
        BY <2>1, <3>1 DEF MoveInv
      <3> QED BY <1>1, <2>1, <3>1, <3>2, <3>3 DEF MoveInv
    <2> QED BY <2>2, <2>3
  <1>5. CASE Abandon
    <2>1. row' = row /\ at' = "idle" /\ permanentTarget' = NoURL
      BY <1>5 DEF Abandon, EndFetch
    <2> QED BY <1>1, <2>1 DEF MoveInv
  <1>6. CASE Idles \/ Waits \/ UNCHANGED vars
    <2>1. UNCHANGED <<row, at, currentURL, permanentTarget, result>>
      BY <1>6 DEF Idles, Waits, vars, fetchVars
    <2> QED BY <1>0, <1>1, <2>1 DEF MoveInv
  <1> QED BY <1>2, <1>3, <1>4, <1>5, <1>6 DEF Next, BeginDue, BeginManual

\* As long as the redirects stay as they are, the stored URL moves once: what
\* is stored has no permanent redirect ahead.
THEOREM MovesOnlyOnce == Spec => MovesOnce
  <1>1. Init => TypeOK /\ MoveInv
    BY TypeInit DEF Init, FetchInit, MoveInv
  <1>2. TypeOK /\ MoveInv /\ [Next]_vars => (TypeOK /\ MoveInv)'
    BY TypeStep, MoveStep
  <1>3. TypeOK /\ MoveInv /\ [Next]_vars => [row'.url # row.url => row.url = FirstURL]_vars
    BY MoveStep
  <1> QED BY <1>1, <1>2, <1>3, PTL DEF Spec, MovesOnce
--------------------------------------------------------------------------------
(* Where a chain ends. *)

\* Induction over a set of numbers.
LEMMA UpToBound ==
  ASSUME NEW N \in Nat, NEW S \in SUBSET Nat, 0 \in S, \A n \in S : n < N => n + 1 \in S
  PROVE  0 .. N \subseteq S
  <1> DEFINE less == OpToRel(<, Nat)
             bad == {n \in 0 .. N : n \notin S}
  <1>1. IsWellFoundedOn(less, Nat)
    BY NatLessThanWellFounded
  <1>2. \A x, y \in Nat : y < x => <<y, x>> \in less
    BY DEF OpToRel
  <1> HIDE DEF less
  <1>3. SUFFICES ASSUME bad # {} PROVE FALSE
    OBVIOUS
  <1>4. PICK x \in bad : \A y \in bad : ~ (<<y, x>> \in less)
    <2>1. bad \in SUBSET Nat
      OBVIOUS
    <2> HIDE DEF bad
    <2> QED BY <1>1, <1>3, <2>1, WFMin
  <1>5. x # 0 /\ x - 1 \in Nat /\ x - 1 < x /\ x \in Nat /\ x - 1 < N
    BY <1>4
  <1>6. x - 1 \notin bad
    <2>1. <<x - 1, x>> \in less
      BY <1>2, <1>5
    <2> HIDE DEF bad
    <2> QED BY <1>4, <2>1
  <1>7. x - 1 \in S /\ x - 1 + 1 \in S
    BY <1>5, <1>6
  <1> QED BY <1>4, <1>5, <1>7

\* The definition of Reached, unrolled.
LEMMA ReachedSteps ==
  ASSUME NEW u
  PROVE  /\ Reached(u)[0] = u
         /\ \A n \in 1 .. MaxRedirects :
               Reached(u)[n] = IF Reached(u)[n-1] # NoURL /\ IsRedirect(web[Reached(u)[n-1]])
                               THEN web[Reached(u)[n-1]].to ELSE NoURL
  <1> DEFINE Step(r, n) == IF n = 0 THEN u
                           ELSE IF r[n-1] # NoURL /\ IsRedirect(web[r[n-1]]) THEN web[r[n-1]].to
                           ELSE NoURL
             Upto(n) == \E r : r = [i \in 0 .. n |-> Step(r, i)]
             S == {n \in Nat : Upto(n)}
  <1>1. MaxRedirects \in Nat
    BY FetchAssumption
  <1>2. Upto(0)
    <2> DEFINE r == [i \in 0 .. 0 |-> u]
    <2>1. r = [i \in 0 .. 0 |-> Step(r, i)]
      OBVIOUS
    <2> QED BY <2>1
  <1>3. ASSUME NEW n \in Nat, Upto(n) PROVE Upto(n + 1)
    <2>1. PICK r : r = [i \in 0 .. n |-> Step(r, i)]
      BY <1>3
    <2> DEFINE h == [i \in 0 .. (n + 1) |-> IF i <= n THEN r[i] ELSE Step(r, i)]
    <2>2. ASSUME NEW i \in 0 .. (n + 1) PROVE h[i] = Step(h, i)
      <3>1. i # 0 => h[i - 1] = r[i - 1]
        OBVIOUS
      <3>2. Step(h, i) = Step(r, i)
        BY <3>1
      <3>3. i <= n => r[i] = Step(r, i)
        <4>1. ASSUME NEW j \in 0 .. n PROVE r[j] = Step(r, j)
          <5> HIDE DEF Step
          <5> QED BY <2>1
        <4> QED BY <4>1
      <3> QED BY <3>2, <3>3
    <2>3. h = [i \in 0 .. (n + 1) |-> Step(h, i)]
      <3>1. h = [i \in 0 .. (n + 1) |-> h[i]]
        OBVIOUS
      <3> HIDE DEF h, Step
      <3> QED BY <2>2, <3>1
    <2> HIDE DEF h, Step
    <2> QED BY <2>3
  <1>4. Upto(MaxRedirects)
    <2> HIDE DEF Upto
    <2>1. S \in SUBSET Nat /\ 0 \in S /\ \A n \in S : n < MaxRedirects => n + 1 \in S
      BY <1>2, <1>3
    <2>2. 0 .. MaxRedirects \subseteq S
      <3> HIDE DEF S
      <3> QED BY <1>1, <2>1, UpToBound
    <2> QED BY <1>1, <2>2
  <1>5. Reached(u) = CHOOSE r : r = [i \in 0 .. MaxRedirects |-> Step(r, i)]
    BY DEF Reached
  <1>6. Reached(u) = [i \in 0 .. MaxRedirects |-> Step(Reached(u), i)]
    <2> HIDE DEF Step
    <2> QED BY <1>4, <1>5
  <1>7. \A i \in 0 .. MaxRedirects : Reached(u)[i] = Step(Reached(u), i)
    <2> HIDE DEF Step
    <2> QED BY <1>6
  <1> QED BY <1>1, <1>7

\* On the way to a URL that is reached there are redirects only.
LEMMA RedirectsOnly ==
  ASSUME NEW u, NEW n \in 0 .. MaxRedirects, Reached(u)[n] # NoURL, NEW m \in 0 .. n, m # n
  PROVE  Reached(u)[m] # NoURL /\ IsRedirect(web[Reached(u)[m]])
  <1> DEFINE S == {k \in Nat : k <= n => Reached(u)[n - k] # NoURL}
  <1>1. n \in Nat /\ MaxRedirects \in Nat /\ n <= MaxRedirects
    BY FetchAssumption
  <1>2. \A k \in 1 .. n : Reached(u)[k] # NoURL =>
            Reached(u)[k - 1] # NoURL /\ IsRedirect(web[Reached(u)[k - 1]])
    BY <1>1, ReachedSteps
  <1>3. 0 .. n \subseteq S
    <2>1. 0 \in S
      BY <1>1
    <2>2. ASSUME NEW k \in S, k < n PROVE k + 1 \in S
      <3>1. n - k \in 1 .. n /\ n - k - 1 = n - (k + 1)
        BY <1>1, <2>2
      <3>2. Reached(u)[n - k - 1] # NoURL
        BY <1>2, <2>2, <3>1
      <3> QED BY <3>1, <3>2
    <2> HIDE DEF S
    <2>3. S \in SUBSET Nat
      BY DEF S
    <2> QED BY <1>1, <2>1, <2>2, <2>3, UpToBound
  <1>4. n - (m + 1) \in 0 .. n /\ n - (n - (m + 1)) = m + 1 /\ m + 1 \in 1 .. n /\ m + 1 - 1 = m
    BY <1>1
  <1>5. Reached(u)[m + 1] # NoURL
    BY <1>3, <1>4
  <1> QED BY <1>2, <1>4, <1>5

\* A page within the bound is where the chain ends.
LEMMA PageIsEnd ==
  ASSUME NEW u, NEW n \in 0 .. (MaxRedirects - 1), Reached(u)[n] # NoURL,
         web[Reached(u)[n]].kind = "page"
  PROVE  PageOf(u) = {Reached(u)[n]} /\ Hops(u) = 0 .. n
  <1>1. MaxRedirects \in Nat \ {0} /\ n \in 0 .. MaxRedirects
    BY FetchAssumption
  <1>2. \A m \in 0 .. (n - 1) : Reached(u)[m] # NoURL /\ IsRedirect(web[Reached(u)[m]])
    BY <1>1, RedirectsOnly
  <1>3. \A m \in 0 .. MaxRedirects : m > n => Reached(u)[m] = NoURL
    BY <1>1, RedirectsOnly DEF IsRedirect
  <1>4. Hops(u) = 0 .. n
    BY <1>1, <1>2, <1>3 DEF Hops
  <1>5. \A m \in Hops(u) : web[Reached(u)[m]].kind = "page" <=> m = n
    BY <1>2, <1>4 DEF IsRedirect
  <1> QED BY <1>4, <1>5 DEF PageOf

\* What is reached from a URL on the way is reached by the whole way.
LEMMA RestOfWay ==
  ASSUME NEW u, NEW p \in 0 .. MaxRedirects, NEW k \in 0 .. (MaxRedirects - p)
  PROVE  Reached(Reached(u)[p])[k] = Reached(u)[p + k]
  <1> DEFINE v == Reached(u)[p]
             N == MaxRedirects - p
             S == {j \in Nat : j <= N => Reached(v)[j] = Reached(u)[p + j]}
  <1>1. N \in Nat /\ p \in Nat /\ MaxRedirects \in Nat
    BY FetchAssumption
  <1>2. 0 \in S
    BY <1>1, ReachedSteps
  <1>3. ASSUME NEW j \in S, j < N PROVE j + 1 \in S
    <2>1. /\ j + 1 \in 1 .. MaxRedirects /\ j + 1 - 1 = j
          /\ p + (j + 1) \in 1 .. MaxRedirects /\ p + (j + 1) - 1 = p + j
      BY <1>1, <1>3
    <2>2. Reached(v)[j] = Reached(u)[p + j]
      BY <1>1, <1>3
    <2> HIDE DEF v
    <2>3. Reached(v)[j + 1] = Reached(u)[p + (j + 1)]
      BY <2>1, <2>2, ReachedSteps
    <2> QED BY <2>3
  <1>4. 0 .. N \subseteq S
    <2> HIDE DEF S, N
    <2>1. S \in SUBSET Nat
      BY DEF S
    <2> QED BY <1>1, <1>2, <1>3, <2>1, UpToBound
  <1> QED BY <1>1, <1>4
PermanentHop(n) == web[Reached(feedURL)[n]].kind = "permanent"

\* The fetch under way is at the URL that its number of redirects leads to, and
\* has noted where the last permanent one of them led; how it was answered says
\* what the web has there.
ChainInv ==
    /\ at # "idle" =>
          /\ Reached(feedURL)[redirects] = currentURL
          /\ \/ /\ permanentTarget = NoURL
                /\ \A n \in 0 .. (redirects - 1) : ~PermanentHop(n)
             \/ \E p \in 0 .. (redirects - 1) :
                   /\ PermanentHop(p) /\ permanentTarget = web[Reached(feedURL)[p]].to
                   /\ \A n \in (p + 1) .. (redirects - 1) : ~PermanentHop(n)
    /\ at = "answered" =>
          /\ result \in {"page", "notModified", "failed", "unreachable"}
          /\ result \in {"page", "notModified"} =>
                redirects < MaxRedirects /\ web[currentURL].kind = "page"
          /\ result = "failed" =>
                \/ redirects = MaxRedirects
                \/ web[currentURL].kind = "refused"
                \/ IsRedirect(web[currentURL]) /\ web[currentURL].to = NoURL

LEMMA FollowKeepsChain ==
  ASSUME TypeOK, ChainInv, Follow
  PROVE  ChainInv'
  <1> DEFINE n0 == redirects
  <1>0. /\ web' = web /\ feedURL' = feedURL /\ at = "request" /\ at' = "request"
        /\ redirects' = n0 + 1 /\ n0 \in Nat /\ n0 < MaxRedirects /\ MaxRedirects \in Nat
        /\ IsRedirect(web[currentURL]) /\ currentURL' = web[currentURL].to
        /\ currentURL # NoURL
        /\ permanentTarget' = IF web[currentURL].kind = "permanent" THEN currentURL'
                                                                    ELSE permanentTarget
    BY FetchAssumption DEF Follow, Asking, TypeOK, FetchTypeOK
  <1>1. \A u : Reached(u)' = Reached(u)
    BY <1>0 DEF Reached
  <1> DEFINE r == Reached(feedURL)
  <1>2. r[n0] = currentURL
    BY <1>0 DEF ChainInv
  <1>3. r[n0 + 1] = currentURL'
    <2>1. PICK n : n = n0 + 1
      OBVIOUS
    <2>2. n \in 1 .. MaxRedirects /\ n - 1 = n0
      BY <1>0, <2>1
    <2>3. r[n - 1] # NoURL /\ IsRedirect(web[r[n - 1]])
      BY <1>0, <1>2, <2>2
    <2>4. r[n] = web[r[n - 1]].to
      BY <2>2, <2>3, ReachedSteps
    <2> QED BY <1>0, <1>2, <2>1, <2>2, <2>4
  <1>4. \A n : PermanentHop(n)' <=> PermanentHop(n)
    BY <1>0, <1>1 DEF PermanentHop
  <1>5. PermanentHop(n0) <=> web[currentURL].kind = "permanent"
    BY <1>2 DEF PermanentHop
  <1>6. \/ /\ permanentTarget' = NoURL
           /\ \A n \in 0 .. (n0 + 1 - 1) : ~PermanentHop(n)
        \/ \E p \in 0 .. (n0 + 1 - 1) :
              /\ PermanentHop(p) /\ permanentTarget' = web[r[p]].to
              /\ \A n \in (p + 1) .. (n0 + 1 - 1) : ~PermanentHop(n)
    <2>1. CASE PermanentHop(n0)
      <3>1. n0 \in 0 .. (n0 + 1 - 1) /\ permanentTarget' = web[r[n0]].to
        BY <1>0, <1>2, <1>5, <2>1
      <3>2. \A n \in (n0 + 1) .. (n0 + 1 - 1) : FALSE
        BY <1>0
      <3> QED BY <2>1, <3>1, <3>2
    <2>2. CASE ~PermanentHop(n0)
      <3>1. permanentTarget' = permanentTarget
        BY <1>0, <1>5, <2>2
      <3>2. \/ /\ permanentTarget = NoURL
               /\ \A n \in 0 .. (n0 - 1) : ~PermanentHop(n)
            \/ \E p \in 0 .. (n0 - 1) :
                  /\ PermanentHop(p) /\ permanentTarget = web[r[p]].to
                  /\ \A n \in (p + 1) .. (n0 - 1) : ~PermanentHop(n)
        BY <1>0 DEF ChainInv
      <3>3. CASE permanentTarget = NoURL /\ \A n \in 0 .. (n0 - 1) : ~PermanentHop(n)
        <4>1. \A n \in 0 .. (n0 + 1 - 1) : n \in 0 .. (n0 - 1) \/ n = n0
          BY <1>0
        <4> QED BY <2>2, <3>1, <3>3, <4>1
      <3>4. ASSUME NEW p \in 0 .. (n0 - 1), PermanentHop(p), permanentTarget = web[r[p]].to,
                   \A n \in (p + 1) .. (n0 - 1) : ~PermanentHop(n)
            PROVE  \E q \in 0 .. (n0 + 1 - 1) :
                      /\ PermanentHop(q) /\ permanentTarget' = web[r[q]].to
                      /\ \A n \in (q + 1) .. (n0 + 1 - 1) : ~PermanentHop(n)
        <4>1. \A n \in (p + 1) .. (n0 + 1 - 1) : n \in (p + 1) .. (n0 - 1) \/ n = n0
          BY <1>0
        <4>2. p \in 0 .. (n0 + 1 - 1)
          BY <1>0
        <4> QED BY <2>2, <3>1, <3>4, <4>1, <4>2
      <3> QED BY <3>2, <3>3, <3>4
    <2> QED BY <2>1, <2>2
  <1>7. \/ /\ permanentTarget' = NoURL
           /\ \A n \in 0 .. (redirects' - 1) : ~PermanentHop(n)'
        \/ \E p \in 0 .. (redirects' - 1) :
              /\ PermanentHop(p)' /\ permanentTarget' = web'[Reached(feedURL)'[p]].to
              /\ \A n \in (p + 1) .. (redirects' - 1) : ~PermanentHop(n)'
    BY <1>0, <1>1, <1>4, <1>6
  <1> QED BY <1>0, <1>1, <1>3, <1>7 DEF ChainInv

LEMMA ChainStep == TypeOK /\ ChainInv /\ [Next]_vars => ChainInv'
  <1> SUFFICES ASSUME TypeOK, ChainInv, [Next]_vars PROVE ChainInv'
    OBVIOUS
  <1>1. CASE Begin
    <2>1. /\ at' = "request" /\ currentURL' = feedURL' /\ redirects' = 0 /\ permanentTarget' = NoURL
          /\ web' = web
      BY <1>1 DEF Begin, StartFetch
    <2>2. Reached(feedURL')[0] = feedURL'
      BY ReachedSteps
    <2>3. Reached(feedURL)' = Reached(feedURL')
      BY <2>1 DEF Reached
    <2>4. \A n \in 0 .. (0 - 1) : FALSE
      OBVIOUS
    <2> QED BY <2>1, <2>2, <2>3, <2>4 DEF ChainInv
  <1>2. CASE Fetching
    <2>1. CASE Follow
      BY <2>1, FollowKeepsChain
    <2>2. CASE TooManyRedirects \/ RequestFails \/ Refuse \/ Serve
      <3>1. /\ at = "request" /\ at' = "answered"
            /\ UNCHANGED <<web, feedURL, currentURL, redirects, permanentTarget>>
        BY <2>2 DEF TooManyRedirects, RequestFails, Refuse, Serve, Return
      <3>2. \A u : Reached(u)' = Reached(u)
        BY <3>1 DEF Reached
      <3>3. /\ result' \in {"page", "notModified", "failed", "unreachable"}
            /\ result' \in {"page", "notModified"} =>
                  redirects < MaxRedirects /\ web[currentURL].kind = "page"
            /\ result' = "failed" =>
                  \/ redirects = MaxRedirects
                  \/ web[currentURL].kind = "refused"
                  \/ IsRedirect(web[currentURL]) /\ web[currentURL].to = NoURL
        BY <2>2, FetchAssumption
           DEF TooManyRedirects, RequestFails, Refuse, Serve, Return, Asking, TypeOK, FetchTypeOK
      <3> QED BY <3>1, <3>2, <3>3 DEF ChainInv, PermanentHop, IsRedirect
    <2> QED BY <1>2, <2>1, <2>2 DEF Fetching, FetchStep
  <1>3. CASE RecordOutcome \/ Abandon
    <2>1. at' = "idle"
      BY <1>3, Outcomes DEF Record, Abandon, EndFetch
    <2> QED BY <2>1 DEF ChainInv
  <1>4. CASE Idles \/ Waits \/ UNCHANGED vars
    <2>1. UNCHANGED fetchVars
      BY <1>4 DEF Idles, Waits, vars
    <2>2. \A u : Reached(u)' = Reached(u)
      BY <2>1 DEF fetchVars, Reached
    <2> QED BY <2>1, <2>2 DEF ChainInv, fetchVars, PermanentHop, IsRedirect
  <1> QED BY <1>1, <1>2, <1>3, <1>4 DEF Next, BeginDue, BeginManual

\* A fetch that fails, for what the web answers, does so where there is no page.
LEMMA FailureIsNoPage ==
  ASSUME TypeOK, ChainInv, at = "answered", result = "failed"
  PROVE  PageOf(feedURL) = {}
  <1>1. /\ redirects \in 0 .. MaxRedirects /\ MaxRedirects \in Nat
        /\ Reached(feedURL)[redirects] = currentURL /\ currentURL # NoURL
        /\ \/ redirects = MaxRedirects
           \/ web[currentURL].kind = "refused"
           \/ IsRedirect(web[currentURL]) /\ web[currentURL].to = NoURL
    BY FetchAssumption DEF ChainInv, TypeOK, FetchTypeOK
  <1>2. ASSUME NEW n \in Hops(feedURL), web[Reached(feedURL)[n]].kind = "page" PROVE FALSE
    <2>1. n \in 0 .. (MaxRedirects - 1) /\ n \in 0 .. MaxRedirects /\ Reached(feedURL)[n] # NoURL
      BY <1>1, <1>2 DEF Hops
    <2>2. n >= redirects
      BY <1>1, <1>2, <2>1, RedirectsOnly DEF IsRedirect
    <2>3. n # redirects
      BY <1>1, <1>2, <2>1 DEF IsRedirect
    <2>4. redirects + 1 \in 1 .. MaxRedirects /\ redirects + 1 - 1 = redirects /\ redirects + 1 \in 0 .. n
          /\ redirects \in 0 .. n /\ redirects # MaxRedirects
      BY <1>1, <2>1, <2>2, <2>3
    <2>5. IsRedirect(web[currentURL])
      BY <1>1, <2>1, <2>3, <2>4, RedirectsOnly
    <2>6. Reached(feedURL)[redirects + 1] = NoURL
      BY <1>1, <2>4, <2>5, ReachedSteps DEF IsRedirect
    <2>7. Reached(feedURL)[redirects + 1] # NoURL
      BY <2>1, <2>4, RedirectsOnly
    <2> QED BY <2>6, <2>7
  <1> QED BY <1>2 DEF PageOf

\* A fetch that succeeds is at the page, and what it reports leads there too.
LEMMA SuccessIsPage ==
  ASSUME TypeOK, ChainInv, at = "answered", result \in {"page", "notModified"}
  PROVE  /\ PageOf(feedURL) = {currentURL}
         /\ permanentTarget = MovedTo(feedURL)
         /\ permanentTarget # NoURL => PageOf(permanentTarget) = {currentURL}
  <1> DEFINE r == Reached(feedURL)
             n0 == redirects
             moves == {n \in Hops(feedURL) : web[r[n]].kind = "permanent"}
  <1>1. /\ n0 \in 0 .. (MaxRedirects - 1) /\ n0 \in Nat /\ MaxRedirects \in Nat
        /\ r[n0] = currentURL /\ currentURL # NoURL /\ web[currentURL].kind = "page"
    BY FetchAssumption DEF ChainInv, TypeOK, FetchTypeOK
  <1>2. PageOf(feedURL) = {currentURL} /\ Hops(feedURL) = 0 .. n0
    BY <1>1, PageIsEnd
  <1>3. \A n : n \in moves <=> n \in 0 .. (n0 - 1) /\ PermanentHop(n)
    <2>1. ~PermanentHop(n0)
      BY <1>1 DEF PermanentHop
    <2>2. \A n : n \in 0 .. n0 <=> n \in 0 .. (n0 - 1) \/ n = n0
      BY <1>1
    <2> QED BY <1>2, <2>1, <2>2 DEF PermanentHop
  <1>4. MovedTo(feedURL) = IF moves = {} THEN NoURL
                           ELSE web[r[CHOOSE n \in moves : \A m \in moves : m <= n]].to
    BY DEF MovedTo
  <1> HIDE DEF moves
  <1>5. CASE permanentTarget = NoURL /\ \A n \in 0 .. (n0 - 1) : ~PermanentHop(n)
    BY <1>2, <1>3, <1>4, <1>5
  <1>6. ASSUME NEW p \in 0 .. (n0 - 1), PermanentHop(p), permanentTarget = web[r[p]].to,
               \A n \in (p + 1) .. (n0 - 1) : ~PermanentHop(n)
        PROVE  permanentTarget = MovedTo(feedURL) /\ PageOf(permanentTarget) = {currentURL}
    <2>1. p \in moves /\ \A m \in moves : m <= p /\ m \in Nat
      BY <1>1, <1>3, <1>6
    <2>2. \A k \in moves : (\A m \in moves : m <= k) => k = p
      BY <1>1, <2>1
    <2>3. (CHOOSE n \in moves : \A m \in moves : m <= n) = p
      <3>1. PICK q : q = CHOOSE n \in moves : \A m \in moves : m <= n
        OBVIOUS
      <3>2. q \in moves /\ \A m \in moves : m <= q
        BY <2>1, <3>1
      <3> QED BY <2>2, <3>1, <3>2
    <2>4. permanentTarget = MovedTo(feedURL)
      BY <1>4, <1>6, <2>1, <2>3
    \* The rest of the way from there.
    <2>5. /\ p + 1 \in 1 .. MaxRedirects /\ p + 1 \in 0 .. MaxRedirects /\ p + 1 - 1 = p
          /\ p \in 0 .. n0 /\ p # n0 /\ n0 \in 0 .. MaxRedirects
          /\ n0 - (p + 1) \in 0 .. (MaxRedirects - 1)
          /\ n0 - (p + 1) \in 0 .. (MaxRedirects - (p + 1))
          /\ p + 1 + (n0 - (p + 1)) = n0
      BY <1>1
    <2>6. r[p + 1] = permanentTarget
      <3>1. r[p] # NoURL /\ IsRedirect(web[r[p]])
        BY <1>1, <2>5, RedirectsOnly
      <3>2. r[p + 1] = web[r[p]].to
        BY <2>5, <3>1, ReachedSteps
      <3> QED BY <1>6, <3>2
    <2>7. Reached(permanentTarget)[n0 - (p + 1)] = currentURL
      BY <1>1, <2>5, <2>6, RestOfWay
    <2>8. PageOf(permanentTarget) = {currentURL}
      BY <1>1, <2>5, <2>7, PageIsEnd
    <2> QED BY <2>4, <2>8
  <1> QED BY <1>2, <1>5, <1>6 DEF ChainInv

\* Loops, chains beyond the bound and redirects to nowhere fail; any other chain
\* ends at its page and reports where the last permanent redirect led, from where
\* it ends at the same page (fetch.go:61-97), whatever the web and the bound.
THEOREM FetchEndsAtPage == Spec => []AnswerIsChainEnd
  <1>1. Init => TypeOK /\ ChainInv
    BY TypeInit DEF Init, FetchInit, ChainInv
  <1>2. TypeOK /\ ChainInv /\ [Next]_vars => (TypeOK /\ ChainInv)'
    BY TypeStep, ChainStep
  <1>3. TypeOK /\ ChainInv => AnswerIsChainEnd
    BY FailureIsNoPage, SuccessIsPage DEF AnswerIsChainEnd, ChainInv
  <1> QED BY <1>1, <1>2, <1>3, PTL DEF Spec

--------------------------------------------------------------------------------
(* The interval that a document asks for. *)

LEMMA Quotient ==
  ASSUME NEW a \in Int, NEW b \in Nat \ {0}
  PROVE  /\ a \div b \in Int /\ (a \div b) * b <= a
         /\ \A x \in Int : x > a \div b => x * b > a
         /\ \A x \in Int : x * b >= a => x >= a \div b
  <1> DEFINE q == a \div b
  <1>1. q \in Int /\ q * b <= a /\ a < (q + 1) * b
    OBVIOUS
  <1> HIDE DEF q
  <1>2. \A x \in Int : x > q => x * b >= (q + 1) * b
    BY <1>1
  <1>3. \A x \in Int : x <= q - 1 => x * b <= (q - 1) * b
    BY <1>1
  <1>4. (q - 1) * b < q * b
    BY <1>1
  <1>5. \A x \in Int : x > q => x * b > a
    <2> SUFFICES ASSUME NEW x \in Int, x > q PROVE x * b > a
      OBVIOUS
    <2>1. x * b \in Int /\ x * b >= (q + 1) * b /\ (q + 1) * b \in Int
      BY <1>1, <1>2
    <2> QED BY <1>1, <2>1
  <1>6. \A x \in Int : x * b >= a => x >= q
    <2> SUFFICES ASSUME NEW x \in Int, x <= q - 1 PROVE x * b < a
      BY <1>1
    <2>1. x * b \in Int /\ x * b <= (q - 1) * b /\ (q - 1) * b \in Int /\ q * b \in Int
      BY <1>1, <1>3
    <2> QED BY <1>1, <1>4, <2>1
  <1>7. q \in Int /\ q * b <= a
    BY <1>1
  <1> QED BY <1>5, <1>6, <1>7 DEF q

\* What is stored is what is asked for, if that is five minutes or more, but for
\* the fraction of a second: in numbers, without the division.
LEMMA StoredAsAsked ==
  ASSUME NEW ad \in Ads, Representable(ad), NEW t \in Nat
  PROVE  /\ t >= Stored(Interval(ad)) => (t + Second) * Asked(ad)[2] > Asked(ad)[1]
         /\ t >= MinTTL /\ t * Asked(ad)[2] >= Asked(ad)[1] => t >= Stored(Interval(ad))
  <1> DEFINE d == Interval(ad)
  <1>1. d \in Int /\ d >= MinTTL
    BY IntervalAtLeastMin
  <1>2. Stored(d) \in Int /\ Stored(d) <= d /\ d < Stored(d) + Second
    <2> DEFINE q == d \div Second
    <2>1. q \in Int /\ q * Second <= d /\ d < (q + 1) * Second
      BY <1>1, Units
    <2>2. (q + 1) * Second = q * Second + Second /\ q * Second \in Int
      BY <2>1, Units
    <2> HIDE DEF q
    <2>3. Stored(d) = q * Second
      BY DEF Stored, q
    <2> QED BY <2>1, <2>2, <2>3
  <1>3. /\ t >= Stored(d) => t + Second > d
        /\ t >= d => t >= Stored(d)
    BY <1>1, <1>2, Units
  <1>4. CASE Positive(ad.rss)
    <2>1. ad.rss[1] \in Int /\ ad.rss[1] > 0
      BY <1>4, AdParts DEF Positive
    <2>2. Asked(ad)[1] = ad.rss[1] * Minute /\ Asked(ad)[2] = 1 /\ ad.rss[1] * Minute < HalfWord
      BY <1>4 DEF Asked, Representable
    <2>3. ad.rss[1] * Minute \in Nat
      BY <2>1, Units
    <2>4. \A x \in Nat : x < HalfWord => Wrap(x) = x
      BY Units DEF Wrap
    <2>5. d = IF Asked(ad)[1] < MinTTL THEN MinTTL ELSE Asked(ad)[1]
      BY <1>4, <2>2, <2>3, <2>4 DEF Interval, clampTTL, rssTTL
    <2> HIDE DEF d
    <2> QED BY <1>1, <1>3, <2>2, <2>3, <2>5, Units DEF d
  <1>5. CASE ~Positive(ad.rss) /\ HasSyndication(ad)
    <2> DEFINE x == syndicationTTL(ad)
    <2>1. Asked(ad)[1] = Base(ad) /\ Asked(ad)[2] = Times(ad)
      BY <1>5 DEF Asked
    <2>2. Times(ad) \in Nat \ {0} /\ Base(ad) \in Int
      BY <1>5, SyndicationParts
    <2>3. x = Base(ad) \div Times(ad)
      BY DEF syndicationTTL
    <2>4. /\ x \in Int
          /\ \A y \in Int : y > x => y * Times(ad) > Base(ad)
          /\ \A y \in Int : y * Times(ad) >= Base(ad) => y >= x
      BY <2>2, <2>3, Quotient
    <2>5. d = IF x < MinTTL THEN MinTTL ELSE x
      BY <1>5 DEF Interval, clampTTL
    <2> HIDE DEF d, x
    <2>6. t \in Int /\ t + Second \in Int
      BY Units
    <2>7. t + Second > d => (t + Second) * Times(ad) > Base(ad)
      <3>1. t + Second > d => t + Second > x
        BY <1>1, <2>4, <2>5, <2>6, Units
      <3> QED BY <2>4, <2>6, <3>1
    <2>8. t >= MinTTL /\ t * Times(ad) >= Base(ad) => t >= d
      <3>1. t >= MinTTL /\ t >= x => t >= d
        BY <2>4, <2>5, Units
      <3> QED BY <2>4, <2>6, <3>1
    <2> QED BY <1>3, <2>1, <2>7, <2>8 DEF d
  <1>6. CASE ~Positive(ad.rss) /\ ~HasSyndication(ad)
    <2>1. Asked(ad)[1] = DefaultTTL /\ Asked(ad)[2] = 1 /\ d = DefaultTTL
      BY <1>6 DEF Asked, Interval
    <2> QED BY <1>3, <2>1, Units
  <1> QED BY <1>4, <1>5, <1>6

\* The interval that is stored is that of the last document stored.
AdvertInv == advert # NoAd => row.ttl = Stored(Interval(advert))

LEMMA AdvertStep == TypeOK /\ AdvertInv /\ [Next]_vars => AdvertInv'
  <1> SUFFICES ASSUME TypeOK, AdvertInv, [Next]_vars PROVE AdvertInv'
    OBVIOUS
  <1>1. CASE RecordOutcome
    <2>1. \/ advert' = advert /\ row'.ttl = row.ttl
          \/ row'.ttl = Stored(Interval(advert'))
      BY <1>1, Outcomes
    <2> QED BY <2>1 DEF AdvertInv
  <1>2. CASE ~RecordOutcome
    <2>1. row' = row /\ advert' = advert
      BY <1>2 DEF Next, Idles, Waits, BeginDue, BeginManual, Begin, Fetching, Abandon, vars
    <2> QED BY <2>1 DEF AdvertInv
  <1> QED BY <1>1, <1>2

\* The scheduler comes back when the interval that the last document asks for has
\* passed, and no earlier but for a fraction of a second, whatever interval that
\* is and through any failures and 304s (ttl.go:23, feed_repo.go:76, refresh.go:43).
THEOREM IntervalsKept == Spec => []IntervalKept
  <1> DEFINE All == TypeOK /\ RestInv /\ AgeInv /\ AdvertInv
  <1>1. Init => All
    BY TypeInit DEF Init, RestInv, AgeInv, AdvertInv
  <1>2. All /\ [Next]_vars => All'
    BY TypeStep, RestStep, AdvertStep
  <1>3. All => IntervalKept
    <2> SUFFICES ASSUME All, quiet # Never, advert # NoAd, Representable(advert)
                 PROVE  /\ Due(row.ttl, age) => (quiet + Second) * Asked(advert)[2] > Asked(advert)[1]
                        /\ quiet >= MinTTL /\ quiet * Asked(advert)[2] >= Asked(advert)[1]
                           => Due(row.ttl, age)
      BY DEF IntervalKept
    <2>1. /\ advert \in FeedAds /\ advert \in Ads /\ quiet \in Nat /\ age = quiet
          /\ row.ttl = Stored(Interval(advert))
      BY PollingAssumption DEF TypeOK, AgeInv, AdvertInv
    <2>2. row.ttl \in Int /\ row.ttl > 0
      BY <2>1, StoredIntervals, Units
    <2>3. Due(row.ttl, age) <=> quiet >= Stored(Interval(advert))
      BY <2>1, <2>2 DEF Due
    <2> QED BY <2>1, <2>3, StoredAsAsked
  <1> QED BY <1>1, <1>2, <1>3, PTL DEF Spec

================================================================================
