---------------------------------- MODULE TTL ----------------------------------
(***************************************************************************)
(* The refresh interval a feed advertises (ttl.go), how it is stored       *)
(* (feed_repo.go) and when it has passed (Due in refresh.go).              *)
(*                                                                         *)
(* Durations are integers of a fixed width, as time.Duration is: Second is *)
(* 10^9 nanoseconds there, HalfWord 2^63.                                  *)
(***************************************************************************)
EXTENDS Integers, Sequences

CONSTANTS
    Second,     \* the length of a second
    HalfWord,   \* durations are -HalfWord..HalfWord-1
    Never       \* last_refresh_at is NULL

Minute == 60 * Second
Hour   == 60 * Minute
Day    == 24 * Hour

DefaultTTL == 60 * Minute
MinTTL == 5 * Minute

ASSUME TTLAssumption ==
    /\ Second \in Nat \ {0} /\ HalfWord \in Nat
    /\ DefaultTTL < HalfWord
    /\ Never \notin Nat

Wrap(x) == ((x + HalfWord) % (2 * HalfWord)) - HalfWord

\* What a document advertises.  A number that is missing is <<>>; one that is
\* not a number is as good as <<0>>.
Periods == [hourly |-> Hour, daily |-> Day, weekly |-> 7 * Day,
            monthly |-> 30 * Day, yearly |-> 365 * Day]
Numbers == {s \in Seq(Int) : Len(s) <= 1}
Ads == [rss : Numbers, period : {"", "unknown"} \cup DOMAIN Periods, freq : Numbers]

Positive(number) == number # <<>> /\ number[1] > 0

rssTTL(ad) == Wrap(ad.rss[1] * Minute)

HasSyndication(ad) ==
    /\ ad.period # "" \/ ad.freq # <<>>
    /\ ad.period # "unknown"
    /\ ad.freq = <<>> \/ Positive(ad.freq)

Base(ad) == IF ad.period = "" THEN Hour ELSE Periods[ad.period]
Times(ad) == IF ad.freq = <<>> THEN 1 ELSE ad.freq[1]

syndicationTTL(ad) == Base(ad) \div Times(ad)

\* Mutant: no minimum.
unclamped(d) == d

clampTTL(d) == IF d < MinTTL THEN MinTTL ELSE d

Interval(ad) == CASE Positive(ad.rss)   -> clampTTL(rssTTL(ad))
                  [] ~Positive(ad.rss) /\ HasSyndication(ad) -> clampTTL(syndicationTTL(ad))
                  [] OTHER              -> DefaultTTL

\* Mutant: whole minutes.
StoredMinutes(d) == (d \div Minute) * Minute

\* refresh_ttl_seconds holds whole seconds.
Stored(d) == (d \div Second) * Second

\* ago: how long ago the feed was last refreshed.
Due(ttl, ago) == IF ago = Never THEN TRUE
                 ELSE ago >= (IF ttl <= 0 THEN DefaultTTL ELSE ttl)
================================================================================
