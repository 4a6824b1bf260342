SPECIFICATION Spec
CONSTANTS
    u1 = u1
    u2 = u2
    u3 = u3
    u4 = u4
    URLs = {u1, u2, u3, u4}
    NoURL = NoURL
    MaxRedirects = 3
    Webs <- MCWebs
    Second = 2
    HalfWord = 67108864
    Never = Never
    FirstURL = u1
    FeedAds <- MCAds
    NoAd = NoAd
    Moments <- MCMoments
    Delays <- MCDelays
    MaxAge = 7250
INVARIANTS
    AnswerIsChainEnd
    IntervalKept
PROPERTIES
    QuietForMinTTL
    MovesOnce
