SPECIFICATION FairSpec
CONSTANTS
    a = a
    b = b
    c = c
    NoRow = NoRow
    Nothing = Nothing
    MaxId = 3
    MaxVer = 2
    URLs = {a, b, c}
    Folders = {d1}
    Target <- MCTarget
    FirstURLs <- ThreeFeeds
    Handlers = {}
    Ops = {}
    HasFavicons = FALSE
    Faults = {}
INVARIANTS
    RefreshNeverConflicts
    CandidatesVisible
PROPERTIES
    CatchesUp
