SPECIFICATION Spec
CONSTANTS
    a = a
    b = b
    c = c
    NoRow = NoRow
    Nothing = Nothing
    MaxId = 3
    MaxVer = 1
    URLs = {a, c}
    Folders = {d1}
    Target <- MCTarget
    FirstURLs <- TwoFeeds
    Handlers = {h1}
    Ops = {"edit", "add", "import", "merge", "delete"}
    HasFavicons = TRUE
    Faults = {"crash", "dbError"}
INVARIANTS
    NoSelfCandidate
