SPECIFICATION HistorySpec
CONSTANTS
    a = a
    c = c
    NoRow = NoRow
    Nothing = Nothing
    MaxId = 2
    MaxVer = 2
    URLs = {a, c}
    Folders = {d1}
    Target <- MCNoRedirects
    FirstURLs <- OneFeed
    Handlers = {h1}
    Ops = {"add", "import", "delete"}
    HasFavicons = TRUE
    Faults = {"crash", "dbError"}
INVARIANTS
    ValidatorBacked
    ArticlesFromOwnURL
