SPECIFICATION Spec
CONSTANTS
    a = a
    b = b
    c = c
    NoRow = NoRow
    Nothing = Nothing
    MaxId = 1
    MaxVer = 1
    URLs = {a, b}
    Folders = {d1, d2}
    Target <- MCNoRedirects
    FirstURLs <- OneFeed
    Handlers = {h1}
    Ops = {"edit"}
    HasFavicons = FALSE
    Faults = {}
PROPERTIES
    FailedRefreshKeepsSettings
