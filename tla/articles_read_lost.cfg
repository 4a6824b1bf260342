SPECIFICATION Spec
CONSTANTS
    g1 = g1
    g2 = g2
    l1 = l1
    l2 = l2
    d1 = d1
    Empty = Empty
    NoArticle = NoArticle
    NoFeed = NoFeed
    NoEntry = NoEntry
    OldTitle = OldTitle
    Feeds = {f1}
    Items <- MCItems
    Docs <- ReadDocs
    MaxId = 1
PROPERTIES
    SyncKeepsRead
CHECK_DEADLOCK FALSE
