SPECIFICATION Spec
CONSTANTS
    g1 = g1
    g2 = g2
    l1 = l1
    l2 = l2
    d1 = d1
    Empty = Empty
    NoArticle = NoArticle
    NoFeed = NoFeed
    NoEntry = NoEntry
    OldTitle = OldTitle
    Feeds = {f1, f2}
    Items <- MCItems
    Docs <- MCDocs
    MaxId = 3
SYMMETRY FeedSymmetry
INVARIANTS
    TypeOK
    SyncNeverConflicts
    SyncReflectsDocument
    IndexHasFeedTitle
PROPERTIES
    MergeKeepsRead
CHECK_DEADLOCK FALSE
