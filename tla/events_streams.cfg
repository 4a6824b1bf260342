SPECIFICATION Spec
CONSTANTS
    f1 = f1
    f2 = f2
    badge1 = badge1
    Feeds <- MCFeeds
    Idle = Idle
    TreeStreams = {sidebar1}
    FeedStreams = {badge1}
    Watched <- MCWatched
    ReadsFail = TRUE
INVARIANTS
    TreeNoMissedChange
PROPERTIES
    TreeConverges
    FeedRecovers
    SidebarIsLiveIndicator
