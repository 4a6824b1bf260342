SPECIFICATION Spec
CONSTANTS
    page = page
    pic = pic
    hop = hop
    ico = ico
    lan = lan
    rel = rel
    URLs <- MCURLs
    Paths = {rel}
    NoRef = NoRef
    Unsafe = Unsafe
    Joined <- MCJoined
    Jobs = {j1, j2}
    Articles <- MCArticles
    Sites <- MCSites
    FeedURL = page
    Gated = {lan}
    Webs <- MCWebs
    Icons <- MCIcons
    Fallback = ico
    MaxRequests = 3
    MaxBytes = 2
    NoIcon = NoIcon
INVARIANTS
    IconFits
    FrameStaysLocal
    FaviconByPriority
PROPERTIES
    ConnectionsEnd
