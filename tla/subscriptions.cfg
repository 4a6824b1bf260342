SPECIFICATION Spec
CONSTANTS
    u1 = u1
    u2 = u2
    u3 = u3
    URLs <- MCURLs
    Depth = 3
    Documents <- MCDocuments
    Folders <- MCFolders
    Published <- MCPublished
    Uncategorized <- MCUncategorized
    MaxId = 3
    MaxOthers = 2
INVARIANTS
    ReadsAsMeant
    ImportApplied
    BackupKeepsFeeds
    FoldersListedOnce
