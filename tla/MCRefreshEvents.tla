---------------------------- MODULE MCRefreshEvents ----------------------------
EXTENDS RefreshEvents
CONSTANTS f1, f2, badge1

MCFeeds == {f1, f2}
MCWatched == [s \in FeedStreams |-> f1]
================================================================================
