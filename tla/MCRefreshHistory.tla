--------------------------- MODULE MCRefreshHistory ---------------------------
EXTENDS RefreshHistory
CONSTANTS a, c

\* No redirects: the articles of a feed tell which URL they came from.
MCNoRedirects == [u \in URLs |-> u]

\* One feed at the start; another can be added beside it or in its place.
OneFeed == <<a>>
================================================================================
