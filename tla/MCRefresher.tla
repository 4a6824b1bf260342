----------------------------- MODULE MCRefresher -----------------------------
EXTENDS Refresher
CONSTANTS a, b, c

\* The permanent redirects of a and b converge on c.
MCTarget == [u \in URLs |-> c]
\* No redirects.
MCNoRedirects == [u \in URLs |-> u]

TwoFeeds   == <<a, c>>
ThreeFeeds == <<a, b, c>>
OneFeed    == <<a>>
================================================================================
