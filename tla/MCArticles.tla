------------------------------ MODULE MCArticles ------------------------------
EXTENDS Articles, TLC
CONSTANTS g1, g2, l1, l2, d1

Item(g, l) == [guid |-> g, link |-> l, date |-> d1]

One     == Item(g1, l1)
Two     == Item(g2, l2)
Moved   == Item(g1, l2)      \* the first item with the link of the second
NoGUID  == Item(Empty, l1)   \* only a link
Dated   == Item(Empty, Empty)   \* only a date

MCItems == {One, Two, Moved, NoGUID, Dated}
MCDocs == {<<One, Two>>, <<NoGUID, One>>, <<Moved, Dated>>}
\* Feeds are interchangeable.
FeedSymmetry == Permutations(Feeds)

ReadDocs == {<<One>>}
================================================================================
