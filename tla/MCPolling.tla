------------------------------- MODULE MCPolling -------------------------------
EXTENDS Polling
CONSTANTS u1, u2, u3, u4

To(kind, targets) == [kind : {kind}, to : targets]
Hop(targets) == To("permanent", targets) \cup To("temporary", targets)
End == To("page", {NoURL}) \cup To("refused", {NoURL})

Page == [kind |-> "page", to |-> NoURL]

\* Up to renaming, a chain from u1 visits the URLs in order or returns to an
\* earlier one; three redirects are too many.  What it does not reach is a page.
MCWebs == {w \in [URLs -> Answers] :
             /\ w[u1] \in Hop({u2}) \cup To("temporary", {u1})
             /\ w[u2] \in IF w[u1].to = u2 THEN End \cup Hop({u1, u3}) ELSE {Page}
             /\ w[u3] \in IF w[u2].to = u3
                          THEN End \cup Hop({u1, u4}) \cup To("permanent", {NoURL})
                          ELSE {Page}
             /\ w[u4] \in IF w[u3].to = u4 THEN {Page} \cup To("permanent", {u2})
                                           ELSE {Page}}

Ad(rss, period, freq) == [rss |-> rss, period |-> period, freq |-> freq]
Plain == Ad(<<>>, "", <<>>)
Often == Ad(<<1>>, "", <<>>)
Odd   == Ad(<<0>>, "hourly", <<7>>)
Vague == Ad(<<>>, "unknown", <<2>>)
Huge  == Ad(<<1118482>>, "daily", <<>>)   \* a minute's multiple beyond the width
MCAds == {Plain, Often, Odd, Vague, Huge}

Half == Second \div 2
MCMoments == {Half, MinTTL - Half, MinTTL, (Hour \div 7) - Second, Hour \div 7, (Hour \div 7) + 1,
              DefaultTTL - Half, DefaultTTL}
\* Ten requests of thirty seconds.
MCDelays == {MinTTL}
================================================================================
