---------------------------- MODULE MCSubscriptions ----------------------------
EXTENDS Subscriptions
CONSTANTS u1, u2, u3

Feed(title, url, site, kids) ==
    [title |-> title, text |-> <<9>>, url |-> url, site |-> site, kids |-> kids]
Plain(title, url) == Feed(title, url, NoURL, <<>>)
Named(name, kids) == [title |-> <<>>, text |-> name, url |-> NoURL, site |-> NoURL,
                      kids |-> kids]

MCURLs == {u1, u2, u3}
MCFolders == {<<>>, <<2>>}
MCUncategorized == <<3>>
MCPublished == [u \in URLs |->
    CASE u = u1 -> [title |-> <<1>>, site |-> u1, moved |-> u1]
      [] u = u2 -> [title |-> <<2>>, site |-> NoURL, moved |-> u1]
      [] u = u3 -> [title |-> <<3>>, site |-> NoURL, moved |-> u3]]

\* Nested folders, an empty one, and titles that are not in the folders' order.
Nested == << Named(<<1>>, << Feed(<<1>>, u1, u2, <<>>),
                             Named(<<6>>, <<Plain(<<2>>, u2)>>),
                             Named(<<4>>, <<>>),
                             Plain(<<3>>, u3) >>) >>
\* A wrapper whose name differs in punctuation, a feed that is listed again, without
\* its site, in a folder without a name, and a feed with an outline below it.
Wrapped == << Named(<<2>>, << Named(<<1, 0>>, <<Feed(<<1, 2>>, u1, u3, <<>>)>>) >>),
              Named(<<0>>, << Feed(<<1>>, u1, NoURL, <<Plain(<<1>>, u3)>>) >>) >>
MCDocuments == {Nested, Wrapped}
================================================================================
