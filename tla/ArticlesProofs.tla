----------------------------- MODULE ArticlesProofs -----------------------------
(***************************************************************************)
(* What a sync, query by query, and a merge, article by article, leave in  *)
(* the articles table and the search index, for any feeds, documents and   *)
(* number of articles, and whatever is done between any two queries.       *)
(***************************************************************************)
EXTENDS Articles, Integers, TLAPS, WellFoundedInduction

--------------------------------------------------------------------------------
(* Least elements: LIMIT 1, and induction over the articles of a merge.         *)

Less == OpToRel(<, Nat)

LEMMA LeastElement ==
    ASSUME NEW T \in SUBSET Nat, T # {}
    PROVE  \E x \in T : \A y \in T : x <= y
<1>1. \A x, y \in Nat : y < x => <<y, x>> \in Less
  BY DEF OpToRel, Less
<1>2. IsWellFoundedOn(Less, Nat)
  BY NatLessThanWellFounded DEF Less
<1>3. PICK x \in T : \A y \in T : ~ (<<y, x>> \in Less)
  BY <1>2, WFMin
<1>4. ASSUME NEW y \in T PROVE x <= y
  <2>1. x \in Nat /\ y \in Nat /\ ~ (y < x)
    BY <1>1, <1>3
  <2> QED BY <2>1
<1> QED BY <1>4

LEMMA FirstIs ==
    ASSUME NEW S \in SUBSET Nat, S # {}
    PROVE  First(S) \in S /\ \A j \in S : First(S) <= j
  BY LeastElement DEF First

--------------------------------------------------------------------------------
(* Identity                                                                     *)

Tables == [IDs -> Rows \cup {NoArticle}]

LEMMA ChainColumns ==
    /\ Chain[1] = "guid" /\ Chain[2] = "link" /\ Chain[3] = "hash"
    /\ \A x : Key(x, "guid") = x.guid /\ Key(x, "link") = x.link
              /\ Key(x, "hash") = <<x.link, x.date>>
  BY DEF Chain, Key

\* FindByIdentity returns the first article for the first column that has any.
LEMMA IdentifiedBy ==
    ASSUME NEW table, NEW f, NEW x, NEW n \in 1..3,
           Matching(table, f, x, Chain[n]) # {},
           \A m \in 1..3 : m < n => Matching(table, f, x, Chain[m]) = {}
    PROVE  Identified(table, f, x) = {First(Matching(table, f, x, Chain[n]))}
<1> DEFINE hits == {m \in 1..3 : Matching(table, f, x, Chain[m]) # {}}
<1>1. hits \in SUBSET Nat /\ n \in hits
  OBVIOUS
<1>2. First(hits) \in hits /\ \A j \in hits : First(hits) <= j
  BY <1>1, FirstIs
<1>3. First(hits) = n
  <2>1. \A m \in hits : m \in Nat /\ ~ (m < n)
    OBVIOUS
  <2>2. PICK k : k = First(hits)
    OBVIOUS
  <2>3. k \in Nat /\ ~ (k < n) /\ k <= n
    BY <1>1, <1>2, <2>1, <2>2
  <2> QED BY <2>2, <2>3
<1> QED BY <1>1, <1>3 DEF Identified

LEMMA IdentifiedCases ==
    ASSUME NEW table, NEW f, NEW x
    PROVE  \/ /\ Identified(table, f, x) = {}
              /\ \A n \in 1..3 : Matching(table, f, x, Chain[n]) = {}
           \/ \E n \in 1..3 :
                 /\ Matching(table, f, x, Chain[n]) # {}
                 /\ \A m \in 1..3 : m < n => Matching(table, f, x, Chain[m]) = {}
                 /\ Identified(table, f, x) = {First(Matching(table, f, x, Chain[n]))}
<1> DEFINE hits == {m \in 1..3 : Matching(table, f, x, Chain[m]) # {}}
<1>1. CASE hits = {}
  BY <1>1 DEF Identified
<1>2. CASE hits # {}
  <2>1. First(hits) \in hits /\ \A j \in hits : First(hits) <= j
    <3>1. hits \in SUBSET Nat
      OBVIOUS
    <3> QED BY <1>2, <3>1, FirstIs
  <2>2. PICK n \in 1..3 : n = First(hits)
    BY <2>1
  <2>3. \A m \in 1..3 : m < n => m \notin hits
    BY <2>1, <2>2
  <2>4. /\ Matching(table, f, x, Chain[n]) # {}
        /\ \A m \in 1..3 : m < n => Matching(table, f, x, Chain[m]) = {}
    BY <2>1, <2>2, <2>3
  <2> QED BY <2>4, IdentifiedBy
<1> QED BY <1>1, <1>2

LEMMA MatchesAre ==
    ASSUME NEW table, NEW f, NEW x, NEW c
    PROVE  /\ Matching(table, f, x, c) \in SUBSET IDs
           /\ \A i : i \in Matching(table, f, x, c) <=>
                 /\ i \in IDs /\ table[i] # NoArticle /\ table[i].feed = f
                 /\ Key(x, c) # Empty /\ Key(table[i].item, c) = Key(x, c)
  BY DEF Matching, ArticlesOf

LEMMA IdentifiedIsArticle ==
    ASSUME NEW table, NEW f, NEW x, Identified(table, f, x) # {}
    PROVE  \E k \in ArticlesOf(table, f) : Identified(table, f, x) = {k}
<1>1. PICK n \in 1..3 :
          /\ Matching(table, f, x, Chain[n]) # {}
          /\ Identified(table, f, x) = {First(Matching(table, f, x, Chain[n]))}
  BY IdentifiedCases
<1>2. First(Matching(table, f, x, Chain[n])) \in Matching(table, f, x, Chain[n])
  BY <1>1, MatchesAre, FirstIs DEF IDs
<1> QED BY <1>1, <1>2, MatchesAre DEF ArticlesOf

\* What is found depends on the items of the feed's articles only.
LEMMA SameMatches ==
    ASSUME NEW t, NEW u, NEW f,
           \A i \in IDs : /\ i \in ArticlesOf(t, f) <=> i \in ArticlesOf(u, f)
                          /\ i \in ArticlesOf(t, f) => t[i].item = u[i].item
    PROVE  /\ ArticlesOf(t, f) = ArticlesOf(u, f)
           /\ \A x, c : Matching(t, f, x, c) = Matching(u, f, x, c)
           /\ \A x : Identified(t, f, x) = Identified(u, f, x)
<1>1. ArticlesOf(t, f) = ArticlesOf(u, f)
  BY DEF ArticlesOf
<1>2. ASSUME NEW x, NEW c PROVE Matching(t, f, x, c) = Matching(u, f, x, c)
  BY <1>1 DEF Matching, ArticlesOf
<1>3. ASSUME NEW x PROVE Identified(t, f, x) = Identified(u, f, x)
  <2> DEFINE hits(table) == {n \in 1..3 : Matching(table, f, x, Chain[n]) # {}}
  <2>1. hits(t) = hits(u)
    BY <1>2
  <2>2. \A n : Matching(t, f, x, Chain[n]) = Matching(u, f, x, Chain[n])
    BY <1>2
  <2>3. \A table : Identified(table, f, x) =
            IF hits(table) = {} THEN {}
            ELSE {First(Matching(table, f, x, Chain[First(hits(table))]))}
    BY DEF Identified
  <2> HIDE DEF hits
  <2> QED BY <2>1, <2>2, <2>3
<1> QED BY <1>1, <1>2, <1>3

--------------------------------------------------------------------------------
(* A merge, article by article                                                  *)

LEMMA MergingSteps ==
    ASSUME NEW s, NEW l
    PROVE  /\ Merging(s, l)[0] = articles
           /\ \A i \in IDs : Merging(s, l)[i] =
                  IF i \in ArticlesOf(articles, l) THEN Absorbed(Merging(s, l)[i - 1], i, s)
                  ELSE Merging(s, l)[i - 1]
<1> DEFINE Step(g, i) == IF i = 0 THEN articles
                         ELSE IF i \in ArticlesOf(articles, l) THEN Absorbed(g[i - 1], i, s)
                         ELSE g[i - 1]
           Upto(n) == \E g : g = [i \in 0..n |-> Step(g, i)]
<1>1. MaxId \in Nat
  BY ArticlesAssumption
<1>2. Upto(0)
  <2> DEFINE g == [i \in 0..0 |-> articles]
  <2>1. g = [i \in 0..0 |-> Step(g, i)]
    OBVIOUS
  <2> QED BY <2>1
<1>3. ASSUME NEW n \in Nat, Upto(n) PROVE Upto(n + 1)
  <2>1. PICK g : g = [i \in 0..n |-> Step(g, i)]
    BY <1>3
  <2> DEFINE h == [i \in 0..(n + 1) |-> IF i <= n THEN g[i] ELSE Step(g, i)]
  <2>2. ASSUME NEW i \in 0..(n + 1) PROVE h[i] = Step(h, i)
    <3>1. i # 0 => h[i - 1] = g[i - 1]
      OBVIOUS
    <3>2. Step(h, i) = Step(g, i)
      BY <3>1
    <3>3. i <= n => g[i] = Step(g, i)
      <4>1. ASSUME NEW j \in 0..n PROVE g[j] = Step(g, j)
        <5> HIDE DEF Step
        <5> QED BY <2>1
      <4> QED BY <4>1
    <3> QED BY <3>2, <3>3
  <2>3. h = [i \in 0..(n + 1) |-> Step(h, i)]
    <3>1. h = [i \in 0..(n + 1) |-> h[i]]
      OBVIOUS
    <3> HIDE DEF h, Step
    <3> QED BY <2>2, <3>1
  <2> HIDE DEF h, Step
  <2> QED BY <2>3
<1>4. Upto(MaxId)
  <2> DEFINE bad == {n \in Nat : ~ Upto(n)}
  <2>1. SUFFICES ASSUME bad # {} PROVE FALSE
    BY <1>1
  <2>2. PICK n \in bad : \A m \in bad : n <= m
    <3>1. bad \in SUBSET Nat
      OBVIOUS
    <3> HIDE DEF bad
    <3> QED BY <2>1, <3>1, LeastElement
  <2> HIDE DEF Upto
  <2>3. n \in Nat /\ n # 0 /\ ~ Upto(n) /\ n - 1 \in Nat /\ n - 1 \notin bad
    BY <1>2, <2>2
  <2>4. Upto(n - 1 + 1)
    BY <1>3, <2>3
  <2> QED BY <2>3, <2>4
<1>5. Merging(s, l) = CHOOSE g : g = [i \in 0..MaxId |-> Step(g, i)]
  BY DEF Merging
<1>6. Merging(s, l) = [i \in 0..MaxId |-> Step(Merging(s, l), i)]
  <2> HIDE DEF Step
  <2> QED BY <1>4, <1>5
<1>7. \A i \in 0..MaxId : Merging(s, l)[i] = Step(Merging(s, l), i)
  <2> HIDE DEF Step
  <2> QED BY <1>6
<1> QED BY <1>1, <1>7 DEF IDs

\* UNIQUE (feed_id, guid) WHERE guid != ''.
GUIDsUnique(table) ==
    \A i, j \in IDs :
        /\ table[i] # NoArticle /\ table[j] # NoArticle
        /\ table[i].feed = table[j].feed
        /\ table[i].item.guid = table[j].item.guid /\ table[i].item.guid # Empty
        => i = j

\* An article that is not a duplicate moves into feed s.
MovesTo(t, u, n, s) ==
    /\ t \in Tables /\ n \in IDs /\ t[n] # NoArticle /\ t[n].feed # s
    /\ Identified(t, s, t[n].item) = {}
    /\ u = [t EXCEPT ![n].feed = s]

LEMMA MoveFacts ==
    ASSUME NEW t, NEW u, NEW n, NEW s \in Feeds, MovesTo(t, u, n, s)
    PROVE  /\ u \in Tables
           /\ \A i \in IDs : /\ i # n => u[i] = t[i]
                             /\ t[i] = NoArticle <=> u[i] = NoArticle
                             /\ u[i].item = t[i].item /\ u[i].read = t[i].read
           /\ u[n].feed = s
           /\ \A c \in {"guid", "link", "hash"} : Matching(t, s, t[n].item, c) = {}
<1>1. \A r \in Rows : /\ [r EXCEPT !.feed = s] \in Rows
                      /\ [r EXCEPT !.feed = s].feed = s
                      /\ [r EXCEPT !.feed = s].item = r.item
                      /\ [r EXCEPT !.feed = s].read = r.read
  BY DEF Rows
<1>2. t[n] \in Rows /\ NoArticle \notin Rows
  BY ArticlesAssumption DEF MovesTo, Tables
<1>3. u[n] = [t[n] EXCEPT !.feed = s] /\ \A i \in IDs : i # n => u[i] = t[i]
  BY DEF MovesTo, Tables
<1>4. \A m \in 1..3 : Matching(t, s, t[n].item, Chain[m]) = {}
  BY IdentifiedCases DEF MovesTo
<1>5. u \in Tables
  BY <1>1, <1>2 DEF MovesTo, Tables
<1>6. n \in IDs /\ u[n] # NoArticle /\ u[n].feed = s
      /\ u[n].item = t[n].item /\ u[n].read = t[n].read
  BY <1>1, <1>2, <1>3 DEF MovesTo
<1>7. \A c \in {"guid", "link", "hash"} : Matching(t, s, t[n].item, c) = {}
  BY <1>4, ChainColumns
<1> QED BY <1>2, <1>3, <1>5, <1>6, <1>7

\* It is found there by its item, alone.
LEMMA MovedIsFound ==
    ASSUME NEW t, NEW u, NEW n, NEW s \in Feeds, MovesTo(t, u, n, s)
    PROVE  Identified(u, s, t[n].item) = {n}
<1> DEFINE x == t[n].item
<1>1. x \in Items /\ n \in IDs /\ t[n] # NoArticle
  BY ArticlesAssumption DEF MovesTo, Tables, Rows
<1>2. ASSUME NEW c \in {"guid", "link", "hash"}
      PROVE  Matching(u, s, x, c) = IF Key(x, c) = Empty THEN {} ELSE {n}
  <2>1. Matching(t, s, x, c) = {}
    BY MoveFacts
  <2>2. ASSUME NEW i \in Matching(u, s, x, c) PROVE i = n
    BY <2>1, <2>2, MatchesAre, MoveFacts
  <2>3. Key(x, c) # Empty => n \in Matching(u, s, x, c)
    BY <1>1, MatchesAre, MoveFacts
  <2>4. Key(x, c) = Empty => Matching(u, s, x, c) = {}
    BY DEF Matching
  <2> QED BY <2>2, <2>3, <2>4
<1>3. Key(x, "hash") # Empty
  BY <1>1, ArticlesAssumption, ChainColumns
<1>4. First({n}) = n
  BY <1>1, FirstIs DEF IDs
<1>5. Matching(u, s, x, Chain[3]) # {}
  BY <1>2, <1>3, ChainColumns
<1>6. \A m \in 1..3 : Matching(u, s, x, Chain[m]) # {} => Matching(u, s, x, Chain[m]) = {n}
  <2>1. \A m \in 1..3 : Chain[m] \in {"guid", "link", "hash"}
    BY ChainColumns
  <2> QED BY <1>2, <2>1
<1>7. PICK m \in 1..3 :
          /\ Matching(u, s, x, Chain[m]) # {}
          /\ Identified(u, s, x) = {First(Matching(u, s, x, Chain[m]))}
  BY <1>5, IdentifiedCases
<1> QED BY <1>4, <1>6, <1>7

\* What was found in the feed before is found there still.
LEMMA MoveKeepsFound ==
    ASSUME NEW t, NEW u, NEW n, NEW s \in Feeds, MovesTo(t, u, n, s),
           NEW x, Identified(t, s, x) # {}, x.guid # Empty => t[n].item.guid # x.guid
    PROVE  Identified(u, s, x) = Identified(t, s, x)
<1> DEFINE y == t[n].item
<1>1. PICK m \in 1..3 :
          /\ Matching(t, s, x, Chain[m]) # {}
          /\ \A k \in 1..3 : k < m => Matching(t, s, x, Chain[k]) = {}
          /\ Identified(t, s, x) = {First(Matching(t, s, x, Chain[m]))}
  BY IdentifiedCases
<1>2. PICK j : j \in Matching(t, s, x, Chain[m])
  BY <1>1
<1>3. \A c \in {"guid", "link", "hash"} : j \notin Matching(t, s, y, c)
  BY MoveFacts
\* The moved article and x have no key in common that x could be found by.
<1>4. ASSUME NEW k \in 1..3, k <= m PROVE Key(x, Chain[k]) # Empty => Key(y, Chain[k]) # Key(x, Chain[k])
  <2>1. CASE k = 1
    BY <2>1, ChainColumns
  <2>2. CASE k = 2
    <3>1. CASE m = 2
      BY <1>2, <1>3, <2>2, <3>1, MatchesAre, ChainColumns
    \* Found by the content hash, which contains the link.
    <3>2. CASE m = 3
      <4>1. j \notin Matching(t, s, x, "link")
        BY <1>1, <2>2, <3>2, ChainColumns
      <4>2. t[j].item.link = x.link
        BY <1>2, <3>2, MatchesAre, ChainColumns
      <4>3. Key(x, "link") = Empty
        BY <1>2, <3>2, <4>1, <4>2, MatchesAre, ChainColumns
      <4> QED BY <2>2, <4>3, ChainColumns
    <3> QED BY <1>4, <2>2, <3>1, <3>2
  <2>3. CASE k = 3
    BY <1>2, <1>3, <1>4, <2>3, MatchesAre, ChainColumns
  <2> QED BY <2>1, <2>2, <2>3
<1>5. ASSUME NEW k \in 1..3, k <= m PROVE Matching(u, s, x, Chain[k]) = Matching(t, s, x, Chain[k])
  <2>1. n \notin Matching(u, s, x, Chain[k]) /\ n \notin Matching(t, s, x, Chain[k])
    <3>1. t[n].feed # s /\ u[n].item = y
      BY MoveFacts DEF MovesTo
    <3>2. Key(x, Chain[k]) # Empty => Key(y, Chain[k]) # Key(x, Chain[k])
      BY <1>4, <1>5
    <3> QED BY <3>1, <3>2, MatchesAre
  <2>2. ASSUME NEW i, i # n
        PROVE  i \in Matching(u, s, x, Chain[k]) <=> i \in Matching(t, s, x, Chain[k])
    BY <2>2, MatchesAre, MoveFacts
  <2> QED BY <2>1, <2>2
<1>6. Matching(u, s, x, Chain[m]) # {} /\ \A k \in 1..3 : k < m => Matching(u, s, x, Chain[k]) = {}
  BY <1>1, <1>5
<1> QED BY <1>1, <1>5, <1>6, IdentifiedBy

\* The table t of a merge of l into s when the articles up to n are dealt with.
Kept(s, l, t, n) ==
    \A i \in IDs :
        /\ t[i] = NoArticle <=> articles[i] = NoArticle
        /\ articles[i] # NoArticle =>
               /\ t[i].item = articles[i].item
               /\ articles[i].read => t[i].read
               /\ \/ t[i].feed = articles[i].feed
                  \/ articles[i].feed = l /\ t[i].feed = s /\ i <= n

Found(s, t, i) ==
    \E j \in Identified(t, s, articles[i].item) : articles[i].read => t[j].read

MergeInv(s, l, t, n) ==
    /\ t \in Tables
    /\ Kept(s, l, t, n)
    /\ GUIDsUnique(t)
    /\ \A i \in ArticlesOf(articles, l) : i <= n => Found(s, t, i)

LEMMA DuplicateAbsorbed ==
    ASSUME articles \in Tables, NEW s \in Feeds, NEW l \in Feeds, s # l, NEW n \in IDs,
           NEW t, MergeInv(s, l, t, n - 1), n \in ArticlesOf(articles, l),
           Identified(t, s, t[n].item) # {}
    PROVE  MergeInv(s, l, Absorbed(t, n, s), n)
<1> DEFINE u == Absorbed(t, n, s)
<1>1. /\ t \in Tables /\ GUIDsUnique(t) /\ articles[n] # NoArticle /\ n \in Nat
      /\ \A i \in ArticlesOf(articles, l) : i <= n - 1 => Found(s, t, i)
  BY DEF MergeInv, ArticlesOf, IDs
<1>2. \A i \in IDs :
          /\ t[i] = NoArticle <=> articles[i] = NoArticle
          /\ articles[i] # NoArticle =>
                 /\ t[i].item = articles[i].item
                 /\ articles[i].read => t[i].read
                 /\ \/ t[i].feed = articles[i].feed
                    \/ articles[i].feed = l /\ t[i].feed = s /\ i <= n - 1
  BY DEF MergeInv, Kept
<1>3. t[n] # NoArticle /\ t[n].item = articles[n].item /\ (articles[n].read => t[n].read)
  BY <1>1, <1>2
<1>4. PICK k : /\ Identified(t, s, t[n].item) = {k}
               /\ k \in ArticlesOf(t, s)
  BY IdentifiedIsArticle
<1>5. k \in IDs /\ t[k] \in Rows /\ t[k].feed = s /\ t[n] \in Rows
  BY <1>1, <1>3, <1>4 DEF ArticlesOf, Tables
<1>6. \A r \in Rows, b \in BOOLEAN :
          /\ [r EXCEPT !.read = b] \in Rows
          /\ [r EXCEPT !.read = b].read = b
          /\ [r EXCEPT !.read = b].feed = r.feed /\ [r EXCEPT !.read = b].item = r.item
  BY DEF Rows
<1>7. u = [j \in IDs |-> IF j = k THEN [t[k] EXCEPT !.read = t[k].read \/ t[n].read] ELSE t[j]]
  BY <1>4 DEF Absorbed
<1>8. t[k].read \in BOOLEAN /\ t[n].read \in BOOLEAN
  BY <1>5 DEF Rows
<1>9. PICK b \in BOOLEAN : b = (t[k].read \/ t[n].read)
  OBVIOUS
<1>10. u[k] = [t[k] EXCEPT !.read = b] /\ \A j \in IDs : j # k => u[j] = t[j]
  <2> HIDE DEF u
  <2> QED BY <1>5, <1>7, <1>9
<1>11. u[k] \in Rows /\ u[k].feed = t[k].feed /\ u[k].item = t[k].item /\ u[k].read = b
  BY <1>5, <1>6, <1>10
<1>12. (t[k].read => u[k].read) /\ (t[n].read => u[k].read)
  BY <1>9, <1>11
<1> HIDE DEF u
<1>13. u \in Tables
  BY <1>1, <1>7, <1>10, <1>11 DEF Tables
<1>14. NoArticle \notin Rows
  BY ArticlesAssumption
<1>15. \A i \in IDs : /\ t[i] = NoArticle <=> u[i] = NoArticle
                      /\ t[i].feed = u[i].feed /\ t[i].item = u[i].item
  BY <1>5, <1>10, <1>11, <1>14
<1>16. \A i \in IDs : t[i].read => u[i].read
  BY <1>10, <1>12
<1>17. Kept(s, l, u, n)
  <2>1. ASSUME NEW i \in IDs, articles[i] # NoArticle, articles[i].read PROVE u[i].read
    BY <1>2, <1>16, <2>1
  <2>2. ASSUME NEW i \in IDs
        PROVE  /\ u[i] = NoArticle <=> articles[i] = NoArticle
               /\ articles[i] # NoArticle =>
                      /\ u[i].item = articles[i].item
                      /\ \/ u[i].feed = articles[i].feed
                         \/ articles[i].feed = l /\ u[i].feed = s /\ i <= n
    BY <1>1, <1>2, <1>15 DEF IDs
  <2> QED BY <2>1, <2>2 DEF Kept
<1>18. GUIDsUnique(u)
  BY <1>1, <1>15 DEF GUIDsUnique
<1>19. \A x : Identified(u, s, x) = Identified(t, s, x)
  BY <1>15, SameMatches DEF ArticlesOf
<1>20. ASSUME NEW i \in ArticlesOf(articles, l), i <= n PROVE Found(s, u, i)
  <2>1. CASE i = n
    <3>1. k \in Identified(u, s, articles[i].item)
      BY <1>3, <1>4, <1>19, <2>1
    <3>2. articles[i].read => u[k].read
      BY <1>3, <1>12, <2>1
    <3> QED BY <3>1, <3>2 DEF Found
  <2>2. CASE i # n
    <3>1. Found(s, t, i)
      BY <1>1, <1>20, <2>2 DEF ArticlesOf, IDs
    <3>2. PICK j \in Identified(t, s, articles[i].item) : articles[i].read => t[j].read
      BY <3>1 DEF Found
    <3>3. j \in IDs
      BY <3>2, IdentifiedIsArticle DEF ArticlesOf
    <3>4. articles[i].read => u[j].read
      BY <1>16, <3>2, <3>3
    <3> QED BY <1>19, <3>2, <3>4 DEF Found
  <2> QED BY <2>1, <2>2
<1> QED BY <1>13, <1>17, <1>18, <1>20 DEF MergeInv, u

LEMMA OtherMoved ==
    ASSUME articles \in Tables, GUIDsUnique(articles), NEW s \in Feeds, NEW l \in Feeds, s # l,
           NEW n \in IDs, NEW t, MergeInv(s, l, t, n - 1), n \in ArticlesOf(articles, l),
           Identified(t, s, t[n].item) = {}
    PROVE  MergeInv(s, l, Absorbed(t, n, s), n)
<1> DEFINE u == Absorbed(t, n, s)
<1>1. /\ t \in Tables /\ GUIDsUnique(t) /\ n \in Nat
      /\ articles[n] # NoArticle /\ articles[n].feed = l
      /\ \A i \in ArticlesOf(articles, l) : i <= n - 1 => Found(s, t, i)
  BY DEF MergeInv, ArticlesOf, IDs
<1>2. \A i \in IDs :
          /\ t[i] = NoArticle <=> articles[i] = NoArticle
          /\ articles[i] # NoArticle =>
                 /\ t[i].item = articles[i].item
                 /\ articles[i].read => t[i].read
                 /\ \/ t[i].feed = articles[i].feed
                    \/ articles[i].feed = l /\ t[i].feed = s /\ i <= n - 1
  BY DEF MergeInv, Kept
<1>3. t[n] # NoArticle /\ t[n].feed = l /\ t[n].item = articles[n].item
  BY <1>1, <1>2
<1>4. MovesTo(t, u, n, s)
  BY <1>1, <1>3 DEF Absorbed, MovesTo
<1> HIDE DEF u
<1>5. /\ u \in Tables
      /\ \A i \in IDs : /\ i # n => u[i] = t[i]
                        /\ t[i] = NoArticle <=> u[i] = NoArticle
                        /\ u[i].item = t[i].item /\ u[i].read = t[i].read
      /\ u[n].feed = s
      /\ Matching(t, s, t[n].item, "guid") = {}
  BY <1>4, MoveFacts
<1>6. Kept(s, l, u, n)
  <2>1. ASSUME NEW i \in IDs, articles[i] # NoArticle, articles[i].read PROVE u[i].read
    BY <1>2, <1>5, <2>1
  <2>2. ASSUME NEW i \in IDs
        PROVE  /\ u[i] = NoArticle <=> articles[i] = NoArticle
               /\ articles[i] # NoArticle =>
                      /\ u[i].item = articles[i].item
                      /\ \/ u[i].feed = articles[i].feed
                         \/ articles[i].feed = l /\ u[i].feed = s /\ i <= n
    BY <1>1, <1>2, <1>5 DEF IDs
  <2> QED BY <2>1, <2>2 DEF Kept
<1>7. GUIDsUnique(u)
  <2>1. ASSUME NEW i \in IDs, i # n, t[i] # NoArticle, t[i].feed = s,
               t[i].item.guid = t[n].item.guid
        PROVE  t[n].item.guid = Empty
    <3>1. i \notin Matching(t, s, t[n].item, "guid")
      BY <1>5
    <3>2. Key(t[n].item, "guid") = t[n].item.guid /\ Key(t[i].item, "guid") = t[i].item.guid
      BY ChainColumns
    <3> QED BY <2>1, <3>1, <3>2, MatchesAre
  <2>2. ASSUME NEW i \in IDs, NEW j \in IDs, u[i] # NoArticle, u[j] # NoArticle,
               u[i].feed = u[j].feed, u[i].item.guid = u[j].item.guid, u[i].item.guid # Empty
        PROVE  i = j
    <3>1. CASE i # n /\ j # n
      BY <1>1, <1>5, <2>2, <3>1 DEF GUIDsUnique
    <3>2. CASE i = n /\ j # n
      BY <1>5, <2>1, <2>2, <3>2
    <3>3. CASE i # n /\ j = n
      BY <1>5, <2>1, <2>2, <3>3
    <3> QED BY <3>1, <3>2, <3>3
  <2> QED BY <2>2 DEF GUIDsUnique
<1>8. ASSUME NEW i \in ArticlesOf(articles, l), i <= n PROVE Found(s, u, i)
  <2>1. CASE i = n
    <3>1. Identified(u, s, articles[i].item) = {n}
      BY <1>3, <1>4, <2>1, MovedIsFound
    <3>2. articles[i].read => u[n].read
      BY <1>1, <1>2, <1>5, <2>1
    <3> QED BY <3>1, <3>2 DEF Found
  <2>2. CASE i # n
    <3>1. i \in IDs /\ articles[i] # NoArticle /\ articles[i].feed = l
      BY <1>8 DEF ArticlesOf
    <3>2. i <= n - 1
      BY <1>1, <1>8, <2>2, <3>1 DEF IDs
    <3>3. PICK j \in Identified(t, s, articles[i].item) : articles[i].read => t[j].read
      BY <1>1, <1>8, <3>2 DEF Found
    <3>4. articles[i].item.guid # Empty => t[n].item.guid # articles[i].item.guid
      BY <1>1, <1>3, <2>2, <3>1 DEF GUIDsUnique
    <3>5. Identified(u, s, articles[i].item) = Identified(t, s, articles[i].item)
      BY <1>4, <3>3, <3>4, MoveKeepsFound
    <3>6. j \in IDs
      BY <3>3, IdentifiedIsArticle DEF ArticlesOf
    <3>7. articles[i].read => u[j].read
      BY <1>5, <3>3, <3>6
    <3> QED BY <3>3, <3>5, <3>7 DEF Found
  <2> QED BY <2>1, <2>2
<1> QED BY <1>5, <1>6, <1>7, <1>8 DEF MergeInv, u

LEMMA MergedTable ==
    ASSUME articles \in Tables, GUIDsUnique(articles), NEW s \in Feeds, NEW l \in Feeds, s # l
    PROVE  MergeInv(s, l, Merged(s, l), MaxId)
<1> DEFINE Inv(n) == MergeInv(s, l, Merging(s, l)[n], n)
           bad == {n \in Nat : n <= MaxId /\ ~ Inv(n)}
<1>1. MaxId \in Nat
  BY ArticlesAssumption
<1>2. Inv(0)
  <2>1. \A i \in ArticlesOf(articles, l) : ~ (i <= 0)
    BY DEF ArticlesOf, IDs
  <2>2. Kept(s, l, articles, 0)
    BY DEF Kept
  <2>3. MergeInv(s, l, articles, 0)
    BY <2>1, <2>2 DEF MergeInv
  <2> QED BY <2>3, MergingSteps
<1>3. ASSUME NEW n \in IDs, Inv(n - 1) PROVE Inv(n)
  <2> DEFINE t == Merging(s, l)[n - 1]
  <2>1. MergeInv(s, l, t, n - 1) /\ n \in Nat
    BY <1>3 DEF IDs
  <2>2. Merging(s, l)[n] = IF n \in ArticlesOf(articles, l) THEN Absorbed(t, n, s) ELSE t
    BY MergingSteps
  <2> HIDE DEF t
  <2>3. CASE n \in ArticlesOf(articles, l)
    <3>1. MergeInv(s, l, Absorbed(t, n, s), n)
      BY <2>1, <2>3, DuplicateAbsorbed, OtherMoved
    <3> QED BY <2>2, <2>3, <3>1
  <2>4. CASE n \notin ArticlesOf(articles, l)
    <3>1. Kept(s, l, t, n)
      BY <2>1, <2>4 DEF MergeInv, Kept, IDs
    <3>2. \A i \in ArticlesOf(articles, l) : i <= n => i <= n - 1
      BY <2>4 DEF ArticlesOf, IDs
    <3>3. MergeInv(s, l, t, n)
      BY <2>1, <3>1, <3>2 DEF MergeInv
    <3> QED BY <2>2, <2>4, <3>3
  <2> QED BY <2>3, <2>4
<1>4. bad = {}
  <2>1. SUFFICES ASSUME bad # {} PROVE FALSE
    OBVIOUS
  <2>2. PICK n \in bad : \A m \in bad : n <= m
    <3>1. bad \in SUBSET Nat
      OBVIOUS
    <3> HIDE DEF bad
    <3> QED BY <2>1, <3>1, LeastElement
  <2> HIDE DEF Inv
  <2>3. n \in IDs /\ ~ Inv(n) /\ n - 1 \in Nat /\ n - 1 <= MaxId /\ n - 1 \notin bad
    BY <1>1, <1>2, <2>2 DEF IDs
  <2> QED BY <1>3, <2>3
<1>5. Inv(MaxId)
  <2> HIDE DEF Inv
  <2> QED BY <1>1, <1>4
<1> QED BY <1>5 DEF Merged

--------------------------------------------------------------------------------
(* Types, and the constraints of the table                                      *)

Entries == [IDs -> Feeds \cup {NoEntry, OldTitle}]

\* IDs are given out in order.
Fresh == \A i \in IDs : i >= nextId => articles[i] = NoArticle

TableInv == GUIDsUnique(articles) /\ Fresh

Looking == {"guid", "link", "hash", "create", "update"}
Scanning == Looking \cup {"sweep"}

PosInv ==
    /\ step \in Looking => pos <= Len(doc)
    /\ step = "sweep" => pos = Len(doc) + 1

BaseInv == TypeOK /\ TableInv /\ PosInv

LEMMA Typed ==
    ASSUME TypeOK
    PROVE  /\ articles \in Tables /\ existing \in Tables /\ index \in Entries
           /\ nextId \in 1..(MaxId + 1) /\ nextId \in Nat /\ MaxId \in Nat
           /\ step # "idle" => syncing \in Feeds
           /\ doc \in Seq(Items) /\ Len(doc) \in Nat /\ pos \in 1..(Len(doc) + 1) /\ pos \in Nat
           /\ match \in [id : IDs, read : BOOLEAN]
           /\ \A i \in IDs : i \in Nat /\ i <= MaxId
           /\ NoArticle \notin Rows
<1>1. doc \in Seq(Items) /\ MaxId \in Nat /\ NoArticle \notin Rows
  BY ArticlesAssumption DEF TypeOK
<1>2. Len(doc) \in Nat
  BY <1>1
<1> QED BY <1>1, <1>2 DEF TypeOK, Tables, Entries, IDs

LEMMA RowsWritten ==
    ASSUME TypeOK, step # "idle"
    PROVE  /\ pos <= Len(doc) => doc[pos] \in Items /\ Unread(doc[pos]) \in Rows /\ Matched \in Rows
           /\ Matched.item = doc[pos] /\ Matched.feed = syncing /\ Matched.state = "present"
           /\ \A r \in Rows : /\ MarkedDeleted(r) \in Rows
                              /\ MarkedDeleted(r).item = r.item /\ MarkedDeleted(r).feed = r.feed
                              /\ MarkedDeleted(r).state = "deleted"
<1>1. pos <= Len(doc) => doc[pos] \in Items
  BY Typed
<1>2. syncing \in Feeds /\ match.read \in BOOLEAN
  BY Typed
<1>3. ASSUME NEW x \in Items PROVE Unread(x) \in Rows
  BY <1>2, <1>3 DEF Unread, Rows
<1>4. Matched = [feed |-> syncing, item |-> doc[pos], read |-> match.read, state |-> "present"]
  BY DEF Matched, Unread
<1>5. \A r \in Rows : /\ MarkedDeleted(r) \in Rows
                      /\ MarkedDeleted(r).item = r.item /\ MarkedDeleted(r).feed = r.feed
                      /\ MarkedDeleted(r).state = "deleted"
  BY DEF MarkedDeleted, Rows
<1> QED BY <1>1, <1>2, <1>3, <1>4, <1>5 DEF Rows

LEMMA InsertFacts ==
    ASSUME TypeOK, TableInv, nextId <= MaxId, NEW r \in Rows, Insert(r)
    PROVE  /\ articles' \in Tables /\ index' \in Entries /\ nextId' \in 1..(MaxId + 1)
           /\ TableInv'
           /\ nextId \in IDs /\ articles[nextId] = NoArticle
           /\ articles'[nextId] = r /\ \A i \in IDs : i # nextId => articles'[i] = articles[i]
           /\ index'[nextId] = r.feed /\ \A i \in IDs : i # nextId => index'[i] = index[i]
<1>1. nextId \in IDs /\ nextId \in Nat /\ MaxId \in Nat
  BY Typed DEF IDs
<1>2. articles[nextId] = NoArticle
  BY <1>1 DEF TableInv, Fresh
<1>3. articles'[nextId] = r /\ \A i \in IDs : i # nextId => articles'[i] = articles[i]
  BY <1>1, Typed DEF Insert, Tables
<1>4. index'[nextId] = r.feed /\ \A i \in IDs : i # nextId => index'[i] = index[i]
  BY <1>1, Typed DEF Insert, Entries
<1>5. articles' \in Tables
  BY <1>1, Typed DEF Insert, Tables
<1>6. index' \in Entries
  <2>1. r.feed \in Feeds
    BY DEF Rows
  <2> QED BY <1>1, <2>1, Typed DEF Insert, Entries
<1>7. nextId' = nextId + 1 /\ nextId' \in 1..(MaxId + 1)
  BY <1>1, Typed DEF Insert
<1>8. Fresh'
  <2>1. \A i \in IDs : i >= nextId + 1 => i >= nextId /\ i # nextId
    BY <1>1 DEF IDs
  <2> QED BY <1>3, <1>7, <2>1 DEF TableInv, Fresh
<1>9. GUIDsUnique(articles')
  <2>1. ASSUME NEW j \in IDs, j # nextId, articles[j] # NoArticle, articles[j].feed = r.feed,
               articles[j].item.guid = r.item.guid
        PROVE  r.item.guid = Empty
    BY <2>1 DEF Insert, Permitted, ArticlesOf
  <2> QED BY <1>1, <1>3, <2>1 DEF TableInv, GUIDsUnique
<1> QED BY <1>1, <1>2, <1>3, <1>4, <1>5, <1>6, <1>7, <1>8, <1>9 DEF TableInv

LEMMA UpdateFacts ==
    ASSUME TypeOK, TableInv, NEW i \in IDs, NEW r \in Rows, Update(i, r)
    PROVE  /\ articles' \in Tables /\ TableInv'
           /\ articles[i] # NoArticle
           /\ articles'[i] = r /\ \A j \in IDs : j # i => articles'[j] = articles[j]
<1>1. articles'[i] = r /\ \A j \in IDs : j # i => articles'[j] = articles[j]
  BY Typed DEF Update, Tables
<1>2. articles' \in Tables
  BY Typed DEF Update, Tables
<1>3. Fresh'
  BY <1>1 DEF Update, TableInv, Fresh
<1>4. GUIDsUnique(articles')
  <2>1. ASSUME NEW j \in IDs, j # i, articles[j] # NoArticle, articles[j].feed = r.feed,
               articles[j].item.guid = r.item.guid
        PROVE  r.item.guid = Empty
    BY <2>1 DEF Update, Permitted, ArticlesOf
  <2> QED BY <1>1, <2>1 DEF TableInv, GUIDsUnique
<1> QED BY <1>1, <1>2, <1>3, <1>4 DEF Update, TableInv

\* Read marks change, and nothing else.
OnlyMarks ==
    /\ articles' \in Tables
    /\ \A i \in IDs :
           /\ articles[i] = NoArticle <=> articles'[i] = NoArticle
           /\ articles[i] # NoArticle =>
                  /\ articles'[i].feed = articles[i].feed
                  /\ articles'[i].item = articles[i].item
                  /\ articles'[i].state = articles[i].state

LEMMA MarksOnly ==
    ASSUME TypeOK,
           \/ UNCHANGED articles
           \/ \E i \in IDs, read \in BOOLEAN : SetRead(i, read)
           \/ \E f \in Feeds : MarkAllRead(f)
    PROVE  OnlyMarks
<1>1. \A r \in Rows, b \in BOOLEAN :
          /\ [r EXCEPT !.read = b] \in Rows
          /\ [r EXCEPT !.read = b].feed = r.feed /\ [r EXCEPT !.read = b].item = r.item
          /\ [r EXCEPT !.read = b].state = r.state
  BY DEF Rows
<1>2. articles \in Tables /\ NoArticle \notin Rows
  BY Typed
<1>3. CASE UNCHANGED articles
  BY <1>2, <1>3 DEF OnlyMarks
<1>4. ASSUME NEW i \in IDs, NEW read \in BOOLEAN, SetRead(i, read) PROVE OnlyMarks
  <2>1. articles[i] \in Rows
    BY <1>2, <1>4 DEF SetRead, Tables
  <2>2. articles'[i] = [articles[i] EXCEPT !.read = read]
        /\ \A j \in IDs : j # i => articles'[j] = articles[j]
    BY <1>2, <1>4 DEF SetRead, Tables
  <2>3. articles' \in Tables
    BY <1>1, <1>2, <1>4, <2>1 DEF SetRead, Tables
  <2>4. /\ articles'[i] # NoArticle /\ articles'[i].feed = articles[i].feed
        /\ articles'[i].item = articles[i].item /\ articles'[i].state = articles[i].state
    BY <1>1, <1>2, <2>1, <2>2
  <2> QED BY <1>2, <2>1, <2>2, <2>3, <2>4 DEF OnlyMarks
<1>5. ASSUME NEW f \in Feeds, MarkAllRead(f) PROVE OnlyMarks
  <2>1. \A i \in IDs : articles[i] # NoArticle => articles[i] \in Rows
    BY <1>2 DEF Tables
  <2>2. \A i \in IDs : articles'[i] = IF i \in ArticlesOf(articles, f)
                                      THEN [articles[i] EXCEPT !.read = TRUE] ELSE articles[i]
    BY <1>5 DEF MarkAllRead
  <2>3. \A i \in IDs : i \in ArticlesOf(articles, f) => articles[i] # NoArticle
    BY DEF ArticlesOf
  <2>4. articles' \in Tables
    BY <1>1, <1>2, <1>5, <2>1, <2>3 DEF MarkAllRead, Tables
  <2>5. \A i \in ArticlesOf(articles, f) :
            /\ articles'[i] # NoArticle /\ articles'[i].feed = articles[i].feed
            /\ articles'[i].item = articles[i].item /\ articles'[i].state = articles[i].state
    <3> TAKE i \in ArticlesOf(articles, f)
    <3>1. i \in IDs /\ articles[i] \in Rows
      BY <2>1, <2>3 DEF ArticlesOf
    <3>2. articles'[i] = [articles[i] EXCEPT !.read = TRUE]
      BY <2>2, <3>1
    <3> QED BY <1>1, <1>2, <3>1, <3>2
  <2>6. \A i \in IDs : i \notin ArticlesOf(articles, f) => articles'[i] = articles[i]
    BY <2>2
  <2> QED BY <2>3, <2>4, <2>5, <2>6 DEF OnlyMarks
<1> QED BY <1>3, <1>4, <1>5

LEMMA DroppedFacts ==
    ASSUME TypeOK, TableInv, NEW f, NEW table \in Tables, NEW entries \in Entries,
           \A i \in IDs : articles[i] = NoArticle => table[i] = NoArticle,
           GUIDsUnique(table), Dropped(f, table, entries), UNCHANGED nextId
    PROVE  /\ articles' \in Tables /\ index' \in Entries /\ TableInv' /\ live' \subseteq Feeds
           /\ \A i \in IDs : \/ articles'[i] = NoArticle /\ index'[i] = NoEntry
                                /\ table[i] # NoArticle /\ table[i].feed = f
                             \/ /\ articles'[i] = table[i] /\ index'[i] = entries[i]
                                /\ table[i] = NoArticle \/ table[i].feed # f
<1>1. \A i \in IDs : \/ articles'[i] = NoArticle /\ index'[i] = NoEntry
                        /\ table[i] # NoArticle /\ table[i].feed = f
                     \/ /\ articles'[i] = table[i] /\ index'[i] = entries[i]
                        /\ table[i] = NoArticle \/ table[i].feed # f
  BY DEF Dropped, ArticlesOf
<1>2. articles' \in Tables
  BY DEF Dropped, Tables
<1>3. index' \in Entries
  BY DEF Dropped, Entries
<1>4. live' \subseteq Feeds
  BY DEF Dropped, TypeOK
<1>5. Fresh'
  BY <1>1 DEF TableInv, Fresh
<1>6. GUIDsUnique(articles')
  BY <1>1 DEF GUIDsUnique
<1> QED BY <1>1, <1>2, <1>3, <1>4, <1>5, <1>6 DEF TableInv

\* What a merge of l into s leaves, in one step.
LEMMA MergeFacts ==
    ASSUME TypeOK, TableInv, NEW s \in Feeds, NEW l \in Feeds, Merge(s, l), NEW t, t = Merged(s, l)
    PROVE  /\ s # l /\ s \in live /\ l \in live
           /\ MergeInv(s, l, t, MaxId)
           /\ MovedEntries(t, s, l) \in Entries
           /\ Dropped(l, t, MovedEntries(t, s, l))
<1>1. s # l /\ s \in live /\ l \in live /\ Dropped(l, t, MovedEntries(t, s, l))
  BY DEF Merge
<1>2. MergeInv(s, l, t, MaxId)
  BY <1>1, Typed, MergedTable DEF TableInv
<1>3. MovedEntries(t, s, l) \in Entries
  BY Typed DEF MovedEntries, Entries
<1> QED BY <1>1, <1>2, <1>3

LEMMA BaseInductive ==
    ASSUME BaseInv, [Next]_vars
    PROVE  BaseInv'
<1> USE DEF dbVars, syncVars
<1>1. TypeOK /\ TableInv /\ PosInv
  BY DEF BaseInv
<1> DEFINE TableOK == /\ articles' \in Tables /\ index' \in Entries /\ nextId' \in 1..(MaxId + 1)
                      /\ live' \subseteq Feeds /\ TableInv'
           SyncOK == /\ step' \in {"idle", "list", "guid", "link", "hash", "create", "update", "sweep"}
                     /\ step' = "idle" => syncing' = NoFeed
                     /\ step' # "idle" => syncing' \in Feeds
                     /\ doc' \in Docs /\ pos' \in 1..(Len(doc') + 1)
                     /\ existing' \in Tables /\ seen' \subseteq IDs
                     /\ match' \in [id : IDs, read : BOOLEAN]
                     /\ disturbed' \in BOOLEAN
                     /\ PosInv'
<1>2. TableOK /\ SyncOK => BaseInv'
  BY DEF BaseInv, TypeOK, Tables, Entries
<1>3. UNCHANGED <<live, articles, nextId>> /\ index' \in Entries => TableOK
  BY <1>1, Typed DEF TypeOK, TableInv, Fresh
<1>4. UNCHANGED syncVars /\ disturbed' \in BOOLEAN => SyncOK
  BY <1>1, Typed DEF TypeOK, PosInv
<1>5. NoMatch \in [id : IDs, read : BOOLEAN] /\ AnyDoc \in Docs
  BY ArticlesAssumption DEF NoMatch, AnyDoc, IDs
<1>6. \A d \in Docs : Len(d) \in Nat
  BY ArticlesAssumption
<1>7. ASSUME NEW f \in Feeds, Retitled(f) PROVE index' \in Entries
  BY <1>1, <1>7, Typed DEF Retitled, Entries
<1>8. ASSUME Return PROVE SyncOK
  <2>1. [i \in IDs |-> NoArticle] \in Tables
    BY DEF Tables
  <2>2. step' = "idle" /\ doc' \in Docs /\ pos' = 1
    BY <1>5, <1>8 DEF Return
  <2>3. pos' \in 1..(Len(doc') + 1) /\ PosInv'
    BY <1>6, <2>2 DEF PosInv, Looking
  <2> QED BY <1>5, <1>8, <2>1, <2>2, <2>3 DEF Return
<1>9. ASSUME NEW n \in 1..(Len(doc) + 1), ToItem(n), n > Len(doc) => n = Len(doc) + 1,
             step # "idle", existing' \in Tables, seen' \subseteq IDs, UNCHANGED disturbed
      PROVE  SyncOK
  <2>1. step' \in {"guid", "sweep"}
    BY <1>9, ChainColumns DEF ToItem
  <2>2. syncing' \in Feeds /\ doc' = doc /\ doc \in Docs /\ disturbed' \in BOOLEAN
    BY <1>1, <1>9, Typed DEF ToItem, TypeOK
  <2>3. PosInv'
    BY <1>9, <2>1, <2>2, ChainColumns DEF ToItem, PosInv, Looking
  <2> QED BY <1>5, <1>9, <2>1, <2>2, <2>3 DEF ToItem
<1>10. ASSUME NEW f \in Feeds, NEW d \in Docs, SyncMeta(f, d) PROVE BaseInv'
  <2>1. TableOK
    BY <1>3, <1>7, <1>10 DEF SyncMeta
  <2>2. SyncOK
    <3>1. step' = "list" /\ doc' \in Docs /\ pos' = 1
      BY <1>10 DEF SyncMeta
    <3>2. pos' \in 1..(Len(doc') + 1) /\ PosInv'
      BY <1>6, <3>1 DEF PosInv, Looking
    <3> QED BY <1>1, <1>10, <3>1, <3>2, Typed DEF SyncMeta, TypeOK
  <2> QED BY <1>2, <2>1, <2>2
<1>11. CASE SyncList
  <2>1. existing' \in Tables
    BY <1>1, <1>11, Typed DEF SyncList, Tables
  <2>2. SyncOK
    <3>1. Len(doc) \in Nat /\ 1 \in 1..(Len(doc) + 1) /\ (1 > Len(doc) => 1 = Len(doc) + 1)
      BY <1>1, Typed
    <3> QED BY <1>9, <1>11, <2>1, <3>1 DEF SyncList
  <2> QED BY <1>1, <1>2, <1>3, <1>11, <2>2, Typed DEF SyncList
<1>12. CASE SyncLookup
  <2>1. PICK n \in 1..3 :
            /\ step = Chain[n]
            /\ LET found == Matching(articles, syncing, doc[pos], Chain[n])
               IN  \/ /\ found # {}
                      /\ match' = [id |-> First(found), read |-> articles[First(found)].read]
                      /\ step' = "update"
                   \/ /\ found = {}
                      /\ step' = IF n < 3 THEN Chain[n + 1] ELSE "create"
                      /\ UNCHANGED match
            /\ UNCHANGED <<dbVars, syncing, doc, pos, existing, seen, disturbed>>
    BY <1>12 DEF SyncLookup
  <2>2. step \in Looking /\ step # "idle" /\ step' \in Looking
    BY <2>1, ChainColumns DEF Looking
  <2> DEFINE found == Matching(articles, syncing, doc[pos], Chain[n])
  <2>3. ASSUME found # {} PROVE [id |-> First(found), read |-> articles[First(found)].read]
                                  \in [id : IDs, read : BOOLEAN]
    <3>1. First(found) \in found
      BY <2>3, MatchesAre, FirstIs DEF IDs
    <3>2. First(found) \in IDs /\ articles[First(found)] \in Rows
      BY <1>1, <3>1, MatchesAre, Typed DEF Tables
    <3> QED BY <3>2 DEF Rows
  <2>4. match' \in [id : IDs, read : BOOLEAN]
    BY <1>1, <2>1, <2>3, Typed
  <2>5. SyncOK
    BY <1>1, <2>1, <2>2, <2>4, Typed DEF TypeOK, PosInv, Looking
  <2> QED BY <1>1, <1>2, <1>3, <2>1, <2>5, Typed
<1>13. ASSUME step \in {"create", "update"}
       PROVE  /\ step # "idle" /\ pos <= Len(doc)
              /\ pos + 1 \in 1..(Len(doc) + 1) /\ (pos + 1 > Len(doc) => pos + 1 = Len(doc) + 1)
  BY <1>1, <1>13, Typed DEF PosInv, Looking
<1>14. CASE SyncCreate
  <2>1. TableOK
    BY <1>1, <1>13, <1>14, RowsWritten, InsertFacts DEF SyncCreate, TypeOK
  <2>2. SyncOK
    <3>1. existing' \in Tables /\ seen' \subseteq IDs
      BY <1>1, <1>14, Typed DEF SyncCreate, TypeOK
    <3> QED BY <1>9, <1>13, <1>14, <3>1 DEF SyncCreate
  <2> QED BY <1>2, <2>1, <2>2
<1>15. CASE SyncUpdate
  <2>1. match.id \in IDs
    BY <1>1, Typed
  <2>2. TableOK
    BY <1>1, <1>13, <1>15, <2>1, Typed, RowsWritten, UpdateFacts DEF SyncUpdate, Update, TypeOK
  <2>3. SyncOK
    <3>1. existing' \in Tables /\ seen' \subseteq IDs
      BY <1>1, <1>15, <2>1, Typed DEF SyncUpdate, TypeOK
    <3> QED BY <1>9, <1>13, <1>15, <3>1 DEF SyncUpdate
  <2> QED BY <1>2, <2>2, <2>3
<1>16. ASSUME NEW i \in IDs, SyncSweep(i) PROVE BaseInv'
  <2>1. existing[i] \in Rows
    BY <1>1, <1>16, Typed DEF SyncSweep, Unswept, Tables
  <2>2. TableOK
    BY <1>1, <1>16, <2>1, Typed, RowsWritten, UpdateFacts DEF SyncSweep, Update, TypeOK
  <2>3. SyncOK
    BY <1>1, <1>16, Typed DEF SyncSweep, TypeOK, PosInv
  <2> QED BY <1>2, <2>2, <2>3
<1>17. CASE SyncDone \/ SyncFails
  BY <1>1, <1>2, <1>3, <1>8, <1>17, Typed DEF SyncDone, SyncFails
<1>18. CASE \/ \E i \in IDs, read \in BOOLEAN : SetRead(i, read)
            \/ \E f \in Feeds : MarkAllRead(f)
  <2>1. OnlyMarks
    BY <1>1, <1>18, MarksOnly
  <2>2. UNCHANGED <<live, nextId, index, syncVars, disturbed>>
    BY <1>18 DEF SetRead, MarkAllRead
  <2>3. TableInv'
    BY <1>1, <2>1, <2>2 DEF OnlyMarks, TableInv, GUIDsUnique, Fresh
  <2>4. TableOK
    BY <1>1, <2>1, <2>2, <2>3, Typed DEF OnlyMarks, TypeOK
  <2> QED BY <1>1, <1>2, <1>4, <2>2, <2>4 DEF TypeOK
<1>19. ASSUME NEW f \in Feeds, Retitle(f) PROVE BaseInv'
  BY <1>1, <1>2, <1>3, <1>4, <1>7, <1>19 DEF Retitle, TypeOK
<1>20. ASSUME NEW f \in Feeds, DeleteFeed(f) PROVE BaseInv'
  <2>1. TableOK
    BY <1>1, <1>20, Typed, DroppedFacts DEF DeleteFeed, TableInv
  <2>2. disturbed' \in BOOLEAN
    BY <1>20 DEF DeleteFeed, Dropped
  <2> QED BY <1>2, <1>4, <1>20, <2>1, <2>2 DEF DeleteFeed
<1>21. ASSUME NEW s \in Feeds, NEW l \in Feeds, Merge(s, l) PROVE BaseInv'
  <2>1. PICK t : t = Merged(s, l)
    OBVIOUS
  <2>2. MergeInv(s, l, t, MaxId) /\ MovedEntries(t, s, l) \in Entries
        /\ Dropped(l, t, MovedEntries(t, s, l)) /\ UNCHANGED <<nextId, syncVars>>
    BY <1>1, <1>21, <2>1, MergeFacts DEF Merge
  <2>3. TableOK
    BY <1>1, <2>2, Typed, DroppedFacts DEF MergeInv, Kept
  <2>4. disturbed' \in BOOLEAN
    BY <2>2 DEF Dropped
  <2> QED BY <1>2, <1>4, <2>2, <2>3, <2>4
<1>22. CASE UNCHANGED vars
  BY <1>1, <1>2, <1>3, <1>4, <1>22, Typed DEF vars, TypeOK
<1> QED
  BY <1>10, <1>11, <1>12, <1>14, <1>15, <1>16, <1>17, <1>18, <1>19, <1>20, <1>21, <1>22
  DEF Next, Sync, Handlers

LEMMA BaseInitially == Init => BaseInv
<1> SUFFICES ASSUME Init PROVE BaseInv
  OBVIOUS
<1>1. AnyDoc \in Docs /\ Len(AnyDoc) \in Nat
  BY ArticlesAssumption DEF AnyDoc
<1>2. TypeOK
  <2>1. pos \in 1..(Len(doc) + 1) /\ doc \in Docs
    BY <1>1 DEF Init
  <2>2. nextId \in 1..(MaxId + 1) /\ match \in [id : IDs, read : BOOLEAN]
    BY ArticlesAssumption DEF Init, NoMatch, IDs
  <2> QED BY <2>1, <2>2 DEF Init, TypeOK
<1> QED
  BY <1>2 DEF Init, BaseInv, TableInv, GUIDsUnique, Fresh, PosInv, Looking

\* The articles, the search index and what a sync holds between two queries stay
\* in their ranges, and IDs are given out once.
THEOREM TypeCorrect == Spec => []TypeOK
<1>1. Init => BaseInv
  BY BaseInitially
<1>2. BaseInv /\ [Next]_vars => BaseInv'
  BY BaseInductive
<1>3. BaseInv => TypeOK
  BY DEF BaseInv
<1>4. QED
  BY <1>1, <1>2, <1>3, PTL DEF Spec

--------------------------------------------------------------------------------
(* The search index                                                             *)

\* An article that a sync knows of is its feed's, as long as there is that feed:
\* no merge takes an article away from a feed that stays.
Owned(i) == syncing \in live /\ articles[i] # NoArticle => articles[i].feed = syncing

CopiesInv ==
    /\ step \in Scanning =>
           \A i \in IDs : existing[i] # NoArticle =>
               existing[i].feed = syncing /\ Owned(i) /\ i < nextId
    /\ step = "update" => Owned(match.id)

\* Who else writes the table leaves the articles of the feeds that stay in them.
StayHome ==
    /\ live' \subseteq live /\ nextId' = nextId
    /\ \A i \in IDs : articles'[i] # NoArticle =>
           /\ articles[i] # NoArticle
           /\ articles'[i].feed = articles[i].feed \/ articles[i].feed \notin live'

LEMMA MergedEntries ==
    ASSUME TypeOK, TableInv, IndexHasFeedTitle, NEW s \in Feeds, NEW l \in Feeds, Merge(s, l)
    PROVE  IndexHasFeedTitle' /\ StayHome
<1>1. PICK t : t = Merged(s, l)
  OBVIOUS
<1> DEFINE entries == MovedEntries(t, s, l)
<1>2. /\ t \in Tables /\ GUIDsUnique(t) /\ entries \in Entries
      /\ s # l /\ Dropped(l, t, entries) /\ UNCHANGED nextId
      /\ \A i \in IDs :
             /\ t[i] = NoArticle <=> articles[i] = NoArticle
             /\ articles[i] # NoArticle =>
                    \/ t[i].feed = articles[i].feed
                    \/ articles[i].feed = l /\ t[i].feed = s
  BY <1>1, MergeFacts DEF MergeInv, Kept, Merge
<1>3. \A i \in IDs : \/ articles'[i] = NoArticle /\ index'[i] = NoEntry
                        /\ t[i] # NoArticle /\ t[i].feed = l
                     \/ /\ articles'[i] = t[i] /\ index'[i] = entries[i]
                        /\ t[i] = NoArticle \/ t[i].feed # l
  <2>1. /\ t \in Tables /\ GUIDsUnique(t) /\ entries \in Entries
        /\ Dropped(l, t, entries) /\ UNCHANGED nextId
        /\ \A i \in IDs : articles[i] = NoArticle => t[i] = NoArticle
    BY <1>2
  <2> HIDE DEF entries
  <2> QED
    BY <2>1, DroppedFacts
<1>4. \A i \in IDs : entries[i] = IF /\ articles[i] # NoArticle /\ articles[i].feed = l
                                     /\ t[i] # NoArticle /\ t[i].feed = s
                                  THEN s ELSE index[i]
  <2> SUFFICES ASSUME NEW i \in IDs
               PROVE  entries[i] = IF /\ articles[i] # NoArticle /\ articles[i].feed = l
                                      /\ t[i] # NoArticle /\ t[i].feed = s
                                   THEN s ELSE index[i]
    OBVIOUS
  <2>1. entries[i] = IF i \in ArticlesOf(articles, l) \cap ArticlesOf(t, s)
                     THEN s ELSE index[i]
    BY DEF MovedEntries
  <2>2. \A table, f : i \in ArticlesOf(table, f) <=> table[i] # NoArticle /\ table[i].feed = f
    BY DEF ArticlesOf
  <2> HIDE DEF entries
  <2> QED
    BY <2>1, <2>2
<1>5. l \notin live' /\ live' \subseteq live
  BY <1>2 DEF Dropped
<1> HIDE DEF entries
<1>6. ASSUME NEW i \in IDs
      PROVE  index'[i] = IF articles'[i] = NoArticle THEN NoEntry ELSE articles'[i].feed
  BY <1>2, <1>3, <1>4, <1>6 DEF IndexHasFeedTitle
<1>7. StayHome
  BY <1>2, <1>3, <1>5 DEF StayHome
<1> QED BY <1>6, <1>7 DEF IndexHasFeedTitle

LEMMA OwnStays ==
    ASSUME TypeOK, CopiesInv, StayHome, UNCHANGED syncVars
    PROVE  CopiesInv'
<1>1. ASSUME NEW i \in IDs, Owned(i) PROVE Owned(i)'
  BY <1>1 DEF StayHome, Owned, syncVars
<1>2. match \in [id : IDs, read : BOOLEAN] /\ match' = match /\ nextId' = nextId
  BY Typed DEF syncVars, StayHome
<1>3. ASSUME step = "update", NEW i, i = match.id PROVE Owned(i)'
  BY <1>1, <1>2, <1>3 DEF CopiesInv
<1> QED BY <1>1, <1>2, <1>3 DEF CopiesInv, syncVars

LEMMA IndexInductive ==
    ASSUME BaseInv, IndexHasFeedTitle, CopiesInv, [Next]_vars
    PROVE  IndexHasFeedTitle' /\ CopiesInv'
<1> USE DEF dbVars, syncVars
<1>1. TypeOK /\ TableInv /\ PosInv
  BY DEF BaseInv
<1>2. \A f \in Feeds : f # NoEntry /\ f # OldTitle
  BY ArticlesAssumption
<1>3. \A i \in IDs : articles[i] # NoArticle => articles[i].feed \in Feeds
  BY <1>1, Typed DEF Tables, Rows
<1>4. UNCHANGED <<articles, index>> => IndexHasFeedTitle'
  BY DEF IndexHasFeedTitle
<1>5. step' \in {"idle", "list"} => CopiesInv'
  BY DEF CopiesInv, Scanning, Looking
<1>6. UNCHANGED <<live, articles, nextId>> => StayHome
  BY DEF StayHome
\* The titles of a feed's articles are in the index when it is renamed.
<1>7. ASSUME NEW f \in Feeds, Retitled(f), UNCHANGED articles PROVE IndexHasFeedTitle'
  <2>1. \A i \in IDs : index'[i] = IF i \in ArticlesOf(articles, f) THEN f
                                   ELSE IF index[i] = f THEN OldTitle ELSE index[i]
    BY <1>7 DEF Retitled
  <2> QED BY <1>2, <1>7, <2>1 DEF IndexHasFeedTitle, ArticlesOf
<1>8. CASE \E f \in Feeds, d \in Docs : SyncMeta(f, d)
  BY <1>5, <1>7, <1>8 DEF SyncMeta
<1>9. ASSUME NEW n, ToItem(n) PROVE step' \in {"guid", "sweep"} /\ syncing' = syncing
  BY <1>9, ChainColumns DEF ToItem
<1>10. CASE SyncList
  <2>1. step' \in {"guid", "sweep"} /\ UNCHANGED <<live, articles, nextId, index, syncing>>
    BY <1>9, <1>10 DEF SyncList
  <2>2. ASSUME NEW i \in IDs, existing'[i] # NoArticle
        PROVE  existing'[i].feed = syncing /\ articles[i].feed = syncing /\ i < nextId
    <3>1. i \in ArticlesOf(articles, syncing) /\ existing'[i] = articles[i]
      BY <1>10, <2>2 DEF SyncList
    <3>2. i \in Nat /\ nextId \in Nat /\ ~ (i >= nextId)
      BY <1>1, <3>1, Typed DEF ArticlesOf, TableInv, Fresh
    <3> QED BY <3>1, <3>2 DEF ArticlesOf
  <2> QED BY <1>4, <2>1, <2>2 DEF CopiesInv, Owned
<1>11. CASE SyncLookup
  <2>1. PICK n \in 1..3 :
            /\ step = Chain[n]
            /\ LET found == Matching(articles, syncing, doc[pos], Chain[n])
               IN  \/ /\ found # {}
                      /\ match' = [id |-> First(found), read |-> articles[First(found)].read]
                      /\ step' = "update"
                   \/ /\ found = {}
                      /\ step' = IF n < 3 THEN Chain[n + 1] ELSE "create"
                      /\ UNCHANGED match
            /\ UNCHANGED <<dbVars, syncing, doc, pos, existing, seen, disturbed>>
    BY <1>11 DEF SyncLookup
  <2> DEFINE found == Matching(articles, syncing, doc[pos], Chain[n])
  <2>2. step \in Scanning
    BY <2>1, ChainColumns DEF Scanning, Looking
  <2>3. found # {} => First(found) \in IDs /\ articles[First(found)].feed = syncing
    BY MatchesAre, FirstIs DEF IDs
  <2>4. step' = "update" => articles[match'.id].feed = syncing
    BY <2>1, <2>3, ChainColumns
  <2> QED BY <1>4, <2>1, <2>2, <2>4 DEF CopiesInv, Owned
<1>12. CASE SyncCreate
  <2>1. /\ step = "create" /\ step # "idle" /\ pos <= Len(doc) /\ Unread(doc[pos]) \in Rows
        /\ Unread(doc[pos]).feed = syncing
    BY <1>1, <1>12, RowsWritten DEF SyncCreate, PosInv, Looking, Unread
  <2>2. /\ articles'[nextId] = Unread(doc[pos]) /\ articles[nextId] = NoArticle /\ nextId \in IDs
        /\ \A i \in IDs : i # nextId => articles'[i] = articles[i]
        /\ index'[nextId] = syncing /\ \A i \in IDs : i # nextId => index'[i] = index[i]
        /\ nextId' \in Nat /\ nextId' = nextId + 1 /\ nextId \in Nat
    <3>1. Insert(Unread(doc[pos])) /\ nextId <= MaxId
      BY <1>12 DEF SyncCreate
    <3>2. nextId' = nextId + 1 /\ nextId \in Nat /\ nextId' \in Nat
      BY <1>1, <3>1, Typed DEF Insert
    <3> QED BY <1>1, <2>1, <3>1, <3>2, InsertFacts
  <2>3. IndexHasFeedTitle'
    BY <1>1, <2>1, <2>2, Typed DEF IndexHasFeedTitle
  <2>4. UNCHANGED <<live, existing>> /\ step' \in {"guid", "sweep"} /\ syncing' = syncing
    BY <1>9, <1>12 DEF SyncCreate
  <2>5. ASSUME NEW i \in IDs, existing[i] # NoArticle
        PROVE  existing[i].feed = syncing /\ Owned(i)' /\ i < nextId'
    BY <1>1, <2>1, <2>2, <2>4, <2>5, Typed DEF CopiesInv, Owned, Scanning, Looking
  <2> QED BY <2>3, <2>4, <2>5 DEF CopiesInv
\* What a sync writes for an article it knows of is a row of its feed.
<1>13. ASSUME NEW k \in IDs, NEW r \in Rows, Update(k, r), r.feed = syncing, Owned(k),
              step \in Scanning, UNCHANGED <<live, existing>>, syncing' = syncing,
              step' \in {"guid", "sweep"}
       PROVE  IndexHasFeedTitle' /\ CopiesInv'
  <2>1. /\ articles'[k] = r /\ articles[k] # NoArticle
        /\ \A j \in IDs : j # k => articles'[j] = articles[j]
        /\ UNCHANGED <<nextId, index>> /\ syncing \in live
    BY <1>1, <1>13, UpdateFacts DEF Update, Permitted
  <2>2. IndexHasFeedTitle'
    BY <1>1, <1>13, <2>1, Typed DEF IndexHasFeedTitle, Owned
  <2>3. ASSUME NEW i \in IDs, existing[i] # NoArticle
        PROVE  existing[i].feed = syncing /\ Owned(i)' /\ i < nextId'
    BY <1>13, <2>1, <2>3 DEF CopiesInv, Owned
  <2> QED BY <1>13, <2>2, <2>3 DEF CopiesInv
<1>14. CASE SyncUpdate
  <2>1. step = "update" /\ step # "idle" /\ pos <= Len(doc) /\ match.id \in IDs
    BY <1>1, <1>14, Typed DEF SyncUpdate, PosInv, Looking
  <2>2. Matched \in Rows /\ Matched.feed = syncing /\ Owned(match.id)
    BY <1>1, <2>1, RowsWritten DEF CopiesInv
  <2> QED BY <1>9, <1>13, <1>14, <2>1, <2>2 DEF SyncUpdate, Scanning, Looking
<1>15. ASSUME NEW i \in IDs, SyncSweep(i) PROVE IndexHasFeedTitle' /\ CopiesInv'
  <2>1. step = "sweep" /\ existing[i] # NoArticle /\ existing[i] \in Rows
    BY <1>1, <1>15, Typed DEF SyncSweep, Unswept, Tables
  <2>2. /\ MarkedDeleted(existing[i]) \in Rows /\ MarkedDeleted(existing[i]).feed = syncing
        /\ Owned(i)
    BY <1>1, <2>1, RowsWritten DEF CopiesInv, Scanning
  <2> QED BY <1>13, <1>15, <2>1, <2>2 DEF SyncSweep, Scanning
<1>16. CASE SyncDone \/ SyncFails
  BY <1>4, <1>5, <1>16 DEF SyncDone, SyncFails, Return
<1>17. CASE \/ \E i \in IDs, read \in BOOLEAN : SetRead(i, read)
            \/ \E f \in Feeds : MarkAllRead(f)
  <2>1. OnlyMarks /\ UNCHANGED <<live, nextId, index, syncVars>>
    BY <1>1, <1>17, MarksOnly DEF SetRead, MarkAllRead
  <2> QED BY <1>1, <2>1, OwnStays DEF OnlyMarks, StayHome, IndexHasFeedTitle
<1>18. CASE \E f \in Feeds : Retitle(f)
  BY <1>1, <1>6, <1>7, <1>18, OwnStays DEF Retitle
<1>19. ASSUME NEW f \in Feeds, DeleteFeed(f) PROVE IndexHasFeedTitle' /\ CopiesInv'
  <2>1. \A i \in IDs : \/ articles'[i] = NoArticle /\ index'[i] = NoEntry
                       \/ articles'[i] = articles[i] /\ index'[i] = index[i]
    <3>1. Dropped(f, articles, index) /\ nextId' = nextId /\ GUIDsUnique(articles)
      BY <1>1, <1>19 DEF DeleteFeed, TableInv
    <3> QED BY <3>1 DEF Dropped
  <2>2. live' \subseteq live /\ UNCHANGED <<nextId, syncVars>>
    BY <1>19 DEF DeleteFeed, Dropped
  <2>3. StayHome
    BY <2>1, <2>2 DEF StayHome
  <2> QED BY <1>1, <2>1, <2>2, <2>3, OwnStays DEF IndexHasFeedTitle
<1>20. CASE \E s, l \in Feeds : Merge(s, l)
  BY <1>1, <1>20, MergedEntries, OwnStays DEF Merge
<1>21. CASE UNCHANGED vars
  BY <1>1, <1>4, <1>6, <1>21, OwnStays DEF vars
<1> QED
  BY <1>8, <1>10, <1>11, <1>12, <1>14, <1>15, <1>16, <1>17, <1>18, <1>19, <1>20, <1>21
  DEF Next, Sync, Handlers

\* A search by feed name finds the articles of the feed that has the name now,
\* although the index has a copy of it (0002_fts.sql): through renames, merges in
\* the middle of a sync and the sync's own writes.
THEOREM IndexFollows == Spec => []IndexHasFeedTitle
<1>1. Init => BaseInv /\ IndexHasFeedTitle /\ CopiesInv
  BY BaseInitially DEF Init, IndexHasFeedTitle, CopiesInv, Scanning, Looking
<1>2. BaseInv /\ IndexHasFeedTitle /\ CopiesInv /\ [Next]_vars
      => BaseInv' /\ IndexHasFeedTitle' /\ CopiesInv'
  BY BaseInductive, IndexInductive
<1>3. QED
  BY <1>1, <1>2, PTL DEF Spec

--------------------------------------------------------------------------------
(* A sync between two queries, when no merge or delete has come between         *)

\* What the lookups of the item under way have found, or not found.
MatchInv ==
    /\ step \in {"link", "hash", "create"} =>
           Matching(articles, syncing, doc[pos], "guid") = {}
    /\ step = "update" =>
           /\ match.id \in ArticlesOf(articles, syncing)
           /\ \E n \in 1..3 : match.id \in Matching(articles, syncing, doc[pos], Chain[n])
           /\ \/ Matching(articles, syncing, doc[pos], "guid") = {}
              \/ match.id \in Matching(articles, syncing, doc[pos], "guid")

\* The snapshot is true of the articles that have not been dealt with.
SnapshotInv ==
    \A i \in IDs \ seen : existing[i] # NoArticle =>
        /\ i \in ArticlesOf(articles, syncing)
        /\ articles[i].item = existing[i].item /\ articles[i].state = existing[i].state

\* The others are those of the items up to here, or deleted.
FromDoc ==
    \A i \in ArticlesOf(articles, syncing) :
        \/ existing[i] # NoArticle /\ i \notin seen
        \/ articles[i].state = "deleted"
        \/ \E n \in 1..(pos - 1) : articles[i].item = doc[n]

\* An item is there, and the sweep will leave it alone.
Safe(n) ==
    \E i \in ArticlesOf(articles, syncing) :
        /\ articles[i].item = doc[n] /\ articles[i].state = "present"
        /\ i \in seen \/ existing[i] = NoArticle

FromTable ==
    \A n \in 1..(pos - 1) :
        \/ \E m \in (n + 1)..Len(doc) : Share(doc[n], doc[m])
        \/ Safe(n)

ScanInv == SnapshotInv /\ FromDoc /\ FromTable

UndisturbedInv ==
    ~disturbed =>
        /\ step # "idle" => syncing \in live
        /\ MatchInv
        /\ step \in Scanning => ScanInv

\* The item under way is written into article k, new or identified with it.
LEMMA ItemWritten ==
    ASSUME BaseInv, ScanInv, step \in {"create", "update"},
           NEW k \in IDs, articles'[k] # NoArticle, articles'[k].feed = syncing,
           articles'[k].item = doc[pos], articles'[k].state = "present",
           \A i \in IDs : i # k => articles'[i] = articles[i],
           articles[k] # NoArticle => Share(articles[k].item, doc[pos]),
           seen' \subseteq seen \cup {k}, seen \subseteq seen', k \in seen' \/ existing[k] = NoArticle,
           pos' = pos + 1, UNCHANGED <<syncing, doc, existing>>
    PROVE  ScanInv'
<1>1. pos \in Nat /\ pos \in 1..Len(doc) /\ Len(doc) \in Nat /\ pos' - 1 = pos
  BY Typed DEF BaseInv, PosInv, Looking
<1>2. \A i \in IDs : i # k =>
          (i \in ArticlesOf(articles, syncing) <=> i \in ArticlesOf(articles', syncing))
  BY DEF ArticlesOf
<1>3. k \in ArticlesOf(articles', syncing) /\ ArticlesOf(articles', syncing) \subseteq IDs
  BY DEF ArticlesOf
<1>4. SnapshotInv'
  <2>1. ASSUME NEW i \in IDs \ seen', existing[i] # NoArticle
        PROVE  /\ i \in ArticlesOf(articles', syncing)
               /\ articles'[i].item = existing[i].item /\ articles'[i].state = existing[i].state
    BY <1>2, <2>1 DEF ScanInv, SnapshotInv
  <2> QED BY <2>1 DEF SnapshotInv
<1>5. FromDoc'
  <2>1. ASSUME NEW i \in ArticlesOf(articles', syncing)
        PROVE  \/ existing[i] # NoArticle /\ i \notin seen'
               \/ articles'[i].state = "deleted"
               \/ \E n \in 1..(pos' - 1) : articles'[i].item = doc[n]
    <3>1. CASE i = k
      BY <1>1, <3>1
    <3>2. CASE i # k
      <4>1. /\ i \in ArticlesOf(articles, syncing) /\ articles'[i] = articles[i]
            /\ i \in seen' => i \in seen
        BY <1>2, <1>3, <2>1, <3>2
      <4>2. \A n \in 1..(pos - 1) : n \in 1..(pos' - 1)
        BY <1>1
      <4> QED BY <4>1, <4>2 DEF ScanInv, FromDoc
    <3> QED BY <3>1, <3>2
  <2>2. \A i \in ArticlesOf(articles', syncing') :
            \/ existing'[i] # NoArticle /\ i \notin seen'
            \/ articles'[i].state = "deleted"
            \/ \E n \in 1..(pos' - 1) : articles'[i].item = doc'[n]
    BY <2>1
  <2> QED BY <2>2 DEF FromDoc
<1>6. FromTable'
  <2>1. ASSUME NEW n \in 1..(pos' - 1), ~ \E m \in (n + 1)..Len(doc) : Share(doc[n], doc[m])
        PROVE  \E i \in ArticlesOf(articles', syncing) :
                   /\ articles'[i].item = doc[n] /\ articles'[i].state = "present"
                   /\ i \in seen' \/ existing[i] = NoArticle
    <3>1. CASE n = pos
      BY <1>3, <3>1
    <3>2. CASE n # pos
      <4>1. n \in 1..(pos - 1) /\ pos \in (n + 1)..Len(doc)
        BY <1>1, <2>1, <3>2
      <4>2. Safe(n) /\ ~ Share(doc[n], doc[pos])
        BY <2>1, <4>1 DEF ScanInv, FromTable
      <4>3. PICK i \in ArticlesOf(articles, syncing) :
                /\ articles[i].item = doc[n] /\ articles[i].state = "present"
                /\ i \in seen \/ existing[i] = NoArticle
        BY <4>2 DEF Safe
      <4>4. i # k /\ i \in IDs
        BY <4>2, <4>3 DEF ArticlesOf
      <4> QED BY <1>2, <4>3, <4>4
    <3> QED BY <3>1, <3>2
  <2>2. \A n \in 1..(pos' - 1) :
            \/ \E m \in (n + 1)..Len(doc') : Share(doc'[n], doc'[m])
            \/ \E i \in ArticlesOf(articles', syncing') :
                   /\ articles'[i].item = doc'[n] /\ articles'[i].state = "present"
                   /\ i \in seen' \/ existing'[i] = NoArticle
    BY <2>1
  <2> QED BY <2>2 DEF FromTable, Safe
<1> QED BY <1>4, <1>5, <1>6 DEF ScanInv

\* Read marks are no part of all this.
LEMMA MarksDisturbNothing ==
    ASSUME UndisturbedInv, OnlyMarks, UNCHANGED <<live, syncVars, disturbed>>
    PROVE  UndisturbedInv'
<1> USE DEF syncVars
<1>1. ASSUME NEW f
      PROVE  /\ ArticlesOf(articles, f) = ArticlesOf(articles', f)
             /\ \A x, c : Matching(articles, f, x, c) = Matching(articles', f, x, c)
  <2>1. \A i \in IDs : /\ i \in ArticlesOf(articles, f) <=> i \in ArticlesOf(articles', f)
                       /\ i \in ArticlesOf(articles, f) => articles[i].item = articles'[i].item
    BY DEF OnlyMarks, ArticlesOf
  <2> QED BY <2>1, SameMatches
<1>2. \A i \in ArticlesOf(articles, syncing) :
          articles'[i].item = articles[i].item /\ articles'[i].state = articles[i].state
  BY DEF OnlyMarks, ArticlesOf
<1>3. MatchInv => MatchInv'
  BY <1>1 DEF MatchInv
<1>4. ScanInv => ScanInv'
  <2>1. SnapshotInv => SnapshotInv'
    BY <1>1, <1>2 DEF SnapshotInv
  <2>2. FromDoc => FromDoc'
    BY <1>1, <1>2 DEF FromDoc
  <2>3. FromTable => FromTable'
    <3>1. \A n : Safe(n) => \E i \in ArticlesOf(articles', syncing) :
                   /\ articles'[i].item = doc[n] /\ articles'[i].state = "present"
                   /\ i \in seen \/ existing[i] = NoArticle
      BY <1>1, <1>2 DEF Safe
    <3> QED BY <3>1 DEF FromTable, Safe
  <2> QED BY <2>1, <2>2, <2>3 DEF ScanInv
<1> QED BY <1>3, <1>4 DEF UndisturbedInv

LEMMA UndisturbedInductive ==
    ASSUME BaseInv, CopiesInv, UndisturbedInv, [Next]_vars
    PROVE  UndisturbedInv'
<1> USE DEF dbVars, syncVars
<1>1. TypeOK /\ TableInv /\ PosInv
  BY DEF BaseInv
<1>2. step' = "idle" \/ disturbed' => UndisturbedInv'
  BY DEF UndisturbedInv, MatchInv, Scanning, Looking
<1>3. SUFFICES ASSUME ~disturbed', step' # "idle" PROVE UndisturbedInv'
  BY <1>2
<1>4. CASE \E f \in Feeds, d \in Docs : SyncMeta(f, d)
  BY <1>4 DEF SyncMeta, UndisturbedInv, MatchInv, Scanning, Looking
\* After any step but the first and those that disturb.
<1>5. ASSUME UNCHANGED <<disturbed, live, syncing>>, step # "idle",
             MatchInv', UndisturbedInv /\ ~disturbed => (step' \in Scanning => ScanInv')
      PROVE  UndisturbedInv'
  BY <1>3, <1>5 DEF UndisturbedInv
<1>6. ASSUME NEW n, ToItem(n)
      PROVE  /\ step' \in {"guid", "sweep"} /\ pos' = n /\ UNCHANGED <<syncing, doc>>
             /\ MatchInv'
  BY <1>6, ChainColumns DEF ToItem, MatchInv
<1>7. CASE SyncList
  <2>1. /\ step = "list" /\ seen' = {} /\ pos' = 1 /\ MatchInv' /\ UNCHANGED <<syncing, doc>>
        /\ UNCHANGED <<articles, live, disturbed>>
        /\ existing' = [i \in IDs |-> IF i \in ArticlesOf(articles, syncing)
                                      THEN articles[i] ELSE NoArticle]
    BY <1>6, <1>7 DEF SyncList
  <2>2. SnapshotInv' /\ FromDoc'
    BY <2>1 DEF SnapshotInv, FromDoc, ArticlesOf
  <2>3. FromTable'
    BY <2>1 DEF FromTable
  <2> QED BY <1>5, <2>1, <2>2, <2>3 DEF ScanInv
<1>8. CASE SyncLookup
  <2>1. PICK n \in 1..3 :
            /\ step = Chain[n]
            /\ LET found == Matching(articles, syncing, doc[pos], Chain[n])
               IN  \/ /\ found # {}
                      /\ match' = [id |-> First(found), read |-> articles[First(found)].read]
                      /\ step' = "update"
                   \/ /\ found = {}
                      /\ step' = IF n < 3 THEN Chain[n + 1] ELSE "create"
                      /\ UNCHANGED match
            /\ UNCHANGED <<dbVars, syncing, doc, pos, existing, seen, disturbed>>
    BY <1>8 DEF SyncLookup
  <2> DEFINE found == Matching(articles, syncing, doc[pos], Chain[n])
  <2>2. step \in Scanning /\ step # "idle" /\ n \in {1, 2, 3}
    BY <2>1, ChainColumns DEF Scanning, Looking
  <2>3. ASSUME ~disturbed PROVE MatchInv'
    <3>1. n # 1 => Matching(articles, syncing, doc[pos], "guid") = {}
      BY <1>3, <2>1, <2>2, <2>3, ChainColumns DEF UndisturbedInv, MatchInv
    <3>2. CASE found # {} /\ step' = "update" /\ match'.id = First(found)
      <4>1. First(found) \in found
        BY <3>2, MatchesAre, FirstIs DEF IDs
      <4>2. First(found) \in ArticlesOf(articles, syncing)
        BY <4>1, MatchesAre DEF ArticlesOf
      <4>3. n = 1 => First(found) \in Matching(articles, syncing, doc[pos], "guid")
        BY <4>1, ChainColumns
      <4> QED BY <2>1, <3>1, <3>2, <4>1, <4>2, <4>3 DEF MatchInv
    <3>3. CASE found = {} /\ step' \in {"link", "hash", "create"}
      <4>1. Matching(articles, syncing, doc[pos], "guid") = {}
        BY <2>2, <3>1, <3>3, ChainColumns
      <4> QED BY <2>1, <3>3, <4>1 DEF MatchInv
    <3> QED BY <2>1, <2>2, <3>2, <3>3, ChainColumns
  <2>4. ASSUME ScanInv PROVE ScanInv'
    BY <2>1, <2>4 DEF ScanInv, SnapshotInv, FromDoc, FromTable, Safe
  <2> QED BY <1>3, <1>5, <2>1, <2>2, <2>3, <2>4 DEF UndisturbedInv
<1>9. CASE SyncCreate
  <2>1. /\ step = "create" /\ step # "idle" /\ pos <= Len(doc) /\ nextId <= MaxId
        /\ Insert(Unread(doc[pos])) /\ UNCHANGED <<live, existing, seen, disturbed>>
        /\ pos' = pos + 1 /\ UNCHANGED <<syncing, doc>> /\ MatchInv'
    BY <1>1, <1>6, <1>9 DEF SyncCreate, PosInv, Looking
  <2>2. /\ Unread(doc[pos]) \in Rows /\ NoArticle \notin Rows
        /\ Unread(doc[pos]).feed = syncing /\ Unread(doc[pos]).item = doc[pos]
        /\ Unread(doc[pos]).state = "present"
    BY <1>1, <2>1, RowsWritten, Typed DEF Unread
  <2>3. /\ nextId \in IDs /\ articles[nextId] = NoArticle /\ articles'[nextId] = Unread(doc[pos])
        /\ \A i \in IDs : i # nextId => articles'[i] = articles[i]
    BY <1>1, <2>1, <2>2, InsertFacts
  <2>4. existing[nextId] = NoArticle
    <3>1. ~ (nextId < nextId)
      BY <1>1, Typed
    <3> QED BY <2>1, <2>3, <3>1 DEF CopiesInv, Scanning, Looking
  <2>5. ScanInv => ScanInv'
    BY <2>1, <2>2, <2>3, <2>4, ItemWritten
  <2> QED BY <1>5, <2>1, <2>5 DEF UndisturbedInv, Scanning, Looking
<1>10. CASE SyncUpdate
  <2>1. /\ step = "update" /\ step # "idle" /\ pos <= Len(doc) /\ match.id \in IDs
        /\ Update(match.id, Matched) /\ seen' = seen \cup {match.id}
        /\ UNCHANGED <<live, existing, disturbed>>
        /\ pos' = pos + 1 /\ UNCHANGED <<syncing, doc>> /\ MatchInv'
    BY <1>1, <1>6, <1>10, Typed DEF SyncUpdate, PosInv, Looking
  <2>2. /\ Matched \in Rows /\ NoArticle \notin Rows /\ Matched.feed = syncing
        /\ Matched.item = doc[pos] /\ Matched.state = "present"
    BY <1>1, <2>1, RowsWritten, Typed
  <2>3. /\ articles'[match.id] = Matched
        /\ \A i \in IDs : i # match.id => articles'[i] = articles[i]
    BY <1>1, <2>1, <2>2, UpdateFacts
  <2>4. ASSUME ~disturbed PROVE Share(articles[match.id].item, doc[pos])
    <3>1. \E n \in 1..3 : match.id \in Matching(articles, syncing, doc[pos], Chain[n])
      BY <2>1, <2>4 DEF UndisturbedInv, MatchInv
    <3> QED BY <3>1, MatchesAre DEF Share
  <2>5. ASSUME ~disturbed, ScanInv PROVE ScanInv'
    <3>1. match.id \in seen' /\ seen' \subseteq seen \cup {match.id} /\ seen \subseteq seen'
      BY <2>1
    <3> QED BY <2>1, <2>2, <2>3, <2>4, <2>5, <3>1, ItemWritten
  <2> QED BY <1>5, <2>1, <2>5 DEF UndisturbedInv, Scanning, Looking
<1>11. ASSUME NEW k \in IDs, SyncSweep(k) PROVE UndisturbedInv'
  <2>1. /\ step = "sweep" /\ step' = "sweep" /\ k \notin seen /\ existing[k] \in Rows
        /\ existing[k] # NoArticle
        /\ Update(k, MarkedDeleted(existing[k])) /\ seen' = seen \cup {k}
        /\ UNCHANGED <<live, existing, disturbed, syncing, doc, pos, match>>
    BY <1>1, <1>11, Typed DEF SyncSweep, Unswept, Tables
  <2> DEFINE r == MarkedDeleted(existing[k])
  <2>2. r \in Rows /\ NoArticle \notin Rows /\ r.feed = syncing /\ r.state = "deleted"
    BY <1>1, <2>1, RowsWritten, Typed DEF CopiesInv, Scanning
  <2>3. articles'[k] = r /\ \A i \in IDs : i # k => articles'[i] = articles[i]
    BY <1>1, <2>1, <2>2, UpdateFacts
  <2> HIDE DEF r
  <2>4. \A i \in IDs : i # k =>
            (i \in ArticlesOf(articles, syncing) <=> i \in ArticlesOf(articles', syncing))
    BY <2>3 DEF ArticlesOf
  <2>5. ArticlesOf(articles', syncing) \subseteq IDs /\ ArticlesOf(articles, syncing) \subseteq IDs
    BY DEF ArticlesOf
  <2>6. ASSUME SnapshotInv PROVE SnapshotInv'
    BY <2>1, <2>3, <2>4, <2>6 DEF SnapshotInv
  <2>7. ASSUME FromDoc PROVE FromDoc'
    BY <2>1, <2>2, <2>3, <2>4, <2>5, <2>7 DEF FromDoc
  <2>8. ASSUME FromTable PROVE FromTable'
    <3>1. ASSUME NEW n, Safe(n)
          PROVE  \E i \in ArticlesOf(articles', syncing) :
                     /\ articles'[i].item = doc[n] /\ articles'[i].state = "present"
                     /\ i \in seen' \/ existing[i] = NoArticle
      <4>1. PICK i \in ArticlesOf(articles, syncing) :
                /\ articles[i].item = doc[n] /\ articles[i].state = "present"
                /\ i \in seen \/ existing[i] = NoArticle
        BY <3>1 DEF Safe
      <4> QED BY <2>1, <2>3, <2>4, <2>5, <4>1
    <3> QED BY <2>1, <2>8, <3>1 DEF FromTable, Safe
  <2>9. MatchInv'
    BY <2>1 DEF MatchInv
  <2> QED BY <1>5, <2>1, <2>6, <2>7, <2>8, <2>9 DEF UndisturbedInv, ScanInv, Scanning
<1>12. CASE SyncDone \/ SyncFails
  BY <1>3, <1>12 DEF SyncDone, SyncFails, Return
<1>13. CASE \/ \E i \in IDs, read \in BOOLEAN : SetRead(i, read)
            \/ \E f \in Feeds : MarkAllRead(f) \/ Retitle(f)
            \/ UNCHANGED vars
  <2>1. OnlyMarks /\ UNCHANGED <<live, syncVars, disturbed>>
    BY <1>1, <1>13, MarksOnly DEF SetRead, MarkAllRead, Retitle, vars
  <2> QED BY <2>1, MarksDisturbNothing
\* A delete or a merge under a sync leaves nothing to show.
<1>14. CASE (\E f \in Feeds : DeleteFeed(f)) \/ (\E s, l \in Feeds : Merge(s, l))
  BY <1>3, <1>14 DEF DeleteFeed, Merge, Dropped
<1> QED
  BY <1>4, <1>7, <1>8, <1>9, <1>10, <1>11, <1>12, <1>13, <1>14 DEF Next, Sync, Handlers
LEMMA UndisturbedInitially == Init => UndisturbedInv
  BY DEF Init, UndisturbedInv, MatchInv, Scanning, Looking

LEMMA WritesPermitted ==
    ASSUME BaseInv, CopiesInv, UndisturbedInv
    PROVE  SyncNeverConflicts
<1>1. TypeOK /\ GUIDsUnique(articles)
  BY DEF BaseInv, TableInv
<1> SUFFICES ASSUME ~disturbed
             PROVE  /\ step = "create" => Permitted(nextId, Unread(doc[pos]))
                    /\ step = "update" => Permitted(match.id, Matched)
                    /\ step = "sweep" => \A i \in Unswept : Permitted(i, existing[i])
  BY DEF SyncNeverConflicts
<1>2. (step # "idle" => syncing \in live) /\ MatchInv /\ (step \in Scanning => ScanInv)
  BY DEF UndisturbedInv
<1>3. ASSUME NEW j \in ArticlesOf(articles, syncing), doc[pos].guid # Empty,
             articles[j].item.guid = doc[pos].guid
      PROVE  j \in Matching(articles, syncing, doc[pos], "guid")
  BY <1>3, MatchesAre, ChainColumns DEF ArticlesOf
<1>4. ASSUME step = "create" PROVE Permitted(nextId, Unread(doc[pos]))
  <2>1. Unread(doc[pos]).feed = syncing /\ Unread(doc[pos]).item = doc[pos]
    BY DEF Unread
  <2>2. Matching(articles, syncing, doc[pos], "guid") = {}
    BY <1>2, <1>4 DEF MatchInv
  <2> QED BY <1>2, <1>3, <1>4, <2>1, <2>2 DEF Permitted
<1>5. ASSUME step = "update" PROVE Permitted(match.id, Matched)
  <2>1. Matched.feed = syncing /\ Matched.item = doc[pos]
    BY <1>1, <1>5, RowsWritten
  <2>2. \/ Matching(articles, syncing, doc[pos], "guid") = {}
        \/ match.id \in Matching(articles, syncing, doc[pos], "guid")
    BY <1>2, <1>5 DEF MatchInv
  \* No two articles of the feed have the item's GUID.
  <2>3. ASSUME NEW j \in ArticlesOf(articles, syncing), doc[pos].guid # Empty,
               articles[j].item.guid = doc[pos].guid
        PROVE  j = match.id
    <3>1. match.id \in Matching(articles, syncing, doc[pos], "guid")
      BY <1>3, <2>2, <2>3
    <3>2. /\ match.id \in IDs /\ articles[match.id] # NoArticle
          /\ articles[match.id].feed = syncing /\ articles[match.id].item.guid = doc[pos].guid
      BY <3>1, MatchesAre, ChainColumns
    <3> QED BY <1>1, <2>3, <3>2 DEF GUIDsUnique, ArticlesOf
  <2> QED BY <1>2, <1>5, <2>1, <2>3 DEF Permitted
<1>6. ASSUME step = "sweep", NEW i \in Unswept PROVE Permitted(i, existing[i])
  <2>1. i \in IDs \ seen /\ existing[i] # NoArticle
    BY DEF Unswept
  <2>2. existing[i].feed = syncing /\ i \in ArticlesOf(articles, syncing)
        /\ articles[i].item = existing[i].item
    BY <1>2, <1>6, <2>1 DEF CopiesInv, ScanInv, SnapshotInv, Scanning
  <2> QED BY <1>1, <1>2, <1>6, <2>2 DEF Permitted, GUIDsUnique, ArticlesOf
<1> QED BY <1>4, <1>5, <1>6

LEMMA SweepEnds ==
    ASSUME BaseInv, UndisturbedInv
    PROVE  SyncReflectsDocument
<1> SUFFICES ASSUME step = "sweep", Unswept = {}, ~disturbed
             PROVE  /\ \A i \in ArticlesOf(articles, syncing) : articles[i].state = "present" =>
                           \E n \in 1..Len(doc) : articles[i].item = doc[n]
                    /\ \A n \in 1..Len(doc) :
                           \/ \E m \in (n + 1)..Len(doc) : Share(doc[n], doc[m])
                           \/ Safe(n)
  BY DEF SyncReflectsDocument, Safe
<1>1. pos - 1 = Len(doc)
  BY Typed DEF BaseInv, PosInv
<1>2. SnapshotInv /\ FromDoc /\ FromTable
  BY DEF UndisturbedInv, ScanInv, Scanning
<1>3. ASSUME NEW i \in ArticlesOf(articles, syncing), articles[i].state = "present"
      PROVE  existing[i] = NoArticle \/ i \in seen
  BY <1>2, <1>3 DEF SnapshotInv, Unswept, ArticlesOf
<1> QED BY <1>1, <1>2, <1>3 DEF FromDoc, FromTable

LEMMA SyncInductive ==
    /\ Init => BaseInv /\ CopiesInv /\ UndisturbedInv /\ IndexHasFeedTitle
    /\ BaseInv /\ CopiesInv /\ UndisturbedInv /\ IndexHasFeedTitle /\ [Next]_vars
       => BaseInv' /\ CopiesInv' /\ UndisturbedInv' /\ IndexHasFeedTitle'
<1>1. Init => CopiesInv /\ IndexHasFeedTitle
  BY DEF Init, IndexHasFeedTitle, CopiesInv, Scanning, Looking
<1> QED
  BY <1>1, BaseInitially, UndisturbedInitially, BaseInductive, IndexInductive,
     UndisturbedInductive

\* Unless a merge or a delete comes between two queries of a sync, none of its
\* writes meets a constraint (sync.go:44-126): the identity chain finds the article
\* that has the item's GUID before anything else.
THEOREM SyncMeetsNoConstraint == Spec => []SyncNeverConflicts
<1>1. BaseInv /\ CopiesInv /\ UndisturbedInv => SyncNeverConflicts
  BY WritesPermitted
<1>2. QED
  BY <1>1, SyncInductive, PTL DEF Spec

\* "Existing articles are updated in place; new articles are inserted; articles that
\* [...] are no longer present in the feed are marked as deleted" (sync.go:32-35):
\* when a sync is done, the feed's present articles are the document's, for any
\* document, whichever of its items have keys in common.
THEOREM SyncReflects == Spec => []SyncReflectsDocument
<1>1. BaseInv /\ UndisturbedInv => SyncReflectsDocument
  BY SweepEnds
<1>2. QED
  BY <1>1, SyncInductive, PTL DEF Spec

--------------------------------------------------------------------------------
(* What was read stays read, over a merge                                       *)

LEMMA MergeKeepsMarks ==
    ASSUME BaseInv, NEW s \in Feeds, NEW l \in Feeds, Merge(s, l)
    PROVE  /\ \A i \in ArticlesOf(articles, l) :
                  \E j \in Identified(articles', s, articles[i].item) :
                      articles[i].read => articles'[j].read
           /\ \A i \in ArticlesOf(articles, s) :
                  i \in ArticlesOf(articles', s) /\ (articles[i].read => articles'[i].read)
<1>1. PICK t : t = Merged(s, l)
  OBVIOUS
<1>2. TypeOK /\ TableInv /\ UNCHANGED nextId
  BY DEF BaseInv, Merge
<1>3. /\ s # l /\ t \in Tables /\ Kept(s, l, t, MaxId) /\ GUIDsUnique(t)
      /\ \A i \in ArticlesOf(articles, l) : Found(s, t, i)
      /\ MovedEntries(t, s, l) \in Entries /\ Dropped(l, t, MovedEntries(t, s, l))
  <2>1. MergeInv(s, l, t, MaxId) /\ \A i \in ArticlesOf(articles, l) : i <= MaxId
    BY <1>1, <1>2, MergeFacts, Typed DEF ArticlesOf
  <2> QED BY <1>1, <1>2, <2>1, MergeFacts DEF MergeInv
<1>4. \A i \in IDs : \/ articles'[i] = NoArticle /\ t[i] # NoArticle /\ t[i].feed = l
                     \/ articles'[i] = t[i] /\ (t[i] = NoArticle \/ t[i].feed # l)
  BY <1>2, <1>3, DroppedFacts DEF Kept
\* Nothing that is the survivor's now is dropped.
<1>5. \A i \in IDs : /\ i \in ArticlesOf(t, s) <=> i \in ArticlesOf(articles', s)
                     /\ i \in ArticlesOf(t, s) => articles'[i] = t[i]
  BY <1>3, <1>4 DEF ArticlesOf
<1>6. \A x : Identified(t, s, x) = Identified(articles', s, x)
  BY <1>5, SameMatches
<1>7. ASSUME NEW i \in ArticlesOf(articles, l)
      PROVE  \E j \in Identified(articles', s, articles[i].item) :
                 articles[i].read => articles'[j].read
  <2>1. PICK j \in Identified(t, s, articles[i].item) : articles[i].read => t[j].read
    BY <1>3 DEF Found
  <2>2. j \in ArticlesOf(t, s) /\ j \in IDs
    BY <2>1, IdentifiedIsArticle DEF ArticlesOf
  <2> QED BY <1>5, <1>6, <2>1, <2>2
<1>8. ASSUME NEW i \in ArticlesOf(articles, s)
      PROVE  i \in ArticlesOf(articles', s) /\ (articles[i].read => articles'[i].read)
  <2>1. i \in IDs /\ i \in ArticlesOf(t, s) /\ (articles[i].read => t[i].read)
    BY <1>3 DEF Kept, ArticlesOf
  <2> QED BY <1>5, <2>1
<1> QED BY <1>7, <1>8

\* "The survivor's copy is kept, marked read if either copy was" (merge.go:17):
\* whatever the loser's and the survivor's articles are, and whichever of them
\* have keys in common, although each article that moves in changes what the
\* next one is identified with.
THEOREM MergeKeeps == Spec => MergeKeepsRead
<1>1. BaseInv /\ [Next]_vars =>
      [\A s, l \in Feeds : Merge(s, l) =>
          /\ \A i \in ArticlesOf(articles, l) :
                 \E j \in Identified(articles', s, articles[i].item) :
                     articles[i].read => articles'[j].read
          /\ \A i \in ArticlesOf(articles, s) :
                 /\ i \in ArticlesOf(articles', s)
                 /\ articles[i].read => articles'[i].read]_vars
  BY MergeKeepsMarks
<1>2. Spec => []BaseInv
  BY BaseInitially, BaseInductive, PTL DEF Spec
<1>3. QED
  BY <1>1, <1>2, PTL DEF Spec, MergeKeepsRead

================================================================================
