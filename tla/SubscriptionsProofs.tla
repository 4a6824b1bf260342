-------------------------- MODULE SubscriptionsProofs --------------------------
(***************************************************************************)
(* The subscription list, for any feeds, documents and names: what a       *)
(* document means and what is read from it, what is written and what is    *)
(* read back, what an import leaves in the table whatever others do        *)
(* between its queries, and the folders of the sidebar.                    *)
(*                                                                         *)
(* Documents are lists of outlines nested at most Depth deep; Depth is     *)
(* any number from 2 on.                                                   *)
(***************************************************************************)
EXTENDS Subscriptions, Integers, TLAPS, FiniteSetTheorems, WellFoundedInduction,
        SequenceTheorems

--------------------------------------------------------------------------------
(* Induction over a set of numbers. *)

\* A set of numbers has a least one.
LEMMA LeastOf ==
  ASSUME NEW T \in SUBSET Nat, T # {}
  PROVE  \E x \in T : \A y \in T : x <= y
  <1> DEFINE less == OpToRel(<, Nat)
  <1>1. \A x, y \in Nat : y < x => <<y, x>> \in less
    BY DEF OpToRel
  <1>2. IsWellFoundedOn(less, Nat)
    BY NatLessThanWellFounded
  <1> HIDE DEF less
  <1>3. PICK x \in T : \A y \in T : ~ (<<y, x>> \in less)
    BY <1>2, WFMin
  <1>4. ASSUME NEW y \in T PROVE x <= y
    <2>1. x \in Nat /\ y \in Nat /\ ~ (y < x)
      BY <1>1, <1>3
    <2> QED BY <2>1
  <1> QED BY <1>4

LEMMA Counting ==
  ASSUME NEW N \in Nat, NEW S \in SUBSET Nat, 0 \in S, \A n \in S : n < N => n + 1 \in S
  PROVE  N \in S
  <1> DEFINE bad == {n \in 0 .. N : n \notin S}
  <1>1. SUFFICES ASSUME N \notin S PROVE FALSE
    OBVIOUS
  <1>2. bad # {} /\ bad \in SUBSET Nat
    BY <1>1
  <1>3. PICK x \in bad : \A y \in bad : x <= y
    <2> HIDE DEF bad
    <2> QED BY <1>2, LeastOf
  <1>4. x \in Nat /\ x # 0 /\ x <= N /\ x \notin S
    BY <1>3
  <1>5. x - 1 \in 0 .. N /\ x - 1 \in S
    BY <1>3, <1>4
  <1>6. x - 1 + 1 \in S
    BY <1>4, <1>5
  <1> QED BY <1>4, <1>6

--------------------------------------------------------------------------------
(* The order of the list. *)

LEMMA NamesHaveWords ==
  ASSUME NEW s \in Names
  PROVE  Len(s) \in Nat /\ DOMAIN s = 1 .. Len(s) /\ \A j \in 1 .. Len(s) : s[j] \in Nat
  BY DEF Names

LEMMA PrecedesIrreflexive == \A s \in Names : ~ Precedes(s, s)
  BY DEF Names, Precedes

LEMMA PrecedesTransitive ==
  ASSUME NEW s \in Names, NEW t \in Names, NEW u \in Names, Precedes(s, t), Precedes(t, u)
  PROVE  Precedes(s, u)
  <1>1. PICK k \in DOMAIN t : /\ k <= Len(s) + 1
                              /\ \A j \in 1 .. k - 1 : s[j] = t[j]
                              /\ k <= Len(s) => s[k] < t[k]
    BY DEF Precedes
  <1>2. PICK l \in DOMAIN u : /\ l <= Len(t) + 1
                              /\ \A j \in 1 .. l - 1 : t[j] = u[j]
                              /\ l <= Len(t) => t[l] < u[l]
    BY DEF Precedes
  <1>3. /\ k \in 1 .. Len(t) /\ l \in 1 .. Len(u)
        /\ Len(s) \in Nat /\ Len(t) \in Nat /\ Len(u) \in Nat
        /\ \A j \in 1 .. Len(s) : s[j] \in Nat
        /\ \A j \in 1 .. Len(t) : t[j] \in Nat
        /\ \A j \in 1 .. Len(u) : u[j] \in Nat
    BY NamesHaveWords
  <1>4. DOMAIN u = 1 .. Len(u)
    BY NamesHaveWords
  <1>5. CASE k <= l
    <2>1. k \in DOMAIN u /\ \A j \in 1 .. k - 1 : s[j] = u[j]
      BY <1>1, <1>2, <1>3, <1>4, <1>5
    <2>2. ASSUME k <= Len(s) PROVE s[k] < u[k]
      <3>1. s[k] < t[k] /\ s[k] \in Nat /\ t[k] \in Nat /\ u[k] \in Nat
        BY <1>1, <1>3, <1>4, <2>1, <2>2
      <3>2. t[k] = u[k] \/ t[k] < u[k]
        BY <1>2, <1>3, <1>5
      <3> QED BY <3>1, <3>2
    <2> QED BY <1>1, <2>1, <2>2 DEF Precedes
  <1>6. CASE l < k
    <2>1. l \in DOMAIN u /\ l <= Len(s) + 1 /\ \A j \in 1 .. l - 1 : s[j] = u[j]
      BY <1>1, <1>2, <1>3, <1>4, <1>6
    <2>2. ASSUME l <= Len(s) PROVE s[l] < u[l]
      <3>1. s[l] = t[l] /\ l <= Len(t) /\ l \in 1 .. k - 1
        BY <1>1, <1>3, <1>6
      <3> QED BY <1>2, <3>1
    <2> QED BY <2>1, <2>2 DEF Precedes
  <1> QED BY <1>3, <1>5, <1>6

LEMMA PrecedesTotal ==
  ASSUME NEW s \in Names, NEW t \in Names, s # t
  PROVE  Precedes(s, t) \/ Precedes(t, s)
  <1> DEFINE T == {k \in Nat : k >= 1 /\ (k > Len(s) \/ k > Len(t) \/ s[k] # t[k])}
  <1>1. /\ Len(s) \in Nat /\ Len(t) \in Nat
        /\ DOMAIN s = 1 .. Len(s) /\ DOMAIN t = 1 .. Len(t)
        /\ \A j \in 1 .. Len(s) : s[j] \in Nat
        /\ \A j \in 1 .. Len(t) : t[j] \in Nat
    BY NamesHaveWords
  <1>2. Len(s) + 1 \in T /\ Len(t) + 1 \in T
    BY <1>1
  <1>3. PICK k \in T : \A j \in T : k <= j
    <2>1. T \in SUBSET Nat /\ T # {}
      BY <1>2
    <2> HIDE DEF T
    <2> QED BY <2>1, LeastOf
  <1>4. /\ k \in Nat /\ 1 <= k /\ k <= Len(s) + 1 /\ k <= Len(t) + 1
        /\ k > Len(s) \/ k > Len(t) \/ s[k] # t[k]
    BY <1>1, <1>2, <1>3
  <1>5. ASSUME NEW j \in 1 .. k - 1 PROVE s[j] = t[j]
    <2>1. j \notin T /\ j \in Nat /\ 1 <= j
      BY <1>3, <1>4
    <2> QED BY <2>1
  <1>6. CASE k > Len(s) /\ k > Len(t)
    <2>1. Len(s) = k - 1 /\ Len(t) = k - 1
      BY <1>1, <1>4, <1>6
    <2>2. s = [j \in 1 .. k - 1 |-> s[j]] /\ t = [j \in 1 .. k - 1 |-> t[j]]
      BY <2>1 DEF Names
    <2> HIDE DEF T
    <2> QED BY <1>5, <2>2
  <1>7. CASE k > Len(s) /\ ~(k > Len(t))
    BY <1>1, <1>4, <1>5, <1>7 DEF Precedes
  <1>8. CASE ~(k > Len(s)) /\ k > Len(t)
    BY <1>1, <1>4, <1>5, <1>8 DEF Precedes
  <1>9. CASE ~(k > Len(s)) /\ ~(k > Len(t))
    <2>1. s[k] < t[k] \/ t[k] < s[k]
      BY <1>1, <1>4, <1>9
    <2>2. k \in DOMAIN s /\ k \in DOMAIN t
      BY <1>1, <1>4, <1>9
    <2> QED BY <1>4, <1>5, <2>1, <2>2 DEF Precedes
  <1> QED BY <1>6, <1>7, <1>8, <1>9

\* Feeds with ids of their own are ordered strictly.
LEMMA BeforeTransitive ==
  ASSUME NEW f \in Rows, NEW g \in Rows, NEW h \in Rows, Before(f, g), Before(g, h)
  PROVE  Before(f, h)
  <1>1. /\ f.title \in Names /\ g.title \in Names /\ h.title \in Names
        /\ f.folder \in Names /\ g.folder \in Names /\ h.folder \in Names
        /\ f.id \in Int /\ g.id \in Int /\ h.id \in Int
    BY DEF Rows, Ids
  <1>2. Precedes(f.folder, g.folder) /\ Precedes(g.folder, h.folder)
            => Precedes(f.folder, h.folder)
    BY <1>1, PrecedesTransitive
  <1>3. Precedes(f.title, g.title) /\ Precedes(g.title, h.title)
            => Precedes(f.title, h.title)
    BY <1>1, PrecedesTransitive
  <1>4. f.id < g.id /\ g.id < h.id => f.id < h.id
    BY <1>1
  <1> QED BY <1>2, <1>3, <1>4 DEF Before

LEMMA BeforeTotal ==
  ASSUME NEW f \in Rows, NEW g \in Rows, f.id # g.id
  PROVE  Before(f, g) \/ Before(g, f)
  <1>1. /\ f.title \in Names /\ g.title \in Names
        /\ f.folder \in Names /\ g.folder \in Names
        /\ f.id < g.id \/ g.id < f.id
    BY SubscriptionsAssumption DEF Rows, Ids
  <1> QED BY <1>1, PrecedesTotal DEF Before

Apart(S) == \A f, g \in S : f.id = g.id => f = g

\* A finite table has a last row.
LEMMA LastRow ==
  ASSUME NEW S \in SUBSET Rows, IsFiniteSet(S), Apart(S), S # {}
  PROVE  \E m \in S : \A f \in S : f = m \/ Before(f, m)
  <1> DEFINE HasLast(T) == \E m \in T : \A f \in T : f = m \/ Before(f, m)
             OfSize(n) == {T \in SUBSET S : IsFiniteSet(T) /\ Cardinality(T) = n}
             Good == {n \in Nat : \A T \in OfSize(n) : T = {} \/ HasLast(T)}
  <1>1. 0 \in Good
    <2>1. \A T \in OfSize(0) : T = {}
      BY FS_EmptySet
    <2> QED BY <2>1
  <1>2. ASSUME NEW n \in Good PROVE n + 1 \in Good
    <2>1. SUFFICES ASSUME NEW T \in OfSize(n + 1), NEW x \in T PROVE HasLast(T)
      OBVIOUS
    <2>2. T \ {x} \in OfSize(n)
      <3>1. n \in Nat /\ T \in SUBSET S /\ IsFiniteSet(T) /\ Cardinality(T) = n + 1
        BY <1>2
      <3>2. IsFiniteSet(T \ {x}) /\ Cardinality(T \ {x}) = Cardinality(T) - 1
        <4> HIDE DEF OfSize, Good, HasLast
        <4> QED BY <3>1, FS_RemoveElement
      <3> QED BY <3>1, <3>2
    <2>3. CASE T \ {x} = {}
      BY <2>3
    <2>4. CASE HasLast(T \ {x})
      <3>1. PICK m \in T \ {x} : \A f \in T \ {x} : f = m \/ Before(f, m)
        BY <2>4
      <3>2. m \in Rows /\ x \in Rows /\ m.id # x.id
        BY <3>1 DEF Apart
      <3>3. CASE Before(x, m)
        BY <3>1, <3>3
      <3>4. CASE Before(m, x)
        <4>1. ASSUME NEW f \in T, f # x PROVE Before(f, x)
          BY <3>1, <3>2, <3>4, <4>1, BeforeTransitive
        <4> QED BY <4>1
      <3> QED BY <3>2, <3>3, <3>4, BeforeTotal
    <2> QED BY <1>2, <2>2, <2>3, <2>4
  <1>3. Cardinality(S) \in Nat /\ S \in OfSize(Cardinality(S))
    BY FS_CardinalityType
  <1>4. Cardinality(S) \in Good
    <2> HIDE DEF Good
    <2>1. Good \in SUBSET Nat
      BY DEF Good
    <2> QED BY <1>1, <1>2, <1>3, <2>1, Counting
  <1> QED BY <1>3, <1>4

\* Every table can be listed in order.
Sorted(list) == \A i, j \in DOMAIN list : i < j => Before(list[i], list[j])

\* Any finite table can be listed in order: CHOOSE in List finds something.
LEMMA ListSorted ==
  ASSUME NEW S \in SUBSET Rows, IsFiniteSet(S), Apart(S)
  PROVE  List(S) \in [1 .. Cardinality(S) -> S] /\ Sorted(List(S))
  <1> DEFINE OfSize(n) == {T \in SUBSET S : IsFiniteSet(T) /\ Cardinality(T) = n}
             Good == {n \in Nat : \A T \in OfSize(n) :
                                     \E list \in [1 .. n -> T] : Sorted(list)}
  <1>1. 0 \in Good
    <2>1. ASSUME NEW T \in OfSize(0) PROVE \E list \in [1 .. 0 -> T] : Sorted(list)
      <3>1. [i \in 1 .. 0 |-> i] \in [1 .. 0 -> T] /\ Sorted([i \in 1 .. 0 |-> i])
        BY DEF Sorted
      <3> QED BY <3>1
    <2> QED BY <2>1
  <1>2. ASSUME NEW n \in Good PROVE n + 1 \in Good
    <2>1. SUFFICES ASSUME NEW T \in OfSize(n + 1)
                   PROVE  \E list \in [1 .. n + 1 -> T] : Sorted(list)
      OBVIOUS
    <2>2. T # {} /\ IsFiniteSet(T) /\ T \in SUBSET S /\ n \in Nat
      <3>1. Cardinality(T) # 0
        BY <1>2
      <3> QED BY <3>1, <1>2, FS_EmptySet
    <2>3. PICK m \in T : \A f \in T : f = m \/ Before(f, m)
      <3>1. T \in SUBSET Rows /\ Apart(T)
        BY <2>2 DEF Apart
      <3> QED BY <2>2, <3>1, LastRow
    <2>4. T \ {m} \in OfSize(n)
      BY <1>2, <2>2, FS_RemoveElement
    <2>5. PICK short \in [1 .. n -> T \ {m}] : Sorted(short)
      BY <1>2, <2>4
    <2> DEFINE list == [i \in 1 .. n + 1 |-> IF i = n + 1 THEN m ELSE short[i]]
    <2>6. list \in [1 .. n + 1 -> T]
      BY <2>2, <2>5
    <2>7. ASSUME NEW i \in 1 .. n + 1, NEW j \in 1 .. n + 1, i < j
          PROVE  Before(list[i], list[j])
      <3>1. i \in 1 .. n /\ list[i] = short[i] /\ short[i] \in T /\ short[i] # m
        BY <2>2, <2>5, <2>7
      <3>2. CASE j = n + 1
        BY <2>3, <3>1, <3>2
      <3>3. CASE j # n + 1
        <4>1. j \in 1 .. n /\ list[j] = short[j]
          BY <2>2, <3>3
        <4> QED BY <2>5, <2>7, <3>1, <4>1 DEF Sorted
      <3> QED BY <3>2, <3>3
    <2>8. Sorted(list)
      <3>1. DOMAIN list = 1 .. n + 1
        OBVIOUS
      <3> HIDE DEF list
      <3> QED BY <2>7, <3>1 DEF Sorted
    <2> QED BY <2>6, <2>8
  <1>3. Cardinality(S) \in Nat /\ S \in OfSize(Cardinality(S))
    BY FS_CardinalityType
  <1>4. Cardinality(S) \in Good
    <2> HIDE DEF Good
    <2>1. Good \in SUBSET Nat
      BY DEF Good
    <2> QED BY <1>1, <1>2, <1>3, <2>1, Counting
  <1>5. \E list \in [1 .. Cardinality(S) -> S] : Sorted(list)
    BY <1>3, <1>4
  <1> QED BY <1>5 DEF List, Sorted

\* A feed with the folder of an earlier one has only feeds of that folder before it.
LEMMA FoldersTogether ==
  ASSUME NEW list, Sorted(list), \A i \in DOMAIN list : list[i] \in Rows,
         NEW i \in DOMAIN list, NEW j \in DOMAIN list, NEW k \in DOMAIN list,
         i < j, j < k, list[i].folder = list[k].folder
  PROVE  list[j].folder = list[i].folder
  <1>1. Before(list[i], list[j]) /\ Before(list[j], list[k])
    BY DEF Sorted
  <1>2. list[i].folder \in Names /\ list[j].folder \in Names
    BY DEF Rows
  <1>3. SUFFICES ASSUME Precedes(list[i].folder, list[j].folder),
                        Precedes(list[j].folder, list[i].folder)
                 PROVE  FALSE
    BY <1>1 DEF Before
  <1> QED BY <1>2, <1>3, PrecedesTransitive, PrecedesIrreflexive

--------------------------------------------------------------------------------
(* The table as a list. *)

\* The part of TypeOK that is about the table.
TableOK ==
    /\ rows \subseteq Rows
    /\ \A r, s \in rows : r.id = s.id \/ r.url = s.url => r = s
    /\ lastId \in 0 .. MaxId /\ \A r \in rows : r.id <= lastId

LEMMA RowFields ==
  ASSUME NEW r \in Rows
  PROVE  /\ r.id \in Nat /\ r.id >= 1 /\ r.url \in URLs /\ r # NoRow
         /\ r.title \in Names /\ r.folder \in Names /\ r.site \in Sites
  BY SubscriptionsAssumption DEF Rows, Ids, NoRow

\* The table is finite: its ids are.
LEMMA TableListed ==
  ASSUME TableOK
  PROVE  IsFiniteSet(rows) /\ Apart(rows)
  <1>1. [r \in rows |-> r.id] \in Injection(rows, Ids)
    BY DEF TableOK, Rows, Injection, IsInjective
  <1>2. IsFiniteSet(Ids)
    BY SubscriptionsAssumption, FS_Interval DEF Ids
  <1>3. IsFiniteSet(rows)
    BY <1>1, <1>2, FS_Injection
  <1> QED BY <1>3 DEF TableOK, Apart

LEMMA ListIsSeq ==
  ASSUME TableOK
  PROVE  /\ List(rows) \in Seq(Rows) /\ Sorted(List(rows))
         /\ DOMAIN List(rows) = 1 .. Len(List(rows)) /\ Len(List(rows)) \in Nat
         /\ \A i \in DOMAIN List(rows) : List(rows)[i] \in Rows
  <1>1. IsFiniteSet(rows) /\ Apart(rows) /\ rows \in SUBSET Rows
    BY TableListed DEF TableOK
  <1>2. List(rows) \in [1 .. Cardinality(rows) -> rows] /\ Sorted(List(rows))
    BY <1>1, ListSorted
  <1>3. Cardinality(rows) \in Nat
    BY <1>1, FS_CardinalityType
  <1> HIDE DEF List
  <1> QED BY <1>1, <1>2, <1>3

\* Each row is listed once.
LEMMA ListComplete ==
  ASSUME TableOK
  PROVE  /\ \A i, j \in DOMAIN List(rows) : List(rows)[i] = List(rows)[j] => i = j
         /\ \A i \in DOMAIN List(rows) : List(rows)[i] \in rows
         /\ \A r \in rows : \E i \in DOMAIN List(rows) : List(rows)[i] = r
  <1> DEFINE list == List(rows)
             N == Cardinality(rows)
  <1>1. IsFiniteSet(rows) /\ Apart(rows) /\ rows \in SUBSET Rows
    BY TableListed DEF TableOK
  <1>2. list \in [1 .. N -> rows] /\ Sorted(list) /\ N \in Nat
    BY <1>1, ListSorted, FS_CardinalityType
  <1> HIDE DEF list
  <1>3. ASSUME NEW i \in 1 .. N, NEW j \in 1 .. N, i < j PROVE list[i] # list[j]
    <2>1. Before(list[i], list[j]) /\ list[i] \in Rows /\ list[j] \in Rows
      BY <1>1, <1>2, <1>3 DEF Sorted
    <2>2. list[i].id \in Int /\ list[i].folder \in Names /\ list[i].title \in Names
      BY <2>1 DEF Rows, Ids
    <2>3. ~ Before(list[i], list[i])
      BY <2>2, PrecedesIrreflexive DEF Before
    <2> QED BY <2>1, <2>3
  <1>4. \A i, j \in 1 .. N : list[i] = list[j] => i = j
    <2>1. SUFFICES ASSUME NEW i \in 1 .. N, NEW j \in 1 .. N, list[i] = list[j], i # j
                   PROVE  FALSE
      OBVIOUS
    <2>2. i < j \/ j < i
      BY <1>2, <2>1
    <2> QED BY <1>3, <2>1, <2>2
  <1>5. list \in Injection(1 .. N, rows)
    BY <1>2, <1>4 DEF Injection, IsInjective
  <1>6. Cardinality(1 .. N) = N
    BY <1>2, FS_Interval
  <1>7. list \in Surjection(1 .. N, rows)
    BY <1>1, <1>5, <1>6, FS_Injection
  <1>8. \A r \in rows : \E i \in 1 .. N : list[i] = r
    BY <1>7 DEF Surjection
  <1> QED BY <1>2, <1>4, <1>8 DEF list

--------------------------------------------------------------------------------
(* The folders of the sidebar. *)

\* The definition of Foldering, unrolled.
LEMMA FolderingSteps ==
  ASSUME NEW list, Len(list) \in Nat, NEW unc
  PROVE  /\ Foldering(list, unc)[0] = <<>>
         /\ \A n \in 1 .. Len(list) :
               Foldering(list, unc)[n]
                   = Put(Foldering(list, unc)[n - 1], list[n], Label(list[n], unc))
  <1> DEFINE Step(f, n) == IF n = 0 THEN <<>>
                           ELSE Put(f[n - 1], list[n], Label(list[n], unc))
             Upto(n) == \E f : f = [i \in 0 .. n |-> Step(f, i)]
             S == {n \in Nat : Upto(n)}
  <1>1. Upto(0)
    <2> DEFINE f == [i \in 0 .. 0 |-> <<>>]
    <2>1. f = [i \in 0 .. 0 |-> Step(f, i)]
      OBVIOUS
    <2> QED BY <2>1
  <1>2. ASSUME NEW n \in Nat, Upto(n) PROVE Upto(n + 1)
    <2>1. PICK f : f = [i \in 0 .. n |-> Step(f, i)]
      BY <1>2
    <2> DEFINE g == [i \in 0 .. n + 1 |-> IF i = n + 1 THEN Step(f, i) ELSE f[i]]
    <2>2. ASSUME NEW i \in 0 .. n + 1 PROVE g[i] = Step(g, i)
      <3>1. CASE i = 0
        BY <2>1, <3>1
      <3>2. CASE i # 0
        <4>1. i - 1 \in 0 .. n /\ g[i - 1] = f[i - 1]
          BY <3>2
        <4>2. i # n + 1 => i \in 0 .. n /\ g[i] = f[i] /\ f[i] = Step(f, i)
          BY <2>1
        <4> QED BY <3>2, <4>1, <4>2
      <3> QED BY <3>1, <3>2
    <2>3. g = [i \in 0 .. n + 1 |-> Step(g, i)]
      <3> DEFINE h == [i \in 0 .. n + 1 |-> Step(g, i)]
      <3>1. \A i \in 0 .. n + 1 : g[i] = h[i]
        BY <2>2
      <3> QED BY <3>1
    <2> HIDE DEF g
    <2> QED BY <2>3
  <1>3. Upto(Len(list))
    <2> HIDE DEF Upto
    <2>1. S \in SUBSET Nat /\ 0 \in S /\ \A n \in S : n + 1 \in S
      BY <1>1, <1>2
    <2> HIDE DEF S
    <2>2. Len(list) \in S
      BY <2>1, Counting
    <2> QED BY <2>2 DEF S
  <1> DEFINE f == Foldering(list, unc)
  <1>4. f = CHOOSE g : g = [i \in 0 .. Len(list) |-> Step(g, i)]
    BY DEF Foldering
  <1> HIDE DEF f
  <1>5. f = [i \in 0 .. Len(list) |-> Step(f, i)]
    BY <1>3, <1>4
  <1>6. \A n \in 0 .. Len(list) : f[n] = Step(f, n)
    BY <1>5
  <1> QED BY <1>6 DEF f

\* The folders after n feeds: the last one is the last feed's, and each has the
\* label of one of the feeds.
LabelsOf(folders, list, n, unc) ==
    /\ n > 0 => Len(folders) > 0 /\ folders[Len(folders)].name = Label(list[n], unc)
    /\ \A i \in 1 .. Len(folders) :
          \E p \in 1 .. n : folders[i].name = Label(list[p], unc)
    /\ \A i, j \in 1 .. Len(folders) :
          folders[i].name = folders[j].name => i = j \/ folders[i].name = unc

FolderRecords == [name : Names, feeds : Seq(Rows)]

\* The step of the grouping.
LEMMA PutOnce ==
  ASSUME NEW list, NEW n \in Nat, n + 1 <= Len(list), Len(list) \in Nat,
         DOMAIN list = 1 .. Len(list), \A i \in DOMAIN list : list[i] \in Rows,
         Sorted(list), NEW unc \in Names,
         NEW folders \in Seq(FolderRecords), LabelsOf(folders, list, n, unc)
  PROVE  LET next == Put(folders, list[n + 1], Label(list[n + 1], unc))
         IN  next \in Seq(FolderRecords) /\ LabelsOf(next, list, n + 1, unc)
  <1> DEFINE f == list[n + 1]
             label == Label(f, unc)
             len == Len(folders)
             next == Put(folders, f, label)
  <1>1. f \in Rows /\ label \in Names /\ len \in Nat /\ n + 1 \in DOMAIN list
    <2>1. f \in Rows
      OBVIOUS
    <2> QED BY <2>1 DEF Label, Rows
  <1>2. CASE len > 0 /\ folders[len].name = label
    <2> DEFINE joined == [folders[len] EXCEPT !.feeds = Append(folders[len].feeds, f)]
    <2>1. next = [folders EXCEPT ![len] = joined]
      BY <1>2 DEF Put
    <2>2. folders[len] \in FolderRecords
      BY <1>1, <1>2
    <2>3. joined \in FolderRecords /\ joined.name = folders[len].name
      <3>1. Append(folders[len].feeds, f) \in Seq(Rows)
        BY <1>1, <2>2 DEF FolderRecords
      <3> QED BY <2>2, <3>1 DEF FolderRecords
    <2> HIDE DEF joined
    <2>4. next \in Seq(FolderRecords) /\ Len(next) = len
      BY <1>1, <1>2, <2>1, <2>3
    <2>5. \A i \in 1 .. len : next[i].name = folders[i].name
      BY <1>1, <1>2, <2>1, <2>3
    <2>6. next[len].name = label
      BY <1>1, <1>2, <2>5
    <2>7. \A i \in 1 .. len : \E p \in 1 .. n + 1 : next[i].name = Label(list[p], unc)
      BY <2>5 DEF LabelsOf
    <2> HIDE DEF next, len, label, f
    <2>8. LabelsOf(next, list, n + 1, unc)
      BY <1>1, <1>2, <2>4, <2>5, <2>6, <2>7 DEF LabelsOf, label, f, len
    <2> QED BY <2>4, <2>8 DEF next, label, f
  <1>3. CASE ~ (len > 0 /\ folders[len].name = label)
    <2>1. next = Append(folders, [name |-> label, feeds |-> <<f>>])
      BY <1>3 DEF Put
    <2>2. [name |-> label, feeds |-> <<f>>] \in FolderRecords
      BY <1>1 DEF FolderRecords
    <2>3. /\ next \in Seq(FolderRecords) /\ Len(next) = len + 1
          /\ next[len + 1].name = label
          /\ \A i \in 1 .. len : next[i] = folders[i]
      BY <1>1, <2>1, <2>2
    <2>4. ASSUME NEW i \in 1 .. len, folders[i].name = label, label # unc PROVE FALSE
      <3>1. PICK p \in 1 .. n : label = Label(list[p], unc)
        BY <2>4 DEF LabelsOf
      <3>2. n > 0 /\ len > 0 /\ Label(list[n], unc) # label
        BY <1>1, <1>3, <3>1 DEF LabelsOf
      <3>3. p < n /\ n < n + 1 /\ p \in DOMAIN list /\ n \in DOMAIN list
        BY <3>1, <3>2
      <3>4. list[p].folder = label /\ f.folder = label
        BY <2>4, <3>1 DEF Label
      <3>5. list[n].folder = label
        <4> HIDE DEF label
        <4> QED BY <1>1, <3>3, <3>4, FoldersTogether
      <3> QED BY <3>2, <3>5, <3>4 DEF Label
    <2>5. \A i \in 1 .. len + 1 : \E p \in 1 .. n + 1 : next[i].name = Label(list[p], unc)
      BY <1>1, <2>3 DEF LabelsOf
    <2> HIDE DEF next, len, label, f
    <2>6. \A i, j \in 1 .. Len(next) :
             next[i].name = next[j].name => i = j \/ next[i].name = unc
      <3>1. \A i \in 1 .. Len(next) : i \in 1 .. len \/ i = len + 1
        BY <1>1, <2>3
      <3> QED BY <2>3, <2>4, <3>1 DEF LabelsOf, len
    <2>7. LabelsOf(next, list, n + 1, unc)
      BY <1>1, <2>3, <2>5, <2>6 DEF LabelsOf, label, f
    <2> QED BY <2>3, <2>7 DEF next, label, f
  <1> QED BY <1>2, <1>3

\* The grouping as a whole.
LEMMA FoldersBuilt ==
  ASSUME NEW list, Len(list) \in Nat, DOMAIN list = 1 .. Len(list), Sorted(list),
         \A i \in DOMAIN list : list[i] \in Rows, NEW unc \in Names
  PROVE  /\ buildFolders(list, unc) \in Seq(FolderRecords)
         /\ LabelsOf(buildFolders(list, unc), list, Len(list), unc)
  <1> DEFINE F(n) == Foldering(list, unc)[n]
             Good == {n \in Nat : n <= Len(list) =>
                                     F(n) \in Seq(FolderRecords) /\ LabelsOf(F(n), list, n, unc)}
  <1>1. 0 \in Good
    <2>1. F(0) = <<>>
      BY FolderingSteps
    <2>2. <<>> \in Seq(FolderRecords) /\ Len(<<>>) = 0
      OBVIOUS
    <2>3. LabelsOf(<<>>, list, 0, unc)
      BY <2>2 DEF LabelsOf
    <2> HIDE DEF F
    <2> QED BY <2>1, <2>2, <2>3
  <1>2. ASSUME NEW n \in Good PROVE n + 1 \in Good
    <2>1. SUFFICES ASSUME n + 1 <= Len(list)
                   PROVE  F(n + 1) \in Seq(FolderRecords) /\ LabelsOf(F(n + 1), list, n + 1, unc)
      OBVIOUS
    <2>2. n \in Nat /\ F(n) \in Seq(FolderRecords) /\ LabelsOf(F(n), list, n, unc)
      BY <2>1, <1>2
    <2>3. n + 1 \in 1 .. Len(list) /\ n + 1 - 1 = n
      BY <2>1, <2>2
    <2>4. F(n + 1) = Put(F(n), list[n + 1], Label(list[n + 1], unc))
      BY <2>3, FolderingSteps
    <2> HIDE DEF F
    <2> QED BY <2>1, <2>2, <2>4, PutOnce
  <1>3. Len(list) \in Good
    <2> HIDE DEF Good
    <2>1. Good \in SUBSET Nat
      BY DEF Good
    <2> QED BY <1>1, <1>2, <2>1, Counting
  <1> QED BY <1>3 DEF buildFolders

--------------------------------------------------------------------------------
(* Sequences of sequences. *)

Joined(s, t) == s \o t

\* What is flattened of the first n sequences.
FlatTo(seqs) ==
    LET upTo[n \in 0 .. Len(seqs)] == IF n = 0 THEN <<>> ELSE Joined(upTo[n - 1], seqs[n])
    IN  upTo

\* The definition of FlatTo, unrolled.
LEMMA FlatSteps ==
  ASSUME NEW seqs, Len(seqs) \in Nat
  PROVE  /\ FlatTo(seqs)[0] = <<>>
         /\ \A n \in 1 .. Len(seqs) : FlatTo(seqs)[n] = Joined(FlatTo(seqs)[n - 1], seqs[n])
  <1> DEFINE Step(f, n) == IF n = 0 THEN <<>> ELSE Joined(f[n - 1], seqs[n])
             Upto(n) == \E f : f = [i \in 0 .. n |-> Step(f, i)]
             S == {n \in Nat : Upto(n)}
  <1>1. Upto(0)
    <2> DEFINE f == [i \in 0 .. 0 |-> <<>>]
    <2>1. f = [i \in 0 .. 0 |-> Step(f, i)]
      OBVIOUS
    <2> QED BY <2>1
  <1>2. ASSUME NEW n \in Nat, Upto(n) PROVE Upto(n + 1)
    <2>1. PICK f : f = [i \in 0 .. n |-> Step(f, i)]
      BY <1>2
    <2> DEFINE g == [i \in 0 .. n + 1 |-> IF i = n + 1 THEN Step(f, i) ELSE f[i]]
    <2>2. ASSUME NEW i \in 0 .. n + 1 PROVE g[i] = Step(g, i)
      <3>1. CASE i = 0
        BY <2>1, <3>1
      <3>2. CASE i # 0
        <4>1. i - 1 \in 0 .. n /\ g[i - 1] = f[i - 1]
          BY <3>2
        <4>2. i # n + 1 => i \in 0 .. n /\ g[i] = f[i] /\ f[i] = Step(f, i)
          BY <2>1
        <4> QED BY <3>2, <4>1, <4>2
      <3> QED BY <3>1, <3>2
    <2>3. g = [i \in 0 .. n + 1 |-> Step(g, i)]
      <3> DEFINE h == [i \in 0 .. n + 1 |-> Step(g, i)]
      <3>1. \A i \in 0 .. n + 1 : g[i] = h[i]
        BY <2>2
      <3> QED BY <3>1
    <2> HIDE DEF g
    <2> QED BY <2>3
  <1>3. Upto(Len(seqs))
    <2> HIDE DEF Upto
    <2>1. S \in SUBSET Nat /\ 0 \in S /\ \A n \in S : n + 1 \in S
      BY <1>1, <1>2
    <2> HIDE DEF S
    <2>2. Len(seqs) \in S
      BY <2>1, Counting
    <2> QED BY <2>2 DEF S
  <1> DEFINE f == FlatTo(seqs)
  <1>4. f = CHOOSE g : g = [i \in 0 .. Len(seqs) |-> Step(g, i)]
    BY DEF FlatTo
  <1> HIDE DEF f
  <1>5. f = [i \in 0 .. Len(seqs) |-> Step(f, i)]
    BY <1>3, <1>4
  <1>6. \A n \in 0 .. Len(seqs) : f[n] = Step(f, n)
    BY <1>5
  <1> QED BY <1>6 DEF f

LEMMA FlatType ==
  ASSUME NEW S, NEW seqs, Len(seqs) \in Nat, \A i \in 1 .. Len(seqs) : seqs[i] \in Seq(S)
  PROVE  \A n \in 0 .. Len(seqs) : FlatTo(seqs)[n] \in Seq(S)
  <1> DEFINE F == FlatTo(seqs)
             Good == {n \in Nat : n <= Len(seqs) => F[n] \in Seq(S)}
  <1>1. F[0] = <<>> /\ \A n \in 1 .. Len(seqs) : F[n] = Joined(F[n - 1], seqs[n])
    BY FlatSteps
  <1> HIDE DEF F
  <1>2. 0 \in Good
    BY <1>1, EmptySeq
  <1>3. ASSUME NEW n \in Good PROVE n + 1 \in Good
    <2>1. SUFFICES ASSUME n + 1 <= Len(seqs) PROVE F[n + 1] \in Seq(S)
      OBVIOUS
    <2>2. n + 1 \in 1 .. Len(seqs) /\ n + 1 - 1 = n /\ F[n] \in Seq(S)
      BY <1>3, <2>1
    <2>3. F[n + 1] = Joined(F[n], seqs[n + 1])
      BY <1>1, <2>2
    <2> QED BY <2>2, <2>3, ConcatProperties DEF Joined
  <1>4. ASSUME NEW n \in 0 .. Len(seqs) PROVE n \in Good
    <2> HIDE DEF Good
    <2>1. Good \in SUBSET Nat /\ n \in Nat
      BY DEF Good
    <2> QED BY <1>2, <1>3, <2>1, Counting
  <1> QED BY <1>4 DEF F

\* FlattenSeq starts with the first sequence instead of with none.
LEMMA FlattenIs ==
  ASSUME NEW S, NEW seqs \in Seq(Seq(S))
  PROVE  FlattenSeq(seqs) = FlatTo(seqs)[Len(seqs)]
  <1>1. Len(seqs) \in Nat /\ \A i \in 1 .. Len(seqs) : seqs[i] \in Seq(S)
    OBVIOUS
  <1>2. CASE Len(seqs) = 0
    <2>1. seqs = <<>>
      BY <1>2
    <2>2. FlatTo(seqs)[Len(seqs)] = <<>>
      BY <1>1, <1>2, FlatSteps
    <2> QED BY <1>2, <2>1, <2>2 DEF FlattenSeq
  <1>3. CASE Len(seqs) # 0
    <2> DEFINE Step(f, i) == IF i = 1 THEN seqs[i] ELSE Joined(f[i - 1], seqs[i])
               flatten == CHOOSE f : f = [i \in 1 .. Len(seqs) |-> Step(f, i)]
    <2>1. FlattenSeq(seqs) = flatten[Len(seqs)]
      BY <1>3 DEF FlattenSeq, Joined
    <2> DEFINE F == FlatTo(seqs)
               g == [i \in 1 .. Len(seqs) |-> F[i]]
    <2>2. ASSUME NEW i \in 1 .. Len(seqs) PROVE F[i] = Step(g, i)
      <3>1. F[i] = Joined(F[i - 1], seqs[i])
        BY <1>1, FlatSteps
      <3>2. CASE i = 1
        <4>1. F[i - 1] = <<>>
          BY <1>1, <3>2, FlatSteps
        <4>2. seqs[i] \in Seq(S)
          BY <1>1
        <4> HIDE DEF F
        <4> QED BY <3>1, <3>2, <4>1, <4>2, ConcatEmptySeq DEF Joined
      <3>3. CASE i # 1
        <4>1. i - 1 \in 1 .. Len(seqs)
          BY <3>3
        <4> HIDE DEF F
        <4> QED BY <3>1, <3>3, <4>1
      <3> QED BY <3>2, <3>3
    <2>3. g = [i \in 1 .. Len(seqs) |-> Step(g, i)]
      <3> HIDE DEF F
      <3> DEFINE h == [i \in 1 .. Len(seqs) |-> Step(g, i)]
      <3>1. \A i \in 1 .. Len(seqs) : g[i] = h[i]
        BY <2>2
      <3> QED BY <3>1
    <2>4. flatten = [i \in 1 .. Len(seqs) |-> Step(flatten, i)]
      <3> HIDE DEF g
      <3> QED BY <2>3
    <2> HIDE DEF flatten
    <2> DEFINE Same == {n \in Nat : n < Len(seqs) => flatten[n + 1] = F[n + 1]}
    <2>5. \A i \in 1 .. Len(seqs) : flatten[i] = Step(flatten, i)
      BY <2>4
    <2>6. \A i \in 2 .. Len(seqs) : F[i] = Joined(F[i - 1], seqs[i])
      <3>1. \A i \in 2 .. Len(seqs) : i \in 1 .. Len(seqs)
        BY <1>1
      <3> QED BY <1>1, <3>1, FlatSteps
    <2> HIDE DEF F
    <2>7. 0 \in Same
      <3>1. 1 \in 1 .. Len(seqs)
        BY <1>1, <1>3
      <3>2. F[1] = seqs[1] /\ flatten[1] = seqs[1]
        BY <2>2, <2>5, <3>1
      <3>3. 0 + 1 = 1 /\ 0 \in Nat
        OBVIOUS
      <3> HIDE DEF Step
      <3> QED BY <3>2, <3>3
    <2>8. ASSUME NEW n \in Same PROVE n + 1 \in Same
      <3>1. SUFFICES ASSUME n + 1 < Len(seqs) PROVE flatten[n + 2] = F[n + 2]
        OBVIOUS
      <3>2. /\ n \in Nat /\ n + 2 \in 1 .. Len(seqs) /\ n + 2 - 1 = n + 1 /\ n + 2 # 1
            /\ flatten[n + 1] = F[n + 1] /\ n + 1 \in 1 .. Len(seqs)
        BY <1>1, <2>8, <3>1
      <3>3. flatten[n + 2] = Joined(flatten[n + 1], seqs[n + 2])
        BY <2>5, <3>2
      <3>4. F[n + 2] = Joined(F[n + 1], seqs[n + 2])
        <4>1. n + 2 \in 2 .. Len(seqs)
          BY <3>2
        <4> QED BY <2>6, <3>2, <4>1
      <3> QED BY <3>2, <3>3, <3>4
    <2>9. Len(seqs) - 1 \in Same
      <3> HIDE DEF Same
      <3>1. Same \in SUBSET Nat /\ Len(seqs) - 1 \in Nat
        BY <1>1, <1>3 DEF Same
      <3> QED BY <2>7, <2>8, <3>1, Counting
    <2>10. flatten[Len(seqs)] = F[Len(seqs)]
      <3>1. Len(seqs) - 1 + 1 = Len(seqs) /\ Len(seqs) - 1 < Len(seqs)
        BY <1>1
      <3> QED BY <2>9, <3>1
    <2> QED BY <2>1, <2>10 DEF F
  <1> QED BY <1>2, <1>3

LEMMA FlattenType ==
  ASSUME NEW S, NEW seqs \in Seq(Seq(S))
  PROVE  FlattenSeq(seqs) \in Seq(S)
  <1>1. Len(seqs) \in Nat /\ \A i \in 1 .. Len(seqs) : seqs[i] \in Seq(S)
    OBVIOUS
  <1> QED BY <1>1, FlattenIs, FlatType

LEMMA FlattenEmpty == FlattenSeq(<<>>) = <<>>
  BY DEF FlattenSeq

LEMMA FlattenOne ==
  ASSUME NEW S, NEW s \in Seq(S)
  PROVE  FlattenSeq(<<s>>) = s
  <1> DEFINE seqs == <<s>>
             F == FlatTo(seqs)
  <1>1. seqs \in Seq(Seq(S)) /\ Len(seqs) = 1 /\ seqs[1] = s
    OBVIOUS
  <1> HIDE DEF seqs
  <1>2. F[0] = <<>> /\ F[1] = Joined(F[0], seqs[1])
    <2>1. 1 \in 1 .. Len(seqs) /\ 1 - 1 = 0 /\ Len(seqs) \in Nat
      BY <1>1
    <2>2. F[0] = <<>> /\ \A n \in 1 .. Len(seqs) : F[n] = Joined(F[n - 1], seqs[n])
      BY <2>1, FlatSteps
    <2> QED BY <2>1, <2>2
  <1>3. FlattenSeq(seqs) = F[1]
    BY <1>1, FlattenIs
  <1> HIDE DEF F
  <1> QED BY <1>1, <1>2, <1>3, ConcatEmptySeq DEF Joined, seqs

\* What comes later does not matter to what is flattened first.
LEMMA FlatPrefix ==
  ASSUME NEW seqs, NEW long, Len(seqs) \in Nat, Len(long) \in Nat, Len(seqs) <= Len(long),
         \A i \in 1 .. Len(seqs) : long[i] = seqs[i]
  PROVE  FlatTo(long)[Len(seqs)] = FlatTo(seqs)[Len(seqs)]
  <1> DEFINE F == FlatTo(seqs)
             G == FlatTo(long)
             Same == {n \in Nat : n <= Len(seqs) => G[n] = F[n]}
  <1>1. F[0] = <<>> /\ \A n \in 1 .. Len(seqs) : F[n] = Joined(F[n - 1], seqs[n])
    BY FlatSteps
  <1>2. G[0] = <<>> /\ \A n \in 1 .. Len(long) : G[n] = Joined(G[n - 1], long[n])
    BY FlatSteps
  <1> HIDE DEF F, G
  <1>3. 0 \in Same
    BY <1>1, <1>2
  <1>4. ASSUME NEW n \in Same PROVE n + 1 \in Same
    <2>1. SUFFICES ASSUME n + 1 <= Len(seqs) PROVE G[n + 1] = F[n + 1]
      OBVIOUS
    <2>2. n \in Nat /\ n + 1 \in 1 .. Len(seqs) /\ n + 1 - 1 = n /\ G[n] = F[n]
          /\ n + 1 \in 1 .. Len(long)
      BY <1>4, <2>1
    <2>3. F[n + 1] = Joined(F[n], seqs[n + 1]) /\ G[n + 1] = Joined(G[n], long[n + 1])
      BY <1>1, <1>2, <2>2
    <2> QED BY <2>2, <2>3
  <1>5. Len(seqs) \in Same
    <2> HIDE DEF Same
    <2>1. Same \in SUBSET Nat
      BY DEF Same
    <2> QED BY <1>3, <1>4, <2>1, Counting
  <1> QED BY <1>5 DEF F, G

\* A sequence cut in two.
LEMMA FlattenConcat ==
  ASSUME NEW S, NEW seqs \in Seq(Seq(S)), NEW more \in Seq(Seq(S))
  PROVE  FlattenSeq(seqs \o more) = FlattenSeq(seqs) \o FlattenSeq(more)
  <1> DEFINE all == seqs \o more
             len == Len(seqs)
             F == FlatTo(more)
             G == FlatTo(all)
             flat == FlattenSeq(seqs)
             Good == {n \in Nat : n <= Len(more) => G[len + n] = flat \o F[n]}
  <1>1. /\ all \in Seq(Seq(S)) /\ len \in Nat /\ Len(more) \in Nat
        /\ Len(all) = len + Len(more) /\ Len(all) \in Nat
        /\ \A i \in 1 .. len : all[i] = seqs[i]
        /\ \A i \in 1 .. Len(more) : all[len + i] = more[i] /\ more[i] \in Seq(S)
    OBVIOUS
  <1> HIDE DEF all
  <1>2. F[0] = <<>> /\ \A n \in 1 .. Len(more) : F[n] = Joined(F[n - 1], more[n])
    BY <1>1, FlatSteps
  <1>3. \A n \in 1 .. Len(all) : G[n] = Joined(G[n - 1], all[n])
    BY <1>1, FlatSteps
  <1>4. \A n \in 0 .. Len(more) : F[n] \in Seq(S)
    BY <1>1, FlatType
  <1>5. flat \in Seq(S) /\ G[len] = flat
    <2>1. Len(seqs) \in Nat /\ Len(seqs) <= Len(all) /\ \A i \in 1 .. Len(seqs) : all[i] = seqs[i]
      BY <1>1
    <2>2. FlatTo(all)[Len(seqs)] = FlatTo(seqs)[Len(seqs)]
      <3> HIDE DEF len, flat, G, F
      <3> QED BY <1>1, <2>1, FlatPrefix
    <2> QED BY <2>2, FlattenIs, FlattenType
  <1>6. FlattenSeq(all) = G[len + Len(more)] /\ FlattenSeq(more) = F[Len(more)]
    BY <1>1, FlattenIs
  <1> HIDE DEF F, G, flat, len
  <1>7. 0 \in Good
    <2>1. len + 0 = len /\ flat \o <<>> = flat
      BY <1>1, <1>5, ConcatEmptySeq
    <2> QED BY <1>2, <1>5, <2>1
  <1>8. ASSUME NEW n \in Good PROVE n + 1 \in Good
    <2>1. SUFFICES ASSUME n + 1 <= Len(more) PROVE G[len + (n + 1)] = flat \o F[n + 1]
      OBVIOUS
    <2>2. /\ n \in Nat /\ n + 1 \in 1 .. Len(more) /\ n + 1 - 1 = n
          /\ n \in 0 .. Len(more) /\ G[len + n] = flat \o F[n]
          /\ len + (n + 1) \in 1 .. Len(all) /\ len + (n + 1) - 1 = len + n
      <3>1. n \in Nat /\ (n <= Len(more) => G[len + n] = flat \o F[n])
        BY <1>8
      <3>2. /\ n + 1 \in 1 .. Len(more) /\ n + 1 - 1 = n
            /\ n \in 0 .. Len(more) /\ n <= Len(more)
        BY <1>1, <2>1, <3>1
      <3>3. len + (n + 1) \in 1 .. Len(all) /\ len + (n + 1) - 1 = len + n
        <4> HIDE DEF Good
        <4> QED BY <1>1, <2>1, <3>1
      <3> QED BY <3>1, <3>2, <3>3
    <2>3. F[n + 1] = Joined(F[n], more[n + 1])
      BY <1>2, <2>2
    <2>4. G[len + (n + 1)] = Joined(G[len + n], all[len + (n + 1)])
      <3>1. PICK k \in 1 .. Len(all) : k = len + (n + 1) /\ k - 1 = len + n
        BY <1>1, <2>2
      <3>2. G[k] = Joined(G[k - 1], all[k])
        BY <1>3
      <3> QED BY <3>1, <3>2
    <2>5. all[len + (n + 1)] = more[n + 1] /\ more[n + 1] \in Seq(S) /\ F[n] \in Seq(S)
      BY <1>1, <1>4, <2>2
    <2>6. (flat \o F[n]) \o more[n + 1] = flat \o (F[n] \o more[n + 1])
      <3>1. \A s, t, u \in Seq(S) : (s \o t) \o u = s \o (t \o u)
        BY ConcatAssociative
      <3> QED BY <1>5, <2>5, <3>1, Zenon
    <2> QED BY <2>2, <2>3, <2>4, <2>5, <2>6 DEF Joined
  <1>9. Len(more) \in Good
    <2> HIDE DEF Good
    <2>1. Good \in SUBSET Nat
      BY DEF Good
    <2> QED BY <1>1, <1>7, <1>8, <2>1, Counting
  <1> QED BY <1>1, <1>6, <1>9 DEF flat, all

LEMMA FlattenAppend ==
  ASSUME NEW S, NEW seqs \in Seq(Seq(S)), NEW s \in Seq(S)
  PROVE  FlattenSeq(Append(seqs, s)) = FlattenSeq(seqs) \o s
  <1>1. PICK one : one = <<s>>
    OBVIOUS
  <1>2. one \in Seq(Seq(S)) /\ FlattenSeq(one) = s
    BY <1>1, FlattenOne
  <1>3. Append(seqs, s) = seqs \o one
    BY <1>1, AppendIsConcat
  <1>4. FlattenSeq(seqs \o one) = FlattenSeq(seqs) \o FlattenSeq(one)
    BY <1>2, FlattenConcat
  <1> QED BY <1>2, <1>3, <1>4

Respects(h, S) == h[<<>>] = <<>> /\ \A s, t \in Seq(S) : h[s \o t] = h[s] \o h[t]

Images(seqs, h, images) ==
    Len(images) = Len(seqs) /\ \A i \in 1 .. Len(seqs) : images[i] = h[seqs[i]]

\* What respects concatenation can be applied before or after flattening.
LEMMA FlattenImages ==
  ASSUME NEW S, NEW T, NEW seqs \in Seq(Seq(S)), NEW images \in Seq(Seq(T)),
         NEW h, Respects(h, S), Images(seqs, h, images)
  PROVE  FlattenSeq(images) = h[FlattenSeq(seqs)]
  <1> DEFINE F == FlatTo(seqs)
             G == FlatTo(images)
             Good == {n \in Nat : n <= Len(seqs) => G[n] = h[F[n]]}
  <1>1. /\ Len(seqs) \in Nat /\ Len(images) \in Nat
        /\ \A i \in 1 .. Len(seqs) : seqs[i] \in Seq(S)
    OBVIOUS
  <1>2. F[0] = <<>> /\ \A n \in 1 .. Len(seqs) : F[n] = Joined(F[n - 1], seqs[n])
    BY <1>1, FlatSteps
  <1>3. G[0] = <<>> /\ \A n \in 1 .. Len(seqs) : G[n] = Joined(G[n - 1], images[n])
    BY <1>1, FlatSteps DEF Images
  <1>4. \A n \in 0 .. Len(seqs) : F[n] \in Seq(S)
    BY <1>1, FlatType
  <1>5. FlattenSeq(images) = G[Len(seqs)] /\ FlattenSeq(seqs) = F[Len(seqs)]
    BY <1>1, FlattenIs DEF Images
  <1> HIDE DEF F, G
  <1>6. 0 \in Good
    BY <1>2, <1>3 DEF Respects
  <1>7. ASSUME NEW n \in Good PROVE n + 1 \in Good
    <2>1. SUFFICES ASSUME n + 1 <= Len(seqs) PROVE G[n + 1] = h[F[n + 1]]
      OBVIOUS
    <2>2. n \in Nat /\ n + 1 \in 1 .. Len(seqs) /\ n + 1 - 1 = n /\ n \in 0 .. Len(seqs)
          /\ G[n] = h[F[n]]
      BY <1>7, <2>1
    <2>3. F[n + 1] = Joined(F[n], seqs[n + 1]) /\ G[n + 1] = Joined(G[n], images[n + 1])
      BY <1>2, <1>3, <2>2
    <2>4. h[F[n] \o seqs[n + 1]] = h[F[n]] \o h[seqs[n + 1]]
      BY <1>1, <1>4, <2>2 DEF Respects
    <2> QED BY <2>2, <2>3, <2>4 DEF Joined, Images
  <1>8. Len(seqs) \in Good
    <2> HIDE DEF Good
    <2>1. Good \in SUBSET Nat
      BY DEF Good
    <2> QED BY <1>1, <1>6, <1>7, <2>1, Counting
  <1> QED BY <1>1, <1>5, <1>8 DEF Images

\* Only the sequences after the lo-th, up to the hi-th, have an element.
Segment(seqs, lo, hi) ==
    \A i \in 1 .. Len(seqs) : Len(seqs[i]) = IF lo < i /\ i <= hi THEN 1 ELSE 0

LEMMA FlattenSegment ==
  ASSUME NEW S, NEW seqs \in Seq(Seq(S)),
         NEW hi \in 0 .. Len(seqs), NEW lo \in 0 .. hi, Segment(seqs, lo, hi)
  PROVE  FlattenSeq(seqs) = [j \in 1 .. hi - lo |-> seqs[lo + j][1]]
  <1> DEFINE F == FlatTo(seqs)
             Size(n) == IF n <= lo THEN 0 ELSE IF n <= hi THEN n - lo ELSE hi - lo
             Good == {n \in Nat : n <= Len(seqs) =>
                         /\ Len(F[n]) = Size(n)
                         /\ \A j \in 1 .. Size(n) : F[n][j] = seqs[lo + j][1]}
  <1>1. /\ Len(seqs) \in Nat /\ hi \in Nat /\ lo \in Nat /\ lo <= hi /\ hi <= Len(seqs)
        /\ \A i \in 1 .. Len(seqs) : seqs[i] \in Seq(S)
    OBVIOUS
  <1>2. F[0] = <<>> /\ \A n \in 1 .. Len(seqs) : F[n] = Joined(F[n - 1], seqs[n])
    BY <1>1, FlatSteps
  <1>3. \A n \in 0 .. Len(seqs) : F[n] \in Seq(S)
    BY <1>1, FlatType
  <1>4. FlattenSeq(seqs) = F[Len(seqs)]
    BY FlattenIs
  <1> HIDE DEF F
  <1>5. 0 \in Good
    BY <1>1, <1>2
  <1>6. ASSUME NEW n \in Good PROVE n + 1 \in Good
    <2> HIDE DEF Size
    <2>1. SUFFICES ASSUME n + 1 <= Len(seqs)
                   PROVE  /\ Len(F[n + 1]) = Size(n + 1)
                          /\ \A j \in 1 .. Size(n + 1) : F[n + 1][j] = seqs[lo + j][1]
      OBVIOUS
    <2>2. /\ n \in Nat /\ n + 1 \in 1 .. Len(seqs) /\ n + 1 - 1 = n /\ n \in 0 .. Len(seqs)
          /\ Len(F[n]) = Size(n) /\ \A j \in 1 .. Size(n) : F[n][j] = seqs[lo + j][1]
      <3>1. n \in Nat /\ n + 1 \in 1 .. Len(seqs) /\ n + 1 - 1 = n /\ n \in 0 .. Len(seqs)
        <4>1. n \in Nat
          BY <1>6
        <4> HIDE DEF Good
        <4> QED BY <1>1, <2>1, <4>1
      <3>2. n <= Len(seqs)
        BY <1>1, <3>1
      <3> QED BY <1>6, <3>1, <3>2
    <2> USE DEF Size
    <2> DEFINE s == F[n]
               t == seqs[n + 1]
    <2>3. F[n + 1] = s \o t
      <3>1. F[n + 1] = Joined(F[n], seqs[n + 1])
        BY <1>2, <2>2
      <3> QED BY <3>1 DEF Joined
    <2>4. s \in Seq(S) /\ t \in Seq(S)
      BY <1>1, <1>3, <2>2
    <2>5. /\ Len(s \o t) = Len(s) + Len(t)
          /\ \A i \in 1 .. Len(s) + Len(t) :
                (s \o t)[i] = IF i <= Len(s) THEN s[i] ELSE t[i - Len(s)]
      BY <2>4, ConcatProperties
    <2>6. Len(t) = IF lo < n + 1 /\ n + 1 <= hi THEN 1 ELSE 0
      BY <2>2 DEF Segment
    <2>7. CASE lo < n + 1 /\ n + 1 <= hi
      <3>1. Size(n) = n - lo /\ Size(n + 1) = n + 1 - lo /\ lo + (n + 1 - lo) = n + 1
        BY <1>1, <2>2, <2>7
      <3>2. Len(t) = 1 /\ Len(s) = n - lo
        BY <2>2, <2>6, <2>7, <3>1
      <3>3. ASSUME NEW j \in 1 .. n + 1 - lo PROVE (s \o t)[j] = seqs[lo + j][1]
        <4>1. CASE j <= n - lo
          <5>1. j \in 1 .. n - lo /\ j \in 1 .. (n - lo) + 1
            BY <1>1, <2>2, <4>1
          <5> HIDE DEF Size, s, t
          <5>2. (s \o t)[j] = s[j]
            BY <2>5, <3>2, <4>1, <5>1
          <5> QED BY <2>2, <3>1, <5>1, <5>2 DEF s
        <4>2. CASE ~ (j <= n - lo)
          <5>1. j = n + 1 - lo /\ j \in 1 .. (n - lo) + 1 /\ j - (n - lo) = 1
            BY <1>1, <2>2, <4>2
          <5> HIDE DEF Size, s, t
          <5>2. (s \o t)[j] = t[1]
            BY <2>5, <3>2, <4>2, <5>1
          <5> QED BY <3>1, <5>1, <5>2 DEF t
        <4> QED BY <4>1, <4>2
      <3>4. Len(s \o t) = n + 1 - lo
        BY <1>1, <2>2, <2>5, <3>2
      <3> HIDE DEF Size, s, t
      <3> QED BY <2>3, <3>1, <3>3, <3>4
    <2>8. CASE ~ (lo < n + 1 /\ n + 1 <= hi)
      <3>1. Size(n) = Size(n + 1)
        BY <1>1, <2>2, <2>8
      <3>2. t = <<>>
        <4>1. Len(t) = 0
          BY <2>6, <2>8
        <4> HIDE DEF t
        <4> QED BY <2>4, <4>1, EmptySeq
      <3>3. F[n + 1] = F[n]
        <4>1. s \o <<>> = s
          BY <2>4, ConcatEmptySeq
        <4> QED BY <2>3, <3>2, <4>1
      <3> HIDE DEF Size
      <3> QED BY <2>2, <3>1, <3>3
    <2> QED BY <2>7, <2>8
  <1>7. Len(seqs) \in Good
    <2> HIDE DEF Good
    <2>1. Good \in SUBSET Nat
      BY DEF Good
    <2> QED BY <1>1, <1>5, <1>6, <2>1, Counting
  <1>8. Size(Len(seqs)) = hi - lo
    BY <1>1
  <1>9. Len(F[Len(seqs)]) = hi - lo
        /\ \A j \in 1 .. hi - lo : F[Len(seqs)][j] = seqs[lo + j][1]
    <2>1. /\ Len(F[Len(seqs)]) = Size(Len(seqs))
          /\ \A j \in 1 .. Size(Len(seqs)) : F[Len(seqs)][j] = seqs[lo + j][1]
      <3> HIDE DEF Size
      <3> QED BY <1>1, <1>7
    <2> HIDE DEF Size
    <2> QED BY <1>8, <2>1
  <1>10. F[Len(seqs)] = [j \in 1 .. hi - lo |-> F[Len(seqs)][j]]
    <2>1. PICK f : f = F[Len(seqs)]
      OBVIOUS
    <2>2. f \in Seq(S)
      BY <1>1, <1>3, <2>1
    <2>3. f = [j \in 1 .. Len(f) |-> f[j]]
      BY <2>2
    <2> QED BY <1>9, <2>1, <2>3
  <1> QED BY <1>4, <1>9, <1>10

--------------------------------------------------------------------------------
(* The recursive functions of documents, unrolled. *)

Outlines(forest) ==
    [title : Names, text : Names, url : Sites, site : Sites, kids : forest]

\* The definition of Forests, unrolled.
LEMMA ForestsSteps ==
  /\ Forests[0] = {<<>>}
  /\ \A d \in 1 .. Depth : Forests[d] = Seq(Outlines(Forests[d - 1]))
  <1> DEFINE Step(f, d) == IF d = 0 THEN {<<>>} ELSE Seq(Outlines(f[d - 1]))
             Upto(n) == \E f : f = [d \in 0 .. n |-> Step(f, d)]
             S == {n \in Nat : Upto(n)}
  <1>1. Upto(0)
    <2> DEFINE f == [d \in 0 .. 0 |-> {<<>>}]
    <2>1. f = [d \in 0 .. 0 |-> Step(f, d)]
      OBVIOUS
    <2> QED BY <2>1
  <1>2. ASSUME NEW n \in Nat, Upto(n) PROVE Upto(n + 1)
    <2>1. PICK f : f = [d \in 0 .. n |-> Step(f, d)]
      BY <1>2
    <2> DEFINE g == [d \in 0 .. n + 1 |-> IF d = n + 1 THEN Step(f, d) ELSE f[d]]
    <2>2. ASSUME NEW d \in 0 .. n + 1 PROVE g[d] = Step(g, d)
      <3>1. CASE d = 0
        BY <2>1, <3>1
      <3>2. CASE d # 0
        <4>1. d - 1 \in 0 .. n /\ g[d - 1] = f[d - 1]
          BY <3>2
        <4>2. Step(g, d) = Step(f, d)
          <5> HIDE DEF g
          <5> QED BY <3>2, <4>1
        <4> HIDE DEF Step
        <4>3. d # n + 1 => d \in 0 .. n /\ g[d] = f[d] /\ f[d] = Step(f, d)
          BY <2>1
        <4>4. g[n + 1] = Step(f, n + 1)
          OBVIOUS
        <4> QED BY <4>2, <4>3, <4>4
      <3> QED BY <3>1, <3>2
    <2>3. g = [d \in 0 .. n + 1 |-> Step(g, d)]
      <3> DEFINE h == [d \in 0 .. n + 1 |-> Step(g, d)]
      <3>1. \A d \in 0 .. n + 1 : g[d] = h[d]
        BY <2>2
      <3> QED BY <3>1
    <2> HIDE DEF g
    <2> QED BY <2>3
  <1>3. Depth \in Nat
    BY OPMLAssumption
  <1>4. Upto(Depth)
    <2> HIDE DEF Upto
    <2>1. S \in SUBSET Nat /\ 0 \in S /\ \A n \in S : n + 1 \in S
      BY <1>1, <1>2
    <2> HIDE DEF S
    <2>2. Depth \in S
      BY <1>3, <2>1, Counting
    <2> QED BY <2>2 DEF S
  <1>5. Forests = CHOOSE f : f = [d \in 0 .. Depth |-> Step(f, d)]
    BY DEF Forests, Outlines
  <1>6. Forests = [d \in 0 .. Depth |-> Step(Forests, d)]
    BY <1>4, <1>5
  <1>7. \A d \in 0 .. Depth : Forests[d] = Step(Forests, d)
    BY <1>6
  <1> QED BY <1>3, <1>7

\* What the walker makes of one outline.
Block(o, folder, below) ==
    IF o.url # NoURL THEN <<Entry(o, folder)>>
    ELSE IF unwrapFeedOutline(o) THEN <<Entry(o.kids[1], folder)>>
    ELSE below[o.kids][joinFolder(folder, outlineName(o))]

Blocks(outlines, folder, below) ==
    [i \in DOMAIN outlines |-> Block(outlines[i], folder, below)]

Walked(forest, below) ==
    [outlines \in forest |->
        [folder \in Names |-> FlattenSeq(Blocks(outlines, folder, below))]]

\* The definition of walkOutlines, unrolled.
LEMMA WalkSteps ==
  \A d \in 0 .. Depth : walkOutlines[d] = Walked(Forests[d], walkOutlines[d - 1])
  <1> DEFINE Step(f, d) == Walked(Forests[d], f[d - 1])
             Upto(n) == \E f : f = [d \in 0 .. n |-> Step(f, d)]
             S == {n \in Nat : Upto(n)}
  <1>1. \A f, g : Step(f, 0) = Step(g, 0)
    <2>1. SUFFICES ASSUME NEW b, NEW c PROVE Walked({<<>>}, b) = Walked({<<>>}, c)
      BY ForestsSteps
    <2>2. \A folder : Blocks(<<>>, folder, b) = Blocks(<<>>, folder, c)
      BY DEF Blocks
    <2>3. \A outlines \in {<<>>}, folder \in Names :
             FlattenSeq(Blocks(outlines, folder, b)) = FlattenSeq(Blocks(outlines, folder, c))
      BY <2>2
    <2> QED BY <2>3 DEF Walked
  <1> HIDE DEF Step
  <1>2. Upto(0)
    <2> DEFINE f == [d \in 0 .. 0 |-> Step(<<>>, 0)]
    <2>1. f = [d \in 0 .. 0 |-> Step(f, d)]
      <3>1. \A d \in 0 .. 0 : d = 0
        OBVIOUS
      <3>2. Step(<<>>, 0) = Step(f, 0)
        BY <1>1
      <3> HIDE DEF f
      <3>3. [d \in 0 .. 0 |-> Step(<<>>, 0)] = [d \in 0 .. 0 |-> Step(f, d)]
        BY <3>1, <3>2
      <3> QED BY <3>3 DEF f
    <2> HIDE DEF f
    <2> QED BY <2>1
  <1>3. ASSUME NEW n \in Nat, Upto(n) PROVE Upto(n + 1)
    <2>1. PICK f : f = [d \in 0 .. n |-> Step(f, d)]
      BY <1>3
    <2> DEFINE g == [d \in 0 .. n + 1 |-> IF d = n + 1 THEN Step(f, d) ELSE f[d]]
    <2>2. ASSUME NEW d \in 0 .. n + 1 PROVE g[d] = Step(g, d)
      <3>1. CASE d = 0
        <4>1. g[0] = f[0] /\ f[0] = Step(f, 0)
          BY <2>1
        <4> QED BY <1>1, <3>1, <4>1
      <3>2. CASE d # 0
        <4>1. d - 1 \in 0 .. n /\ g[d - 1] = f[d - 1]
          BY <3>2
        <4>2. d # n + 1 => d \in 0 .. n /\ g[d] = f[d] /\ f[d] = Step(f, d)
          BY <2>1
        <4>3. g[n + 1] = Step(f, n + 1)
          OBVIOUS
        <4>4. Step(g, d) = Step(f, d)
          <5> HIDE DEF g
          <5> QED BY <4>1 DEF Step
        <4> HIDE DEF g
        <4> QED BY <4>2, <4>3, <4>4
      <3> QED BY <3>1, <3>2
    <2>3. g = [d \in 0 .. n + 1 |-> Step(g, d)]
      <3> DEFINE h == [d \in 0 .. n + 1 |-> Step(g, d)]
      <3>1. \A d \in 0 .. n + 1 : g[d] = h[d]
        BY <2>2
      <3> QED BY <3>1
    <2> HIDE DEF g
    <2> QED BY <2>3
  <1>4. Depth \in Nat
    BY OPMLAssumption
  <1>5. Upto(Depth)
    <2> HIDE DEF Upto
    <2>1. S \in SUBSET Nat /\ 0 \in S /\ \A n \in S : n + 1 \in S
      BY <1>2, <1>3
    <2> HIDE DEF S
    <2>2. Depth \in S
      BY <1>4, <2>1, Counting
    <2> QED BY <2>2 DEF S
  <1>6. walkOutlines = CHOOSE f : f = [d \in 0 .. Depth |-> Step(f, d)]
    BY DEF walkOutlines, Step, Walked, Blocks, Block
  <1>7. walkOutlines = [d \in 0 .. Depth |-> Step(walkOutlines, d)]
    BY <1>5, <1>6
  <1>8. \A d \in 0 .. Depth : walkOutlines[d] = Step(walkOutlines, d)
    BY <1>7
  <1> QED BY <1>4, <1>8 DEF Step

\* The feeds of one outline.
LeafBlock(o, above, below) ==
    IF o.url # NoURL THEN <<[leaf |-> o, above |-> above]>>
    ELSE below[o.kids][Append(above, o)]

LeafBlocks(outlines, above, below) ==
    [i \in DOMAIN outlines |-> LeafBlock(outlines[i], above, below)]

Gathered(forest, below) ==
    [outlines \in forest |->
        [above \in Above |-> FlattenSeq(LeafBlocks(outlines, above, below))]]

\* The definition of LeavesBelow, unrolled.
LEMMA LeavesSteps ==
  \A d \in 0 .. Depth : LeavesBelow[d] = Gathered(Forests[d], LeavesBelow[d - 1])
  <1> DEFINE Step(f, d) == Gathered(Forests[d], f[d - 1])
             Upto(n) == \E f : f = [d \in 0 .. n |-> Step(f, d)]
             S == {n \in Nat : Upto(n)}
  <1>1. \A f, g : Step(f, 0) = Step(g, 0)
    <2>1. SUFFICES ASSUME NEW b, NEW c PROVE Gathered({<<>>}, b) = Gathered({<<>>}, c)
      BY ForestsSteps
    <2>2. \A above : LeafBlocks(<<>>, above, b) = LeafBlocks(<<>>, above, c)
      BY DEF LeafBlocks
    <2>3. \A outlines \in {<<>>}, above \in Above :
             FlattenSeq(LeafBlocks(outlines, above, b)) = FlattenSeq(LeafBlocks(outlines, above, c))
      BY <2>2
    <2> QED BY <2>3 DEF Gathered
  <1> HIDE DEF Step
  <1>2. Upto(0)
    <2> DEFINE f == [d \in 0 .. 0 |-> Step(<<>>, 0)]
    <2>1. f = [d \in 0 .. 0 |-> Step(f, d)]
      <3>1. \A d \in 0 .. 0 : d = 0
        OBVIOUS
      <3>2. Step(<<>>, 0) = Step(f, 0)
        BY <1>1
      <3> HIDE DEF f
      <3>3. [d \in 0 .. 0 |-> Step(<<>>, 0)] = [d \in 0 .. 0 |-> Step(f, d)]
        BY <3>1, <3>2
      <3> QED BY <3>3 DEF f
    <2> HIDE DEF f
    <2> QED BY <2>1
  <1>3. ASSUME NEW n \in Nat, Upto(n) PROVE Upto(n + 1)
    <2>1. PICK f : f = [d \in 0 .. n |-> Step(f, d)]
      BY <1>3
    <2> DEFINE g == [d \in 0 .. n + 1 |-> IF d = n + 1 THEN Step(f, d) ELSE f[d]]
    <2>2. ASSUME NEW d \in 0 .. n + 1 PROVE g[d] = Step(g, d)
      <3>1. CASE d = 0
        <4>1. g[0] = f[0] /\ f[0] = Step(f, 0)
          BY <2>1
        <4> QED BY <1>1, <3>1, <4>1
      <3>2. CASE d # 0
        <4>1. d - 1 \in 0 .. n /\ g[d - 1] = f[d - 1]
          BY <3>2
        <4>2. d # n + 1 => d \in 0 .. n /\ g[d] = f[d] /\ f[d] = Step(f, d)
          BY <2>1
        <4>3. g[n + 1] = Step(f, n + 1)
          OBVIOUS
        <4>4. Step(g, d) = Step(f, d)
          <5> HIDE DEF g
          <5> QED BY <4>1 DEF Step
        <4> HIDE DEF g
        <4> QED BY <4>2, <4>3, <4>4
      <3> QED BY <3>1, <3>2
    <2>3. g = [d \in 0 .. n + 1 |-> Step(g, d)]
      <3> DEFINE h == [d \in 0 .. n + 1 |-> Step(g, d)]
      <3>1. \A d \in 0 .. n + 1 : g[d] = h[d]
        BY <2>2
      <3> QED BY <3>1
    <2> HIDE DEF g
    <2> QED BY <2>3
  <1>4. Depth \in Nat
    BY OPMLAssumption
  <1>5. Upto(Depth)
    <2> HIDE DEF Upto
    <2>1. S \in SUBSET Nat /\ 0 \in S /\ \A n \in S : n + 1 \in S
      BY <1>2, <1>3
    <2> HIDE DEF S
    <2>2. Depth \in S
      BY <1>4, <2>1, Counting
    <2> QED BY <2>2 DEF S
  <1>6. LeavesBelow = CHOOSE f : f = [d \in 0 .. Depth |-> Step(f, d)]
    BY DEF LeavesBelow, Step, Gathered, LeafBlocks, LeafBlock
  <1>7. LeavesBelow = [d \in 0 .. Depth |-> Step(LeavesBelow, d)]
    BY <1>5, <1>6
  <1>8. \A d \in 0 .. Depth : LeavesBelow[d] = Step(LeavesBelow, d)
    BY <1>7
  <1> QED BY <1>4, <1>8 DEF Step

--------------------------------------------------------------------------------
(* What is read is what the document means. *)

\* What is nested less deep is a document too.
LEMMA Deeper ==
  ASSUME NEW d \in 0 .. Depth
  PROVE  Forests[d] \subseteq Forests[Depth]
  <1>1. Depth \in Nat
    BY OPMLAssumption
  <1> DEFINE Grows == {n \in Nat : n + 1 <= Depth => Forests[n] \subseteq Forests[n + 1]}
             Good == {n \in Nat : n <= Depth => Forests[Depth - n] \subseteq Forests[Depth]}
  <1>2. ASSUME NEW n \in Nat, n + 1 <= Depth
        PROVE  n + 1 \in 1 .. Depth /\ Forests[n + 1] = Seq(Outlines(Forests[n]))
    <2>1. n + 1 \in 1 .. Depth /\ n + 1 - 1 = n
      BY <1>1, <1>2
    <2> QED BY <2>1, ForestsSteps
  <1>3. 0 \in Grows
    <2>1. SUFFICES ASSUME 1 <= Depth PROVE Forests[0] \subseteq Forests[1]
      OBVIOUS
    <2>2. 1 \in 1 .. Depth /\ 1 - 1 = 0
      BY <1>1, <2>1
    <2>3. Forests[1] = Seq(Outlines(Forests[0])) /\ Forests[0] = {<<>>}
      BY <2>2, ForestsSteps
    <2> QED BY <2>3, EmptySeq
  <1>4. ASSUME NEW n \in Grows PROVE n + 1 \in Grows
    <2>1. SUFFICES ASSUME n + 2 <= Depth PROVE Forests[n + 1] \subseteq Forests[n + 1 + 1]
      BY <1>4
    <2>2. n \in Nat /\ n + 1 <= Depth /\ n + 1 \in Nat /\ n + 1 + 1 <= Depth
          /\ Forests[n] \subseteq Forests[n + 1]
      BY <1>1, <1>4, <2>1
    <2>3. /\ Forests[n + 1] = Seq(Outlines(Forests[n]))
          /\ Forests[n + 1 + 1] = Seq(Outlines(Forests[n + 1]))
      BY <1>2, <2>2
    <2>4. Outlines(Forests[n]) \subseteq Outlines(Forests[n + 1])
      BY <2>2 DEF Outlines
    <2> QED BY <2>3, <2>4, SeqMonotonic
  <1>5. ASSUME NEW n \in Nat PROVE n \in Grows
    <2> HIDE DEF Grows
    <2>1. Grows \in SUBSET Nat
      BY DEF Grows
    <2> QED BY <1>3, <1>4, <2>1, Counting
  <1>6. 0 \in Good
    BY <1>1
  <1>7. ASSUME NEW n \in Good PROVE n + 1 \in Good
    <2>1. SUFFICES ASSUME n + 1 <= Depth
                   PROVE  Forests[Depth - (n + 1)] \subseteq Forests[Depth]
      OBVIOUS
    <2>2. PICK m \in Nat : m = Depth - (n + 1) /\ m + 1 = Depth - n /\ m + 1 <= Depth
      BY <1>1, <1>7, <2>1
    <2>3. Forests[m] \subseteq Forests[m + 1]
      BY <1>5, <2>2
    <2>4. Forests[Depth - n] \subseteq Forests[Depth]
      BY <1>1, <1>7, <2>1
    <2> HIDE DEF Good, Grows
    <2> QED BY <2>2, <2>3, <2>4
  <1>8. PICK n \in Nat : n <= Depth /\ d = Depth - n
    <2>1. Depth - d \in Nat /\ Depth - d <= Depth /\ d = Depth - (Depth - d)
      BY <1>1
    <2> QED BY <2>1
  <1>9. n \in Good
    <2> HIDE DEF Good
    <2>1. Good \in SUBSET Nat
      BY DEF Good
    <2> QED BY <1>6, <1>7, <2>1, Counting
  <1> QED BY <1>8, <1>9

AnyOutline == Outlines(Forests[Depth])

LEMMA AboveIs == Above = Seq(AnyOutline)
  BY DEF Above, AnyOutline, Outlines

LEMMA OutlineFields ==
  ASSUME NEW o \in AnyOutline
  PROVE  /\ outlineName(o) \in Names /\ o.title \in Names /\ o.text \in Names
         /\ o.url \in Sites /\ o.site \in Sites
         /\ o.url # NoURL => o.url \in URLs
  BY DEF AnyOutline, Outlines, outlineName, Sites

\* The parts of a path.
Parts(above) ==
    [i \in DOMAIN above |-> IF unwrapFeedOutline(above[i]) THEN <<>> ELSE outlineName(above[i])]

LEMMA PathType ==
  ASSUME NEW above \in Above
  PROVE  /\ Parts(above) \in Seq(Seq(Nat)) /\ Len(Parts(above)) = Len(above)
         /\ PathOf(above) \in Names
  <1>1. /\ Len(above) \in Nat /\ DOMAIN above = 1 .. Len(above)
        /\ \A i \in 1 .. Len(above) : above[i] \in AnyOutline
    BY AboveIs
  <1>2. \A i \in 1 .. Len(above) : Parts(above)[i] \in Seq(Nat)
    BY <1>1, OutlineFields, EmptySeq DEF Parts, Names
  <1>3. Parts(above) \in Seq(Seq(Nat)) /\ Len(Parts(above)) = Len(above)
    <2>1. DOMAIN Parts(above) = 1 .. Len(above)
          /\ Parts(above) = [i \in 1 .. Len(above) |-> Parts(above)[i]]
      BY <1>1 DEF Parts
    <2> QED BY <1>1, <1>2, <2>1
  <1>4. PathOf(above) = FlattenSeq(Parts(above))
    BY DEF PathOf, Parts
  <1> QED BY <1>3, <1>4, FlattenType DEF Names

\* An outline adds its name to the path below it, a wrapper nothing.
LEMMA PathSteps ==
  ASSUME NEW above \in Above, NEW o \in AnyOutline
  PROVE  /\ Append(above, o) \in Above
         /\ PathOf(Append(above, o))
                = PathOf(above) \o (IF unwrapFeedOutline(o) THEN <<>> ELSE outlineName(o))
  <1> DEFINE part == IF unwrapFeedOutline(o) THEN <<>> ELSE outlineName(o)
             long == Append(above, o)
  <1>1. /\ above \in Seq(AnyOutline) /\ Len(above) \in Nat /\ DOMAIN above = 1 .. Len(above)
        /\ \A i \in 1 .. Len(above) : above[i] \in AnyOutline
    BY AboveIs
  <1>2. /\ long \in Seq(AnyOutline) /\ DOMAIN long = 1 .. Len(above) + 1
        /\ \A i \in 1 .. Len(above) : long[i] = above[i]
        /\ long[Len(above) + 1] = o
    BY <1>1
  <1>3. part \in Seq(Nat)
    BY OutlineFields, EmptySeq DEF Names
  <1>5. Parts(above) \in Seq(Seq(Nat)) /\ Len(Parts(above)) = Len(above)
    BY PathType
  <1> HIDE DEF long
  <1>6. Parts(long) = Append(Parts(above), part)
    <2> DEFINE app == Append(Parts(above), part)
    <2>1. /\ app \in Seq(Seq(Nat)) /\ Len(app) = Len(above) + 1
          /\ app[Len(above) + 1] = part
          /\ \A i \in 1 .. Len(above) : app[i] = Parts(above)[i]
      <3> HIDE DEF part
      <3> QED BY <1>3, <1>5, AppendProperties
    <2>2. DOMAIN app = 1 .. Len(above) + 1 /\ app = [i \in DOMAIN app |-> app[i]]
      BY <2>1
    <2> HIDE DEF app
    <2>3. Parts(long) = [i \in 1 .. Len(above) + 1 |->
              IF unwrapFeedOutline(long[i]) THEN <<>> ELSE outlineName(long[i])]
      BY <1>2 DEF Parts
    <2>4. \A i \in 1 .. Len(above) :
             Parts(above)[i] = IF unwrapFeedOutline(above[i]) THEN <<>> ELSE outlineName(above[i])
      BY <1>1 DEF Parts
    <2>5. ASSUME NEW i \in 1 .. Len(above) + 1
          PROVE  app[i] = IF unwrapFeedOutline(long[i]) THEN <<>> ELSE outlineName(long[i])
      <3>1. CASE i = Len(above) + 1
        BY <1>2, <2>1, <3>1
      <3>2. CASE i # Len(above) + 1
        <4>1. i \in 1 .. Len(above)
          BY <1>1, <3>2
        <4> QED BY <1>2, <2>1, <2>4, <4>1
      <3> QED BY <3>1, <3>2
    <2>6. Parts(long) = app
      BY <2>2, <2>3, <2>5
    <2> QED BY <2>6 DEF app
  <1>7. PathOf(above) = FlattenSeq(Parts(above)) /\ PathOf(long) = FlattenSeq(Parts(long))
    BY DEF PathOf, Parts
  <1> HIDE DEF part
  <1>8. FlattenSeq(Append(Parts(above), part)) = FlattenSeq(Parts(above)) \o part
    BY <1>3, <1>5, FlattenAppend
  <1> QED BY <1>2, <1>6, <1>7, <1>8, AboveIs DEF long, part

LEMMA PathOfNone == <<>> \in Above /\ PathOf(<<>>) = <<>>
  <1>1. Parts(<<>>) = <<>>
    BY DEF Parts
  <1>2. PathOf(<<>>) = FlattenSeq(Parts(<<>>))
    BY DEF PathOf, Parts
  <1> QED BY <1>1, <1>2, FlattenEmpty, AboveIs, EmptySeq

\* Feeds and what they stand under.
Placed == [leaf : {o \in AnyOutline : o.url # NoURL}, above : Above]

MeantOf(leaves) ==
    [i \in DOMAIN leaves |-> Entry(leaves[i].leaf, PathOf(leaves[i].above))]

\* The meaning of two lists of feeds in a row.
LEMMA MeantConcat ==
  ASSUME NEW s \in Seq(Placed), NEW t \in Seq(Placed)
  PROVE  /\ MeantOf(s) \in Seq(Entries)
         /\ MeantOf(s \o t) = MeantOf(s) \o MeantOf(t)
  <1> DEFINE E(p) == Entry(p.leaf, PathOf(p.above))
  <1>1. ASSUME NEW p \in Placed PROVE E(p) \in Entries
    <2>1. p.leaf \in AnyOutline /\ p.leaf.url # NoURL /\ p.above \in Above
      BY DEF Placed
    <2>2. PathOf(p.above) \in Names
      BY <2>1, PathType
    <2> QED BY <2>1, <2>2, OutlineFields DEF Entry, Entries
  <1>2. \A x : MeantOf(x) = [i \in DOMAIN x |-> E(x[i])]
    BY DEF MeantOf
  <1> HIDE DEF E
  <1>3. \A x \in Seq(Placed) : MeantOf(x) \in Seq(Entries) /\ Len(MeantOf(x)) = Len(x)
                               /\ \A i \in 1 .. Len(x) : MeantOf(x)[i] = E(x[i])
    BY <1>1, <1>2
  <1>4. /\ s \o t \in Seq(Placed) /\ Len(s \o t) = Len(s) + Len(t)
        /\ \A i \in 1 .. Len(s) + Len(t) :
              (s \o t)[i] = IF i <= Len(s) THEN s[i] ELSE t[i - Len(s)]
    BY ConcatProperties
  <1> DEFINE ms == MeantOf(s)
             mt == MeantOf(t)
             st == s \o t
  <1>5. /\ ms \in Seq(Entries) /\ mt \in Seq(Entries) /\ Len(ms) = Len(s) /\ Len(mt) = Len(t)
        /\ \A i \in 1 .. Len(s) : ms[i] = E(s[i])
        /\ \A i \in 1 .. Len(t) : mt[i] = E(t[i])
        /\ MeantOf(st) \in Seq(Entries) /\ Len(MeantOf(st)) = Len(s) + Len(t)
        /\ \A i \in 1 .. Len(s) + Len(t) : MeantOf(st)[i] = E(st[i])
        /\ Len(s) \in Nat /\ Len(t) \in Nat
    <2>1. MeantOf(st) \in Seq(Entries) /\ Len(MeantOf(st)) = Len(st)
          /\ \A i \in 1 .. Len(st) : MeantOf(st)[i] = E(st[i])
      <3>1. st \in Seq(Placed)
        BY <1>4
      <3> HIDE DEF st
      <3> QED BY <1>3, <3>1
    <2>2. Len(st) = Len(s) + Len(t)
      BY <1>4
    <2> HIDE DEF st
    <2> QED BY <1>3, <2>1, <2>2
  <1>6. /\ ms \o mt \in Seq(Entries) /\ Len(ms \o mt) = Len(s) + Len(t)
        /\ \A i \in 1 .. Len(s) + Len(t) :
              (ms \o mt)[i] = IF i <= Len(s) THEN ms[i] ELSE mt[i - Len(s)]
    <2>1. ms \in Seq(Entries) /\ mt \in Seq(Entries) /\ Len(ms) = Len(s) /\ Len(mt) = Len(t)
      BY <1>5
    <2> HIDE DEF ms, mt, st
    <2>2. /\ ms \o mt \in Seq(Entries) /\ Len(ms \o mt) = Len(ms) + Len(mt)
          /\ \A i \in 1 .. Len(ms) + Len(mt) :
                (ms \o mt)[i] = IF i <= Len(ms) THEN ms[i] ELSE mt[i - Len(ms)]
      BY <2>1, ConcatProperties
    <2> QED BY <2>1, <2>2
  <1> HIDE DEF ms, mt
  <1>7. ASSUME NEW i \in 1 .. Len(s) + Len(t) PROVE MeantOf(st)[i] = (ms \o mt)[i]
    <2>1. CASE i <= Len(s)
      <3>1. i \in 1 .. Len(s) /\ st[i] = s[i]
        BY <1>4, <1>5, <2>1
      <3> HIDE DEF st
      <3> QED BY <1>5, <1>6, <2>1, <3>1
    <2>2. CASE ~ (i <= Len(s))
      <3>1. i - Len(s) \in 1 .. Len(t) /\ st[i] = t[i - Len(s)]
        BY <1>4, <1>5, <2>2
      <3> HIDE DEF st
      <3> QED BY <1>5, <1>6, <2>2, <3>1
    <2> QED BY <2>1, <2>2
  <1> HIDE DEF st
  <1>8. MeantOf(st) = ms \o mt
    BY <1>5, <1>6, <1>7, SeqEqual
  <1> QED BY <1>5, <1>8 DEF ms, mt, st

\* One step of the walk.
LEMMA WalkAt ==
  ASSUME NEW d \in 0 .. Depth, NEW outlines \in Forests[d], NEW folder \in Names
  PROVE  walkOutlines[d][outlines][folder]
             = FlattenSeq(Blocks(outlines, folder, walkOutlines[d - 1]))
  <1>1. PICK below : below = walkOutlines[d - 1]
    OBVIOUS
  <1>2. walkOutlines[d] = Walked(Forests[d], below)
    BY <1>1, WalkSteps
  <1>3. Walked(Forests[d], below)[outlines][folder] = FlattenSeq(Blocks(outlines, folder, below))
    BY DEF Walked
  <1> QED BY <1>1, <1>2, <1>3

\* One step of the reference.
LEMMA LeavesAt ==
  ASSUME NEW d \in 0 .. Depth, NEW outlines \in Forests[d], NEW above \in Above
  PROVE  LeavesBelow[d][outlines][above]
             = FlattenSeq(LeafBlocks(outlines, above, LeavesBelow[d - 1]))
  <1>1. PICK below : below = LeavesBelow[d - 1]
    OBVIOUS
  <1>2. LeavesBelow[d] = Gathered(Forests[d], below)
    BY <1>1, LeavesSteps
  <1>3. Gathered(Forests[d], below)[outlines][above]
            = FlattenSeq(LeafBlocks(outlines, above, below))
    BY DEF Gathered
  <1> QED BY <1>1, <1>2, <1>3

LEMMA NoOutlines ==
  ASSUME NEW d \in 0 .. Depth
  PROVE  /\ <<>> \in Forests[d]
         /\ \A folder \in Names : walkOutlines[d][<<>>][folder] = <<>>
         /\ \A above \in Above : LeavesBelow[d][<<>>][above] = <<>>
  <1>1. <<>> \in Forests[d]
    <2>1. d = 0 \/ d \in 1 .. Depth
      BY OPMLAssumption
    <2> QED BY <2>1, ForestsSteps, EmptySeq
  <1>2. \A folder, below : Blocks(<<>>, folder, below) = <<>>
    BY DEF Blocks
  <1>3. \A above, below : LeafBlocks(<<>>, above, below) = <<>>
    BY DEF LeafBlocks
  <1> QED BY <1>1, <1>2, <1>3, WalkAt, LeavesAt, FlattenEmpty

\* The forests below an outline of one that is d deep.
LEMMA ForestsBelow ==
  ASSUME NEW d \in 1 .. Depth, NEW b, b = d - 1,
         NEW outlines \in Forests[d], NEW i \in DOMAIN outlines
  PROVE  /\ b \in 0 .. Depth /\ DOMAIN outlines = 1 .. Len(outlines)
         /\ Len(outlines) \in Nat
         /\ outlines[i] \in AnyOutline /\ outlines[i].kids \in Forests[b]
         /\ outlines[i].kids # <<>> => b \in 1 .. Depth
  <1>1. b \in 0 .. Depth /\ (b # 0 => b \in 1 .. Depth)
    BY OPMLAssumption
  <1>2. Forests[d] = Seq(Outlines(Forests[b]))
    BY ForestsSteps
  <1>3. DOMAIN outlines = 1 .. Len(outlines) /\ Len(outlines) \in Nat
        /\ outlines[i] \in Outlines(Forests[b])
    BY <1>2
  <1>4. Forests[b] \subseteq Forests[Depth]
    BY <1>1, Deeper
  <1>5. outlines[i] \in AnyOutline /\ outlines[i].kids \in Forests[b]
    BY <1>3, <1>4 DEF AnyOutline, Outlines
  <1>6. b = 0 => outlines[i].kids = <<>>
    BY <1>5, ForestsSteps
  <1> QED BY <1>1, <1>3, <1>5, <1>6

LEMMA MeantOne ==
  ASSUME NEW p \in Placed
  PROVE  <<p>> \in Seq(Placed) /\ MeantOf(<<p>>) = <<Entry(p.leaf, PathOf(p.above))>>
  BY DEF MeantOf

\* The walker has the folders' names joined where the meaning has the outlines.
LEMMA WalkIsMeant ==
  ASSUME NEW d \in 0 .. Depth
  PROVE  \A outlines \in Forests[d], above \in Above :
            /\ LeavesBelow[d][outlines][above] \in Seq(Placed)
            /\ walkOutlines[d][outlines][PathOf(above)]
                   = MeantOf(LeavesBelow[d][outlines][above])
  <1> DEFINE Agree(n) ==
                \A outlines \in Forests[n], above \in Above :
                   /\ LeavesBelow[n][outlines][above] \in Seq(Placed)
                   /\ walkOutlines[n][outlines][PathOf(above)]
                          = MeantOf(LeavesBelow[n][outlines][above])
             Good == {n \in Nat : n <= Depth => Agree(n)}
  <1>1. Depth \in Nat
    BY OPMLAssumption
  <1>2. 0 \in Good
    <2>1. SUFFICES ASSUME NEW outlines \in Forests[0], NEW above \in Above
                   PROVE  /\ LeavesBelow[0][outlines][above] \in Seq(Placed)
                          /\ walkOutlines[0][outlines][PathOf(above)]
                                 = MeantOf(LeavesBelow[0][outlines][above])
      OBVIOUS
    <2>2. outlines = <<>> /\ 0 \in 0 .. Depth
      BY <1>1, ForestsSteps
    <2>3. PathOf(above) \in Names
      BY PathType
    <2>4. LeavesBelow[0][outlines][above] = <<>> /\ walkOutlines[0][outlines][PathOf(above)] = <<>>
      BY <2>2, <2>3, NoOutlines
    <2>5. MeantOf(<<>>) = <<>> /\ <<>> \in Seq(Placed)
      BY EmptySeq DEF MeantOf
    <2> QED BY <2>4, <2>5
  <1>3. ASSUME NEW n \in Good PROVE n + 1 \in Good
    <2>1. SUFFICES ASSUME n + 1 <= Depth, NEW outlines \in Forests[n + 1], NEW above \in Above
                   PROVE  /\ LeavesBelow[n + 1][outlines][above] \in Seq(Placed)
                          /\ walkOutlines[n + 1][outlines][PathOf(above)]
                                 = MeantOf(LeavesBelow[n + 1][outlines][above])
      OBVIOUS
    <2>2. n \in Nat /\ n + 1 \in 1 .. Depth /\ n + 1 \in 0 .. Depth /\ n + 1 - 1 = n
      BY <1>1, <1>3, <2>1
    <2>3. Agree(n)
      <3> HIDE DEF Agree
      <3> QED BY <1>1, <1>3, <2>1
    <2> HIDE DEF Agree
    <2> DEFINE L == LeavesBelow[n]
               W == walkOutlines[n]
               path == PathOf(above)
               seqs == LeafBlocks(outlines, above, L)
               images == Blocks(outlines, path, W)
               h == [s \in Seq(Placed) |-> MeantOf(s)]
    <2>4. ASSUME NEW i \in DOMAIN outlines
          PROVE  /\ LeafBlock(outlines[i], above, L) \in Seq(Placed)
                 /\ Block(outlines[i], path, W) = MeantOf(LeafBlock(outlines[i], above, L))
      <3> DEFINE o == outlines[i]
                 into == Append(above, o)
      <3>1. /\ o \in AnyOutline /\ o.kids \in Forests[n]
            /\ o.kids # <<>> => n \in 1 .. Depth
        <4> HIDE DEF Agree
        <4>1. PICK d1 \in 1 .. Depth : d1 = n + 1 /\ n = d1 - 1
          BY <1>1, <2>2
        <4> QED BY <4>1, ForestsBelow
      <3>2. /\ path \in Names /\ into \in Above
            /\ PathOf(into) = path \o (IF unwrapFeedOutline(o) THEN <<>> ELSE outlineName(o))
        BY <3>1, PathSteps, PathType
      <3> HIDE DEF o, path, into
      <3>3. CASE o.url # NoURL
        <4> DEFINE p == [leaf |-> o, above |-> above]
        <4>1. p \in Placed /\ p.leaf = o /\ p.above = above
          BY <3>1, <3>3 DEF Placed
        <4>2. LeafBlock(o, above, L) = <<p>> /\ Block(o, path, W) = <<Entry(o, path)>>
          BY <3>3 DEF LeafBlock, Block
        <4> HIDE DEF p
        <4>3. MeantOf(<<p>>) = <<Entry(p.leaf, PathOf(p.above))>> /\ <<p>> \in Seq(Placed)
          BY <4>1, MeantOne
        <4> QED BY <4>1, <4>2, <4>3 DEF o, path
      <3>4. CASE o.url = NoURL
        <4>1. LeafBlock(o, above, L) = L[o.kids][into]
          BY <3>4 DEF LeafBlock, into
        <4>2. /\ L[o.kids][into] \in Seq(Placed)
              /\ W[o.kids][PathOf(into)] = MeantOf(L[o.kids][into])
          BY <2>3, <3>1, <3>2 DEF Agree
        <4>3. CASE ~ unwrapFeedOutline(o)
          <5>1. Block(o, path, W) = W[o.kids][PathOf(into)]
            BY <3>2, <3>4, <4>3 DEF Block, joinFolder
          <5> QED BY <4>1, <4>2, <5>1 DEF o, path
        <4>4. CASE unwrapFeedOutline(o)
          <5> DEFINE k == o.kids[1]
                     p == [leaf |-> k, above |-> into]
          <5>1. Len(o.kids) = 1 /\ k.url # NoURL
            BY <4>4 DEF unwrapFeedOutline
          <5>2. o.kids # <<>> /\ n \in 1 .. Depth /\ n \in 0 .. Depth
            <6>1. o.kids # <<>>
              BY <5>1
            <6> QED BY <1>1, <2>2, <3>1, <6>1
          <5>3. Forests[n] = Seq(Outlines(Forests[n - 1]))
            BY <5>2, ForestsSteps
          <5>4. DOMAIN o.kids = {1} /\ o.kids = <<k>> /\ 1 \in DOMAIN o.kids
            BY <3>1, <5>1, <5>3
          <5>5. k \in AnyOutline
            BY <3>1, <5>2, <5>4, ForestsBelow
          <5>6. p \in Placed /\ p.leaf = k /\ p.above = into
            BY <3>2, <5>1, <5>5 DEF Placed
          <5>7. LeafBlock(k, into, LeavesBelow[n - 1]) = <<p>>
            BY <5>1 DEF LeafBlock
          <5>8. LeafBlocks(o.kids, into, LeavesBelow[n - 1])
                    = <<LeafBlock(k, into, LeavesBelow[n - 1])>>
            BY <5>4 DEF LeafBlocks
          <5> HIDE DEF p
          <5>9. <<p>> \in Seq(Placed) /\ MeantOf(<<p>>) = <<Entry(p.leaf, PathOf(p.above))>>
            BY <5>6, MeantOne
          <5>10. L[o.kids][into] = <<p>>
            <6>1. L[o.kids][into] = FlattenSeq(LeafBlocks(o.kids, into, LeavesBelow[n - 1]))
              BY <3>1, <3>2, <5>2, LeavesAt
            <6>2. FlattenSeq(<< <<p>> >>) = <<p>>
              BY <5>9, FlattenOne
            <6> QED BY <5>7, <5>8, <6>1, <6>2
          <5>11. PathOf(into) = path
            BY <3>2, <4>4, ConcatEmptySeq DEF Names
          <5>12. Block(o, path, W) = <<Entry(k, path)>>
            BY <3>4, <4>4 DEF Block
          <5> HIDE DEF k
          <5> QED BY <4>1, <5>6, <5>9, <5>10, <5>11, <5>12 DEF o, path
        <4> QED BY <4>3, <4>4
      <3> QED BY <3>3, <3>4
    <2>5. /\ Len(outlines) \in Nat /\ DOMAIN outlines = 1 .. Len(outlines)
          /\ path \in Names
      <3>1. Forests[n + 1] = Seq(Outlines(Forests[n]))
        BY <2>2, ForestsSteps
      <3>2. path \in Names
        BY PathType
      <3> HIDE DEF path
      <3> QED BY <3>1, <3>2
    <2>6. /\ seqs = [i \in 1 .. Len(outlines) |-> LeafBlock(outlines[i], above, L)]
          /\ images = [i \in 1 .. Len(outlines) |-> Block(outlines[i], path, W)]
      BY <2>5 DEF LeafBlocks, Blocks
    <2>7. /\ LeavesBelow[n + 1][outlines][above] = FlattenSeq(seqs)
          /\ walkOutlines[n + 1][outlines][path] = FlattenSeq(images)
      BY <2>2, <2>5, LeavesAt, WalkAt
    <2> HIDE DEF seqs, images, path, L, W
    <2>8. seqs \in Seq(Seq(Placed)) /\ Len(seqs) = Len(outlines)
      BY <2>4, <2>5, <2>6
    <2>9. \A i \in 1 .. Len(outlines) : seqs[i] \in Seq(Placed) /\ images[i] = MeantOf(seqs[i])
      BY <2>4, <2>5, <2>6
    <2>10. \A s \in Seq(Placed) : MeantOf(s) \in Seq(Entries)
      BY MeantConcat
    <2>11. images \in Seq(Seq(Entries)) /\ Len(images) = Len(outlines)
      <3>1. \A i \in 1 .. Len(outlines) : images[i] \in Seq(Entries)
        BY <2>9, <2>10
      <3>2. images = [i \in 1 .. Len(outlines) |-> images[i]]
        BY <2>6
      <3> QED BY <2>5, <3>1, <3>2
    <2>12. /\ h[<<>>] = <<>>
           /\ \A s, t \in Seq(Placed) : h[s \o t] = h[s] \o h[t]
           /\ \A i \in 1 .. Len(seqs) : images[i] = h[seqs[i]]
      <3>1. MeantOf(<<>>) = <<>> /\ <<>> \in Seq(Placed)
        BY EmptySeq DEF MeantOf
      <3>2. \A s, t \in Seq(Placed) :
               s \o t \in Seq(Placed) /\ MeantOf(s \o t) = MeantOf(s) \o MeantOf(t)
        BY MeantConcat, ConcatProperties
      <3> QED BY <2>8, <2>9, <3>1, <3>2
    <2>13. FlattenSeq(seqs) \in Seq(Placed)
      BY <2>8, FlattenType
    <2>14. FlattenSeq(images) = h[FlattenSeq(seqs)]
      <3> HIDE DEF h
      <3>1. Respects(h, Placed) /\ Images(seqs, h, images)
        BY <2>8, <2>11, <2>12 DEF Respects, Images
      <3> QED BY <2>8, <2>11, <3>1, FlattenImages
    <2> QED BY <2>7, <2>13, <2>14 DEF path
  <1>4. d \in Good
    <2> HIDE DEF Good
    <2>1. Good \in SUBSET Nat /\ d \in Nat
      BY DEF Good
    <2> QED BY <1>2, <1>3, <2>1, Counting
  <1> QED BY <1>4

\* What is read from a document is what it means.
LEMMA ParseMeans ==
  ASSUME NEW document \in Forests[Depth]
  PROVE  /\ Parse(document) \in Seq(Entries)
         /\ Parse(document) = MeantOf(LeavesBelow[Depth][document][<<>>])
  <1>1. Depth \in 0 .. Depth
    BY OPMLAssumption
  <1>2. /\ LeavesBelow[Depth][document][<<>>] \in Seq(Placed)
        /\ Parse(document) = MeantOf(LeavesBelow[Depth][document][<<>>])
    BY <1>1, WalkIsMeant, PathOfNone DEF Parse
  <1> QED BY <1>2, MeantConcat

--------------------------------------------------------------------------------
(* What is written is read again. *)

LEMMA GroupFields ==
  ASSUME NEW d \in 0 .. Depth, NEW folder \in Names, NEW leaves \in Forests[d]
  PROVE  /\ Group(folder, leaves) \in Outlines(Forests[d])
         /\ outlineName(Group(folder, leaves)) = folder
         /\ Group(folder, leaves).url = NoURL /\ Group(folder, leaves).kids = leaves
  BY DEF Group, Outlines, outlineName, Sites

LEMMA LeafFields ==
  ASSUME NEW d \in 0 .. Depth, NEW r \in Rows
  PROVE  /\ Leaf(r) \in Outlines(Forests[d])
         /\ outlineName(Leaf(r)) = r.title
         /\ Leaf(r).url # NoURL /\ Leaf(r).kids = <<>>
  BY NoOutlines, OPMLAssumption DEF Leaf, Outlines, outlineName, Sites, Rows

\* Every folder is the path of something.
LEMMA WalkType ==
  ASSUME NEW d \in 0 .. Depth, NEW outlines \in Forests[d], NEW folder \in Names
  PROVE  walkOutlines[d][outlines][folder] \in Seq(Entries)
  <1> DEFINE o == Group(folder, <<>>)
  <1>1. /\ o \in AnyOutline /\ outlineName(o) = folder /\ o.kids = <<>>
    <2>1. Depth \in 0 .. Depth
      BY OPMLAssumption
    <2> QED BY <2>1, GroupFields, NoOutlines DEF AnyOutline
  <1> HIDE DEF o
  <1>2. ~ unwrapFeedOutline(o)
    BY <1>1 DEF unwrapFeedOutline
  <1>3. PICK above \in Above : PathOf(above) = <<>> \o folder
    BY <1>1, <1>2, PathOfNone, PathSteps
  <1>4. PathOf(above) = folder
    BY <1>3, ConcatEmptySeq DEF Names
  <1>5. /\ LeavesBelow[d][outlines][above] \in Seq(Placed)
        /\ walkOutlines[d][outlines][PathOf(above)]
               = MeantOf(LeavesBelow[d][outlines][above])
    BY WalkIsMeant
  <1> QED BY <1>4, <1>5, MeantConcat

LEMMA BlocksType ==
  ASSUME NEW d \in 1 .. Depth, NEW b, b = d - 1,
         NEW outlines \in Forests[d], NEW folder \in Names
  PROVE  /\ Blocks(outlines, folder, walkOutlines[b]) \in Seq(Seq(Entries))
         /\ Len(Blocks(outlines, folder, walkOutlines[b])) = Len(outlines)
         /\ \A i \in 1 .. Len(outlines) :
               Blocks(outlines, folder, walkOutlines[b])[i]
                   = Block(outlines[i], folder, walkOutlines[b])
         /\ walkOutlines[d][outlines][folder]
               = FlattenSeq(Blocks(outlines, folder, walkOutlines[b]))
  <1> DEFINE W == walkOutlines[b]
             blocks == Blocks(outlines, folder, W)
  <1>1. walkOutlines[d][outlines][folder] = FlattenSeq(blocks)
    <2>1. d \in 0 .. Depth
      OBVIOUS
    <2> QED BY <2>1, WalkAt
  <1>2. Forests[d] = Seq(Outlines(Forests[b]))
    BY ForestsSteps
  <1>3. DOMAIN outlines = 1 .. Len(outlines) /\ Len(outlines) \in Nat
    BY <1>2
  <1>4. ASSUME NEW i \in DOMAIN outlines PROVE Block(outlines[i], folder, W) \in Seq(Entries)
    <2> DEFINE o == outlines[i]
    <2>1. /\ b \in 0 .. Depth /\ o \in AnyOutline /\ o.kids \in Forests[b]
          /\ o.kids # <<>> => b \in 1 .. Depth
      BY ForestsBelow
    <2>2. outlineName(o) \in Names /\ (o.url # NoURL => o.url \in URLs) /\ o.site \in Sites
      BY <2>1, OutlineFields
    <2> HIDE DEF o
    <2>3. CASE o.url # NoURL
      <3>1. Entry(o, folder) \in Entries
        BY <2>2, <2>3 DEF Entry, Entries
      <3>2. Block(o, folder, W) = <<Entry(o, folder)>>
        BY <2>3 DEF Block
      <3> QED BY <3>1, <3>2 DEF o
    <2>4. CASE o.url = NoURL /\ unwrapFeedOutline(o)
      <3>1. Len(o.kids) = 1 /\ o.kids[1].url # NoURL
        BY <2>4 DEF unwrapFeedOutline
      <3>2. b \in 1 .. Depth
        <4>1. o.kids # <<>>
          BY <3>1
        <4> QED BY <2>1, <4>1
      <3>3. Forests[b] = Seq(Outlines(Forests[b - 1]))
        BY <3>2, ForestsSteps
      <3>4. 1 \in DOMAIN o.kids
        BY <2>1, <3>1, <3>3
      <3>5. o.kids[1] \in AnyOutline
        BY <2>1, <3>2, <3>4, ForestsBelow
      <3>6. Entry(o.kids[1], folder) \in Entries
        BY <3>1, <3>5, OutlineFields DEF Entry, Entries
      <3>7. Block(o, folder, W) = <<Entry(o.kids[1], folder)>>
        BY <2>4 DEF Block
      <3> QED BY <3>6, <3>7 DEF o
    <2>5. CASE o.url = NoURL /\ ~ unwrapFeedOutline(o)
      <3>1. Block(o, folder, W) = W[o.kids][folder \o outlineName(o)]
        BY <2>5 DEF Block, joinFolder
      <3>2. folder \o outlineName(o) \in Names
        BY <2>2 DEF Names
      <3> QED BY <2>1, <3>1, <3>2, WalkType DEF o
    <2> QED BY <2>3, <2>4, <2>5
  <1> HIDE DEF W
  <1>5. blocks = [i \in 1 .. Len(outlines) |-> Block(outlines[i], folder, W)]
    BY <1>3 DEF Blocks
  <1> QED BY <1>1, <1>3, <1>4, <1>5 DEF W

\* A document has room for folders with feeds in them.
LEMMA DepthFacts ==
  /\ Depth \in 1 .. Depth /\ Depth - 1 \in 1 .. Depth /\ Depth - 1 \in 0 .. Depth
  /\ <<>> \in Names
  /\ Forests[Depth] = Seq(Outlines(Forests[Depth - 1]))
  <1>1. Depth \in 1 .. Depth /\ Depth - 1 \in 1 .. Depth /\ Depth - 1 \in 0 .. Depth
    BY OPMLAssumption
  <1> QED BY <1>1, ForestsSteps, EmptySeq DEF Names

\* Two documents in a row are read one after the other.
LEMMA ParseConcat ==
  ASSUME NEW s \in Forests[Depth], NEW t \in Forests[Depth]
  PROVE  s \o t \in Forests[Depth] /\ Parse(s \o t) = Parse(s) \o Parse(t)
  <1> DEFINE b == Depth - 1
             B(x) == Blocks(x, <<>>, walkOutlines[b])
             O == Outlines(Forests[b])
             st == s \o t
             own(o) == Block(o, <<>>, walkOutlines[b])
  <1>1. \A x \in Forests[Depth] :
           /\ B(x) \in Seq(Seq(Entries)) /\ Len(B(x)) = Len(x)
           /\ \A i \in 1 .. Len(x) : B(x)[i] = own(x[i])
           /\ Parse(x) = FlattenSeq(B(x))
    BY DepthFacts, BlocksType DEF Parse
  <1>2. Forests[Depth] = Seq(O)
    BY DepthFacts
  <1> HIDE DEF b, B, O, own
  <1>3. /\ st \in Seq(O) /\ Len(st) = Len(s) + Len(t) /\ Len(s) \in Nat /\ Len(t) \in Nat
        /\ \A i \in 1 .. Len(s) + Len(t) : st[i] = IF i <= Len(s) THEN s[i] ELSE t[i - Len(s)]
    BY <1>2, ConcatProperties
  <1> HIDE DEF st
  <1> DEFINE bs == B(s)
             bt == B(t)
             bst == B(st)
  <1>4. /\ bs \in Seq(Seq(Entries)) /\ Len(bs) = Len(s)
        /\ bt \in Seq(Seq(Entries)) /\ Len(bt) = Len(t)
        /\ bst \in Seq(Seq(Entries)) /\ Len(bst) = Len(s) + Len(t)
        /\ \A i \in 1 .. Len(s) : bs[i] = own(s[i])
        /\ \A i \in 1 .. Len(t) : bt[i] = own(t[i])
        /\ \A i \in 1 .. Len(s) + Len(t) : bst[i] = own(st[i])
        /\ Parse(s) = FlattenSeq(bs) /\ Parse(t) = FlattenSeq(bt) /\ Parse(st) = FlattenSeq(bst)
    BY <1>1, <1>2, <1>3
  <1> HIDE DEF bs, bt, bst
  <1>5. /\ bs \o bt \in Seq(Seq(Entries)) /\ Len(bs \o bt) = Len(bs) + Len(bt)
        /\ \A i \in 1 .. Len(bs) + Len(bt) :
              (bs \o bt)[i] = IF i <= Len(bs) THEN bs[i] ELSE bt[i - Len(bs)]
    <2>1. bs \in Seq(Seq(Entries)) /\ bt \in Seq(Seq(Entries))
      BY <1>4
    <2> QED BY <2>1, ConcatProperties
  <1>6. ASSUME NEW i \in 1 .. Len(s) + Len(t) PROVE bst[i] = (bs \o bt)[i]
    <2>1. CASE i <= Len(s)
      <3>1. i \in 1 .. Len(s)
        BY <1>3, <2>1
      <3> QED BY <1>3, <1>4, <1>5, <2>1, <3>1
    <2>2. CASE ~ (i <= Len(s))
      <3>1. i - Len(s) \in 1 .. Len(t)
        BY <1>3, <2>2
      <3> QED BY <1>3, <1>4, <1>5, <2>2, <3>1
    <2> QED BY <2>1, <2>2
  <1>7. bst = bs \o bt
    <2>1. /\ bst \in Seq(Seq(Entries)) /\ bs \o bt \in Seq(Seq(Entries))
          /\ Len(bst) = Len(bs \o bt) /\ Len(bst) = Len(s) + Len(t)
      BY <1>4, <1>5
    <2>2. \A i \in 1 .. Len(bst) : bst[i] = (bs \o bt)[i]
      BY <1>6, <2>1
    <2> QED BY <2>1, <2>2, SeqEqual
  <1>8. FlattenSeq(bs \o bt) = FlattenSeq(bs) \o FlattenSeq(bt)
    BY <1>4, FlattenConcat
  <1> QED BY <1>2, <1>3, <1>4, <1>7, <1>8 DEF st

\* Feeds that stand side by side.
LEMMA WalkLeaves ==
  ASSUME NEW d \in 1 .. Depth, NEW outlines \in Forests[d], NEW folder \in Names,
         \A i \in 1 .. Len(outlines) : outlines[i].url # NoURL
  PROVE  walkOutlines[d][outlines][folder]
             = [i \in 1 .. Len(outlines) |-> Entry(outlines[i], folder)]
  <1>1. PICK b : b = d - 1
    OBVIOUS
  <1> DEFINE blocks == Blocks(outlines, folder, walkOutlines[b])
  <1>2. /\ blocks \in Seq(Seq(Entries)) /\ Len(blocks) = Len(outlines)
        /\ \A i \in 1 .. Len(outlines) : blocks[i] = Block(outlines[i], folder, walkOutlines[b])
        /\ walkOutlines[d][outlines][folder] = FlattenSeq(blocks)
    BY <1>1, BlocksType
  <1> HIDE DEF blocks
  <1>3. Len(outlines) \in Nat
    BY <1>2
  <1>4. \A i \in 1 .. Len(outlines) : blocks[i] = <<Entry(outlines[i], folder)>>
    BY <1>2 DEF Block
  <1>5. \A i \in 1 .. Len(blocks) : Len(blocks[i]) = 1 /\ blocks[i][1] = Entry(outlines[i], folder)
    <2>1. SUFFICES ASSUME NEW i \in 1 .. Len(blocks)
                   PROVE  Len(blocks[i]) = 1 /\ blocks[i][1] = Entry(outlines[i], folder)
      OBVIOUS
    <2>2. blocks[i] = <<Entry(outlines[i], folder)>>
      BY <1>2, <1>4
    <2> QED BY <2>2
  <1>6. PICK lo, hi : lo = 0 /\ hi = Len(blocks)
    OBVIOUS
  <1>7. FlattenSeq(blocks) = [j \in 1 .. hi - lo |-> blocks[lo + j][1]]
    <2>1. hi \in 0 .. Len(blocks) /\ lo \in 0 .. hi
      BY <1>2, <1>3, <1>6
    <2>2. Segment(blocks, lo, hi)
      <3>1. \A i \in 1 .. Len(blocks) : lo < i /\ i <= hi
        BY <1>2, <1>3, <1>6
      <3> QED BY <1>5, <3>1 DEF Segment
    <2>3. blocks \in Seq(Seq(Entries))
      BY <1>2
    <2> QED BY <2>1, <2>2, <2>3, FlattenSegment
  <1>8. hi - lo = Len(outlines) /\ \A j \in 1 .. Len(outlines) : lo + j = j
    BY <1>2, <1>3, <1>6
  <1> QED BY <1>2, <1>3, <1>5, <1>7, <1>8

\* The feeds of a folder, as they are written and read again.
LEMMA ReadyToWrite ==
  ASSUME NEW n \in Nat, NEW leaves, DOMAIN leaves = 1 .. n, leaves = [j \in 1 .. n |-> leaves[j]],
         \A j \in 1 .. n : \E r \in Rows : leaves[j] = Leaf(r),
         NEW d \in 1 .. Depth
  PROVE  /\ leaves \in Forests[d] /\ Len(leaves) = n
         /\ \A j \in 1 .. n : leaves[j].url # NoURL
         /\ \A folder \in Names :
               walkOutlines[d][leaves][folder] = [j \in 1 .. n |-> Entry(leaves[j], folder)]
  <1>1. PICK b \in 0 .. Depth : b = d - 1
    BY OPMLAssumption
  <1>2. \A j \in 1 .. n : leaves[j] \in Outlines(Forests[b]) /\ leaves[j].url # NoURL
    BY LeafFields
  <1>3. Forests[d] = Seq(Outlines(Forests[b]))
    BY <1>1, ForestsSteps
  <1>4. leaves \in Forests[d] /\ Len(leaves) = n
    BY <1>2, <1>3
  <1> QED BY <1>2, <1>4, WalkLeaves

\* The parts of Generate.
LeavesOf(list, folder) ==
    FlattenSeq([i \in DOMAIN list |->
        IF list[i].folder = folder THEN <<Leaf(list[i])>> ELSE <<>>])

Written(list, folder) ==
    IF folder = <<>> THEN LeavesOf(list, folder) ELSE <<Group(folder, LeavesOf(list, folder))>>

Opens(list, i) == \A j \in 1 .. i - 1 : list[j].folder # list[i].folder

Writing(list) ==
    [i \in DOMAIN list |-> IF Opens(list, i) THEN Written(list, list[i].folder) ELSE <<>>]

LEMMA GenerateIs ==
  ASSUME NEW list
  PROVE  Generate(list) = FlattenSeq(Writing(list))
  BY DEF Generate, Writing, Written, Opens, LeavesOf

\* The feeds of a folder are those from n, which opens it, to some hi.
Spans(list, n, hi) ==
    \A i \in 1 .. Len(list) : list[i].folder = list[n].folder <=> n <= i /\ i <= hi

\* In a sorted list the feeds of a folder follow each other.
LEMMA SpanOfFolder ==
  ASSUME NEW list \in Seq(Rows), Sorted(list), NEW n \in 1 .. Len(list), Opens(list, n)
  PROVE  \E hi \in n .. Len(list) : Spans(list, n, hi)
  <1>1. /\ Len(list) \in Nat /\ DOMAIN list = 1 .. Len(list) /\ n \in Nat
        /\ \A i \in DOMAIN list : list[i] \in Rows
    OBVIOUS
  <1> DEFINE same == {i \in 1 .. Len(list) : list[i].folder = list[n].folder}
             fromEnd == {m \in Nat : \E i \in same : m = Len(list) - i}
  <1>2. \A i : i \in same <=> i \in 1 .. Len(list) /\ list[i].folder = list[n].folder
    OBVIOUS
  <1> HIDE DEF same
  <1>3. n \in same /\ Len(list) - n \in fromEnd /\ fromEnd \in SUBSET Nat
    BY <1>1, <1>2
  <1>4. \A i \in same : Len(list) - i \in fromEnd
    <2>1. SUFFICES ASSUME NEW i \in same PROVE Len(list) - i \in Nat
      OBVIOUS
    <2>2. i \in 1 .. Len(list)
      BY <1>2
    <2> QED BY <1>1, <2>2
  <1>5. \E hi \in same : \A i \in same : Len(list) - hi <= Len(list) - i
    <2>1. \A m \in fromEnd : \E i \in same : m = Len(list) - i
      OBVIOUS
    <2> HIDE DEF fromEnd
    <2>2. PICK m \in fromEnd : \A x \in fromEnd : m <= x
      BY <1>3, LeastOf
    <2> QED BY <1>4, <2>1, <2>2
  <1> HIDE DEF fromEnd
  <1>6. PICK hi \in 1 .. Len(list) :
           list[hi].folder = list[n].folder /\ \A i \in same : Len(list) - hi <= Len(list) - i
    BY <1>2, <1>5
  <1>7. ASSUME NEW i \in 1 .. Len(list), list[i].folder = list[n].folder
        PROVE  n <= i /\ i <= hi
    <2>1. Len(list) - hi <= Len(list) - i
      BY <1>2, <1>6, <1>7
    <2>2. i <= hi
      BY <1>1, <2>1
    <2>3. ~ (i \in 1 .. n - 1)
      BY <1>7 DEF Opens
    <2> QED BY <1>1, <2>2, <2>3
  <1>8. ASSUME NEW i \in 1 .. Len(list), n <= i, i <= hi
        PROVE  list[i].folder = list[n].folder
    <2>1. CASE i = n \/ i = hi
      BY <1>6, <2>1
    <2>2. CASE n < i /\ i < hi
      BY <1>1, <1>6, <2>2, FoldersTogether
    <2>3. i = n \/ i = hi \/ (n < i /\ i < hi)
      BY <1>1, <1>8
    <2> QED BY <2>1, <2>2, <2>3
  <1>9. hi \in n .. Len(list)
    BY <1>1, <1>7
  <1>10. Spans(list, n, hi)
    BY <1>7, <1>8 DEF Spans
  <1> QED BY <1>9, <1>10

\* What is written for a folder are these feeds.
LEMMA LeavesOfSpan ==
  ASSUME NEW list \in Seq(Rows), NEW n \in 1 .. Len(list), NEW hi \in n .. Len(list),
         Spans(list, n, hi), NEW lo \in Nat, n = lo + 1
  PROVE  LeavesOf(list, list[n].folder) = [j \in 1 .. hi - lo |-> Leaf(list[lo + j])]
  <1> DEFINE folder == list[n].folder
             seqs == [i \in DOMAIN list |->
                         IF list[i].folder = folder THEN <<Leaf(list[i])>> ELSE <<>>]
             O == Outlines(Forests[0])
  <1>1. /\ Len(list) \in Nat /\ DOMAIN list = 1 .. Len(list) /\ n \in Nat /\ hi \in Nat
        /\ \A i \in 1 .. Len(list) : list[i] \in Rows
        /\ 0 \in 0 .. Depth
    BY OPMLAssumption
  <1>2. \A i \in 1 .. Len(list) : Leaf(list[i]) \in O
    BY <1>1, LeafFields
  <1>3. LeavesOf(list, folder) = FlattenSeq(seqs)
    BY DEF LeavesOf
  <1> HIDE DEF O, folder
  <1>4. \A i \in 1 .. Len(list) :
           seqs[i] = IF list[i].folder = folder THEN <<Leaf(list[i])>> ELSE <<>>
    BY <1>1
  <1>5. seqs = [i \in 1 .. Len(list) |-> seqs[i]]
    BY <1>1
  <1> HIDE DEF seqs
  <1>6. \A i \in 1 .. Len(list) : seqs[i] \in Seq(O)
    <2>1. SUFFICES ASSUME NEW i \in 1 .. Len(list) PROVE seqs[i] \in Seq(O)
      OBVIOUS
    <2>2. <<Leaf(list[i])>> \in Seq(O) /\ <<>> \in Seq(O)
      BY <1>2, EmptySeq
    <2> QED BY <1>4, <2>2
  <1>7. seqs \in Seq(Seq(O)) /\ Len(seqs) = Len(list)
    BY <1>1, <1>5, <1>6
  <1>8. lo \in 0 .. hi /\ hi \in 0 .. Len(seqs)
    BY <1>1, <1>7
  <1>9. Segment(seqs, lo, hi)
    <2>1. SUFFICES ASSUME NEW i \in 1 .. Len(list)
                   PROVE  Len(seqs[i]) = IF lo < i /\ i <= hi THEN 1 ELSE 0
      BY <1>7 DEF Segment
    <2>2. list[i].folder = folder <=> lo < i /\ i <= hi
      BY <1>1 DEF Spans, folder
    <2>3. CASE list[i].folder = folder
      <3>1. seqs[i] = <<Leaf(list[i])>>
        BY <1>4, <2>3
      <3> QED BY <2>2, <2>3, <3>1
    <2>4. CASE list[i].folder # folder
      <3>1. seqs[i] = <<>>
        BY <1>4, <2>4
      <3> QED BY <2>2, <2>4, <3>1
    <2> QED BY <2>3, <2>4
  <1>10. FlattenSeq(seqs) = [j \in 1 .. hi - lo |-> seqs[lo + j][1]]
    <2>1. seqs \in Seq(Seq(O)) /\ hi \in 0 .. Len(seqs) /\ lo \in 0 .. hi
      BY <1>7, <1>8
    <2> QED BY <1>9, <2>1, FlattenSegment
  <1>11. ASSUME NEW j \in 1 .. hi - lo PROVE seqs[lo + j][1] = Leaf(list[lo + j])
    <2>1. lo + j \in 1 .. Len(list) /\ n <= lo + j /\ lo + j <= hi
      BY <1>1
    <2>2. list[lo + j].folder = folder
      BY <2>1 DEF Spans, folder
    <2>3. seqs[lo + j] = <<Leaf(list[lo + j])>>
      BY <1>4, <2>1, <2>2
    <2> QED BY <2>3
  <1> QED BY <1>3, <1>10, <1>11 DEF folder

\* What the i-th feed of the list is read as.
Back(i) ==
    Entry(Leaf(List(rows)[i]), IF LooksWrapped(List(rows)[i]) THEN <<>> ELSE List(rows)[i].folder)

\* The only feed of a folder is read like a wrapped one exactly when the names are related.
LEMMA WrittenIsRead ==
  ASSUME TableOK, NEW n \in 1 .. Len(List(rows)), NEW hi \in n .. Len(List(rows)),
         Spans(List(rows), n, hi), NEW lo, lo = n - 1
  PROVE  LET outlines == Written(List(rows), List(rows)[n].folder) IN
         /\ outlines \in Forests[Depth]
         /\ Parse(outlines) = [j \in 1 .. hi - lo |-> Back(lo + j)]
  <1>0. PICK list : list = List(rows)
    OBVIOUS
  <1>1. PICK folder : folder = list[n].folder
    OBVIOUS
  <1>2. PICK leaves : leaves = [j \in 1 .. hi - lo |-> Leaf(list[lo + j])]
    OBVIOUS
  <1>3. PICK outlines : outlines = IF folder = <<>> THEN leaves ELSE <<Group(folder, leaves)>>
    OBVIOUS
  <1>4. /\ list \in Seq(Rows) /\ Len(list) \in Nat /\ DOMAIN list = 1 .. Len(list)
        /\ \A i \in 1 .. Len(list) : list[i] \in Rows
    BY <1>0, ListIsSeq
  <1>5. /\ hi - lo \in Nat /\ hi - lo >= 1 /\ lo \in Nat /\ n \in Nat /\ hi \in Nat
        /\ \A j \in 1 .. hi - lo : lo + j \in 1 .. Len(list) /\ n <= lo + j /\ lo + j <= hi
    BY <1>0, <1>4
  <1>6. Written(list, folder) = outlines
    <2>1. /\ list \in Seq(Rows) /\ n \in 1 .. Len(list) /\ hi \in n .. Len(list)
          /\ Spans(list, n, hi) /\ lo \in Nat /\ n = lo + 1
      BY <1>0, <1>4, <1>5
    <2>2. LeavesOf(list, list[n].folder) = [j \in 1 .. hi - lo |-> Leaf(list[lo + j])]
      BY <2>1, LeavesOfSpan
    <2> QED BY <1>1, <1>2, <1>3, <2>2 DEF Written
  <1>7. folder \in Names /\ \A j \in 1 .. hi - lo : list[lo + j].folder = folder
    <2>1. list[n] \in Rows
      BY <1>0, <1>4
    <2>2. folder \in Names
      BY <1>1, <2>1, RowFields
    <2> QED BY <1>0, <1>1, <1>5, <2>2 DEF Spans
  <1>8. \A d \in 1 .. Depth :
           /\ leaves \in Forests[d] /\ Len(leaves) = hi - lo
           /\ \A j \in 1 .. hi - lo : leaves[j].url # NoURL
           /\ \A name \in Names :
                 walkOutlines[d][leaves][name] = [j \in 1 .. hi - lo |-> Entry(leaves[j], name)]
    <2>1. PICK size \in Nat : size = hi - lo
      BY <1>5
    <2>2. \A j \in 1 .. size : \E r \in Rows : leaves[j] = Leaf(r)
      BY <1>2, <1>4, <1>5, <2>1
    <2>3. DOMAIN leaves = 1 .. size /\ leaves = [j \in 1 .. size |-> leaves[j]]
      BY <1>2, <2>1
    <2>4. \A d \in 1 .. Depth :
             /\ leaves \in Forests[d] /\ Len(leaves) = size
             /\ \A j \in 1 .. size : leaves[j].url # NoURL
             /\ \A name \in Names :
                   walkOutlines[d][leaves][name] = [j \in 1 .. size |-> Entry(leaves[j], name)]
      BY <2>2, <2>3, ReadyToWrite
    <2> QED BY <2>1, <2>4
  <1>9. CASE folder = <<>>
    <2>1. outlines \in Forests[Depth]
      BY <1>3, <1>8, <1>9, DepthFacts
    <2>2. Parse(outlines) = [j \in 1 .. hi - lo |-> Entry(leaves[j], <<>>)]
      BY <1>3, <1>8, <1>9, DepthFacts DEF Parse
    <2>3. ASSUME NEW j \in 1 .. hi - lo PROVE Entry(leaves[j], <<>>) = Back(lo + j)
      BY <1>0, <1>2, <1>7, <1>9 DEF Back
    <2>4. Parse(outlines) = [j \in 1 .. hi - lo |-> Back(lo + j)]
      BY <2>2, <2>3
    <2> QED BY <1>0, <1>1, <1>6, <2>1, <2>4
  <1>10. CASE folder # <<>>
    <2>1. PICK group : group = Group(folder, leaves)
      OBVIOUS
    <2>2. /\ group \in Outlines(Forests[Depth - 1]) /\ outlineName(group) = folder
          /\ group.url = NoURL /\ group.kids = leaves
      BY <1>7, <1>8, <2>1, DepthFacts, GroupFields
    <2>3. outlines = <<group>> /\ outlines \in Forests[Depth]
      BY <1>3, <1>10, <2>1, <2>2, DepthFacts
    <2>4. PICK W, b : b = Depth - 1 /\ W = walkOutlines[b]
      OBVIOUS
    <2>5. Parse(outlines) = Block(group, <<>>, W)
      <3>1. /\ Blocks(outlines, <<>>, W) \in Seq(Seq(Entries))
            /\ Len(Blocks(outlines, <<>>, W)) = Len(outlines)
            /\ \A i \in 1 .. Len(outlines) :
                  Blocks(outlines, <<>>, W)[i] = Block(outlines[i], <<>>, W)
            /\ Parse(outlines) = FlattenSeq(Blocks(outlines, <<>>, W))
        <4>1. /\ Depth \in 1 .. Depth /\ <<>> \in Names
          BY DepthFacts
        <4> QED BY <2>3, <2>4, <4>1, BlocksType DEF Parse
      <3>2. Len(outlines) = 1 /\ outlines[1] = group
        BY <2>3
      <3>3. PICK blocks : blocks = Blocks(outlines, <<>>, W)
        OBVIOUS
      <3>4. blocks = <<Block(group, <<>>, W)>> /\ Block(group, <<>>, W) \in Seq(Entries)
        BY <3>1, <3>2, <3>3
      <3> QED BY <3>1, <3>3, <3>4, FlattenOne
    <2>6. Related(normalizeName(folder), normalizeName(list[n].title)) /\ hi - lo = 1
              <=> unwrapFeedOutline(group)
      <3>1. 1 \in 1 .. hi - lo /\ lo + 1 = n /\ list[n] \in Rows
        BY <1>0, <1>4, <1>5
      <3>2. leaves[1] = Leaf(list[n]) /\ Len(leaves) = hi - lo
        BY <1>2, <1>8, <3>1, DepthFacts
      <3>3. leaves[1].url # NoURL /\ leaves[1].kids = <<>> /\ outlineName(leaves[1]) = list[n].title
        BY <3>1, <3>2, LeafFields, DepthFacts
      <3> QED BY <2>2, <3>2, <3>3 DEF unwrapFeedOutline
    <2>7. ASSUME NEW j \in 1 .. hi - lo
          PROVE  LooksWrapped(list[lo + j]) <=> unwrapFeedOutline(group)
      <3>1. /\ lo + j \in 1 .. Len(list) /\ list[lo + j].folder = folder
            /\ list[lo + j] \in rows
        BY <1>0, <1>4, <1>5, <1>7, ListComplete
      <3>2. ASSUME LooksWrapped(list[lo + j])
            PROVE  Related(normalizeName(folder), normalizeName(list[n].title)) /\ hi - lo = 1
        <4>1. ASSUME NEW k \in 1 .. hi - lo PROVE k = j
          <5>1. list[lo + k] \in rows /\ list[lo + k].folder = folder /\ lo + k \in 1 .. Len(list)
            BY <1>0, <1>4, <1>5, <1>7, ListComplete
          <5>2. list[lo + k] = list[lo + j]
            BY <3>1, <3>2, <5>1 DEF LooksWrapped
          <5>3. lo + k = lo + j
            BY <1>0, <1>4, <3>1, <5>1, <5>2, ListComplete
          <5> QED BY <1>5, <5>3
        <4>2. hi - lo = 1 /\ j = 1 /\ lo + j = n
          <5>1. 1 \in 1 .. hi - lo /\ hi - lo \in 1 .. hi - lo
            BY <1>5
          <5>2. 1 = j /\ hi - lo = j
            BY <4>1, <5>1
          <5> QED BY <1>5, <5>2
        <4> QED BY <3>1, <3>2, <4>2 DEF LooksWrapped
      <3>3. ASSUME Related(normalizeName(folder), normalizeName(list[n].title)), hi - lo = 1
            PROVE  LooksWrapped(list[lo + j])
        <4>1. lo + j = n /\ hi = n
          BY <1>5, <3>3
        <4>2. ASSUME NEW s \in rows, s.folder = folder PROVE s = list[n]
          <5>1. PICK k \in 1 .. Len(list) : list[k] = s
            BY <1>0, <1>4, ListComplete
          <5>2. n <= k /\ k <= hi
            BY <1>0, <1>1, <4>2, <5>1 DEF Spans
          <5>3. k = n
            BY <1>5, <4>1, <5>2
          <5> QED BY <5>1, <5>3
        <4> QED BY <3>1, <3>3, <4>1, <4>2 DEF LooksWrapped
      <3> QED BY <2>6, <3>2, <3>3
    <2>8. ASSUME NEW j \in 1 .. hi - lo
          PROVE  leaves[j] = Leaf(list[lo + j]) /\ list[lo + j].folder = folder
      BY <1>2, <1>7
    <2>9. CASE ~ unwrapFeedOutline(group)
      <3>1. Block(group, <<>>, W) = W[leaves][<<>> \o folder]
        BY <2>2, <2>9 DEF Block, joinFolder
      <3>2. <<>> \o folder = folder
        BY <1>7, ConcatEmptySeq DEF Names
      <3>3. W[leaves][folder] = [j \in 1 .. hi - lo |-> Entry(leaves[j], folder)]
        BY <1>7, <1>8, <2>4, DepthFacts
      <3>4. \A j \in 1 .. hi - lo : Entry(leaves[j], folder) = Back(lo + j)
        BY <1>0, <2>7, <2>8, <2>9 DEF Back
      <3>5. Parse(outlines) = [j \in 1 .. hi - lo |-> Back(lo + j)]
        BY <2>5, <3>1, <3>2, <3>3, <3>4
      <3> QED BY <1>0, <1>1, <1>6, <2>3, <3>5
    <2>10. CASE unwrapFeedOutline(group)
      <3>1. Block(group, <<>>, W) = <<Entry(leaves[1], <<>>)>>
        BY <2>2, <2>10 DEF Block
      <3>2. hi - lo = 1 /\ 1 \in 1 .. hi - lo
        BY <2>6, <2>10
      <3>3. Entry(leaves[1], <<>>) = Back(lo + 1)
        BY <1>0, <2>7, <2>8, <2>10, <3>2 DEF Back
      <3>4. [j \in 1 .. hi - lo |-> Back(lo + j)] = <<Back(lo + 1)>>
        BY <3>2
      <3> QED BY <1>0, <1>1, <1>6, <2>3, <2>5, <3>1, <3>3, <3>4
    <2> QED BY <2>9, <2>10
  <1> QED BY <1>9, <1>10

\* What is written of the first n feeds is read as all feeds of their folders.
ReadsTo(list, n, hi) ==
    LET outlines == FlatTo(Writing(list))[n] IN
    /\ outlines \in Forests[Depth]
    /\ Parse(outlines) = [j \in 1 .. hi |-> Back(j)]
    /\ \A i \in 1 .. Len(list) :
          (\E p \in 1 .. n : list[p].folder = list[i].folder) <=> i <= hi

LEMMA BackJoined ==
  ASSUME NEW n \in Nat, NEW hi \in Nat, n <= hi,
         NEW s \in Seq(Entries), NEW t \in Seq(Entries),
         s = [j \in 1 .. n |-> Back(j)],
         t = [j \in 1 .. hi - n |-> Back(n + j)]
  PROVE  s \o t = [j \in 1 .. hi |-> Back(j)]
  <1>1. Len(s) = n /\ Len(t) = hi - n /\ hi - n \in Nat
    OBVIOUS
  <1>2. PICK st : st = s \o t
    OBVIOUS
  <1>3. /\ st \in Seq(Entries) /\ Len(st) = hi
        /\ \A i \in 1 .. hi : st[i] = IF i <= n THEN s[i] ELSE t[i - n]
    <2>1. /\ st \in Seq(Entries) /\ Len(st) = Len(s) + Len(t)
          /\ \A i \in 1 .. Len(s) + Len(t) :
                st[i] = IF i <= Len(s) THEN s[i] ELSE t[i - Len(s)]
      BY <1>2, ConcatProperties
    <2>2. Len(s) + Len(t) = hi
      BY <1>1
    <2> QED BY <1>1, <2>1, <2>2
  <1>4. ASSUME NEW i \in 1 .. hi PROVE st[i] = Back(i)
    <2>1. CASE i <= n
      <3>1. i \in 1 .. n
        BY <2>1
      <3> QED BY <1>3, <2>1, <3>1
    <2>2. CASE ~ (i <= n)
      <3>1. i - n \in 1 .. hi - n /\ n + (i - n) = i
        BY <2>2
      <3> QED BY <1>3, <2>2, <3>1
    <2> QED BY <2>1, <2>2
  <1>5. st = [j \in 1 .. hi |-> st[j]]
    BY <1>3
  <1> QED BY <1>2, <1>4, <1>5

\* The next feed of the list opens its folder, or is written already.
LEMMA WritingOne ==
  ASSUME TableOK, NEW n \in Nat, NEW m \in 1 .. Len(List(rows)), m = n + 1,
         NEW hi \in n .. Len(List(rows)), ReadsTo(List(rows), n, hi)
  PROVE  \E to \in m .. Len(List(rows)) : ReadsTo(List(rows), m, to)
  <1>1. PICK list : list = List(rows)
    OBVIOUS
  <1>2. /\ list \in Seq(Rows) /\ Sorted(list) /\ Len(list) \in Nat /\ DOMAIN list = 1 .. Len(list)
        /\ m \in 1 .. Len(list) /\ hi \in n .. Len(list) /\ hi \in Nat /\ m \in Nat
    BY <1>1, ListIsSeq
  <1>3. PICK done : done = FlatTo(Writing(list))[n]
    OBVIOUS
  <1>4. /\ done \in Forests[Depth]
        /\ Parse(done) = [j \in 1 .. hi |-> Back(j)]
        /\ \A i \in 1 .. Len(list) :
              (\E p \in 1 .. n : list[p].folder = list[i].folder) <=> i <= hi
    BY <1>1, <1>3 DEF ReadsTo
  <1>5. Len(Writing(list)) = Len(list)
        /\ Writing(list)[m] = IF Opens(list, m) THEN Written(list, list[m].folder) ELSE <<>>
    BY <1>2 DEF Writing
  <1>6. PICK outlines : outlines = FlatTo(Writing(list))[m]
    OBVIOUS
  <1>7. outlines = done \o Writing(list)[m]
    <2>1. \A k \in 1 .. Len(Writing(list)) :
             FlatTo(Writing(list))[k] = Joined(FlatTo(Writing(list))[k - 1], Writing(list)[k])
      BY <1>2, <1>5, FlatSteps
    <2>2. m \in 1 .. Len(Writing(list)) /\ m - 1 = n
      BY <1>2, <1>5
    <2>3. outlines = Joined(done, Writing(list)[m])
      BY <1>3, <1>6, <2>1, <2>2
    <2> QED BY <2>3 DEF Joined
  <1>8. \A p : p \in 1 .. m <=> p \in 1 .. n \/ p = m
    BY <1>2
  <1>9. CASE ~ Opens(list, m)
    <2>1. outlines = done
      <3>1. outlines = done \o <<>>
        BY <1>5, <1>7, <1>9
      <3> QED BY <1>4, <3>1, DepthFacts, ConcatEmptySeq
    <2>2. PICK q \in 1 .. n : list[q].folder = list[m].folder
      <3>1. 1 .. m - 1 = 1 .. n
        BY <1>2
      <3> QED BY <1>9, <3>1 DEF Opens
    <2>3. m <= hi
      BY <1>2, <1>4, <2>2
    <2>4. \A i \in 1 .. Len(list) :
             (\E p \in 1 .. m : list[p].folder = list[i].folder)
                 <=> (\E p \in 1 .. n : list[p].folder = list[i].folder)
      BY <1>8, <2>2
    <2>5. ReadsTo(list, m, hi)
      BY <1>4, <1>6, <2>1, <2>4 DEF ReadsTo
    <2>6. hi \in m .. Len(list)
      BY <1>2, <2>3
    <2> QED BY <1>1, <2>5, <2>6
  <1>10. CASE Opens(list, m)
    <2>1. PICK to \in m .. Len(list) : Spans(list, m, to)
      BY <1>2, <1>10, SpanOfFolder
    <2>2. to \in Nat /\ n <= to /\ n = m - 1
      BY <1>2, <2>1
    <2>3. PICK more : more = Written(list, list[m].folder)
      OBVIOUS
    <2>4. more \in Forests[Depth] /\ Parse(more) = [j \in 1 .. to - n |-> Back(n + j)]
      BY <1>1, <2>1, <2>2, <2>3, WrittenIsRead
    <2>5. hi = n
      <3>1. ~ (\E p \in 1 .. n : list[p].folder = list[m].folder)
        <4>1. 1 .. m - 1 = 1 .. n
          BY <1>2
        <4> QED BY <1>10, <4>1 DEF Opens
      <3>2. ~ (m <= hi)
        BY <1>2, <1>4, <3>1
      <3> QED BY <1>2, <3>2
    <2>6. outlines = done \o more
      BY <1>5, <1>7, <1>10, <2>3
    <2>7. outlines \in Forests[Depth] /\ Parse(outlines) = Parse(done) \o Parse(more)
      BY <1>4, <2>4, <2>6, ParseConcat
    <2>8. Parse(done) \in Seq(Entries) /\ Parse(more) \in Seq(Entries)
      BY <1>4, <2>4, ParseMeans
    <2>9. Parse(outlines) = [j \in 1 .. to |-> Back(j)]
      <3>1. PICK s, t : s = Parse(done) /\ t = Parse(more)
        OBVIOUS
      <3>2. /\ s \in Seq(Entries) /\ t \in Seq(Entries)
            /\ s = [j \in 1 .. n |-> Back(j)] /\ t = [j \in 1 .. to - n |-> Back(n + j)]
        BY <1>4, <2>4, <2>5, <2>8, <3>1
      <3>3. s \o t = [j \in 1 .. to |-> Back(j)]
        BY <2>2, <3>2, BackJoined
      <3> QED BY <2>7, <3>1, <3>3
    <2>10. \A i \in 1 .. Len(list) :
              (\E p \in 1 .. m : list[p].folder = list[i].folder) <=> i <= to
      <3>1. SUFFICES ASSUME NEW i \in 1 .. Len(list)
                     PROVE  (\E p \in 1 .. m : list[p].folder = list[i].folder) <=> i <= to
        OBVIOUS
      <3>2. (\E p \in 1 .. m : list[p].folder = list[i].folder)
                <=> (\E p \in 1 .. n : list[p].folder = list[i].folder)
                    \/ list[i].folder = list[m].folder
        BY <1>8
      <3>3. (\E p \in 1 .. n : list[p].folder = list[i].folder) <=> i <= n
        BY <1>4, <2>5
      <3>4. list[i].folder = list[m].folder <=> m <= i /\ i <= to
        BY <2>1 DEF Spans
      <3>5. i <= to <=> i <= n \/ (m <= i /\ i <= to)
        BY <1>2, <2>2
      <3> QED BY <3>2, <3>3, <3>4, <3>5
    <2>11. ReadsTo(list, m, to)
      BY <1>6, <2>7, <2>9, <2>10 DEF ReadsTo
    <2> QED BY <1>1, <2>1, <2>11
  <1> QED BY <1>9, <1>10

\* The whole list.
LEMMA WritingAll ==
  ASSUME TableOK
  PROVE  /\ Generate(List(rows)) \in Forests[Depth]
         /\ Parse(Generate(List(rows))) = [j \in 1 .. Len(List(rows)) |-> Back(j)]
  <1>1. PICK list : list = List(rows)
    OBVIOUS
  <1>2. list \in Seq(Rows) /\ Len(list) \in Nat /\ DOMAIN list = 1 .. Len(list)
    BY <1>1, ListIsSeq
  <1> DEFINE Good == {n \in Nat : n <= Len(list) => \E hi \in n .. Len(list) : ReadsTo(list, n, hi)}
             W == Writing(list)
  <1>3. 0 \in Good
    <2>1. Len(W) \in Nat
      BY <1>2 DEF Writing
    <2>2. FlatTo(W)[0] = <<>>
      BY <2>1, FlatSteps
    <2>3. <<>> \in Forests[Depth] /\ Parse(<<>>) = <<>>
      <3>1. Depth \in 0 .. Depth
        BY OPMLAssumption
      <3> QED BY <3>1, NoOutlines, DepthFacts DEF Parse
    <2>4. <<>> = [j \in 1 .. 0 |-> Back(j)]
      OBVIOUS
    <2>5. \A i \in 1 .. Len(list) :
             (\E p \in 1 .. 0 : list[p].folder = list[i].folder) <=> i <= 0
      BY <1>2
    <2>6. ReadsTo(list, 0, 0)
      BY <2>2, <2>3, <2>4, <2>5 DEF ReadsTo
    <2> QED BY <1>2, <2>6
  <1>4. ASSUME NEW n \in Good PROVE n + 1 \in Good
    <2>1. SUFFICES ASSUME n + 1 <= Len(list)
                   PROVE  \E hi \in n + 1 .. Len(list) : ReadsTo(list, n + 1, hi)
      OBVIOUS
    <2>2. PICK m \in 1 .. Len(list) : m = n + 1 /\ n \in Nat
      BY <1>2, <2>1
    <2>3. PICK hi \in n .. Len(list) : ReadsTo(list, n, hi)
      BY <1>2, <2>1
    <2>4. \E to \in m .. Len(list) : ReadsTo(list, m, to)
      BY <1>1, <2>2, <2>3, WritingOne
    <2> QED BY <2>2, <2>4
  <1>5. PICK hi \in Len(list) .. Len(list) : ReadsTo(list, Len(list), hi)
    <2>1. Len(list) \in Good
      <3> HIDE DEF Good
      <3>1. Good \in SUBSET Nat
        BY DEF Good
      <3> QED BY <1>2, <1>3, <1>4, <3>1, Counting
    <2> QED BY <1>2, <2>1
  <1>6. hi = Len(list)
    BY <1>2, <1>5
  <1>7. Generate(list) = FlatTo(W)[Len(list)]
    <2>1. W = [i \in 1 .. Len(list) |-> W[i]] /\ Len(W) = Len(list)
      BY <1>2 DEF Writing
    <2>2. \A i \in 1 .. Len(list) : W[i] \in Forests[Depth]
      <3>1. SUFFICES ASSUME NEW i \in 1 .. Len(list) PROVE W[i] \in Forests[Depth]
        OBVIOUS
      <3>2. CASE Opens(list, i)
        <4>1. list \in Seq(Rows) /\ Sorted(list)
          BY <1>1, ListIsSeq
        <4>2. PICK to \in i .. Len(list) : Spans(list, i, to)
          BY <3>2, <4>1, SpanOfFolder
        <4>3. Written(list, list[i].folder) \in Forests[Depth]
          BY <1>1, <4>2, WrittenIsRead
        <4> QED BY <1>2, <3>2, <4>3 DEF Writing
      <3>3. CASE ~ Opens(list, i)
        <4>1. W[i] = <<>>
          BY <1>2, <3>3 DEF Writing
        <4> QED BY <4>1, DepthFacts, EmptySeq
      <3> QED BY <3>2, <3>3
    <2> HIDE DEF W
    <2>3. PICK O : Forests[Depth] = Seq(O)
      BY DepthFacts
    <2>4. W \in Seq(Seq(O))
      BY <1>2, <2>1, <2>2, <2>3
    <2> QED BY <2>1, <2>4, FlattenIs, GenerateIs DEF W
  <1> QED BY <1>1, <1>5, <1>6, <1>7 DEF ReadsTo

--------------------------------------------------------------------------------
(* Type correctness. *)

\* The part that is about the import: it works on what was read from its document, and what it
\* is about to write is an entry.
ImportOK ==
    /\ DOMAIN import = {"at", "document", "entries", "next"}
    /\ import.at \in {"none", "look", "write", "done"}
    /\ import.document \in Forests[Depth]
    /\ import.at # "none" => import.entries = Parse(import.document)
    /\ import.entries \in Seq(Entries)
    /\ import.next \in 1 .. Len(import.entries) + 1
    /\ import.at = "write" => import.next <= Len(import.entries)

TypeInv ==
    /\ TableOK /\ ImportOK
    /\ existing \in Rows \cup {NoRow} /\ held \in Rows \cup {NoRow}
    /\ dirty \subseteq URLs /\ resited \subseteq URLs
    /\ others \in 0 .. MaxOthers
    /\ file \in Forests[Depth]

\* An update that meets no constraint keeps ids and URLs unique.
LEMMA UpdateKeepsTable ==
  ASSUME TableOK, NEW r \in Rows, CanUpdate(r), Update(r), lastId' = lastId
  PROVE  TableOK'
  <1>1. PICK old \in rows : old.id = r.id
    BY DEF CanUpdate, WithId
  <1>2. r.id <= lastId
    BY <1>1 DEF TableOK
  <1>3. rows' = {s \in rows : s.id # r.id} \cup {r}
    BY DEF Update, WithId
  <1>4. \A s \in rows : s.id # r.id => s.url # r.url
    BY DEF CanUpdate, WithURL, WithId
  <1> QED BY <1>2, <1>3, <1>4 DEF TableOK

\* A new row has a new id and a new URL.
LEMMA CreateKeepsTable ==
  ASSUME TableOK, NEW e \in Entries, Create(e)
  PROVE  TableOK' /\ Row(lastId', e) \in Rows /\ \A s \in rows : s.id < lastId'
  <1>1. lastId' = lastId + 1 /\ lastId \in Nat /\ lastId' \in 1 .. MaxId
    BY SubscriptionsAssumption DEF TableOK, Create
  <1>2. Row(lastId', e) \in Rows
    BY <1>1 DEF Row, Rows, Entries, Ids
  <1>3. \A s \in rows : s.id \in Nat /\ s.id <= lastId /\ s.url # e.url
    BY RowFields DEF TableOK, Create, WithURL
  <1>4. Row(lastId', e).id = lastId' /\ Row(lastId', e).url = e.url
    BY DEF Row
  <1>5. rows' = rows \cup {Row(lastId', e)}
    BY DEF Create
  <1> QED BY <1>1, <1>2, <1>3, <1>4, <1>5 DEF TableOK

LEMMA RefreshedRows ==
  ASSUME NEW r \in Rows
  PROVE  /\ Moved(r) \in Rows /\ Moved(r).id = r.id
         /\ Refreshed(r) \in Rows /\ Refreshed(r).id = r.id
  <1>1. Published[r.url] \in [title : Names, site : Sites, moved : URLs]
    BY RowFields, SubscriptionsAssumption
  <1>2. PICK u \in URLs : Moved(r) = [r EXCEPT !.url = u]
    <2>1. CASE WithURL(Published[r.url].moved) = {}
      BY <1>1, <2>1 DEF Moved
    <2>2. CASE WithURL(Published[r.url].moved) # {}
      BY RowFields, <2>2 DEF Moved
    <2> QED BY <2>1, <2>2
  <1>3. Moved(r) \in Rows /\ Moved(r).id = r.id
    BY <1>2 DEF Rows
  <1>4. Refreshed(r) = [Moved(r) EXCEPT !.title = Published[r.url].title,
                                        !.site = Published[r.url].site]
    BY DEF Refreshed
  <1>5. Published[r.url].title \in Names /\ Published[r.url].site \in Sites
    BY <1>1
  <1> HIDE DEF Moved
  <1> QED BY <1>3, <1>4, <1>5 DEF Rows

LEMMA AppliedRow ==
  ASSUME NEW r \in Rows, NEW e \in Entries
  PROVE  /\ Applied(r, e) \in Rows
         /\ Applied(r, e).id = r.id /\ Applied(r, e).url = r.url
         /\ Applied(r, e).title = e.title /\ Applied(r, e).folder = e.folder
         /\ e.site # NoURL => Applied(r, e).site = e.site
         /\ e.site = NoURL => Applied(r, e).site = r.site
  BY DEF Applied, Rows, Entries

LEMMA LookedUp ==
  ASSUME TableOK, NEW u
  PROVE  \/ RowOf(WithURL(u)) = NoRow /\ WithURL(u) = {}
         \/ RowOf(WithURL(u)) \in rows /\ RowOf(WithURL(u)).url = u
  BY DEF RowOf, WithURL

LEMMA ImportSteps ==
  ASSUME TypeInv, Import
  PROVE  TypeInv'
  <1> USE DEF TypeInv
  <1> HIDE DEF None
  <1>0. None \in Forests[Depth]
    BY DepthFacts, NoOutlines DEF None
  <1>1. /\ import.entries \in Seq(Entries) /\ Len(import.entries) \in Nat
        /\ import.next \in 1 .. Len(import.entries) + 1
        /\ DOMAIN import = {"at", "document", "entries", "next"}
    BY DEF ImportOK
  <1>2. CASE StartImport
    <2>1. PICK document \in Documents \cup {file} :
             import' = [at |-> "look", document |-> document,
                        entries |-> Parse(document), next |-> 1]
      BY <1>2 DEF StartImport
    <2>2. document \in Forests[Depth] /\ Parse(document) \in Seq(Entries)
      BY SubscriptionsAssumption, ParseMeans
    <2>3. 1 \in 1 .. Len(Parse(document)) + 1
      BY <2>2
    <2>4. ImportOK'
      BY <2>1, <2>2, <2>3 DEF ImportOK
    <2> QED BY <1>2, <2>4 DEF StartImport, TableOK
  <1>3. CASE LookUp
    <2>1. existing' \in Rows \cup {NoRow}
      BY <1>3, LookedUp DEF LookUp, TableOK
    <2>2. ImportOK'
      BY <1>1, <1>3 DEF LookUp, ImportOK
    <2>3. resited' \subseteq URLs
      BY <1>3 DEF LookUp
    <2> QED BY <1>3, <2>1, <2>2, <2>3 DEF LookUp, TableOK
  <1>4. CASE ImportCreate \/ ImportUpdate
    <2>1. Now \in Entries /\ import.next + 1 \in 1 .. Len(import.entries) + 1
      BY <1>1, <1>4 DEF ImportCreate, ImportUpdate, ImportOK, Now
    <2>2. TableOK'
      <3>1. CASE ImportCreate
        BY <2>1, <3>1, CreateKeepsTable DEF ImportCreate
      <3>2. CASE ImportUpdate
        BY <2>1, <3>2, AppliedRow, UpdateKeepsTable DEF ImportUpdate
      <3> QED BY <1>4, <3>1, <3>2
    <2>3. Wrote
      BY <1>4 DEF ImportCreate, ImportUpdate
    <2>4. ImportOK'
      <3>1. /\ import'.at = "look" /\ import'.next = import.next + 1
            /\ import'.document = import.document /\ import'.entries = import.entries
            /\ DOMAIN import' = DOMAIN import
        BY <1>1, <2>3 DEF Wrote
      <3>2. import.at = "write"
        BY <1>4 DEF ImportCreate, ImportUpdate
      <3> QED BY <1>1, <2>1, <3>1, <3>2 DEF ImportOK
    <2>5. dirty' \subseteq URLs /\ resited' \subseteq URLs
      BY <2>3 DEF Wrote
    <2> QED BY <2>2, <2>3, <2>4, <2>5 DEF Wrote
  <1>5. CASE ImportDone
    <2>1. ImportOK'
      BY <1>1, <1>5 DEF ImportDone, ImportOK
    <2> QED BY <1>5, <2>1 DEF ImportDone, TableOK
  <1>6. CASE ImportFails
    <2>1. ImportOK'
      BY <1>0, <1>6 DEF ImportFails, ImportOK, NoImport
    <2> QED BY <1>6, <2>1 DEF ImportFails, TableOK
  <1> QED BY <1>2, <1>3, <1>4, <1>5, <1>6 DEF Import

LEMMA OtherSteps ==
  ASSUME TypeInv, Others
  PROVE  TypeInv'
  <1> USE DEF TypeInv
  <1>0. None \in Forests[Depth]
    BY DepthFacts, NoOutlines DEF None
  <1> HIDE DEF None
  <1>1. others' \in 0 .. MaxOthers
    <2>1. Another
      BY DEF Others, Requests, Export, AddFeed, EditFeed, DeleteFeed,
             RefreshLoads, RefreshSaves, Restart
    <2> QED BY <2>1, SubscriptionsAssumption DEF Another
  <1>2. ImportOK /\ UNCHANGED import => ImportOK'
    BY DEF ImportOK
  <1>3. \A urls \in SUBSET URLs : Disturbs(urls) => dirty' \subseteq URLs
    BY DEF Disturbs
  <1>4. CASE Export
    <2>1. file' \in Forests[Depth]
      BY <1>4, WritingAll DEF Export
    <2> QED BY <1>1, <1>2, <1>4, <2>1 DEF Export, TableOK
  <1>5. CASE AddFeed
    <2>1. PICK u \in URLs, folder \in Folders :
             /\ Create([title |-> Published[u].title, url |-> u,
                        site |-> Published[u].site, folder |-> folder])
             /\ Disturbs({u})
      BY <1>5 DEF AddFeed
    <2>2. TableOK'
      <3>1. [title |-> Published[u].title, url |-> u,
             site |-> Published[u].site, folder |-> folder] \in Entries
        BY SubscriptionsAssumption DEF Entries
      <3> QED BY <2>1, <3>1, CreateKeepsTable
    <2> QED BY <1>1, <1>2, <1>3, <1>5, <2>1, <2>2 DEF AddFeed
  <1>6. CASE EditFeed
    <2>1. PICK r \in rows, u \in URLs, folder \in Folders :
             \E site \in {r.site, NoURL} :
             LET edited == [r EXCEPT !.folder = folder, !.url = u, !.site = site] IN
             CanUpdate(edited) /\ Update(edited) /\ Disturbs({r.url, u})
      BY <1>6 DEF EditFeed
    <2>2. PICK site \in {r.site, NoURL} :
             LET edited == [r EXCEPT !.folder = folder, !.url = u, !.site = site] IN
             CanUpdate(edited) /\ Update(edited) /\ Disturbs({r.url, u})
      BY <2>1
    <2> DEFINE edited == [r EXCEPT !.folder = folder, !.url = u, !.site = site]
    <2>3. r \in Rows /\ edited \in Rows
      BY <1>6, SubscriptionsAssumption DEF TableOK, Rows, Sites
    <2>4. lastId' = lastId /\ CanUpdate(edited) /\ Update(edited)
      BY <1>6, <2>2 DEF EditFeed
    <2>5. TableOK'
      <3> HIDE DEF edited
      <3> QED BY <2>3, <2>4, UpdateKeepsTable
    <2>6. dirty' \subseteq URLs
      BY <1>3, <2>2, <2>3, RowFields
    <2> QED BY <1>1, <1>2, <1>6, <2>5, <2>6 DEF EditFeed
  <1>7. CASE DeleteFeed
    <2>1. PICK r \in rows : rows' = rows \ {r} /\ Disturbs({r.url})
      BY <1>7 DEF DeleteFeed
    <2>2. dirty' \subseteq URLs
      BY <1>3, <2>1, RowFields DEF TableOK
    <2>3. TableOK'
      BY <1>7, <2>1 DEF DeleteFeed, TableOK
    <2> QED BY <1>1, <1>2, <1>7, <2>2, <2>3 DEF DeleteFeed
  <1>8. CASE RefreshLoads
    <2>1. held' \in Rows
      BY <1>8 DEF RefreshLoads, TableOK
    <2> QED BY <1>1, <1>2, <1>8, <2>1 DEF RefreshLoads, TableOK
  <1>9. CASE RefreshSaves
    <2>1. PICK r \in {held, Moved(held), Refreshed(held)} :
             IF CanUpdate(r)
             THEN Update(r) /\ Disturbs({r.url, held.url} \cup {s.url : s \in WithId(r.id)})
             ELSE UNCHANGED <<rows, dirty>>
      BY <1>9 DEF RefreshSaves
    <2>2. held \in Rows /\ r \in Rows
      BY <1>9, RefreshedRows DEF RefreshSaves
    <2>3. lastId' = lastId
      BY <1>9 DEF RefreshSaves
    <2>4. TableOK'
      <3>1. CASE CanUpdate(r)
        BY <2>1, <2>2, <2>3, <3>1, UpdateKeepsTable
      <3>2. CASE ~ CanUpdate(r)
        BY <2>1, <2>3, <3>2 DEF TableOK
      <3> QED BY <3>1, <3>2
    <2>5. dirty' \subseteq URLs
      <3>1. {r.url, held.url} \cup {s.url : s \in WithId(r.id)} \in SUBSET URLs
        BY <2>2, RowFields DEF WithId, TableOK
      <3> QED BY <1>3, <2>1, <3>1
    <2> QED BY <1>1, <1>2, <1>9, <2>4, <2>5 DEF RefreshSaves
  <1>10. CASE Restart
    <2>1. ImportOK'
      BY <1>0, <1>10 DEF Restart, ImportOK, NoImport
    <2> QED BY <1>1, <1>10, <2>1 DEF Restart, TableOK
  <1> QED BY <1>4, <1>5, <1>6, <1>7, <1>8, <1>9, <1>10 DEF Others, Requests

LEMMA TypeStep ==
  ASSUME TypeInv, [Next]_vars
  PROVE  TypeInv'
  <1>1. CASE UNCHANGED vars
    BY <1>1 DEF vars, TypeInv, TableOK, ImportOK
  <1> QED BY <1>1, ImportSteps, OtherSteps DEF Next

LEMMA TypeInit ==
  ASSUME Init
  PROVE  TypeInv
  <1>1. None \in Forests[Depth]
    BY DepthFacts, NoOutlines DEF None
  <1> HIDE DEF None
  <1> QED BY <1>1, SubscriptionsAssumption DEF Init, TypeInv, TableOK, ImportOK, NoImport

LEMMA TypesInvariant ==
  Spec => []TypeInv
  <1>1. Init => TypeInv
    BY TypeInit
  <1>2. TypeInv /\ [Next]_vars => TypeInv'
    BY TypeStep
  <1> QED BY <1>1, <1>2, PTL DEF Spec

\* Ids and URLs stay unique and all fields typed, for documents of any feeds.
THEOREM TypeCorrect ==
  Spec => []TypeOK
  <1>1. TypeInv => TypeOK
    BY DEF TypeInv, TableOK, ImportOK, TypeOK, NoImport
  <1> QED BY <1>1, TypesInvariant, PTL

\* The sidebar shows each folder once: feeds of a folder are neighbours in every
\* list that is in the order of the query.
THEOREM FoldersOnce ==
  Spec => []FoldersListedOnce
  <1>1. TypeInv => FoldersListedOnce
    <2>1. SUFFICES ASSUME TableOK PROVE FoldersListedOnce
      BY DEF TypeInv
    <2> DEFINE folders == buildFolders(List(rows), Uncategorized)
    <2>2. /\ folders \in Seq(FolderRecords)
          /\ LabelsOf(folders, List(rows), Len(List(rows)), Uncategorized)
      BY <2>1, ListIsSeq, FoldersBuilt, SubscriptionsAssumption
    <2>3. DOMAIN folders = 1 .. Len(folders)
      BY <2>2
    <2> HIDE DEF folders
    <2>4. \A i, j \in DOMAIN folders :
             folders[i].name = folders[j].name => i = j \/ folders[i].name = Uncategorized
      BY <2>2, <2>3 DEF LabelsOf
    <2> QED BY <2>4 DEF FoldersListedOnce, folders
  <1> QED BY <1>1, TypesInvariant, PTL

--------------------------------------------------------------------------------
(* What an import leaves. *)

\* The n-th of the first k entries is the last one that names the site of its feed.
NamesSite(n, k) ==
    LET e == import.entries[n] IN
    /\ e.site # NoURL
    /\ \A m \in 1 .. k : m > n /\ import.entries[m].url = e.url => import.entries[m].site = NoURL

\* r is what the first k entries say of the feed of the n-th.
Fits(r, n, k) ==
    LET e == import.entries[n]
        later == {m \in 1 .. k : m > n /\ import.entries[m].url = e.url}
    IN  /\ r.url = e.url
        /\ later = {} => r.title = e.title /\ r.folder = e.folder
        /\ e.url \notin resited /\ NamesSite(n, k) => r.site = e.site

AppliedUpTo(k) ==
    \A n \in 1 .. k :
        import.entries[n].url \notin dirty => \E r \in rows : Fits(r, n, k)

\* What the lookup found is still so, unless others wrote that URL, and it has the
\* site that earlier entries name.
ExistingInv ==
    import.at = "write" =>
        /\ existing # NoRow => existing.url = Now.url
        /\ \A r \in rows : r.id = existing.id => r = existing \/ r.url \in dirty
        /\ \A n \in 1 .. import.next - 1 :
              /\ import.entries[n].url = Now.url /\ Now.url \notin resited
              /\ NamesSite(n, import.next - 1)
              => existing # NoRow /\ existing.site = import.entries[n].site

AppliedInv ==
    /\ AppliedUpTo(import.next - 1)
    /\ ExistingInv
    /\ import.at = "none" => import = NoImport
    /\ import.at = "done" => import.next = Len(import.entries) + 1

\* Whatever changes the table marks the URLs that it takes away or brings.
LEMMA MarkedChanges ==
  ASSUME TableOK, AppliedInv, import' = import, existing' = existing, resited' = resited,
         dirty \subseteq dirty',
         \A r \in rows : r.url \notin dirty' => r \in rows',
         \A r \in rows' : r \in rows \/ r.url \in dirty'
  PROVE  AppliedInv'
  <1>0. \A n, k : NamesSite(n, k)' = NamesSite(n, k)
    BY DEF NamesSite
  <1>1. \A r, n, k : Fits(r, n, k)' = Fits(r, n, k)
    BY <1>0 DEF Fits
  <1>2. AppliedUpTo(import.next - 1)'
    <2>1. SUFFICES ASSUME NEW n \in 1 .. import.next - 1, import.entries[n].url \notin dirty'
                   PROVE  \E r \in rows' : Fits(r, n, import.next - 1)
      BY <1>1 DEF AppliedUpTo
    <2>2. PICK r \in rows : Fits(r, n, import.next - 1)
      BY <2>1 DEF AppliedInv, AppliedUpTo
    <2>3. r.url = import.entries[n].url
      BY <2>2 DEF Fits
    <2> QED BY <2>1, <2>2, <2>3
  <1>3. ExistingInv'
    <2>1. SUFFICES ASSUME import.at = "write" PROVE ExistingInv'
      BY DEF ExistingInv
    <2>2. ExistingInv /\ Now' = Now
      BY DEF AppliedInv, Now
    <2>3. \A r \in rows' : r.id = existing.id => r = existing \/ r.url \in dirty'
      BY <2>1, <2>2 DEF ExistingInv
    <2> QED BY <1>0, <2>1, <2>2, <2>3 DEF ExistingInv
  <1> QED BY <1>2, <1>3 DEF AppliedInv

\* The write of an entry keeps what the entries before it have left.
LEMMA WroteKeepsApplied ==
  ASSUME TypeInv, AppliedInv, ImportCreate \/ ImportUpdate
  PROVE  AppliedInv'
  <1>0. PICK next \in Nat : next = import.next
    BY DEF TypeInv, ImportOK
  <1> DEFINE e == import.entries[next]
  <1>1. /\ import.at = "write" /\ next = import.next /\ next >= 1 /\ next <= Len(import.entries)
        /\ Len(import.entries) \in Nat /\ e = Now /\ e \in Entries
        /\ \A n \in 1 .. next : import.entries[n] \in Entries
        /\ DOMAIN import = {"at", "document", "entries", "next"}
    BY <1>0 DEF ImportCreate, ImportUpdate, TypeInv, ImportOK, Now
  <1>2. /\ dirty' = dirty \ {e.url}
        /\ resited' = IF e.site # NoURL THEN resited \ {e.url} ELSE resited
        /\ import'.at = "look" /\ import'.entries = import.entries /\ import'.next = next + 1
    BY <1>1 DEF ImportCreate, ImportUpdate, Wrote
  <1>3. PICK new \in rows' :
          /\ new.url = e.url /\ new.title = e.title /\ new.folder = e.folder
          /\ e.site # NoURL => new.site = e.site
          /\ e.site = NoURL /\ existing # NoRow => new.site = existing.site
          /\ \A r \in rows : r.url \notin dirty /\ r.url # e.url => r \in rows'
    <2>1. CASE ImportCreate
      <3> DEFINE new == Row(lastId', e)
      <3>1. rows' = rows \cup {new} /\ existing = NoRow
        BY <1>1, <2>1 DEF ImportCreate, Create
      <3>2. new.url = e.url /\ new.title = e.title /\ new.folder = e.folder
            /\ new.site = e.site
        BY DEF Row
      <3> HIDE DEF new, e
      <3> QED BY <3>1, <3>2
    <2>2. CASE ImportUpdate
      <3> DEFINE new == Applied(existing, e)
      <3>1. existing # NoRow /\ existing \in Rows /\ CanUpdate(new) /\ Update(new)
        BY <1>1, <2>2 DEF ImportUpdate, TypeInv
      <3>2. /\ new.id = existing.id /\ new.url = existing.url
            /\ new.title = e.title /\ new.folder = e.folder
            /\ e.site # NoURL => new.site = e.site
            /\ e.site = NoURL => new.site = existing.site
        BY <1>1, <3>1, AppliedRow
      <3>3. /\ existing.url = e.url
            /\ \A r \in rows : r.id = existing.id => r = existing \/ r.url \in dirty
        BY <1>1, <3>1 DEF AppliedInv, ExistingInv
      <3> HIDE DEF new
      <3>4. rows' = {r \in rows : r.id # new.id} \cup {new}
        BY <3>1 DEF Update, WithId
      <3> QED BY <3>2, <3>3, <3>4
    <2> QED BY <2>1, <2>2
  <1>4. AppliedUpTo(next)'
    <2>1. SUFFICES ASSUME NEW n \in 1 .. next, import.entries[n].url \notin dirty'
                   PROVE  \E r \in rows' : Fits(r, n, next)'
      BY <1>1, <1>2 DEF AppliedUpTo
    <2> DEFINE own == import.entries[n]
               later == {m \in 1 .. next : m > n /\ import.entries[m].url = own.url}
    <2>2. \A r : Fits(r, n, next)' <=>
                    /\ r.url = own.url
                    /\ later = {} => r.title = own.title /\ r.folder = own.folder
                    /\ own.url \notin resited' /\ NamesSite(n, next) => r.site = own.site
      BY <1>2 DEF Fits, NamesSite
    <2>3. CASE n = next
      <3>1. later = {}
        BY <1>1, <2>3
      <3>2. NamesSite(n, next) => e.site # NoURL
        BY <2>3 DEF NamesSite
      <3> QED BY <1>1, <1>3, <2>2, <2>3, <3>1, <3>2
    <2>4. CASE n # next
      <3>1. n \in 1 .. next - 1 /\ next \in 1 .. next /\ next > n
        BY <1>1, <2>4
      <3>2. NamesSite(n, next) => NamesSite(n, next - 1)
        BY <1>1 DEF NamesSite
      <3>3. CASE own.url = e.url
        <4>1. next \in later
          BY <3>1, <3>3
        <4>2. ASSUME own.url \notin resited', NamesSite(n, next)
              PROVE  new.site = own.site
          <5>1. e.site = NoURL
            BY <3>1, <3>3, <4>2 DEF NamesSite
          <5>2. existing # NoRow /\ existing.site = own.site
            BY <1>1, <1>2, <3>1, <3>2, <3>3, <4>2, <5>1 DEF AppliedInv, ExistingInv
          <5> QED BY <1>3, <5>1, <5>2
        <4> HIDE DEF later, own
        <4> QED BY <1>3, <2>2, <3>3, <4>1, <4>2
      <3>4. CASE own.url # e.url
        <4>1. own.url \notin dirty
          BY <1>2, <2>1, <3>4
        <4>2. PICK r \in rows : Fits(r, n, next - 1)
          BY <1>1, <3>1, <4>1 DEF AppliedInv, AppliedUpTo
        <4> DEFINE before == {m \in 1 .. next - 1 : m > n /\ import.entries[m].url = own.url}
        <4>3. /\ r.url = own.url
              /\ before = {} => r.title = own.title /\ r.folder = own.folder
              /\ own.url \notin resited /\ NamesSite(n, next - 1) => r.site = own.site
          BY <4>2 DEF Fits
        <4>4. later = before
          BY <1>1, <3>4
        <4>5. r \in rows'
          BY <1>3, <3>4, <4>1, <4>3
        <4>6. own.url \notin resited' => own.url \notin resited
          BY <1>2, <3>4
        <4> HIDE DEF later, own, before
        <4> QED BY <2>2, <3>2, <4>3, <4>4, <4>5, <4>6
      <3> QED BY <3>3, <3>4
    <2> QED BY <2>3, <2>4
  <1> QED BY <1>1, <1>2, <1>4 DEF AppliedInv, ExistingInv

LEMMA AppliedStep ==
  ASSUME TypeInv, AppliedInv, [Next]_vars
  PROVE  AppliedInv'
  <1>1. TypeInv'
    BY TypeStep
  <1>2. import' = NoImport => AppliedInv'
    BY DEF AppliedInv, AppliedUpTo, ExistingInv, NoImport
  <1>3. /\ TableOK /\ ImportOK /\ Len(import.entries) \in Nat
        /\ DOMAIN import = {"at", "document", "entries", "next"}
    BY DEF TypeInv, ImportOK
  <1>4. CASE UNCHANGED vars
    BY <1>3, <1>4, MarkedChanges DEF vars
  <1>5. CASE StartImport
    <2>1. import'.at = "look" /\ import'.next = 1
      BY <1>5 DEF StartImport
    <2> QED BY <2>1 DEF AppliedInv, AppliedUpTo, ExistingInv
  <1>6. CASE LookUp
    <2>1. /\ import'.at = "write" /\ import'.entries = import.entries
          /\ import'.next = import.next /\ rows' = rows /\ dirty' = dirty
          /\ resited' = resited \cup (dirty \cap {Now.url})
      BY <1>3, <1>6 DEF LookUp
    <2>2. \A n, k : NamesSite(n, k)' = NamesSite(n, k)
      BY <2>1 DEF NamesSite
    <2>3. AppliedUpTo(import.next - 1)'
      BY <2>1, <2>2 DEF AppliedInv, AppliedUpTo, Fits
    <2>4. \/ existing' = NoRow /\ WithURL(Now.url) = {}
          \/ existing' \in rows /\ existing'.url = Now.url
      BY <1>3, <1>6, LookedUp DEF LookUp
    <2>5. Now' = Now
      BY <2>1 DEF Now
    <2>6. \A r \in rows : r.id = existing'.id => r = existing'
      BY <1>3, <2>4, RowFields DEF TableOK, NoRow
    <2>7. ASSUME NEW n \in 1 .. import.next - 1, import.entries[n].url = Now.url,
                 Now.url \notin resited', NamesSite(n, import.next - 1)
          PROVE  existing' # NoRow /\ existing'.site = import.entries[n].site
      <3>1. Now.url \notin dirty /\ Now.url \notin resited
        BY <2>1, <2>7
      <3>2. PICK r \in rows : Fits(r, n, import.next - 1)
        BY <2>7, <3>1 DEF AppliedInv, AppliedUpTo
      <3>3. r.url = Now.url /\ r.site = import.entries[n].site
        BY <2>7, <3>1, <3>2 DEF Fits
      <3>4. existing' = r /\ r # NoRow
        BY <1>3, <2>4, <3>3, RowFields DEF TableOK, WithURL, NoRow
      <3> QED BY <3>3, <3>4
    <2>8. ExistingInv'
      BY <2>1, <2>2, <2>4, <2>5, <2>6, <2>7 DEF ExistingInv
    <2> QED BY <2>1, <2>3, <2>8 DEF AppliedInv
  <1>7. CASE ImportCreate \/ ImportUpdate
    BY <1>7, WroteKeepsApplied
  <1>8. CASE ImportDone
    <2>1. /\ import'.at = "done" /\ import'.entries = import.entries
          /\ import'.next = import.next /\ rows' = rows /\ dirty' = dirty
          /\ resited' = resited /\ import.next = Len(import.entries) + 1
      BY <1>3, <1>8 DEF ImportDone, ImportOK
    <2>2. AppliedUpTo(import.next - 1)'
      BY <2>1 DEF AppliedInv, AppliedUpTo, Fits, NamesSite
    <2> QED BY <2>1, <2>2 DEF AppliedInv, ExistingInv
  <1>9. CASE ImportFails \/ Restart
    BY <1>2, <1>9 DEF ImportFails, Restart
  <1>10. CASE Export \/ RefreshLoads
    BY <1>3, <1>10, MarkedChanges DEF Export, RefreshLoads
  <1>11. CASE AddFeed \/ EditFeed \/ DeleteFeed \/ RefreshSaves
    <2>1. import' = import /\ existing' = existing /\ resited' = resited
      BY <1>11 DEF AddFeed, EditFeed, DeleteFeed, RefreshSaves
    <2>2. SUFFICES ASSUME import # NoImport PROVE AppliedInv'
      BY <1>2, <2>1
    <2>3. \A urls : Disturbs(urls) => dirty' = dirty \cup urls
      BY <2>2 DEF Disturbs
    <2>4. ASSUME NEW r, Update(r), dirty \subseteq dirty', r.url \in dirty',
                 \A old \in WithId(r.id) : old.url \in dirty'
          PROVE  AppliedInv'
      <3>1. rows' = (rows \ WithId(r.id)) \cup {r}
        BY <2>4 DEF Update
      <3> QED BY <1>3, <2>1, <2>4, <3>1, MarkedChanges
    <2>5. CASE AddFeed
      <3>1. PICK u \in URLs, folder \in Folders :
               /\ Create([title |-> Published[u].title, url |-> u,
                          site |-> Published[u].site, folder |-> folder])
               /\ Disturbs({u})
        BY <2>5 DEF AddFeed
      <3>2. PICK new : rows' = rows \cup {new} /\ new.url = u
        <4> DEFINE e == [title |-> Published[u].title, url |-> u,
                         site |-> Published[u].site, folder |-> folder]
        <4>1. rows' = rows \cup {Row(lastId', e)}
          BY <3>1 DEF Create
        <4>2. Row(lastId', e).url = u
          BY DEF Row
        <4> HIDE DEF e
        <4> QED BY <4>1, <4>2
      <3> QED BY <1>3, <2>1, <2>3, <3>1, <3>2, MarkedChanges
    <2>6. CASE EditFeed
      <3>1. PICK r \in rows, u \in URLs, folder \in Folders :
               \E site \in {r.site, NoURL} :
                  LET edited == [r EXCEPT !.folder = folder, !.url = u, !.site = site] IN
                  Update(edited) /\ Disturbs({r.url, u})
        BY <2>6 DEF EditFeed
      <3>2. r \in Rows
        BY <1>3 DEF TableOK
      <3>3. PICK edited : edited.id = r.id /\ edited.url = u /\ Update(edited)
        BY <3>1, <3>2 DEF Rows
      <3>4. dirty' = dirty \cup {r.url, u}
        BY <2>3, <3>1
      <3>5. \A old \in WithId(edited.id) : old = r
        BY <1>3, <3>3 DEF TableOK, WithId
      <3> QED BY <2>4, <3>3, <3>4, <3>5
    <2>7. CASE DeleteFeed
      BY <1>3, <2>1, <2>3, <2>7, MarkedChanges DEF DeleteFeed
    <2>8. CASE RefreshSaves
      <3>1. PICK r \in {held, Moved(held), Refreshed(held)} :
               IF CanUpdate(r)
               THEN Update(r) /\ Disturbs({r.url, held.url} \cup {s.url : s \in WithId(r.id)})
               ELSE UNCHANGED <<rows, dirty>>
        BY <2>8 DEF RefreshSaves
      <3>2. CASE CanUpdate(r)
        <4>1. dirty' = dirty \cup ({r.url, held.url} \cup {s.url : s \in WithId(r.id)})
          BY <2>3, <3>1, <3>2
        <4> QED BY <2>4, <3>1, <3>2, <4>1
      <3>3. CASE ~ CanUpdate(r)
        BY <1>3, <2>1, <3>1, <3>3, MarkedChanges
      <3> QED BY <3>2, <3>3
    <2> QED BY <1>11, <2>5, <2>6, <2>7, <2>8
  <1> QED BY <1>4, <1>5, <1>6, <1>7, <1>8, <1>9, <1>10, <1>11
          DEF Next, Import, Others, Requests

\* When an import has succeeded, what the document says last of each feed is in
\* the table, unless others wrote that feed after the import did: for any
\* documents, and for any requests and refreshes between its queries.
THEOREM ImportHolds ==
  Spec => []ImportApplied
  <1>1. Init => AppliedInv
    BY DEF Init, AppliedInv, AppliedUpTo, ExistingInv, NoImport
  <1>2. TypeInv /\ AppliedInv /\ [Next]_vars => AppliedInv'
    BY AppliedStep
  <1>3. TypeInv /\ AppliedInv => ImportApplied
    <2>1. SUFFICES ASSUME ImportOK, AppliedInv, import.at = "done" PROVE ImportApplied
      BY DEF TypeInv, ImportApplied
    <2>2. DOMAIN import.entries = 1 .. import.next - 1
      BY <2>1 DEF ImportOK, AppliedInv
    <2>3. AppliedUpTo(import.next - 1)
      BY <2>1 DEF AppliedInv
    <2> QED BY <2>2, <2>3 DEF ImportApplied, AppliedUpTo, Fits, NamesSite
  <1>4. Spec => []TypeInv
    BY TypesInvariant
  <1> QED BY <1>1, <1>2, <1>3, <1>4, PTL DEF Spec

--------------------------------------------------------------------------------
(* Documents. *)

\* An import works on what its document means: the walk down the outlines, which
\* carries the path of the folders along, gives each feed the path of the
\* outlines around it, however the folders are nested and named.
THEOREM ReadsMeaning ==
  Spec => []ReadsAsMeant
  <1>1. TypeInv => ReadsAsMeant
    <2>1. SUFFICES ASSUME ImportOK, import.at # "none" PROVE import.entries = Meant
      BY DEF TypeInv, ReadsAsMeant
    <2>2. import.document \in Forests[Depth] /\ import.entries = Parse(import.document)
      BY <2>1 DEF ImportOK
    <2>3. Parse(import.document) = MeantOf(LeavesBelow[Depth][import.document][<<>>])
      BY <2>2, ParseMeans
    <2> QED BY <2>2, <2>3 DEF Meant, MeantOf
  <1> QED BY <1>1, TypesInvariant, PTL

\* What is exported is read back feed for feed, in the order of the list, with
\* titles, sites and folders; only a feed that is alone in a folder with a related
\* name comes back without the folder.
THEOREM BackupKeeps ==
  Spec => []BackupKeepsFeeds
  <1>1. TypeInv => BackupKeepsFeeds
    <2>1. SUFFICES ASSUME TableOK PROVE BackupKeepsFeeds
      BY DEF TypeInv
    <2>2. /\ Parse(Generate(List(rows))) = [j \in 1 .. Len(List(rows)) |-> Back(j)]
          /\ DOMAIN List(rows) = 1 .. Len(List(rows))
      BY <2>1, WritingAll, ListIsSeq
    <2> QED BY <2>2 DEF BackupKeepsFeeds, Back
  <1> QED BY <1>1, TypesInvariant, PTL
================================================================================
