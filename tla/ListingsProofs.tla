---- MODULE ListingsProofs ----
(***************************************************************************)
(* Who goes through the lists of the web server page by page, while others *)
(* write, sees what is there all the time: proofs about Listings.          *)
(***************************************************************************)
EXTENDS Listings, EntryStoreProofs

----
(* Places in the order of the text *)

LEMMA OrderFacts ==
    /\ Len(TextOrder) \in Nat /\ DOMAIN TextOrder = 1 .. Len(TextOrder)
    /\ \A i \in 1 .. Len(TextOrder) : TextOrder[i] \in DNs
    /\ \A d \in DNs : \E i \in 1 .. Len(TextOrder) : TextOrder[i] = d
    /\ \A i, j \in 1 .. Len(TextOrder) : TextOrder[i] = TextOrder[j] => i = j
    /\ \A i, j \in 1 .. Len(TextOrder) : Before(TextOrder[i], TextOrder[j]) <=> i < j
<1>1. /\ Len(TextOrder) \in Nat /\ DOMAIN TextOrder = 1 .. Len(TextOrder)
      /\ \A i \in 1 .. Len(TextOrder) : TextOrder[i] \in DNs
  BY ListingsAssumption
<1>2. \A d \in DNs : \E i \in 1 .. Len(TextOrder) : TextOrder[i] = d
  BY <1>1, ListingsAssumption DEF Range
<1>3. \A i, j \in 1 .. Len(TextOrder) : TextOrder[i] = TextOrder[j] => i = j
  BY <1>1, ListingsAssumption DEF IsInjective
<1>4. \A i, j \in 1 .. Len(TextOrder) : Before(TextOrder[i], TextOrder[j]) <=> i < j
  BY <1>1, <1>3 DEF Before
<1> QED
  BY <1>1, <1>2, <1>3, <1>4

LEMMA DNsFinite ==
    /\ IsFiniteSet(DNs) /\ Cardinality(DNs) <= Len(TextOrder)
    /\ \A S \in SUBSET DNs : IsFiniteSet(S) /\ Cardinality(S) \in Nat
                             /\ Cardinality(S) <= Len(TextOrder)
<1>1. /\ IsFiniteSet(1 .. Len(TextOrder))
      /\ Cardinality(1 .. Len(TextOrder)) = Len(TextOrder)
  <2>1. ASSUME NEW n \in Nat PROVE IsFiniteSet(1 .. n) /\ Cardinality(1 .. n) = n
    BY FS_Interval
  <2>2. Len(TextOrder) \in Nat
    BY OrderFacts
  <2> QED
    BY <2>1, <2>2
<1>2. [i \in 1 .. Len(TextOrder) |-> TextOrder[i]] \in Surjection(1 .. Len(TextOrder), DNs)
  BY OrderFacts DEF Surjection
<1>3. IsFiniteSet(DNs) /\ Cardinality(DNs) <= Len(TextOrder)
  BY <1>1, <1>2, FS_Surjection
<1>4. ASSUME NEW S \in SUBSET DNs
      PROVE  IsFiniteSet(S) /\ Cardinality(S) \in Nat /\ Cardinality(S) <= Len(TextOrder)
  <2>1. IsFiniteSet(S) /\ Cardinality(S) <= Cardinality(DNs)
    BY <1>3, FS_Subset
  <2>2. Cardinality(S) \in Nat /\ Cardinality(DNs) \in Nat
    BY <1>3, <2>1, FS_CardinalityType
  <2> QED
    BY <1>3, <2>1, <2>2, OrderFacts
<1> QED
  BY <1>3, <1>4

\* What Rank counts.
UpThrough(d, dns) == {x \in dns : x = d \/ Before(x, d)}

\* More entries before an entry, a later place.
LEMMA RankGrows ==
    ASSUME NEW S \in SUBSET DNs, NEW T \in SUBSET DNs, NEW d, UpThrough(d, S) \subseteq T
    PROVE  Rank(d, S) \in Nat /\ Rank(d, T) \in Nat /\ Rank(d, S) <= Rank(d, T)
<1>1. UpThrough(d, S) \in SUBSET UpThrough(d, T) /\ UpThrough(d, T) \in SUBSET DNs
  BY DEF UpThrough
<1>2. IsFiniteSet(UpThrough(d, T)) /\ Cardinality(UpThrough(d, T)) \in Nat
  BY <1>1, DNsFinite
<1>3. Cardinality(UpThrough(d, S)) <= Cardinality(UpThrough(d, T))
  BY <1>1, <1>2, FS_Subset
<1>4. Cardinality(UpThrough(d, S)) \in Nat
  BY <1>1, DNsFinite
<1> QED
  BY <1>2, <1>3, <1>4 DEF Rank, UpThrough

LEMMA RankBounds ==
    ASSUME NEW S \in SUBSET DNs, NEW d \in S
    PROVE  Rank(d, S) \in 1 .. Cardinality(S)
<1>1. UpThrough(d, S) \in SUBSET S /\ d \in UpThrough(d, S)
  BY DEF UpThrough
<1>2. IsFiniteSet(S) /\ Cardinality(S) \in Nat
  BY DNsFinite
<1>3. /\ IsFiniteSet(UpThrough(d, S)) /\ Cardinality(UpThrough(d, S)) \in Nat
      /\ Cardinality(UpThrough(d, S)) <= Cardinality(S)
  BY <1>1, <1>2, FS_Subset, FS_CardinalityType
<1>4. Cardinality(UpThrough(d, S)) # 0
  BY <1>1, <1>3, FS_EmptySet
<1> QED
  BY <1>2, <1>3, <1>4 DEF Rank, UpThrough

----
(* The sorted list *)

\* The list names each DN of the set at its place.
Ranked(list, dns) ==
    /\ list \in Seq(dns) /\ Len(list) = Cardinality(dns)
    /\ \A d \in dns : \E i \in 1 .. Len(list) : list[i] = d
    /\ \A i \in 1 .. Len(list) : Rank(list[i], dns) = i

\* The list of the first n DNs of the order.
ListOfFirst(f, n, dns) ==
    IF TextOrder[n] \in dns THEN f[n] = f[n - 1] \o <<TextOrder[n]>> ELSE f[n] = f[n - 1]

LEMMA SortedUnfolds ==
    ASSUME NEW rs, NEW dns \in SUBSET DNs, dns = {r.dn : r \in rs}
    PROVE  \E f : /\ f \in [0 .. Len(TextOrder) -> Seq(DNs)] /\ f[0] = << >>
                  /\ \A n \in 1 .. Len(TextOrder) : ListOfFirst(f, n, dns)
                  /\ Sorted(rs) = f[Len(TextOrder)]
<1> DEFINE N == Len(TextOrder)
           V == Seq(DNs)
           one(n) == IF TextOrder[n] \in dns THEN <<TextOrder[n]>> ELSE << >>
           Step == [p \in (1 .. N) \X V |-> p[2] \o one(p[1])]
<1>0. N \in Nat
  BY OrderFacts
<1>1. \A n \in 1 .. N : one(n) \in V
  BY OrderFacts
<1>2. ASSUME NEW n \in 1 .. N, NEW v \in V
      PROVE  Step[<<n, v>>] = v \o one(n) /\ v \o one(n) \in V
  <2>1. <<n, v>> \in (1 .. N) \X V
    OBVIOUS
  <2>2. one(n) \in V
    BY <1>1
  <2> HIDE DEF one
  <2>3. v \o one(n) \in V
    BY <2>2
  <2> HIDE DEF V
  <2> QED
    BY <2>1, <2>3
<1>3. << >> \in V
  OBVIOUS
<1>4. RunsWithin(N, V, << >>, Step)
  <2> HIDE DEF V, Step, one
  <2> QED
    BY <1>0, <1>2, <1>3 DEF RunsWithin
<1> HIDE DEF V, Step
<1>5. PICK f \in [0 .. N -> V] : f[0] = << >> /\ \A n \in 1 .. N : f[n] = Step[<<n, f[n - 1]>>]
  BY <1>4, RecursionUpTo
<1>6. ASSUME NEW n \in 1 .. N PROVE f[n] = f[n - 1] \o one(n) /\ f[n - 1] \in V
  <2>1. f[n - 1] \in V
    BY <1>0, <1>5
  <2> HIDE DEF one
  <2> QED
    BY <1>2, <1>5, <2>1
<1>7. f = [n \in 0 .. N |-> IF n = 0 THEN << >> ELSE f[n - 1] \o one(n)]
  <2> HIDE DEF one
  <2>1. \A n \in 0 .. N : n # 0 => n \in 1 .. N
    BY <1>0
  <2> QED
    BY <1>5, <1>6, <2>1
<1>8. PICK h : h = CHOOSE c : c = [n \in 0 .. N |-> IF n = 0 THEN << >> ELSE c[n - 1] \o one(n)]
  OBVIOUS
<1>9. h = [n \in 0 .. N |-> IF n = 0 THEN << >> ELSE h[n - 1] \o one(n)]
  <2> HIDE DEF one
  <2> QED
    BY <1>7, <1>8, Zenon
<1>10. Sorted(rs) = h[N]
  BY <1>8, Zenon DEF Sorted
<1>11. h \in [0 .. N -> V] /\ h[0] = << >> /\ \A n \in 1 .. N : h[n - 1] \in V /\ h[n] = h[n - 1] \o one(n)
  <2> HIDE DEF one
  <2>1. h[0] = << >> /\ \A n \in 1 .. N : h[n] = h[n - 1] \o one(n)
    <3>1. 0 \in 0 .. N /\ \A n \in 1 .. N : n \in 0 .. N /\ n # 0
      BY <1>0
    <3> HIDE DEF N
    <3> QED
      BY <1>9, <3>1, Zenon
  <2> DEFINE T == {n \in Nat : n \in 0 .. N => h[n] \in V}
  <2>2. 0 \in T
    BY <1>3, <2>1
  <2>3. ASSUME NEW n \in Nat, n \in T PROVE n + 1 \in T
    <3> SUFFICES ASSUME n + 1 \in 0 .. N PROVE h[n + 1] \in V
      OBVIOUS
    <3>1. n + 1 \in 1 .. N /\ (n + 1) - 1 = n /\ n \in 0 .. N
      BY <1>0
    <3>2. h[n] \in V
      BY <2>3, <3>1
    <3>3. h[n + 1] = h[n] \o one(n + 1)
      BY <2>1, <3>1
    <3> QED
      BY <1>2, <3>1, <3>2, <3>3
  <2>4. Nat \subseteq T
    <3> HIDE DEF T
    <3> QED
      BY <2>2, <2>3, InductionOnSet
  <2>5. \A n \in 0 .. N : h[n] \in V
    BY <1>0, <2>4
  <2>6. h \in [0 .. N -> V]
    BY <1>9, <2>5
  <2>7. \A n \in 1 .. N : n - 1 \in 0 .. N
    BY <1>0
  <2> QED
    BY <2>1, <2>5, <2>6, <2>7
<1>12. ASSUME NEW n \in 1 .. N PROVE ListOfFirst(h, n, dns)
  <2>1. h[n - 1] \in Seq(DNs) /\ h[n] = h[n - 1] \o one(n)
    BY <1>11 DEF V
  <2>2. \A v \in Seq(DNs) : v \o << >> = v
    OBVIOUS
  <2> QED
    BY <2>1, <2>2 DEF ListOfFirst
<1> QED
  BY <1>10, <1>11, <1>12 DEF V

\* Those of the first n DNs that are in the set.
Among(n, dns) == {d \in dns : \E i \in 1 .. n : TextOrder[i] = d}

LEMMA SortedRanked ==
    ASSUME NEW rs, NEW dns \in SUBSET DNs, dns = {r.dn : r \in rs}
    PROVE  Ranked(Sorted(rs), dns)
<1> DEFINE N == Len(TextOrder)
<1>0. N \in Nat
  BY OrderFacts
<1>1. PICK f : /\ f \in [0 .. N -> Seq(DNs)] /\ f[0] = << >>
               /\ \A n \in 1 .. N : ListOfFirst(f, n, dns)
               /\ Sorted(rs) = f[N]
  BY SortedUnfolds
<1> DEFINE Holds(n) == /\ f[n] \in Seq(dns) /\ Len(f[n]) = Cardinality(Among(n, dns))
                       /\ \A d \in Among(n, dns) : \E i \in 1 .. Len(f[n]) : f[n][i] = d
                       /\ \A i \in 1 .. Len(f[n]) : Rank(f[n][i], dns) = i
           T == {n \in Nat : n \in 0 .. N => Holds(n)}
<1>2. 0 \in T
  <2>1. Among(0, dns) = {}
    BY DEF Among
  <2>2. f[0] = << >> /\ << >> \in Seq(dns) /\ Len(<< >>) = 0
    BY <1>1
  <2>3. Cardinality(Among(0, dns)) = 0 /\ ~ \E i \in 1 .. 0 : TRUE
    BY <2>1, FS_EmptySet
  <2>4. Holds(0)
    BY <2>1, <2>2, <2>3
  <2> HIDE DEF Holds
  <2> QED
    BY <2>4
<1>3. ASSUME NEW n \in Nat, n \in T PROVE n + 1 \in T
  <2> SUFFICES ASSUME n + 1 \in 0 .. N PROVE Holds(n + 1)
    <3> HIDE DEF Holds
    <3> QED
      OBVIOUS
  <2>1. n \in 0 .. N /\ n + 1 \in 1 .. N /\ (n + 1) - 1 = n
    BY <1>0
  <2>2. Holds(n)
    <3> HIDE DEF Holds
    <3> QED
      BY <1>3, <2>1
  <2> DEFINE t == TextOrder[n + 1]
  <2>3. t \in DNs /\ \A i \in 1 .. n : TextOrder[i] # t
    BY <2>1, OrderFacts
  <2>4. 1 .. n + 1 = (1 .. n) \cup {n + 1}
    OBVIOUS
  <2>5. ListOfFirst(f, n + 1, dns)
    BY <1>1, <2>1
  <2>6. CASE t \notin dns
    <3>1. f[n + 1] = f[n]
      BY <2>1, <2>5, <2>6 DEF ListOfFirst
    <3>2. Among(n + 1, dns) = Among(n, dns)
      BY <2>4, <2>6 DEF Among
    <3> QED
      BY <2>2, <3>1, <3>2
  <2>7. CASE t \in dns
    <3>1. f[n + 1] = f[n] \o <<t>>
      BY <2>1, <2>5, <2>7 DEF ListOfFirst
    <3>2. Among(n + 1, dns) = Among(n, dns) \cup {t} /\ t \notin Among(n, dns)
      BY <2>3, <2>4, <2>7 DEF Among
    <3>3. Cardinality(Among(n + 1, dns)) = Cardinality(Among(n, dns)) + 1
      <4>1. IsFiniteSet(Among(n, dns))
        <5>1. Among(n, dns) \in SUBSET DNs
          BY DEF Among
        <5> QED
          BY <5>1, DNsFinite
      <4> QED
        BY <3>2, <4>1, FS_AddElement
    <3> DEFINE k == Len(f[n])
    <3>4. /\ f[n + 1] \in Seq(dns) /\ Len(f[n + 1]) = k + 1 /\ k \in Nat
          /\ f[n + 1][k + 1] = t /\ \A i \in 1 .. k : f[n + 1][i] = f[n][i]
      <4>1. PICK s : s = f[n]
        OBVIOUS
      <4>2. s \in Seq(dns) /\ f[n + 1] = s \o <<t>>
        BY <2>2, <3>1, <4>1
      <4> HIDE DEF t
      <4>3. /\ s \o <<t>> \in Seq(dns) /\ Len(s \o <<t>>) = Len(s) + 1 /\ Len(s) \in Nat
            /\ (s \o <<t>>)[Len(s) + 1] = t
            /\ \A i \in 1 .. Len(s) : (s \o <<t>>)[i] = s[i]
        BY <2>7, <4>2
      <4> QED
        BY <4>1, <4>2, <4>3
    <3>5. Rank(t, dns) = k + 1
      <4>1. \A x \in DNs : x = t \/ Before(x, t) <=> \E i \in 1 .. n + 1 : TextOrder[i] = x
        <5> SUFFICES ASSUME NEW x \in DNs
                     PROVE  x = t \/ Before(x, t) <=> \E i \in 1 .. n + 1 : TextOrder[i] = x
          OBVIOUS
        <5>1. PICK j \in 1 .. N : TextOrder[j] = x
          BY OrderFacts
        <5>2. Before(x, t) <=> j < n + 1
          BY <2>1, <5>1, OrderFacts
        <5>3. \A i \in 1 .. n + 1 : TextOrder[i] = x <=> i = j
          BY <1>0, <2>1, <5>1, OrderFacts
        <5>4. x = t <=> j = n + 1
          BY <2>1, <5>1, OrderFacts
        <5> QED
          BY <5>2, <5>3, <5>4
      <4>2. {x \in dns : x = t \/ Before(x, t)} = Among(n + 1, dns)
        BY <4>1 DEF Among
      <4> QED
        BY <2>2, <3>3, <4>2 DEF Rank
    <3>6. \A i \in 1 .. k + 1 : i \in 1 .. k \/ i = k + 1
      BY <3>4
    <3>7. \A i \in 1 .. k + 1 : Rank(f[n + 1][i], dns) = i
      BY <2>2, <3>4, <3>5, <3>6
    <3>8. \A d \in Among(n + 1, dns) : \E i \in 1 .. k + 1 : f[n + 1][i] = d
      <4>1. \A d \in Among(n, dns) : \E i \in 1 .. k : f[n + 1][i] = d
        BY <2>2, <3>4
      <4>2. k + 1 \in 1 .. k + 1 /\ \A i \in 1 .. k : i \in 1 .. k + 1
        BY <3>4
      <4> QED
        BY <3>2, <3>4, <4>1, <4>2
    <3> QED
      BY <2>2, <3>3, <3>4, <3>7, <3>8
  <2> QED
    BY <2>6, <2>7
<1>4. Nat \subseteq T
  <2> HIDE DEF T
  <2> QED
    BY <1>2, <1>3, InductionOnSet
<1>5. Holds(N)
  <2> HIDE DEF Holds
  <2> QED
    BY <1>0, <1>4
<1>6. Among(N, dns) = dns
  BY OrderFacts DEF Among
<1> QED
  BY <1>1, <1>5, <1>6 DEF Ranked

LEMMA RankedFacts ==
    ASSUME NEW dns \in SUBSET DNs, NEW list, Ranked(list, dns)
    PROVE  /\ Len(list) \in Nat /\ Len(list) = Cardinality(dns) /\ DOMAIN list = 1 .. Len(list)
           /\ \A i \in 1 .. Len(list) : list[i] \in dns /\ Rank(list[i], dns) = i
           /\ \A d \in dns : Rank(d, dns) \in 1 .. Len(list) /\ list[Rank(d, dns)] = d
  BY DEF Ranked

----
(* Pages *)

\* The part of the list from place c + 1 on, of s entries or up to its end.
CutAt(page, dns, c, s) ==
    /\ page \in Seq(dns) /\ Len(page) <= s
    /\ c + Len(page) < Cardinality(dns) => Len(page) = s
    /\ \A i \in 1 .. Len(page) : Rank(page[i], dns) = c + i
    /\ \A d \in dns : Rank(d, dns) \in c + 1 .. c + s =>
          Rank(d, dns) - c \in 1 .. Len(page) /\ page[Rank(d, dns) - c] = d

LEMMA SubSeqCuts ==
    ASSUME NEW dns \in SUBSET DNs, NEW list, Ranked(list, dns), NEW c \in Nat, NEW s \in Nat,
           NEW m \in Nat, m = IF c + s <= Len(list) THEN c + s ELSE Len(list)
    PROVE  c <= Len(list) => CutAt(SubSeq(list, c + 1, m), dns, c, s)
<1> SUFFICES ASSUME c <= Len(list) PROVE CutAt(SubSeq(list, c + 1, m), dns, c, s)
  OBVIOUS
<1>1. PICK n \in Nat : n = Len(list) /\ n = Cardinality(dns)
  BY RankedFacts
<1>2. /\ list \in Seq(dns) /\ \A k \in 1 .. n : list[k] \in dns /\ Rank(list[k], dns) = k
      /\ \A d \in dns : Rank(d, dns) \in 1 .. n /\ list[Rank(d, dns)] = d
  BY <1>1, RankedFacts DEF Ranked
<1>3. c <= n /\ m \in c .. n /\ m <= c + s /\ (m = c + s \/ m = n)
  BY <1>1
<1> DEFINE page == SubSeq(list, c + 1, m)
<1>4. page \in Seq(dns) /\ Len(page) = m - c /\ \A k \in 1 .. m - c : page[k] = list[c + k]
  <2>1. c + 1 \in Nat \ {0} /\ m <= Len(list) /\ m \in Nat
    BY <1>1, <1>3
  <2>2. page \in Seq(dns)
    BY <1>1, <1>2, <2>1
  <2>3. Len(page) = m - c
    BY <1>1, <1>2, <1>3, <2>1
  <2>4. \A k \in 1 .. m - c : page[k] = list[c + k]
    <3> SUFFICES ASSUME NEW k \in 1 .. m - c PROVE page[k] = list[c + k]
      OBVIOUS
    <3>1. (c + 1) + k - 1 = c + k /\ k \in 1 .. m - (c + 1) + 1
      BY <1>3
    <3> QED
      BY <1>1, <1>2, <2>1, <3>1
  <2> QED
    BY <2>2, <2>3, <2>4
<1> HIDE DEF page
<1>5. m - c \in Nat /\ m - c <= s
  BY <1>3
<1>6. \A k \in 1 .. Len(page) : Rank(page[k], dns) = c + k
  <2> SUFFICES ASSUME NEW k \in 1 .. Len(page) PROVE Rank(page[k], dns) = c + k
    OBVIOUS
  <2>1. c + k \in 1 .. n /\ page[k] = list[c + k]
    BY <1>3, <1>4, <1>5
  <2> QED
    BY <1>2, <2>1
<1>7. ASSUME NEW d \in dns, Rank(d, dns) \in c + 1 .. c + s
      PROVE  Rank(d, dns) - c \in 1 .. Len(page) /\ page[Rank(d, dns) - c] = d
  <2>1. Rank(d, dns) \in 1 .. n /\ list[Rank(d, dns)] = d
    BY <1>2
  <2>2. PICK k \in Nat : k = Rank(d, dns)
    BY <2>1
  <2>3. k - c \in 1 .. m - c /\ c + (k - c) = k
    BY <1>3, <1>7, <2>1, <2>2
  <2> QED
    BY <1>4, <2>1, <2>2, <2>3
<1>8. c + Len(page) < Cardinality(dns) => Len(page) = s
  <2>1. c + Len(page) = m /\ Len(page) = m - c
    BY <1>3, <1>4
  <2>2. m # n => m - c = s
    BY <1>3
  <2> QED
    BY <1>1, <1>3, <2>1, <2>2
<1> QED
  BY <1>4, <1>5, <1>6, <1>7, <1>8 DEF CutAt, page

\* A page after the end.
LEMMA EmptyCuts ==
    ASSUME NEW dns \in SUBSET DNs, NEW c \in Nat, NEW s \in Nat, s = 0 \/ Cardinality(dns) <= c
    PROVE  CutAt(<< >>, dns, c, s)
<1>1. Cardinality(dns) \in Nat
  BY DNsFinite
<1>2. \A d \in dns : Rank(d, dns) \in 1 .. Cardinality(dns)
  BY RankBounds
<1>3. \A d \in dns : Rank(d, dns) \notin c + 1 .. c + s
  BY <1>1, <1>2
<1>4. << >> \in Seq(dns) /\ Len(<< >>) = 0
  OBVIOUS
<1> QED
  BY <1>1, <1>3, <1>4 DEF CutAt

LEMMA LeastOfTwo ==
    ASSUME NEW a \in Nat, NEW b \in Nat
    PROVE  Min({a, b}) = IF a <= b THEN a ELSE b
  BY DEF Min

\* The number of the entries before the page asked for.
Skipped == IF walk.route = "scim" THEN position - 1 ELSE (position - 1) * walk.size

Asking == /\ walk \in WalkTypes /\ walk.route # "directory" /\ position \in Nat \ {0}

LEMMA SkippedType == Asking => Skipped \in Nat /\ PageSize(walk) \in Nat
<1> SUFFICES ASSUME Asking PROVE Skipped \in Nat /\ PageSize(walk) \in Nat
  OBVIOUS
<1>1. walk.size \in Nat /\ position - 1 \in Nat /\ MaxCount \in Nat
  BY ListingsAssumption DEF Asking, WalkTypes
<1>2. Skipped \in Nat
  BY <1>1 DEF Skipped
<1>3. Min({walk.size, MaxCount}) \in Nat
  BY <1>1, LeastOfTwo
<1> QED
  BY <1>1, <1>2, <1>3 DEF PageSize

LEMMA WrapsNothing ==
    ASSUME NEW n \in Nat, n <= MaxInt
    PROVE  Wrapped(n) = n
<1>1. MaxInt \in Nat
  BY ListingsAssumption
<1>2. \A a \in Nat : \A b \in Nat \ {0} : a < b => a % b = a
  OBVIOUS
<1>3. 2 * (MaxInt + 1) \in Nat \ {0} /\ n < 2 * (MaxInt + 1)
  BY <1>1
<1>4. n % (2 * (MaxInt + 1)) = n
  BY <1>2, <1>3
<1> QED
  BY <1>1, <1>4 DEF Wrapped

\* A page is the cut of the list it should be, if its offset is an int.
LEMMA PageCuts ==
    ASSUME Asking, NEW dns \in SUBSET DNs, NEW list, Ranked(list, dns), Skipped <= MaxInt
    PROVE  /\ PageOf(list).code = "ok" /\ PageOf(list).total = Cardinality(dns)
           /\ CutAt(PageOf(list).entries, dns, Skipped, PageSize(walk))
<1>1. PICK n \in Nat : n = Len(list) /\ n = Cardinality(dns)
  BY RankedFacts
<1>2. PICK c \in Nat, s \in Nat : c = Skipped /\ s = PageSize(walk)
  BY SkippedType
<1>3. Min({c + s, n}) = IF c + s <= n THEN c + s ELSE n
  BY LeastOfTwo
<1>4. Min({c + s, n}) \in Nat
  BY <1>3
<1>5. c <= n => CutAt(SubSeq(list, c + 1, Min({c + s, n})), dns, c, s)
  BY <1>1, <1>3, <1>4, SubSeqCuts
<1>6. CASE walk.route = "scim"
  <2>1. position = c + 1
    BY <1>2, <1>6 DEF Skipped, Asking
  <2>2. PageOf(list) = ScimPage(list, c + 1, s)
    BY <1>2, <1>6, <2>1 DEF PageOf
  <2>3. c + 1 - 1 + s = c + s
    OBVIOUS
  <2>4. CASE s = 0 \/ c + 1 > n
    <3>1. CutAt(<< >>, dns, c, s)
      BY <1>1, <2>4, EmptyCuts
    <3>2. ScimPage(list, c + 1, s) = [code |-> "ok", total |-> n, entries |-> << >>]
      BY <1>1, <2>4 DEF ScimPage
    <3> QED
      BY <1>1, <1>2, <2>2, <3>1, <3>2
  <2>5. CASE ~(s = 0 \/ c + 1 > n)
    <3>1. ScimPage(list, c + 1, s)
            = [code |-> "ok", total |-> n, entries |-> SubSeq(list, c + 1, Min({c + s, n}))]
      <4>1. Min({c + 1 - 1 + s, Len(list)}) = Min({c + s, n}) /\ Len(list) = n
        BY <1>1, <2>3
      <4>2. ~(s = 0 \/ c + 1 > Len(list))
        BY <1>1, <2>5
      <4>3. PICK e : e = SubSeq(list, c + 1, Min({c + 1 - 1 + s, Len(list)}))
        OBVIOUS
      <4>4. e = SubSeq(list, c + 1, Min({c + s, n}))
        BY <4>1, <4>3, Zenon
      <4>5. (IF s = 0 \/ c + 1 > Len(list) THEN << >> ELSE e) = e
        BY <4>2
      <4>6. ScimPage(list, c + 1, s)
              = [code |-> "ok", total |-> Len(list),
                 entries |-> IF s = 0 \/ c + 1 > Len(list) THEN << >> ELSE e]
        BY <4>3 DEF ScimPage
      <4>7. ScimPage(list, c + 1, s) = [code |-> "ok", total |-> n, entries |-> e]
        BY <4>1, <4>5, <4>6
      <4> QED
        BY <4>4, <4>7, Zenon
    <3>2. c <= n
      BY <2>5
    <3> QED
      <4>1. CutAt(SubSeq(list, c + 1, Min({c + s, n})), dns, c, s)
        BY <1>5, <3>2
      <4>2. PICK e : e = SubSeq(list, c + 1, Min({c + s, n}))
        OBVIOUS
      <4>3. PageOf(list) = [code |-> "ok", total |-> n, entries |-> e]
        BY <2>2, <3>1, <4>2
      <4> QED
        BY <1>1, <1>2, <4>1, <4>2, <4>3
  <2> QED
    BY <2>4, <2>5
<1>7. CASE walk.route # "scim"
  <2>1. walk.route = "search"
    BY <1>7 DEF Asking, WalkTypes
  <2>2. c = (position - 1) * walk.size /\ s = walk.size
    BY <1>2, <1>7 DEF Skipped, PageSize
  <2>3. Offset(position, walk.size) = c
    BY <1>2, <2>2, WrapsNothing DEF Offset
  <2>4. PICK start \in Nat : start = Min({c, n}) /\ start = IF c <= n THEN c ELSE n
    BY LeastOfTwo
  <2>5. PageOf(list) = [code |-> "ok", total |-> n,
                        entries |-> SubSeq(list, start + 1, Min({start + s, n}))]
    <3>1. PageOf(list) = ApiPage(list, position, walk.size)
      BY <2>1 DEF PageOf
    <3>2. Min({Offset(position, walk.size), Len(list)}) = start /\ ~(start < 0)
      BY <1>1, <2>3, <2>4
    <3> QED
      BY <1>1, <2>2, <3>1, <3>2 DEF ApiPage
  <2>6. CASE c <= n
    BY <1>1, <1>2, <1>5, <2>4, <2>5, <2>6
  <2>7. CASE ~(c <= n)
    <3>1. start = n /\ Min({n + s, n}) = n
      <4>1. n + s \in Nat
        OBVIOUS
      <4>2. Min({n + s, n}) = IF n + s <= n THEN n + s ELSE n
        BY <4>1, LeastOfTwo
      <4> QED
        BY <2>4, <2>7, <4>2
    <3>2. SubSeq(list, n + 1, n) = << >>
      <4>1. list \in Seq(dns)
        BY DEF Ranked
      <4> QED
        BY <1>1, <4>1
    <3>3. CutAt(<< >>, dns, c, s)
      BY <1>1, <2>7, EmptyCuts
    <3> QED
      <4>1. PageOf(list).code = "ok" /\ PageOf(list).total = n /\ PageOf(list).entries = << >>
        BY <2>5, <3>1, <3>2
      <4> QED
        BY <1>1, <1>2, <3>3, <4>1
  <2> QED
    BY <2>6, <2>7
<1> QED
  BY <1>6, <1>7

\* How often a list names a DN.
TimesIn(d, s) == Cardinality({i \in DOMAIN s : s[i] = d})

LEMMA TimesAppended ==
    ASSUME NEW X, NEW s \in Seq(X), NEW t \in Seq(X), NEW d,
           \A i, j \in 1 .. Len(t) : t[i] = t[j] => i = j
    PROVE  /\ TimesIn(d, s) \in Nat
           /\ TimesIn(d, s \o t) = IF \E j \in 1 .. Len(t) : t[j] = d
                                   THEN TimesIn(d, s) + 1 ELSE TimesIn(d, s)
<1> DEFINE A == {i \in DOMAIN s : s[i] = d}
           B == {i \in DOMAIN (s \o t) : (s \o t)[i] = d}
<1>1. /\ DOMAIN s = 1 .. Len(s) /\ Len(s) \in Nat /\ Len(t) \in Nat
      /\ DOMAIN (s \o t) = 1 .. Len(s) + Len(t)
      /\ \A i \in 1 .. Len(s) : (s \o t)[i] = s[i]
      /\ \A i \in 1 .. Len(t) : (s \o t)[Len(s) + i] = t[i]
  OBVIOUS
<1>2. IsFiniteSet(A) /\ Cardinality(A) \in Nat
  <2>1. PICK n \in Nat : n = Len(s)
    BY <1>1
  <2>2. IsFiniteSet(1 .. n) /\ A \in SUBSET (1 .. n)
    BY <1>1, <2>1, FS_Interval
  <2> QED
    BY <2>2, FS_Subset, FS_CardinalityType
<1> DEFINE u == s \o t
<1> HIDE DEF u
<1>3. \A i \in DOMAIN u : i \in 1 .. Len(s) \/ i - Len(s) \in 1 .. Len(t)
  BY <1>1 DEF u
<1>4. \A i \in DOMAIN u : i \notin 1 .. Len(s) => u[i] = t[i - Len(s)] /\ Len(s) + (i - Len(s)) = i
  <2> SUFFICES ASSUME NEW i \in DOMAIN u, i \notin 1 .. Len(s)
               PROVE  u[i] = t[i - Len(s)] /\ Len(s) + (i - Len(s)) = i
    OBVIOUS
  <2>1. i - Len(s) \in 1 .. Len(t)
    BY <1>3
  <2>2. Len(s) + (i - Len(s)) = i
    BY <1>1 DEF u
  <2>3. u[Len(s) + (i - Len(s))] = t[i - Len(s)]
    BY <1>1, <2>1 DEF u
  <2> QED
    BY <2>2, <2>3
<1>5. CASE \E j \in 1 .. Len(t) : t[j] = d
  <2>1. PICK j \in 1 .. Len(t) : t[j] = d
    BY <1>5
  <2>2. \A i \in DOMAIN u : i \notin 1 .. Len(s) /\ u[i] = d => i = Len(s) + j
    BY <1>1, <1>3, <1>4, <2>1
  <2>3. Len(s) + j \in DOMAIN u /\ u[Len(s) + j] = d
    BY <1>1, <2>1 DEF u
  <2>4. \A i \in 1 .. Len(s) : i \in DOMAIN u /\ u[i] = s[i]
    BY <1>1 DEF u
  <2>5. {i \in DOMAIN u : u[i] = d} = A \cup {Len(s) + j}
    BY <1>1, <2>2, <2>3, <2>4
  <2>6. Len(s) + j \notin A
    BY <1>1
  <2>7. Cardinality(A \cup {Len(s) + j}) = Cardinality(A) + 1
    BY <1>2, <2>6, FS_AddElement
  <2> QED
    BY <1>2, <1>5, <2>5, <2>7 DEF TimesIn, u
<1>6. CASE ~ \E j \in 1 .. Len(t) : t[j] = d
  <2>1. \A i \in DOMAIN u : u[i] = d => i \in 1 .. Len(s)
    BY <1>3, <1>4, <1>6
  <2>2. \A i \in 1 .. Len(s) : i \in DOMAIN u /\ u[i] = s[i]
    BY <1>1 DEF u
  <2>3. {i \in DOMAIN u : u[i] = d} = A
    BY <1>1, <2>1, <2>2
  <2> QED
    BY <1>2, <1>6, <2>3 DEF TimesIn, u
<1> QED
  BY <1>5, <1>6

----
(* The entries in the tree *)

ScannedRows == [id : Ids, dn : DNs, class : Classes, members : SUBSET DNs]

\* The walk down the tree meets entries only.
LEMMA TreeOfEntries == Subtrees(BaseDN) \subseteq entries
<1> DEFINE V == SUBSET entries
           start == {r \in entries : r.dn = BaseDN}
           Under(above) == UNION {{r \in entries : ParentDN(r.dn) = s.dn} : s \in above}
           Step == [S \in V |-> Under(S)]
<1>1. Step \in [V -> V]
  OBVIOUS
<1>2. PICK g \in [Nat -> V] : g[0] = start /\ \A n \in Nat : g[n + 1] = Step[g[n]]
  <2>1. start \in V
    OBVIOUS
  <2> HIDE DEF Step, V, start
  <2> QED
    BY <1>1, <2>1, RecursionOnNat
<1>3. \A n \in Nat : g[n + 1] = Under(g[n])
  BY <1>2
<1>4. g = [n \in Nat |-> IF n = 0 THEN start ELSE Under(g[n - 1])]
  <2> HIDE DEF Step, V, start, Under
  <2>1. ASSUME NEW n \in Nat, n # 0 PROVE g[n] = Under(g[n - 1])
    <3>1. n - 1 \in Nat /\ n = (n - 1) + 1
      BY <2>1
    <3> QED
      BY <1>3, <3>1
  <2> QED
    BY <1>2, <2>1
<1>5. PICK f : f = Levels(BaseDN)
  OBVIOUS
<1>6. f = [n \in Nat |-> IF n = 0 THEN start ELSE Under(f[n - 1])]
  BY <1>4, <1>5, Zenon DEF Levels
<1>7. \A n \in Nat : f[n] \subseteq entries
  BY <1>6
<1>8. \A n \in 0 .. MaxDepth : n \in Nat
  OBVIOUS
<1> QED
  BY <1>5, <1>7, <1>8 DEF Subtrees

\* What is scanned of the tree is a row each, and the rows have DNs of their own.
LEMMA TreeRows ==
    ASSUME TablesInv
    PROVE  /\ \A class : \A x \in InTree(class) :
                 /\ x \in ScannedRows /\ class \in {"any", x.class}
                 /\ \E r \in entries : x = Scanned(r) /\ r.dn = x.dn
                 /\ x \in InTree("any") /\ x \in InTree(x.class)
           /\ \A j, k : \A x \in InTree(j) : \A y \in InTree(k) : x.dn = y.dn => x = y
           /\ \A x \in InTree("any") : x \in InTree(x.class)
<1>1. ASSUME NEW class, NEW x \in InTree(class)
      PROVE  /\ x \in ScannedRows /\ class \in {"any", x.class}
             /\ \E r \in entries : x = Scanned(r) /\ r.dn = x.dn
             /\ x \in InTree("any") /\ x \in InTree(x.class)
  <2>1. PICK r \in Subtrees(BaseDN) : x = Scanned(r) /\ class \in {"any", r.class}
    BY DEF InTree, OfClass
  <2>2. r \in entries /\ r.id \in Ids /\ r.dn \in DNs /\ r.class \in Classes
    BY <2>1, TreeOfEntries DEF TablesInv, TablesOK, EntryRows
  <2>3. LoadedEntry(r.dn).members \subseteq DNs
    BY DEF LoadedEntry
  <2>4. x \in ScannedRows /\ x.dn = r.dn /\ x.class = r.class
    BY <2>1, <2>2, <2>3 DEF Scanned, ScannedRows
  <2>5. x \in InTree("any") /\ x \in InTree(x.class)
    BY <2>1, <2>4 DEF InTree, OfClass
  <2> QED
    BY <2>1, <2>2, <2>4, <2>5
<1>2. ASSUME NEW j, NEW k, NEW x \in InTree(j), NEW y \in InTree(k), x.dn = y.dn
      PROVE  x = y
  BY <1>1, <1>2 DEF TablesInv, UniqueDN
<1> QED
  BY <1>1, <1>2

LEMMA TreeRowsNext ==
    TablesInv' =>
        (/\ \A class : \A x \in InTree(class) :
              /\ x \in ScannedRows /\ class \in {"any", x.class}
              /\ \E r \in entries : x = Scanned(r) /\ r.dn = x.dn
              /\ x \in InTree("any") /\ x \in InTree(x.class)
         /\ \A j, k : \A x \in InTree(j) : \A y \in InTree(k) : x.dn = y.dn => x = y
         /\ \A x \in InTree("any") : x \in InTree(x.class))'
  BY TreeRows, PTL

\* A write puts an entry into the table, or takes one from it, and leaves the others as they are.
LEMMA RowsAreKept ==
    ASSUME TablesInv, TablesInv',
           \/ \E d \in DNs : DeleteEntryTx(d)
           \/ \E e \in Entry : CreateEntryTx(e)
    PROVE  \A r \in entries : \A s \in entries' :
              r.dn = s.dn => r = s /\ Scanned(s)' = Scanned(r)
<1> SUFFICES ASSUME NEW r \in entries, NEW s \in entries', r.dn = s.dn
             PROVE  r = s /\ Scanned(s)' = Scanned(r)
  OBVIOUS
<1>1. r = s /\ \A m : <<r.id, m>> \in memberAttr' <=> <<r.id, m>> \in memberAttr
  <2>1. ASSUME NEW d \in DNs, DeleteEntryTx(d)
        PROVE  r = s /\ \A m : <<r.id, m>> \in memberAttr' <=> <<r.id, m>> \in memberAttr
    <3>1. s \in entries /\ r = s
      BY <2>1 DEF DeleteEntryTx, TablesInv, UniqueDN
    <3>2. r.id # IdOf(d)
      BY <2>1, <3>1, DeleteKeepsTables
    <3>3. memberAttr' = memberAttr \/ memberAttr' = Without(memberAttr, IdOf(d))
      BY <2>1 DEF DeleteEntryTx, Cascade, attributes
    <3>4. \A m : <<r.id, m>>[1] = r.id
      OBVIOUS
    <3>5. \A m : <<r.id, m>> \in memberAttr' <=> <<r.id, m>> \in memberAttr
      BY <3>2, <3>3, <3>4 DEF Without
    <3> QED
      BY <3>1, <3>5
  <2>2. ASSUME NEW e \in Entry, CreateEntryTx(e)
        PROVE  r = s /\ \A m : <<r.id, m>> \in memberAttr' <=> <<r.id, m>> \in memberAttr
    <3>1. r = s
      BY <2>2 DEF CreateEntryTx, CanCreate, Exists, NewRow, TablesInv, UniqueDN
    <3>2. r.id # NewId
      <4>1. r.id < nextId /\ r.id \in Nat /\ nextId \in Nat
        BY DEF TablesInv, BelowCounters, TablesOK, EntryRows, Ids
      <4> QED
        BY <4>1 DEF NewId
    <3>3. memberAttr' = memberAttr \cup ({NewId} \X e.members)
      BY <2>2 DEF CreateEntryTx
    <3>4. \A m : <<r.id, m>> \in {NewId} \X e.members => r.id = NewId
      OBVIOUS
    <3>5. \A m : <<r.id, m>> \in memberAttr' <=> <<r.id, m>> \in memberAttr
      BY <3>2, <3>3, <3>4
    <3> QED
      BY <3>1, <3>5
  <2> QED
    BY <2>1, <2>2
<1>2. RowAt(r.dn) = r /\ RowAt(r.dn)' = r
  <2>1. \A x \in entries : x.dn = r.dn => x = r
    BY DEF TablesInv, UniqueDN
  <2>2. \A x \in entries' : x.dn = r.dn => x = r
    BY <1>1 DEF TablesInv, UniqueDN
  <2>3. (CHOOSE x \in entries : x.dn = r.dn) = r
    BY <2>1
  <2>4. (CHOOSE x \in entries' : x.dn = r.dn) = r
    BY <1>1, <2>2
  <2> QED
    BY <2>3, <2>4 DEF RowAt
<1>3. LoadedEntry(r.dn).members = {m \in DNs : <<r.id, m>> \in memberAttr}
  BY <1>2 DEF LoadedEntry
<1>4. LoadedEntry(r.dn).members' = {m \in DNs : <<r.id, m>> \in memberAttr'}
  BY <1>2 DEF LoadedEntry
<1>5. LoadedEntry(r.dn).members' = LoadedEntry(r.dn).members
  BY <1>1, <1>3, <1>4
<1>6. Scanned(r)' = Scanned(r)
  BY <1>5 DEF Scanned
<1> QED
  BY <1>1, <1>6

\* So does the tree: a DN that is in it before and after names the same row.
LEMMA TreeIsKept ==
    ASSUME TablesInv, TablesInv',
           \/ \E d \in DNs : DeleteEntryTx(d)
           \/ \E e \in Entry : CreateEntryTx(e)
    PROVE  \A j, k : \A x \in InTree(j) : \A y \in InTree(k)' : x.dn = y.dn => x = y
<1> SUFFICES ASSUME NEW j, NEW k, NEW x \in InTree(j), NEW y \in InTree(k)', x.dn = y.dn
             PROVE  x = y
  OBVIOUS
<1>1. PICK r \in entries : x = Scanned(r) /\ r.dn = x.dn
  BY TreeRows
<1>2. PICK s \in entries' : y = Scanned(s)' /\ s.dn = y.dn
  BY TreeRowsNext
<1> QED
  BY <1>1, <1>2, RowsAreKept

----
(* A step that writes nothing *)

LEMMA SameTree ==
    ASSUME UNCHANGED tables
    PROVE  /\ \A class : InTree(class)' = InTree(class)
           /\ \A r, q : Matches(r, q)' <=> Matches(r, q)
           /\ \A w : Listed(w)' = Listed(w)
<1>1. /\ entries' = entries /\ otherAttr' = otherAttr /\ memberAttr' = memberAttr
      /\ uuidAttr' = uuidAttr /\ groupMembers' = groupMembers
  BY DEF tables, attributes
<1>2. Subtrees(BaseDN)' = Subtrees(BaseDN)
  <2>1. Levels(BaseDN)' = Levels(BaseDN)
    BY <1>1 DEF Levels
  <2> QED
    BY <2>1 DEF Subtrees
<1>3. ASSUME NEW d PROVE LoadedEntry(d)' = LoadedEntry(d)
  BY <1>1 DEF LoadedEntry, RowAt, StoredUuids
<1>4. ASSUME NEW r PROVE Scanned(r)' = Scanned(r)
  BY <1>3 DEF Scanned
<1>5. ASSUME NEW class PROVE InTree(class)' = InTree(class)
  BY <1>2, <1>4 DEF InTree, OfClass
<1>6. ASSUME NEW id PROVE MemberOfId(id)' = MemberOfId(id)
  <2>1. LiveIds' = LiveIds
    BY <1>1 DEF LiveIds
  <2>2. UpTo(LiveIds)' = UpTo(LiveIds)
    BY <1>1, <2>1 DEF UpTo
  <2>3. GroupsOf(id, LiveIds)' = GroupsOf(id, LiveIds)
    BY <2>2 DEF GroupsOf
  <2>4. Visited(GroupsOf(id, LiveIds), UpTo(LiveIds))' = Visited(GroupsOf(id, LiveIds), UpTo(LiveIds))
    BY <2>2, <2>3
  <2> QED
    BY <1>1, <2>4 DEF MemberOfId
<1>7. ASSUME NEW r, NEW q PROVE Matches(r, q)' <=> Matches(r, q)
  BY <1>6 DEF Matches
<1>8. ASSUME NEW w PROVE Listed(w)' = Listed(w)
  BY <1>5, <1>7 DEF Listed, Matching
<1> QED
  BY <1>5, <1>7, <1>8

----
(* A client on its way through a list *)

\* An entry of the list the client has not seen is further on than place c, unless one before
\* it left.
Unseen(dns, gone, new, s, c) ==
    \A d \in dns \ (gone \cup new) :
        TimesIn(d, s) = 0 /\ (\A x \in gone : ~Before(x, d)) => c < Rank(d, dns)

\* One it has seen it saw once, up to place c, unless one before it joined.
Seen(dns, gone, new, s, c) ==
    \A d \in dns \ (gone \cup new) :
        TimesIn(d, s) # 0 /\ (\A x \in new : ~Before(x, d)) =>
            TimesIn(d, s) = 1 /\ Rank(d, dns) <= c

LEMMA UnseenKept ==
    ASSUME NEW S \in SUBSET DNs, NEW T \in SUBSET DNs, NEW gone, NEW new, NEW gone2, NEW new2,
           NEW s, NEW c \in Nat,
           Unseen(S, gone, new, s, c), gone \subseteq gone2, new \subseteq new2,
           S \subseteq T \cup gone2, T \subseteq S \cup gone2 \cup new2
    PROVE  Unseen(T, gone2, new2, s, c)
<1> SUFFICES ASSUME NEW d \in T \ (gone2 \cup new2), TimesIn(d, s) = 0,
                    \A x \in gone2 : ~Before(x, d)
             PROVE  c < Rank(d, T)
  BY DEF Unseen
<1>1. d \in S \ (gone \cup new) /\ \A x \in gone : ~Before(x, d)
  OBVIOUS
<1>2. c < Rank(d, S)
  BY <1>1 DEF Unseen
<1>3. UpThrough(d, S) \subseteq T
  BY DEF UpThrough
<1>4. Rank(d, S) \in Nat /\ Rank(d, T) \in Nat /\ Rank(d, S) <= Rank(d, T)
  BY <1>3, RankGrows
<1> QED
  BY <1>2, <1>4

LEMMA SeenKept ==
    ASSUME NEW S \in SUBSET DNs, NEW T \in SUBSET DNs, NEW gone, NEW new, NEW gone2, NEW new2,
           NEW s, NEW c \in Nat,
           Seen(S, gone, new, s, c), gone \subseteq gone2, new \subseteq new2,
           T \subseteq S \cup new2
    PROVE  Seen(T, gone2, new2, s, c)
<1> SUFFICES ASSUME NEW d \in T \ (gone2 \cup new2), TimesIn(d, s) # 0,
                    \A x \in new2 : ~Before(x, d)
             PROVE  TimesIn(d, s) = 1 /\ Rank(d, T) <= c
  BY DEF Seen
<1>1. d \in S \ (gone \cup new) /\ \A x \in new : ~Before(x, d)
  OBVIOUS
<1>2. TimesIn(d, s) = 1 /\ Rank(d, S) <= c
  BY <1>1 DEF Seen
<1>3. UpThrough(d, T) \subseteq S
  BY DEF UpThrough
<1>4. Rank(d, S) \in Nat /\ Rank(d, T) \in Nat /\ Rank(d, T) <= Rank(d, S)
  BY <1>3, RankGrows
<1> QED
  BY <1>2, <1>4

\* A page names each entry once.
LEMMA CutFacts ==
    ASSUME NEW dns \in SUBSET DNs, NEW page, NEW c \in Nat, NEW n \in Nat, CutAt(page, dns, c, n)
    PROVE  /\ page \in Seq(dns) /\ Len(page) \in 0 .. n /\ DOMAIN page = 1 .. Len(page)
           /\ \A i, j \in 1 .. Len(page) : page[i] = page[j] => i = j
           /\ \A d : (\E i \in 1 .. Len(page) : page[i] = d)
                      <=> d \in dns /\ Rank(d, dns) \in c + 1 .. c + n
           /\ \A d : (\E i \in 1 .. Len(page) : page[i] = d) => Rank(d, dns) <= c + Len(page)
<1>1. page \in Seq(dns) /\ Len(page) <= n
  BY DEF CutAt
<1>2. Len(page) \in 0 .. n /\ DOMAIN page = 1 .. Len(page) /\ \A i \in 1 .. Len(page) : page[i] \in dns
  BY <1>1
<1>3. \A i \in 1 .. Len(page) : Rank(page[i], dns) = c + i
  BY DEF CutAt
<1>4. \A i, j \in 1 .. Len(page) : page[i] = page[j] => i = j
  <2> SUFFICES ASSUME NEW i \in 1 .. Len(page), NEW j \in 1 .. Len(page), page[i] = page[j]
               PROVE  i = j
    OBVIOUS
  <2>1. c + i = c + j
    BY <1>3
  <2> QED
    BY <1>2, <2>1
<1>5. ASSUME NEW i \in 1 .. Len(page)
      PROVE  /\ page[i] \in dns /\ Rank(page[i], dns) \in c + 1 .. c + n
             /\ Rank(page[i], dns) <= c + Len(page)
  <2>1. Rank(page[i], dns) = c + i
    BY <1>3
  <2> QED
    BY <1>2, <2>1
<1>6. ASSUME NEW d \in dns, Rank(d, dns) \in c + 1 .. c + n
      PROVE  \E i \in 1 .. Len(page) : page[i] = d
  BY <1>6 DEF CutAt
<1> QED
  BY <1>1, <1>2, <1>4, <1>5, <1>6

\* After a page the place is further on, by what the page showed at least.
LEMMA UnseenAfterPage ==
    ASSUME NEW dns \in SUBSET DNs, NEW gone, NEW new, NEW s \in Seq(DNs), NEW c \in Nat,
           NEW page, NEW n \in Nat, CutAt(page, dns, c, n), NEW c2 \in Nat, c2 <= c + n,
           Unseen(dns, gone, new, s, c)
    PROVE  Unseen(dns, gone, new, s \o page, c2)
<1>0. /\ page \in Seq(dns)
      /\ \A i, j \in 1 .. Len(page) : page[i] = page[j] => i = j
      /\ \A x : (\E i \in 1 .. Len(page) : page[i] = x)
                 <=> x \in dns /\ Rank(x, dns) \in c + 1 .. c + n
  BY CutFacts
<1> SUFFICES ASSUME NEW d \in dns \ (gone \cup new), TimesIn(d, s \o page) = 0,
                    \A x \in gone : ~Before(x, d)
             PROVE  c2 < Rank(d, dns)
  BY DEF Unseen
<1>1. /\ page \in Seq(DNs) /\ \A i, j \in 1 .. Len(page) : page[i] = page[j] => i = j
      /\ (\E i \in 1 .. Len(page) : page[i] = d) <=> Rank(d, dns) \in c + 1 .. c + n
  <2>1. page \in Seq(DNs)
    BY <1>0
  <2> QED
    BY <1>0, <2>1
<1>2. /\ TimesIn(d, s) \in Nat
      /\ TimesIn(d, s \o page) = IF \E j \in 1 .. Len(page) : page[j] = d
                                 THEN TimesIn(d, s) + 1 ELSE TimesIn(d, s)
  BY <1>1, TimesAppended
<1>3. TimesIn(d, s) = 0 /\ ~ \E i \in 1 .. Len(page) : page[i] = d
  BY <1>2
<1>4. c < Rank(d, dns) /\ Rank(d, dns) \notin c + 1 .. c + n
  BY <1>1, <1>3 DEF Unseen
<1>5. Rank(d, dns) \in 1 .. Cardinality(dns)
  BY RankBounds
<1>6. Cardinality(dns) \in Nat
  BY DNsFinite
<1> QED
  BY <1>4, <1>5, <1>6

LEMMA SeenAfterPage ==
    ASSUME NEW dns \in SUBSET DNs, NEW more \in SUBSET DNs, dns \subseteq more,
           NEW gone, NEW new, NEW s \in Seq(DNs), NEW c \in Nat,
           NEW page, NEW n \in Nat, CutAt(page, dns, c, n), NEW c2 \in Nat, c + Len(page) <= c2,
           Seen(more, gone, new, s, c)
    PROVE  Seen(dns, gone, new, s \o page, c2)
<1> SUFFICES ASSUME NEW d \in dns \ (gone \cup new), TimesIn(d, s \o page) # 0,
                    \A x \in new : ~Before(x, d)
             PROVE  TimesIn(d, s \o page) = 1 /\ Rank(d, dns) <= c2
  BY DEF Seen
<1> DEFINE onPage == \E i \in 1 .. Len(page) : page[i] = d
<1>1. /\ page \in Seq(DNs) /\ \A i, j \in 1 .. Len(page) : page[i] = page[j] => i = j
      /\ onPage <=> Rank(d, dns) \in c + 1 .. c + n
      /\ onPage => Rank(d, dns) <= c + Len(page)
      /\ Len(page) \in Nat
  <2>1. page \in Seq(dns)
    BY CutFacts
  <2>2. page \in Seq(DNs)
    BY <2>1
  <2>3. \A i, j \in 1 .. Len(page) : page[i] = page[j] => i = j
    BY CutFacts, Zenon
  <2>4. \A x : (\E i \in 1 .. Len(page) : page[i] = x)
               <=> x \in dns /\ Rank(x, dns) \in c + 1 .. c + n
    BY CutFacts, Zenon
  <2>5. /\ Len(page) \in 0 .. n
        /\ \A x : (\E i \in 1 .. Len(page) : page[i] = x) => Rank(x, dns) <= c + Len(page)
    BY CutFacts
  <2> QED
    BY <2>2, <2>3, <2>4, <2>5
<1>2. /\ TimesIn(d, s) \in Nat
      /\ TimesIn(d, s \o page) = IF onPage THEN TimesIn(d, s) + 1 ELSE TimesIn(d, s)
  BY <1>1, TimesAppended
<1> HIDE DEF onPage
<1>3. TimesIn(d, s) # 0 => TimesIn(d, s) = 1 /\ Rank(d, dns) <= c
  <2> SUFFICES ASSUME TimesIn(d, s) # 0 PROVE TimesIn(d, s) = 1 /\ Rank(d, dns) <= c
    OBVIOUS
  <2>1. TimesIn(d, s) = 1 /\ Rank(d, more) <= c
    BY DEF Seen
  <2>2. UpThrough(d, dns) \subseteq more
    BY DEF UpThrough
  <2>3. Rank(d, dns) \in Nat /\ Rank(d, more) \in Nat /\ Rank(d, dns) <= Rank(d, more)
    BY <2>2, RankGrows
  <2> QED
    BY <2>1, <2>3
<1>4. Rank(d, dns) \in Nat
  <2>1. Rank(d, dns) \in 1 .. Cardinality(dns) /\ Cardinality(dns) \in Nat
    BY RankBounds, DNsFinite
  <2> QED
    BY <2>1
<1> QED
  BY <1>1, <1>2, <1>3, <1>4

----
(* The inductive invariant *)

Going == phase \in {"search", "project"}

\* What is left of the directory's three searches.
Turns ==
    {<<"inetOrgPerson", "groupOfNames", "organizationalUnit">>,
     <<"groupOfNames", "organizationalUnit">>, <<"organizationalUnit">>}

ListTypes ==
    /\ phase \in {"idle", "search", "project", "ended"}
    /\ shown \in Seq(DNs) /\ left \subseteq DNs /\ joined \subseteq DNs
    /\ rows \subseteq ScannedRows /\ (phase # "project" => rows = {})
    /\ IF phase = "idle" THEN walk = NoWalk ELSE walk \in Walks
    /\ Going => IF walk.route = "directory" THEN classes \in Turns
                ELSE /\ position \in Nat \ {0} /\ classes = <<walk.class>>
                     /\ walk.route = "search" => walk.size \in 1 .. MaxPageSize

\* The class that is searched.
Turn == Head(classes)

\* Between the two statements: what is in memory is in the tree, or left; what is in the tree
\* and matches is in memory, or joined.
InMemory ==
    phase = "project" =>
        /\ \A r \in rows : r \in InTree(Turn) \/ r.dn \in left
        /\ \A x \in InTree(Turn) : x \in rows \/ ~Matches(x, walk.query) \/ x.dn \in joined

ListedDNs == DNsIn(Listed(walk))

MatchedDNs == {r.dn : r \in Matching(rows, walk.query)}

\* Those that match, and those that may come to match since they are gone.
MayShow == {r.dn : r \in {r \in rows : Matches(r, walk.query) \/ r \notin InTree(Turn)}}

Paging ==
    (Going /\ walk.route # "directory" /\ walk.first = 1) =>
        /\ Skipped <= MaxInt
        /\ phase = "search" => /\ Unseen(ListedDNs, left, joined, shown, Skipped)
                               /\ Seen(ListedDNs, left, joined, shown, Skipped)
        /\ phase = "project" => /\ Unseen(MatchedDNs, left, joined, shown, Skipped)
                                /\ Seen(MayShow, left, joined, shown, Skipped)

\* The classes the directory has shown.
Done ==
    {"inetOrgPerson", "groupOfNames", "organizationalUnit"}
        \ (IF Going THEN Range(classes) ELSE {})

Covering ==
    (phase # "idle" /\ walk.route = "directory") =>
        /\ \A d \in DNs : TimesIn(d, shown) # 0 =>
              d \in left \/ \E k \in Done : <<d, k>> \in Listed(walk)
        /\ left \cap ListedDNs \subseteq joined
        /\ \A p \in Listed(walk) :
              p[2] \in Done /\ p[1] \notin left \cup joined => TimesIn(p[1], shown) = 1
        /\ \A d \in DNs : TimesIn(d, shown) > 1 => d \in left \cap joined
        /\ \A r \in rows : TimesIn(r.dn, shown) # 0 => r.dn \in left \cap joined

ListInv ==
    /\ TablesInv
    /\ ListTypes
    /\ InMemory
    /\ Paging
    /\ Covering
    /\ WalkShowsAll

----
(* What is listed, and what a write changes of it *)

ListedShape ==
    /\ \A x \in InTree(walk.class) : Matches(x, walk.query) => <<x.dn, x.class>> \in Listed(walk)
    /\ \A p \in Listed(walk) : \E x \in InTree(walk.class) :
          Matches(x, walk.query) /\ p = <<x.dn, x.class>>
    /\ \A p \in Listed(walk) : p[1] \in DNs /\ p[2] \in Classes /\ p = <<p[1], p[2]>>
    /\ \A p, o \in Listed(walk) : p[1] = o[1] => p = o
    /\ ListedDNs \subseteq DNs

LEMMA ListedIsMatched == TablesInv /\ walk \in Walks => ListedShape
<1> SUFFICES ASSUME TablesInv, walk \in Walks PROVE ListedShape
  OBVIOUS
<1>1. Listed(walk) = {<<x.dn, x.class>> : x \in Matching(InTree(walk.class), walk.query)}
  BY ListingsAssumption DEF Listed
<1>2. \A x \in InTree(walk.class) : Matches(x, walk.query) => <<x.dn, x.class>> \in Listed(walk)
  BY <1>1 DEF Matching
<1>3. \A p \in Listed(walk) : \E x \in InTree(walk.class) :
          Matches(x, walk.query) /\ p = <<x.dn, x.class>>
  BY <1>1 DEF Matching
<1>4. \A x \in InTree(walk.class) : x.dn \in DNs /\ x.class \in Classes
  BY TreeRows DEF ScannedRows
<1>5. \A p \in Listed(walk) : p[1] \in DNs /\ p[2] \in Classes /\ p = <<p[1], p[2]>>
  BY <1>3, <1>4
<1>6. \A x, y \in InTree(walk.class) : x.dn = y.dn => x = y
  BY TreeRows
<1>7. \A p, o \in Listed(walk) : p[1] = o[1] => p = o
  BY <1>3, <1>6
<1>8. ListedDNs \subseteq DNs
  BY <1>5 DEF ListedDNs, DNsIn
<1> QED
  BY <1>2, <1>3, <1>5, <1>7, <1>8 DEF ListedShape

LEMMA ListedIsMatchedNext == TablesInv' /\ (walk \in Walks)' => ListedShape'
  BY ListedIsMatched, PTL

\* A write of others.
OthersWrote ==
    /\ Going
    /\ \/ \E d \in DNs : DeleteEntryTx(d)
       \/ \E e \in Entry : CreateEntryTx(e)
    /\ UNCHANGED <<client, phase, rows, answer>>
    /\ left' = left \cup DNsIn(Listed(walk) \ Listed(walk)') \cup Stray
    /\ joined' = joined \cup DNsIn(Listed(walk)' \ Listed(walk)) \cup Stray

LEMMA OthersWrite ==
    ASSUME NEW d \in DNs,
           \/ Others(DeleteEntryTx(d))
           \/ \E k \in ClassesAt[d] : \E x \in Contents(k) : Others(CreateEntryTx(NewEntry(d, k, x)))
    PROVE  OthersWrote
<1>1. CASE Others(DeleteEntryTx(d))
  BY <1>1 DEF Others, OthersWrote, Going
<1>2. CASE \E k \in ClassesAt[d] : \E x \in Contents(k) : Others(CreateEntryTx(NewEntry(d, k, x)))
  <2>1. PICK k \in ClassesAt[d] : \E x \in Contents(k) : Others(CreateEntryTx(NewEntry(d, k, x)))
    BY <1>2
  <2>2. PICK x \in Contents(k) : Others(CreateEntryTx(NewEntry(d, k, x)))
    BY <2>1
  <2>3. NewEntry(d, k, x) \in Entry
    BY <2>1, <2>2, NewIsEntry
  <2> QED
    BY <2>2, <2>3 DEF Others, OthersWrote, Going
<1> QED
  BY <1>1, <1>2

LEMMA WriteKeepsTables ==
    ASSUME TablesInv, OthersWrote
    PROVE  TablesInv'
<1>1. CASE \E d \in DNs : DeleteEntryTx(d)
  BY <1>1, DeleteKeepsTables
<1>2. CASE \E e \in Entry : CreateEntryTx(e)
  BY <1>2, CreateKeepsTables
<1> QED
  BY <1>1, <1>2 DEF OthersWrote

\* What the history says of it.
WriteIsRecorded ==
    /\ left \subseteq left' /\ joined \subseteq joined' /\ left' \subseteq DNs /\ joined' \subseteq DNs
    /\ \A p \in Listed(walk) : p \in Listed(walk)' \/ p[1] \in left'
    /\ \A p \in Listed(walk)' : p \in Listed(walk) \/ p[1] \in joined'
    /\ \A r \in rows : \/ Matches(r, walk.query) \/ r \in InTree(Turn)'
                       \/ r.dn \in left' /\ r.dn \in joined'
    /\ \A d \in left' : \/ d \in left \/ d \in joined'
                        \/ \E p \in Listed(walk) : p \notin Listed(walk)' /\ p[1] = d

LEMMA WritesAreRecorded ==
    ASSUME ListInv, OthersWrote
    PROVE  WriteIsRecorded
<1>1. TablesInv /\ TablesInv'
  BY WriteKeepsTables DEF ListInv
<1>2. walk \in Walks /\ walk' = walk /\ classes' = classes
  BY DEF ListInv, ListTypes, OthersWrote, Going, client
<1>3. ListedShape /\ ListedShape'
  BY <1>1, <1>2, ListedIsMatched, ListedIsMatchedNext
<1>4. PICK before, after : before = Listed(walk) /\ after = Listed(walk)'
  OBVIOUS
<1>5. \A p \in before \cup after : p[1] \in DNs
  BY <1>3, <1>4 DEF ListedShape
<1>6. Stray = {r.dn : r \in rows \ (Matching(rows, walk.query) \cup InTree(Turn)')}
  BY DEF Stray, Turn
<1>7. Stray \subseteq DNs
  BY <1>6 DEF ListInv, ListTypes, ScannedRows
<1>8. left' = left \cup DNsIn(before \ after) \cup Stray /\ joined' = joined \cup DNsIn(after \ before) \cup Stray
  BY <1>4 DEF OthersWrote
<1>9. left' \subseteq DNs /\ joined' \subseteq DNs
  BY <1>5, <1>7, <1>8 DEF ListInv, ListTypes, DNsIn
<1>10. \A p \in before : p \in after \/ p[1] \in left'
  BY <1>8 DEF DNsIn
<1>11. \A p \in after : p \in before \/ p[1] \in joined'
  BY <1>8 DEF DNsIn
<1>12. \A r \in rows : Matches(r, walk.query) \/ r \in InTree(Turn)' \/ r.dn \in Stray
  BY <1>6 DEF Matching
<1>13. left \subseteq left' /\ joined \subseteq joined' /\ Stray \subseteq left' /\ Stray \subseteq joined'
  BY <1>8
<1>14. \A r \in rows : Matches(r, walk.query) \/ r \in InTree(Turn)'
                       \/ (r.dn \in left' /\ r.dn \in joined')
  BY <1>12, <1>13
<1>15. /\ \A p \in Listed(walk) : p \in Listed(walk)' \/ p[1] \in left'
       /\ \A p \in Listed(walk)' : p \in Listed(walk) \/ p[1] \in joined'
  BY <1>4, <1>10, <1>11
<1>16. \A d \in left' : \/ d \in left \/ d \in joined'
                        \/ \E p \in Listed(walk) : p \notin Listed(walk)' /\ p[1] = d
  BY <1>4, <1>8 DEF DNsIn
<1> QED
  BY <1>9, <1>13, <1>14, <1>15, <1>16, Zenon DEF WriteIsRecorded

\* What is searched is what the walk is through, or a class of it.
LEMMA TurnIsListed == ListTypes /\ Going => Turn = walk.class \/ walk.class = "any"
<1> SUFFICES ASSUME ListTypes, Going PROVE Turn = walk.class \/ walk.class = "any"
  OBVIOUS
<1>1. walk \in Walks
  BY DEF ListTypes, Going
<1>2. CASE walk.route = "directory"
  BY <1>1, <1>2, ListingsAssumption
<1>3. CASE walk.route # "directory"
  <2>1. classes = <<walk.class>>
    BY <1>3 DEF ListTypes
  <2> QED
    BY <2>1 DEF Turn
<1> QED
  BY <1>2, <1>3

\* What it changes in the tree, and in memory.
WriteEffect ==
    /\ \A r \in rows : r \in InTree(Turn)' \/ r.dn \in left' \/ phase # "project"
    /\ \A x \in InTree(Turn)' : \/ x \in rows \/ ~Matches(x, walk.query)' \/ x.dn \in joined'
                                \/ phase # "project"
    /\ \A r \in rows : Matches(r, walk.query) => Matches(r, walk.query)' \/ r.dn \in left'
                                                \/ phase # "project"
    /\ \A r \in rows : Matches(r, walk.query)' =>
                         Matches(r, walk.query) \/ r.dn \in joined' \/ phase # "project"
    /\ \A r \in rows : Matches(r, walk.query)' \/ r \notin InTree(Turn)' =>
                         \/ Matches(r, walk.query) \/ r \notin InTree(Turn) \/ r.dn \in joined'

LEMMA WriteEffects ==
    ASSUME ListInv, OthersWrote
    PROVE  WriteEffect
<1>1. TablesInv /\ TablesInv' /\ WriteIsRecorded
  BY WriteKeepsTables, WritesAreRecorded DEF ListInv
<1>2. /\ walk \in Walks /\ walk' = walk /\ classes' = classes
      /\ Turn = walk.class \/ walk.class = "any"
  BY TurnIsListed DEF ListInv, ListTypes, OthersWrote, Going, client
<1>3. ListedShape /\ ListedShape'
  BY <1>1, <1>2, ListedIsMatched, ListedIsMatchedNext
<1>4. PICK q : q = walk.query
  OBVIOUS
<1>5. PICK h0, h1, t0, t1, l0, l1 : /\ h0 = InTree(Turn) /\ h1 = InTree(Turn)'
                                    /\ t0 = InTree(walk.class) /\ t1 = InTree(walk.class)'
                                    /\ l0 = Listed(walk) /\ l1 = Listed(walk)'
  OBVIOUS
<1>6. /\ \A x \in t0 : Matches(x, q) => <<x.dn, x.class>> \in l0
      /\ \A p \in l0 : \E x \in t0 : Matches(x, q) /\ p = <<x.dn, x.class>>
  BY <1>3, <1>4, <1>5 DEF ListedShape
<1>7. /\ \A x \in t1 : Matches(x, q)' => <<x.dn, x.class>> \in l1
      /\ \A p \in l1 : \E x \in t1 : Matches(x, q)' /\ p = <<x.dn, x.class>>
  BY <1>2, <1>3, <1>4, <1>5 DEF ListedShape
<1>8. \A x \in t0 : \A y \in t1 : x.dn = y.dn => x = y
  BY <1>1, <1>2, <1>5, TreeIsKept DEF OthersWrote
<1>9. h0 \subseteq t0 /\ \A x \in h1 : x \in t0 => x \in h0
  <2>1. \A class : \A x \in InTree(class) :
            class \in {"any", x.class} /\ x \in InTree("any") /\ x \in InTree(x.class)
    BY <1>1, TreeRows
  <2>2. \A x \in h1 : Turn \in {"any", x.class}
    BY <1>1, <1>2, <1>5, TreeRowsNext DEF Turn
  <2> QED
    BY <1>2, <1>5, <2>1, <2>2
<1>10. h1 \subseteq t1 /\ \A x \in h0 : x \in t1 => x \in h1
  <2>1. (\A class : \A x \in InTree(class) :
            class \in {"any", x.class} /\ x \in InTree("any") /\ x \in InTree(x.class))'
    BY <1>1, TreeRowsNext
  <2>2. \A x \in h0 : Turn \in {"any", x.class}
    BY <1>1, <1>5, TreeRows
  <2>3. Turn' = Turn
    BY <1>2 DEF Turn
  <2> QED
    BY <1>2, <1>5, <2>1, <2>2, <2>3
<1>11. \A x \in h0 : Matches(x, q) => (x \in h1 /\ Matches(x, q)') \/ x.dn \in left'
  <2> SUFFICES ASSUME NEW x \in h0, Matches(x, q), x.dn \notin left'
               PROVE  x \in h1 /\ Matches(x, q)'
    OBVIOUS
  <2>1. <<x.dn, x.class>> \in l1
    BY <1>1, <1>5, <1>6, <1>9 DEF WriteIsRecorded
  <2>2. PICK y \in t1 : Matches(y, q)' /\ <<x.dn, x.class>> = <<y.dn, y.class>>
    BY <1>7, <2>1
  <2>3. x = y
    BY <1>8, <1>9, <2>2
  <2> QED
    BY <1>10, <2>2, <2>3
<1>12. \A x \in h1 : Matches(x, q)' => (x \in h0 /\ Matches(x, q)) \/ x.dn \in joined'
  <2> SUFFICES ASSUME NEW x \in h1, Matches(x, q)', x.dn \notin joined'
               PROVE  x \in h0 /\ Matches(x, q)
    OBVIOUS
  <2>1. <<x.dn, x.class>> \in l0
    BY <1>1, <1>5, <1>7, <1>10 DEF WriteIsRecorded
  <2>2. PICK y \in t0 : Matches(y, q) /\ <<x.dn, x.class>> = <<y.dn, y.class>>
    BY <1>6, <2>1
  <2>3. x = y
    BY <1>8, <1>10, <2>2
  <2> QED
    BY <1>9, <2>2, <2>3
<1>13. \A r \in rows : Matches(r, q) \/ r \in h1 \/ (r.dn \in left' /\ r.dn \in joined')
  BY <1>1, <1>4, <1>5 DEF WriteIsRecorded
<1>14. /\ phase = "project" => \A r \in rows : r \in h0 \/ r.dn \in left'
       /\ phase = "project" => \A x \in h0 : x \in rows \/ ~Matches(x, q) \/ x.dn \in joined'
  BY <1>1, <1>4, <1>5 DEF ListInv, InMemory, WriteIsRecorded
<1>15. \A r \in rows : r \in h1 \/ r.dn \in left' \/ phase # "project"
  BY <1>11, <1>13, <1>14
<1>16. \A x \in h1 : x \in rows \/ ~Matches(x, q)' \/ x.dn \in joined' \/ phase # "project"
  BY <1>12, <1>14
<1>17. \A r \in rows : Matches(r, q) => Matches(r, q)' \/ r.dn \in left' \/ phase # "project"
  BY <1>11, <1>14
<1>18. \A r \in rows : Matches(r, q)' => Matches(r, q) \/ r.dn \in joined' \/ phase # "project"
  BY <1>12, <1>13
<1>19. \A r \in rows : Matches(r, q)' \/ r \notin h1 =>
                         Matches(r, q) \/ r \notin h0 \/ r.dn \in joined'
  BY <1>12, <1>13
<1> QED
  BY <1>2, <1>4, <1>5, <1>15, <1>16, <1>17, <1>18, <1>19 DEF WriteEffect

LEMMA WriteKeepsPaging ==
    ASSUME ListInv, OthersWrote
    PROVE  Paging'
<1>1. /\ phase' = phase /\ shown' = shown /\ walk' = walk /\ position' = position /\ rows' = rows
      /\ classes' = classes
  BY DEF OthersWrote, client
<1>2. WriteIsRecorded /\ WriteEffect
  BY WritesAreRecorded, WriteEffects
<1>3. TablesInv /\ TablesInv' /\ walk \in Walks
  BY WriteKeepsTables DEF ListInv, ListTypes, OthersWrote, Going
<1>4. ListedShape /\ ListedShape'
  BY <1>1, <1>3, ListedIsMatched, ListedIsMatchedNext
<1> SUFFICES ASSUME Going, walk.route # "directory", walk.first = 1
             PROVE  /\ Skipped <= MaxInt
                    /\ phase = "search" => /\ Unseen(ListedDNs', left', joined', shown, Skipped)
                                           /\ Seen(ListedDNs', left', joined', shown, Skipped)
                    /\ phase = "project" => /\ Unseen(MatchedDNs', left', joined', shown, Skipped)
                                            /\ Seen(MayShow', left', joined', shown, Skipped)
  <2>1. Skipped' = Skipped /\ (Going' <=> Going)
    BY <1>1 DEF Skipped, Going
  <2>2. Unseen(ListedDNs, left, joined, shown, Skipped)'
            <=> Unseen(ListedDNs', left', joined', shown, Skipped)
    BY <1>1, <2>1 DEF Unseen, TimesIn, Rank, Before
  <2>3. Seen(ListedDNs, left, joined, shown, Skipped)'
            <=> Seen(ListedDNs', left', joined', shown, Skipped)
    BY <1>1, <2>1 DEF Seen, TimesIn, Rank, Before
  <2>4. Unseen(MatchedDNs, left, joined, shown, Skipped)'
            <=> Unseen(MatchedDNs', left', joined', shown, Skipped)
    BY <1>1, <2>1 DEF Unseen, TimesIn, Rank, Before
  <2>5. Seen(MayShow, left, joined, shown, Skipped)'
            <=> Seen(MayShow', left', joined', shown, Skipped)
    BY <1>1, <2>1 DEF Seen, TimesIn, Rank, Before
  <2> QED
    BY <1>1, <2>1, <2>2, <2>3, <2>4, <2>5 DEF Paging
<1>5. Paging /\ Skipped <= MaxInt
  BY DEF ListInv, Paging
<1>6. walk \in WalkTypes /\ position \in Nat \ {0}
  BY <1>3, ListingsAssumption DEF ListInv, ListTypes
<1>7. PICK c \in Nat : c = Skipped
  BY <1>6, SkippedType DEF Asking
<1>8. ASSUME phase = "search"
      PROVE  /\ Unseen(ListedDNs', left', joined', shown, c)
             /\ Seen(ListedDNs', left', joined', shown, c)
  <2>1. Unseen(ListedDNs, left, joined, shown, c) /\ Seen(ListedDNs, left, joined, shown, c)
    BY <1>5, <1>7, <1>8 DEF Paging
  <2>2. ListedDNs \subseteq DNs /\ ListedDNs' \subseteq DNs
    BY <1>4 DEF ListedShape
  <2>3. ListedDNs \subseteq ListedDNs' \cup left'
    BY <1>1, <1>2 DEF WriteIsRecorded, ListedDNs, DNsIn
  <2>4. ListedDNs' \subseteq ListedDNs \cup joined'
    BY <1>1, <1>2 DEF WriteIsRecorded, ListedDNs, DNsIn
  <2>5. left \subseteq left' /\ joined \subseteq joined'
    BY <1>2 DEF WriteIsRecorded
  <2>6. PICK S \in SUBSET DNs, T \in SUBSET DNs : S = ListedDNs /\ T = ListedDNs'
    BY <2>2
  <2>7. Unseen(T, left', joined', shown, c)
    BY <2>1, <2>3, <2>4, <2>5, <2>6, UnseenKept
  <2>8. Seen(T, left', joined', shown, c)
    BY <2>1, <2>4, <2>5, <2>6, SeenKept
  <2> QED
    BY <2>6, <2>7, <2>8
<1>9. ASSUME phase = "project"
      PROVE  /\ Unseen(MatchedDNs', left', joined', shown, c)
             /\ Seen(MayShow', left', joined', shown, c)
  <2>1. Unseen(MatchedDNs, left, joined, shown, c) /\ Seen(MayShow, left, joined, shown, c)
    BY <1>5, <1>7, <1>9 DEF Paging
  <2>2. \A r \in rows : r.dn \in DNs
    BY DEF ListInv, ListTypes, ScannedRows
  <2>3. PICK S \in SUBSET DNs, T \in SUBSET DNs : S = MatchedDNs /\ T = MatchedDNs'
    <3>1. MatchedDNs \subseteq DNs
      BY <2>2 DEF MatchedDNs, Matching
    <3>2. MatchedDNs' \subseteq DNs
      BY <1>1, <2>2 DEF MatchedDNs, Matching
    <3> QED
      BY <3>1, <3>2
  <2>4. PICK M \in SUBSET DNs, N \in SUBSET DNs : M = MayShow /\ N = MayShow'
    <3>1. MayShow \subseteq DNs
      BY <2>2 DEF MayShow
    <3>2. MayShow' \subseteq DNs
      BY <1>1, <2>2 DEF MayShow
    <3> QED
      BY <3>1, <3>2
  <2>5. left \subseteq left' /\ joined \subseteq joined'
    BY <1>2 DEF WriteIsRecorded
  <2>6. S = {r.dn : r \in {r \in rows : Matches(r, walk.query)}}
        /\ T = {r.dn : r \in {r \in rows : Matches(r, walk.query)'}}
    BY <1>1, <2>3 DEF MatchedDNs, Matching
  <2>7. S \subseteq T \cup left'
    <3>1. \A r \in rows : Matches(r, walk.query) => Matches(r, walk.query)' \/ r.dn \in left'
      BY <1>2, <1>9 DEF WriteEffect
    <3> QED
      BY <2>6, <3>1
  <2>8. T \subseteq S \cup left' \cup joined'
    <3>1. \A r \in rows : Matches(r, walk.query)' => Matches(r, walk.query) \/ r.dn \in joined'
      BY <1>2, <1>9 DEF WriteEffect
    <3> QED
      BY <2>6, <3>1
  <2>9. N \subseteq M \cup joined'
    <3>1. \A r \in rows : Matches(r, walk.query)' \/ r \notin InTree(Turn)' =>
                         \/ Matches(r, walk.query) \/ r \notin InTree(Turn) \/ r.dn \in joined'
      BY <1>2 DEF WriteEffect
    <3>2. M = {r.dn : r \in {r \in rows : Matches(r, walk.query) \/ r \notin InTree(Turn)}}
      BY <2>4 DEF MayShow
    <3>3. N = {r.dn : r \in {r \in rows : Matches(r, walk.query)' \/ r \notin InTree(Turn)'}}
      BY <1>1, <2>4 DEF MayShow
    <3> QED
      BY <3>1, <3>2, <3>3
  <2>10. Unseen(T, left', joined', shown, c)
    <3>1. Unseen(S, left, joined, shown, c)
      BY <2>1, <2>3
    <3> QED
      BY <2>5, <2>7, <2>8, <3>1, UnseenKept
  <2>11. Seen(N, left', joined', shown, c)
    <3>1. Seen(M, left, joined, shown, c)
      BY <2>1, <2>4
    <3> QED
      BY <2>5, <2>9, <3>1, SeenKept
  <2> QED
    BY <2>3, <2>4, <2>10, <2>11
<1> QED
  BY <1>5, <1>7, <1>8, <1>9

LEMMA WriteKeepsCovering ==
    ASSUME ListInv, OthersWrote
    PROVE  Covering'
<1>1. /\ phase' = phase /\ shown' = shown /\ walk' = walk /\ classes' = classes /\ rows' = rows
  BY DEF OthersWrote, client
<1>2. WriteIsRecorded /\ Covering
  BY WritesAreRecorded DEF ListInv
<1>3. TablesInv /\ TablesInv' /\ walk \in Walks /\ phase # "idle"
  BY WriteKeepsTables DEF ListInv, ListTypes, OthersWrote, Going
<1>4. ListedShape
  BY <1>3, ListedIsMatched
<1>5. Done' = Done /\ \A d : TimesIn(d, shown)' = TimesIn(d, shown)
  BY <1>1 DEF Done, Going, TimesIn
<1>6. left \subseteq left' /\ joined \subseteq joined'
  BY <1>2 DEF WriteIsRecorded
<1>7. PICK l0, l1 : l0 = Listed(walk) /\ l1 = Listed(walk)'
  OBVIOUS
<1>8. /\ \A p \in l0 : p \in l1 \/ p[1] \in left'
      /\ \A p \in l1 : p \in l0 \/ p[1] \in joined'
      /\ \A d \in left' : d \in left \/ d \in joined' \/ \E p \in l0 : p \notin l1 /\ p[1] = d
      /\ \A p, o \in l0 : p[1] = o[1] => p = o
  BY <1>2, <1>4, <1>7 DEF WriteIsRecorded, ListedShape
<1> SUFFICES ASSUME walk.route = "directory"
             PROVE  /\ \A d \in DNs : TimesIn(d, shown) # 0 =>
                          d \in left' \/ \E k \in Done : <<d, k>> \in l1
                    /\ left' \cap ListedDNs' \subseteq joined'
                    /\ \A p \in l1 :
                          p[2] \in Done /\ p[1] \notin left' \cup joined' => TimesIn(p[1], shown) = 1
                    /\ \A d \in DNs : TimesIn(d, shown) > 1 => d \in left' \cap joined'
                    /\ \A r \in rows : TimesIn(r.dn, shown) # 0 => r.dn \in left' \cap joined'
  BY <1>1, <1>5, <1>7 DEF Covering
<1>9. /\ \A d \in DNs : TimesIn(d, shown) # 0 =>
            d \in left \/ \E k \in Done : <<d, k>> \in l0
      /\ left \cap DNsIn(l0) \subseteq joined
      /\ \A p \in l0 :
            p[2] \in Done /\ p[1] \notin left \cup joined => TimesIn(p[1], shown) = 1
      /\ \A d \in DNs : TimesIn(d, shown) > 1 => d \in left \cap joined
      /\ \A r \in rows : TimesIn(r.dn, shown) # 0 => r.dn \in left \cap joined
  BY <1>2, <1>3, <1>7 DEF Covering, ListedDNs
<1>10. \A d \in DNs : TimesIn(d, shown) # 0 => d \in left' \/ \E k \in Done : <<d, k>> \in l1
  <2> SUFFICES ASSUME NEW d \in DNs, TimesIn(d, shown) # 0, d \notin left'
               PROVE  \E k \in Done : <<d, k>> \in l1
    OBVIOUS
  <2>1. PICK k \in Done : <<d, k>> \in l0
    BY <1>6, <1>9
  <2>2. <<d, k>> \in l1
    BY <1>8, <2>1
  <2> QED
    BY <2>2
<1>11. left' \cap DNsIn(l1) \subseteq joined'
  <2> SUFFICES ASSUME NEW p \in l1, p[1] \in left', p[1] \notin joined'
               PROVE  FALSE
    BY DEF DNsIn
  <2>1. p \in l0
    BY <1>8
  <2>2. p[1] \notin left
    BY <1>6, <1>9, <2>1 DEF DNsIn
  <2>3. PICK o \in l0 : o \notin l1 /\ o[1] = p[1]
    BY <1>8, <2>2
  <2> QED
    BY <1>8, <2>1, <2>3
<1>12. ListedDNs' = DNsIn(l1)
  BY <1>1, <1>7 DEF ListedDNs
<1>13. \A p \in l1 : p[2] \in Done /\ p[1] \notin left' \cup joined' => TimesIn(p[1], shown) = 1
  BY <1>6, <1>8, <1>9
<1>14. \A d \in DNs : TimesIn(d, shown) > 1 => d \in left' \cap joined'
  BY <1>6, <1>9
<1>15. \A r \in rows : TimesIn(r.dn, shown) # 0 => r.dn \in left' \cap joined'
  BY <1>6, <1>9
<1> QED
  BY <1>10, <1>11, <1>12, <1>13, <1>14, <1>15

LEMMA WriteKeepsListInv ==
    ASSUME ListInv, OthersWrote
    PROVE  ListInv'
<1>1. /\ phase' = phase /\ shown' = shown /\ walk' = walk /\ classes' = classes /\ rows' = rows
      /\ position' = position
  BY DEF OthersWrote, client
<1>2. TablesInv' /\ Paging' /\ Covering'
  BY WriteKeepsTables, WriteKeepsPaging, WriteKeepsCovering DEF ListInv
<1>3. WriteIsRecorded /\ WriteEffect
  BY WritesAreRecorded, WriteEffects
<1>4. ListTypes'
  <2>1. left' \subseteq DNs /\ joined' \subseteq DNs /\ (Going' <=> Going)
    BY <1>1, <1>3 DEF WriteIsRecorded, Going
  <2> QED
    BY <1>1, <2>1 DEF ListInv, ListTypes
<1>5. InMemory'
  <2>1. Turn' = Turn
    BY <1>1 DEF Turn
  <2> QED
    BY <1>1, <1>3, <2>1 DEF InMemory, WriteEffect
<1>6. WalkShowsAll'
  BY <1>1 DEF WalkShowsAll, OthersWrote, Going
<1> QED
  BY <1>2, <1>4, <1>5, <1>6 DEF ListInv

----
(* The steps of the client *)

LEMMA BeginKeepsListInv ==
    ASSUME ListInv, NEW w \in Walks, Begin(w)
    PROVE  ListInv'
<1>1. /\ phase = "idle" /\ walk' = w /\ position' = w.first /\ shown' = << >> /\ rows' = {}
      /\ left' = {} /\ joined' = {} /\ UNCHANGED tables
  BY DEF Begin, ListInv, ListTypes
<1>2. w \in WalkTypes
  BY ListingsAssumption
<1>3. /\ phase' \in {"search", "ended"}
      /\ phase' = "ended" => w.route = "search" /\ answer'.code # "ok"
      /\ phase' = "search" => ~Refuses(w)
  BY DEF Begin, Refuses, NoAnswer
<1>4. classes' = IF w.route = "directory" THEN DirectoryClasses ELSE <<w.class>>
  BY DEF Begin
<1>5. TablesInv'
  BY <1>1, SameTablesInv DEF ListInv
<1>6. ListTypes'
  <2>1. w.first \in Nat \ {0}
    <3>1. MaxInt \in Nat /\ w.first \in 1 .. MaxInt
      BY <1>2, ListingsAssumption DEF WalkTypes
    <3> QED
      BY <3>1
  <2>2. << >> \in Seq(DNs)
    OBVIOUS
  <2>3. DirectoryClasses \in Turns
    BY DEF DirectoryClasses, Turns
  <2>4. phase' = "search" /\ w.route = "search" => w.size \in 1 .. MaxPageSize
    BY <1>3 DEF Refuses
  <2>5. (Going)' <=> phase' = "search"
    BY <1>3 DEF Going
  <2> QED
    BY <1>1, <1>3, <1>4, <2>1, <2>2, <2>3, <2>4, <2>5 DEF ListTypes
<1>7. InMemory'
  BY <1>3 DEF InMemory
<1>8. \A d : TimesIn(d, << >>) = 0
  BY FS_EmptySet DEF TimesIn
<1>9. Paging'
  <2>1. phase' # "project"
    BY <1>3
  <2> SUFFICES ASSUME w.route # "directory", w.first = 1
               PROVE  /\ Skipped' <= MaxInt
                      /\ Unseen(ListedDNs, left, joined, shown, Skipped)'
                      /\ Seen(ListedDNs, left, joined, shown, Skipped)'
    BY <1>1, <2>1 DEF Paging
  <2>2. Skipped' = 0
    <3>1. w.size \in Nat
      BY <1>2, ListingsAssumption DEF WalkTypes
    <3>2. (1 - 1) * w.size = 0 /\ 1 - 1 = 0
      BY <3>1
    <3>3. Skipped' = IF w.route = "scim" THEN 1 - 1 ELSE (1 - 1) * w.size
      BY <1>1 DEF Skipped
    <3> QED
      BY <3>2, <3>3
  <2>3. ListedDNs' \subseteq DNs
    <3>1. (walk \in Walks)'
      BY <1>1
    <3> QED
      BY <1>5, <3>1, ListedIsMatchedNext DEF ListedShape
  <2>4. PICK S \in SUBSET DNs : S = ListedDNs'
    BY <2>3
  <2>5. \A d \in S : 0 < Rank(d, S)
    <3> SUFFICES ASSUME NEW d \in S PROVE 0 < Rank(d, S)
      OBVIOUS
    <3>1. Rank(d, S) \in 1 .. Cardinality(S) /\ Cardinality(S) \in Nat
      BY RankBounds, DNsFinite
    <3> QED
      BY <3>1
  <2>6. \A d : (TimesIn(d, shown))' = 0
    BY <1>1, <1>8 DEF TimesIn
  <2>7. \A d : Rank(d, ListedDNs)' = Rank(d, S)
    BY <2>4 DEF Rank, Before
  <2>8. MaxInt \in Nat
    BY ListingsAssumption
  <2> QED
    BY <2>2, <2>4, <2>5, <2>6, <2>7, <2>8 DEF Unseen, Seen
<1>10. Covering'
  <2> SUFFICES ASSUME w.route = "directory" PROVE Covering'
    BY <1>1 DEF Covering
  <2>1. phase' = "search" /\ classes' = DirectoryClasses
    BY <1>3, <1>4
  <2>2. Done' = {}
    <3>1. DOMAIN DirectoryClasses = 1 .. 3
      BY DEF DirectoryClasses
    <3>2. DirectoryClasses[1] = "inetOrgPerson" /\ DirectoryClasses[2] = "groupOfNames"
          /\ DirectoryClasses[3] = "organizationalUnit"
      BY DEF DirectoryClasses
    <3>3. {"inetOrgPerson", "groupOfNames", "organizationalUnit"} \subseteq Range(DirectoryClasses)
      BY <3>1, <3>2 DEF Range
    <3> QED
      BY <2>1, <3>3 DEF Done, Going
  <2>3. \A d : (TimesIn(d, shown))' = 0
    BY <1>1, <1>8 DEF TimesIn
  <2> QED
    BY <1>1, <2>2, <2>3 DEF Covering
<1>11. WalkShowsAll'
  BY <1>3 DEF WalkShowsAll
<1> QED
  BY <1>5, <1>6, <1>7, <1>9, <1>10, <1>11 DEF ListInv

LEMMA SearchKeepsListInv ==
    ASSUME ListInv, Search
    PROVE  ListInv'
<1>1. /\ phase = "search" /\ phase' = "project" /\ rows' = InTree(Turn)
      /\ walk' = walk /\ position' = position /\ classes' = classes /\ shown' = shown
      /\ left' = left /\ joined' = joined /\ UNCHANGED tables
  BY DEF Search, client, Turn
<1>2. /\ TablesInv /\ TablesInv' /\ walk \in Walks /\ Going
      /\ Turn = walk.class \/ walk.class = "any"
  BY <1>1, SameTablesInv, TurnIsListed DEF ListInv, ListTypes, Going
<1>3. /\ \A class : InTree(class)' = InTree(class)
      /\ \A r, q : Matches(r, q)' <=> Matches(r, q)
      /\ \A w : Listed(w)' = Listed(w)
  BY <1>1, SameTree
<1>4. ListedShape
  BY <1>2, ListedIsMatched
<1>5. ListTypes'
  <2>1. InTree(Turn) \subseteq ScannedRows
    BY <1>2, TreeRows
  <2>2. Going' <=> Going
    BY <1>1 DEF Going
  <2> QED
    BY <1>1, <2>1, <2>2 DEF ListInv, ListTypes
<1>6. Turn' = Turn
  BY <1>1 DEF Turn
<1>7. InMemory'
  <2>1. InTree(Turn)' = InTree(Turn)
    BY <1>3, <1>6
  <2> QED
    BY <1>1, <2>1 DEF InMemory
<1>8. Paging'
  <2>1. Skipped' = Skipped /\ Going'
    BY <1>1 DEF Skipped, Going
  <2> SUFFICES ASSUME walk.route # "directory", walk.first = 1
               PROVE  /\ Skipped <= MaxInt
                      /\ Unseen(MatchedDNs, left, joined, shown, Skipped)'
                      /\ Seen(MayShow, left, joined, shown, Skipped)'
    BY <1>1, <2>1 DEF Paging
  <2>2. /\ Skipped <= MaxInt
        /\ Unseen(ListedDNs, left, joined, shown, Skipped)
        /\ Seen(ListedDNs, left, joined, shown, Skipped)
    BY <1>1, <1>2 DEF ListInv, Paging
  <2>3. Turn = walk.class
    <3>1. classes = <<walk.class>>
      BY <1>2 DEF ListInv, ListTypes
    <3> QED
      BY <3>1 DEF Turn
  <2>4. PICK S : S = {x.dn : x \in {x \in InTree(walk.class) : Matches(x, walk.query)}}
    OBVIOUS
  <2>5. ListedDNs = S
    <3>1. \A d \in ListedDNs : d \in S
      <4> SUFFICES ASSUME NEW p \in Listed(walk) PROVE p[1] \in S
        BY DEF ListedDNs, DNsIn
      <4>1. PICK x \in InTree(walk.class) : Matches(x, walk.query) /\ p = <<x.dn, x.class>>
        BY <1>4 DEF ListedShape
      <4> QED
        BY <2>4, <4>1
    <3>2. \A x \in InTree(walk.class) : Matches(x, walk.query) => x.dn \in ListedDNs
      <4> SUFFICES ASSUME NEW x \in InTree(walk.class), Matches(x, walk.query)
                   PROVE  x.dn \in ListedDNs
        OBVIOUS
      <4>1. <<x.dn, x.class>> \in Listed(walk) /\ <<x.dn, x.class>>[1] = x.dn
        BY <1>4 DEF ListedShape
      <4> QED
        BY <4>1 DEF ListedDNs, DNsIn
    <3> QED
      BY <2>4, <3>1, <3>2
  <2>6. MatchedDNs' = S
    BY <1>1, <1>3, <2>3, <2>4 DEF MatchedDNs, Matching
  <2>7. MayShow' = S
    <3>1. MayShow' = {x.dn : x \in {x \in rows' : Matches(x, walk.query) \/ x \notin InTree(Turn)}}
      BY <1>1, <1>3, <1>6 DEF MayShow
    <3>2. {x \in rows' : Matches(x, walk.query) \/ x \notin InTree(Turn)}
             = {x \in InTree(walk.class) : Matches(x, walk.query)}
      BY <1>1, <2>3
    <3> QED
      BY <2>4, <3>1, <3>2
  <2>8. Unseen(MatchedDNs, left, joined, shown, Skipped)'
            <=> Unseen(S, left, joined, shown, Skipped)
    BY <1>1, <2>1, <2>6 DEF Unseen, TimesIn, Rank, Before
  <2>9. Seen(MayShow, left, joined, shown, Skipped)' <=> Seen(S, left, joined, shown, Skipped)
    BY <1>1, <2>1, <2>7 DEF Seen, TimesIn, Rank, Before
  <2> QED
    BY <2>2, <2>5, <2>8, <2>9
<1>9. Covering'
  <2> SUFFICES ASSUME walk.route = "directory" PROVE Covering'
    BY <1>1 DEF Covering
  <2>1. Covering
    BY DEF ListInv
  <2>2. /\ Done' = Done /\ ListedDNs' = ListedDNs /\ Listed(walk)' = Listed(walk)
        /\ \A d : TimesIn(d, shown)' = TimesIn(d, shown)
    <3>1. Listed(walk)' = Listed(walk)
      BY <1>1, <1>3
    <3> QED
      BY <1>1, <3>1 DEF Done, Going, ListedDNs, TimesIn
  <2>3. walk.class = "any" /\ walk.query = NoQuery
    <3>1. \A w \in Walks : /\ w.route # "search" => w.query = NoQuery
                           /\ w.route = "directory" => w.class = "any"
      BY ListingsAssumption
    <3> QED
      BY <1>2, <3>1
  <2>4. Turn \notin Done /\ Turn # "any"
    <3>1. classes \in Turns
      BY <1>2 DEF ListInv, ListTypes
    <3>2. 1 \in DOMAIN classes /\ Head(classes) = classes[1] /\ classes[1] # "any"
      <4>1. CASE classes = <<"inetOrgPerson", "groupOfNames", "organizationalUnit">>
        BY <4>1
      <4>2. CASE classes = <<"groupOfNames", "organizationalUnit">>
        BY <4>2
      <4>3. CASE classes = <<"organizationalUnit">>
        BY <4>3
      <4> QED
        BY <3>1, <4>1, <4>2, <4>3 DEF Turns
    <3>3. Turn \in Range(classes)
      BY <3>2 DEF Turn, Range
    <3> QED
      BY <1>2, <3>2, <3>3 DEF Done, Turn
  <2>5. ASSUME NEW r \in InTree(Turn), TimesIn(r.dn, shown) # 0
        PROVE  r.dn \in left \cap joined
    <3>1. r \in InTree("any") /\ r.class = Turn /\ r.dn \in DNs
      BY <1>2, <2>4, TreeRows DEF ScannedRows
    <3>2. <<r.dn, r.class>> \in Listed(walk)
      BY <1>4, <2>3, <3>1 DEF ListedShape, Matches
    <3>3. \A k : <<r.dn, k>> \in Listed(walk) => k = r.class
      <4> SUFFICES ASSUME NEW k, <<r.dn, k>> \in Listed(walk) PROVE k = r.class
        OBVIOUS
      <4>1. <<r.dn, k>>[1] = <<r.dn, r.class>>[1]
        OBVIOUS
      <4>2. <<r.dn, k>> = <<r.dn, r.class>>
        BY <1>4, <3>2, <4>1 DEF ListedShape
      <4> QED
        BY <4>2
    <3>4. r.dn \in left
      BY <1>1, <2>1, <2>4, <2>5, <3>1, <3>3 DEF Covering
    <3>5. <<r.dn, r.class>>[1] = r.dn
      OBVIOUS
    <3>6. r.dn \in ListedDNs
      BY <3>2, <3>5 DEF ListedDNs, DNsIn
    <3> QED
      BY <1>1, <2>1, <3>4, <3>6 DEF Covering
  <2> QED
    BY <1>1, <2>1, <2>2, <2>5 DEF Covering
<1>10. WalkShowsAll'
  BY <1>1 DEF WalkShowsAll
<1> QED
  BY <1>2, <1>5, <1>7, <1>8, <1>9, <1>10 DEF ListInv

\* What is matched of the entries in memory.
LEMMA MatchedShape ==
    ASSUME ListInv
    PROVE  /\ MatchedDNs \subseteq MayShow /\ MayShow \subseteq DNs
           /\ MatchedDNs = {r.dn : r \in Matching(rows, walk.query)}
           /\ Ranked(Sorted(Matching(rows, walk.query)), MatchedDNs)
<1>1. \A r \in rows : r.dn \in DNs
  BY DEF ListInv, ListTypes, ScannedRows
<1>2. MatchedDNs \subseteq MayShow /\ MayShow \subseteq DNs
  BY <1>1 DEF MatchedDNs, MayShow, Matching
<1>3. PICK S \in SUBSET DNs : S = MatchedDNs
  BY <1>2
<1>4. PICK rs : rs = Matching(rows, walk.query)
  OBVIOUS
<1>5. S = {r.dn : r \in rs}
  BY <1>3, <1>4 DEF MatchedDNs
<1>6. Ranked(Sorted(rs), S)
  BY <1>5, SortedRanked
<1> QED
  BY <1>2, <1>3, <1>4, <1>6 DEF MatchedDNs

LEMMA PageIsCut ==
    ASSUME ListInv, phase = "project", walk.route # "directory", Skipped <= MaxInt,
           NEW a, a = PageOf(Sorted(Matching(rows, walk.query)))
    PROVE  /\ a.code = "ok" /\ a.total = Cardinality(MatchedDNs)
           /\ CutAt(a.entries, MatchedDNs, Skipped, PageSize(walk))
<1>1. Asking
  BY ListingsAssumption DEF ListInv, ListTypes, Going, Asking
<1>2. PICK S, list : /\ S \in SUBSET DNs /\ S = MatchedDNs
                     /\ list = Sorted(Matching(rows, walk.query)) /\ Ranked(list, S)
  BY MatchedShape
<1>3. /\ PageOf(list).code = "ok" /\ PageOf(list).total = Cardinality(S)
      /\ CutAt(PageOf(list).entries, S, Skipped, PageSize(walk))
  BY <1>1, <1>2, PageCuts
<1> QED
  BY <1>2, <1>3

\* What the client has seen after a page, of what matched and of what is listed now.
LEMMA AnswerPages ==
    ASSUME ListInv, phase = "project", walk.route # "directory", walk.first = 1,
           NEW page, NEW c \in Nat, c = Skipped, NEW s \in Nat, CutAt(page, MatchedDNs, c, s),
           NEW c2 \in Nat, c + Len(page) <= c2, c2 <= c + s
    PROVE  /\ Unseen(MatchedDNs, left, joined, shown \o page, c2)
           /\ Unseen(ListedDNs, left, joined, shown \o page, c2)
           /\ Seen(ListedDNs, left, joined, shown \o page, c2)
<1>1. PICK M \in SUBSET DNs, V \in SUBSET DNs :
          M = MatchedDNs /\ V = MayShow /\ M \subseteq V
  BY MatchedShape
<1>2. TablesInv /\ walk \in Walks /\ InMemory /\ shown \in Seq(DNs)
  BY DEF ListInv, ListTypes
<1>3. ListedShape
  BY <1>2, ListedIsMatched
<1>4. PICK L \in SUBSET DNs : L = ListedDNs
  BY <1>3 DEF ListedShape
<1>5. Unseen(M, left, joined, shown, c) /\ Seen(V, left, joined, shown, c)
  BY <1>1 DEF ListInv, Paging, Going
<1>6. Unseen(M, left, joined, shown \o page, c2)
  BY <1>1, <1>2, <1>5, UnseenAfterPage
<1>7. Seen(M, left, joined, shown \o page, c2)
  BY <1>1, <1>2, <1>5, SeenAfterPage
<1>8. Turn = walk.class
  <2>1. classes = <<walk.class>>
    BY DEF ListInv, ListTypes, Going
  <2> QED
    BY <2>1 DEF Turn
<1>9. M \subseteq L \cup left
  <2> SUFFICES ASSUME NEW r \in rows, Matches(r, walk.query), r.dn \notin left
               PROVE  r.dn \in L
    BY <1>1 DEF MatchedDNs, Matching
  <2>1. r \in InTree(walk.class)
    BY <1>2, <1>8 DEF InMemory
  <2>2. <<r.dn, r.class>> \in Listed(walk) /\ <<r.dn, r.class>>[1] = r.dn
    BY <1>3, <2>1 DEF ListedShape
  <2> QED
    BY <1>4, <2>2 DEF ListedDNs, DNsIn
<1>10. L \subseteq M \cup joined
  <2> SUFFICES ASSUME NEW p \in Listed(walk), p[1] \notin joined
               PROVE  p[1] \in M
    BY <1>4 DEF ListedDNs, DNsIn
  <2>1. PICK x \in InTree(walk.class) : Matches(x, walk.query) /\ p = <<x.dn, x.class>>
    BY <1>3 DEF ListedShape
  <2>2. x \in rows
    BY <1>2, <1>8, <2>1 DEF InMemory
  <2> QED
    BY <1>1, <2>1, <2>2 DEF MatchedDNs, Matching
<1>11. Unseen(L, left, joined, shown \o page, c2)
  BY <1>6, <1>9, <1>10, UnseenKept
<1>12. Seen(L, left, joined, shown \o page, c2)
  BY <1>7, <1>10, SeenKept
<1> QED
  BY <1>1, <1>4, <1>6, <1>11, <1>12

\* The types of an answer, a wrapped offset included.
LEMMA AnswerTypes ==
    ASSUME NEW list \in Seq(DNs), Asking
    PROVE  /\ PageOf(list).entries \in Seq(DNs)
           /\ NextPosition(PageOf(list)) \in Nat
<1>1. PICK n \in Nat : n = Len(list)
  OBVIOUS
<1>2. /\ walk.size \in Nat /\ position \in Nat \ {0} /\ MaxInt \in Nat
      /\ PageSize(walk) \in Nat /\ walk.route \in {"scim", "search"}
  BY ListingsAssumption, SkippedType DEF Asking, WalkTypes
<1>3. << >> \in Seq(DNs)
  OBVIOUS
<1>4. ASSUME NEW a \in Nat \ {0}, NEW b \in Nat, b <= n
      PROVE  SubSeq(list, a, b) \in Seq(DNs)
  BY <1>1, <1>4
<1>5. ASSUME walk.route = "scim" PROVE PageOf(list).entries \in Seq(DNs)
  <2>1. position - 1 + PageSize(walk) \in Nat
    BY <1>2
  <2>2. Min({position - 1 + PageSize(walk), n}) \in Nat
        /\ Min({position - 1 + PageSize(walk), n}) <= n
    BY <2>1, LeastOfTwo
  <2>3. PICK e \in Seq(DNs) :
            e = SubSeq(list, position, Min({position - 1 + PageSize(walk), n}))
    BY <1>2, <1>4, <2>2
  <2>4. PageOf(list) = ScimPage(list, position, PageSize(walk))
    BY <1>5 DEF PageOf
  <2>5. PageOf(list) = [code |-> "ok", total |-> n,
                        entries |-> IF PageSize(walk) = 0 \/ position > n THEN << >> ELSE e]
    BY <1>1, <2>3, <2>4 DEF ScimPage
  <2>6. PageOf(list).entries = IF PageSize(walk) = 0 \/ position > n THEN << >> ELSE e
    BY <2>5
  <2> QED
    BY <1>3, <2>3, <2>6
<1>6. ASSUME walk.route = "search" PROVE PageOf(list).entries \in Seq(DNs)
  <2>1. PageOf(list) = ApiPage(list, position, walk.size)
    BY <1>6 DEF PageOf
  <2>2. PICK o \in Int : o = Offset(position, walk.size)
    <3>1. (position - 1) * walk.size \in Nat
      BY <1>2
    <3>2. PICK k \in Nat : k = (position - 1) * walk.size
      BY <3>1
    <3>3. PICK m \in Nat \ {0} : m = 2 * (MaxInt + 1)
      BY <1>2
    <3>4. k % m \in Int
      OBVIOUS
    <3> QED
      BY <1>2, <3>2, <3>3, <3>4 DEF Offset, Wrapped
  <2>3. CASE o < 0
    <3>1. Min({o, n}) = o
      BY <2>3 DEF Min
    <3>2. ApiPage(list, position, walk.size) = [NoAnswer EXCEPT !.code = "closed"]
      BY <1>1, <2>2, <2>3, <3>1 DEF ApiPage
    <3>3. [NoAnswer EXCEPT !.code = "closed"].entries = << >>
      BY DEF NoAnswer
    <3> QED
      BY <1>3, <2>1, <3>2, <3>3
  <2>4. CASE ~(o < 0)
    <3>1. PICK start \in Nat : start = Min({o, n})
      <4>1. o \in Nat
        BY <2>4
      <4> QED
        BY <4>1, LeastOfTwo
    <3>2. start + walk.size \in Nat
      BY <1>2
    <3>3. Min({start + walk.size, n}) \in Nat /\ Min({start + walk.size, n}) <= n
      BY <3>2, LeastOfTwo
    <3>4. PICK e \in Seq(DNs) : e = SubSeq(list, start + 1, Min({start + walk.size, n}))
      <4>1. start + 1 \in Nat \ {0}
        OBVIOUS
      <4> QED
        BY <1>4, <3>3, <4>1
    <3>5. ~(start < 0) /\ Min({Offset(position, walk.size), Len(list)}) = start
      BY <1>1, <2>2, <3>1
    <3>6. ApiPage(list, position, walk.size) = [code |-> "ok", total |-> n, entries |-> e]
      BY <1>1, <3>4, <3>5 DEF ApiPage
    <3>7. PageOf(list).entries = e
      BY <2>1, <3>6
    <3> QED
      BY <3>4, <3>7
  <2> QED
    BY <2>3, <2>4
<1>7. PageOf(list).entries \in Seq(DNs)
  BY <1>2, <1>5, <1>6
<1>8. Len(PageOf(list).entries) \in Nat
  BY <1>7
<1>9. NextPosition(PageOf(list)) \in Nat
  BY <1>2, <1>8 DEF NextPosition
<1> QED
  BY <1>7, <1>9

\* Where the next page is: after this one, and no further than one of full size.
LEMMA NextPage ==
    ASSUME Asking, NEW a, a.code = "ok", NEW n \in Nat, n = Len(a.entries),
           NEW total \in Nat, a.total = total, n <= PageSize(walk), walk' = walk,
           position' = NextPosition(a)
    PROVE  /\ position' # 0 => /\ Skipped' \in Nat /\ Skipped' <= total
                               /\ Skipped + n <= Skipped' /\ Skipped' <= Skipped + PageSize(walk)
           /\ position' = 0 => \/ n = 0 \/ total <= Skipped + n
                               \/ walk.route = "search" /\ total <= Skipped + PageSize(walk)
<1>1. PICK c \in Nat, s \in Nat : c = Skipped /\ s = PageSize(walk)
  BY SkippedType
<1>2. position \in Nat \ {0} /\ walk.route \in {"scim", "search"}
  BY DEF Asking, WalkTypes
<1>3. CASE walk.route = "scim"
  <2>1. c = position - 1 /\ Skipped' = position' - 1
    BY <1>1, <1>3 DEF Skipped
  <2>2. position' = IF n > 0 /\ position + n <= total THEN position + n ELSE 0
    BY <1>3 DEF NextPosition
  <2> QED
    BY <1>1, <1>2, <2>1, <2>2
<1>4. CASE walk.route = "search"
  <2>1. c = (position - 1) * walk.size /\ Skipped' = (position' - 1) * walk.size /\ s = walk.size
    BY <1>1, <1>4 DEF Skipped, PageSize
  <2>2. position' = IF position * walk.size < total THEN position + 1 ELSE 0
    BY <1>4 DEF NextPosition
  <2>3. position * s = c + s
    <3>1. PICK k \in Nat : position = k + 1
      BY <1>2
    <3>2. (k + 1) * s = k * s + s /\ (k + 1) - 1 = k
      OBVIOUS
    <3> QED
      BY <2>1, <3>1, <3>2
  <2>4. position' # 0 => Skipped' = c + s
    <3>1. position' # 0 => position' - 1 = position
      BY <1>2, <2>2
    <3> QED
      BY <2>1, <2>3, <3>1
  <2>5. position' = IF c + s < total THEN position + 1 ELSE 0
    BY <2>1, <2>2, <2>3
  <2>6. CASE c + s < total
    <3>1. position' # 0 /\ Skipped' = c + s
      BY <1>2, <2>4, <2>5, <2>6
    <3> QED
      BY <1>1, <2>6, <3>1
  <2>7. CASE ~(c + s < total)
    <3>1. position' = 0 /\ total <= c + s
      BY <2>5, <2>7
    <3> QED
      BY <1>1, <1>4, <3>1
  <2> QED
    BY <2>6, <2>7
<1> QED
  BY <1>2, <1>3, <1>4

LEMMA PageKeepsListInv ==
    ASSUME ListInv, Answer, walk.route # "directory"
    PROVE  ListInv'
<1>1. /\ phase = "project" /\ answer' = PageOf(Sorted(Matching(rows, walk.query)))
      /\ shown' = shown \o answer'.entries /\ position' = NextPosition(answer')
      /\ classes' = classes /\ phase' = IF position' = 0 THEN "ended" ELSE "search"
      /\ rows' = {} /\ walk' = walk /\ left' = left /\ joined' = joined /\ UNCHANGED tables
  BY DEF Answer
<1>2. TablesInv /\ TablesInv' /\ walk \in Walks /\ ListTypes /\ Going
  BY <1>1, SameTablesInv DEF ListInv, ListTypes, Going
<1>3. Asking
  BY <1>2, ListingsAssumption DEF ListTypes, Asking
<1>4. PICK M \in SUBSET DNs : M = MatchedDNs
  BY MatchedShape
<1>5. PICK a : a = answer'
  OBVIOUS
<1>6. a.entries \in Seq(DNs) /\ position' \in Nat
  <2>1. PICK list : list = Sorted(Matching(rows, walk.query)) /\ list \in Seq(DNs)
    <3>1. Sorted(Matching(rows, walk.query)) \in Seq(M)
      BY <1>4, MatchedShape DEF Ranked
    <3> QED
      BY <3>1
  <2> QED
    BY <1>1, <1>3, <1>5, <2>1, AnswerTypes
<1>7. shown' \in Seq(DNs)
  BY <1>1, <1>2, <1>5, <1>6 DEF ListTypes
<1>8. ListTypes'
  <2>1. (Going)' <=> phase' = "search"
    BY <1>1 DEF Going
  <2> QED
    BY <1>1, <1>2, <1>6, <1>7, <2>1 DEF ListTypes
<1>9. InMemory' /\ Covering'
  <2>1. phase' # "project"
    BY <1>1
  <2> QED
    BY <1>1, <2>1 DEF InMemory, Covering
<1>10. Listed(walk)' = Listed(walk) /\ ListedDNs' = ListedDNs
  <2>1. \A w : Listed(w)' = Listed(w)
    BY <1>1, SameTree
  <2> QED
    BY <1>1, <2>1 DEF ListedDNs
<1>11. ASSUME Skipped <= MaxInt
       PROVE  /\ a.code = "ok" /\ a.total = Cardinality(M)
              /\ CutAt(a.entries, M, Skipped, PageSize(walk))
              /\ Len(a.entries) \in Nat /\ Len(a.entries) <= PageSize(walk)
              /\ Cardinality(M) \in Nat /\ Cardinality(M) <= MaxInt
  <2>1. /\ a.code = "ok" /\ a.total = Cardinality(M)
        /\ CutAt(a.entries, M, Skipped, PageSize(walk))
    BY <1>1, <1>4, <1>5, <1>11, PageIsCut
  <2>2. Cardinality(M) \in Nat /\ Cardinality(M) <= MaxInt
    <3>1. Len(TextOrder) \in Nat /\ Len(TextOrder) <= MaxInt /\ MaxInt \in Nat
      BY OrderFacts, ListingsAssumption
    <3>2. Cardinality(M) \in Nat /\ Cardinality(M) <= Len(TextOrder)
      BY DNsFinite
    <3> QED
      BY <3>1, <3>2
  <2>3. Len(a.entries) \in Nat /\ Len(a.entries) <= PageSize(walk)
    BY <1>6, <2>1 DEF CutAt
  <2> QED
    BY <2>1, <2>2, <2>3
<1>12. Paging'
  <2>1. phase' # "project" /\ ((Going)' <=> phase' = "search")
    BY <1>1 DEF Going
  <2> SUFFICES ASSUME phase' = "search", walk.first = 1
               PROVE  /\ Skipped' <= MaxInt
                      /\ Unseen(ListedDNs, left, joined, shown, Skipped)'
                      /\ Seen(ListedDNs, left, joined, shown, Skipped)'
    BY <1>1, <2>1 DEF Paging
  <2>2. Skipped <= MaxInt
    BY <1>1, <1>2 DEF ListInv, Paging
  <2>3. PICK c \in Nat, s \in Nat, n \in Nat, total \in Nat :
            /\ c = Skipped /\ s = PageSize(walk) /\ n = Len(a.entries) /\ total = Cardinality(M)
            /\ a.code = "ok" /\ a.total = total /\ CutAt(a.entries, M, c, s) /\ n <= s
            /\ total <= MaxInt
    BY <1>3, <1>11, <2>2, SkippedType
  <2>4. position' # 0
    BY <1>1
  <2>5. PICK c2 \in Nat : c2 = Skipped' /\ c2 <= total /\ c + n <= c2 /\ c2 <= c + s
    BY <1>1, <1>3, <1>5, <2>3, <2>4, NextPage
  <2>6. /\ Unseen(ListedDNs, left, joined, shown \o a.entries, c2)
        /\ Seen(ListedDNs, left, joined, shown \o a.entries, c2)
    BY <1>1, <1>4, <2>3, <2>5, AnswerPages
  <2>7. Unseen(ListedDNs, left, joined, shown, Skipped)'
            <=> Unseen(ListedDNs, left, joined, shown \o a.entries, c2)
    BY <1>1, <1>5, <1>10, <2>5 DEF Unseen, TimesIn, Rank, Before
  <2>8. Seen(ListedDNs, left, joined, shown, Skipped)'
            <=> Seen(ListedDNs, left, joined, shown \o a.entries, c2)
    BY <1>1, <1>5, <1>10, <2>5 DEF Seen, TimesIn, Rank, Before
  <2>9. c2 <= MaxInt
    <3>1. MaxInt \in Nat
      BY ListingsAssumption
    <3> QED
      BY <2>3, <2>5, <3>1
  <2> QED
    BY <2>5, <2>6, <2>7, <2>8, <2>9
<1>13. WalkShowsAll'
  <2>1. PICK seen \in Seq(DNs) : seen = shown \o a.entries /\ seen = shown'
    BY <1>1, <1>5, <1>7
  <2> SUFFICES ASSUME phase' = "ended", walk.first = 1, PageSize(walk) > 0,
                      NEW d \in ListedDNs \ (left \cup joined)
               PROVE  /\ TimesIn(d, seen) = 0 => \E x \in left : Before(x, d)
                      /\ TimesIn(d, seen) > 1 => \E x \in joined : Before(x, d)
    <3>1. PageSize(walk)' = PageSize(walk) /\ DNsIn(Listed(walk))' = ListedDNs
      BY <1>1, <1>10 DEF PageSize, ListedDNs
    <3>2. \A d : Times(d)' = TimesIn(d, seen) /\ \A x : Before(x, d)' <=> Before(x, d)
      BY <2>1 DEF Times, TimesIn, Before
    <3> QED
      BY <1>1, <3>1, <3>2 DEF WalkShowsAll
  <2>2. Skipped <= MaxInt
    BY <1>1, <1>2 DEF ListInv, Paging
  <2>3. PICK c \in Nat, s \in Nat, n \in Nat, total \in Nat :
            /\ c = Skipped /\ s = PageSize(walk) /\ n = Len(a.entries) /\ total = Cardinality(M)
            /\ a.code = "ok" /\ a.total = total /\ CutAt(a.entries, M, c, s) /\ n <= s
    BY <1>3, <1>11, <2>2, SkippedType
  <2>4. position' = 0
    BY <1>1
  <2>5. n = 0 \/ total <= c + n \/ total <= c + s
    BY <1>1, <1>3, <1>5, <2>3, <2>4, NextPage
  <2>6. total <= c + s
    <3>1. c + n < total => n = s
      BY <2>3 DEF CutAt
    <3>2. s > 0
      BY <2>3
    <3> QED
      BY <2>3, <2>5, <3>1, <3>2
  <2>7. PICK c2 \in Nat : c2 = c + s /\ c + Len(a.entries) <= c2 /\ c2 <= c + s
    <3>1. c + s \in Nat /\ c + Len(a.entries) <= c + s /\ c + s <= c + s
      BY <2>3
    <3> QED
      BY <3>1
  <2>8. /\ Unseen(M, left, joined, seen, c2)
        /\ Seen(ListedDNs, left, joined, seen, c2)
    <3>1. /\ Unseen(M, left, joined, shown \o a.entries, c2)
          /\ Seen(ListedDNs, left, joined, shown \o a.entries, c2)
      BY <1>1, <1>4, <2>3, <2>7, AnswerPages
    <3> QED
      BY <2>1, <3>1
  <2>9. ASSUME \A x \in left : ~Before(x, d) PROVE TimesIn(d, seen) # 0
    <3>1. d \in M
      <4>1. ListedShape
        BY <1>2, ListedIsMatched
      <4>2. PICK p \in Listed(walk) : p[1] = d
        BY DEF ListedDNs, DNsIn
      <4>3. PICK x \in InTree(walk.class) : Matches(x, walk.query) /\ p = <<x.dn, x.class>>
        BY <4>1, <4>2 DEF ListedShape
      <4>4. Turn = walk.class
        <5>1. classes = <<walk.class>>
          BY <1>2 DEF ListTypes
        <5> QED
          BY <5>1 DEF Turn
      <4>5. x \in rows
        BY <1>1, <4>2, <4>3, <4>4 DEF ListInv, InMemory
      <4> QED
        BY <1>4, <4>2, <4>3, <4>5 DEF MatchedDNs, Matching
    <3>2. Rank(d, M) \in 1 .. total
      BY <2>3, <3>1, RankBounds
    <3>3. ~(c2 < Rank(d, M))
      BY <2>6, <2>7, <3>2
    <3> QED
      BY <2>8, <2>9, <3>1, <3>3 DEF Unseen
  <2>10. ASSUME \A x \in joined : ~Before(x, d) PROVE ~(TimesIn(d, seen) > 1)
    <3>1. TimesIn(d, seen) # 0 => TimesIn(d, seen) = 1
      BY <2>8, <2>10 DEF Seen
    <3>2. TimesIn(d, seen) = 0 \/ TimesIn(d, seen) = 1
      BY <3>1
    <3>3. ~(0 > 1) /\ ~(1 > 1)
      OBVIOUS
    <3> QED
      BY <3>2, <3>3
  <2> QED
    BY <2>9, <2>10
<1> QED
  BY <1>2, <1>8, <1>9, <1>12, <1>13 DEF ListInv

\* The directory after one of its searches.
LEMMA DirectoryKeepsListInv ==
    ASSUME ListInv, Answer, walk.route = "directory"
    PROVE  ListInv'
<1>1. /\ phase = "project" /\ answer' = PageOf(Sorted(Matching(rows, walk.query)))
      /\ shown' = shown \o answer'.entries /\ position' = NextPosition(answer')
      /\ IF Len(classes) > 1 THEN classes' = Tail(classes) /\ phase' = "search"
         ELSE classes' = classes /\ phase' = IF position' = 0 THEN "ended" ELSE "search"
      /\ rows' = {} /\ walk' = walk /\ left' = left /\ joined' = joined /\ UNCHANGED tables
  BY DEF Answer
<1>2. TablesInv /\ TablesInv' /\ walk \in Walks /\ ListTypes /\ Going
  BY <1>1, SameTablesInv DEF ListInv, ListTypes, Going
<1>3. walk.class = "any" /\ walk.query = NoQuery
  <2>1. \A w \in Walks : /\ w.route # "search" => w.query = NoQuery
                         /\ w.route = "directory" => w.class = "any"
    BY ListingsAssumption
  <2> QED
    BY <1>2, <2>1
<1>4. PICK M, list : /\ M \in SUBSET DNs /\ M = MatchedDNs
                     /\ list = Sorted(Matching(rows, walk.query)) /\ Ranked(list, M)
  BY MatchedShape
<1>5. answer'.entries = list
  <2>1. answer' = [code |-> "ok", total |-> Len(list), entries |-> list]
    BY <1>1, <1>4 DEF PageOf
  <2> QED
    BY <2>1
<1>6. position' = 0
  BY <1>1 DEF NextPosition
<1>7. list \in Seq(DNs) /\ shown' = shown \o list /\ shown' \in Seq(DNs)
  <2>1. list \in Seq(M)
    BY <1>4 DEF Ranked
  <2>2. list \in Seq(DNs)
    BY <1>4, <2>1
  <2> QED
    BY <1>1, <1>2, <1>5, <2>2 DEF ListTypes
<1>8. M = {r.dn : r \in rows}
  BY <1>3, <1>4 DEF MatchedDNs, Matching, Matches
<1>9. \A d : (\E i \in 1 .. Len(list) : list[i] = d) <=> d \in M
  <2>1. \A i \in 1 .. Len(list) : list[i] \in M
    BY <1>4, RankedFacts
  <2>2. \A d \in M : \E i \in 1 .. Len(list) : list[i] = d
    BY <1>4 DEF Ranked
  <2> QED
    BY <2>1, <2>2
<1>10. ASSUME NEW d
       PROVE  /\ TimesIn(d, shown) \in Nat
              /\ TimesIn(d, shown') = IF d \in M THEN TimesIn(d, shown) + 1 ELSE TimesIn(d, shown)
  <2>1. \A i, j \in 1 .. Len(list) : list[i] = list[j] => i = j
    <3> SUFFICES ASSUME NEW i \in 1 .. Len(list), NEW j \in 1 .. Len(list), list[i] = list[j]
                 PROVE  i = j
      OBVIOUS
    <3>1. Rank(list[i], M) = i /\ Rank(list[j], M) = j
      BY <1>4 DEF Ranked
    <3> QED
      BY <3>1
  <2>2. shown \in Seq(DNs)
    BY <1>2 DEF ListTypes
  <2>3. /\ TimesIn(d, shown) \in Nat
        /\ TimesIn(d, shown \o list) = IF \E j \in 1 .. Len(list) : list[j] = d
                                       THEN TimesIn(d, shown) + 1 ELSE TimesIn(d, shown)
    BY <1>7, <2>1, <2>2, TimesAppended
  <2> QED
    BY <1>7, <1>9, <2>3
<1>11. /\ Turn \in {"inetOrgPerson", "groupOfNames", "organizationalUnit"}
       /\ phase' \in {"search", "ended"}
       /\ phase' = "search" => classes' \in Turns
       /\ Done' = Done \cup {Turn}
  <2>1. classes \in Turns
    BY <1>2 DEF ListTypes
  <2>2. CASE classes = <<"inetOrgPerson", "groupOfNames", "organizationalUnit">>
    <3>1. /\ Turn = "inetOrgPerson" /\ Len(classes) > 1
          /\ Tail(classes) = <<"groupOfNames", "organizationalUnit">>
      BY <2>2 DEF Turn
    <3>2. classes' = <<"groupOfNames", "organizationalUnit">> /\ phase' = "search"
      BY <1>1, <3>1
    <3>3. Range(classes) = {"inetOrgPerson", "groupOfNames", "organizationalUnit"}
      BY <2>2 DEF Range
    <3>4. Range(classes') = {"groupOfNames", "organizationalUnit"}
      BY <3>2 DEF Range
    <3> QED
      BY <1>2, <3>1, <3>2, <3>3, <3>4 DEF Done, Going, Turns
  <2>3. CASE classes = <<"groupOfNames", "organizationalUnit">>
    <3>1. /\ Turn = "groupOfNames" /\ Len(classes) > 1
          /\ Tail(classes) = <<"organizationalUnit">>
      BY <2>3 DEF Turn
    <3>2. classes' = <<"organizationalUnit">> /\ phase' = "search"
      BY <1>1, <3>1
    <3>3. Range(classes) = {"groupOfNames", "organizationalUnit"}
      BY <2>3 DEF Range
    <3>4. Range(classes') = {"organizationalUnit"}
      BY <3>2 DEF Range
    <3> QED
      BY <1>2, <3>1, <3>2, <3>3, <3>4 DEF Done, Going, Turns
  <2>4. CASE classes = <<"organizationalUnit">>
    <3>1. Turn = "organizationalUnit" /\ ~(Len(classes) > 1)
      BY <2>4 DEF Turn
    <3>2. phase' = "ended"
      BY <1>1, <1>6, <3>1
    <3>3. Range(classes) = {"organizationalUnit"}
      BY <2>4 DEF Range
    <3> QED
      BY <1>2, <3>1, <3>2, <3>3 DEF Done, Going
  <2> QED
    BY <2>1, <2>2, <2>3, <2>4 DEF Turns
<1>12. ListTypes'
  <2>1. (Going)' <=> phase' = "search"
    BY <1>11 DEF Going
  <2> QED
    BY <1>1, <1>2, <1>7, <1>11, <2>1 DEF ListTypes
<1>13. InMemory' /\ Paging' /\ WalkShowsAll'
  BY <1>1, <1>11 DEF InMemory, Paging, WalkShowsAll
<1>14. PICK l : l = Listed(walk) /\ l = Listed(walk)' /\ ListedDNs' = ListedDNs
  <2>1. \A w : Listed(w)' = Listed(w)
    BY <1>1, SameTree
  <2> QED
    BY <1>1, <2>1 DEF ListedDNs
<1>15. ListedShape
  BY <1>2, ListedIsMatched
<1>16. \A x \in InTree(Turn) : x.class = Turn /\ <<x.dn, Turn>> \in l
  <2> SUFFICES ASSUME NEW x \in InTree(Turn) PROVE x.class = Turn /\ <<x.dn, Turn>> \in l
    OBVIOUS
  <2>1. x.class = Turn /\ x \in InTree("any")
    BY <1>2, <1>11, TreeRows
  <2> QED
    BY <1>3, <1>14, <1>15, <2>1 DEF ListedShape, Matches
<1>17. \A r \in rows : r.dn \in left \/ <<r.dn, Turn>> \in l
  BY <1>1, <1>16 DEF ListInv, InMemory
<1>18. \A p \in l : p[2] = Turn /\ p[1] \notin joined => p[1] \in M
  <2> SUFFICES ASSUME NEW p \in l, p[2] = Turn, p[1] \notin joined PROVE p[1] \in M
    OBVIOUS
  <2>1. PICK x \in InTree("any") : Matches(x, walk.query) /\ p = <<x.dn, x.class>>
    BY <1>3, <1>14, <1>15 DEF ListedShape
  <2>2. x \in InTree(Turn) /\ x.dn = p[1]
    <3>1. x.class = Turn
      BY <2>1
    <3> QED
      BY <1>2, <2>1, <3>1, TreeRows
  <2>3. x \in rows
    BY <1>1, <2>1, <2>2 DEF ListInv, InMemory
  <2> QED
    BY <1>8, <2>2, <2>3
<1>19. Covering
  BY DEF ListInv
<1>20. /\ \A d \in DNs : TimesIn(d, shown) # 0 => d \in left \/ \E k \in Done : <<d, k>> \in l
       /\ \A p \in l : p[2] \in Done /\ p[1] \notin left \cup joined => TimesIn(p[1], shown) = 1
       /\ \A d \in DNs : TimesIn(d, shown) > 1 => d \in left \cap joined
       /\ \A d \in M : TimesIn(d, shown) # 0 => d \in left \cap joined
  BY <1>1, <1>8, <1>14, <1>19 DEF Covering
<1>21. \A d \in DNs : TimesIn(d, shown') # 0 =>
           d \in left \/ \E k \in Done \cup {Turn} : <<d, k>> \in l
  <2> SUFFICES ASSUME NEW d \in DNs, TimesIn(d, shown') # 0, d \notin left
               PROVE  \E k \in Done \cup {Turn} : <<d, k>> \in l
    OBVIOUS
  <2>1. CASE d \in M
    <3>1. PICK r \in rows : r.dn = d
      BY <1>8, <2>1
    <3> QED
      BY <1>17, <3>1
  <2>2. CASE d \notin M
    <3>1. TimesIn(d, shown) # 0
      BY <1>10, <2>2
    <3> QED
      BY <1>20, <3>1
  <2> QED
    BY <2>1, <2>2
<1>22. ASSUME NEW p \in l, p[2] \in Done \cup {Turn}, p[1] \notin left \cup joined
       PROVE  TimesIn(p[1], shown') = 1
  <2>1. CASE p[2] = Turn
    <3>1. p[1] \in M
      BY <1>18, <1>22, <2>1
    <3>2. TimesIn(p[1], shown) = 0
      BY <1>20, <1>22, <3>1
    <3> QED
      BY <1>10, <3>1, <3>2
  <2>2. CASE p[2] \in Done
    <3>1. TimesIn(p[1], shown) = 1
      BY <1>20, <1>22, <2>2
    <3>2. p[1] \notin M
      <4>1. TimesIn(p[1], shown) # 0
        BY <3>1
      <4> QED
        BY <1>20, <1>22, <4>1
    <3> QED
      BY <1>10, <3>1, <3>2
  <2> QED
    BY <1>22, <2>1, <2>2
<1>23. ASSUME NEW d \in DNs, TimesIn(d, shown') > 1
       PROVE  d \in left \cap joined
  <2>1. CASE d \in M
    <3>1. TimesIn(d, shown) # 0
      BY <1>10, <1>23, <2>1
    <3> QED
      BY <1>20, <2>1, <3>1
  <2>2. CASE d \notin M
    BY <1>10, <1>20, <1>23, <2>2
  <2> QED
    BY <2>1, <2>2
<1>24. Covering'
  <2>1. \A d : TimesIn(d, shown)' = TimesIn(d, shown')
    BY DEF TimesIn
  <2>2. left \cap ListedDNs \subseteq joined
    BY <1>1, <1>19 DEF Covering
  <2> QED
    BY <1>1, <1>11, <1>14, <1>21, <1>22, <1>23, <2>1, <2>2 DEF Covering
<1> QED
  BY <1>2, <1>12, <1>13, <1>24 DEF ListInv

----
(* The theorems *)

LEMMA ListInit == Init => ListInv
<1> SUFFICES ASSUME Init PROVE ListInv
  OBVIOUS
<1>1. /\ SeededTables(Seed) /\ walk = NoWalk /\ shown = << >> /\ phase = "idle" /\ rows = {}
      /\ left = {} /\ joined = {}
  BY DEF Init
<1>2. TablesInv
  BY <1>1, ListingsAssumption, SeededTablesInv
<1>3. << >> \in Seq(DNs)
  OBVIOUS
<1>4. ListTypes
  BY <1>1, <1>3 DEF ListTypes, Going
<1>5. InMemory /\ Paging /\ Covering /\ WalkShowsAll
  BY <1>1 DEF InMemory, Paging, Covering, WalkShowsAll, Going
<1> QED
  BY <1>2, <1>4, <1>5 DEF ListInv

LEMMA ListStutter ==
    ASSUME ListInv, UNCHANGED vars
    PROVE  ListInv'
<1>1. /\ walk' = walk /\ position' = position /\ classes' = classes /\ shown' = shown
      /\ phase' = phase /\ rows' = rows /\ answer' = answer /\ left' = left /\ joined' = joined
      /\ UNCHANGED tables
  BY DEF vars, client
<1>2. TablesInv'
  BY <1>1, SameTablesInv DEF ListInv
<1>3. /\ \A class : InTree(class)' = InTree(class)
      /\ \A r, q : Matches(r, q)' <=> Matches(r, q)
      /\ \A w : Listed(w)' = Listed(w)
  BY <1>1, SameTree
<1>4. /\ (Going' <=> Going) /\ Turn' = Turn /\ Skipped' = Skipped /\ Done' = Done
      /\ Listed(walk)' = Listed(walk) /\ ListedDNs' = ListedDNs
  BY <1>1, <1>3 DEF Going, Turn, Skipped, Done, ListedDNs
<1>5. InTree(Turn)' = InTree(Turn) /\ MatchedDNs' = MatchedDNs /\ MayShow' = MayShow
  BY <1>1, <1>3, <1>4 DEF MatchedDNs, Matching, MayShow
<1>6. ListTypes'
  BY <1>1, <1>4 DEF ListInv, ListTypes
<1>7. InMemory'
  BY <1>1, <1>3, <1>5 DEF ListInv, InMemory
<1>8. Paging'
  <2>1. /\ Unseen(ListedDNs, left, joined, shown, Skipped)'
               <=> Unseen(ListedDNs, left, joined, shown, Skipped)
        /\ Unseen(MatchedDNs, left, joined, shown, Skipped)'
               <=> Unseen(MatchedDNs, left, joined, shown, Skipped)
    BY <1>1, <1>4, <1>5 DEF Unseen, TimesIn, Rank, Before
  <2>2. /\ Seen(ListedDNs, left, joined, shown, Skipped)'
               <=> Seen(ListedDNs, left, joined, shown, Skipped)
        /\ Seen(MayShow, left, joined, shown, Skipped)'
               <=> Seen(MayShow, left, joined, shown, Skipped)
    BY <1>1, <1>4, <1>5 DEF Seen, TimesIn, Rank, Before
  <2> QED
    BY <1>1, <1>4, <2>1, <2>2 DEF ListInv, Paging
<1>9. Covering'
  <2>1. \A d : TimesIn(d, shown)' = TimesIn(d, shown)
    BY <1>1 DEF TimesIn
  <2> QED
    BY <1>1, <1>4, <2>1 DEF ListInv, Covering
<1>10. WalkShowsAll'
  BY <1>1, <1>4 DEF ListInv, WalkShowsAll, PageSize, Times, Before
<1> QED
  BY <1>2, <1>6, <1>7, <1>8, <1>9, <1>10 DEF ListInv

\* The others write entries of the class and the contents they write.
LEMMA NextMoves ==
    Next => \/ \E w \in Walks : Begin(w)
            \/ Search \/ Answer
            \/ OthersWrote
<1> SUFFICES ASSUME Next PROVE \/ \E w \in Walks : Begin(w)
                              \/ Search \/ Answer
                              \/ OthersWrote
  OBVIOUS
<1>1. ASSUME NEW d \in DNs, Others(DeleteEntryTx(d)) PROVE OthersWrote
  BY <1>1, OthersWrite
<1>2. ASSUME NEW d \in DNs,
             \E k \in ClassesAt[d] : \E x \in Contents(k) : Others(CreateEntryTx(NewEntry(d, k, x)))
      PROVE  OthersWrote
  BY <1>2, OthersWrite
<1> QED
  BY <1>1, <1>2 DEF Next

LEMMA ListStep == ListInv /\ [Next]_vars => ListInv'
<1> SUFFICES ASSUME ListInv, [Next]_vars PROVE ListInv'
  OBVIOUS
<1>1. CASE UNCHANGED vars
  BY <1>1, ListStutter
<1>2. ASSUME NEW w \in Walks, Begin(w) PROVE ListInv'
  BY <1>2, BeginKeepsListInv
<1>3. CASE Search
  BY <1>3, SearchKeepsListInv
<1>4. CASE Answer
  BY <1>4, PageKeepsListInv, DirectoryKeepsListInv
<1>5. CASE OthersWrote
  BY <1>5, WriteKeepsListInv
<1> QED
  BY <1>1, <1>2, <1>3, <1>4, <1>5, NextMoves

THEOREM ListingsInvariant == Spec => []ListInv
<1> QED
  BY ListInit, ListStep, PTL DEF Spec

\* Through the pages from the first to the last, a client of the SCIM lists or of the directory
\* search sees what is listed all the time, once, unless something before it came or went.
THEOREM WalksShowAll == Spec => []WalkShowsAll
<1>1. ListInv => WalkShowsAll
  BY DEF ListInv
<1> QED
  BY <1>1, ListingsInvariant, PTL

\* The three searches of the directory show what is there all the time once, and show twice
\* only what went and came.
THEOREM DirectoryCovers == Spec => []DirectoryShowsOnce
<1>1. ListInv => DirectoryShowsOnce
  <2> SUFFICES ASSUME ListInv, phase = "ended", walk.route = "directory"
               PROVE  \A d \in DNs :
                         /\ (d \in DNsIn({p \in Listed(walk) : p[2] # "top"})
                               /\ d \notin left \cup joined) => Times(d) = 1
                         /\ Times(d) > 1 => d \in left \cap joined
    BY DEF DirectoryShowsOnce
  <2>1. Covering /\ TablesInv /\ walk \in Walks
    BY DEF ListInv, ListTypes
  <2>2. ListedShape
    BY <2>1, ListedIsMatched
  <2>3. Done = {"inetOrgPerson", "groupOfNames", "organizationalUnit"}
    BY DEF Done, Going
  <2>4. \A d : Times(d) = TimesIn(d, shown)
    BY DEF Times, TimesIn
  <2>5. ASSUME NEW p \in Listed(walk), p[2] # "top", p[1] \notin left \cup joined
        PROVE  Times(p[1]) = 1
    <3>1. p[2] \in Done
      BY <2>2, <2>3, <2>5 DEF ListedShape, Classes
    <3> QED
      BY <2>1, <2>4, <2>5, <3>1 DEF Covering
  <2>6. \A d \in DNs : Times(d) > 1 => d \in left \cap joined
    BY <2>1, <2>4 DEF Covering
  <2> QED
    BY <2>5, <2>6 DEF DNsIn
<1> QED
  BY <1>1, ListingsInvariant, PTL

\* Every page is the entries of the list at the places asked for, unless the place of the first
\* is beyond what an int holds.
THEOREM PagesAreAsAsked == Spec => PagesAsAsked
<1> DEFINE Paged ==
        (phase = "project" /\ phase' # "project" /\ walk.route # "directory") =>
            \A matching \in {{r.dn : r \in Matching(rows, walk.query)}} :
            \A from \in {IF walk.route = "scim" THEN position
                         ELSE (position - 1) * walk.size + 1} :
                LET page == {d \in matching :
                                Rank(d, matching) \in from .. from + PageSize(walk) - 1}
                IN  from - 1 > MaxInt \/ (/\ answer'.code = "ok"
                                          /\ Range(answer'.entries) = page
                                          /\ answer'.total = Cardinality(matching))
<1>1. ListInv /\ [Next]_vars => [Paged]_vars
  <2> SUFFICES ASSUME ListInv, Next, phase = "project", phase' # "project",
                      walk.route # "directory",
                      NEW from, from = IF walk.route = "scim" THEN position
                                       ELSE (position - 1) * walk.size + 1,
                      ~(from - 1 > MaxInt)
               PROVE  /\ answer'.code = "ok"
                      /\ Range(answer'.entries) =
                             {d \in MatchedDNs :
                                 Rank(d, MatchedDNs) \in from .. from + PageSize(walk) - 1}
                      /\ answer'.total = Cardinality(MatchedDNs)
    BY DEF MatchedDNs
  <2>1. Answer
    <3>1. ~ \E w \in Walks : Begin(w)
      BY DEF Begin
    <3>2. ~Search
      BY DEF Search
    <3>3. ~OthersWrote
      BY DEF OthersWrote
    <3> QED
      BY <3>1, <3>2, <3>3, NextMoves
  <2>2. answer' = PageOf(Sorted(Matching(rows, walk.query)))
    BY <2>1 DEF Answer
  <2>3. Asking
    BY ListingsAssumption DEF ListInv, ListTypes, Going, Asking
  <2>4. PICK c \in Nat, s \in Nat : c = Skipped /\ s = PageSize(walk)
    BY <2>3, SkippedType
  <2>5. from = c + 1 /\ c <= MaxInt
    <3>1. MaxInt \in Nat /\ position \in Nat
      BY <2>3, ListingsAssumption DEF Asking
    <3> QED
      BY <2>4, <3>1 DEF Skipped
  <2>6. PICK M \in SUBSET DNs : M = MatchedDNs
    BY MatchedShape
  <2>7. PICK a : a = answer'
    OBVIOUS
  <2>8. a.code = "ok" /\ a.total = Cardinality(M) /\ CutAt(a.entries, M, c, s)
    BY <2>2, <2>4, <2>5, <2>6, <2>7, PageIsCut
  <2>9. PICK e : e = a.entries
    OBVIOUS
  <2>10. CutAt(e, M, c, s)
    BY <2>8, <2>9
  <2>11. Range(e) = {d \in M : Rank(d, M) \in c + 1 .. c + s}
    <3>1. DOMAIN e = 1 .. Len(e)
      BY <2>10, CutFacts
    <3>2. \A d : (\E i \in 1 .. Len(e) : e[i] = d)
                 <=> d \in M /\ Rank(d, M) \in c + 1 .. c + s
      BY <2>10, CutFacts, Zenon
    <3> QED
      BY <3>1, <3>2 DEF Range
  <2>12. from + s - 1 = c + s
    BY <2>5
  <2> QED
    BY <2>4, <2>5, <2>6, <2>7, <2>8, <2>9, <2>11, <2>12
<1> QED
  <2>1. PagesAsAsked <=> [][Paged]_vars
    BY DEF PagesAsAsked
  <2> HIDE DEF Paged
  <2> QED
    BY <1>1, <2>1, ListingsInvariant, PTL DEF Spec

====
