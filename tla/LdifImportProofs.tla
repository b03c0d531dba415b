---- MODULE LdifImportProofs ----
(***************************************************************************)
(* What PlanImport accepts, the store accepts, and what an import leaves   *)
(* is the directory with the file laid over it: proofs about LdifImport.   *)
(***************************************************************************)
EXTENDS LdifImport, EntryStoreProofs

----
(* Sequences *)

LEMMA RangeConcat ==
    ASSUME NEW X, NEW s \in Seq(X), NEW t \in Seq(X)
    PROVE  s \o t \in Seq(X) /\ Range(s \o t) = Range(s) \cup Range(t)
<1>1. /\ s \o t \in Seq(X) /\ Len(s \o t) = Len(s) + Len(t)
      /\ Len(s) \in Nat /\ Len(t) \in Nat
      /\ DOMAIN s = 1 .. Len(s) /\ DOMAIN t = 1 .. Len(t)
      /\ DOMAIN (s \o t) = 1 .. Len(s) + Len(t)
      /\ \A i \in 1 .. Len(s) : (s \o t)[i] = s[i]
      /\ \A i \in 1 .. Len(t) : (s \o t)[Len(s) + i] = t[i]
  OBVIOUS
<1> DEFINE u == s \o t
<1> HIDE DEF u
<1>2. ASSUME NEW i \in DOMAIN u PROVE u[i] \in Range(s) \cup Range(t)
  <2>1. CASE i \in 1 .. Len(s)
    BY <1>1, <2>1 DEF Range, u
  <2>2. CASE i \notin 1 .. Len(s)
    <3>1. i - Len(s) \in 1 .. Len(t) /\ i = Len(s) + (i - Len(s))
      BY <1>1, <2>2 DEF u
    <3>2. u[i] = t[i - Len(s)]
      BY <1>1, <3>1 DEF u
    <3> QED
      BY <1>1, <3>1, <3>2 DEF Range
  <2> QED
    BY <2>1, <2>2
<1>3. \A i \in DOMAIN s : s[i] \in Range(u)
  BY <1>1 DEF Range, u
<1>4. ASSUME NEW i \in DOMAIN t PROVE t[i] \in Range(u)
  <2>1. Len(s) + i \in DOMAIN u /\ u[Len(s) + i] = t[i]
    BY <1>1 DEF u
  <2> QED
    BY <2>1 DEF Range
<1> QED
  BY <1>1, <1>2, <1>3, <1>4 DEF Range, u

LEMMA RangeHeadTail ==
    ASSUME NEW X, NEW s \in Seq(X), s # << >>
    PROVE  /\ Head(s) \in Range(s) /\ Tail(s) \in Seq(X)
           /\ Range(s) = {Head(s)} \cup Range(Tail(s))
<1>1. /\ Tail(s) \in Seq(X) /\ Len(s) \in Nat \ {0} /\ Head(s) = s[1]
      /\ DOMAIN s = 1 .. Len(s) /\ DOMAIN Tail(s) = 1 .. Len(s) - 1
      /\ \A i \in 1 .. Len(s) - 1 : Tail(s)[i] = s[i + 1]
  OBVIOUS
<1>2. ASSUME NEW i \in DOMAIN s PROVE s[i] \in {Head(s)} \cup Range(Tail(s))
  <2>1. CASE i = 1
    BY <1>1, <2>1
  <2>2. CASE i # 1
    <3>1. i - 1 \in DOMAIN Tail(s) /\ Tail(s)[i - 1] = s[i]
      BY <1>1, <2>2
    <3> QED
      BY <3>1 DEF Range
  <2> QED
    BY <2>1, <2>2
<1>3. \A i \in DOMAIN Tail(s) : Tail(s)[i] \in Range(s)
  BY <1>1 DEF Range
<1>4. Head(s) \in Range(s)
  BY <1>1 DEF Range
<1> QED
  BY <1>1, <1>2, <1>3, <1>4 DEF Range

\* A sequence is one of the values in it.
LEMMA OfOwnRange ==
    ASSUME NEW X, NEW s \in Seq(X)
    PROVE  s \in Seq(Range(s)) /\ Range(s) \subseteq X
<1>1. Range(s) \subseteq X
  BY DEF Range
<1> SUFFICES ASSUME NEW R, R = Range(s) PROVE s \in Seq(R)
  BY <1>1
<1>2. \A i \in 1 .. Len(s) : s[i] \in R
  BY DEF Range
<1> QED
  BY <1>2

\* Listing names each member of a finite set.
LEMMA ListingOfSet ==
    ASSUME NEW S, IsFiniteSet(S)
    PROVE  Listing(S) \in Seq(S) /\ Range(Listing(S)) = S
<1>1. Cardinality(S) \in Nat /\ ExistsBijection(1 .. Cardinality(S), S)
  BY FS_CardinalityType
<1>2. PICK g \in [1 .. Cardinality(S) -> S] : \A y \in S : \E x \in 1 .. Cardinality(S) : g[x] = y
  BY <1>1 DEF ExistsBijection, Bijection, Surjection
<1>3. Range(g) = S
  BY <1>2 DEF Range
<1>4. Listing(S) \in [1 .. Cardinality(S) -> S] /\ Range(Listing(S)) = S
  BY <1>3 DEF Listing
<1> QED
  BY <1>1, <1>4

\* FlattenSeq strings sequences together.
ListsOf(n, ss, X) ==
    /\ n \in Nat /\ Len(ss) = n /\ ss = [i \in 1 .. n |-> ss[i]]
    /\ \A i \in 1 .. n : ss[i] \in Seq(X)

Strung(f, n, ss, X) ==
    /\ f \in [0 .. n -> Seq(X)]
    /\ f[0] = << >> /\ \A i \in 1 .. n : f[i] = f[i - 1] \o ss[i]

LEMMA Concatenations ==
    ASSUME NEW X, NEW n, NEW ss, ListsOf(n, ss, X)
    PROVE  \E f : Strung(f, n, ss, X)
<1> DEFINE V == Seq(X)
           Step == [p \in (1 .. n) \X V |-> p[2] \o ss[p[1]]]
<1>1. ASSUME NEW i \in 1 .. n, NEW v \in V
      PROVE  Step[<<i, v>>] = v \o ss[i] /\ v \o ss[i] \in V
  <2>1. ss[i] \in Seq(X)
    BY DEF ListsOf
  <2>2. v \o ss[i] \in V
    BY <2>1
  <2>3. <<i, v>> \in (1 .. n) \X V
    OBVIOUS
  <2> HIDE DEF V
  <2> QED
    BY <2>2, <2>3
<1>2. << >> \in V
  OBVIOUS
<1>3. RunsWithin(n, V, << >>, Step)
  <2> HIDE DEF V, Step
  <2> QED
    BY <1>1, <1>2 DEF RunsWithin, ListsOf
<1> HIDE DEF V, Step
<1>4. PICK f \in [0 .. n -> V] : f[0] = << >> /\ \A i \in 1 .. n : f[i] = Step[<<i, f[i - 1]>>]
  BY <1>3, RecursionUpTo
<1>5. \A i \in 1 .. n : f[i] = f[i - 1] \o ss[i]
  <2>1. \A i \in 1 .. n : f[i - 1] \in V
    BY DEF ListsOf
  <2> QED
    BY <1>1, <1>4, <2>1
<1> QED
  BY <1>4, <1>5 DEF V, Strung

LEMMA FlattenSeqRange ==
    ASSUME NEW X, NEW n, NEW ss, ListsOf(n, ss, X)
    PROVE  /\ FlattenSeq(ss) \in Seq(X)
           /\ \A x : x \in Range(FlattenSeq(ss)) <=> \E i \in 1 .. n : x \in Range(ss[i])
<1>0. n \in Nat /\ Len(ss) = n /\ \A i \in 1 .. n : ss[i] \in Seq(X)
  BY DEF ListsOf
<1>1. CASE n = 0
  <2>1. FlattenSeq(ss) = ss
    BY <1>0, <1>1 DEF FlattenSeq
  <2>2. ss = << >>
    BY <1>1 DEF ListsOf
  <2>3. Range(ss) = {} /\ ss \in Seq(X)
    BY <1>1, <2>2 DEF Range
  <2>4. ~ \E i \in 1 .. n : TRUE
    BY <1>1
  <2> QED
    BY <2>1, <2>3, <2>4
<1>2. CASE n # 0
  <2>3. PICK f : Strung(f, n, ss, X)
    BY Concatenations
  <2>4. f \in [0 .. n -> Seq(X)] /\ f[0] = << >> /\ \A i \in 1 .. n : f[i] = f[i - 1] \o ss[i]
    BY <2>3 DEF Strung
  <2>6. f[1] = ss[1]
    <3>1. 1 \in 1 .. n
      BY <1>0, <1>2
    <3>2. ss[1] \in Seq(X)
      BY <1>0, <3>1
    <3>4. f[1] = f[1 - 1] \o ss[1]
      BY <2>4, <3>1
    <3>5. f[1 - 1] = << >>
      BY <2>4
    <3>3. \A t \in Seq(X) : << >> \o t = t
      OBVIOUS
    <3> QED
      BY <3>2, <3>3, <3>4, <3>5
  <2> DEFINE g == [i \in 1 .. n |-> f[i]]
  <2>7. g = [i \in 1 .. n |-> IF i = 1 THEN ss[i] ELSE g[i - 1] \o ss[i]]
    <3>1. \A i \in 1 .. n : i # 1 => i - 1 \in 1 .. n
      BY <1>0
    <3> QED
      BY <2>4, <2>6, <3>1
  <2>8. PICK h : h = CHOOSE c : c = [i \in 1 .. n |-> IF i = 1 THEN ss[i] ELSE c[i - 1] \o ss[i]]
    OBVIOUS
  <2>9. h = [i \in 1 .. n |-> IF i = 1 THEN ss[i] ELSE h[i - 1] \o ss[i]]
    <3> HIDE DEF g
    <3> QED
      BY <2>7, <2>8, Zenon
  <2>10. FlattenSeq(ss) = h[n]
    BY <1>0, <1>2, <2>8, Zenon DEF FlattenSeq
  <2>11. \A i \in 1 .. n : h[i] = IF i = 1 THEN ss[i] ELSE h[i - 1] \o ss[i]
    BY <2>9, Zenon
  <2> DEFINE T == {i \in Nat : i + 1 \in 1 .. n =>
                      /\ h[i + 1] \in Seq(X)
                      /\ \A x : x \in Range(h[i + 1]) <=> \E j \in 1 .. i + 1 : x \in Range(ss[j])}
  <2>12. 0 \in T
    <3>1. h[1] = ss[1] /\ ss[1] \in Seq(X)
      BY <1>0, <1>2, <2>11
    <3> QED
      BY <3>1
  <2>13. ASSUME NEW i \in Nat, i \in T PROVE i + 1 \in T
    <3> SUFFICES ASSUME (i + 1) + 1 \in 1 .. n
                 PROVE  /\ h[(i + 1) + 1] \in Seq(X)
                        /\ \A x : x \in Range(h[(i + 1) + 1])
                                    <=> \E j \in 1 .. (i + 1) + 1 : x \in Range(ss[j])
      OBVIOUS
    <3>1. /\ h[i + 1] \in Seq(X) /\ ss[(i + 1) + 1] \in Seq(X)
          /\ \A x : x \in Range(h[i + 1]) <=> \E j \in 1 .. i + 1 : x \in Range(ss[j])
      BY <1>0, <2>13
    <3>2. (i + 1) + 1 # 1 /\ ((i + 1) + 1) - 1 = i + 1
      OBVIOUS
    <3>3. h[(i + 1) + 1] = h[i + 1] \o ss[(i + 1) + 1]
      BY <2>11, <3>2
    <3>4. /\ h[(i + 1) + 1] \in Seq(X)
          /\ Range(h[(i + 1) + 1]) = Range(h[i + 1]) \cup Range(ss[(i + 1) + 1])
      BY <3>1, <3>3, RangeConcat
    <3>5. 1 .. (i + 1) + 1 = (1 .. i + 1) \cup {(i + 1) + 1}
      OBVIOUS
    <3> QED
      BY <3>1, <3>4, <3>5
  <2>14. Nat \subseteq T
    <3> HIDE DEF T
    <3> QED
      BY <2>12, <2>13, InductionOnSet
  <2>15. n - 1 \in Nat /\ (n - 1) + 1 = n /\ n \in 1 .. n
    BY <1>0, <1>2
  <2>16. /\ h[n] \in Seq(X)
         /\ \A x : x \in Range(h[n]) <=> \E j \in 1 .. n : x \in Range(ss[j])
    BY <2>14, <2>15
  <2> QED
    BY <2>10, <2>16
<1> QED
  BY <1>1, <1>2

----
(* The order of the writes *)

IsList(es) == Len(es) \in Nat /\ es = [i \in 1 .. Len(es) |-> es[i]]

\* The DNs dependenciesSatisfied waits for.
WaitsFor(e) == {e.parent} \cup (IF e.class = "groupOfNames" THEN e.members ELSE {})

\* A sequence of entries of the batch, none twice, each after those of the batch it needs.
InOrder(es, s) ==
    /\ s \in Seq(Range(es))
    /\ \A i, j \in DOMAIN s : s[i].dn = s[j].dn => i = j
    /\ \A i \in DOMAIN s : \A d \in WaitsFor(s[i]) \cap DNsOf(es) : \E j \in 1 .. i - 1 : s[j].dn = d

LEMMA EmptyInOrder == \A es : InOrder(es, << >>)
  BY DEF InOrder

\* What a pass appends is new, and comes after what it needs.
LEMMA PassOverInOrder ==
    ASSUME NEW es, NEW e \in Range(es), NEW s, InOrder(es, s)
    PROVE  InOrder(es, PassOver(e, DNsOf(es), s))
<1>1. CASE ~(e.dn \notin DNsOf(s) /\ Ready(e, DNsOf(es), DNsOf(s)))
  BY <1>1 DEF PassOver
<1>2. CASE e.dn \notin DNsOf(s) /\ Ready(e, DNsOf(es), DNsOf(s))
  <2> DEFINE t == Append(s, e)
  <2>1. PassOver(e, DNsOf(es), s) = t
    BY <1>2 DEF PassOver
  <2>2. PICK R : R = Range(es)
    OBVIOUS
  <2>3. s \in Seq(R) /\ e \in R
    BY <2>2 DEF InOrder
  <2>4. /\ t \in Seq(R) /\ Len(s) \in Nat /\ DOMAIN s = 1 .. Len(s) /\ DOMAIN t = 1 .. Len(s) + 1
        /\ t[Len(s) + 1] = e /\ \A i \in 1 .. Len(s) : t[i] = s[i]
    BY <2>3
  <2> HIDE DEF t
  <2>5. \A i \in DOMAIN s : s[i].dn # e.dn
    BY <1>2 DEF DNsOf
  <2>6. \A i, j \in DOMAIN t : t[i].dn = t[j].dn => i = j
    <3> SUFFICES ASSUME NEW i \in DOMAIN t, NEW j \in DOMAIN t, t[i].dn = t[j].dn PROVE i = j
      OBVIOUS
    <3>1. CASE i \in DOMAIN s /\ j \in DOMAIN s
      BY <2>4, <3>1 DEF InOrder
    <3>2. CASE i = Len(s) + 1 \/ j = Len(s) + 1
      BY <2>4, <2>5, <3>2
    <3> QED
      BY <2>4, <3>1, <3>2
  <2>7. ASSUME NEW i \in DOMAIN t, NEW d \in WaitsFor(t[i]) \cap DNsOf(es)
        PROVE  \E j \in 1 .. i - 1 : t[j].dn = d
    <3>1. CASE i \in DOMAIN s
      <4>1. PICK j \in 1 .. i - 1 : s[j].dn = d
        BY <2>4, <3>1 DEF InOrder
      <4> QED
        BY <2>4, <3>1, <4>1
    <3>2. CASE i = Len(s) + 1
      <4>1. d \in DNsOf(s)
        BY <1>2, <2>4, <3>2 DEF Ready, WaitsFor
      <4>2. PICK j \in DOMAIN s : s[j].dn = d
        BY <4>1 DEF DNsOf
      <4> QED
        BY <2>4, <3>2, <4>2
    <3> QED
      BY <2>4, <3>1, <3>2
  <2> QED
    BY <2>1, <2>2, <2>4, <2>6, <2>7 DEF InOrder
<1> QED
  BY <1>1, <1>2

InOrders(es) == {s \in Seq(Range(es)) : InOrder(es, s)}

LEMMA PassInOrder ==
    ASSUME NEW es, IsList(es), NEW s, InOrder(es, s)
    PROVE  InOrder(es, Pass(es, s))
<1> DEFINE V == InOrders(es)
           N == Len(es)
           batch == DNsOf(es)
           Step == [p \in (1 .. N) \X V |-> PassOver(es[p[1]], batch, p[2])]
<1>0. N \in Nat /\ \A n \in 1 .. N : es[n] \in Range(es)
  <2>1. DOMAIN es = 1 .. N
    BY DEF IsList
  <2> QED
    BY <2>1 DEF IsList, Range
<1>1. ASSUME NEW n \in 1 .. N, NEW v \in V
      PROVE  PassOver(es[n], batch, v) \in V /\ Step[<<n, v>>] = PassOver(es[n], batch, v)
  <2>1. InOrder(es, PassOver(es[n], batch, v))
    BY <1>0, PassOverInOrder DEF InOrders
  <2>2. PassOver(es[n], batch, v) \in V
    BY <2>1 DEF InOrder, InOrders
  <2>3. <<n, v>> \in (1 .. N) \X V
    OBVIOUS
  <2> HIDE DEF V, N, batch
  <2> QED
    BY <2>2, <2>3
<1>2. s \in V
  BY DEF InOrders, InOrder
<1> HIDE DEF V, N, batch, Step
<1>3. RunsWithin(N, V, s, Step)
  BY <1>0, <1>1, <1>2 DEF RunsWithin
<1>4. PICK f : f \in [0 .. N -> V] /\ f[0] = s /\ \A n \in 1 .. N : f[n] = Step[<<n, f[n - 1]>>]
  BY <1>3, RecursionUpTo
<1>5. ASSUME NEW n \in 1 .. N PROVE f[n] = PassOver(es[n], batch, f[n - 1])
  <2>1. f[n - 1] \in V
    BY <1>0, <1>4
  <2> QED
    BY <1>1, <1>4, <2>1
<1>6. f = [n \in 0 .. N |-> IF n = 0 THEN s ELSE PassOver(es[n], batch, f[n - 1])]
  BY <1>0, <1>4, <1>5
<1>7. PICK h : h = CHOOSE c : c = [n \in 0 .. N |->
                                    IF n = 0 THEN s ELSE PassOver(es[n], batch, c[n - 1])]
  OBVIOUS
<1>8. h = [n \in 0 .. N |-> IF n = 0 THEN s ELSE PassOver(es[n], batch, h[n - 1])]
  BY <1>6, <1>7, Zenon
<1>9. Pass(es, s) = h[N]
  BY <1>7, Zenon DEF Pass, N, batch
<1>10. \A n \in 0 .. N : h[n] = IF n = 0 THEN s ELSE PassOver(es[n], batch, h[n - 1])
  BY <1>8, Zenon
<1> DEFINE T == {n \in Nat : n \in 0 .. N => h[n] \in V}
<1>11. 0 \in T
  BY <1>2, <1>10
<1>12. ASSUME NEW n \in Nat, n \in T PROVE n + 1 \in T
  <2> SUFFICES ASSUME n + 1 \in 0 .. N PROVE h[n + 1] \in V
    OBVIOUS
  <2>1. n \in 0 .. N /\ n + 1 \in 1 .. N /\ n + 1 # 0 /\ (n + 1) - 1 = n
    BY <1>0
  <2>2. h[n + 1] = PassOver(es[n + 1], batch, h[n])
    BY <1>10, <2>1
  <2>3. h[n] \in V
    BY <1>12, <2>1
  <2> QED
    BY <1>1, <2>1, <2>2, <2>3
<1>13. N \in T /\ N \in 0 .. N
  <2> HIDE DEF T
  <2> QED
    BY <1>0, <1>11, <1>12, InductionOnSet
<1> QED
  BY <1>9, <1>13 DEF V, InOrders

LEMMA OrderInOrder ==
    ASSUME NEW es, IsList(es)
    PROVE  InOrder(es, Order(es))
<1> DEFINE V == InOrders(es)
           Step == [v \in V |-> Pass(es, v)]
<1>1. ASSUME NEW v \in V PROVE Pass(es, v) \in V
  <2>1. InOrder(es, Pass(es, v))
    BY PassInOrder DEF InOrders
  <2> QED
    BY <2>1 DEF InOrders, InOrder
<1>2. PICK start : start = << >>
  OBVIOUS
<1>3. start \in V
  BY <1>2, EmptyInOrder DEF InOrders
<1> HIDE DEF V
<1>4. Step \in [V -> V]
  BY <1>1
<1>5. PICK f \in [Nat -> V] : f[0] = start /\ \A n \in Nat : f[n + 1] = Step[f[n]]
  <2> HIDE DEF Step
  <2> QED
    BY <1>3, <1>4, RecursionOnNat
<1>6. \A n \in Nat : n # 0 => f[n] = Pass(es, f[n - 1])
  <2> SUFFICES ASSUME NEW n \in Nat, n # 0 PROVE f[n] = Pass(es, f[n - 1])
    OBVIOUS
  <2>1. n - 1 \in Nat /\ (n - 1) + 1 = n
    OBVIOUS
  <2>2. f[n - 1] \in V /\ f[(n - 1) + 1] = Step[f[n - 1]]
    BY <1>5, <2>1
  <2> QED
    BY <2>1, <2>2
<1>7. f = [n \in Nat |-> IF n = 0 THEN << >> ELSE Pass(es, f[n - 1])]
  BY <1>2, <1>5, <1>6
<1>8. PICK h : h = CHOOSE c : c = [n \in Nat |-> IF n = 0 THEN << >> ELSE Pass(es, c[n - 1])]
  OBVIOUS
<1>9. h = [n \in Nat |-> IF n = 0 THEN << >> ELSE Pass(es, h[n - 1])]
  BY <1>7, <1>8, Zenon
<1>10. Order(es) = h[Len(es)]
  BY <1>8, Zenon DEF Order
<1>11. \A n \in Nat : h[n] = IF n = 0 THEN << >> ELSE Pass(es, h[n - 1])
  BY <1>9, Zenon
<1> DEFINE T == {n \in Nat : h[n] \in V}
<1>12. 0 \in T
  BY <1>2, <1>3, <1>11
<1>13. ASSUME NEW n \in Nat, n \in T PROVE n + 1 \in T
  <2>1. n + 1 \in Nat /\ n + 1 # 0 /\ (n + 1) - 1 = n
    OBVIOUS
  <2>2. h[n + 1] = Pass(es, h[n])
    BY <1>11, <2>1
  <2> QED
    BY <1>1, <1>13, <2>2
<1>14. Len(es) \in T
  <2> HIDE DEF T
  <2> QED
    BY <1>12, <1>13, InductionOnSet DEF IsList
<1> QED
  BY <1>10, <1>14 DEF V, InOrders

LEMMA CountUpTo ==
    ASSUME NEW n \in Nat
    PROVE  IsFiniteSet(1 .. n) /\ Cardinality(1 .. n) = n
<1>1. IsFiniteSet(1 .. n) /\ Cardinality(1 .. n) = IF 1 > n THEN 0 ELSE n - 1 + 1
  BY FS_Interval
<1> QED
  BY <1>1

\* An order as long as the batch holds all of it.
LEMMA OrderedCovers ==
    ASSUME NEW es, IsList(es), NEW s, InOrder(es, s), Len(s) = Len(es)
    PROVE  Range(s) = Range(es)
<1> DEFINE I == 1 .. Len(es)
           R == Range(es)
<1>1. Len(es) \in Nat /\ DOMAIN es = I
  BY DEF IsList
<1>2. IsFiniteSet(I) /\ Cardinality(I) = Len(es)
  <2>1. PICK n \in Nat : n = Len(es)
    BY <1>1
  <2>2. IsFiniteSet(1 .. n) /\ Cardinality(1 .. n) = n
    BY CountUpTo
  <2> QED
    BY <2>1, <2>2
<1>3. es \in Surjection(I, R)
  <2>1. es \in [I -> R]
    BY <1>1 DEF IsList, Range
  <2>2. \A y \in R : \E x \in I : es[x] = y
    BY <1>1 DEF Range
  <2> HIDE DEF I, R
  <2> QED
    BY <2>1, <2>2 DEF Surjection
<1>4. s \in Injection(I, R)
  <2>1. s \in Seq(R) /\ DOMAIN s = I /\ s \in [I -> R]
    <3>1. s \in Seq(R)
      BY DEF InOrder
    <3> HIDE DEF R
    <3> QED
      BY <3>1
  <2>2. \A i, j \in I : s[i] = s[j] => i = j
    BY <2>1 DEF InOrder
  <2> HIDE DEF I, R
  <2> QED
    BY <2>1, <2>2 DEF Injection, IsInjective
<1> HIDE DEF I, R
<1>5. IsFiniteSet(R) /\ Cardinality(R) <= Cardinality(I)
  BY <1>2, <1>3, FS_Surjection
<1>6. Cardinality(R) \in Nat /\ Cardinality(I) \in Nat
  BY <1>1, <1>2, <1>5, FS_CardinalityType
<1>7. Cardinality(I) <= Cardinality(R) /\ (Cardinality(I) = Cardinality(R) <=> s \in Surjection(I, R))
  BY <1>4, <1>5, FS_Injection
<1>8. s \in Surjection(I, R)
  BY <1>5, <1>6, <1>7
<1>9. s \in [I -> R] /\ \A y \in R : \E x \in I : s[x] = y
  BY <1>8 DEF Surjection
<1> QED
  BY <1>9 DEF Range, R

\* A file without repeated DNs has as many entries as DNs.
LEMMA DistinctDNs ==
    ASSUME NEW es, IsList(es), Cardinality(DNsOf(es)) = Len(es)
    PROVE  \A i, j \in DOMAIN es : es[i].dn = es[j].dn => i = j
<1> DEFINE I == 1 .. Len(es)
           R == DNsOf(es)
           f == [i \in I |-> es[i].dn]
<1>1. Len(es) \in Nat /\ DOMAIN es = I
  BY DEF IsList
<1>2. IsFiniteSet(I) /\ Cardinality(I) = Len(es)
  <2>1. PICK n \in Nat : n = Len(es)
    BY <1>1
  <2>2. IsFiniteSet(1 .. n) /\ Cardinality(1 .. n) = n
    BY CountUpTo
  <2> QED
    BY <2>1, <2>2
<1>3. f \in Surjection(I, R)
  <2>1. f \in [I -> R]
    BY <1>1 DEF DNsOf
  <2>2. \A y \in R : \E x \in I : f[x] = y
    BY <1>1 DEF DNsOf
  <2> HIDE DEF I, R, f
  <2> QED
    BY <2>1, <2>2 DEF Surjection
<1>4. f \in Injection(I, R)
  <2> HIDE DEF I, f
  <2> QED
    BY <1>2, <1>3, FS_Surjection
<1>5. \A i, j \in I : f[i] = f[j] => i = j
  <2> HIDE DEF I, f, R
  <2> QED
    BY <1>4 DEF Injection, IsInjective
<1> QED
  BY <1>1, <1>5

----
(* The entries of a file, and what is looked up of them *)

LEMMA EntriesAreList ==
    ASSUME NEW f \in Files
    PROVE  /\ IsList(EntriesOf(f)) /\ Len(f) \in Nat /\ DOMAIN f = 1 .. Len(f)
           /\ Len(EntriesOf(f)) = Len(f)
           /\ \A i \in DOMAIN f : EntriesOf(f)[i] = EntryOf(f[i]) /\ EntryOf(f[i]).dn = f[i].dn
           /\ DNsOf(EntriesOf(f)) = Batch(f)
<1>1. f \in Seq(Range(f))
  BY LdifAssumption
<1>2. PICK R : f \in Seq(R)
  BY <1>1
<1>3. Len(f) \in Nat /\ DOMAIN f = 1 .. Len(f)
  BY <1>2
<1>4. EntriesOf(f) = [i \in 1 .. Len(f) |-> EntryOf(f[i])]
  BY <1>3 DEF EntriesOf
<1>5. Len(EntriesOf(f)) = Len(f) /\ DOMAIN EntriesOf(f) = 1 .. Len(f)
  BY <1>3, <1>4
<1>6. \A i \in DOMAIN f : EntriesOf(f)[i] = EntryOf(f[i]) /\ EntryOf(f[i]).dn = f[i].dn
  BY <1>3, <1>4 DEF EntryOf, NewEntry
<1>7. DNsOf(EntriesOf(f)) = Batch(f)
  BY <1>3, <1>5, <1>6 DEF DNsOf, Batch
<1>8. IsList(EntriesOf(f))
  BY <1>3, <1>4, <1>5 DEF IsList
<1> QED
  BY <1>3, <1>5, <1>6, <1>7, <1>8

\* What entryFromRecord lets through.
EntryFits(e) ==
    /\ e \in Entry /\ e.parent = Parent[e.dn] /\ WithinBase(e.dn) /\ ValidForClass(e)
    /\ IsFiniteSet(e.members)
    /\ e.class = "inetOrgPerson" <=> e.password # NoPassword

LEMMA RecordEntryFits ==
    ASSUME NEW r, IsRecord(r), NEW o, RecordFits(r, o)
    PROVE  EntryFits(EntryOf(r))
<1>1. PrimaryClass(r) \in Classes
  BY DEF RecordFits, ClassFits, Structural, PrimaryClass, Classes
<1>2. PasswordOf(r) \in PasswordHashes /\ (IsUser(r) <=> PasswordOf(r) # NoPassword)
  <2>1. CASE ~IsUser(r)
    BY <2>1 DEF PasswordOf, PasswordHashes
  <2>2. CASE IsUser(r) /\ r.passwords = {}
    <3>1. Generated \in Passwords
      BY LdifAssumption
    <3> QED
      BY <2>2, <3>1, StoreAssumption DEF PasswordOf, PasswordHashes
  <2>3. CASE IsUser(r) /\ r.passwords # {}
    <3>1. r.passwords \subseteq Passwords
      BY <2>3 DEF RecordFits, PasswordFits
    <3>2. PasswordOf(r) \in r.passwords
      BY <2>3 DEF PasswordOf
    <3> QED
      BY <2>3, <3>1, <3>2, StoreAssumption DEF PasswordHashes
  <2> QED
    BY <2>1, <2>2, <2>3
<1>3. /\ EntryOf(r) = [dn |-> r.dn, parent |-> Parent[r.dn], class |-> PrimaryClass(r),
                       attrs |-> r.attrs, members |-> r.members, password |-> PasswordOf(r),
                       uuid |-> 0]
  BY DEF EntryOf, NewEntry
<1>4. EntryOf(r) \in Entry
  BY <1>1, <1>2, <1>3 DEF IsRecord, Entry
<1> QED
  BY <1>2, <1>3, <1>4 DEF EntryFits, RecordFits, IsRecord, IsUser

LEMMA PlannedFits ==
    ASSUME file \in Files, NEW o, FileFits(file, o)
    PROVE  /\ \A e \in Planned : EntryFits(e)
           /\ \A e, g \in Planned : e.dn = g.dn => e = g
           /\ Len(EntriesOf(file)) = Cardinality(DNsOf(EntriesOf(file)))
<1>1. /\ IsList(EntriesOf(file)) /\ Len(EntriesOf(file)) = Len(file)
      /\ DNsOf(EntriesOf(file)) = Batch(file)
      /\ \A i \in DOMAIN file : EntriesOf(file)[i] = EntryOf(file[i])
      /\ DOMAIN EntriesOf(file) = DOMAIN file
  BY EntriesAreList DEF EntriesOf
<1>2. ASSUME NEW i \in DOMAIN file PROVE EntryFits(EntryOf(file[i]))
  <2>1. IsRecord(file[i]) /\ RecordFits(file[i], o)
    BY LdifAssumption DEF FileFits
  <2> QED
    BY <2>1, RecordEntryFits
<1>3. Len(EntriesOf(file)) = Cardinality(DNsOf(EntriesOf(file)))
  BY <1>1 DEF FileFits
<1>4. \A i, j \in DOMAIN EntriesOf(file) :
          EntriesOf(file)[i].dn = EntriesOf(file)[j].dn => i = j
  BY <1>1, <1>3, DistinctDNs
<1>5. \A e \in Planned : \E i \in DOMAIN file : e = EntriesOf(file)[i]
  BY <1>1 DEF Planned, Range
<1> QED
  BY <1>1, <1>2, <1>3, <1>4, <1>5

\* Nothing but the password of a user depends on the flags, and --generate only helps.
LEMMA FitsGenerating ==
    ASSUME NEW f, NEW o, FileFits(f, o), NEW p, p.generate
    PROVE  FileFits(f, p)
<1>1. \A r : PasswordFits(r, o) => PasswordFits(r, p)
  BY DEF PasswordFits
<1> QED
  BY <1>1 DEF FileFits, RecordFits

LEMMA NeedsFinite ==
    ASSUME NEW e, EntryFits(e), NEW batch
    PROVE  IsFiniteSet(Needs(e) \ batch)
<1>1. IsFiniteSet({}) /\ IsFiniteSet({e.parent}) /\ IsFiniteSet(e.members)
  BY FS_EmptySet, FS_Singleton DEF EntryFits
<1>2. IsFiniteSet(IF e.dn = BaseDN THEN {} ELSE {e.parent})
  BY <1>1
<1>3. IsFiniteSet(IF e.class = "groupOfNames" THEN e.members ELSE {})
  BY <1>1
<1>4. IsFiniteSet(Needs(e))
  BY <1>2, <1>3, FS_Union DEF Needs
<1> QED
  BY <1>4, FS_Subset

\* validateExistingEntry first, then what the entry needs and the file does not have.
LEMMA LookupsOfEntry ==
    ASSUME NEW e, EntryFits(e), NEW batch
    PROVE  /\ LookupsOf(e, batch) \in Seq(Range(LookupsOf(e, batch)))
           /\ \A x : x \in Range(LookupsOf(e, batch))
                <=> \/ x = Lookup("entry", e, e.dn)
                    \/ \E d \in Needs(e) \ batch : x = Lookup("needed", e, d)
<1> DEFINE S == Needs(e) \ batch
           L == {Lookup("needed", e, d) : d \in S}
           f == [d \in S |-> Lookup("needed", e, d)]
           first == <<Lookup("entry", e, e.dn)>>
           X == L \cup {Lookup("entry", e, e.dn)}
<1>1. IsFiniteSet(L)
  <2>1. f \in Surjection(S, L)
    <3>1. f \in [S -> L] /\ \A y \in L : \E x \in S : f[x] = y
      OBVIOUS
    <3> HIDE DEF S, L, f
    <3> QED
      BY <3>1 DEF Surjection
  <2>2. IsFiniteSet(S)
    BY NeedsFinite
  <2> HIDE DEF S, L, f
  <2> QED
    BY <2>1, <2>2, FS_Surjection
<1>2. Listing(L) \in Seq(L) /\ Range(Listing(L)) = L
  <2> HIDE DEF L
  <2> QED
    BY <1>1, ListingOfSet
<1>3. LookupsOf(e, batch) = first \o Listing(L)
  BY DEF LookupsOf
<1>4. first \in Seq(X) /\ Range(first) = {Lookup("entry", e, e.dn)} /\ Listing(L) \in Seq(X)
  <2>1. PICK x : x = Lookup("entry", e, e.dn)
    OBVIOUS
  <2>2. Range(<<x>>) = {x}
    BY DEF Range
  <2>3. L \subseteq X
    OBVIOUS
  <2> HIDE DEF L, X
  <2>4. Listing(L) \in Seq(X)
    BY <1>2, <2>3
  <2> QED
    BY <2>1, <2>2, <2>4 DEF X
<1>5. /\ LookupsOf(e, batch) \in Seq(X)
      /\ Range(LookupsOf(e, batch)) = {Lookup("entry", e, e.dn)} \cup L
  <2> HIDE DEF X, first, L
  <2> QED
    BY <1>2, <1>3, <1>4, RangeConcat
<1>6. LookupsOf(e, batch) \in Seq(Range(LookupsOf(e, batch)))
  <2> HIDE DEF X
  <2> QED
    BY <1>5, OfOwnRange
<1> QED
  BY <1>5, <1>6

LEMMA AllLookupsOfFile ==
    ASSUME file \in Files, \A e \in Planned : EntryFits(e)
    PROVE  /\ AllLookups(file) \in Seq(Range(AllLookups(file)))
           /\ \A x : x \in Range(AllLookups(file)) <=>
                \E e \in Planned :
                   \/ x = Lookup("entry", e, e.dn)
                   \/ \E d \in Needs(e) \ Batch(file) : x = Lookup("needed", e, d)
<1> DEFINE n == Len(file)
           ss == [i \in DOMAIN file |-> LookupsOf(EntryOf(file[i]), Batch(file))]
           X == UNION {Range(LookupsOf(EntryOf(file[i]), Batch(file))) : i \in DOMAIN file}
<1>1. /\ n \in Nat /\ DOMAIN file = 1 .. n
      /\ \A i \in DOMAIN file : EntryOf(file[i]) \in Planned
      /\ \A e \in Planned : \E i \in DOMAIN file : e = EntryOf(file[i])
  BY EntriesAreList DEF Planned, Range, EntriesOf
<1>2. ASSUME NEW i \in DOMAIN file PROVE ss[i] \in Seq(X)
  <2>1. ss[i] \in Seq(Range(ss[i]))
    BY <1>1, LookupsOfEntry
  <2>2. Range(ss[i]) \subseteq X
    OBVIOUS
  <2> HIDE DEF ss, X
  <2>3. PICK R : R = Range(ss[i])
    OBVIOUS
  <2> QED
    BY <2>1, <2>2, <2>3
<1>3. ListsOf(n, ss, X)
  <2>1. ss = [i \in 1 .. n |-> ss[i]] /\ Len(ss) = n
    BY <1>1
  <2> HIDE DEF ss, X, n
  <2> QED
    BY <1>1, <1>2, <2>1 DEF ListsOf
<1>4. AllLookups(file) = FlattenSeq(ss)
  BY DEF AllLookups
<1>5. /\ AllLookups(file) \in Seq(X)
      /\ \A x : x \in Range(AllLookups(file)) <=> \E i \in 1 .. n : x \in Range(ss[i])
  <2> HIDE DEF ss, X, n
  <2> QED
    BY <1>3, <1>4, FlattenSeqRange
<1>6. AllLookups(file) \in Seq(Range(AllLookups(file)))
  <2> HIDE DEF X
  <2> QED
    BY <1>5, OfOwnRange
<1> DEFINE Asks(x, e) == \/ x = Lookup("entry", e, e.dn)
                         \/ \E d \in Needs(e) \ Batch(file) : x = Lookup("needed", e, d)
<1>7. \A i \in 1 .. n : \A x : x \in Range(ss[i]) <=> Asks(x, EntryOf(file[i]))
  BY <1>1, LookupsOfEntry
<1> HIDE DEF ss, n, X, Asks
<1>8. \A x : x \in Range(AllLookups(file)) <=> \E e \in Planned : Asks(x, e)
  <2>1. ASSUME NEW x, x \in Range(AllLookups(file)) PROVE \E e \in Planned : Asks(x, e)
    <3>1. PICK i \in 1 .. n : x \in Range(ss[i])
      BY <1>5, <2>1
    <3> QED
      BY <1>1, <1>7, <3>1
  <2>2. ASSUME NEW x, NEW e \in Planned, Asks(x, e) PROVE x \in Range(AllLookups(file))
    <3>1. PICK i \in 1 .. n : e = EntryOf(file[i])
      BY <1>1
    <3> QED
      BY <1>5, <1>7, <2>2, <3>1
  <2> QED
    BY <2>1, <2>2
<1> QED
  BY <1>6, <1>8 DEF Asks

----
(* What the writes leave of what was found *)

\* A DN is seen as it was: there or not, and of what class.
SeenAsBefore(d) ==
    /\ Exists(d)' <=> Exists(d)
    /\ Exists(d) => RowAt(d)'.class = RowAt(d).class

LEMMA SameSeen ==
    ASSUME UNCHANGED entries, NEW d
    PROVE  SeenAsBefore(d)
  BY DEF SeenAsBefore, Exists, RowAt

LEMMA CreateSees ==
    ASSUME TablesInv, NEW e \in Entry, CreateEntryTx(e)
    PROVE  /\ \A d : d # e.dn => SeenAsBefore(d)
           /\ ~Exists(e.dn) /\ Exists(e.dn)' /\ RowAt(e.dn)'.class = e.class
<1>1. PICK row : row = NewRow(e)
  OBVIOUS
<1>2. row.dn = e.dn /\ row.class = e.class /\ entries' = entries \cup {row} /\ ~Exists(e.dn)
  BY <1>1 DEF NewRow, CreateEntryTx, CanCreate
<1>3. \A d : Exists(d) => \E r \in entries : RowAt(d) = r /\ r.dn = d
  BY RowAtExists
<1>4. \A d : Exists(d)' => \E r \in entries' : RowAt(d)' = r /\ r.dn = d
  BY DEF Exists, RowAt
<1>5. \A d : d # e.dn => (Exists(d)' <=> Exists(d))
  BY <1>2 DEF Exists
<1>6. UniqueDN /\ UniqueDN'
  BY CreateKeepsTables DEF TablesInv
<1>7. \A d : Exists(d) => RowAt(d)'.class = RowAt(d).class
  <2> SUFFICES ASSUME NEW d, Exists(d) PROVE RowAt(d)'.class = RowAt(d).class
    OBVIOUS
  <2>1. PICK r \in entries : RowAt(d) = r /\ r.dn = d
    BY <1>3
  <2>2. Exists(d)'
    BY <1>2, <2>1 DEF Exists
  <2>3. PICK q \in entries' : RowAt(d)' = q /\ q.dn = d
    BY <1>4, <2>2
  <2> QED
    BY <1>2, <1>6, <2>1, <2>3 DEF UniqueDN
<1>8. Exists(e.dn)' /\ RowAt(e.dn)'.class = e.class
  <2>1. Exists(e.dn)'
    BY <1>2 DEF Exists
  <2>2. PICK q \in entries' : RowAt(e.dn)' = q /\ q.dn = e.dn
    BY <1>4, <2>1
  <2>3. q = row
    BY <1>2, <1>6, <2>2 DEF UniqueDN
  <2> QED
    BY <1>2, <2>1, <2>2, <2>3
<1> QED
  BY <1>2, <1>5, <1>7, <1>8 DEF SeenAsBefore

LEMMA DeleteSees ==
    ASSUME TablesInv, NEW d, DeleteEntryTx(d)
    PROVE  \A x : x # d => SeenAsBefore(x)
<1>1. entries' = {r \in entries : r.dn # d}
  BY DEF DeleteEntryTx
<1>2. \A x : x # d => (Exists(x)' <=> Exists(x))
  BY <1>1 DEF Exists
<1>3. \A x : Exists(x) => \E r \in entries : RowAt(x) = r /\ r.dn = x
  BY RowAtExists
<1>4. \A x : Exists(x)' => \E r \in entries' : RowAt(x)' = r /\ r.dn = x
  BY DEF Exists, RowAt
<1>5. UniqueDN
  BY DEF TablesInv
<1>6. ASSUME NEW x, x # d, Exists(x) PROVE RowAt(x)'.class = RowAt(x).class
  <2>1. PICK r \in entries : RowAt(x) = r /\ r.dn = x
    BY <1>3, <1>6
  <2>2. PICK q \in entries' : RowAt(x)' = q /\ q.dn = x
    BY <1>2, <1>4, <1>6
  <2> QED
    BY <1>1, <1>5, <2>1, <2>2 DEF UniqueDN
<1> QED
  BY <1>2, <1>6 DEF SeenAsBefore

\* The server writes one DN.
LEMMA ServerSees ==
    ASSUME TablesInv, NEW d \in DNs, ServerWrites(d)
    PROVE  TablesInv' /\ \A x : x # d => SeenAsBefore(x)
<1>1. CASE \E k \in ClassesAt[d] : \E x \in Contents(k) : CreateEntryTx(NewEntry(d, k, x))
  <2>1. PICK k \in ClassesAt[d] : \E x \in Contents(k) : CreateEntryTx(NewEntry(d, k, x))
    BY <1>1
  <2>2. PICK x \in Contents(k) : CreateEntryTx(NewEntry(d, k, x))
    BY <2>1
  <2>3. NewEntry(d, k, x) \in Entry /\ NewEntry(d, k, x).dn = d
    BY NewIsEntry
  <2> QED
    BY <2>2, <2>3, CreateKeepsTables, CreateSees
<1>2. CASE Exists(d) /\ \E e \in Changed(LoadedEntry(d)) : UpdateEntryTx(e)
  <2>1. PICK e \in Changed(LoadedEntry(d)) : UpdateEntryTx(e)
    BY <1>2
  <2>2. LoadedEntry(d) \in Entry
    BY <1>2, LoadedIsEntry DEF TablesInv
  <2>3. e \in Entry
    BY <2>2, ChangedIsEntry
  <2>4. UNCHANGED entries
    BY <2>1 DEF UpdateEntryTx
  <2> QED
    BY <2>1, <2>3, <2>4, UpdateKeepsTables, SameSeen
<1>3. CASE DeleteEntryTx(d)
  BY <1>3, DeleteKeepsTables, DeleteSees
<1> QED
  BY <1>1, <1>2, <1>3 DEF ServerWrites

----
(* What was found, and what is left of the plan *)

Keeps ==
    /\ file' = file /\ options' = options /\ resumes' = resumes /\ raced \subseteq raced'
    /\ \A d : d \notin raced' => (Exists(d) => Exists(d)')
    /\ \A e \in Planned : e.dn \notin raced' /\ ClassKept(e) => ClassKept(e)'

LEMMA SamePlanned ==
    ASSUME file' = file
    PROVE  /\ Planned' = Planned /\ Batch(file)' = Batch(file)
           /\ EntriesOf(file)' = EntriesOf(file) /\ Ordered(EntriesOf(file))' = Ordered(EntriesOf(file))
  BY DEF Planned

LEMMA SeenKeeps ==
    ASSUME file' = file, options' = options, resumes' = resumes, raced \subseteq raced',
           \A d : d \notin raced' => SeenAsBefore(d)
    PROVE  Keeps
  BY DEF Keeps, SeenAsBefore, ClassKept

LEMMA FileStandsKept ==
    ASSUME FileStands, Keeps
    PROVE  FileStands'
<1>1. Planned' = Planned /\ Batch(file)' = Batch(file)
  BY SamePlanned DEF Keeps
<1>2. ASSUME NEW e \in Planned PROVE Untouched(e.dn, ClassKept(e))'
  BY DEF FileStands, Keeps, Untouched
<1>3. ASSUME NEW e \in Planned, NEW d \in Needs(e) \ Batch(file) PROVE Untouched(d, Exists(d))'
  BY DEF FileStands, Keeps, Untouched
<1> QED
  BY <1>1, <1>2, <1>3 DEF FileStands

LEMMA ResumedKept ==
    ASSUME ResumedFits, Keeps
    PROVE  ResumedFits'
<1> SUFFICES ASSUME resumes', raced' = {}
             PROVE  /\ FileFits(file', [options' EXCEPT !.generate = TRUE])
                    /\ Ordered(EntriesOf(file))'
                    /\ \A e \in Planned' : /\ ClassKept(e)'
                                           /\ \A d \in Needs(e) \ Batch(file)' : Exists(d)'
  BY DEF ResumedFits
<1>1. resumes /\ raced = {}
  BY DEF Keeps
<1>2. Planned' = Planned /\ Batch(file)' = Batch(file) /\ file' = file /\ options' = options
      /\ Ordered(EntriesOf(file))' = Ordered(EntriesOf(file))
  BY SamePlanned DEF Keeps
<1>3. \A e \in Planned : ClassKept(e) /\ \A d \in Needs(e) \ Batch(file) : Exists(d)
  BY <1>1 DEF ResumedFits
<1>4. \A e \in Planned : ClassKept(e)' /\ \A d \in Needs(e) \ Batch(file) : Exists(d)'
  BY <1>3 DEF Keeps
<1> QED
  BY <1>1, <1>2, <1>4 DEF ResumedFits

\* A step of the run that writes nothing, or a write of the server.
Quiet ==
    /\ Keeps /\ plan' = plan /\ written' = written
    /\ \A d : d \notin raced' => (Exists(d)' => Exists(d))

LEMMA SeenQuiet ==
    ASSUME file' = file, options' = options, resumes' = resumes, raced \subseteq raced',
           plan' = plan, written' = written,
           \A d : d \notin raced' => SeenAsBefore(d)
    PROVE  Quiet
  BY SeenKeeps DEF Quiet, SeenAsBefore

InPlan == Working \/ phase = "failed"

LEMMA PlanKept ==
    ASSUME PlanOrdered, PlanStands, Quiet, InPlan' => InPlan
    PROVE  PlanOrdered' /\ PlanStands'
<1> SUFFICES ASSUME InPlan, InPlan' PROVE PlanOrdered' /\ PlanStands'
  BY DEF PlanOrdered, PlanStands, InPlan
<1>1. /\ Planned' = Planned /\ Batch(file)' = Batch(file)
      /\ Ordered(EntriesOf(file))' = Ordered(EntriesOf(file))
      /\ raced \subseteq raced' /\ plan' = plan /\ written' = written /\ options' = options
  BY SamePlanned DEF Keeps, Quiet
<1>2. PlanOrdered'
  <2>1. \A i \in DOMAIN plan' : \A d \in Needs(plan[i]) :
            Untouched(d, Exists(d))' \/ \E j \in 1 .. i - 1 : plan[j].dn = d
    BY <1>1 DEF PlanOrdered, InPlan, Quiet, Keeps, Untouched
  <2> QED
    BY <1>1, <2>1 DEF PlanOrdered, InPlan
<1>3. PlanStands'
  <2>1. \A i \in DOMAIN plan :
            plan[i].dn \notin raced' => (Exists(plan[i].dn)' => options.replace)
    BY <1>1 DEF PlanStands, InPlan, Quiet, Untouched
  <2>2. FileStands'
    BY FileStandsKept DEF PlanStands, InPlan, Quiet
  <2> QED
    BY <1>1, <2>1, <2>2 DEF PlanStands, Untouched
<1> QED
  BY <1>2, <1>3

\* A write of the run: its entry is there, and the rest of the plan stays as it was.
LEMMA PlanShortened ==
    ASSUME PlanOrdered, PlanStands, Working, Keeps, Wrote,
           NEW head, head = Head(plan), Exists(head.dn)',
           \A d : d # head.dn => (Exists(d)' <=> Exists(d))
    PROVE  /\ PlanOrdered' /\ PlanStands'
           /\ phase' = "done" => written' = Planned
           /\ written' \subseteq Planned
<1>1. /\ Planned' = Planned /\ Batch(file)' = Batch(file)
      /\ Ordered(EntriesOf(file))' = Ordered(EntriesOf(file))
      /\ raced \subseteq raced' /\ options' = options
  BY SamePlanned DEF Keeps
<1>2. /\ Ordered(EntriesOf(file)) /\ plan \in Seq(Planned) /\ plan # << >>
      /\ Planned = written \cup Range(plan)
      /\ \A i, j \in DOMAIN plan : plan[i].dn = plan[j].dn => i = j
      /\ \A e \in written : \A i \in DOMAIN plan : e.dn # plan[i].dn
      /\ \A i \in DOMAIN plan : \A d \in Needs(plan[i]) :
            Untouched(d, Exists(d)) \/ \E j \in 1 .. i - 1 : plan[j].dn = d
  BY DEF PlanOrdered
<1>4. PICK rest : rest = Tail(plan)
  OBVIOUS
<1>5. /\ Len(plan) \in Nat \ {0} /\ DOMAIN plan = 1 .. Len(plan)
      /\ rest \in Seq(Planned) /\ head \in Planned /\ head = plan[1]
      /\ DOMAIN rest = 1 .. Len(plan) - 1 /\ Len(rest) = Len(plan) - 1
      /\ \A i \in 1 .. Len(plan) - 1 : rest[i] = plan[i + 1]
      /\ Range(plan) = {head} \cup Range(rest)
  BY <1>2, <1>4, RangeHeadTail
<1>6. written' = written \cup {head} /\ written' \subseteq Planned
  BY <1>2, <1>5 DEF Wrote
<1>7. CASE Len(plan) = 1
  <2>1. phase' = "done" /\ Range(rest) = {}
    BY <1>5, <1>7 DEF Wrote, Stop, Continue, Range
  <2> QED
    BY <1>2, <1>5, <1>6, <2>1 DEF PlanOrdered, PlanStands, Working
<1>8. CASE Len(plan) # 1
  <2>1. plan' = rest /\ phase' \in {"deciding", "creating"}
    BY <1>4, <1>8 DEF Wrote, Continue, FirstMove
  <2>2. rest # << >>
    BY <1>5, <1>8
  <2>3. \A i \in DOMAIN rest : i + 1 \in DOMAIN plan /\ rest[i] = plan[i + 1]
    BY <1>5
  <2>4. \A i, j \in DOMAIN rest : rest[i].dn = rest[j].dn => i = j
    <3> SUFFICES ASSUME NEW i \in DOMAIN rest, NEW j \in DOMAIN rest, rest[i].dn = rest[j].dn
                 PROVE  i = j
      OBVIOUS
    <3>1. i + 1 = j + 1
      BY <1>2, <2>3
    <3> QED
      BY <1>5, <3>1
  <2>5. \A i \in DOMAIN rest : rest[i].dn # head.dn
    <3> SUFFICES ASSUME NEW i \in DOMAIN rest, rest[i].dn = head.dn PROVE FALSE
      OBVIOUS
    <3>1. 1 \in DOMAIN plan /\ i + 1 \in DOMAIN plan /\ plan[i + 1].dn = plan[1].dn
      BY <1>5, <2>3
    <3>2. i + 1 = 1
      BY <1>2, <3>1
    <3> QED
      BY <1>5, <3>2
  <2>6. \A e \in written' : \A i \in DOMAIN rest : e.dn # rest[i].dn
    BY <1>2, <1>6, <2>3, <2>5
  <2>7. ASSUME NEW i \in DOMAIN rest, NEW d \in Needs(rest[i])
        PROVE  Untouched(d, Exists(d))' \/ \E j \in 1 .. i - 1 : rest[j].dn = d
    <3>1. Untouched(d, Exists(d)) \/ \E j \in 1 .. i : plan[j].dn = d
      <4>1. (i + 1) - 1 = i /\ d \in Needs(plan[i + 1]) /\ i + 1 \in DOMAIN plan
        BY <1>5, <2>3
      <4> QED
        BY <1>2, <4>1
    <3>2. CASE Untouched(d, Exists(d))
      BY <3>2 DEF Untouched, Keeps
    <3>3. CASE \E j \in 1 .. i : plan[j].dn = d
      <4>1. PICK j \in 1 .. i : plan[j].dn = d
        BY <3>3
      <4>2. CASE j = 1
        BY <1>5, <4>1, <4>2 DEF Untouched
      <4>3. CASE j # 1
        <5>1. j - 1 \in 1 .. i - 1 /\ rest[j - 1] = plan[j]
          BY <1>5, <4>3
        <5> QED
          BY <4>1, <5>1
      <4> QED
        BY <4>2, <4>3
    <3> QED
      BY <3>1, <3>2, <3>3
  <2>8. PlanOrdered'
    <3>1. Planned = written' \cup Range(rest)
      BY <1>2, <1>5, <1>6
    <3> QED
      BY <1>1, <1>2, <1>5, <2>1, <2>2, <2>4, <2>6, <2>7, <3>1 DEF PlanOrdered
  <2>9. PlanStands'
    <3>1. ASSUME NEW i \in DOMAIN rest
          PROVE  rest[i].dn \notin raced' => (Exists(rest[i].dn)' => options.replace)
      BY <1>1, <2>3, <2>5 DEF PlanStands, Untouched
    <3>2. FileStands'
      BY FileStandsKept DEF PlanStands
    <3> QED
      BY <1>1, <2>1, <3>1, <3>2 DEF PlanStands, Untouched
  <2> QED
    BY <1>6, <2>1, <2>8, <2>9
<1> QED
  BY <1>7, <1>8

----
(* The directory and what is written over it *)

\* No two of the entries have one DN.
Distinct == \A e, g \in written : e.dn = g.dn => e = g

AsWritten(e, u) ==
    [class |-> e.class, attrs |-> e.attrs, members |-> e.members, password |-> e.password,
     uuid |-> u]

ByEntry ==
    /\ DOMAIN LiveEntries = DOMAIN before \cup {e.dn : e \in written}
    /\ \A e \in written :
          LiveEntries[e.dn] = AsWritten(e, IF e.dn \in DOMAIN before THEN before[e.dn].uuid
                                           ELSE LiveEntries[e.dn].uuid)
    /\ \A d \in DOMAIN before : (\A e \in written : e.dn # d) => LiveEntries[d] = before[d]

LEMMA OverlayByEntry == TablesInv /\ Distinct => (IsOverlay <=> ByEntry)
<1> SUFFICES ASSUME TablesInv, Distinct,
                    DOMAIN LiveEntries = DOMAIN before \cup {e.dn : e \in written}
             PROVE  LiveEntries = Overlaid(before, written) <=> ByEntry
  BY DEF IsOverlay, ByEntry
<1> DEFINE D == DOMAIN before \cup {e.dn : e \in written}
           New(e) == AsWritten(e, IF e.dn \in DOMAIN before THEN before[e.dn].uuid
                                  ELSE LiveEntries[e.dn].uuid)
<1>1. LiveEntries = [d \in D |-> LiveEntries[d]]
  BY LiveEntriesShape DEF LiveShape
<1>2. /\ Overlaid(before, written) = [d \in D |-> Overlaid(before, written)[d]]
      /\ \A d \in DOMAIN before :
            (\A e \in written : e.dn # d) => Overlaid(before, written)[d] = before[d]
  BY DEF Overlaid
<1>3. ASSUME NEW e \in written PROVE Overlaid(before, written)[e.dn] = New(e)
  <2>1. e = CHOOSE x \in written : x.dn = e.dn
    BY DEF Distinct
  <2>2. e.dn \in D
    OBVIOUS
  <2> QED
    BY <2>1, <2>2 DEF Overlaid, AsWritten
<1>4. PICK over : over = Overlaid(before, written)
  OBVIOUS
<1> HIDE DEF D, New
<1>5. LiveEntries = over <=> \A d \in D : LiveEntries[d] = over[d]
  BY <1>1, <1>2, <1>4
<1>6. (\A d \in D : LiveEntries[d] = over[d])
         <=> /\ \A e \in written : LiveEntries[e.dn] = New(e)
             /\ \A d \in DOMAIN before : (\A e \in written : e.dn # d) => LiveEntries[d] = before[d]
  BY <1>2, <1>3, <1>4 DEF D
<1> QED
  BY <1>4, <1>5, <1>6 DEF ByEntry, New

LEMMA OverlayByEntryNext == TablesInv' /\ Distinct' => (IsOverlay' <=> ByEntry')
  BY OverlayByEntry, PTL

\* An entry that was not there: neither the directory nor what is written has its DN.
LEMMA CreateOverlays ==
    ASSUME TablesInv, Distinct, IsOverlay, NEW e, EntryFits(e), CreateEntryTx(e),
           before' = before, written' = written \cup {e}, \A g \in written : g.dn # e.dn
    PROVE  IsOverlay'
<1>1. e \in Entry /\ (e.class # "inetOrgPerson" => e.password = NoPassword)
  BY DEF EntryFits
<1>2. TablesInv' /\ Distinct'
  BY <1>1, CreateKeepsTables DEF Distinct
<1>3. ByEntry
  BY OverlayByEntry
<1>4. /\ LiveEntries' = [d \in DOMAIN LiveEntries \cup {e.dn} |->
                           IF d = e.dn THEN LiveEntries'[e.dn] ELSE LiveEntries[d]]
      /\ LiveEntries'[e.dn] =
            [class |-> e.class, attrs |-> e.attrs, members |-> e.members,
             password |-> IF e.class = "inetOrgPerson" THEN e.password ELSE NoPassword,
             uuid |-> nextUuid]
  BY <1>1, CreateLive
<1>5. e.dn \notin DOMAIN LiveEntries
  BY CreateSees, <1>1, LiveEntriesShape DEF LiveShape, Exists
<1>6. LiveEntries'[e.dn] = AsWritten(e, LiveEntries'[e.dn].uuid)
  BY <1>1, <1>4 DEF AsWritten
<1>7. /\ DOMAIN LiveEntries' = DOMAIN LiveEntries \cup {e.dn}
      /\ \A d \in DOMAIN LiveEntries : LiveEntries'[d] = LiveEntries[d]
  BY <1>4, <1>5
<1>8. ByEntry'
  BY <1>3, <1>5, <1>6, <1>7 DEF ByEntry
<1> QED
  BY <1>2, <1>8, OverlayByEntryNext

\* UpdateEntry sets the password of a user when the copy carries one.
LEMMA UpdateSetsPassword ==
    ASSUME TablesInv, NEW e, EntryFits(e), UpdateEntryTx(e), RowAt(e.dn).class = e.class
    PROVE  LiveEntries'[e.dn].password = e.password
<1>1. PICK row \in entries : row = RowAt(e.dn) /\ row.dn = e.dn /\ IdOf(e.dn) = row.id
  BY RowAtExists DEF UpdateEntryTx, CanUpdate, IdOf
<1>2. e \in Entry /\ (e.class = "inetOrgPerson" <=> e.password # NoPassword)
  BY DEF EntryFits
<1>3. entries' = entries /\ users' = UpdatePassword(row.id, e)
  BY <1>1 DEF UpdateEntryTx
<1>4. LiveShape'
  BY <1>2, LiveEntriesShapeNext, UpdateKeepsTables
<1>5. /\ \A x \in users' : x[1] = row.id => LiveEntries'[row.dn].password = x[2]
      /\ row.class # "inetOrgPerson" => LiveEntries'[row.dn].password = NoPassword
  BY <1>3, <1>4 DEF LiveShape, ShownAs
<1>6. CASE e.class # "inetOrgPerson"
  BY <1>1, <1>2, <1>5, <1>6
<1>7. CASE e.class = "inetOrgPerson"
  <2>1. PICK x \in users : x[1] = row.id
    BY <1>1, <1>7 DEF TablesInv, ClassRows
  <2> DEFINE new == <<row.id, e.password>>
  <2>2. new \in users' /\ new[1] = row.id /\ new[2] = e.password
    BY <1>2, <1>3, <1>7, <2>1 DEF UpdatePassword
  <2> HIDE DEF new
  <2> QED
    BY <1>1, <1>5, <2>2
<1> QED
  BY <1>6, <1>7

LEMMA UpdateOverlays ==
    ASSUME TablesInv, Distinct, IsOverlay, NEW e, EntryFits(e), UpdateEntryTx(e),
           RowAt(e.dn).class = e.class,
           before' = before, written' = written \cup {e}, \A g \in written : g.dn # e.dn
    PROVE  IsOverlay'
<1>1. e \in Entry
  BY DEF EntryFits
<1>2. TablesInv' /\ Distinct'
  BY <1>1, UpdateKeepsTables DEF Distinct
<1>3. ByEntry
  BY OverlayByEntry
<1>4. PICK p : LiveEntries' = [LiveEntries EXCEPT ![e.dn] =
                                 [class |-> RowAt(e.dn).class, attrs |-> e.attrs,
                                  members |-> e.members, password |-> p,
                                  uuid |-> LiveEntries[e.dn].uuid]]
  BY <1>1, UpdateLive
<1>5. e.dn \in DOMAIN LiveEntries
  BY LiveEntriesShape DEF LiveShape, Exists, UpdateEntryTx, CanUpdate
<1>6. LiveEntries'[e.dn] = AsWritten(e, LiveEntries[e.dn].uuid)
  <2>1. LiveEntries'[e.dn] = [class |-> e.class, attrs |-> e.attrs, members |-> e.members,
                             password |-> p, uuid |-> LiveEntries[e.dn].uuid]
    BY <1>4, <1>5
  <2>2. p = e.password
    BY <2>1, UpdateSetsPassword
  <2> QED
    BY <2>1, <2>2 DEF AsWritten
<1>7. /\ DOMAIN LiveEntries' = DOMAIN LiveEntries
      /\ \A d \in DOMAIN LiveEntries : d # e.dn => LiveEntries'[d] = LiveEntries[d]
  BY <1>4
<1>8. e.dn \in DOMAIN before /\ LiveEntries[e.dn] = before[e.dn]
  BY <1>3, <1>5 DEF ByEntry
<1>9. ByEntry'
  BY <1>3, <1>6, <1>7, <1>8 DEF ByEntry
<1> QED
  BY <1>2, <1>9, OverlayByEntryNext

\* Nothing is written over the directory at the start of a run.
LEMMA OverlayOfNothing == TablesInv /\ before = LiveEntries /\ written = {} => IsOverlay
<1> SUFFICES ASSUME TablesInv, before = LiveEntries, written = {} PROVE IsOverlay
  OBVIOUS
<1>1. Distinct /\ ByEntry
  BY DEF Distinct, ByEntry
<1> QED
  BY <1>1, OverlayByEntry

LEMMA OverlayOfNothingNext == TablesInv' /\ before' = LiveEntries' /\ written' = {} => IsOverlay'
<1>1. (before = LiveEntries)' <=> before' = LiveEntries'
  OBVIOUS
<1>2. (written = {})' <=> written' = {}
  OBVIOUS
<1>3. (TablesInv /\ before = LiveEntries /\ written = {})' => IsOverlay'
  BY OverlayOfNothing, PTL
<1> QED
  BY <1>3

\* A step that writes nothing leaves it.
LEMMA SameOverlay ==
    ASSUME TablesInv, UNCHANGED tables, before' = before, written' = written
    PROVE  IsOverlay' <=> IsOverlay
  BY SameLive DEF IsOverlay, Overlaid

----
(* Every step keeps the invariant *)

\* In a run that got as far as the store, the entries of the file fit.
LEMMA FitsInRun ==
    ASSUME AsPlanned, phase \notin {"none", "refused"}
    PROVE  /\ FileFits(file, options)
           /\ \A e \in Planned : EntryFits(e)
           /\ \A e, g \in Planned : e.dn = g.dn => e = g
  BY PlannedFits DEF AsPlanned

\* A run begins: everything is still to be looked up, and nothing is written.
LEMMA StartStep ==
    ASSUME ImportInv, NEW o \in Options, Start(o)
    PROVE  ImportInv'
<1>1. /\ UNCHANGED tables /\ file' = file /\ options' = o /\ written' = {} /\ raced' = {}
      /\ broken' = FALSE /\ before' = LiveEntries /\ resumes' = Resumable
      /\ phase' \in {"checking", "refused"}
      /\ phase' = "checking" => FileFits(file, o) /\ lookups' = AllLookups(file)
      /\ phase' = "refused" => ~FileFits(file, o)
  BY DEF Start
<1>2. TablesInv' /\ LiveEntries' = LiveEntries
  BY <1>1, SameTablesInv, SameLive DEF ImportInv
<1>3. /\ Planned' = Planned /\ Batch(file)' = Batch(file)
      /\ Ordered(EntriesOf(file))' = Ordered(EntriesOf(file))
  BY <1>1, SamePlanned
<1>4. AsPlanned'
  <2>1. resumes' \in BOOLEAN
    BY <1>1 DEF Resumable
  <2>2. phase' \notin {"none", "refused"} => FileFits(file', options')
    BY <1>1
  <2>3. /\ file' \in Files /\ options' \in Options
        /\ phase' \in Ended \cup {"checking", "deciding", "creating", "updating"}
        /\ raced' \subseteq DNs /\ broken' \in BOOLEAN
    BY <1>1 DEF ImportInv, AsPlanned, Ended
  <2> QED
    BY <2>1, <2>2, <2>3 DEF AsPlanned
<1>5. CheckedSoFar'
  <2> SUFFICES ASSUME phase' = "checking" PROVE CheckedSoFar'
    BY DEF CheckedSoFar
  <2>1. \A e \in Planned : EntryFits(e)
    BY <1>1, PlannedFits DEF ImportInv, AsPlanned
  <2>2. /\ lookups' \in Seq(Range(lookups'))
        /\ \A x : x \in Range(lookups') <=>
             \E e \in Planned :
                \/ x = Lookup("entry", e, e.dn)
                \/ \E d \in Needs(e) \ Batch(file) : x = Lookup("needed", e, d)
    BY <1>1, <2>1, AllLookupsOfFile DEF ImportInv, AsPlanned
  <2>3. ASSUME NEW l \in Range(lookups')
        PROVE  /\ l.what \in {"entry", "class", "needed"}
               /\ l = Lookup(l.what, l.entry, l.dn)
               /\ l.entry \in Planned
               /\ IF l.what = "needed" THEN l.dn \in Needs(l.entry) \ Batch(file)
                  ELSE l.dn = l.entry.dn
    BY <2>2 DEF Lookup
  <2>4. \A e \in Planned : Pending("entry", e, e.dn)'
    BY <2>2 DEF Pending
  <2>5. \A e \in Planned : \A d \in Needs(e) \ Batch(file) : Pending("needed", e, d)'
    BY <2>2 DEF Pending
  <2> QED
    BY <1>1, <1>3, <2>2, <2>3, <2>4, <2>5 DEF CheckedSoFar
<1>6. PlanOrdered' /\ PlanStands' /\ MoveStands'
  BY <1>1 DEF PlanOrdered, PlanStands, MoveStands, Working
<1>7. IsOverlay' /\ Overlay'
  <2>1. IsOverlay'
    BY <1>1, <1>2, OverlayOfNothingNext
  <2> QED
    BY <1>1, <2>1 DEF Overlay
<1>8. resumes' => /\ \A p : p.generate => FileFits(file, p)
                  /\ Ordered(EntriesOf(file))
                  /\ \A e \in Planned : ClassKept(e) /\ \A d \in Needs(e) \ Batch(file) : Exists(d)
  <2> SUFFICES ASSUME resumes'
               PROVE  /\ \A p : p.generate => FileFits(file, p)
                      /\ Ordered(EntriesOf(file))
                      /\ \A e \in Planned : ClassKept(e) /\ \A d \in Needs(e) \ Batch(file) : Exists(d)
    OBVIOUS
  <2>1. phase = "failed" /\ raced = {}
    BY <1>1 DEF Resumable
  <2>2. FileFits(file, options)
    BY <2>1 DEF ImportInv, AsPlanned
  <2>3. \A p : p.generate => FileFits(file, p)
    BY <2>2, FitsGenerating
  <2> QED
    BY <2>1, <2>3 DEF ImportInv, PlanOrdered, PlanStands, FileStands, Untouched
<1>9. ResumedFits'
  <2>1. [o EXCEPT !.generate = TRUE].generate
    BY DEF Options
  <2>2. \A d : SeenAsBefore(d)
    BY <1>1, SameSeen DEF tables
  <2>3. \A e \in Planned : (ClassKept(e) => ClassKept(e)') /\ \A d : Exists(d) => Exists(d)'
    BY <2>2 DEF SeenAsBefore, ClassKept
  <2> QED
    BY <1>1, <1>3, <1>8, <2>1, <2>3 DEF ResumedFits
<1>10. PlanHonoured'
  BY <1>1 DEF PlanHonoured
<1>11. RerunCompletes'
  BY <1>1, <1>8 DEF RerunCompletes
<1> QED
  BY <1>2, <1>4, <1>5, <1>6, <1>7, <1>9, <1>10, <1>11 DEF ImportInv

\* The parts no step of a run touches while it writes nothing.
LEMMA QuietParts ==
    ASSUME ImportInv, UNCHANGED tables, file' = file, options' = options, resumes' = resumes,
           raced' = raced, before' = before, written' = written
    PROVE  /\ TablesInv' /\ ResumedFits' /\ (IsOverlay' <=> IsOverlay) /\ FileFits(file, options)' = FileFits(file, options)
           /\ Keeps /\ \A d : SeenAsBefore(d)
<1>1. TablesInv' /\ (IsOverlay' <=> IsOverlay)
  BY SameTablesInv, SameOverlay DEF ImportInv
<1>2. \A d : SeenAsBefore(d)
  BY SameSeen DEF tables
<1>3. Keeps
  BY <1>2, SeenKeeps
<1>4. ResumedFits'
  BY <1>3, ResumedKept DEF ImportInv
<1> QED
  BY <1>1, <1>2, <1>3, <1>4

\* The lookups that follow: what this one asks next, and the others.
LEMMA NextLookups ==
    ASSUME NEW R, NEW s \in Seq(R), s # << >>, NEW a, NEW more, more = <<a>> \/ more = << >>
    PROVE  /\ more \o Tail(s) \in Seq(Range(more \o Tail(s)))
           /\ Range(more \o Tail(s)) = Range(more) \cup Range(Tail(s))
           /\ Range(s) = {Head(s)} \cup Range(Tail(s))
<1>1. PICK X : X = R \cup {a}
  OBVIOUS
<1>2. PICK rest : rest = Tail(s)
  OBVIOUS
<1>3. rest \in Seq(R) /\ Range(s) = {Head(s)} \cup Range(rest) /\ Range(s) \subseteq R
  BY <1>2, RangeHeadTail, OfOwnRange
<1>4. more \in Seq(X) /\ rest \in Seq(X)
  <2>1. R \subseteq X /\ a \in X
    BY <1>1
  <2>2. rest \in Seq(X)
    BY <1>3, <2>1
  <2>3. CASE more = <<a>>
    BY <2>1, <2>2, <2>3
  <2>4. CASE more = << >>
    BY <2>2, <2>4
  <2> QED
    BY <2>3, <2>4
<1>5. more \o rest \in Seq(X) /\ Range(more \o rest) = Range(more) \cup Range(rest)
  BY <1>4, RangeConcat
<1>6. more \o rest \in Seq(Range(more \o rest))
  BY <1>5, OfOwnRange
<1> QED
  BY <1>2, <1>3, <1>5, <1>6

\* The class of an entry that is there is asked for next.
AsksNext(l, more) ==
    more = IF l.what = "entry" /\ Exists(l.dn) THEN <<Lookup("class", l.entry, l.dn)>> ELSE << >>

\* A lookup that finds what it should: what it tells is known, or asked next.
LEMMA FoundStep ==
    ASSUME CheckedSoFar, phase = "checking", lookups # << >>,
           UNCHANGED <<tables, file, options, raced, written>>, phase' = "checking",
           NEW l, l = Head(lookups), Found(l),
           NEW more, AsksNext(l, more),
           lookups' = more \o Tail(lookups)
    PROVE  CheckedSoFar'
<1> DEFINE asked == Lookup("class", l.entry, l.dn)
<1>1. PICK R : R = Range(lookups)
  OBVIOUS
<1>2. PICK rest : rest = Tail(lookups)
  OBVIOUS
<1>3. lookups \in Seq(R)
  BY <1>1 DEF CheckedSoFar
<1>4. more = <<asked>> \/ more = << >>
  BY DEF asked, AsksNext
<1>5. /\ lookups' \in Seq(Range(lookups')) /\ Range(lookups') = Range(more) \cup Range(rest)
      /\ R = {l} \cup Range(rest)
  <2>0. PICK a : more = <<a>> \/ more = << >>
    BY <1>4
  <2> HIDE DEF asked
  <2>1. /\ more \o Tail(lookups) \in Seq(Range(more \o Tail(lookups)))
        /\ Range(more \o Tail(lookups)) = Range(more) \cup Range(Tail(lookups))
        /\ Range(lookups) = {Head(lookups)} \cup Range(Tail(lookups))
    BY <1>3, <2>0, NextLookups
  <2> QED
    BY <1>1, <1>2, <2>1
<1>6. Range(more) = IF l.what = "entry" /\ Exists(l.dn) THEN {asked} ELSE {}
  BY DEF Range, AsksNext
<1>9. /\ Planned' = Planned /\ Batch(file)' = Batch(file)
      /\ options' = options /\ raced' = raced /\ written' = {}
  BY SamePlanned DEF CheckedSoFar
<1>10. \A d : (Exists(d)' <=> Exists(d)) /\ \A e : ClassKept(e)' <=> ClassKept(e)
  <2>1. entries' = entries
    BY DEF tables
  <2> QED
    BY <2>1 DEF Exists, ClassKept, RowAt
<1>11. \A x \in Range(lookups') : x \in R \/ (x = asked /\ l.what = "entry")
  BY <1>5, <1>6
<1>12. \A x \in R : x = l \/ x \in Range(lookups')
  BY <1>5
<1>13. ASSUME NEW x \in R
       PROVE  /\ x.what \in {"entry", "class", "needed"}
              /\ x = Lookup(x.what, x.entry, x.dn)
              /\ x.entry \in Planned
              /\ IF x.what = "needed" THEN x.dn \in Needs(x.entry) \ Batch(file)
                 ELSE x.dn = x.entry.dn
  BY <1>1 DEF CheckedSoFar
<1>14. l \in R
  BY <1>5
<1>15. ASSUME NEW x \in Range(lookups')
       PROVE  /\ x.what \in {"entry", "class", "needed"}
              /\ x = Lookup(x.what, x.entry, x.dn)
              /\ x.entry \in Planned
              /\ IF x.what = "needed" THEN x.dn \in Needs(x.entry) \ Batch(file)
                 ELSE x.dn = x.entry.dn
  <2>1. CASE x \in R
    BY <1>13, <2>1
  <2>2. CASE x = asked /\ l.what = "entry"
    <3>1. l.entry \in Planned /\ l.dn = l.entry.dn
      BY <1>13, <1>14, <2>2
    <3>2. x.what = "class" /\ x.entry = l.entry /\ x.dn = l.dn
      BY <2>2 DEF Lookup
    <3> QED
      BY <2>2, <3>1, <3>2
  <2> QED
    BY <1>11, <2>1, <2>2
<1>16. ASSUME NEW e \in Planned
       PROVE  \/ Pending("entry", e, e.dn)'
              \/ /\ Untouched(e.dn, Exists(e.dn) => options.replace)'
                 /\ Pending("class", e, e.dn)' \/ Untouched(e.dn, ClassKept(e))'
  <2>1. \/ Pending("entry", e, e.dn)
        \/ /\ Untouched(e.dn, Exists(e.dn) => options.replace)
           /\ Pending("class", e, e.dn) \/ Untouched(e.dn, ClassKept(e))
    BY DEF CheckedSoFar
  <2>2. CASE Pending("entry", e, e.dn) /\ Lookup("entry", e, e.dn) # l
    BY <1>1, <1>12, <2>2 DEF Pending
  <2>3. CASE Lookup("entry", e, e.dn) = l
    <3>1. l.what = "entry" /\ l.entry = e /\ l.dn = e.dn
      BY <2>3 DEF Lookup
    <3>2. Exists(e.dn) => options.replace
      BY <3>1 DEF Found
    <3>3. CASE Exists(e.dn)
      <4>1. asked \in Range(lookups')
        BY <1>5, <1>6, <3>1, <3>3
      <4>2. asked = Lookup("class", e, e.dn)
        BY <3>1
      <4> HIDE DEF asked
      <4>3. Pending("class", e, e.dn)'
        BY <4>1, <4>2 DEF Pending
      <4> QED
        BY <1>9, <1>10, <3>2, <4>3 DEF Untouched
    <3>4. CASE ~Exists(e.dn)
      BY <1>9, <1>10, <3>2, <3>4 DEF Untouched, ClassKept
    <3> QED
      BY <3>3, <3>4
  <2>4. CASE /\ Untouched(e.dn, Exists(e.dn) => options.replace)
             /\ Pending("class", e, e.dn) \/ Untouched(e.dn, ClassKept(e))
    <3>1. Untouched(e.dn, Exists(e.dn) => options.replace)'
      BY <1>9, <1>10, <2>4 DEF Untouched
    <3>2. CASE Untouched(e.dn, ClassKept(e))
      BY <1>9, <1>10, <3>1, <3>2 DEF Untouched
    <3>3. CASE Pending("class", e, e.dn) /\ Lookup("class", e, e.dn) # l
      BY <1>1, <1>12, <3>1, <3>3 DEF Pending
    <3>4. CASE Lookup("class", e, e.dn) = l
      <4>1. l.what = "class" /\ l.entry = e /\ l.dn = e.dn
        BY <3>4 DEF Lookup
      <4>2. ClassKept(e)
        BY <4>1 DEF Found, ClassKept
      <4> QED
        BY <1>9, <1>10, <3>1, <4>2 DEF Untouched
    <3> QED
      BY <2>4, <3>2, <3>3, <3>4
  <2> QED
    BY <2>1, <2>2, <2>3, <2>4
<1>17. ASSUME NEW e \in Planned, NEW d \in Needs(e) \ Batch(file)
       PROVE  Pending("needed", e, d)' \/ Untouched(d, Exists(d))'
  <2>1. Pending("needed", e, d) \/ Untouched(d, Exists(d))
    BY DEF CheckedSoFar
  <2>2. CASE Untouched(d, Exists(d))
    BY <1>9, <1>10, <2>2 DEF Untouched
  <2>3. CASE Pending("needed", e, d) /\ Lookup("needed", e, d) # l
    BY <1>1, <1>12, <2>3 DEF Pending
  <2>4. CASE Lookup("needed", e, d) = l
    <3>1. l.what = "needed" /\ l.dn = d
      BY <2>4 DEF Lookup
    <3>2. Exists(d)
      BY <3>1 DEF Found
    <3> QED
      BY <1>10, <3>2 DEF Untouched
  <2> QED
    BY <2>1, <2>2, <2>3, <2>4
<1> QED
  BY <1>5, <1>9, <1>15, <1>16, <1>17 DEF CheckedSoFar

LEMMA CheckStep ==
    ASSUME ImportInv, Check
    PROVE  ImportInv'
<1>1. PICK l : l = Head(lookups)
  OBVIOUS
<1>2. PICK more : more = IF l.what = "entry" /\ Exists(l.dn)
                         THEN <<Lookup("class", l.entry, l.dn)>> ELSE << >>
  OBVIOUS
<1>3. /\ phase = "checking" /\ lookups # << >>
      /\ UNCHANGED <<tables, written, broken, options, file, before, raced, resumes>>
      /\ IF Found(l) THEN phase' = "checking" /\ lookups' = more \o Tail(lookups)
         ELSE phase' = "refused"
  BY <1>1, <1>2 DEF Check, Continue, Stop
<1>4. /\ TablesInv' /\ ResumedFits' /\ (IsOverlay' <=> IsOverlay)
      /\ FileFits(file, options)' = FileFits(file, options)
  BY <1>3, QuietParts
<1>5. AsPlanned'
  BY <1>3, <1>4 DEF ImportInv, AsPlanned, Ended
<1>6. PlanOrdered' /\ PlanStands' /\ MoveStands' /\ PlanHonoured'
  BY <1>3 DEF PlanOrdered, PlanStands, MoveStands, PlanHonoured, Working
<1>7. written = {} /\ Overlay'
  <2>1. written = {} /\ (raced = {} => IsOverlay)
    BY <1>3 DEF ImportInv, CheckedSoFar, Overlay
  <2> QED
    BY <1>3, <1>4, <2>1 DEF Overlay
<1>8. CASE Found(l)
  <2>1. CheckedSoFar'
    BY <1>1, <1>2, <1>3, <1>8, FoundStep DEF ImportInv, AsksNext
  <2>2. RerunCompletes'
    BY <1>3, <1>8 DEF RerunCompletes
  <2> QED
    BY <1>4, <1>5, <1>6, <1>7, <2>1, <2>2 DEF ImportInv
<1>9. CASE ~Found(l)
  <2>1. CheckedSoFar'
    BY <1>3, <1>9 DEF CheckedSoFar
  <2>2. ~(resumes /\ options.replace /\ raced = {})
    <3> SUFFICES ASSUME resumes, options.replace, raced = {} PROVE Found(l)
      BY <1>9
    <3>1. \A e \in Planned : ClassKept(e) /\ \A d \in Needs(e) \ Batch(file) : Exists(d)
      BY DEF ImportInv, ResumedFits
    <3>2. l \in Range(lookups)
      <4>1. PICK R : R = Range(lookups)
        OBVIOUS
      <4>2. lookups \in Seq(R)
        BY <1>3, <4>1 DEF ImportInv, CheckedSoFar
      <4> QED
        BY <1>1, <1>3, <4>1, <4>2, RangeHeadTail
    <3>3. /\ l.what \in {"entry", "class", "needed"} /\ l.entry \in Planned
          /\ IF l.what = "needed" THEN l.dn \in Needs(l.entry) \ Batch(file)
             ELSE l.dn = l.entry.dn
      BY <1>3, <3>2 DEF ImportInv, CheckedSoFar
    <3> QED
      BY <3>1, <3>3 DEF Found, ClassKept
  <2>3. RerunCompletes'
    BY <1>3, <2>2 DEF RerunCompletes
  <2> QED
    BY <1>4, <1>5, <1>6, <1>7, <2>1, <2>3 DEF ImportInv
<1> QED
  BY <1>8, <1>9

\* With nothing left to look up, the directory is as PlanImport requires.
LEMMA AllChecked ==
    ASSUME CheckedSoFar, phase = "checking", lookups = << >>
    PROVE  /\ FileStands /\ written = {}
           /\ \A e \in Planned : Untouched(e.dn, Exists(e.dn) => options.replace)
<1>1. \A what, e, d : ~Pending(what, e, d)
  BY DEF Pending, Range
<1> QED
  BY <1>1 DEF CheckedSoFar, FileStands

\* The plan as orderEntries returns it.
LEMMA FreshPlan ==
    ASSUME AsPlanned, FileStands, written = {}, NEW es, es = EntriesOf(file), Ordered(es),
           NEW s, s = Order(es)
    PROVE  /\ s \in Seq(Planned) /\ Planned = Range(s)
           /\ \A i, j \in DOMAIN s : s[i].dn = s[j].dn => i = j
           /\ \A i \in DOMAIN s : s[i] \in Planned
           /\ \A i \in DOMAIN s : \A d \in Needs(s[i]) :
                 Untouched(d, Exists(d)) \/ \E j \in 1 .. i - 1 : s[j].dn = d
<1>1. IsList(es) /\ DNsOf(es) = Batch(file) /\ Planned = Range(es)
  BY EntriesAreList DEF AsPlanned, Planned
<1>2. InOrder(es, s)
  BY <1>1, OrderInOrder
<1>3. Range(s) = Range(es)
  BY <1>1, <1>2, OrderedCovers DEF Ordered
<1>4. \A i \in DOMAIN s : s[i] \in Planned
  BY <1>1, <1>3 DEF Range
<1>5. ASSUME NEW i \in DOMAIN s, NEW d \in Needs(s[i])
      PROVE  Untouched(d, Exists(d)) \/ \E j \in 1 .. i - 1 : s[j].dn = d
  <2>1. CASE d \in Batch(file)
    <3>1. d \in WaitsFor(s[i]) \cap DNsOf(es)
      BY <1>1, <2>1 DEF Needs, WaitsFor
    <3> QED
      BY <1>2, <3>1 DEF InOrder
  <2>2. CASE d \notin Batch(file)
    BY <1>4, <2>2 DEF FileStands
  <2> QED
    BY <2>1, <2>2
<1>6. s \in Seq(Range(es)) /\ \A i, j \in DOMAIN s : s[i].dn = s[j].dn => i = j
  BY <1>2 DEF InOrder
<1> QED
  BY <1>1, <1>3, <1>4, <1>5, <1>6

LEMMA OrderPlanStep ==
    ASSUME ImportInv, OrderPlan
    PROVE  ImportInv'
<1>1. PICK es : es = EntriesOf(file)
  OBVIOUS
<1>2. PICK s : s = Order(es)
  OBVIOUS
<1>3. /\ phase = "checking" /\ lookups = << >>
      /\ UNCHANGED <<tables, written, broken, options, file, before, raced, resumes>>
      /\ \/ ~Ordered(es) /\ phase' = "refused"
         \/ Ordered(es) /\ phase' = "dry"
         \/ Ordered(es) /\ s = << >> /\ phase' = "done"
         \/ Ordered(es) /\ s # << >> /\ phase' = FirstMove(options) /\ plan' = s
  BY <1>1, <1>2 DEF OrderPlan, AfterPlan, Continue, Stop
<1>4. /\ TablesInv' /\ ResumedFits' /\ (IsOverlay' <=> IsOverlay)
      /\ FileFits(file, options)' = FileFits(file, options) /\ Keeps
  BY <1>3, QuietParts
<1>5. /\ FileStands /\ written = {}
      /\ \A e \in Planned : Untouched(e.dn, Exists(e.dn) => options.replace)
  BY <1>3, AllChecked DEF ImportInv
<1>6. /\ phase' \in {"refused", "dry", "done", "deciding", "creating"}
      /\ phase' = "creating" => ~options.replace
  BY <1>3 DEF FirstMove
<1>7. AsPlanned'
  BY <1>3, <1>4, <1>6 DEF ImportInv, AsPlanned, Ended
<1>8. /\ Planned' = Planned /\ FileStands'
      /\ Ordered(EntriesOf(file))' = Ordered(EntriesOf(file))
  BY <1>4, <1>5, SamePlanned, FileStandsKept DEF Keeps
<1>9. CheckedSoFar' /\ PlanHonoured'
  BY <1>6 DEF CheckedSoFar, PlanHonoured
<1>10. ResumedFits /\ (phase' = "refused" => ~Ordered(es))
  BY <1>3, <1>6 DEF ImportInv, FirstMove
<1>11. RerunCompletes'
  BY <1>1, <1>3, <1>6, <1>10 DEF RerunCompletes, ResumedFits
<1>12. \A d : (Exists(d)' <=> Exists(d)) /\ raced' = raced /\ options' = options
  BY <1>3 DEF tables, Exists
<1>13. phase' \in {"deciding", "creating", "done"} =>
         /\ s \in Seq(Planned) /\ Planned = Range(s)
         /\ \A i, j \in DOMAIN s : s[i].dn = s[j].dn => i = j
         /\ \A i \in DOMAIN s : s[i] \in Planned
         /\ \A i \in DOMAIN s : \A d \in Needs(s[i]) :
               Untouched(d, Exists(d)) \/ \E j \in 1 .. i - 1 : s[j].dn = d
  <2> SUFFICES ASSUME Ordered(es)
               PROVE  /\ s \in Seq(Planned) /\ Planned = Range(s)
                      /\ \A i, j \in DOMAIN s : s[i].dn = s[j].dn => i = j
                      /\ \A i \in DOMAIN s : s[i] \in Planned
                      /\ \A i \in DOMAIN s : \A d \in Needs(s[i]) :
                            Untouched(d, Exists(d)) \/ \E j \in 1 .. i - 1 : s[j].dn = d
    BY <1>3
  <2> QED
    BY <1>1, <1>2, <1>5, FreshPlan DEF ImportInv
<1>14. Overlay'
  <2>1. phase' = "done" => Planned = {}
    BY <1>3, <1>6, <1>13 DEF FirstMove, Range
  <2> QED
    BY <1>3, <1>4, <1>5, <1>6, <1>8, <2>1 DEF ImportInv, Overlay
<1>15. PlanOrdered' /\ PlanStands' /\ MoveStands'
  <2>1. CASE phase' \in {"deciding", "creating"}
    <3>1. plan' = s /\ s # << >> /\ Ordered(es)
      BY <1>3, <2>1
    <3>2. PlanOrdered'
      <4>1. \A i \in DOMAIN s : \A d \in Needs(s[i]) :
               Untouched(d, Exists(d))' \/ \E j \in 1 .. i - 1 : s[j].dn = d
        BY <1>12, <1>13, <2>1 DEF Untouched
      <4> QED
        BY <1>1, <1>3, <1>5, <1>8, <1>13, <2>1, <3>1, <4>1 DEF PlanOrdered
    <3>3. \A i \in DOMAIN s : Untouched(s[i].dn, Exists(s[i].dn) => options.replace)
      BY <1>5, <1>13, <2>1
    <3>4. PlanStands'
      BY <1>8, <1>12, <3>1, <3>3 DEF PlanStands, Untouched
    <3>5. MoveStands'
      <4>1. Head(s) = s[1] /\ 1 \in DOMAIN s
        BY <1>13, <2>1, <3>1
      <4>2. phase' = "creating" => Untouched(s[1].dn, ~Exists(s[1].dn))
        BY <1>6, <3>3, <4>1 DEF Untouched
      <4> QED
        BY <1>12, <2>1, <3>1, <4>1, <4>2 DEF MoveStands, Untouched
    <3> QED
      BY <3>2, <3>4, <3>5
  <2>2. CASE phase' \notin {"deciding", "creating"}
    BY <1>6, <2>2 DEF PlanOrdered, PlanStands, MoveStands, Working
  <2> QED
    BY <2>1, <2>2
<1> QED
  BY <1>4, <1>7, <1>9, <1>11, <1>14, <1>15 DEF ImportInv

\* ApplyImport's own look at the entry.
LEMMA DecideStep ==
    ASSUME ImportInv, Decide
    PROVE  ImportInv'
<1>1. /\ phase = "deciding" /\ phase' = MoveFor(Head(plan)) /\ plan' = plan
      /\ UNCHANGED <<tables, written, broken, options, file, before, raced, resumes>>
  BY DEF Decide, Continue
<1>2. /\ TablesInv' /\ ResumedFits' /\ (IsOverlay' <=> IsOverlay)
      /\ FileFits(file, options)' = FileFits(file, options) /\ \A d : SeenAsBefore(d)
  BY <1>1, QuietParts
<1>3. phase' \in {"updating", "creating"}
  BY <1>1 DEF MoveFor
<1>4. AsPlanned'
  BY <1>1, <1>2, <1>3 DEF ImportInv, AsPlanned, Ended
<1>5. PlanOrdered' /\ PlanStands'
  <2>1. Quiet
    BY <1>1, <1>2, SeenQuiet
  <2>2. InPlan
    BY <1>1 DEF InPlan, Working
  <2> QED
    BY <2>1, <2>2, PlanKept DEF ImportInv
<1>6. MoveStands'
  <2>1. PICK head : head = Head(plan)
    OBVIOUS
  <2>2. Head(plan)' = head /\ (Exists(head.dn)' <=> Exists(head.dn))
    BY <1>1, <1>2, <2>1 DEF SeenAsBefore
  <2> QED
    BY <1>1, <2>1, <2>2 DEF MoveStands, MoveFor, Untouched
<1>7. Overlay'
  BY <1>1, <1>2, <1>3, SamePlanned DEF ImportInv, Overlay
<1>8. CheckedSoFar' /\ PlanHonoured' /\ RerunCompletes'
  BY <1>3 DEF CheckedSoFar, PlanHonoured, RerunCompletes
<1> QED
  BY <1>2, <1>4, <1>5, <1>6, <1>7, <1>8 DEF ImportInv

\* The import does nothing: the server writes, or nobody does.
LEMMA WaitStep ==
    ASSUME ImportInv, Quiet, TablesInv', phase' = phase, lookups' = lookups, broken' = broken,
           raced' \subseteq DNs, raced' = {} => (IsOverlay' <=> IsOverlay)
    PROVE  ImportInv'
<1>1. /\ file' = file /\ options' = options /\ resumes' = resumes /\ raced \subseteq raced'
      /\ plan' = plan /\ written' = written /\ Keeps
  BY DEF Quiet, Keeps
<1>2. Planned' = Planned /\ Batch(file)' = Batch(file)
  BY <1>1, SamePlanned
<1>3. AsPlanned'
  <2>1. FileFits(file, options)' = FileFits(file, options)
    BY <1>1
  <2> QED
    BY <1>1, <2>1 DEF ImportInv, AsPlanned
<1>4. /\ \A e \in Planned : Untouched(e.dn, Exists(e.dn) => options.replace)
                              => Untouched(e.dn, Exists(e.dn) => options.replace)'
      /\ \A e \in Planned : Untouched(e.dn, ClassKept(e)) => Untouched(e.dn, ClassKept(e))'
      /\ \A d : Untouched(d, Exists(d)) => Untouched(d, Exists(d))'
      /\ \A d : Untouched(d, ~Exists(d)) => Untouched(d, ~Exists(d))'
  BY <1>1 DEF Quiet, Keeps, Untouched
<1>5. CheckedSoFar'
  <2> SUFFICES ASSUME phase = "checking" PROVE CheckedSoFar'
    BY DEF CheckedSoFar
  <2>1. \A what, e, d : Pending(what, e, d)' <=> Pending(what, e, d)
    BY DEF Pending
  <2>2. \A e \in Planned :
          \/ Pending("entry", e, e.dn)
          \/ /\ Untouched(e.dn, Exists(e.dn) => options.replace)'
             /\ Pending("class", e, e.dn) \/ Untouched(e.dn, ClassKept(e))'
    BY <1>4 DEF ImportInv, CheckedSoFar
  <2>3. \A e \in Planned : \A d \in Needs(e) \ Batch(file) :
          Pending("needed", e, d) \/ Untouched(d, Exists(d))'
    BY <1>4 DEF ImportInv, CheckedSoFar
  <2>4. /\ lookups' \in Seq(Range(lookups')) /\ written' = {}
        /\ \A l \in Range(lookups') :
              /\ l.what \in {"entry", "class", "needed"}
              /\ l = Lookup(l.what, l.entry, l.dn)
              /\ l.entry \in Planned
              /\ IF l.what = "needed" THEN l.dn \in Needs(l.entry) \ Batch(file)
                 ELSE l.dn = l.entry.dn
    BY <1>1 DEF ImportInv, CheckedSoFar
  <2> QED
    BY <1>2, <2>1, <2>2, <2>3, <2>4 DEF CheckedSoFar
<1>6. PlanOrdered' /\ PlanStands'
  BY PlanKept DEF ImportInv, InPlan, Working
<1>7. MoveStands'
  <2>1. PICK head : head = Head(plan)
    OBVIOUS
  <2>2. Head(plan)' = head
    BY <1>1, <2>1
  <2> QED
    BY <1>4, <2>1, <2>2 DEF ImportInv, MoveStands
<1>8. Overlay'
  <2>1. raced' = {} => raced = {}
    BY <1>1
  <2> QED
    BY <1>1, <1>2, <2>1 DEF ImportInv, Overlay
<1>9. ResumedFits'
  BY <1>1, ResumedKept DEF ImportInv
<1>10. BaseMissing => BaseDN \in raced' \/ BaseMissing'
  BY <1>1 DEF Quiet, BaseMissing
<1>11. PlanHonoured'
  <2>1. BaseMissing => Head(plan).dn = BaseDN
    BY DEF BaseMissing
  <2> QED
    BY <1>1, <1>10, <2>1 DEF ImportInv, PlanHonoured
<1>12. RerunCompletes'
  BY <1>1, <1>10 DEF ImportInv, RerunCompletes
<1> QED
  BY <1>3, <1>5, <1>6, <1>7, <1>8, <1>9, <1>11, <1>12 DEF ImportInv

LEMMA ServerStep ==
    ASSUME ImportInv, NEW d \in DNs, ServerWrites(d)
    PROVE  ImportInv'
<1>1. /\ raced' = raced \cup {d}
      /\ UNCHANGED <<file, options, phase, lookups, plan, before, written, broken, resumes>>
  BY DEF ServerWrites, job
<1>2. TablesInv' /\ \A x : x # d => SeenAsBefore(x)
  BY ServerSees DEF ImportInv
<1>3. Quiet
  BY <1>1, <1>2, SeenQuiet
<1>4. raced' \subseteq DNs /\ raced' # {}
  BY <1>1 DEF ImportInv, AsPlanned
<1> QED
  BY <1>1, <1>2, <1>3, <1>4, WaitStep

LEMMA StutterStep ==
    ASSUME ImportInv, UNCHANGED vars
    PROVE  ImportInv'
<1>1. UNCHANGED <<tables, file, options, phase, lookups, plan, before, written, raced, broken,
                  resumes>>
  BY DEF vars, job, history
<1>2. TablesInv' /\ (IsOverlay' <=> IsOverlay) /\ \A d : SeenAsBefore(d)
  BY <1>1, QuietParts
<1>3. Quiet
  BY <1>1, <1>2, SeenQuiet
<1>4. raced' \subseteq DNs
  BY <1>1 DEF ImportInv, AsPlanned
<1> QED
  BY <1>1, <1>2, <1>3, <1>4, WaitStep

LEMMA StoreFailsStep ==
    ASSUME ImportInv, StoreFails
    PROVE  ImportInv'
<1>1. /\ phase \notin Ended /\ broken' = TRUE /\ plan' = plan
      /\ phase' = (IF phase = "checking" THEN "refused" ELSE "failed")
      /\ UNCHANGED <<tables, written, options, file, before, raced, resumes>>
  BY DEF StoreFails, Continue
<1>2. /\ TablesInv' /\ ResumedFits' /\ (IsOverlay' <=> IsOverlay)
      /\ FileFits(file, options)' = FileFits(file, options) /\ \A d : SeenAsBefore(d)
  BY <1>1, QuietParts
<1>3. phase' \in {"refused", "failed"}
  BY <1>1
<1>4. AsPlanned'
  BY <1>1, <1>2, <1>3 DEF ImportInv, AsPlanned, Ended
<1>5. PlanOrdered' /\ PlanStands'
  <2>1. Quiet
    BY <1>1, <1>2, SeenQuiet
  <2>2. InPlan' => InPlan
    BY <1>1 DEF InPlan, Working, Ended, ImportInv, AsPlanned
  <2> QED
    BY <2>1, <2>2, PlanKept DEF ImportInv
<1>6. Overlay'
  <2>1. phase' = "refused" => written = {}
    BY <1>1 DEF ImportInv, CheckedSoFar
  <2>2. phase # "none"
    BY <1>1 DEF Ended
  <2> QED
    BY <1>1, <1>2, <1>3, <2>1, <2>2, SamePlanned DEF ImportInv, Overlay
<1>7. CheckedSoFar' /\ MoveStands' /\ PlanHonoured' /\ RerunCompletes'
  BY <1>1, <1>3 DEF CheckedSoFar, MoveStands, PlanHonoured, RerunCompletes
<1> QED
  BY <1>2, <1>4, <1>5, <1>6, <1>7 DEF ImportInv

\* What is known of the entry to write next.
LEMMA HeadOfPlan ==
    ASSUME ImportInv, Working, NEW head, head = Head(plan)
    PROVE  /\ head \in Planned /\ EntryFits(head) /\ plan # << >> /\ 1 \in DOMAIN plan
           /\ head = plan[1] /\ FileStands
           /\ \A d \in Needs(head) : Untouched(d, Exists(d))
           /\ \A g \in written : g.dn # head.dn
           /\ \A e, g \in Planned : e.dn = g.dn => e = g
           /\ written \subseteq Planned
<1>1. /\ plan \in Seq(Planned) /\ plan # << >> /\ Planned = written \cup Range(plan)
      /\ \A e \in written : \A i \in DOMAIN plan : e.dn # plan[i].dn
      /\ \A i \in DOMAIN plan : \A d \in Needs(plan[i]) :
            Untouched(d, Exists(d)) \/ \E j \in 1 .. i - 1 : plan[j].dn = d
  BY DEF ImportInv, PlanOrdered
<1>2. 1 \in DOMAIN plan /\ head = plan[1] /\ head \in Planned
  BY <1>1
<1>3. phase \notin {"none", "refused"}
  BY DEF Working
<1>4. EntryFits(head) /\ \A e, g \in Planned : e.dn = g.dn => e = g
  BY <1>2, <1>3, FitsInRun DEF ImportInv
<1>5. \A d \in Needs(head) : Untouched(d, Exists(d))
  BY <1>1, <1>2
<1> QED
  BY <1>1, <1>2, <1>4, <1>5 DEF ImportInv, PlanStands

\* An entry is written, and the import goes on to the next.
LEMMA WroteStep ==
    ASSUME ImportInv, phase \in {"creating", "updating"}, Wrote, broken' = broken,
           NEW head, head = Head(plan), TablesInv', Exists(head.dn)',
           RowAt(head.dn)'.class = head.class \/ head.dn \in raced,
           \A d : d # head.dn => SeenAsBefore(d),
           raced = {} => IsOverlay'
    PROVE  ImportInv'
<1>1. /\ UNCHANGED <<options, file, before, raced, resumes>>
      /\ phase' \in {"done", "deciding", "creating"}
      /\ phase' = "creating" => ~options.replace
  BY DEF Wrote, Stop, Continue, FirstMove
<1>2. Working
  BY DEF Working
<1>3. head \in Planned /\ \A e, g \in Planned : e.dn = g.dn => e = g
  BY <1>2, HeadOfPlan
<1>4. Keeps
  <2>1. ASSUME NEW d PROVE Exists(d) => Exists(d)'
    <3>1. CASE d = head.dn
      BY <3>1
    <3>2. CASE d # head.dn
      BY <3>2 DEF SeenAsBefore
    <3> QED
      BY <3>1, <3>2
  <2>2. ASSUME NEW e \in Planned, e.dn \notin raced', ClassKept(e) PROVE ClassKept(e)'
    <3>1. CASE e = head
      BY <1>1, <2>2, <3>1 DEF ClassKept
    <3>2. CASE e # head
      <4>1. SeenAsBefore(e.dn)
        BY <1>3, <3>2
      <4> QED
        BY <2>2, <4>1 DEF ClassKept, SeenAsBefore
    <3> QED
      BY <3>1, <3>2
  <2> QED
    BY <1>1, <2>1, <2>2 DEF Keeps
<1>5. /\ PlanOrdered' /\ PlanStands'
      /\ phase' = "done" => written' = Planned
      /\ written' \subseteq Planned
  <2>1. \A d : d # head.dn => (Exists(d)' <=> Exists(d))
    BY DEF SeenAsBefore
  <2> QED
    BY <1>2, <1>4, <2>1, PlanShortened DEF ImportInv
<1>6. ResumedFits'
  BY <1>4, ResumedKept DEF ImportInv
<1>7. AsPlanned'
  <2>1. FileFits(file, options)' = FileFits(file, options)
    BY <1>1
  <2> QED
    BY <1>1, <2>1 DEF ImportInv, AsPlanned, Ended
<1>8. MoveStands'
  <2> SUFFICES ASSUME phase' = "creating"
               PROVE  Untouched(Head(plan).dn, ~Exists(Head(plan).dn))'
    BY <1>1 DEF MoveStands
  <2>1. plan' \in Seq(Planned') /\ plan' # << >>
    BY <1>5 DEF PlanOrdered, Working
  <2>2. Head(plan') = plan'[1] /\ 1 \in DOMAIN plan'
    BY <2>1
  <2>3. Untouched(plan[1].dn, Exists(plan[1].dn) => options.replace)'
    BY <1>5, <2>2 DEF PlanStands, Working
  <2> QED
    BY <1>1, <2>2, <2>3 DEF Untouched
<1>9. Overlay'
  BY <1>1, <1>5, SamePlanned DEF Overlay
<1>10. CheckedSoFar' /\ PlanHonoured' /\ RerunCompletes'
  BY <1>1 DEF CheckedSoFar, PlanHonoured, RerunCompletes
<1> QED
  BY <1>5, <1>6, <1>7, <1>8, <1>9, <1>10 DEF ImportInv

\* The store refuses an entry, for what the server has done, or as the base entry.
LEMMA RefusedStep ==
    ASSUME ImportInv, Working, Continue("failed", << >>, plan),
           UNCHANGED <<tables, written, broken>>,
           ({Head(plan).dn} \cup Needs(Head(plan))) \cap raced # {} \/ BaseMissing
    PROVE  ImportInv'
<1>1. /\ phase' = "failed" /\ plan' = plan
      /\ UNCHANGED <<tables, written, broken, options, file, before, raced, resumes>>
  BY DEF Continue
<1>2. /\ TablesInv' /\ ResumedFits' /\ (IsOverlay' <=> IsOverlay)
      /\ FileFits(file, options)' = FileFits(file, options) /\ \A d : SeenAsBefore(d)
  BY <1>1, QuietParts
<1>3. AsPlanned'
  BY <1>1, <1>2 DEF ImportInv, AsPlanned, Ended, Working
<1>4. PlanOrdered' /\ PlanStands'
  <2>1. Quiet
    BY <1>1, <1>2, SeenQuiet
  <2> QED
    BY <2>1, PlanKept DEF ImportInv, InPlan
<1>5. Overlay'
  BY <1>1, <1>2, SamePlanned DEF ImportInv, Overlay, Working
<1>6. BaseMissing' <=> BaseMissing
  BY <1>1, <1>2 DEF BaseMissing, SeenAsBefore
<1>7. PlanHonoured'
  BY <1>1, <1>6 DEF PlanHonoured
<1>8. RerunCompletes'
  BY <1>1, <1>6 DEF RerunCompletes
<1>9. CheckedSoFar' /\ MoveStands'
  BY <1>1 DEF CheckedSoFar, MoveStands
<1> QED
  BY <1>2, <1>3, <1>4, <1>5, <1>7, <1>8, <1>9 DEF ImportInv

\* CreateEntry takes what PlanImport accepted, unless the server has come between.
LEMMA CreateHonoured ==
    ASSUME ImportInv, phase = "creating", ~CanCreate(Head(plan))
    PROVE  ({Head(plan).dn} \cup Needs(Head(plan))) \cap raced # {} \/ BaseMissing
<1>1. PICK head : head = Head(plan)
  OBVIOUS
<1>2. Working
  BY DEF Working
<1>3. EntryFits(head) /\ \A d \in Needs(head) : Untouched(d, Exists(d))
  BY <1>1, <1>2, HeadOfPlan
<1> SUFFICES ASSUME ({head.dn} \cup Needs(head)) \cap raced = {}, ~BaseMissing
             PROVE  CanCreate(head)
  BY <1>1
<1>4. ~Exists(head.dn)
  BY <1>1 DEF ImportInv, MoveStands, Untouched
<1>5. head.dn # BaseDN
  BY <1>1, <1>4 DEF BaseMissing
<1>6. \A d \in Needs(head) : Exists(d)
  BY <1>3 DEF Untouched
<1>7. PlacementOK(head)
  BY <1>3, <1>5, <1>6 DEF PlacementOK, EntryFits, Needs
<1>8. MembersResolve(entries \cup {NewRow(head)}, head)
  BY <1>6 DEF MembersResolve, Needs, Exists
<1> QED
  BY <1>3, <1>4, <1>7, <1>8 DEF CanCreate, EntryFits

LEMMA UpdateHonoured ==
    ASSUME ImportInv, phase = "updating", ~CanUpdate(Head(plan))
    PROVE  ({Head(plan).dn} \cup Needs(Head(plan))) \cap raced # {} \/ BaseMissing
<1>1. PICK head : head = Head(plan)
  OBVIOUS
<1>2. Working
  BY DEF Working
<1>3. \A d \in Needs(head) : Untouched(d, Exists(d))
  BY <1>1, <1>2, HeadOfPlan
<1> SUFFICES ASSUME ({head.dn} \cup Needs(head)) \cap raced = {} PROVE CanUpdate(head)
  BY <1>1
<1>4. Exists(head.dn)
  BY <1>1 DEF ImportInv, MoveStands, Untouched
<1>5. \A d \in Needs(head) : Exists(d)
  BY <1>3 DEF Untouched
<1> QED
  BY <1>4, <1>5 DEF CanUpdate, MembersResolve, Needs, Exists

LEMMA CreateStep ==
    ASSUME ImportInv, Create
    PROVE  ImportInv'
<1>1. PICK head : head = Head(plan)
  OBVIOUS
<1>2. phase = "creating" /\ Working /\ broken' = broken
  BY DEF Create, Working
<1>3. CASE CreateEntryTx(head) /\ Wrote
  <2>1. /\ EntryFits(head) /\ \A g \in written : g.dn # head.dn
        /\ \A e, g \in Planned : e.dn = g.dn => e = g
        /\ written \subseteq Planned
    BY <1>1, <1>2, HeadOfPlan
  <2>2. head \in Entry
    BY <2>1 DEF EntryFits
  <2>3. /\ \A d : d # head.dn => SeenAsBefore(d)
        /\ Exists(head.dn)' /\ RowAt(head.dn)'.class = head.class
        /\ TablesInv'
    BY <1>3, <2>2, CreateSees, CreateKeepsTables DEF ImportInv
  <2>4. raced = {} => IsOverlay'
    <3>1. before' = before /\ written' = written \cup {head}
      BY <1>1, <1>3 DEF Wrote, Stop, Continue
    <3>2. Distinct
      BY <2>1 DEF Distinct
    <3> QED
      BY <1>3, <2>1, <3>1, <3>2, CreateOverlays DEF ImportInv, Overlay
  <2> QED
    BY <1>1, <1>2, <1>3, <2>3, <2>4, WroteStep
<1>4. CASE ~CanCreate(head) /\ Continue("failed", << >>, plan) /\ UNCHANGED <<tables, written>>
  BY <1>1, <1>2, <1>4, CreateHonoured, RefusedStep
<1> QED
  BY <1>1, <1>3, <1>4 DEF Create

LEMMA UpdateStep ==
    ASSUME ImportInv, Update
    PROVE  ImportInv'
<1>1. PICK head : head = Head(plan)
  OBVIOUS
<1>2. phase = "updating" /\ Working /\ broken' = broken
  BY DEF Update, Working
<1>3. CASE UpdateEntryTx(head) /\ Wrote
  <2>1. /\ EntryFits(head) /\ \A g \in written : g.dn # head.dn
        /\ \A e, g \in Planned : e.dn = g.dn => e = g
        /\ written \subseteq Planned /\ head \in Planned /\ FileStands
    BY <1>1, <1>2, HeadOfPlan
  <2>2. head \in Entry
    BY <2>1 DEF EntryFits
  <2>3. TablesInv' /\ entries' = entries /\ Exists(head.dn)
    BY <1>3, <2>2, UpdateKeepsTables DEF ImportInv, UpdateEntryTx, CanUpdate
  <2>4. \A d : SeenAsBefore(d)
    BY <2>3, SameSeen
  <2>5. head.dn \in raced \/ RowAt(head.dn).class = head.class
    BY <2>1, <2>3 DEF FileStands, Untouched, ClassKept
  <2>6. Exists(head.dn)' /\ (RowAt(head.dn)'.class = head.class \/ head.dn \in raced)
    BY <2>3, <2>4, <2>5 DEF SeenAsBefore
  <2>7. raced = {} => IsOverlay'
    <3>1. before' = before /\ written' = written \cup {head}
      BY <1>1, <1>3 DEF Wrote, Stop, Continue
    <3>2. Distinct
      BY <2>1 DEF Distinct
    <3> QED
      BY <1>3, <2>1, <2>5, <3>1, <3>2, UpdateOverlays DEF ImportInv, Overlay
  <2> QED
    BY <1>1, <1>2, <1>3, <2>3, <2>4, <2>6, <2>7, WroteStep
<1>4. CASE ~CanUpdate(head) /\ Continue("failed", << >>, plan) /\ UNCHANGED <<tables, written>>
  BY <1>1, <1>2, <1>4, UpdateHonoured, RefusedStep
<1> QED
  BY <1>1, <1>3, <1>4 DEF Update

----
(* The theorems *)

LEMMA InitImportInv == Init => ImportInv
<1> SUFFICES ASSUME Init PROVE ImportInv
  OBVIOUS
<1>1. TablesInv
  BY LdifAssumption, SeededTablesInv DEF Init
<1>2. AsPlanned
  BY DEF Init, AsPlanned, Ended, Options
<1>3. CheckedSoFar /\ PlanOrdered /\ PlanStands /\ MoveStands /\ PlanHonoured
  BY DEF Init, CheckedSoFar, PlanOrdered, PlanStands, MoveStands, PlanHonoured, Working
<1>4. Overlay
  BY <1>1, OverlayOfNothing DEF Init, Overlay
<1>5. ResumedFits /\ RerunCompletes
  BY DEF Init, ResumedFits, RerunCompletes
<1> QED
  BY <1>1, <1>2, <1>3, <1>4, <1>5 DEF ImportInv

\* Whatever the files, however many runs, failures and writes of the server: what a run has
\* looked up still holds of the DNs the server has not written since.
THEOREM ImportInvariant == Spec => []ImportInv
<1>1. ImportInv /\ [Next]_vars => ImportInv'
  <2> SUFFICES ASSUME ImportInv, [Next]_vars PROVE ImportInv'
    OBVIOUS
  <2>1. CASE \E o \in Options : Start(o)
    BY <2>1, StartStep
  <2>2. CASE Check
    BY <2>2, CheckStep
  <2>3. CASE OrderPlan
    BY <2>3, OrderPlanStep
  <2>4. CASE Decide
    BY <2>4, DecideStep
  <2>5. CASE Create
    BY <2>5, CreateStep
  <2>6. CASE Update
    BY <2>6, UpdateStep
  <2>7. CASE StoreFails
    BY <2>7, StoreFailsStep
  <2>8. CASE \E d \in DNs : ServerWrites(d)
    BY <2>8, ServerStep
  <2>9. CASE UNCHANGED vars
    BY <2>9, StutterStep
  <2> QED
    BY <2>1, <2>2, <2>3, <2>4, <2>5, <2>6, <2>7, <2>8, <2>9 DEF Next
<1> QED
  BY InitImportInv, <1>1, PTL DEF Spec

\* At every moment of an import nobody races, the directory is the one it began with and
\* over it, whole, the entries it has written.
THEOREM ImportOverlays == Spec => []ImportIsOverlay
<1>1. ImportInv => ImportIsOverlay
  BY DEF ImportInv, Overlay, ImportIsOverlay, Planned
<1> QED
  BY <1>1, ImportInvariant, PTL

\* The store refuses what PlanImport accepted only when the server has written the entry or
\* one it needs meanwhile, or when it is the base entry.
THEOREM PlanIsHonoured == Spec => []PlanHonoured
<1>1. ImportInv => PlanHonoured
  BY DEF ImportInv
<1> QED
  BY <1>1, ImportInvariant, PTL

\* An import that stopped halfway completes when it is run again with --replace-existing.
THEOREM RerunIsComplete == Spec => []RerunCompletes
<1>1. ImportInv => RerunCompletes
  BY DEF ImportInv
<1> QED
  BY <1>1, ImportInvariant, PTL

====
