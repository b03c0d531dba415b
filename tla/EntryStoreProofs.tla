---- MODULE EntryStoreProofs ----
(***************************************************************************)
(* Lemmas about the store's entries and transactions, whoever runs them.   *)
(***************************************************************************)
EXTENDS EntryStore, FiniteSetTheorems, NaturalsInduction, WellFoundedInduction, TLAPS

----
(* Induction and recursion over the natural numbers *)

\* The least element of a set of numbers.
LEMMA LeastNat ==
    ASSUME NEW T \in SUBSET Nat, T # {}
    PROVE  \E x \in T : \A y \in T : x <= y
<1>1. PICK x \in T : \A y \in T : <<y, x>> \notin OpToRel(<, Nat)
  BY WFMin, NatLessThanWellFounded, Zenon
<1>2. \A y \in T : y \in Nat /\ x \in Nat
  OBVIOUS
<1>3. \A y \in T : ~(y < x)
  BY <1>1, <1>2, Zenon DEF OpToRel
<1> QED
  BY <1>2, <1>3

\* A set of numbers that holds 0 and, with a number, the next one, holds them all.
LEMMA InductionOnSet ==
    ASSUME NEW T, 0 \in T, \A n \in Nat : n \in T => n + 1 \in T
    PROVE  Nat \subseteq T
<1> DEFINE B == Nat \ T
<1> SUFFICES ASSUME B # {} PROVE FALSE
  OBVIOUS
<1>1. PICK x \in B : \A y \in B : x <= y
  BY LeastNat
<1>2. x # 0 /\ x - 1 \in Nat
  BY <1>1
<1>3. x - 1 \in T
  BY <1>1, <1>2
<1>4. x \in T
  BY <1>2, <1>3
<1> QED
  BY <1>4

\* A step function can be iterated: what the recursive definitions over Nat rest on.
LEMMA RecursionOnNat ==
    ASSUME NEW V, NEW start \in V, NEW Step \in [V -> V]
    PROVE  \E g \in [Nat -> V] : g[0] = start /\ \A n \in Nat : g[n + 1] = Step[g[n]]
<1> DEFINE Run(n, h) == /\ h \in [0 .. n -> V] /\ h[0] = start
                        /\ \A m \in 0 .. n : m # n => h[m + 1] = Step[h[m]]
           T == {n \in Nat : \E h : Run(n, h)}
<1>1. 0 \in T
  <2>1. Run(0, [m \in 0 .. 0 |-> start])
    OBVIOUS
  <2> QED
    BY <2>1
<1>2. ASSUME NEW n \in Nat, n \in T PROVE n + 1 \in T
  <2>1. PICK h : Run(n, h)
    BY <1>2
  <2> DEFINE k == [m \in 0 .. n + 1 |-> IF m = n + 1 THEN Step[h[n]] ELSE h[m]]
  <2>2. k \in [0 .. n + 1 -> V] /\ k[0] = start
    BY <2>1
  <2>3. \A m \in 0 .. n + 1 : m # n + 1 => k[m + 1] = Step[k[m]]
    BY <2>1
  <2> HIDE DEF k
  <2> QED
    BY <2>2, <2>3
<1>3. Nat \subseteq T
  <2> HIDE DEF T
  <2> QED
    BY <1>1, <1>2, InductionOnSet
<1>4. ASSUME NEW n \in Nat, NEW h, Run(n, h), NEW k, Run(n + 1, k)
      PROVE  h[n] = k[n]
  <2> DEFINE E == {m \in Nat : m <= n => h[m] = k[m]}
  <2>1. 0 \in E
    BY <1>4
  <2>2. ASSUME NEW m \in Nat, m \in E PROVE m + 1 \in E
    <3> SUFFICES ASSUME m + 1 <= n PROVE h[m + 1] = k[m + 1]
      OBVIOUS
    <3>1. m \in 0 .. n /\ m # n /\ m \in 0 .. n + 1 /\ m # n + 1 /\ h[m] = k[m]
      BY <2>2
    <3> QED
      BY <1>4, <3>1
  <2>3. Nat \subseteq E
    <3> HIDE DEF E
    <3> QED
      BY <2>1, <2>2, InductionOnSet
  <2> QED
    BY <2>3
<1> DEFINE run == [n \in Nat |-> CHOOSE h : Run(n, h)]
           g == [n \in Nat |-> run[n][n]]
<1>5. \A n \in Nat : Run(n, run[n])
  <2> HIDE DEF Run
  <2> QED
    BY <1>3
<1>6. g \in [Nat -> V] /\ g[0] = start
  <2> HIDE DEF run
  <2> QED
    BY <1>5
<1>7. ASSUME NEW n \in Nat PROVE g[n + 1] = Step[g[n]]
  <2> HIDE DEF run
  <2>1. Run(n, run[n]) /\ Run(n + 1, run[n + 1])
    <3> HIDE DEF Run
    <3>1. n + 1 \in Nat
      OBVIOUS
    <3> QED
      BY <1>5, <3>1
  <2>2. run[n][n] = run[n + 1][n]
    <3> HIDE DEF Run
    <3> QED
      BY <2>1, <1>4
  <2>3. run[n + 1][n + 1] = Step[run[n + 1][n]]
    BY <2>1
  <2> QED
    BY <2>2, <2>3
<1> HIDE DEF g
<1> QED
  BY <1>6, <1>7

\* The same for a step that depends on its number, as far as N: what the recursive
\* definitions over 0 .. N rest on.
RunsWithin(N, V, start, Step) ==
    N \in Nat /\ start \in V /\ \A n \in 1 .. N : \A v \in V : Step[<<n, v>>] \in V

LEMMA RecursionUpTo ==
    ASSUME NEW N, NEW V, NEW start, NEW Step, RunsWithin(N, V, start, Step)
    PROVE  \E f \in [0 .. N -> V] : f[0] = start /\ \A n \in 1 .. N : f[n] = Step[<<n, f[n - 1]>>]
<1> DEFINE W == Nat \X V
           first == <<0, start>>
           Move == [w \in W |-> IF w[1] + 1 \in 1 .. N THEN <<w[1] + 1, Step[<<w[1] + 1, w[2]>>]>>
                                ELSE <<w[1] + 1, w[2]>>]
<1>0. N \in Nat /\ start \in V
  BY DEF RunsWithin
<1>1. first \in W
  BY <1>0
<1>2. Move \in [W -> W]
  BY DEF RunsWithin
<1>3. PICK g \in [Nat -> W] : g[0] = first /\ \A n \in Nat : g[n + 1] = Move[g[n]]
  <2> HIDE DEF W, Move, first
  <2> QED
    BY <1>1, <1>2, RecursionOnNat
<1> DEFINE T == {n \in Nat : g[n][1] = n}
<1>4. Nat \subseteq T
  <2>1. 0 \in T
    BY <1>3
  <2>2. ASSUME NEW n \in Nat, n \in T PROVE n + 1 \in T
    <3>1. g[n + 1] = Move[g[n]] /\ g[n] \in W /\ g[n][1] = n
      BY <1>3, <2>2
    <3>2. g[n + 1][1] = n + 1
      BY <3>1
    <3> QED
      BY <3>2
  <2> HIDE DEF T
  <2> QED
    BY <2>1, <2>2, InductionOnSet
<1> DEFINE f == [n \in 0 .. N |-> g[n][2]]
<1>5. f \in [0 .. N -> V] /\ f[0] = start
  <2>1. \A n \in Nat : g[n] \in W
    BY <1>3
  <2> QED
    BY <1>0, <1>3, <2>1
<1>6. ASSUME NEW n \in 1 .. N PROVE f[n] = Step[<<n, f[n - 1]>>]
  <2>1. n - 1 \in Nat /\ n = (n - 1) + 1 /\ n - 1 \in 0 .. N
    BY <1>0
  <2>2. g[(n - 1) + 1] = Move[g[n - 1]] /\ g[n - 1] \in W /\ g[n - 1][1] = n - 1
    BY <1>3, <1>4, <2>1
  <2>3. g[n] = <<n, Step[<<n, g[n - 1][2]>>]>>
    BY <2>1, <2>2
  <2>4. f[n] = g[n][2] /\ f[n - 1] = g[n - 1][2]
    BY <2>1
  <2> HIDE DEF f
  <2> QED
    BY <2>3, <2>4
<1> HIDE DEF f
<1> QED
  BY <1>5, <1>6

----
(* Entries *)

\* The row found at a DN that exists is a row with that DN.
LEMMA RowAtExists ==
    ASSUME NEW d, Exists(d)
    PROVE  RowAt(d) \in entries /\ RowAt(d).dn = d
  BY DEF Exists, RowAt

\* What GetEntry returns is an entry.
LEMMA LoadedIsEntry ==
    ASSUME TablesOK, NEW d \in DNs, Exists(d)
    PROVE  LoadedEntry(d) \in Entry
<1>1. RowAt(d) \in EntryRows
  BY RowAtExists DEF TablesOK
<1>2. RowAt(d).class \in Classes
  BY <1>1 DEF EntryRows
<1>3. StoredUuids(RowAt(d).id) \subseteq Nat
  BY DEF TablesOK, StoredUuids
<1>4. LoadedEntry(d).uuid \in Nat
  BY <1>3 DEF LoadedEntry
<1>5. LoadedEntry(d).members \subseteq DNs /\ LoadedEntry(d).attrs \subseteq Attrs
  BY DEF LoadedEntry
<1>6. LoadedEntry(d).dn \in DNs /\ LoadedEntry(d).parent \in {Parent[x] : x \in DNs} \cup {NoDN}
  BY DEF LoadedEntry
<1>7. LoadedEntry(d).class \in Classes /\ LoadedEntry(d).password \in PasswordHashes
  BY <1>2 DEF LoadedEntry, PasswordHashes
<1> QED
  BY <1>4, <1>5, <1>6, <1>7 DEF LoadedEntry, Entry

\* The entries callers hand to CreateEntry are entries.
LEMMA NewIsEntry ==
    ASSUME NEW d \in DNs, NEW k \in ClassesAt[d], NEW x \in Contents(k)
    PROVE  NewEntry(d, k, x) \in Entry /\ NewEntry(d, k, x).class = k /\ NewEntry(d, k, x).dn = d
<1>1. k \in Classes
  BY StoreAssumption
<1>2. x.attrs \in SUBSET Attrs /\ x.members \in SUBSET DNs /\ x.password \in PasswordHashes
  BY StoreAssumption DEF Contents, PasswordHashes
<1> QED
  BY <1>1, <1>2 DEF NewEntry, Entry

\* The base entry that initializeDatabase creates is an entry of class top
\* at BaseDN.
LEMMA BaseIsEntry == BaseEntry \in Entry /\ BaseEntry.class = "top" /\ BaseEntry.dn = BaseDN
  BY StoreAssumption DEF BaseEntry, Entry, Classes, PasswordHashes

\* Changing a copy keeps its DN and class, and gives an entry; only a group's has members.
LEMMA ChangedIsEntry ==
    ASSUME NEW e \in Entry, NEW f \in Changed(e)
    PROVE  /\ f \in Entry /\ f.dn = e.dn /\ f.class = e.class
           /\ f.class # "groupOfNames" => f.members = {}
<1>1. PICK x \in Contents(e.class) :
          f = [e EXCEPT !.attrs = x.attrs, !.members = x.members, !.password = x.password]
  BY DEF Changed
<1>2. /\ x.attrs \in SUBSET Attrs /\ x.members \in SUBSET DNs /\ x.password \in PasswordHashes
      /\ e.class # "groupOfNames" => x.members = {}
  BY StoreAssumption DEF Contents, PasswordHashes
<1> QED
  BY <1>1, <1>2 DEF Entry

----
(* Each transaction leaves well-typed tables *)

\* CreateEntry leaves well-typed tables.
LEMMA CreateTablesOK ==
    ASSUME TablesOK, NEW e \in Entry, CreateEntryTx(e)
    PROVE  TablesOK' /\ NewRow(e) \in EntryRows
<1> USE DEF NewId
<1>1. nextId \in Ids /\ nextId + 1 \in 1 .. MaxId + 1
  BY StoreAssumption DEF TablesOK, CreateEntryTx, Ids
<1>2. NewRow(e) \in EntryRows
  BY <1>1 DEF NewRow, EntryRows, Entry
<1>3. entries' \subseteq EntryRows
  BY <1>2 DEF CreateEntryTx, TablesOK
<1>4. (otherAttr \subseteq Ids \X Attrs)' /\ (memberAttr \subseteq Ids \X DNs)'
  BY <1>1 DEF CreateEntryTx, TablesOK, Entry
<1>5. (uuidAttr \subseteq Ids \X Nat)' /\ (nextUuid \in Nat \ {0})'
  BY <1>1 DEF CreateEntryTx, TablesOK
<1>6. (users \subseteq Ids \X PasswordHashes)' /\ (groups \subseteq Ids)' /\ (ous \subseteq Ids)'
  BY <1>1 DEF CreateEntryTx, TablesOK, Entry
<1>7. MemberRows(entries', nextId, e.members) \subseteq Ids \X Ids
  BY <1>1, <1>3 DEF MemberRows, EntryRows
<1>8. (groupMembers \subseteq Ids \X Ids)'
  BY <1>7 DEF CreateEntryTx, TablesOK
<1> QED
  BY <1>1, <1>2, <1>3, <1>4, <1>5, <1>6, <1>8 DEF CreateEntryTx, TablesOK

\* UpdateEntry leaves well-typed tables, whatever copy it is given.
LEMMA UpdateTablesOK ==
    ASSUME TablesOK, NEW e \in Entry, UpdateEntryTx(e)
    PROVE  TablesOK'
<1> DEFINE id == IdOf(e.dn)
<1>1. id \in Ids
  BY RowAtExists DEF UpdateEntryTx, CanUpdate, TablesOK, EntryRows, IdOf
<1>2. KeptUuid(id, e) \in Nat
  BY DEF KeptUuid, StoredUuids, TablesOK
<1>3. (otherAttr \subseteq Ids \X Attrs)' /\ (memberAttr \subseteq Ids \X DNs)'
  BY <1>1 DEF UpdateEntryTx, TablesOK, Entry, Without
<1>4. (uuidAttr \subseteq Ids \X Nat)' /\ (nextUuid \in Nat \ {0})'
  BY <1>1, <1>2 DEF UpdateEntryTx, TablesOK, Without
<1>5. (users \subseteq Ids \X PasswordHashes)'
  BY <1>1 DEF UpdateEntryTx, TablesOK, UpdatePassword, Entry
<1>6. MemberRows(entries, id, e.members) \subseteq Ids \X Ids
  BY <1>1 DEF MemberRows, TablesOK, EntryRows
<1>7. (groupMembers \subseteq Ids \X Ids)'
  BY <1>6 DEF UpdateEntryTx, TablesOK, ReplaceMembers, Without
<1> QED
  BY <1>3, <1>4, <1>5, <1>7 DEF UpdateEntryTx, TablesOK

\* DeleteEntry leaves well-typed tables.
LEMMA DeleteTablesOK ==
    ASSUME TablesOK, NEW d, DeleteEntryTx(d)
    PROVE  TablesOK'
  BY DEF DeleteEntryTx, Cascade, TablesOK, Without, attributes, classTables

\* The empty tables of a new schema are well typed.
LEMMA InitTablesOK == InitTables => TablesOK
  BY StoreAssumption DEF InitTables, TablesOK

----
(* Each transaction keeps the invariants of the tables *)

\* A new row has an id and a UUID that no table holds yet.
LEMMA CreateKeepsTables ==
    ASSUME TablesInv, NEW e \in Entry, CreateEntryTx(e)
    PROVE  TablesInv'
<1> USE DEF NewId
<1> DEFINE row == NewRow(e)
<1>1. nextId \in Nat /\ nextUuid \in Nat /\ nextId' = nextId + 1 /\ nextUuid' = nextUuid + 1
  BY StoreAssumption DEF CreateEntryTx, TablesInv, TablesOK
<1>2. row.id = nextId /\ row.dn = e.dn /\ row.class = e.class
  BY DEF NewRow
<1>3. entries' = entries \cup {row} /\ ~Exists(e.dn)
  BY DEF CreateEntryTx, CanCreate
<1>4. \A r \in entries : r.id < nextId /\ r.id \in Nat
  BY DEF TablesInv, BelowCounters, TablesOK, EntryRows, Ids
<1>6. UniqueId'
  BY <1>2, <1>3, <1>4 DEF TablesInv, UniqueId
<1>7. UniqueDN'
  BY <1>2, <1>3 DEF TablesInv, UniqueDN, Exists
<1>8. BelowCounters'
  <2>1. \A r \in entries' : r.id < nextId'
    BY <1>1, <1>2, <1>3, <1>4
  <2>2. \A x \in otherAttr' \cup memberAttr' \cup users' : x[1] < nextId'
    BY <1>1 DEF CreateEntryTx, TablesInv, BelowCounters, TablesOK, Ids
  <2>3. \A x \in uuidAttr' : x[1] < nextId' /\ x[2] < nextUuid'
    BY <1>1 DEF CreateEntryTx, TablesInv, BelowCounters, TablesOK, Ids
  <2>4. \A x \in MemberRows(entries', nextId, e.members) : x[1] < nextId' /\ x[2] < nextId'
    BY <1>1, <1>2, <1>3, <1>4 DEF MemberRows
  <2>5. \A x \in groupMembers' : x[1] < nextId' /\ x[2] < nextId'
    <3>1. groupMembers' \subseteq groupMembers \cup MemberRows(entries', nextId, e.members)
      BY DEF CreateEntryTx
    <3>2. \A x \in groupMembers :
              x[1] < nextId /\ x[2] < nextId /\ x[1] \in Nat /\ x[2] \in Nat
      BY DEF TablesInv, BelowCounters, TablesOK, Ids
    <3> QED
      BY <1>1, <2>4, <3>1, <3>2
  <2>6. \A id \in groups' \cup ous' : id < nextId'
    <3>1. groups' \cup ous' \subseteq groups \cup ous \cup {nextId}
      BY DEF CreateEntryTx
    <3>2. \A id \in groups \cup ous : id < nextId /\ id \in Nat
      BY DEF TablesInv, BelowCounters, TablesOK, Ids
    <3> QED
      BY <1>1, <3>1, <3>2
  <2> QED
    BY <2>1, <2>2, <2>3, <2>5, <2>6 DEF BelowCounters
<1>9. ClassRows'
  <2>1. \A x \in users : x[1] # nextId
    BY <1>1 DEF TablesInv, BelowCounters
  <2>2. nextId \notin groups /\ nextId \notin ous
    BY <1>1 DEF TablesInv, BelowCounters
  <2>3. \A r \in entries : r.id # nextId
    BY <1>1, <1>4
  <2>4. \A r \in entries' : r.id \in groups' <=> r.class = "groupOfNames"
    BY <1>2, <1>3, <2>2, <2>3 DEF CreateEntryTx, TablesInv, ClassRows
  <2>5. \A r \in entries' : r.id \in ous' <=> r.class = "organizationalUnit"
    BY <1>2, <1>3, <2>2, <2>3 DEF CreateEntryTx, TablesInv, ClassRows
  <2>6. \A r \in entries' : (\E x \in users' : x[1] = r.id) <=> r.class = "inetOrgPerson"
    <3> DEFINE new == <<nextId, e.password>>
    <3>1. users' = IF e.class = "inetOrgPerson" THEN users \cup {new} ELSE users
      BY DEF CreateEntryTx
    <3>2. new[1] = nextId
      OBVIOUS
    <3>3. \A r \in entries : (\E x \in users : x[1] = r.id) <=> r.class = "inetOrgPerson"
      BY DEF TablesInv, ClassRows
    <3> HIDE DEF new, row
    <3> QED
      BY <1>2, <1>3, <2>1, <2>3, <3>1, <3>2, <3>3
  <2>7. \A x, y \in users' : x[1] = y[1] => x = y
    BY <2>1 DEF CreateEntryTx, TablesInv, ClassRows
  <2> QED
    BY <2>4, <2>5, <2>6, <2>7 DEF ClassRows
<1>10. UuidIdentifies'
  <2>1. uuidAttr' = uuidAttr \cup {<<nextId, nextUuid>>}
    BY DEF CreateEntryTx
  <2>2. \A x \in uuidAttr : x[1] < nextId /\ x[2] < nextUuid /\ x[1] \in Nat /\ x[2] \in Nat
    BY DEF TablesInv, BelowCounters, TablesOK, Ids
  <2>3. \A r \in entries' : r.id = nextId => StoredUuids(r.id)' = {nextUuid}
    <3> DEFINE new == <<nextId, nextUuid>>
    <3>1. new[1] = nextId /\ new[2] = nextUuid
      OBVIOUS
    <3>2. {x \in uuidAttr' : x[1] = nextId} = {new}
      BY <1>1, <2>1, <2>2, <3>1
    <3>3. {x[2] : x \in {new}} = {nextUuid}
      BY <3>1
    <3> HIDE DEF new
    <3> QED
      BY <3>2, <3>3 DEF StoredUuids
  <2>4. \A r \in entries : StoredUuids(r.id)' = StoredUuids(r.id)
    BY <1>1, <1>4, <2>1 DEF StoredUuids
  <2>5. \A r \in entries' : \E x \in uuidAttr' : StoredUuids(r.id)' = {x[2]}
    <3>1. \A r \in entries' : r.id = nextId => \E x \in uuidAttr' : StoredUuids(r.id)' = {x[2]}
      <4> DEFINE new == <<nextId, nextUuid>>
      <4>1. new \in uuidAttr' /\ new[2] = nextUuid
        BY <2>1
      <4> HIDE DEF new
      <4> QED
        BY <2>3, <4>1
    <3>2. \A r \in entries : \E x \in uuidAttr' : StoredUuids(r.id)' = {x[2]}
      BY <2>1, <2>4 DEF TablesInv, UuidIdentifies
    <3> QED
      BY <1>2, <1>3, <3>1, <3>2
  <2>6. \A x, y \in uuidAttr' : x[2] = y[2] => x[1] = y[1]
    BY <1>1, <2>1, <2>2 DEF TablesInv, UuidIdentifies
  <2> QED
    BY <2>5, <2>6 DEF UuidIdentifies
<1> QED
  BY <1>6, <1>7, <1>8, <1>9, <1>10, CreateTablesOK DEF TablesInv

\* Writing an entry back keeps the UUID its row has, whatever UUID the copy carries.
LEMMA UpdateKeepsUuid ==
    ASSUME TablesInv, NEW e, UpdateEntryTx(e)
    PROVE  uuidAttr' = uuidAttr /\ nextUuid' = nextUuid
<1> DEFINE id == IdOf(e.dn)
<1>1. RowAt(e.dn) \in entries
  BY RowAtExists DEF UpdateEntryTx, CanUpdate
<1>2. PICK x \in uuidAttr : StoredUuids(id) = {x[2]}
  BY <1>1 DEF IdOf, TablesInv, UuidIdentifies
<1>3. KeptUuid(id, e) = x[2]
  BY <1>2 DEF KeptUuid
<1>4. x[2] \in Nat /\ x[2] < nextUuid /\ nextUuid \in Nat
  BY DEF TablesInv, BelowCounters, TablesOK
<1>5. nextUuid' = nextUuid
  BY <1>3, <1>4 DEF UpdateEntryTx
<1>6. \A y \in uuidAttr : y[1] = id => y = <<id, x[2]>>
  <2>1. \A y \in uuidAttr : y[1] = id => y[2] \in StoredUuids(id)
    BY DEF StoredUuids
  <2> QED
    BY <1>2, <2>1 DEF TablesInv, TablesOK
<1>7. <<id, x[2]>> \in uuidAttr
  <2>1. PICK y \in uuidAttr : y[1] = id
    BY <1>2 DEF StoredUuids
  <2> QED
    BY <1>6, <2>1
<1>8. Without(uuidAttr, id) \cup {<<id, x[2]>>} = uuidAttr
  BY <1>6, <1>7 DEF Without
<1> QED
  BY <1>3, <1>5, <1>8 DEF UpdateEntryTx

\* UpdateEntry keeps the tables' invariants: it changes the row its copy names by DN, and
\* neither the DN nor the entryUUID of a row.
LEMMA UpdateKeepsTables ==
    ASSUME TablesInv, NEW e \in Entry, UpdateEntryTx(e)
    PROVE  TablesInv'
<1> DEFINE id == IdOf(e.dn)
<1>1. RowAt(e.dn) \in entries /\ id \in Nat /\ id < nextId
  BY RowAtExists DEF UpdateEntryTx, CanUpdate, IdOf, TablesInv, TablesOK,
                     EntryRows, Ids, BelowCounters
<1>2. /\ entries' = entries /\ groups' = groups /\ ous' = ous /\ nextId' = nextId
      /\ uuidAttr' = uuidAttr /\ nextUuid' = nextUuid
  BY UpdateKeepsUuid DEF UpdateEntryTx
<1>3. \A x \in users' : \E y \in users : x[1] = y[1]
  BY DEF UpdateEntryTx, UpdatePassword
<1>4. \A y \in users : \E x \in users' : x[1] = y[1]
  <2>1. CASE e.class = "inetOrgPerson" /\ e.password # NoPassword
    <3>1. users' = {IF y[1] = id THEN <<id, e.password>> ELSE y : y \in users}
      BY <2>1 DEF UpdateEntryTx, UpdatePassword
    <3>2. \A y \in users : (IF y[1] = id THEN <<id, e.password>> ELSE y)[1] = y[1]
      OBVIOUS
    <3> QED
      BY <3>1, <3>2
  <2>2. CASE ~(e.class = "inetOrgPerson" /\ e.password # NoPassword)
    BY <2>2 DEF UpdateEntryTx, UpdatePassword
  <2> QED
    BY <2>1, <2>2
<1>5. \A x, y \in users' : x[1] = y[1] => x = y
  BY DEF UpdateEntryTx, UpdatePassword, TablesInv, ClassRows
<1>6. UniqueId' /\ UniqueDN'
  BY <1>2 DEF TablesInv, UniqueId, UniqueDN
<1>7. BelowCounters'
  <2>1. \A x \in otherAttr' \cup memberAttr' : x[1] < nextId'
    BY <1>1, <1>2 DEF UpdateEntryTx, Without, TablesInv, BelowCounters
  <2>2. \A x \in users' : x[1] < nextId'
    BY <1>2, <1>3 DEF TablesInv, BelowCounters
  <2>3. \A x \in MemberRows(entries, id, e.members) : x[1] < nextId /\ x[2] < nextId
    BY <1>1 DEF MemberRows, TablesInv, BelowCounters
  <2>4. groupMembers' \subseteq groupMembers \cup MemberRows(entries, id, e.members)
    BY DEF UpdateEntryTx, ReplaceMembers, Without
  <2>5. \A x \in groupMembers' : x[1] < nextId' /\ x[2] < nextId'
    BY <1>2, <2>3, <2>4 DEF TablesInv, BelowCounters
  <2> QED
    BY <1>2, <2>1, <2>2, <2>5 DEF TablesInv, BelowCounters
<1>8. ClassRows'
  BY <1>2, <1>3, <1>4, <1>5 DEF TablesInv, ClassRows
<1>9. UuidIdentifies'
  BY <1>2 DEF TablesInv, UuidIdentifies, StoredUuids
<1> QED
  BY <1>6, <1>7, <1>8, <1>9, UpdateTablesOK DEF TablesInv

\* It touches the rows of one entry only.
LEMMA UpdateTouchesOne ==
    ASSUME TablesInv, NEW e \in Entry, UpdateEntryTx(e)
    PROVE  OnlyRowsOf(IdOf(e.dn))
<1> DEFINE id == IdOf(e.dn)
<1>1. /\ otherAttr' = Without(otherAttr, id) \cup ({id} \X e.attrs)
      /\ memberAttr' = Without(memberAttr, id) \cup ({id} \X e.members)
      /\ users' = UpdatePassword(id, e) /\ groupMembers' = ReplaceMembers(id, e)
      /\ entries' = entries /\ groups' = groups /\ ous' = ous /\ nextId' = nextId
      /\ uuidAttr' = uuidAttr
  BY UpdateKeepsUuid DEF UpdateEntryTx
<1> HIDE DEF id
<1>2. Without(otherAttr', id) = Without(otherAttr, id)
  BY <1>1 DEF Without
<1>3. Without(memberAttr', id) = Without(memberAttr, id)
  BY <1>1 DEF Without
<1>4. Without(users', id) = Without(users, id)
  BY <1>1 DEF Without, UpdatePassword
<1>5. Without(groupMembers', id) = Without(groupMembers, id)
  BY <1>1 DEF Without, ReplaceMembers, MemberRows
<1> QED
  BY <1>1, <1>2, <1>3, <1>4, <1>5 DEF OnlyRowsOf, id

\* Only the deleted entry loses rows, if any does: no other live entry has its id.
LEMMA DeleteKeepsTables ==
    ASSUME TablesInv, NEW d, DeleteEntryTx(d)
    PROVE  TablesInv' /\ \A r \in entries' : r.id # IdOf(d)
<1> DEFINE id == IdOf(d)
<1>1. RowAt(d) \in entries /\ RowAt(d).dn = d
  BY RowAtExists DEF DeleteEntryTx
<1>2. entries' = {r \in entries : r.dn # d} /\ nextId' = nextId /\ nextUuid' = nextUuid
  BY DEF DeleteEntryTx
<1>3. \A r \in entries' : r \in entries /\ r.id # id
  BY <1>1, <1>2 DEF IdOf, TablesInv, UniqueId
<1>4. UniqueId' /\ UniqueDN'
  BY <1>2 DEF TablesInv, UniqueId, UniqueDN
<1>5. /\ otherAttr' \subseteq otherAttr /\ memberAttr' \subseteq memberAttr
      /\ uuidAttr' \subseteq uuidAttr /\ users' \subseteq users
      /\ groups' \subseteq groups /\ ous' \subseteq ous /\ groupMembers' \subseteq groupMembers
  BY DEF DeleteEntryTx, Cascade, Without, attributes, classTables
<1>6. /\ \A x \in users : x[1] # id => x \in users'
      /\ \A x \in uuidAttr : x[1] # id => x \in uuidAttr'
      /\ \A x \in groups : x # id => x \in groups'
      /\ \A x \in ous : x # id => x \in ous'
  BY DEF DeleteEntryTx, Cascade, Without, attributes, classTables
<1>7. BelowCounters'
  BY <1>2, <1>5 DEF TablesInv, BelowCounters
<1>8. ClassRows'
  BY <1>3, <1>5, <1>6 DEF TablesInv, ClassRows
<1>9. UuidIdentifies'
  <2>1. \A r \in entries' : StoredUuids(r.id)' = StoredUuids(r.id)
    BY <1>3, <1>5, <1>6 DEF StoredUuids
  <2>2. \A r \in entries' : \E x \in uuidAttr' : StoredUuids(r.id)' = {x[2]}
    <3> SUFFICES ASSUME NEW r \in entries' PROVE \E x \in uuidAttr' : StoredUuids(r.id)' = {x[2]}
      OBVIOUS
    <3>1. PICK x \in uuidAttr : StoredUuids(r.id) = {x[2]}
      BY <1>3 DEF TablesInv, UuidIdentifies
    <3>2. PICK y \in uuidAttr : y[1] = r.id /\ y[2] = x[2]
      BY <3>1 DEF StoredUuids
    <3>3. y \in uuidAttr'
      BY <1>3, <1>6, <3>2
    <3> QED
      BY <2>1, <3>1, <3>2, <3>3
  <2> QED
    BY <1>5, <2>2 DEF TablesInv, UuidIdentifies
<1> QED
  BY <1>3, <1>4, <1>7, <1>8, <1>9, DeleteTablesOK DEF TablesInv

\* So does a step that writes nothing.
LEMMA SameTablesInv == TablesInv /\ UNCHANGED tables => TablesInv'
<1> SUFFICES ASSUME TablesInv, UNCHANGED tables PROVE TablesInv'
  OBVIOUS
<1>1. /\ entries' = entries /\ otherAttr' = otherAttr /\ memberAttr' = memberAttr
      /\ uuidAttr' = uuidAttr /\ users' = users /\ groups' = groups /\ ous' = ous
      /\ groupMembers' = groupMembers /\ nextId' = nextId /\ nextUuid' = nextUuid
  BY DEF tables, attributes, classTables
<1>2. TablesOK'
  BY <1>1 DEF TablesInv, TablesOK
<1>3. UniqueId' /\ BelowCounters' /\ UniqueDN' /\ ClassRows'
  BY <1>1 DEF TablesInv, UniqueId, BelowCounters, UniqueDN, ClassRows
<1>4. UuidIdentifies'
  BY <1>1 DEF TablesInv, UuidIdentifies, StoredUuids
<1> QED
  BY <1>2, <1>3, <1>4 DEF TablesInv

\* A new schema keeps the invariants.
LEMMA InitTablesInv == InitTables => TablesInv
  BY InitTablesOK
     DEF InitTables, TablesInv, UniqueId, BelowCounters, UniqueDN, ClassRows, UuidIdentifies

\* A seeded table keeps them too: entry i has the id and the UUID i.
LEMMA SeededTablesInv ==
    ASSUME NEW seed, SeedOK(seed), SeededTables(seed)
    PROVE  /\ TablesInv
           /\ \A r \in entries : r.class \in ClassesAt[r.dn]
<1>1. PICK n \in 0 .. MaxId : DOMAIN seed = 1 .. n
  BY DEF SeedOK
<1>2. n \in Nat /\ n <= MaxId /\ MaxId \in Nat
  BY StoreAssumption
<1>3. nextId = n + 1 /\ nextUuid = n + 1
  <2>1. Cardinality(1 .. n) = n
    BY <1>2, FS_Interval
  <2> QED
    BY <1>1, <2>1 DEF SeededTables
<1>4. \A i \in 1 .. n : seed[i] \in Entry /\ seed[i].class \in ClassesAt[seed[i].dn]
  BY <1>1 DEF SeedOK
<1>5. /\ entries = {[id |-> i, dn |-> seed[i].dn, class |-> seed[i].class] : i \in 1 .. n}
      /\ uuidAttr = {<<i, i>> : i \in 1 .. n}
      /\ groups = {i \in 1 .. n : seed[i].class = "groupOfNames"}
      /\ ous = {i \in 1 .. n : seed[i].class = "organizationalUnit"}
      /\ users = {<<i, seed[i].password>> :
                    i \in {j \in 1 .. n : seed[j].class = "inetOrgPerson"}}
  BY <1>1 DEF SeededTables
<1>6. \A r \in entries : \E i \in 1 .. n : r.id = i /\ r.dn = seed[i].dn /\ r.class = seed[i].class
                                              /\ r \in EntryRows
  BY <1>2, <1>4, <1>5 DEF EntryRows, Ids, Entry
<1>7. /\ otherAttr \subseteq (1 .. n) \X Attrs
      /\ memberAttr \subseteq (1 .. n) \X DNs
  BY <1>1, <1>4 DEF SeededTables, Entry
<1>8. uuidAttr \subseteq (1 .. n) \X (1 .. n) /\ users \subseteq (1 .. n) \X PasswordHashes
  BY <1>4, <1>5 DEF Entry
<1>9. groupMembers \subseteq (1 .. n) \X (1 .. n)
  <2> DEFINE idAt(d) == CHOOSE i \in 1 .. n : seed[i].dn = d
  <2>1. groupMembers = UNION {{<<i, idAt(d)>> : d \in seed[i].members} : i \in 1 .. n}
    BY <1>1 DEF SeededTables
  <2>2. \A i \in 1 .. n : \A d \in seed[i].members : \E j \in 1 .. n : seed[j].dn = d
    BY <1>1 DEF SeedOK
  <2>3. \A i \in 1 .. n : \A d \in seed[i].members : idAt(d) \in 1 .. n
    BY <2>2
  <2> HIDE DEF idAt
  <2> QED
    BY <2>1, <2>3
<1>10. TablesOK
  BY <1>2, <1>3, <1>5, <1>6, <1>7, <1>8, <1>9 DEF TablesOK, Ids
<1>11. UniqueId /\ UniqueDN
  BY <1>1, <1>5 DEF UniqueId, UniqueDN, SeedOK
<1>12. BelowCounters
  BY <1>2, <1>3, <1>5, <1>6, <1>7, <1>8, <1>9 DEF BelowCounters
<1>13. ClassRows
  <2>1. \A r \in entries : (\E row \in users : row[1] = r.id) <=> r.class = "inetOrgPerson"
    <3> SUFFICES ASSUME NEW r \in entries
                 PROVE  (\E row \in users : row[1] = r.id) <=> r.class = "inetOrgPerson"
      OBVIOUS
    <3>1. PICK i \in 1 .. n : r.id = i /\ r.class = seed[i].class
      BY <1>6
    <3> DEFINE new == <<i, seed[i].password>>
    <3>2. new[1] = i /\ (seed[i].class = "inetOrgPerson" => new \in users)
      BY <1>5
    <3>3. \A row \in users : row[1] = i => seed[i].class = "inetOrgPerson"
      BY <1>5
    <3> HIDE DEF new
    <3> QED
      BY <3>1, <3>2, <3>3
  <2>2. \A x, y \in users : x[1] = y[1] => x = y
    BY <1>5
  <2>3. \A r \in entries : /\ r.id \in groups <=> r.class = "groupOfNames"
                           /\ r.id \in ous <=> r.class = "organizationalUnit"
    BY <1>5
  <2> QED
    BY <2>1, <2>2, <2>3 DEF ClassRows
<1>14. UuidIdentifies
  <2>1. ASSUME NEW r \in entries PROVE \E x \in uuidAttr : StoredUuids(r.id) = {x[2]}
    <3>1. PICK i \in 1 .. n : r.id = i
      BY <1>6
    <3> DEFINE x == <<i, i>>
    <3>2. x \in uuidAttr /\ x[1] = i /\ x[2] = i
      BY <1>5
    <3>3. \A y \in uuidAttr : y[1] = i => y[2] = i
      BY <1>5
    <3> HIDE DEF x
    <3>4. StoredUuids(r.id) = {i}
      BY <3>1, <3>2, <3>3 DEF StoredUuids
    <3> QED
      BY <3>2, <3>4
  <2>2. \A x, y \in uuidAttr : x[2] = y[2] => x[1] = y[1]
    BY <1>5
  <2> QED
    BY <2>1, <2>2 DEF UuidIdentifies
<1> QED
  BY <1>4, <1>6, <1>10, <1>11, <1>12, <1>13, <1>14 DEF TablesInv

----
(* The map from DNs to entries that the tables show *)

\* What LiveEntries shows of the row r.
ShownAs(r) ==
    /\ RowAt(r.dn) = r
    /\ LiveEntries[r.dn] = [class |-> r.class,
                            attrs |-> {a \in Attrs : <<r.id, a>> \in otherAttr},
                            members |-> {d \in DNs : <<r.id, d>> \in memberAttr},
                            password |-> LiveEntries[r.dn].password,
                            uuid |-> LiveEntries[r.dn].uuid]
    /\ StoredUuids(r.id) = {LiveEntries[r.dn].uuid}
    /\ \A row \in users : row[1] = r.id => LiveEntries[r.dn].password = row[2]
    /\ r.class # "inetOrgPerson" => LiveEntries[r.dn].password = NoPassword

LiveShape ==
    /\ DOMAIN LiveEntries = {r.dn : r \in entries}
    /\ LiveEntries = [d \in DOMAIN LiveEntries |-> LiveEntries[d]]
    /\ \A r \in entries : ShownAs(r)

LEMMA LiveEntriesShape == TablesInv => LiveShape
<1> SUFFICES ASSUME TablesInv PROVE LiveShape
  OBVIOUS
<1>1. DOMAIN LiveEntries = {r.dn : r \in entries}
      /\ LiveEntries = [d \in DOMAIN LiveEntries |-> LiveEntries[d]]
  BY DEF LiveEntries
<1>2. ASSUME NEW r \in entries PROVE ShownAs(r)
  <2>1. RowAt(r.dn) = r
    <3>1. Exists(r.dn)
      BY DEF Exists
    <3> QED
      BY <3>1, RowAtExists DEF TablesInv, UniqueDN
  <2>2. LiveEntries[r.dn] = LiveEntry(r)
    BY <2>1 DEF LiveEntries
  <2>3. \E u : StoredUuids(r.id) = {u}
    BY DEF TablesInv, UuidIdentifies
  <2>4. StoredUuids(r.id) = {LiveEntry(r).uuid}
    BY <2>3 DEF LiveEntry
  <2>5. LiveEntry(r).password = StoredPassword(r.id)
    BY DEF LiveEntry
  <2>6. \A row \in users : row[1] = r.id => StoredPassword(r.id) = row[2]
    BY DEF StoredPassword, TablesInv, ClassRows
  <2>7. r.class # "inetOrgPerson" => StoredPassword(r.id) = NoPassword
    BY DEF StoredPassword, TablesInv, ClassRows
  <2>8. LiveEntry(r) =
                 [class |-> r.class,
                  attrs |-> {a \in Attrs : <<r.id, a>> \in otherAttr},
                  members |-> {d \in DNs : <<r.id, d>> \in memberAttr},
                  password |-> LiveEntry(r).password,
                  uuid |-> LiveEntry(r).uuid]
    BY DEF LiveEntry
  <2> QED
    BY <2>1, <2>2, <2>4, <2>5, <2>6, <2>7, <2>8 DEF ShownAs
<1> QED
  BY <1>1, <1>2 DEF LiveShape

LEMMA LiveEntriesShapeNext == TablesInv' => LiveShape'
 BY LiveEntriesShape, PTL

\* A row that stays, with its attributes, UUID and hash, shows as it did.
LEMMA LiveEntryKept ==
    ASSUME LiveShape, LiveShape', ClassRows, NEW r \in entries, r \in entries',
           \A a : <<r.id, a>> \in otherAttr' <=> <<r.id, a>> \in otherAttr,
           \A d : <<r.id, d>> \in memberAttr' <=> <<r.id, d>> \in memberAttr,
           StoredUuids(r.id)' = StoredUuids(r.id),
           \A row \in users : row[1] = r.id => row \in users'
    PROVE  LiveEntries'[r.dn] = LiveEntries[r.dn]
<1>1. ShownAs(r) /\ ShownAs(r)'
  BY DEF LiveShape
<1>2. LiveEntries'[r.dn].uuid = LiveEntries[r.dn].uuid
  <2>1. StoredUuids(r.id) = {LiveEntries[r.dn].uuid}
    BY <1>1 DEF ShownAs
  <2>2. StoredUuids(r.id)' = {LiveEntries'[r.dn].uuid}
    BY <1>1 DEF ShownAs
  <2> QED
    BY <2>1, <2>2
<1>3. LiveEntries'[r.dn].password = LiveEntries[r.dn].password
  <2>1. CASE r.class = "inetOrgPerson"
    <3>1. PICK row \in users : row[1] = r.id
      BY <2>1 DEF ClassRows
    <3>2. LiveEntries[r.dn].password = row[2]
      BY <1>1, <3>1 DEF ShownAs
    <3>3. LiveEntries'[r.dn].password = row[2]
      BY <1>1, <3>1 DEF ShownAs
    <3> QED
      BY <3>2, <3>3
  <2>2. CASE r.class # "inetOrgPerson"
    BY <1>1, <2>2 DEF ShownAs
  <2> QED
    BY <2>1, <2>2
<1>4. {a \in Attrs : <<r.id, a>> \in otherAttr'} = {a \in Attrs : <<r.id, a>> \in otherAttr}
  OBVIOUS
<1>5. {d \in DNs : <<r.id, d>> \in memberAttr'} = {d \in DNs : <<r.id, d>> \in memberAttr}
  OBVIOUS
<1>6. LiveEntries[r.dn] = [class |-> r.class,
                           attrs |-> {a \in Attrs : <<r.id, a>> \in otherAttr},
                           members |-> {d \in DNs : <<r.id, d>> \in memberAttr},
                           password |-> LiveEntries[r.dn].password,
                           uuid |-> LiveEntries[r.dn].uuid]
  BY <1>1 DEF ShownAs
<1>7. LiveEntries'[r.dn] = [class |-> r.class,
                            attrs |-> {a \in Attrs : <<r.id, a>> \in otherAttr'},
                            members |-> {d \in DNs : <<r.id, d>> \in memberAttr'},
                            password |-> LiveEntries'[r.dn].password,
                            uuid |-> LiveEntries'[r.dn].uuid]
  BY <1>1 DEF ShownAs
<1> QED
  BY <1>2, <1>3, <1>4, <1>5, <1>6, <1>7

\* CreateEntry adds what it was given under its DN, with a new UUID.
LEMMA CreateLive ==
    ASSUME TablesInv, NEW e \in Entry, CreateEntryTx(e)
    PROVE  /\ LiveEntries' = [d \in DOMAIN LiveEntries \cup {e.dn} |->
                                 IF d = e.dn THEN LiveEntries'[e.dn] ELSE LiveEntries[d]]
           /\ LiveEntries'[e.dn] =
                 [class |-> e.class, attrs |-> e.attrs, members |-> e.members,
                  password |-> IF e.class = "inetOrgPerson" THEN e.password ELSE NoPassword,
                  uuid |-> nextUuid]
<1>0. PICK row : row = NewRow(e)
  OBVIOUS
<1>1. LiveShape /\ LiveShape'
  BY LiveEntriesShape, LiveEntriesShapeNext, CreateKeepsTables
<1>2. row.id = nextId /\ row.dn = e.dn /\ row.class = e.class /\ entries' = entries \cup {row}
  BY <1>0 DEF NewRow, NewId, CreateEntryTx
<1>3. /\ \A x \in otherAttr \cup memberAttr \cup uuidAttr \cup users : x[1] # nextId
      /\ \A r \in entries : r.id # nextId /\ r.dn # e.dn
  BY DEF TablesInv, BelowCounters, TablesOK, EntryRows, Ids, CreateEntryTx, CanCreate, Exists
<1>4. /\ otherAttr' = otherAttr \cup ({nextId} \X e.attrs)
      /\ memberAttr' = memberAttr \cup ({nextId} \X e.members)
      /\ uuidAttr' = uuidAttr \cup {<<nextId, nextUuid>>}
      /\ users' = IF e.class = "inetOrgPerson"
                  THEN users \cup {<<nextId, e.password>>} ELSE users
  BY DEF CreateEntryTx, NewId
<1>5. ASSUME NEW r \in entries PROVE LiveEntries'[r.dn] = LiveEntries[r.dn]
  <2>1. StoredUuids(r.id)' = StoredUuids(r.id)
    <3>1. {x \in uuidAttr' : x[1] = r.id} = {x \in uuidAttr : x[1] = r.id}
      BY <1>3, <1>4
    <3> QED
      BY <3>1 DEF StoredUuids
  <2>2. /\ \A a : <<r.id, a>> \in otherAttr' <=> <<r.id, a>> \in otherAttr
        /\ \A d : <<r.id, d>> \in memberAttr' <=> <<r.id, d>> \in memberAttr
    BY <1>3, <1>4
  <2>3. \A x \in users : x[1] = r.id => x \in users'
    BY <1>4
  <2>4. r \in entries' /\ ClassRows
    BY <1>2 DEF TablesInv
  <2> QED
    BY <1>1, <2>1, <2>2, <2>3, <2>4, LiveEntryKept
<1>6. DOMAIN LiveEntries' = DOMAIN LiveEntries \cup {e.dn}
  BY <1>1, <1>2 DEF LiveShape
<1>7. LiveEntries'[e.dn] =
        [class |-> e.class, attrs |-> e.attrs, members |-> e.members,
         password |-> IF e.class = "inetOrgPerson" THEN e.password ELSE NoPassword,
         uuid |-> nextUuid]
  <2>1. row \in entries' /\ ShownAs(row)'
    BY <1>1, <1>2 DEF LiveShape
  <2>2. LiveEntries'[e.dn].uuid = nextUuid
    <3> DEFINE new == <<nextId, nextUuid>>
    <3>1. new[1] = nextId /\ new[2] = nextUuid
      OBVIOUS
    <3>2. nextUuid \in StoredUuids(row.id)'
      BY <1>2, <1>4, <3>1 DEF StoredUuids
    <3>3. StoredUuids(row.id)' = {LiveEntries'[row.dn].uuid}
      BY <2>1 DEF ShownAs
    <3> QED
      BY <1>2, <3>2, <3>3
  <2>3. LiveEntries'[e.dn].password =
          IF e.class = "inetOrgPerson" THEN e.password ELSE NoPassword
    <3> DEFINE new == <<nextId, e.password>>
    <3>1. new[1] = nextId /\ new[2] = e.password
      OBVIOUS
    <3>2. e.class = "inetOrgPerson" => new \in users'
      BY <1>4
    <3>3. /\ \A x \in users' : x[1] = row.id => LiveEntries'[row.dn].password = x[2]
          /\ row.class # "inetOrgPerson" => LiveEntries'[row.dn].password = NoPassword
      BY <2>1 DEF ShownAs
    <3> HIDE DEF new
    <3> QED
      BY <1>2, <3>1, <3>2, <3>3
  <2>4. {a \in Attrs : <<nextId, a>> \in otherAttr'} = e.attrs
    BY <1>3, <1>4 DEF Entry
  <2>5. {d \in DNs : <<nextId, d>> \in memberAttr'} = e.members
    BY <1>3, <1>4 DEF Entry
  <2>6. LiveEntries'[row.dn] = [class |-> row.class,
                                attrs |-> {a \in Attrs : <<row.id, a>> \in otherAttr'},
                                members |-> {d \in DNs : <<row.id, d>> \in memberAttr'},
                                password |-> LiveEntries'[row.dn].password,
                                uuid |-> LiveEntries'[row.dn].uuid]
    BY <2>1 DEF ShownAs
  <2> QED
    BY <1>2, <2>2, <2>3, <2>4, <2>5, <2>6
<1>8. LiveEntries' = [d \in DOMAIN LiveEntries \cup {e.dn} |->
                        IF d = e.dn THEN LiveEntries'[e.dn] ELSE LiveEntries[d]]
  <2>1. \A d \in DOMAIN LiveEntries : LiveEntries'[d] = LiveEntries[d]
    BY <1>1, <1>5 DEF LiveShape
  <2>2. LiveEntries' = [d \in DOMAIN LiveEntries \cup {e.dn} |-> LiveEntries'[d]]
    BY <1>1, <1>6 DEF LiveShape
  <2>3. ASSUME NEW L, NEW M, NEW k, L = [d \in DOMAIN M \cup {k} |-> L[d]],
               \A d \in DOMAIN M : L[d] = M[d]
        PROVE  L = [d \in DOMAIN M \cup {k} |-> IF d = k THEN L[k] ELSE M[d]]
    BY <2>3
  <2> QED
    BY <2>1, <2>2, <2>3
<1> QED
  BY <1>7, <1>8

\* UpdateEntry replaces what is shown under the DN, but for the class, the UUID and, unless
\* the row and the copy are a user's and the copy carries one, the password.
LEMMA UpdateLive ==
    ASSUME TablesInv, NEW e \in Entry, UpdateEntryTx(e)
    PROVE  \E p \in {LiveEntries[e.dn].password, e.password} :
              /\ LiveEntries' = [LiveEntries EXCEPT ![e.dn] =
                                   [class |-> RowAt(e.dn).class, attrs |-> e.attrs,
                                    members |-> e.members, password |-> p,
                                    uuid |-> LiveEntries[e.dn].uuid]]
              /\ LiveEntries[e.dn].class = RowAt(e.dn).class
              /\ \/ p = LiveEntries[e.dn].password
                 \/ RowAt(e.dn).class = "inetOrgPerson" /\ p # NoPassword
<1>0. PICK row \in entries : row = RowAt(e.dn) /\ row.dn = e.dn /\ IdOf(e.dn) = row.id
  BY RowAtExists DEF UpdateEntryTx, CanUpdate, IdOf
<1>1. LiveShape /\ LiveShape'
  BY LiveEntriesShape, LiveEntriesShapeNext, UpdateKeepsTables
<1>2. entries' = entries /\ uuidAttr' = uuidAttr
  BY UpdateKeepsUuid DEF UpdateEntryTx
<1>3. /\ otherAttr' = Without(otherAttr, row.id) \cup ({row.id} \X e.attrs)
      /\ memberAttr' = Without(memberAttr, row.id) \cup ({row.id} \X e.members)
      /\ users' = UpdatePassword(row.id, e)
  BY <1>0 DEF UpdateEntryTx
<1>4. \A r \in entries : r # row => r.id # row.id /\ r.dn # row.dn
  BY <1>0 DEF TablesInv, UniqueId, UniqueDN
<1>5. ASSUME NEW r \in entries, r # row PROVE LiveEntries'[r.dn] = LiveEntries[r.dn]
  <2>1. StoredUuids(r.id)' = StoredUuids(r.id)
    BY <1>2 DEF StoredUuids
  <2>2. /\ \A a : <<r.id, a>> \in otherAttr' <=> <<r.id, a>> \in otherAttr
        /\ \A d : <<r.id, d>> \in memberAttr' <=> <<r.id, d>> \in memberAttr
    BY <1>3, <1>4, <1>5 DEF Without
  <2>3. \A x \in users : x[1] = r.id => x \in users'
    BY <1>3, <1>4, <1>5 DEF UpdatePassword
  <2>4. r \in entries' /\ ClassRows
    BY <1>2 DEF TablesInv
  <2> QED
    BY <1>1, <2>1, <2>2, <2>3, <2>4, LiveEntryKept
<1>6. ShownAs(row) /\ ShownAs(row)'
  BY <1>1, <1>2 DEF LiveShape
<1>7. LiveEntries'[row.dn].uuid = LiveEntries[row.dn].uuid
  <2>1. StoredUuids(row.id) = {LiveEntries[row.dn].uuid}
    BY <1>6 DEF ShownAs
  <2>2. StoredUuids(row.id)' = {LiveEntries'[row.dn].uuid}
    BY <1>6 DEF ShownAs
  <2>3. StoredUuids(row.id)' = StoredUuids(row.id)
    BY <1>2 DEF StoredUuids
  <2> QED
    BY <2>1, <2>2, <2>3
<1>8. \E p \in {LiveEntries[row.dn].password, e.password} :
          /\ LiveEntries'[row.dn].password = p
          /\ \/ p = LiveEntries[row.dn].password
             \/ row.class = "inetOrgPerson" /\ p # NoPassword
  <2> DEFINE new == <<row.id, e.password>>
             sets == e.class = "inetOrgPerson" /\ e.password # NoPassword
  <2>1. new[1] = row.id /\ new[2] = e.password
    OBVIOUS
  <2>2. /\ \A x \in users : x[1] = row.id => LiveEntries[row.dn].password = x[2]
        /\ row.class # "inetOrgPerson" => LiveEntries[row.dn].password = NoPassword
    BY <1>6 DEF ShownAs
  <2>3. /\ \A x \in users' : x[1] = row.id => LiveEntries'[row.dn].password = x[2]
        /\ row.class # "inetOrgPerson" => LiveEntries'[row.dn].password = NoPassword
    BY <1>6 DEF ShownAs
  <2>4. row.class = "inetOrgPerson" => \E x \in users : x[1] = row.id
    BY DEF TablesInv, ClassRows
  <2>5. CASE row.class # "inetOrgPerson"
    BY <2>2, <2>3, <2>5
  <2>6. CASE row.class = "inetOrgPerson" /\ sets
    <3>1. \A x \in users : x[1] = row.id => new \in users'
      BY <1>3, <2>6 DEF UpdatePassword
    <3> HIDE DEF new
    <3> QED
      BY <2>1, <2>3, <2>4, <2>6, <3>1
  <2>7. CASE row.class = "inetOrgPerson" /\ ~sets
    <3>1. users' = users
      BY <1>3, <2>7 DEF UpdatePassword
    <3> QED
      BY <2>2, <2>3, <2>4, <2>7, <3>1
  <2> QED
    BY <2>5, <2>6, <2>7
<1>9. {a \in Attrs : <<row.id, a>> \in otherAttr'} = e.attrs
  BY <1>3 DEF Entry, Without
<1>10. {d \in DNs : <<row.id, d>> \in memberAttr'} = e.members
  BY <1>3 DEF Entry, Without
<1>11. LiveEntries[row.dn] = [class |-> row.class,
                              attrs |-> {a \in Attrs : <<row.id, a>> \in otherAttr},
                              members |-> {d \in DNs : <<row.id, d>> \in memberAttr},
                              password |-> LiveEntries[row.dn].password,
                              uuid |-> LiveEntries[row.dn].uuid]
  BY <1>6 DEF ShownAs
<1>12. LiveEntries'[row.dn] = [class |-> row.class,
                               attrs |-> {a \in Attrs : <<row.id, a>> \in otherAttr'},
                               members |-> {d \in DNs : <<row.id, d>> \in memberAttr'},
                               password |-> LiveEntries'[row.dn].password,
                               uuid |-> LiveEntries'[row.dn].uuid]
  BY <1>6 DEF ShownAs
<1>13. /\ DOMAIN LiveEntries' = DOMAIN LiveEntries
       /\ LiveEntries = [d \in DOMAIN LiveEntries |-> LiveEntries[d]]
       /\ LiveEntries' = [d \in DOMAIN LiveEntries |-> LiveEntries'[d]]
       /\ row.dn \in DOMAIN LiveEntries
  BY <1>1, <1>2 DEF LiveShape
<1>14. \A d \in DOMAIN LiveEntries : d # row.dn => LiveEntries'[d] = LiveEntries[d]
  BY <1>1, <1>5 DEF LiveShape
<1>15. PICK p \in {LiveEntries[row.dn].password, e.password} :
          /\ LiveEntries'[row.dn].password = p
          /\ \/ p = LiveEntries[row.dn].password
             \/ row.class = "inetOrgPerson" /\ p # NoPassword
  BY <1>8
<1>16. LiveEntries'[row.dn] = [class |-> row.class, attrs |-> e.attrs, members |-> e.members,
                               password |-> p, uuid |-> LiveEntries[row.dn].uuid]
  BY <1>7, <1>9, <1>10, <1>12, <1>15
<1>17. LiveEntries' = [LiveEntries EXCEPT ![row.dn] =
                          [class |-> row.class, attrs |-> e.attrs, members |-> e.members,
                           password |-> p, uuid |-> LiveEntries[row.dn].uuid]]
  <2> DEFINE new == [class |-> row.class, attrs |-> e.attrs, members |-> e.members,
                     password |-> p, uuid |-> LiveEntries[row.dn].uuid]
  <2>1. LiveEntries'[row.dn] = new
    BY <1>16
  <2> HIDE DEF new
  <2>2. LiveEntries' = [LiveEntries EXCEPT ![row.dn] = new]
    BY <1>13, <1>14, <2>1
  <2> QED
    BY <2>2 DEF new
<1>18. LiveEntries[row.dn].class = row.class
  BY <1>11
<1> QED
  BY <1>0, <1>15, <1>17, <1>18

\* DeleteEntry takes away what is shown under the DN and nothing else.
LEMMA DeleteLive ==
    ASSUME TablesInv, NEW d, DeleteEntryTx(d)
    PROVE  LiveEntries' = [x \in DOMAIN LiveEntries \ {d} |-> LiveEntries[x]]
<1>1. LiveShape /\ LiveShape'
  BY LiveEntriesShape, LiveEntriesShapeNext, DeleteKeepsTables
<1>2. entries' = {r \in entries : r.dn # d} /\ \A r \in entries' : r.id # IdOf(d)
  BY DeleteKeepsTables DEF DeleteEntryTx
<1>3. PICK id : id = IdOf(d)
  OBVIOUS
<1>4. ASSUME NEW r \in entries, r.dn # d PROVE LiveEntries'[r.dn] = LiveEntries[r.dn]
  <2>1. r \in entries' /\ ClassRows /\ r.id # id
    BY <1>2, <1>3, <1>4 DEF TablesInv
  <2>2. /\ \A a : <<r.id, a>> \in otherAttr' <=> <<r.id, a>> \in otherAttr
        /\ \A m : <<r.id, m>> \in memberAttr' <=> <<r.id, m>> \in memberAttr
        /\ \A x \in users : x[1] = r.id => x \in users'
    BY <1>3, <2>1 DEF DeleteEntryTx, Cascade, Without, attributes, classTables
  <2>3. StoredUuids(r.id)' = StoredUuids(r.id)
    <3>1. {x \in uuidAttr' : x[1] = r.id} = {x \in uuidAttr : x[1] = r.id}
      BY <1>3, <2>1 DEF DeleteEntryTx, Cascade, Without, attributes
    <3> QED
      BY <3>1 DEF StoredUuids
  <2> QED
    BY <1>1, <2>1, <2>2, <2>3, LiveEntryKept
<1>5. DOMAIN LiveEntries' = DOMAIN LiveEntries \ {d}
  BY <1>1, <1>2 DEF LiveShape
<1>6. \A x \in DOMAIN LiveEntries' : LiveEntries'[x] = LiveEntries[x]
  BY <1>1, <1>2, <1>4 DEF LiveShape
<1>7. LiveEntries' = [x \in DOMAIN LiveEntries' |-> LiveEntries'[x]]
  BY <1>1 DEF LiveShape
<1> QED
  BY <1>5, <1>6, <1>7

\* A step that writes nothing changes nothing that is shown.
LEMMA SameLive ==
    ASSUME TablesInv, UNCHANGED tables
    PROVE  LiveEntries' = LiveEntries
<1>1. LiveShape /\ LiveShape'
  BY LiveEntriesShape, LiveEntriesShapeNext, SameTablesInv
<1>2. /\ entries' = entries /\ otherAttr' = otherAttr /\ memberAttr' = memberAttr
      /\ uuidAttr' = uuidAttr /\ users' = users
  BY DEF tables, attributes, classTables
<1>3. ASSUME NEW r \in entries PROVE LiveEntries'[r.dn] = LiveEntries[r.dn]
  <2>1. StoredUuids(r.id)' = StoredUuids(r.id)
    BY <1>2 DEF StoredUuids
  <2> QED
    BY <1>1, <1>2, <2>1, LiveEntryKept DEF TablesInv
<1>4. DOMAIN LiveEntries' = DOMAIN LiveEntries
  BY <1>1, <1>2 DEF LiveShape
<1>5. \A d \in DOMAIN LiveEntries : LiveEntries'[d] = LiveEntries[d]
  BY <1>1, <1>3 DEF LiveShape
<1>6. /\ LiveEntries = [d \in DOMAIN LiveEntries |-> LiveEntries[d]]
      /\ LiveEntries' = [d \in DOMAIN LiveEntries' |-> LiveEntries'[d]]
  BY <1>1 DEF LiveShape
<1> QED
  BY <1>4, <1>5, <1>6

\* A new schema shows nothing.
LEMMA InitLive == InitTables => LiveEntries = << >>
<1> SUFFICES ASSUME InitTables PROVE LiveEntries = << >>
  OBVIOUS
<1>1. LiveEntries = [d \in {} |-> LiveEntry(RowAt(d))]
  BY DEF InitTables, LiveEntries
<1> QED
  BY <1>1

====
