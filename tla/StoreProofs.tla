---- MODULE StoreProofs ----
(***************************************************************************)
(* Theorems about the store and its callers, for every set of DNs, classes,*)
(* callers and passwords and every bound on ids; and about the membership  *)
(* queries, for every table of groups, every nesting and every depth limit:*)
(* a query walks along paths that visit nothing twice, and what it finds   *)
(* is what walks of any kind find.                                         *)
(***************************************************************************)
EXTENDS StoreCallers, SerialCallers, EntryStoreProofs, TLAPS

----
(* Type correctness *)

\* The initialized database is well typed.
LEMMA TypeCorrectInit == Init => TypeOK
  BY InitTablesOK DEF Init, TypeOK

\* No transaction, and no read of a copy, breaks the types.
LEMMA TypeCorrectStep == TypeOK /\ [Next]_vars => TypeOK'
<1> SUFFICES ASSUME TypeOK, [Next]_vars PROVE TypeOK'
  OBVIOUS
<1> USE DEF TypeOK
<1>1. CASE CreateBase
  BY <1>1, BaseIsEntry, CreateTablesOK DEF CreateBase
<1>2. ASSUME NEW d \in DNs, NEW k \in ClassesAt[d], NEW x \in Contents(k),
             CreateEntry(NewEntry(d, k, x))
      PROVE  TypeOK'
  BY <1>2, NewIsEntry, CreateTablesOK DEF CreateEntry
<1>3. ASSUME NEW d \in DNs, DeleteEntry(d) PROVE TypeOK'
  BY <1>3, DeleteTablesOK DEF DeleteEntry
<1>4. ASSUME NEW c \in Callers, NEW d \in DNs, GetEntry(c, d) PROVE TypeOK'
  <2>1. TablesOK'
    BY <1>4 DEF GetEntry, tables, attributes, classTables, TablesOK
  <2> QED
    BY <1>4, <2>1, LoadedIsEntry DEF GetEntry
<1>5. ASSUME NEW c \in Callers, UpdateEntry(c) PROVE TypeOK'
  <2>1. held[c] \in Entry
    BY <1>5 DEF UpdateEntry
  <2>2. PICK e \in Changed(held[c]) : UpdateEntryTx(e)
    BY <1>5 DEF UpdateEntry
  <2>3. TablesOK'
    BY <2>1, <2>2, ChangedIsEntry, UpdateTablesOK
  <2>4. RowAt(held[c].dn) \in entries
    BY <2>1, <2>2, ChangedIsEntry, RowAtExists DEF UpdateEntryTx, CanUpdate
  <2>5. crossed' \subseteq Ids
    BY <1>5, <2>4 DEF UpdateEntry, CrossedBy, TablesOK, EntryRows
  <2> QED
    BY <1>5, <2>3, <2>5 DEF UpdateEntry
<1>6. ASSUME NEW c \in Callers, Abandon(c) PROVE TypeOK'
  BY <1>6 DEF Abandon, tables, attributes, classTables, TablesOK
<1>7. CASE UNCHANGED vars
  BY <1>7 DEF vars, tables, attributes, classTables, TablesOK
<1> QED
  BY <1>1, <1>2, <1>3, <1>4, <1>5, <1>6, <1>7 DEF Next

\* Every reachable state is well typed.
THEOREM TypeCorrect == Spec => []TypeOK
  BY TypeCorrectInit, TypeCorrectStep, PTL DEF Spec

----
(* The store's invariant *)

\* The strengthening is inductive.
LEMMA StoreInvInductive == StoreInv /\ [Next]_vars => StoreInv'
<1> SUFFICES ASSUME StoreInv, [Next]_vars PROVE StoreInv'
  OBVIOUS
<1>1. TypeOK' /\ nextId \in Nat
  BY TypeCorrectStep, StoreAssumption DEF StoreInv, TypeOK, TablesOK
<1>2. ASSUME NEW e \in Entry, CreateEntryTx(e), everCreated' = everCreated \cup {NewRow(e)}
      PROVE  StoreInv'
  <2>1. NewRow(e).id = nextId /\ nextId' = nextId + 1 /\ entries' = entries \cup {NewRow(e)}
    BY <1>2 DEF CreateEntryTx, NewRow, NewId
  <2>2. \A m \in everCreated : m.id < nextId /\ m.id \in Nat
    BY DEF StoreInv, HistoryOK, TypeOK, EntryRows, Ids
  <2>3. HistoryOK'
    BY <1>1, <1>2, <2>1, <2>2 DEF StoreInv, HistoryOK
  <2> QED
    BY <1>1, <1>2, <2>3, CreateKeepsTables DEF StoreInv
<1>3. CASE CreateBase
  BY <1>2, <1>3, BaseIsEntry DEF CreateBase
<1>4. ASSUME NEW d \in DNs, NEW k \in ClassesAt[d], NEW x \in Contents(k),
             CreateEntry(NewEntry(d, k, x))
      PROVE  StoreInv'
  BY <1>2, <1>4, NewIsEntry DEF CreateEntry
<1>5. ASSUME NEW d \in DNs, DeleteEntry(d) PROVE StoreInv'
  <2>1. HistoryOK'
    BY <1>5 DEF DeleteEntry, DeleteEntryTx, StoreInv, HistoryOK
  <2> QED
    BY <1>1, <1>5, <2>1, DeleteKeepsTables DEF DeleteEntry, StoreInv
<1>6. ASSUME NEW c \in Callers, UpdateEntry(c) PROVE StoreInv'
  <2>1. held[c] \in Entry
    BY <1>6 DEF UpdateEntry, StoreInv, TypeOK
  <2>2. PICK e \in Changed(held[c]) : UpdateEntryTx(e)
    BY <1>6 DEF UpdateEntry
  <2>3. HistoryOK'
    BY <1>6, <2>2 DEF UpdateEntry, UpdateEntryTx, StoreInv, HistoryOK
  <2> QED
    BY <1>1, <2>1, <2>2, <2>3, ChangedIsEntry, UpdateKeepsTables DEF StoreInv
<1>7. CASE UNCHANGED <<tables, everCreated>>
  <2>1. TablesInv'
    BY <1>7, SameTablesInv DEF StoreInv
  <2> QED
    BY <1>1, <1>7, <2>1 DEF tables, StoreInv, HistoryOK
<1> QED
  BY <1>3, <1>4, <1>5, <1>6, <1>7 DEF Next, GetEntry, Abandon, vars

\* StoreInv holds of the initialized database.
LEMMA StoreInvInit == Init => StoreInv
  BY InitTablesInv, TypeCorrectInit DEF Init, InitTables, StoreInv, HistoryOK

\* StoreInv holds in every reachable state.
LEMMA StoreInvHolds == Spec => []StoreInv
  BY StoreInvInit, StoreInvInductive, PTL DEF Spec

\* However creators, deleters and writers interleave, a DN names one live entry.
THEOREM OneEntryPerDN == Spec => []UniqueDN
<1>1. StoreInv => UniqueDN
  BY DEF StoreInv, TablesInv
<1> QED
  BY <1>1, StoreInvHolds, PTL

\* Every live entry has the class rows, and at most one password row, that bind and the
\* membership queries expect of it.
THEOREM ClassRowsMatch == Spec => []ClassRows
<1>1. StoreInv => ClassRows
  BY DEF StoreInv, TablesInv
<1> QED
  BY <1>1, StoreInvHolds, PTL

\* No two entries, live or deleted, ever carry the same entryUUID.
THEOREM UuidsIdentify == Spec => []UuidIdentifies
<1>1. StoreInv => UuidIdentifies
  BY DEF StoreInv, TablesInv
<1> QED
  BY <1>1, StoreInvHolds, PTL

\* No interleaving of reads and writes back changes the entryUUID of a live entry.
THEOREM UuidsAreStable == Spec => UuidStable
<1>1. StoreInv /\ [Next]_vars =>
        [\A id \in LiveIds \cap LiveIds' : StoredUuids(id)' = StoredUuids(id)]_vars
  <2> SUFFICES ASSUME StoreInv, Next, NEW id \in LiveIds \cap LiveIds'
               PROVE  StoredUuids(id)' = StoredUuids(id)
    OBVIOUS
  <2>1. ASSUME NEW e, CreateEntryTx(e) PROVE StoredUuids(id)' = StoredUuids(id)
    <3>1. id # nextId
      BY DEF LiveIds, StoreInv, TablesInv, BelowCounters, TablesOK, EntryRows, Ids
    <3>2. uuidAttr' = uuidAttr \cup {<<nextId, nextUuid>>}
      BY <2>1 DEF CreateEntryTx, NewId
    <3>3. {r \in uuidAttr' : r[1] = id} = {r \in uuidAttr : r[1] = id}
      BY <3>1, <3>2
    <3> QED
      BY <3>3 DEF StoredUuids
  <2>2. ASSUME NEW d, DeleteEntry(d) PROVE StoredUuids(id)' = StoredUuids(id)
    <3>1. id # IdOf(d)
      BY <2>2, DeleteKeepsTables DEF StoreInv, DeleteEntry, LiveIds
    <3>2. {r \in uuidAttr' : r[1] = id} = {r \in uuidAttr : r[1] = id}
      BY <2>2, <3>1 DEF DeleteEntry, DeleteEntryTx, Cascade, Without, attributes
    <3> QED
      BY <3>2 DEF StoredUuids
  <2>3. ASSUME NEW c, UpdateEntry(c) PROVE StoredUuids(id)' = StoredUuids(id)
    BY <2>3, UpdateKeepsUuid DEF StoreInv, UpdateEntry, StoredUuids
  <2>4. CASE UNCHANGED tables
    BY <2>4 DEF tables, attributes, StoredUuids
  <2> QED
    BY <2>1, <2>2, <2>3, <2>4 DEF Next, CreateBase, CreateEntry, GetEntry, Abandon
<1> QED
  BY <1>1, StoreInvHolds, PTL DEF Spec, UuidStable

\* No step takes the password of a live user away: creating adds rows, and writing back a
\* copy, which never holds the hash, leaves it alone or sets a new one.
THEOREM PasswordsAreKept == Spec => PasswordKept
<1>1. StoreInv /\ [Next]_vars =>
        [\A row \in users :
            (row[1] \in LiveIds' /\ row[2] # NoPassword)
               => \E new \in users' : new[1] = row[1] /\ new[2] # NoPassword]_vars
  <2> SUFFICES ASSUME StoreInv, Next, NEW row \in users,
                      row[1] \in LiveIds', row[2] # NoPassword
               PROVE  \E new \in users' : new[1] = row[1] /\ new[2] # NoPassword
    OBVIOUS
  <2>1. ASSUME NEW e, CreateEntryTx(e) PROVE row \in users'
    BY <2>1 DEF CreateEntryTx
  <2>2. ASSUME NEW d, DeleteEntry(d) PROVE row \in users'
    <3>1. row[1] # IdOf(d)
      BY <2>2, DeleteKeepsTables DEF StoreInv, DeleteEntry, LiveIds
    <3> QED
      BY <2>2, <3>1 DEF DeleteEntry, DeleteEntryTx, Cascade, Without, classTables
  <2>3. ASSUME NEW e, UpdateEntryTx(e)
        PROVE  \E new \in users' : new[1] = row[1] /\ new[2] # NoPassword
    <3> DEFINE id == IdOf(e.dn)
               changed == <<id, e.password>>
    <3>1. CASE row[1] = id /\ e.class = "inetOrgPerson" /\ e.password # NoPassword
      <4>1. changed \in users'
        BY <2>3, <3>1 DEF UpdateEntryTx, UpdatePassword
      <4>2. changed[1] = id /\ changed[2] = e.password
        OBVIOUS
      <4> QED
        BY <3>1, <4>1, <4>2
    <3>2. CASE ~(row[1] = id /\ e.class = "inetOrgPerson" /\ e.password # NoPassword)
      <4>1. row \in users'
        BY <2>3, <3>2 DEF UpdateEntryTx, UpdatePassword
      <4> QED
        BY <4>1
    <3> QED
      BY <3>1, <3>2
  <2>4. CASE UNCHANGED tables
    BY <2>4 DEF tables, classTables
  <2> QED
    BY <2>1, <2>2, <2>3, <2>4 DEF Next, CreateBase, CreateEntry, UpdateEntry, GetEntry, Abandon
<1> QED
  BY <1>1, StoreInvHolds, PTL DEF Spec, PasswordKept

----
(* group_members and the member attribute *)

\* The rows of H that the rows resolved in the table T for a group's members stand for.
Resolved(H, T, id, members) == {m \in H : <<id, m.id>> \in MemberRows(T, id, members)}

\* They have exactly the listed DNs, one row each.
LEMMA ResolvedRows ==
    ASSUME NEW T, NEW H, T \subseteq H,
           \A m, n \in H : m.id = n.id => m = n,
           \A r, s \in T : r.dn = s.dn => r = s,
           NEW id, NEW members, \A d \in members : \E r \in T : r.dn = d
    PROVE  /\ \A m \in Resolved(H, T, id, members) : m.dn \in members
           /\ \A d \in members : \E m \in Resolved(H, T, id, members) : m.dn = d
           /\ \A m, n \in Resolved(H, T, id, members) : m.dn = n.dn => m = n
<1> DEFINE R == Resolved(H, T, id, members)
<1>1. \A m : m \in R <=> m \in T /\ m.dn \in members
  <2>1. \A m : <<id, m>> \in MemberRows(T, id, members)
                  <=> \E r \in T : r.dn \in members /\ m = r.id
    BY DEF MemberRows
  <2>2. \A m \in R : m \in T /\ m.dn \in members
    <3> SUFFICES ASSUME NEW m \in R PROVE m \in T /\ m.dn \in members
      OBVIOUS
    <3>1. m \in H /\ <<id, m.id>> \in MemberRows(T, id, members)
      BY DEF Resolved
    <3>2. PICK r \in T : r.dn \in members /\ m.id = r.id
      BY <2>1, <3>1
    <3>3. r = m
      BY <3>1, <3>2
    <3> QED
      BY <3>2, <3>3
  <2>3. \A m \in T : m.dn \in members => m \in R
    BY <2>1 DEF Resolved
  <2> QED
    BY <2>2, <2>3
<1> HIDE DEF R
<1>2. \A d \in members : \E m \in R : m.dn = d
  BY <1>1
<1>3. \A m \in R : m.dn \in members
  BY <1>1
<1>4. \A m, n \in R : m.dn = n.dn => m = n
  BY <1>1
<1> QED
  BY <1>2, <1>3, <1>4 DEF R

\* CreateEntry of a group writes a membership row for each member it stores.
LEMMA CreateKeepsSync ==
    ASSUME SyncInv, StoreInv', NEW e \in Entry, CreateEntryTx(e),
           everCreated' = everCreated \cup {NewRow(e)}, UNCHANGED crossed
    PROVE  MembersInSync'
<1> DEFINE row == NewRow(e)
<1>1. row.id = nextId /\ row.dn = e.dn /\ row.class = e.class /\ entries' = entries \cup {row}
  BY DEF NewRow, NewId, CreateEntryTx
<1>2. /\ \A m \in everCreated : m.id # nextId
      /\ \A x \in groupMembers : x[1] # nextId /\ x[2] # nextId
      /\ \A x \in memberAttr : x[1] # nextId
  BY DEF SyncInv, StoreInv, HistoryOK, TablesInv, BelowCounters, TypeOK, TablesOK, EntryRows, Ids
<1>3. /\ memberAttr' = memberAttr \cup ({nextId} \X e.members)
      /\ groupMembers' = IF e.class = "groupOfNames"
                         THEN groupMembers \cup MemberRows(entries', nextId, e.members)
                         ELSE groupMembers
  BY DEF CreateEntryTx, NewId
<1>4. \A x \in MemberRows(entries', nextId, e.members) : x[1] = nextId
  BY DEF MemberRows
<1>5. \A i, m : i # nextId => (<<i, m>> \in groupMembers' <=> <<i, m>> \in groupMembers)
  BY <1>3, <1>4
<1>6. \A r \in entries : /\ Represented(r.id)' = Represented(r.id)
                         /\ Listed(r.id)' = Listed(r.id)
  <2> SUFFICES ASSUME NEW r \in entries
               PROVE  Represented(r.id)' = Represented(r.id) /\ Listed(r.id)' = Listed(r.id)
    OBVIOUS
  <2>1. r.id # nextId
    BY <1>2 DEF SyncInv, StoreInv, HistoryOK
  <2>2. <<r.id, nextId>> \notin groupMembers
    BY <1>2
  <2>3. Represented(r.id)' = Represented(r.id)
    BY <1>1, <1>5, <2>1, <2>2 DEF Represented
  <2>4. Listed(r.id)' = Listed(r.id)
    BY <1>3, <2>1 DEF Listed
  <2> QED
    BY <2>3, <2>4
<1>7. \A r \in entries : r.class # "groupOfNames" /\ r.id \notin crossed
                           => \A x \in groupMembers' : x[1] # r.id
  <2> SUFFICES ASSUME NEW r \in entries, r.class # "groupOfNames", r.id \notin crossed,
                      NEW x \in groupMembers'
               PROVE  x[1] # r.id
    OBVIOUS
  <2>1. r.id # nextId
    BY <1>2 DEF SyncInv, StoreInv, HistoryOK
  <2> QED
    BY <1>3, <1>4, <2>1 DEF SyncInv, MembersInSync
<1>8. CASE e.class = "groupOfNames"
  <2>0. PICK T, H, i : T = entries' /\ H = everCreated' /\ i = nextId
    OBVIOUS
  <2> DEFINE R == Resolved(H, T, i, e.members)
  <2>1. \A d \in e.members : \E r \in entries' : r.dn = d
    BY <1>1, <1>8 DEF CreateEntryTx, CanCreate, MembersResolve
  <2>2. /\ \A m \in R : m.dn \in e.members
        /\ \A d \in e.members : \E m \in R : m.dn = d
        /\ \A m, n \in R : m.dn = n.dn => m = n
    <3>1. /\ T \subseteq H
          /\ \A m, n \in H : m.id = n.id => m = n
          /\ \A r, s \in T : r.dn = s.dn => r = s
          /\ \A d \in e.members : \E r \in T : r.dn = d
      BY <2>0, <2>1 DEF StoreInv, HistoryOK, TablesInv, UniqueDN
    <3> QED
      BY <3>1, ResolvedRows
  <2>3. \A m : <<i, m>> \in groupMembers' <=> <<i, m>> \in MemberRows(T, i, e.members)
    <3>1. groupMembers' = groupMembers \cup MemberRows(T, i, e.members)
      BY <1>3, <1>8, <2>0 DEF MemberRows
    <3> QED
      BY <1>2, <2>0, <3>1
  <2>4. Represented(i)' = R
    BY <2>0, <2>3 DEF Represented, Resolved
  <2>5. Listed(i)' = e.members
    BY <1>2, <1>3, <2>0 DEF Listed, Entry
  <2> HIDE DEF R, row
  <2>6. {m.dn : m \in R} = e.members
    BY <2>2
  <2> QED
    BY <1>1, <1>6, <1>7, <1>8, <2>0, <2>2, <2>4, <2>5, <2>6 DEF SyncInv, MembersInSync
<1>9. CASE e.class # "groupOfNames"
  BY <1>1, <1>2, <1>3, <1>6, <1>7, <1>9 DEF SyncInv, MembersInSync
<1> QED
  BY <1>8, <1>9

\* UpdateEntry keeps rows and attributes in step, or the row it writes over counts as
\* crossed.
LEMMA UpdateKeepsSync ==
    ASSUME SyncInv, NEW e \in Entry, UpdateEntryTx(e), UNCHANGED everCreated,
           crossed' = CrossedBy(e)
    PROVE  MembersInSync'
<1>1. PICK i : i = IdOf(e.dn)
  OBVIOUS
<1>2. RowAt(e.dn) \in entries /\ RowAt(e.dn).id = i
  BY <1>1, RowAtExists DEF UpdateEntryTx, CanUpdate, IdOf
<1>3. /\ memberAttr' = Without(memberAttr, i) \cup ({i} \X e.members)
      /\ groupMembers' = IF e.class = "groupOfNames"
                         THEN Without(groupMembers, i) \cup MemberRows(entries, i, e.members)
                         ELSE groupMembers
      /\ entries' = entries
  BY <1>1 DEF UpdateEntryTx, ReplaceMembers
<1>4. \A x \in MemberRows(entries, i, e.members) : x[1] = i
  BY DEF MemberRows
<1>5. \A r \in entries : r.id = i => r = RowAt(e.dn)
  BY <1>2 DEF SyncInv, StoreInv, HistoryOK
<1>6. \A r \in entries : r.id # i => /\ Represented(r.id)' = Represented(r.id)
                                     /\ Listed(r.id)' = Listed(r.id)
  BY <1>3, <1>4 DEF Represented, Listed, Without
<1>0. /\ \A r \in entries : r.id # i => (r.id \in crossed' <=> r.id \in crossed)
      /\ i \notin crossed' => /\ e.class = "groupOfNames" <=> RowAt(e.dn).class = "groupOfNames"
                              /\ e.class # "groupOfNames" => i \notin crossed
  BY <1>2 DEF CrossedBy
<1>7. \A r \in entries : r.class # "groupOfNames" /\ r.id \notin crossed'
                           => \A x \in groupMembers' : x[1] # r.id
  <2> SUFFICES ASSUME NEW r \in entries, r.class # "groupOfNames", r.id \notin crossed',
                      NEW x \in groupMembers'
               PROVE  x[1] # r.id
    OBVIOUS
  <2>0. r.id = i => e.class # "groupOfNames" /\ i \notin crossed
    <3> SUFFICES ASSUME r.id = i PROVE e.class # "groupOfNames" /\ i \notin crossed
      OBVIOUS
    <3>1. r = RowAt(e.dn) /\ i \notin crossed'
      BY <1>5
    <3> QED
      BY <1>0, <3>1
  <2>1. CASE x \in groupMembers
    BY <1>0, <2>0, <2>1 DEF SyncInv, MembersInSync
  <2>2. CASE x \notin groupMembers
    BY <1>3, <1>4, <2>0, <2>2 DEF Without
  <2> QED
    BY <2>1, <2>2
<1>8. CASE e.class = "groupOfNames"
  <2>1. PICK T, H : T = entries /\ H = everCreated
    OBVIOUS
  <2> DEFINE R == Resolved(H, T, i, e.members)
  <2>2. /\ \A m \in R : m.dn \in e.members
        /\ \A d \in e.members : \E m \in R : m.dn = d
        /\ \A m, n \in R : m.dn = n.dn => m = n
    <3>1. /\ T \subseteq H
          /\ \A m, n \in H : m.id = n.id => m = n
          /\ \A r, s \in T : r.dn = s.dn => r = s
          /\ \A d \in e.members : \E r \in T : r.dn = d
      BY <1>8, <2>1 DEF SyncInv, StoreInv, HistoryOK, TablesInv, UniqueDN, UpdateEntryTx, CanUpdate,
                        MembersResolve
    <3> QED
      BY <3>1, ResolvedRows
  <2>3. \A m : <<i, m>> \in groupMembers' <=> <<i, m>> \in MemberRows(T, i, e.members)
    BY <1>3, <1>8, <2>1 DEF Without
  <2>4. Represented(i)' = R
    BY <2>1, <2>3 DEF Represented, Resolved
  <2>5. Listed(i)' = e.members
    BY <1>3 DEF Listed, Entry, Without
  <2> HIDE DEF R
  <2>6. {m.dn : m \in R} = e.members
    BY <2>2
  <2> QED
    BY <1>0, <1>3, <1>6, <1>7, <2>2, <2>4, <2>5, <2>6 DEF SyncInv, MembersInSync
<1>9. CASE e.class # "groupOfNames"
  <2>1. \A r \in entries : r.class = "groupOfNames" /\ r.id \notin crossed' => r.id # i
    <3> SUFFICES ASSUME NEW r \in entries, r.class = "groupOfNames", r.id \notin crossed',
                        r.id = i
                 PROVE  FALSE
      OBVIOUS
    <3>1. r = RowAt(e.dn) /\ i \notin crossed'
      BY <1>5
    <3> QED
      BY <1>0, <1>9, <3>1
  <2> QED
    BY <1>0, <1>3, <1>6, <1>7, <2>1 DEF SyncInv, MembersInSync
<1> QED
  BY <1>8, <1>9

\* DeleteEntry without foreign keys leaves membership rows alone.
LEMMA DeleteKeepsSync ==
    ASSUME ~ForeignKeys, SyncInv, NEW d, DeleteEntryTx(d), UNCHANGED <<everCreated, crossed>>
    PROVE  MembersInSync'
<1>1. entries' \subseteq entries /\ memberAttr' = memberAttr /\ groupMembers' = groupMembers
  BY DEF DeleteEntryTx, Cascade, attributes
<1>2. \A id : Represented(id)' = Represented(id) /\ Listed(id)' = Listed(id)
  BY <1>1 DEF Represented, Listed
<1> QED
  BY <1>1, <1>2 DEF SyncInv, MembersInSync

\* Every step keeps SyncInv.
LEMMA SyncInvInductive ==
    ASSUME ~ForeignKeys, SyncInv, [Next]_vars
    PROVE  SyncInv'
<1>1. StoreInv'
  BY StoreInvInductive DEF SyncInv
<1>2. CASE CreateBase
  BY <1>1, <1>2, BaseIsEntry, CreateKeepsSync DEF CreateBase, SyncInv
<1>3. ASSUME NEW d \in DNs, NEW k \in ClassesAt[d], NEW x \in Contents(k),
             CreateEntry(NewEntry(d, k, x))
      PROVE  SyncInv'
  BY <1>1, <1>3, NewIsEntry, CreateKeepsSync DEF CreateEntry, SyncInv
<1>4. ASSUME NEW d \in DNs, DeleteEntry(d) PROVE SyncInv'
  BY <1>1, <1>4, DeleteKeepsSync DEF DeleteEntry, SyncInv
<1>5. ASSUME NEW c \in Callers, UpdateEntry(c) PROVE SyncInv'
  <2>1. held[c] \in Entry
    BY <1>5 DEF UpdateEntry, SyncInv, StoreInv, TypeOK
  <2>2. PICK e \in Changed(held[c]) : UpdateEntryTx(e)
    BY <1>5 DEF UpdateEntry
  <2>3. e \in Entry /\ e.dn = held[c].dn /\ e.class = held[c].class
    BY <2>1, <2>2, ChangedIsEntry
  <2>4. crossed' = CrossedBy(e) /\ UNCHANGED everCreated
    BY <1>5, <2>3 DEF UpdateEntry, CrossedBy
  <2>5. MembersInSync'
    BY <2>2, <2>3, <2>4, UpdateKeepsSync
  <2> QED
    BY <1>1, <2>5 DEF SyncInv
<1>6. CASE UNCHANGED <<tables, everCreated, crossed>>
  BY <1>1, <1>6 DEF tables, attributes, SyncInv, MembersInSync, Represented, Listed
<1> QED
  BY <1>2, <1>3, <1>4, <1>5, <1>6 DEF Next, GetEntry, Abandon, vars

\* Whoever creates, deletes and writes back, group_members says what the member attributes
\* say, except of an entry that a copy of the other kind was written over; SQLite does not
\* cascade, as in the code.
THEOREM MembersStayInSync ==
    ASSUME ~ForeignKeys
    PROVE  Spec => []MembersInSync
<1>1. Init => SyncInv
  BY StoreInvInit DEF Init, InitTables, SyncInv, MembersInSync
<1>2. SyncInv /\ [Next]_vars => SyncInv'
  BY SyncInvInductive
<1>3. SyncInv => MembersInSync
  BY DEF SyncInv
<1> QED
  BY <1>1, <1>2, <1>3, PTL DEF Spec

----
(* The tables implement the map *)

\* The DNs the tables show are those of the rows.
LEMMA ShownDNs == StoreInv => \A d : d \in DOMAIN LiveEntries <=> Exists(d)
  BY LiveEntriesShape DEF StoreInv, LiveShape, Exists

\* A committed CreateEntry is a Create: the UUIDs drawn so far are those below nextUuid.
LEMMA CreateImplements ==
    ASSUME StoreInv, NEW e \in Entry, CreateEntryTx(e),
           e.dn = BaseDN \/ e.parent = Parent[e.dn]
    PROVE  Dir!Next
<1>1. nextUuid \in Nat \ {0} /\ nextUuid' = nextUuid + 1
  BY DEF StoreInv, TablesInv, TablesOK, CreateEntryTx
<1>2. 1 .. nextUuid' - 1 = (1 .. nextUuid - 1) \cup {nextUuid}
  BY <1>1
<1>3. PICK new : new = LiveEntries'[e.dn]
  OBVIOUS
<1>4. /\ LiveEntries' = [d \in DOMAIN LiveEntries \cup {e.dn} |->
                            IF d = e.dn THEN new ELSE LiveEntries[d]]
      /\ new.class = e.class /\ new.attrs = e.attrs /\ new.members = e.members
      /\ new.uuid = nextUuid
  <2>1. TablesInv
    BY DEF StoreInv
  <2>2. /\ LiveEntries' = [d \in DOMAIN LiveEntries \cup {e.dn} |->
                             IF d = e.dn THEN LiveEntries'[e.dn] ELSE LiveEntries[d]]
        /\ LiveEntries'[e.dn] =
             [class |-> e.class, attrs |-> e.attrs, members |-> e.members,
              password |-> IF e.class = "inetOrgPerson" THEN e.password ELSE NoPassword,
              uuid |-> nextUuid]
    BY <2>1, CreateLive
  <2>3. new.class = e.class /\ new.attrs = e.attrs /\ new.members = e.members
          /\ new.uuid = nextUuid
    BY <1>3, <2>2
  <2> QED
    BY <1>3, <2>2, <2>3, Zenon
<1>5. /\ ~Exists(e.dn)
      /\ e.dn = BaseDN \/ Exists(Parent[e.dn])
      /\ Required[e.class] \subseteq e.attrs
      /\ e.class = "groupOfNames" => e.members # {}
  BY DEF CreateEntryTx, CanCreate, PlacementOK, ValidForClass
<1>6. e.class = "groupOfNames" => \A m \in e.members : m = e.dn \/ Exists(m)
  BY DEF CreateEntryTx, CanCreate, MembersResolve, NewRow, Exists
<1>7. Dir!Create(e.dn, new)
  BY <1>1, <1>2, <1>4, <1>5, <1>6, ShownDNs DEF Dir!Create, Dir!Resolves
<1>8. e.dn \in DNs /\ e.dn \in DOMAIN LiveEntries'
  BY <1>4 DEF Entry
<1> QED
  BY <1>3, <1>7, <1>8 DEF Dir!Next

\* A committed UpdateEntry of a copy somebody read, however stale, is an Update.
LEMMA UpdateImplements ==
    ASSUME StoreInv, NEW e \in Entry, UpdateEntryTx(e),
           e.class # "groupOfNames" => e.members = {}
    PROVE  Dir!Next
<1>1. PICK p \in {LiveEntries[e.dn].password, e.password} :
         /\ LiveEntries' = [LiveEntries EXCEPT ![e.dn] =
                              [class |-> RowAt(e.dn).class, attrs |-> e.attrs,
                               members |-> e.members, password |-> p,
                               uuid |-> LiveEntries[e.dn].uuid]]
         /\ LiveEntries[e.dn].class = RowAt(e.dn).class
         /\ \/ p = LiveEntries[e.dn].password
            \/ RowAt(e.dn).class = "inetOrgPerson" /\ p # NoPassword
  BY UpdateLive DEF StoreInv
<1>2. nextUuid' = nextUuid
  BY UpdateKeepsUuid DEF StoreInv
<1>3. e.dn \in DOMAIN LiveEntries /\ e.dn \in DNs
  BY ShownDNs DEF UpdateEntryTx, CanUpdate, Entry
<1>4. \A m \in e.members : e.class = "groupOfNames" => m \in DOMAIN LiveEntries
  BY ShownDNs DEF UpdateEntryTx, CanUpdate, MembersResolve, Exists
<1>5. e.members \subseteq DOMAIN LiveEntries
  BY <1>4
<1>6. p = LiveEntries[e.dn].password \/
        (LiveEntries[e.dn].class = "inetOrgPerson" /\ p \in Passwords)
  BY <1>1 DEF Entry, PasswordHashes
<1>7. Dir!Update(e.dn, e.attrs, e.members, p)
  BY <1>1, <1>2, <1>3, <1>5, <1>6 DEF Dir!Update, Dir!Resolves
<1>8. /\ e.dn \in DOMAIN LiveEntries'
      /\ LiveEntries'[e.dn].attrs = e.attrs
      /\ LiveEntries'[e.dn].members = e.members
      /\ LiveEntries'[e.dn].password = p
  BY <1>1, <1>3
<1> QED
  BY <1>3, <1>7, <1>8 DEF Dir!Next

\* A committed DeleteEntry is a Delete.
LEMMA DeleteImplements ==
    ASSUME StoreInv, NEW d \in DNs, DeleteEntryTx(d)
    PROVE  Dir!Next
<1>1. Dir!Delete(d)
  BY ShownDNs, DeleteLive DEF StoreInv, DeleteEntryTx, Dir!Delete
<1> QED
  BY <1>1 DEF Dir!Next

\* Every step of the goroutines is one operation of the map, or none.
LEMMA StepImplements ==
    ASSUME StoreInv, [Next]_vars
    PROVE  [Dir!Next]_<<LiveEntries, 1 .. nextUuid - 1>>
<1>1. CASE CreateBase
  BY <1>1, BaseIsEntry, CreateImplements DEF CreateBase
<1>2. ASSUME NEW d \in DNs, NEW k \in ClassesAt[d], NEW x \in Contents(k),
             CreateEntry(NewEntry(d, k, x))
      PROVE  Dir!Next
  <2>1. NewEntry(d, k, x).dn = d /\ NewEntry(d, k, x).parent = Parent[d]
    BY DEF NewEntry
  <2> QED
    BY <1>2, <2>1, NewIsEntry, CreateImplements DEF CreateEntry
<1>3. ASSUME NEW d \in DNs, DeleteEntry(d) PROVE Dir!Next
  BY <1>3, DeleteImplements DEF DeleteEntry
<1>4. ASSUME NEW c \in Callers, UpdateEntry(c) PROVE Dir!Next
  <2>1. held[c] \in Entry
    BY <1>4 DEF UpdateEntry, StoreInv, TypeOK
  <2>2. PICK e \in Changed(held[c]) : UpdateEntryTx(e)
    BY <1>4 DEF UpdateEntry
  <2>3. e \in Entry /\ (e.class # "groupOfNames" => e.members = {})
    BY <2>1, <2>2, ChangedIsEntry
  <2> QED
    BY <2>2, <2>3, UpdateImplements
<1>5. CASE UNCHANGED tables
  <2>1. nextUuid' = nextUuid
    BY <1>5 DEF tables
  <2> QED
    BY <1>5, <2>1, SameLive DEF StoreInv
<1> QED
  BY <1>1, <1>2, <1>3, <1>4, <1>5 DEF Next, GetEntry, Abandon, vars

\* Creators, deleters and writers of stale copies, on tables that keep the rows of deleted
\* entries, are seen as one map from DNs to entries changed by one operation at a time.
THEOREM StoreImplementsDirectory == Spec => ImplementsDirectory
<1>1. Init => Dir!Init
  BY InitLive DEF Init, InitTables, Dir!Init
<1> QED
  BY <1>1, StepImplements, StoreInvHolds, PTL DEF Spec, ImplementsDirectory, Dir!Spec

----
(* Membership queries: the recursive definitions, unfolded *)

\* The paths of a depth are those of the depth before, grown by one element.
LEMMA PathsUnfold ==
    ASSUME NEW start \in SUBSET Ids, NEW relation
    PROVE  /\ PathsOfDepth(start, relation)[0] = {<<x>> : x \in start}
           /\ \A n \in Nat : PathsOfDepth(start, relation)[n + 1]
                               = Grow(PathsOfDepth(start, relation)[n], relation)
<1> DEFINE V == SUBSET Seq(Ids)
           Step == [S \in V |-> Grow(S, relation)]
           first == {<<x>> : x \in start}
<1>1. first \in V
  <2>1. \A x \in start : <<x>> \in Seq(Ids)
    OBVIOUS
  <2> QED
    BY <2>1
<1>2. Step \in [V -> V]
  <2>1. \A p \in Seq(Ids) : \A y \in Ids : Append(p, y) \in Seq(Ids)
    OBVIOUS
  <2>2. ASSUME NEW S \in V PROVE Grow(S, relation) \in V
    <3>1. ASSUME NEW q \in Grow(S, relation) PROVE q \in Seq(Ids)
      <4>1. PICK p \in S, y \in Ids : q = Append(p, y)
        BY DEF Grow
      <4> QED
        BY <2>1, <4>1
    <3> QED
      BY <3>1
  <2> QED
    BY <2>2
<1> HIDE DEF V, first
<1>3. PICK g \in [Nat -> V] : g[0] = first /\ \A n \in Nat : g[n + 1] = Step[g[n]]
  <2> HIDE DEF Step
  <2> QED
    BY <1>1, <1>2, RecursionOnNat
<1>4. \A n \in Nat : g[n + 1] = Grow(g[n], relation)
  BY <1>3
<1> HIDE DEF Step
<1>5. g = [n \in Nat |-> IF n = 0 THEN first ELSE Grow(g[n - 1], relation)]
  <2>1. ASSUME NEW n \in Nat, n # 0 PROVE g[n] = Grow(g[n - 1], relation)
    <3>1. n - 1 \in Nat /\ n = (n - 1) + 1
      BY <2>1
    <3> QED
      BY <1>4, <3>1
  <2> QED
    BY <1>3, <2>1
<1>6. PICK f : f = PathsOfDepth(start, relation)
  OBVIOUS
<1>7. f = [n \in Nat |-> IF n = 0 THEN first ELSE Grow(f[n - 1], relation)]
  BY <1>5, <1>6, Zenon DEF PathsOfDepth, first
<1>8. f[0] = first
  BY <1>7
<1>9. ASSUME NEW n \in Nat PROVE f[n + 1] = Grow(f[n], relation)
  <2>1. n + 1 \in Nat /\ n + 1 # 0 /\ (n + 1) - 1 = n
    OBVIOUS
  <2> QED
    BY <1>7, <2>1
<1> QED
  BY <1>6, <1>8, <1>9 DEF first

\* What one step along the relation reaches from a set, and what walks of n steps reach.
Image(S, relation) == {pair[2] : pair \in {p \in relation : p[1] \in S}}

Walks(start, relation) ==
    LET OfLength[n \in Nat] == IF n = 0 THEN start ELSE Image(OfLength[n - 1], relation)
    IN  OfLength

Relations == SUBSET (Ids \X Ids)

\* One step, read backwards.
LEMMA ImageBy ==
    ASSUME NEW relation \in Relations, NEW S
    PROVE  /\ Image(S, relation) \subseteq Ids
           /\ \A y : y \in Image(S, relation) <=> \E x \in Ids : x \in S /\ <<x, y>> \in relation
<1>1. \A pair \in relation : pair[1] \in Ids /\ pair[2] \in Ids /\ pair = <<pair[1], pair[2]>>
  BY DEF Relations
<1>2. ASSUME NEW y, y \in Image(S, relation)
      PROVE  y \in Ids /\ \E x \in Ids : x \in S /\ <<x, y>> \in relation
  <2>1. PICK pair \in relation : pair[1] \in S /\ pair[2] = y
    BY <1>2 DEF Image
  <2> QED
    BY <1>1, <2>1
<1>3. ASSUME NEW y, NEW x \in S, <<x, y>> \in relation PROVE y \in Image(S, relation)
  BY <1>3 DEF Image
<1> QED
  BY <1>2, <1>3

\* A walk of n + 1 steps is one of n steps and a step.
LEMMA WalksUnfold ==
    ASSUME NEW start \in SUBSET Ids, NEW relation \in Relations
    PROVE  /\ Walks(start, relation)[0] = start
           /\ \A n \in Nat : /\ Walks(start, relation)[n] \subseteq Ids
                             /\ Walks(start, relation)[n + 1]
                                  = Image(Walks(start, relation)[n], relation)
<1> DEFINE V == SUBSET Ids
           Step == [S \in V |-> Image(S, relation)]
<1>1. Step \in [V -> V]
  BY DEF Image, Relations
<1>2. PICK g \in [Nat -> V] : g[0] = start /\ \A n \in Nat : g[n + 1] = Step[g[n]]
  <2>1. start \in V
    OBVIOUS
  <2> HIDE DEF Step, V
  <2> QED
    BY <1>1, <2>1, RecursionOnNat
<1>3. \A n \in Nat : g[n + 1] = Image(g[n], relation)
  BY <1>2
<1> HIDE DEF Step, V
<1>4. g = [n \in Nat |-> IF n = 0 THEN start ELSE Image(g[n - 1], relation)]
  <2>1. ASSUME NEW n \in Nat, n # 0 PROVE g[n] = Image(g[n - 1], relation)
    <3>1. n - 1 \in Nat /\ n = (n - 1) + 1
      BY <2>1
    <3> QED
      BY <1>3, <3>1
  <2> QED
    BY <1>2, <2>1
<1>5. PICK f : f = Walks(start, relation)
  OBVIOUS
<1>6. f = [n \in Nat |-> IF n = 0 THEN start ELSE Image(f[n - 1], relation)]
  BY <1>4, <1>5, Zenon DEF Walks
<1>7. ASSUME NEW n \in Nat PROVE f[n + 1] = Image(f[n], relation)
  <2>1. n + 1 \in Nat /\ n + 1 # 0 /\ (n + 1) - 1 = n
    OBVIOUS
  <2> QED
    BY <1>6, <2>1
<1>8. f[0] = start
  BY <1>6
<1>9. \A n \in Nat : f[n] \subseteq Ids
  <2> DEFINE T == {n \in Nat : f[n] \subseteq Ids}
  <2>1. 0 \in T
    BY <1>8
  <2>2. ASSUME NEW n \in Nat, n \in T PROVE n + 1 \in T
    BY <1>7, <2>2 DEF Image, Relations
  <2> HIDE DEF T
  <2>3. Nat \subseteq T
    BY <2>1, <2>2, InductionOnSet
  <2> QED
    BY <2>3 DEF T
<1> QED
  BY <1>5, <1>7, <1>8, <1>9

----
(* What the paths visit is what walks reach *)

\* The i-th element of a path is reached by a walk of i - 1 steps.
LEMMA PathsAreWalks ==
    ASSUME NEW start \in SUBSET Ids, NEW relation \in Relations
    PROVE  \A n \in Nat : \A p \in PathsOfDepth(start, relation)[n] :
              /\ p \in Seq(Ids) /\ Len(p) = n + 1
              /\ \A i \in 1 .. n + 1 : p[i] \in Walks(start, relation)[i - 1]
<1> DEFINE P == PathsOfDepth(start, relation)
           W == Walks(start, relation)
           T == {k \in Nat : \A q \in P[k] : /\ q \in Seq(Ids) /\ Len(q) = k + 1
                                             /\ \A i \in 1 .. k + 1 : q[i] \in W[i - 1]}
<1>1. 0 \in T
  <2>1. P[0] = {<<x>> : x \in start} /\ W[0] = start
    BY PathsUnfold, WalksUnfold
  <2> HIDE DEF P, W
  <2>2. ASSUME NEW q \in P[0] PROVE q \in Seq(Ids) /\ Len(q) = 1 /\ q[1] \in W[0]
    <3>1. PICK x \in start : q = <<x>>
      BY <2>1
    <3> QED
      BY <2>1, <3>1
  <2> QED
    BY <2>2
<1>2. ASSUME NEW k \in Nat, k \in T PROVE k + 1 \in T
  <2>1. P[k + 1] = Grow(P[k], relation) /\ W[k + 1] = Image(W[k], relation)
    BY PathsUnfold, WalksUnfold
  <2> HIDE DEF P, W
  <2> SUFFICES ASSUME NEW q \in P[k + 1]
               PROVE  /\ q \in Seq(Ids) /\ Len(q) = (k + 1) + 1
                      /\ \A i \in 1 .. (k + 1) + 1 : q[i] \in W[i - 1]
    OBVIOUS
  <2>2. PICK r \in P[k], y \in Ids : q = Append(r, y) /\ <<Last(r), y>> \in relation
    BY <2>1 DEF Grow
  <2>3. r \in Seq(Ids) /\ Len(r) = k + 1 /\ \A i \in 1 .. k + 1 : r[i] \in W[i - 1]
    BY <1>2
  <2>4. q \in Seq(Ids) /\ Len(q) = k + 2 /\ q[k + 2] = y /\ \A i \in 1 .. k + 1 : q[i] = r[i]
    BY <2>2, <2>3
  <2>5. Last(r) \in W[k]
    BY <2>3 DEF Last
  <2>6. y \in W[k + 1]
    BY <2>1, <2>2, <2>5 DEF Image
  <2>7. ASSUME NEW i \in 1 .. (k + 1) + 1 PROVE q[i] \in W[i - 1]
    <3>1. CASE i \in 1 .. k + 1
      BY <2>3, <2>4, <3>1
    <3>2. CASE i = k + 2
      BY <2>4, <2>6, <3>2
    <3> QED
      BY <3>1, <3>2
  <2> QED
    BY <2>4, <2>7
<1> HIDE DEF T
<1>3. Nat \subseteq T
  BY <1>1, <1>2, InductionOnSet
<1> QED
  BY <1>3 DEF T

\* Cutting a path short gives a path.
LEMMA PathsHavePrefixes ==
    ASSUME NEW start \in SUBSET Ids, NEW relation \in Relations
    PROVE  \A n \in Nat : \A p \in PathsOfDepth(start, relation)[n] : \A i \in 1 .. n + 1 :
              \E q \in PathsOfDepth(start, relation)[i - 1] : Last(q) = p[i]
<1> DEFINE P == PathsOfDepth(start, relation)
           T == {k \in Nat : \A r \in P[k] : \A j \in 1 .. k + 1 : \E q \in P[j - 1] : Last(q) = r[j]}
<1>0. \A k \in Nat : \A r \in P[k] : /\ r \in Seq(Ids) /\ Len(r) = k + 1
                                     /\ \A i \in 1 .. k + 1 : r[i] \in Walks(start, relation)[i - 1]
  BY PathsAreWalks
<1>1. \A k \in Nat : P[k + 1] = Grow(P[k], relation)
  BY PathsUnfold
<1> HIDE DEF P
<1>2. 0 \in T
  <2>1. ASSUME NEW r \in P[0], NEW j \in 1 .. 0 + 1 PROVE Last(r) = r[j] /\ j - 1 = 0
    BY <1>0 DEF Last
  <2> QED
    BY <2>1
<1>3. ASSUME NEW k \in Nat, k \in T PROVE k + 1 \in T
  <2> SUFFICES ASSUME NEW r \in P[k + 1], NEW j \in 1 .. (k + 1) + 1
               PROVE  \E q \in P[j - 1] : Last(q) = r[j]
    OBVIOUS
  <2>0. P[k + 1] = Grow(P[k], relation)
    BY <1>1
  <2>1. PICK s \in P[k], y \in Ids : r = Append(s, y)
    BY <2>0 DEF Grow
  <2>2. s \in Seq(Ids) /\ Len(s) = k + 1 /\ r \in Seq(Ids) /\ Len(r) = k + 2
    BY <1>0, <2>1
  <2>3. CASE j = k + 2
    <3>1. Last(r) = r[j] /\ j - 1 = k + 1
      BY <2>2, <2>3 DEF Last
    <3> QED
      BY <3>1
  <2>4. CASE j \in 1 .. k + 1
    <3>1. r[j] = s[j]
      BY <2>1, <2>2, <2>4
    <3>2. \E q \in P[j - 1] : Last(q) = s[j]
      BY <1>3, <2>4
    <3> QED
      BY <3>1, <3>2
  <2> QED
    BY <2>3, <2>4
<1> HIDE DEF T
<1>4. Nat \subseteq T
  BY <1>2, <1>3, InductionOnSet
<1> QED
  BY <1>4 DEF T, P

\* What a walk reaches, a path reaches in no more steps: it goes around no cycle.
LEMMA WalksShorten ==
    ASSUME NEW start \in SUBSET Ids, NEW relation \in Relations
    PROVE  \A n \in Nat : \A x \in Walks(start, relation)[n] :
              \E m \in 0 .. n : \E p \in PathsOfDepth(start, relation)[m] : Last(p) = x
<1> DEFINE P == PathsOfDepth(start, relation)
           W == Walks(start, relation)
           T == {k \in Nat : \A y \in W[k] : \E m \in 0 .. k : \E p \in P[m] : Last(p) = y}
<1>0. \A k \in Nat : \A r \in P[k] : /\ r \in Seq(Ids) /\ Len(r) = k + 1
                                     /\ \A i \in 1 .. k + 1 : r[i] \in Walks(start, relation)[i - 1]
  BY PathsAreWalks
<1>1. /\ P[0] = {<<y>> : y \in start} /\ W[0] = start
      /\ \A k \in Nat : /\ P[k + 1] = Grow(P[k], relation)
                        /\ W[k] \subseteq Ids /\ W[k + 1] = Image(W[k], relation)
  BY PathsUnfold, WalksUnfold
<1>2. ASSUME NEW k \in Nat, NEW r \in P[k], NEW i \in 1 .. k + 1
      PROVE  \E q \in P[i - 1] : Last(q) = r[i]
  BY PathsHavePrefixes
<1> HIDE DEF P, W
<1>3. 0 \in T
  <2>1. ASSUME NEW y \in W[0] PROVE \E m \in 0 .. 0 : \E p \in P[m] : Last(p) = y
    <3>1. <<y>> \in P[0] /\ Last(<<y>>) = y /\ 0 \in 0 .. 0
      BY <1>1, <2>1 DEF Last
    <3> QED
      BY <3>1
  <2> QED
    BY <2>1
<1>4. ASSUME NEW k \in Nat, k \in T PROVE k + 1 \in T
  <2> SUFFICES ASSUME NEW y \in W[k + 1]
               PROVE  \E m \in 0 .. k + 1 : \E p \in P[m] : Last(p) = y
    OBVIOUS
  <2>1. y \in Ids
    BY <1>1
  <2>2. PICK z \in W[k] : <<z, y>> \in relation
    BY <1>1 DEF Image, Relations
  <2>3. PICK m \in 0 .. k : \E p \in P[m] : Last(p) = z
    BY <1>4
  <2>3a. PICK p \in P[m] : Last(p) = z
    BY <2>3
  <2>4. p \in Seq(Ids) /\ Len(p) = m + 1 /\ m \in Nat
    BY <1>0
  <2>5. CASE y \in Range(p)
    <3>1. PICK i \in 1 .. m + 1 : p[i] = y
      BY <2>4, <2>5 DEF Range
    <3>2. PICK q \in P[i - 1] : Last(q) = y
      BY <1>2, <2>4, <3>1
    <3> QED
      BY <3>2
  <2>6. CASE y \notin Range(p)
    <3>0. P[m + 1] = Grow(P[m], relation)
      BY <1>1, <2>4
    <3>1. Append(p, y) \in P[m + 1]
      BY <2>1, <2>2, <2>3a, <2>6, <3>0 DEF Grow
    <3>2. Last(Append(p, y)) = y
      BY <2>1, <2>4 DEF Last
    <3> QED
      BY <3>1, <3>2
  <2> QED
    BY <2>5, <2>6
<1> HIDE DEF T
<1>5. Nat \subseteq T
  BY <1>3, <1>4, InductionOnSet
<1> QED
  BY <1>5 DEF T, P, W

\* Leaving out the paths that visit anything twice leaves nothing out.
LEMMA VisitedByWalks ==
    ASSUME NEW start \in SUBSET Ids, NEW relation \in Relations
    PROVE  Visited(start, relation) = UNION {Walks(start, relation)[n] : n \in 0 .. MaxDepth}
<1> DEFINE P == PathsOfDepth(start, relation)
           W == Walks(start, relation)
<1>0. MaxDepth \in Nat
  BY MaxDepthAssumption
<1>0a. \A n \in Nat : \A p \in P[n] : /\ p \in Seq(Ids) /\ Len(p) = n + 1
                                      /\ \A i \in 1 .. n + 1 : p[i] \in W[i - 1]
  BY PathsAreWalks
<1>1. ASSUME NEW x \in Visited(start, relation) PROVE \E n \in 0 .. MaxDepth : x \in W[n]
  <2>1. PICK n \in 0 .. MaxDepth : \E p \in P[n] : x \in Range(p)
    BY DEF Visited, Paths
  <2>1a. PICK p \in P[n] : x \in Range(p)
    BY <2>1
  <2>2. p \in Seq(Ids) /\ Len(p) = n + 1 /\ \A i \in 1 .. n + 1 : p[i] \in W[i - 1]
    BY <1>0, <1>0a, <2>1a
  <2> HIDE DEF P, W
  <2>3. PICK i \in 1 .. n + 1 : p[i] = x
    BY <2>1a, <2>2 DEF Range
  <2>4. i - 1 \in 0 .. MaxDepth /\ x \in W[i - 1]
    BY <1>0, <2>2, <2>3
  <2> QED
    BY <2>4
<1>2. ASSUME NEW n \in 0 .. MaxDepth, NEW x \in W[n] PROVE x \in Visited(start, relation)
  <2>1. PICK m \in 0 .. n : \E p \in P[m] : Last(p) = x
    BY <1>0, WalksShorten
  <2>1a. PICK p \in P[m] : Last(p) = x
    BY <2>1
  <2>2. p \in Seq(Ids) /\ Len(p) = m + 1
    BY <1>0, <1>0a, <2>1a
  <2>3. x \in Range(p)
    BY <1>0, <2>1a, <2>2 DEF Last, Range
  <2>4. p \in Paths(start, relation)
    BY <1>0, <2>1a DEF Paths
  <2> QED
    BY <2>3, <2>4 DEF Visited
<1> QED
  BY <1>1, <1>2

----
(* Walks, compared *)

\* More to start from and more to walk along reach more.
LEMMA WalksGrow ==
    ASSUME NEW start \in SUBSET Ids, NEW relation \in Relations,
           NEW from \in SUBSET start, NEW along \in SUBSET relation
    PROVE  Visited(from, along) \subseteq Visited(start, relation)
<1> DEFINE A == Walks(from, along)
           B == Walks(start, relation)
           T == {n \in Nat : A[n] \subseteq B[n]}
<1>0. from \in SUBSET Ids /\ along \in Relations
  BY DEF Relations
<1>1. /\ A[0] = from /\ B[0] = start
      /\ \A n \in Nat : A[n + 1] = Image(A[n], along) /\ B[n + 1] = Image(B[n], relation)
  BY <1>0, WalksUnfold
<1>2. /\ Visited(from, along) = UNION {A[n] : n \in 0 .. MaxDepth}
      /\ Visited(start, relation) = UNION {B[n] : n \in 0 .. MaxDepth}
  BY <1>0, VisitedByWalks
<1> HIDE DEF A, B
<1>3. 0 \in T
  BY <1>1
<1>4. ASSUME NEW n \in Nat, n \in T PROVE n + 1 \in T
  <2>1. A[n] \subseteq B[n] /\ A[n + 1] = Image(A[n], along) /\ B[n + 1] = Image(B[n], relation)
    BY <1>1, <1>4
  <2>2. A[n + 1] \subseteq B[n + 1]
    BY <2>1 DEF Image
  <2> QED
    BY <2>2
<1> HIDE DEF T
<1>5. Nat \subseteq T
  BY <1>3, <1>4, InductionOnSet
<1>6. \A n \in 0 .. MaxDepth : A[n] \subseteq B[n]
  BY <1>5, MaxDepthAssumption DEF T
<1> QED
  BY <1>2, <1>6

\* Nothing is reached from nothing.
LEMMA NothingFromNothing ==
    ASSUME NEW relation \in Relations
    PROVE  Visited({}, relation) = {}
<1> DEFINE A == Walks({}, relation)
           T == {n \in Nat : A[n] = {}}
<1>1. A[0] = {} /\ \A n \in Nat : A[n + 1] = Image(A[n], relation)
  BY WalksUnfold
<1>2. Visited({}, relation) = UNION {A[n] : n \in 0 .. MaxDepth}
  BY VisitedByWalks
<1> HIDE DEF A
<1>3. 0 \in T
  BY <1>1
<1>4. ASSUME NEW n \in Nat, n \in T PROVE n + 1 \in T
  <2>1. A[n] = {} /\ A[n + 1] = Image(A[n], relation)
    BY <1>1, <1>4
  <2> QED
    BY <2>1 DEF Image
<1> HIDE DEF T
<1>5. Nat \subseteq T
  BY <1>3, <1>4, InductionOnSet
<1>6. \A n \in 0 .. MaxDepth : A[n] = {}
  BY <1>5, MaxDepthAssumption DEF T
<1> QED
  BY <1>2, <1>6

\* A walk that starts with a step is one step longer.
LEMMA WalksShift ==
    ASSUME NEW start \in SUBSET Ids, NEW relation \in Relations
    PROVE  \A n \in Nat :
              Walks(Image(start, relation), relation)[n] = Walks(start, relation)[n + 1]
<1> DEFINE A == Walks(Image(start, relation), relation)
           B == Walks(start, relation)
           T == {n \in Nat : A[n] = B[n + 1]}
<1>0. Image(start, relation) \in SUBSET Ids
  BY DEF Image, Relations
<1>1. /\ A[0] = Image(start, relation) /\ B[0] = start
      /\ \A n \in Nat : A[n + 1] = Image(A[n], relation) /\ B[n + 1] = Image(B[n], relation)
  BY <1>0, WalksUnfold
<1> HIDE DEF A, B
<1>2. 0 \in T
  <2>1. B[0 + 1] = Image(B[0], relation)
    BY <1>1
  <2> QED
    BY <1>1, <2>1
<1>3. ASSUME NEW n \in Nat, n \in T PROVE n + 1 \in T
  <2>1. A[n] = B[n + 1] /\ A[n + 1] = Image(A[n], relation)
    BY <1>1, <1>3
  <2>2. n + 1 \in Nat
    OBVIOUS
  <2>3. B[(n + 1) + 1] = Image(B[n + 1], relation)
    BY <1>1, <2>2
  <2> QED
    BY <2>1, <2>2, <2>3
<1> HIDE DEF T
<1>4. Nat \subseteq T
  BY <1>2, <1>3, InductionOnSet
<1> QED
  BY <1>4 DEF T, A, B

\* What a set reaches, one of its elements reaches.
LEMMA WalksFromOne ==
    ASSUME NEW start \in SUBSET Ids, NEW relation \in Relations
    PROVE  \A n \in Nat : Walks(start, relation)[n] = {x \in Ids :
              \E z \in start : x \in Walks({z}, relation)[n]}
<1> DEFINE A == Walks(start, relation)
           B == [z \in start |-> Walks({z}, relation)]
           T == {n \in Nat : A[n] = {x \in Ids : \E z \in start : x \in B[z][n]}}
<1>1. /\ A[0] = start
      /\ \A n \in Nat : A[n] \subseteq Ids /\ A[n + 1] = Image(A[n], relation)
  BY WalksUnfold
<1>2. ASSUME NEW z \in start
      PROVE  /\ B[z][0] = {z}
             /\ \A n \in Nat : B[z][n] \subseteq Ids /\ B[z][n + 1] = Image(B[z][n], relation)
  <2>1. {z} \in SUBSET Ids
    OBVIOUS
  <2>2. /\ Walks({z}, relation)[0] = {z}
        /\ \A n \in Nat : /\ Walks({z}, relation)[n] \subseteq Ids
                          /\ Walks({z}, relation)[n + 1] = Image(Walks({z}, relation)[n], relation)
    BY <2>1, WalksUnfold
  <2>3. B[z] = Walks({z}, relation)
    OBVIOUS
  <2> QED
    BY <2>2, <2>3
<1>3. \A z \in start : B[z] = Walks({z}, relation)
  OBVIOUS
<1> HIDE DEF A, B
<1>4. 0 \in T
  BY <1>1, <1>2
<1>5. ASSUME NEW n \in Nat, n \in T PROVE n + 1 \in T
  <2>1. /\ A[n] = {x \in Ids : \E z \in start : x \in B[z][n]}
        /\ A[n + 1] = Image(A[n], relation)
        /\ \A z \in start : B[z][n] \subseteq Ids /\ B[z][n + 1] = Image(B[z][n], relation)
    BY <1>1, <1>2, <1>5
  <2>2. A[n + 1] = {x \in Ids : \E z \in start : x \in B[z][n + 1]}
    BY <2>1 DEF Image, Relations
  <2> QED
    BY <2>2
<1> HIDE DEF T
<1>6. Nat \subseteq T
  BY <1>4, <1>5, InductionOnSet
<1>7. \A n \in Nat : A[n] = {x \in Ids : \E z \in start : x \in B[z][n]}
  BY <1>6 DEF T
<1> QED
  BY <1>3, <1>7 DEF A

Backwards(relation) == {<<pair[2], pair[1]>> : pair \in relation}

\* A walk from a to b along the relation is one from b to a the other way.
LEMMA WalksReverse ==
    ASSUME NEW relation \in Relations
    PROVE  \A n \in Nat : \A a, b \in Ids :
              b \in Walks({a}, relation)[n] <=> a \in Walks({b}, Backwards(relation))[n]
<1> DEFINE back == Backwards(relation)
           A == [a \in Ids |-> Walks({a}, relation)]
           B == [b \in Ids |-> Walks({b}, back)]
           T == {n \in Nat : \A a, b \in Ids : b \in A[a][n] <=> a \in B[b][n]}
<1>0. back \in Relations
  BY DEF Backwards, Relations
<1>1. \A x, y \in Ids : <<x, y>> \in relation <=> <<y, x>> \in back
  BY DEF Backwards, Relations
<1>2. /\ \A a \in Ids : A[a] = Walks({a}, relation)
      /\ \A b \in Ids : B[b] = Walks({b}, back)
  OBVIOUS
<1>3. ASSUME NEW a \in Ids
      PROVE  /\ A[a][0] = {a}
             /\ \A n \in Nat : A[a][n] \subseteq Ids /\ A[a][n + 1] = Image(A[a][n], relation)
  <2>1. {a} \in SUBSET Ids
    OBVIOUS
  <2>2. /\ Walks({a}, relation)[0] = {a}
        /\ \A n \in Nat : /\ Walks({a}, relation)[n] \subseteq Ids
                          /\ Walks({a}, relation)[n + 1] = Image(Walks({a}, relation)[n], relation)
    BY <2>1, WalksUnfold
  <2> QED
    BY <1>2, <2>2
<1> HIDE DEF back
<1>4. ASSUME NEW b \in Ids
      PROVE  /\ B[b][0] = {b}
             /\ \A n \in Nat : \A a \in Ids :
                   a \in B[b][n + 1] <=> \E z \in Ids : <<b, z>> \in back /\ a \in B[z][n]
  <2>1. {b} \in SUBSET Ids
    OBVIOUS
  <2>2. PICK near \in SUBSET Ids : near = Image({b}, back)
    BY <1>0 DEF Image, Relations
  <2>3. Walks({b}, back)[0] = {b}
    BY <1>0, <2>1, WalksUnfold
  <2>4. \A n \in Nat : Walks(Image({b}, back), back)[n] = Walks({b}, back)[n + 1]
    BY <1>0, <2>1, WalksShift
  <2>5. \A n \in Nat : Walks(near, back)[n]
                         = {x \in Ids : \E z \in near : x \in Walks({z}, back)[n]}
    BY <1>0, WalksFromOne
  <2>6. \A z \in Ids : z \in near <=> <<b, z>> \in back
    BY <1>0, <2>2 DEF Image, Relations
  <2>7. ASSUME NEW n \in Nat, NEW a \in Ids
        PROVE  a \in B[b][n + 1] <=> \E z \in Ids : <<b, z>> \in back /\ a \in B[z][n]
    <3>1. B[b][n + 1] = {x \in Ids : \E z \in near : x \in Walks({z}, back)[n]}
      <4>1. B[b] = Walks({b}, back)
        BY <1>2
      <4>2. Walks({b}, back)[n + 1] = Walks(near, back)[n]
        BY <2>2, <2>4
      <4> QED
        BY <2>5, <4>1, <4>2
    <3>2. \A z \in Ids : B[z][n] = Walks({z}, back)[n]
      BY <1>2
    <3> HIDE DEF B
    <3> QED
      BY <2>6, <3>1, <3>2
  <2> QED
    BY <1>2, <2>3, <2>7
<1> HIDE DEF A, B
<1>5. 0 \in T
  BY <1>3, <1>4
<1>6. ASSUME NEW n \in Nat, n \in T PROVE n + 1 \in T
  <2>1. \A a, b \in Ids : b \in A[a][n] <=> a \in B[b][n]
    BY <1>6
  <2>2. ASSUME NEW a \in Ids, NEW b \in Ids PROVE b \in A[a][n + 1] <=> a \in B[b][n + 1]
    <3>1. A[a][n] \subseteq Ids /\ A[a][n + 1] = Image(A[a][n], relation)
      BY <1>3
    <3>2. b \in A[a][n + 1] <=> \E z \in Ids : <<z, b>> \in relation /\ z \in A[a][n]
      <4>1. PICK S : S = A[a][n]
        OBVIOUS
      <4>2. b \in Image(S, relation) <=> \E z \in Ids : z \in S /\ <<z, b>> \in relation
        BY ImageBy
      <4> QED
        BY <3>1, <4>1, <4>2
    <3>3. a \in B[b][n + 1] <=> \E z \in Ids : <<b, z>> \in back /\ a \in B[z][n]
      BY <1>4
    <3> QED
      BY <1>1, <2>1, <3>2, <3>3
  <2> QED
    BY <2>2
<1> HIDE DEF T
<1>7. Nat \subseteq T
  BY <1>5, <1>6, InductionOnSet
<1>8. \A n \in Nat : \A a, b \in Ids : b \in A[a][n] <=> a \in B[b][n]
  BY <1>7 DEF T
<1> QED
  BY <1>2, <1>8 DEF back

----
(* The inductive invariant *)

\* The empty tables satisfy the invariant, and each transaction of callers that take turns
\* keeps it: what CreateEntry and UpdateEntry put into group_members they put there for an
\* entry that is a group.
LEMMA SerialInvInit == SerialInit => SerialInv
  BY InitTablesInv DEF SerialInit, InitTables, SerialInv, GroupsOnly

LEMMA SerialInvCreate ==
    ASSUME SerialInv, NEW e \in Entry, CreateEntryTx(e)
    PROVE  SerialInv'
<1>1. TablesInv'
  BY CreateKeepsTables DEF SerialInv
<1>2a. PICK row : row = NewRow(e)
  OBVIOUS
<1>2. row = NewRow(e) /\ row.id = nextId /\ row.class = e.class
  BY <1>2a DEF NewRow, NewId
<1>3. entries' = entries \cup {row}
  BY <1>2 DEF CreateEntryTx
<1>4. \A pair \in groupMembers' :
         pair \in groupMembers \/ (pair[1] = nextId /\ e.class = "groupOfNames")
  BY DEF CreateEntryTx, MemberRows, NewId
<1>5. \A pair \in groupMembers : pair[1] # nextId
  BY DEF SerialInv, TablesInv, BelowCounters, TablesOK, Ids
<1>6. \A r \in entries : r.id # nextId
  BY DEF SerialInv, TablesInv, BelowCounters, TablesOK, EntryRows, Ids
<1>7. GroupsOnly'
  BY <1>2, <1>3, <1>4, <1>5, <1>6 DEF SerialInv, GroupsOnly
<1> QED
  BY <1>1, <1>7 DEF SerialInv

LEMMA SerialInvRewrite ==
    ASSUME SerialInv, NEW d \in DNs, SerialRewrite(d)
    PROVE  SerialInv'
<1>1. PICK e \in Changed(LoadedEntry(d)) : UpdateEntryTx(e)
  BY DEF SerialRewrite
<1>2. Exists(d) /\ LoadedEntry(d) \in Entry
  BY LoadedIsEntry DEF SerialRewrite, SerialInv, TablesInv
<1>3. e \in Entry /\ e.dn = d /\ e.class = RowAt(d).class
  BY <1>2, ChangedIsEntry DEF LoadedEntry
<1>4. TablesInv'
  BY <1>1, <1>3, UpdateKeepsTables DEF SerialInv
<1>5. entries' = entries
  BY <1>1 DEF UpdateEntryTx
<1>6. PICK row \in entries : row = RowAt(d) /\ row.id = IdOf(d)
  BY <1>2, RowAtExists DEF IdOf
<1>7. \A pair \in groupMembers' :
         pair \in groupMembers \/ (pair[1] = row.id /\ row.class = "groupOfNames")
  BY <1>1, <1>3, <1>6 DEF UpdateEntryTx, ReplaceMembers, MemberRows, Without
<1>8. GroupsOnly'
  BY <1>5, <1>6, <1>7 DEF SerialInv, GroupsOnly, TablesInv, UniqueId
<1> QED
  BY <1>4, <1>8 DEF SerialInv

LEMMA SerialInvDelete ==
    ASSUME SerialInv, NEW d \in DNs, SerialDelete(d)
    PROVE  SerialInv'
<1>1. TablesInv' /\ entries' \subseteq entries
  BY DeleteKeepsTables DEF SerialDelete, DeleteEntryTx, SerialInv
<1>2. groupMembers' \subseteq groupMembers
  BY DEF SerialDelete, DeleteEntryTx, Cascade, attributes, classTables
<1> QED
  BY <1>1, <1>2 DEF SerialInv, GroupsOnly

LEMMA SerialInvStep == SerialInv /\ [SerialNext]_tables => SerialInv'
<1> SUFFICES ASSUME SerialInv, [SerialNext]_tables PROVE SerialInv'
  OBVIOUS
<1>1. CASE SerialCreateBase
  BY <1>1, BaseIsEntry, SerialInvCreate DEF SerialCreateBase
<1>2. ASSUME NEW d \in DNs, NEW k \in ClassesAt[d], SerialCreate(d, k) PROVE SerialInv'
  <2>1. PICK x \in Contents(k) : CreateEntryTx(NewEntry(d, k, x))
    BY <1>2 DEF SerialCreate
  <2> QED
    BY <2>1, NewIsEntry, SerialInvCreate
<1>3. ASSUME NEW d \in DNs, SerialRewrite(d) PROVE SerialInv'
  BY <1>3, SerialInvRewrite
<1>4. ASSUME NEW d \in DNs, SerialDelete(d) PROVE SerialInv'
  BY <1>4, SerialInvDelete
<1>5. CASE UNCHANGED tables
  <2>1. groupMembers' = groupMembers /\ entries' = entries
    BY <1>5 DEF tables
  <2> QED
    BY <1>5, <2>1, SameTablesInv DEF SerialInv, GroupsOnly
<1> QED
  BY <1>1, <1>2, <1>3, <1>4, <1>5 DEF SerialNext

\* The tables keep their invariants, and group_members has no rows of a live entry
\* that is not a group.
THEOREM SerialInvariant == SerialSpec => []SerialInv
  BY SerialInvInit, SerialInvStep, PTL DEF SerialSpec

----
(* The queries *)

\* What the queries walk along, as relations of ids.
LEMMA UpIsRelation ==
    ASSUME TablesOK, NEW ids
    PROVE  /\ UpTo(ids) \in Relations
           /\ \A id : GroupsOf(id, ids) = Image({id}, UpTo(ids))
           /\ \A id : GroupsOf(id, ids) \in SUBSET Ids
<1>1. UpTo(ids) \in Relations
  BY DEF TablesOK, UpTo, Relations
<1>2. \A id : GroupsOf(id, ids) = Image({id}, UpTo(ids))
  BY DEF GroupsOf, Image
<1>3. \A id : GroupsOf(id, ids) \in SUBSET Ids
  BY DEF GroupsOf, UpTo, TablesOK
<1> QED
  BY <1>1, <1>2, <1>3

\* An entry is the row at its DN.
LEMMA RowAtItsDN ==
    ASSUME UniqueDN, NEW r \in entries
    PROVE  Exists(r.dn) /\ RowAt(r.dn) = r /\ IdOf(r.dn) = r.id
<1>1. Exists(r.dn)
  BY DEF Exists
<1>2. RowAt(r.dn) = r
  BY <1>1, RowAtExists DEF UniqueDN
<1> QED
  BY <1>1, <1>2 DEF IdOf

\* A memberOf value the directory shows is one authorization honours: the projection
\* walks along a part of what the authorization query walks along.
LEMMA ShownIsHonoured == TablesInv => ShownMembershipHonoured
<1> SUFFICES ASSUME TablesInv, NEW u \in DNs, NEW g \in MemberOf(u)
             PROVE  IsUserInGroup(u, g)
  BY DEF ShownMembershipHonoured
<1>1. Exists(u) /\ g \in MemberOfId(IdOf(u))
  BY DEF MemberOf
<1>2. PICK id : id = IdOf(u)
  OBVIOUS
<1>3. PICK s \in entries : g = s.dn /\ s.id \in Visited(GroupsOf(id, LiveIds), UpTo(LiveIds))
  BY <1>1, <1>2 DEF MemberOfId
<1>4. LiveIds \subseteq Ids
  BY DEF TablesInv, TablesOK, EntryRows, LiveIds
<1>5. /\ UpTo(LiveIds) \in SUBSET UpTo(Ids) /\ UpTo(Ids) \in Relations
      /\ GroupsOf(id, LiveIds) \in SUBSET GroupsOf(id, Ids) /\ GroupsOf(id, Ids) \in SUBSET Ids
  <2>1. UpTo(LiveIds) \in SUBSET UpTo(Ids)
    BY <1>4 DEF UpTo
  <2> QED
    BY <2>1, UpIsRelation DEF GroupsOf, TablesInv
<1>6. Visited(GroupsOf(id, LiveIds), UpTo(LiveIds)) \subseteq Visited(GroupsOf(id, Ids), UpTo(Ids))
  BY <1>5, WalksGrow
<1>7. Exists(g) /\ IdOf(g) = s.id
  BY <1>3, RowAtItsDN DEF TablesInv
<1> QED
  BY <1>1, <1>2, <1>3, <1>6, <1>7 DEF IsUserInGroup

\* A memberOf value the directory shows is one authorization honours, whatever the groups.
THEOREM MembershipIsHonoured == SerialSpec => []ShownMembershipHonoured
  BY SerialInvariant, ShownIsHonoured, PTL DEF SerialInv

\* An id no row names as a member is in no group.
UnnamedAlone ==
    \A r \in entries :
        (\A row \in groupMembers : row[2] # r.id) =>
            MemberOf(r.dn) = {} /\ \A g \in DNs : ~IsUserInGroup(r.dn, g)

LEMMA UnnamedInNoGroup == TablesInv => UnnamedAlone
<1> SUFFICES ASSUME TablesInv, NEW r \in entries, \A row \in groupMembers : row[2] # r.id
             PROVE  MemberOf(r.dn) = {} /\ \A g \in DNs : ~IsUserInGroup(r.dn, g)
  BY DEF UnnamedAlone
<1>1. Exists(r.dn) /\ IdOf(r.dn) = r.id
  BY RowAtItsDN DEF TablesInv
<1>2. ASSUME NEW ids PROVE Visited(GroupsOf(r.id, ids), UpTo(ids)) = {}
  <2>1. GroupsOf(r.id, ids) = {}
    BY DEF GroupsOf, UpTo
  <2> QED
    BY <2>1, UpIsRelation, NothingFromNothing DEF TablesInv
<1>3. MemberOfId(r.id) = {}
  BY <1>2 DEF MemberOfId
<1> QED
  BY <1>1, <1>2, <1>3 DEF MemberOf, IsUserInGroup

LEMMA UnnamedInNoGroupNext == TablesInv' => UnnamedAlone'
  BY UnnamedInNoGroup, PTL

\* AUTOINCREMENT gives a new entry an id that no row of group_members has: a user created
\* under the DN of a deleted one is in none of its groups.
THEOREM NewUsersStartAlone == SerialSpec => NewUserInNoGroup
<1>1. ASSUME SerialInv, NEW e \in Entry, CreateEntryTx(e), NEW r \in entries' \ entries,
             r.class = "inetOrgPerson"
      PROVE  /\ MemberOf(r.dn)' = {}
             /\ \A g \in DNs : ~IsUserInGroup(r.dn, g)'
  <2>1. TablesInv'
    BY <1>1, CreateKeepsTables DEF SerialInv
  <2>2. r = NewRow(e) /\ r.id = nextId /\ e.class = "inetOrgPerson"
    BY <1>1 DEF CreateEntryTx, NewRow, NewId
  <2>3. groupMembers' = groupMembers
    BY <1>1, <2>2 DEF CreateEntryTx
  <2>4. \A row \in groupMembers : row[2] # nextId
    BY <1>1 DEF SerialInv, TablesInv, BelowCounters, TablesOK, Ids
  <2> QED
    BY <2>1, <2>2, <2>3, <2>4, UnnamedInNoGroupNext DEF UnnamedAlone
<1>2. ASSUME SerialInv, [SerialNext]_tables, NEW r \in entries' \ entries, r.class = "inetOrgPerson"
      PROVE  /\ MemberOf(r.dn)' = {}
             /\ \A g \in DNs : ~IsUserInGroup(r.dn, g)'
  <2>1. CASE SerialCreateBase
    BY <1>1, <1>2, <2>1, BaseIsEntry DEF SerialCreateBase
  <2>2. ASSUME NEW d \in DNs, NEW k \in ClassesAt[d], SerialCreate(d, k)
        PROVE  \E e \in Entry : CreateEntryTx(e)
    BY <2>2, NewIsEntry DEF SerialCreate
  <2>3. ASSUME NEW d \in DNs, SerialRewrite(d) PROVE FALSE
    BY <1>2, <2>3 DEF SerialRewrite, UpdateEntryTx
  <2>4. ASSUME NEW d \in DNs, SerialDelete(d) PROVE FALSE
    BY <1>2, <2>4 DEF SerialDelete, DeleteEntryTx
  <2>5. CASE UNCHANGED tables
    BY <1>2, <2>5 DEF tables
  <2> QED
    BY <1>1, <1>2, <2>1, <2>2, <2>3, <2>4, <2>5 DEF SerialNext
<1>3. SerialInv /\ [SerialNext]_tables =>
        [\A r \in entries' \ entries :
            r.class = "inetOrgPerson" =>
               /\ MemberOf(r.dn)' = {}
               /\ \A g \in DNs : ~IsUserInGroup(r.dn, g)']_tables
  BY <1>2
<1> QED
  BY <1>3, SerialInvariant, PTL DEF SerialSpec, NewUserInNoGroup

----
(* The protection against cycles *)

\* The reference definition, unfolded: within n steps is the id, or a walk of fewer than n
\* steps from its groups.
LEMMA WithinUnfold ==
    ASSUME TablesOK, NEW id \in Ids
    PROVE  \A n \in Nat : WithinSteps(id)[n] =
              {id} \cup UNION {Walks(GroupsOf(id, Ids), UpTo(Ids))[k] : k \in 0 .. n - 1}
<1> DEFINE V == SUBSET Ids
           Further(S) == S \cup UNION {GroupsOf(x, Ids) : x \in S}
           Step == [S \in V |-> Further(S)]
<1>0. \A x : GroupsOf(x, Ids) \in SUBSET Ids
  BY UpIsRelation
<1>1. Step \in [V -> V] /\ {id} \in V
  BY <1>0
<1>2. PICK g \in [Nat -> V] : g[0] = {id} /\ \A n \in Nat : g[n + 1] = Step[g[n]]
  <2> HIDE DEF Step, V
  <2> QED
    BY <1>1, RecursionOnNat
<1>3. \A n \in Nat : g[n + 1] = Further(g[n])
  BY <1>2
<1> HIDE DEF Step, V
<1>4. g = [n \in Nat |-> IF n = 0 THEN {id} ELSE Further(g[n - 1])]
  <2>1. ASSUME NEW n \in Nat, n # 0 PROVE g[n] = Further(g[n - 1])
    <3>1. n - 1 \in Nat /\ n = (n - 1) + 1
      BY <2>1
    <3> HIDE DEF Further
    <3> QED
      BY <1>3, <3>1
  <2> HIDE DEF Further
  <2> QED
    BY <1>2, <2>1
<1>5. PICK f : f = WithinSteps(id)
  OBVIOUS
<1>6. f = [n \in Nat |-> IF n = 0 THEN {id}
                         ELSE f[n - 1] \cup UNION {GroupsOf(x, Ids) : x \in f[n - 1]}]
  BY <1>4, <1>5, Zenon DEF WithinSteps
<1> USE DEF Further
<1>7. ASSUME NEW n \in Nat PROVE f[n + 1] = f[n] \cup UNION {GroupsOf(x, Ids) : x \in f[n]}
  <2>1. n + 1 \in Nat /\ n + 1 # 0 /\ (n + 1) - 1 = n
    OBVIOUS
  <2> QED
    BY <1>6, <2>1
<1>8. f[0] = {id}
  BY <1>6
<1>9. PICK relation \in Relations : relation = UpTo(Ids) /\ \A x : GroupsOf(x, Ids) = Image({x}, relation)
  BY UpIsRelation
<1>10. PICK W : W = Walks(GroupsOf(id, Ids), UpTo(Ids))
  OBVIOUS
<1>11. W[0] = GroupsOf(id, Ids) /\ \A k \in Nat : W[k + 1] = Image(W[k], relation)
  BY <1>0, <1>9, <1>10, WalksUnfold
<1>12. ASSUME NEW S PROVE Image(S, relation) = UNION {GroupsOf(x, Ids) : x \in S}
  BY <1>9 DEF Image
<1> DEFINE T == {n \in Nat : f[n] = {id} \cup UNION {W[k] : k \in 0 .. n - 1}}
<1>13. 0 \in T
  BY <1>8
<1>14. ASSUME NEW n \in Nat, n \in T PROVE n + 1 \in T
  <2>1. f[n] = {id} \cup UNION {W[k] : k \in 0 .. n - 1}
    BY <1>14
  <2>2. \A k \in Nat : W[k + 1] = UNION {GroupsOf(x, Ids) : x \in W[k]}
    BY <1>11, <1>12
  <2>3. ASSUME NEW y, y \in f[n + 1] PROVE y \in {id} \cup UNION {W[k] : k \in 0 .. n}
    <3>1. CASE y \in f[n]
      BY <2>1, <3>1
    <3>2. ASSUME NEW x \in f[n], y \in GroupsOf(x, Ids)
          PROVE  \E k \in 0 .. n : y \in W[k]
      <4>1. CASE x = id
        BY <1>11, <3>2, <4>1
      <4>2. ASSUME NEW k \in 0 .. n - 1, x \in W[k] PROVE y \in W[k + 1] /\ k + 1 \in 0 .. n
        BY <2>2, <3>2, <4>2
      <4> QED
        BY <2>1, <3>2, <4>1, <4>2
    <3> QED
      BY <1>7, <2>3, <3>1, <3>2
  <2>4. ASSUME NEW y, NEW k \in 0 .. n, y \in W[k] PROVE y \in f[n + 1]
    <3>1. CASE k = 0
      <4>1. id \in f[n] /\ y \in GroupsOf(id, Ids)
        BY <1>11, <2>1, <2>4, <3>1
      <4> QED
        BY <1>7, <4>1
    <3>2. CASE k # 0
      <4>1. k - 1 \in 0 .. n - 1 /\ k - 1 \in Nat /\ k = (k - 1) + 1
        BY <3>2
      <4>2. PICK x \in W[k - 1] : y \in GroupsOf(x, Ids)
        BY <2>2, <2>4, <4>1
      <4>3. x \in f[n]
        BY <2>1, <4>1, <4>2
      <4> QED
        BY <1>7, <4>2, <4>3
    <3> QED
      BY <3>1, <3>2
  <2>5. id \in f[n + 1]
    BY <1>7, <2>1
  <2>6. f[n + 1] = {id} \cup UNION {W[k] : k \in 0 .. n}
    BY <2>3, <2>4, <2>5
  <2>7. (n + 1) - 1 = n /\ n + 1 \in Nat
    OBVIOUS
  <2> QED
    BY <2>6, <2>7
<1> HIDE DEF T
<1>15. Nat \subseteq T
  BY <1>13, <1>14, InductionOnSet
<1> QED
  BY <1>5, <1>10, <1>15 DEF T

LEMMA CyclesLoseNothing == TablesInv => CycleProtectionExact
<1> SUFFICES ASSUME TablesInv, NEW r \in entries, NEW s \in entries
             PROVE  IsUserInGroup(r.dn, s.dn) <=> s.id \in Reach(r.id)
  BY DEF CycleProtectionExact
<1>1. TablesOK /\ UniqueDN
  BY DEF TablesInv
<1>2. PICK id \in Ids : id = r.id
  BY <1>1 DEF TablesOK, EntryRows
<1>3. PICK W : W = Walks(GroupsOf(id, Ids), UpTo(Ids))
  OBVIOUS
<1>4. PICK relation \in Relations : relation = UpTo(Ids) /\ \A x : GroupsOf(x, Ids) = Image({x}, relation)
  BY <1>1, UpIsRelation
<1>5. W[0] = GroupsOf(id, Ids) /\ \A k \in Nat : W[k + 1] = Image(W[k], relation)
  BY <1>1, <1>3, <1>4, UpIsRelation, WalksUnfold
<1>6. \A k \in Nat : W[k + 1] = UNION {GroupsOf(x, Ids) : x \in W[k]}
  <2>1. ASSUME NEW S PROVE Image(S, relation) = UNION {GroupsOf(x, Ids) : x \in S}
    BY <1>4 DEF Image
  <2> QED
    BY <1>5, <2>1
<1>7. IsUserInGroup(r.dn, s.dn) <=> s.id \in UNION {W[n] : n \in 0 .. MaxDepth}
  <2>1. Visited(GroupsOf(id, Ids), UpTo(Ids)) = UNION {W[n] : n \in 0 .. MaxDepth}
    BY <1>1, <1>3, UpIsRelation, VisitedByWalks
  <2>2. Exists(r.dn) /\ IdOf(r.dn) = id /\ Exists(s.dn) /\ IdOf(s.dn) = s.id
    BY <1>1, <1>2, RowAtItsDN
  <2> QED
    BY <2>1, <2>2 DEF IsUserInGroup
<1>8. WithinSteps(id)[MaxDepth] = {id} \cup UNION {W[k] : k \in 0 .. MaxDepth - 1}
  BY <1>1, <1>3, MaxDepthAssumption, WithinUnfold
<1>9. ASSUME NEW y
      PROVE  y \in Reach(id) <=> y \in UNION {W[n] : n \in 0 .. MaxDepth}
  <2>1. y \in Reach(id) <=> \E x \in WithinSteps(id)[MaxDepth] : y \in GroupsOf(x, Ids)
    BY DEF Reach
  <2>2. y \in Reach(id) <=> \/ y \in W[0]
                            \/ \E k \in 0 .. MaxDepth - 1 : y \in W[k + 1]
    BY <1>5, <1>6, <1>8, <2>1, MaxDepthAssumption
  <2>3. ASSUME NEW n \in 0 .. MaxDepth, n # 0 PROVE n - 1 \in 0 .. MaxDepth - 1 /\ n = (n - 1) + 1
    BY <2>3, MaxDepthAssumption
  <2>4. ASSUME NEW k \in 0 .. MaxDepth - 1 PROVE k + 1 \in 0 .. MaxDepth
    BY <2>4, MaxDepthAssumption
  <2>5. 0 \in 0 .. MaxDepth
    BY MaxDepthAssumption
  <2> QED
    BY <2>2, <2>3, <2>4, <2>5
<1> QED
  BY <1>2, <1>7, <1>9

\* The paths the authorization query follows visit no group twice, and it finds what walks
\* of any kind find, however the groups contain each other.
THEOREM CycleProtectionLosesNothing == SerialSpec => []CycleProtectionExact
  BY SerialInvariant, CyclesLoseNothing, PTL DEF SerialInv

----
(* The search and the projection *)

\* What the paths from one step away visit: walks of one step or more, MaxDepth + 1 at most.
LEMMA VisitedFromImage ==
    ASSUME NEW relation \in Relations, NEW a \in Ids
    PROVE  \A x : x \in Visited(Image({a}, relation), relation)
                  <=> \E n \in 0 .. MaxDepth : x \in Walks({a}, relation)[n + 1]
<1>1. {a} \in SUBSET Ids /\ Image({a}, relation) \in SUBSET Ids
  BY ImageBy
<1>2. Visited(Image({a}, relation), relation)
        = UNION {Walks(Image({a}, relation), relation)[n] : n \in 0 .. MaxDepth}
  BY <1>1, VisitedByWalks
<1>3. \A n \in Nat : Walks(Image({a}, relation), relation)[n] = Walks({a}, relation)[n + 1]
  BY <1>1, WalksShift
<1>4. \A n \in 0 .. MaxDepth :
         Walks(Image({a}, relation), relation)[n] = Walks({a}, relation)[n + 1]
  BY <1>3, MaxDepthAssumption
<1> QED
  BY <1>2, <1>4

\* Walking down from the group and up from the user meet, within the same depth: the rows
\* the search joins to groups are those the projection joins to entries.
LEMMA SearchMeetsProjection == SerialInv => SearchMatchesProjection
<1> SUFFICES ASSUME SerialInv, NEW u \in DNs, NEW g \in DNs
             PROVE  u \in SearchByMemberOf(g) <=> g \in MemberOf(u)
  BY DEF SearchMatchesProjection
<1>1. TablesOK /\ UniqueDN /\ LiveIds \subseteq Ids
  BY DEF SerialInv, TablesInv, TablesOK, EntryRows, LiveIds
<1>2. PICK down : down = Down
  OBVIOUS
<1>3. down = {row \in groupMembers : row[1] \in LiveIds}
  BY <1>2 DEF Down, LiveIds, SerialInv, GroupsOnly
<1>4. down \in Relations
  BY <1>1, <1>3 DEF TablesOK, Relations
<1>5. UpTo(LiveIds) = Backwards(down)
  BY <1>3 DEF UpTo, Backwards
<1>6. ASSUME NEW r \in entries, NEW s \in entries
      PROVE  r.id \in Visited(Image({s.id}, down), down)
               <=> s.id \in Visited(Image({r.id}, Backwards(down)), Backwards(down))
  <2>1. Backwards(down) \in Relations
    BY <1>1, <1>5, UpIsRelation
  <2>2. PICK a, b \in Ids : a = r.id /\ b = s.id
    BY <1>1 DEF TablesOK, EntryRows
  <2>3. \A n \in Nat : a \in Walks({b}, down)[n] <=> b \in Walks({a}, Backwards(down))[n]
    BY <1>4, WalksReverse
  <2>4. \A n \in 0 .. MaxDepth :
           a \in Walks({b}, down)[n + 1] <=> b \in Walks({a}, Backwards(down))[n + 1]
    <3>1. \A n \in 0 .. MaxDepth : n + 1 \in Nat
      BY MaxDepthAssumption
    <3> QED
      BY <2>3, <3>1
  <2>5. a \in Visited(Image({b}, down), down)
          <=> \E n \in 0 .. MaxDepth : a \in Walks({b}, down)[n + 1]
    BY <1>4, VisitedFromImage
  <2>6. b \in Visited(Image({a}, Backwards(down)), Backwards(down))
          <=> \E n \in 0 .. MaxDepth : b \in Walks({a}, Backwards(down))[n + 1]
    BY <2>1, VisitedFromImage
  <2> QED
    BY <2>2, <2>4, <2>5, <2>6
<1>7. ASSUME NEW s \in entries
      PROVE  {row[2] : row \in {r \in groupMembers : r[1] = s.id}} = Image({s.id}, down)
  BY <1>3 DEF Image, LiveIds
<1>8. ASSUME NEW r \in entries
      PROVE  GroupsOf(r.id, LiveIds) = Image({r.id}, Backwards(down))
  BY <1>1, <1>5, UpIsRelation
<1>9. u \in SearchByMemberOf(g) <=>
        \E r, s \in entries :
           /\ r.dn = u /\ s.dn = g /\ r.class = "inetOrgPerson"
           /\ r.id \in Visited(Image({s.id}, down), down)
  <2>1. CASE Exists(g)
    <3>1. PICK s \in entries : s.dn = g /\ IdOf(g) = s.id /\ \A t \in entries : t.dn = g => t = s
      BY <1>1, <2>1, RowAtItsDN DEF Exists
    <3>2. SearchByMemberOf(g) =
            {r.dn : r \in {r \in entries : /\ r.id \in Visited(Image({s.id}, down), down)
                                           /\ r.class = "inetOrgPerson"}}
      BY <1>2, <1>7, <2>1, <3>1 DEF SearchByMemberOf
    <3> QED
      BY <3>1, <3>2
  <2>2. CASE ~Exists(g)
    BY <2>2 DEF SearchByMemberOf, Exists
  <2> QED
    BY <2>1, <2>2
<1>10. g \in MemberOf(u) <=>
        \E r, s \in entries :
           /\ r.dn = u /\ s.dn = g /\ r.class = "inetOrgPerson"
           /\ s.id \in Visited(Image({r.id}, Backwards(down)), Backwards(down))
  <2>1. CASE Exists(u)
    <3>1. PICK r \in entries : /\ r.dn = u /\ IdOf(u) = r.id /\ RowAt(u) = r
                               /\ \A t \in entries : t.dn = u => t = r
      BY <1>1, <2>1, RowAtItsDN DEF Exists
    <3>2. MemberOfId(r.id) =
            {s.dn : s \in {s \in entries :
                              s.id \in Visited(Image({r.id}, Backwards(down)), Backwards(down))}}
      BY <1>5, <1>8, <3>1 DEF MemberOfId
    <3> QED
      BY <2>1, <3>1, <3>2 DEF MemberOf
  <2>2. CASE ~Exists(u)
    BY <2>2 DEF MemberOf, Exists
  <2> QED
    BY <2>1, <2>2
<1> QED
  BY <1>6, <1>9, <1>10

\* The (memberOf=g) search returns the users whose memberOf attribute names g.
THEOREM SearchMeetsMemberOf == SerialSpec => []SearchMatchesProjection
  BY SerialInvariant, SearchMeetsProjection, PTL

====
