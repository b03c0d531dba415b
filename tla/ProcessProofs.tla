---- MODULE ProcessProofs ----
(***************************************************************************)
(* Theorems about how a process starts and stops: starting on a database   *)
(* file, for any number of processes and starts, and the shutdown of the   *)
(* server, for any number of connections and requests.                     *)
(***************************************************************************)
EXTENDS Bootstrap, ServerLifecycle, EntryStoreProofs, FiniteSetTheorems, TLAPS

----
(* Starting on a database file *)

\* The five entries, and that the first is the base.
LEMMA BootEntries ==
    /\ Len(Boot) = 5 /\ DOMAIN Boot = 1 .. 5
    /\ \A i \in 1 .. 5 : Boot[i] \in Entry
    /\ Boot[1].dn = BaseDN
<1>1. Len(Boot) = 5 /\ DOMAIN Boot = 1 .. 5
  BY DEF Boot
<1>2. Boot[1] \in Entry /\ Boot[1].dn = BaseDN
  BY BaseIsEntry DEF Boot
<1>3. Boot[2] \in Entry /\ Boot[3] \in Entry
  BY BootstrapAssumption DEF Boot, OU, Entry, Classes, PasswordHashes
<1>4. Boot[4] \in Entry /\ Boot[5] \in Entry
  BY BootstrapAssumption DEF Boot, Entry, Classes, PasswordHashes
<1> QED
  BY <1>1, <1>2, <1>3, <1>4

\* The empty file that no process has seen yet is well typed.
LEMMA BootTypeInit == Init => TypeOK
<1> SUFFICES ASSUME Init PROVE TypeOK
  OBVIOUS
<1>1. TablesOK
  BY InitTablesOK DEF Init
<1>2. starts \in 0 .. MaxStarts
  BY BootstrapAssumption DEF Init
<1>3. stage \in [Procs -> Stages] /\ next \in [Procs -> 1 .. Len(Boot) + 1]
  BY BootEntries DEF Init, Stages
<1>4. mark \in [version : 0 .. LastMigration, dirty : BOOLEAN]
      /\ at \in [Procs -> 0 .. LastMigration]
  BY BootstrapAssumption DEF Init
<1> QED
  BY <1>1, <1>2, <1>3, <1>4 DEF Init, TypeOK

\* The row of a DN that is there.
LEMMA IdInIds ==
    ASSUME TablesOK, NEW d, Exists(d)
    PROVE  RowAt(d) \in entries /\ IdOf(d) \in Ids
  BY DEF Exists, RowAt, IdOf, TablesOK, EntryRows

\* 005 keeps the types of the tables.
LEMMA AdminGroupTablesOK ==
    ASSUME TablesOK, CreateAdminGroup
    PROVE  TablesOK'
<1>1. CASE UNCHANGED tables
  BY <1>1 DEF TablesOK, tables, attributes, classTables
<1>2. CASE ~UNCHANGED tables
  <2> DEFINE id == IF Exists(AdminGroupDN) THEN IdOf(AdminGroupDN) ELSE nextId
             admin == {d \in {AdminDN} : Exists(d)}
  <2>1. id \in Ids /\ nextId' \in 1 .. MaxId + 1
    BY <1>2, IdInIds, StoreAssumption DEF CreateAdminGroup, TablesOK, Ids
  <2>2. entries' \subseteq EntryRows
    BY <1>2, <2>1, BootstrapAssumption DEF CreateAdminGroup, TablesOK, EntryRows, Classes
  <2>3. MemberRows(entries, id, admin) \subseteq Ids \X Ids
    BY <2>1 DEF MemberRows, TablesOK, EntryRows
  <2>4. groupMembers' \subseteq Ids \X Ids /\ groups' \subseteq Ids
    BY <1>2, <2>1, <2>3 DEF CreateAdminGroup, TablesOK
  <2>5. otherAttr' \subseteq Ids \X Attrs /\ memberAttr' \subseteq Ids \X DNs
    BY <1>2, <2>1, BootstrapAssumption DEF CreateAdminGroup, TablesOK
  <2> QED
    BY <1>2, <2>1, <2>2, <2>4, <2>5 DEF CreateAdminGroup, TablesOK
<1> QED
  BY <1>1, <1>2

\* So does 013.
LEMMA UuidsTablesOK ==
    ASSUME TablesOK, GiveUuids
    PROVE  TablesOK'
<1> DEFINE without == {id \in LiveIds : StoredUuids(id) = {}}
<1>1. without \subseteq Ids
  BY DEF LiveIds, TablesOK, EntryRows
<1>2. Cardinality(without) \in Nat
  <2>1. IsFiniteSet(Ids)
    BY FS_Interval, StoreAssumption DEF Ids
  <2>2. IsFiniteSet(without)
    BY <1>1, <2>1, FS_Subset
  <2> QED
    BY <2>2, FS_CardinalityType
<1>3. uuidAttr' \subseteq Ids \X Nat /\ nextUuid' \in Nat \ {0}
  BY <1>1, <1>2 DEF GiveUuids, TablesOK
<1> QED
  BY <1>3 DEF GiveUuids, TablesOK, classTables

\* What running a migration does to the tables.
LEMMA RunMigrationTables ==
    ASSUME NEW p, RunMigration(p)
    PROVE  CreateAdminGroup \/ GiveUuids \/ UNCHANGED tables
  BY BootstrapAssumption DEF RunMigration

\* A migration that is marked or run is one of those there are.
Underway == \A p \in Procs : stage[p] \in {"marked", "applied"} => at[p] < LastMigration

\* Every step keeps the types.
LEMMA BootTypeStep == TypeOK /\ Underway /\ [Next]_vars => TypeOK'
<1> SUFFICES ASSUME TypeOK, Underway, [Next]_vars PROVE TypeOK'
  OBVIOUS
<1> USE DEF Enter, At, Stages
<1>0. Len(Boot) = 5
  BY BootEntries
<1>1. ASSUME UNCHANGED tables PROVE TablesOK'
  BY <1>1 DEF TypeOK, TablesOK, tables, attributes, classTables
<1>2. ASSUME NEW p \in Procs, Start(p) PROVE TypeOK'
  <2>1. next' \in [Procs -> 1 .. Len(Boot) + 1] /\ starts' \in 0 .. MaxStarts
    BY <1>0, <1>2, BootstrapAssumption DEF TypeOK, Start
  <2>2. isNew' \in [Procs -> BOOLEAN] /\ password' \in [Procs -> BOOLEAN]
    BY <1>2 DEF TypeOK, Start
  <2> QED
    BY <1>1, <1>2, <2>1, <2>2 DEF TypeOK, Start, schema
<1>3. ASSUME NEW p \in Procs,
             Open(p) \/ EndMigration(p) \/ ChooseInit(p) \/ Ready(p) \/ Die(p)
      PROVE  TypeOK'
  <2>1. UNCHANGED <<tables, schema, starts, at, isNew, password, next>>
        /\ stage' \in [Procs -> Stages]
    BY <1>3 DEF TypeOK, Open, EndMigration, ChooseInit, Ready, Die
  <2>2. file' \in BOOLEAN
    BY <1>3 DEF TypeOK, Open, EndMigration, ChooseInit, Ready, Die
  <2> QED
    BY <1>1, <2>1, <2>2 DEF TypeOK, schema
<1>6. ASSUME NEW p \in Procs, ReadVersion(p) PROVE TypeOK'
  <2>1. at' \in [Procs -> 0 .. LastMigration]
    <3>1. 0 \in 0 .. LastMigration /\ mark.version \in 0 .. LastMigration
      BY BootstrapAssumption DEF TypeOK
    <3> QED
      BY <1>6, <3>1 DEF TypeOK, ReadVersion
  <2>2. stage' \in [Procs -> Stages]
    BY <1>6 DEF TypeOK, ReadVersion
  <2> QED
    BY <1>1, <1>6, <2>1, <2>2 DEF TypeOK, ReadVersion, schema
<1>7. ASSUME NEW p \in Procs, MarkDirty(p) PROVE TypeOK'
  <2>1. mark' \in [version : 0 .. LastMigration, dirty : BOOLEAN] /\ stage' \in [Procs -> Stages]
    BY <1>7, BootstrapAssumption DEF TypeOK, MarkDirty, Following
  <2> QED
    BY <1>1, <1>7, <2>1 DEF TypeOK, MarkDirty
<1>8. ASSUME NEW p \in Procs, RunMigration(p), at[p] < LastMigration PROVE TypeOK'
  <2>1. applied' \subseteq 1 .. LastMigration
    <3>1. Following(p) \in 1 .. LastMigration
      BY <1>8, BootstrapAssumption DEF TypeOK, Following
    <3> QED
      BY <1>8, <3>1 DEF TypeOK, RunMigration
  <2>3. stage' \in [Procs -> Stages]
    BY <1>8 DEF TypeOK, RunMigration
  <2>2. TablesOK'
    BY <1>1, <1>8, RunMigrationTables, AdminGroupTablesOK, UuidsTablesOK DEF TypeOK
  <2> QED
    BY <1>8, <2>1, <2>2, <2>3 DEF TypeOK, RunMigration
<1>9. ASSUME NEW p \in Procs, MarkClean(p), at[p] < LastMigration PROVE TypeOK'
  <2>1. /\ mark' \in [version : 0 .. LastMigration, dirty : BOOLEAN]
        /\ at' \in [Procs -> 0 .. LastMigration] /\ stage' \in [Procs -> Stages]
    BY <1>9, BootstrapAssumption DEF TypeOK, MarkClean, Following
  <2> QED
    BY <1>1, <1>9, <2>1 DEF TypeOK, MarkClean
<1>4. ASSUME NEW p \in Procs, CreateNext(p) PROVE TypeOK'
  <2>1. next[p] \in 1 .. 5
    BY <1>0, <1>4 DEF TypeOK, CreateNext, AllCreated
  <2>2. Boot[next[p]] \in Entry
    BY <2>1, BootEntries
  <2>3. TablesOK'
    BY <1>1, <1>4, <2>2, CreateTablesOK DEF TypeOK, CreateNext, GiveUp
  <2>4. next' \in [Procs -> 1 .. Len(Boot) + 1] /\ stage' \in [Procs -> Stages]
    BY <1>0, <1>4, <2>1 DEF TypeOK, CreateNext, GiveUp
  <2> QED
    BY <1>4, <2>3, <2>4 DEF TypeOK, CreateNext, schema
<1>5. ASSUME UNCHANGED vars PROVE TypeOK'
  BY <1>1, <1>5 DEF TypeOK, vars, proc, schema
<1> QED
  <2>1. ASSUME NEW p \in Procs, RunMigration(p) \/ MarkClean(p) PROVE at[p] < LastMigration
    BY <2>1 DEF RunMigration, MarkClean, Underway
  <2> QED
    BY <1>2, <1>3, <1>4, <1>5, <1>6, <1>7, <1>8, <1>9, <2>1 DEF Next

\* Only a migration that is left is begun.
LEMMA UnderwayStep == TypeOK /\ Underway /\ [Next]_vars => Underway'
<1> SUFFICES ASSUME TypeOK, Underway, [Next]_vars PROVE Underway'
  OBVIOUS
<1> USE DEF TypeOK, Underway, Enter, At
<1>1. ASSUME NEW p \in Procs,
             \/ Start(p) \/ Open(p) \/ ReadVersion(p) \/ MarkDirty(p) \/ MarkClean(p)
             \/ EndMigration(p) \/ ChooseInit(p) \/ Ready(p) \/ Die(p)
      PROVE  Underway'
  BY <1>1 DEF Start, Open, ReadVersion, MarkDirty, MarkClean, EndMigration, ChooseInit, Ready,
     Die
<1>2. ASSUME NEW p \in Procs, RunMigration(p) \/ CreateNext(p) PROVE Underway'
  BY <1>2 DEF RunMigration, CreateNext, GiveUp
<1> QED
  BY <1>1, <1>2 DEF Next, vars, proc

\* Every reachable state is well typed.
THEOREM BootTypeCorrect == Spec => []TypeOK
<1>1. Init => Underway
  BY DEF Init, Underway
<1> QED
  BY <1>1, BootTypeInit, BootTypeStep, UnderwayStep, PTL DEF Spec

----
(* Who migrates, who initializes, and what is there when it is done *)

SingleRows == \A r, s \in entries : r.dn = s.dn => r = s

\* The i-th entry is there, with the password and the membership it was given.
Created(i) ==
    /\ Exists(Boot[i].dn)
    /\ i = 4 => <<IdOf(AdminDN), AdminHash>> \in users
    /\ i = 5 => <<IdOf(AdminGroupDN), IdOf(AdminDN)>> \in groupMembers

\* A clean mark says no more than what has been applied, whoever wrote it, and a process
\* takes the database to be at such a version; once applied, a migration stays.
MigratedInv ==
    /\ 1 .. mark.version - 1 \subseteq applied
    /\ ~mark.dirty /\ mark.version > 0 => mark.version \in applied
    /\ \A p \in Procs :
          /\ 1 .. at[p] \subseteq applied
          /\ stage[p] = "applied" => at[p] + 1 \in applied
          /\ stage[p] \in {"migrated", "creating", "serving"} => at[p] = LastMigration
    /\ entries # {} => 1 .. LastMigration \subseteq applied

\* What a process has created since its start is there, the base entry first, so there is
\* one such process; one that initializes serves after the last entry only.
CreatorInv ==
    /\ SingleRows
    /\ \A p \in Procs : \A i \in 1 .. 5 : next[p] > i => Created(i)
    /\ \A p, q \in Procs : (next[p] > 1 /\ next[q] > 1) => p = q
    /\ \A p \in Procs : stage[p] = "serving" /\ isNew[p] => next[p] = 6

BootInv == TypeOK /\ Underway /\ MigratedInv /\ CreatorInv

\* CreateEntry adds the rows of one entry: what the others are found by stays.
LEMMA CreateGrows ==
    ASSUME SingleRows, NEW e, CreateEntryTx(e)
    PROVE  /\ SingleRows'
           /\ Exists(e.dn)' /\ IdOf(e.dn)' = NewId
           /\ \A d : Exists(d) => Exists(d)' /\ IdOf(d)' = IdOf(d)
           /\ users \subseteq users' /\ groupMembers \subseteq groupMembers'
<1>1. ~Exists(e.dn) /\ entries' = entries \cup {NewRow(e)} /\ NewRow(e).dn = e.dn
      /\ NewRow(e).id = NewId
  BY DEF CreateEntryTx, CanCreate, NewRow
<1>2. SingleRows'
  BY <1>1 DEF SingleRows, Exists
<1>3. Exists(e.dn)' /\ RowAt(e.dn)' = NewRow(e)
  BY <1>1, <1>2 DEF Exists, RowAt, SingleRows
<1>4. ASSUME NEW d, Exists(d) PROVE Exists(d)' /\ RowAt(d)' = RowAt(d)
  BY <1>1, <1>2, <1>4 DEF Exists, RowAt, SingleRows
<1>5. users \subseteq users' /\ groupMembers \subseteq groupMembers'
  BY DEF CreateEntryTx
<1> QED
  BY <1>1, <1>2, <1>3, <1>4, <1>5 DEF IdOf

\* What is created stays as it is.
LEMMA CreatedStays ==
    ASSUME SingleRows, NEW e, CreateEntryTx(e), NEW i \in 1 .. 5, Created(i),
           i = 4 => Exists(AdminDN), i = 5 => Exists(AdminGroupDN) /\ Exists(AdminDN)
    PROVE  Created(i)'
<1>1. /\ \A d : Exists(d) => Exists(d)' /\ IdOf(d)' = IdOf(d)
      /\ users \subseteq users' /\ groupMembers \subseteq groupMembers'
  BY CreateGrows
<1>2. Boot' = Boot
  BY DEF Boot, OU, BaseEntry
<1> QED
  BY <1>1, <1>2 DEF Created

\* The DNs of the last two entries.
LEMMA BootAdmins ==
    /\ Boot[4].dn = AdminDN /\ Boot[4].class = "inetOrgPerson" /\ Boot[4].password = AdminHash
    /\ Boot[5].dn = AdminGroupDN /\ Boot[5].class = "groupOfNames" /\ Boot[5].members = {AdminDN}
  BY DEF Boot

\* Each CreateEntry of initializeDatabase leaves its entry, with its password or member row.
LEMMA CreateCreates ==
    ASSUME SingleRows, NEW i \in 1 .. 5, CreateEntryTx(Boot[i]), i = 5 => Exists(AdminDN)
    PROVE  Created(i)'
<1>1. /\ Exists(Boot[i].dn)' /\ IdOf(Boot[i].dn)' = NewId
      /\ \A d : Exists(d) => Exists(d)' /\ IdOf(d)' = IdOf(d)
  BY CreateGrows
<1>2. Boot' = Boot
  BY DEF Boot, OU, BaseEntry
<1>3. ASSUME i = 4 PROVE (<<IdOf(AdminDN), AdminHash>> \in users)'
  BY <1>1, <1>3, BootAdmins DEF CreateEntryTx
<1>4. ASSUME i = 5 PROVE (<<IdOf(AdminGroupDN), IdOf(AdminDN)>> \in groupMembers)'
  <2>1. Exists(AdminDN)'
    BY <1>1, <1>4
  <2>2. RowAt(AdminDN)' \in entries' /\ RowAt(AdminDN)'.dn = AdminDN
    BY <2>1 DEF Exists, RowAt
  <2>3. <<NewId, IdOf(AdminDN)'>> \in MemberRows(entries', NewId, {AdminDN})
    BY <2>2 DEF MemberRows, IdOf
  <2>4. <<NewId, IdOf(AdminDN)'>> \in groupMembers'
    BY <1>4, <2>3, BootAdmins DEF CreateEntryTx
  <2> QED
    BY <1>1, <1>4, <2>4, BootAdmins
<1> QED
  BY <1>1, <1>2, <1>3, <1>4 DEF Created

\* A new file: nobody has migrated or created anything.
LEMMA BootInvInit == Init => BootInv
<1> SUFFICES ASSUME Init PROVE BootInv
  OBVIOUS
<1>1. TypeOK
  BY BootTypeInit
<1>2. MigratedInv
  BY BootstrapAssumption DEF Init, InitTables, MigratedInv
<1>3. CreatorInv
  BY DEF Init, InitTables, CreatorInv, SingleRows
<1> QED
  BY <1>1, <1>2, <1>3 DEF Init, Underway, BootInv

\* Migrations are committed in order, whatever marks other processes write between them.
LEMMA MigratedStep == BootInv /\ [Next]_vars => MigratedInv'
<1> SUFFICES ASSUME BootInv, [Next]_vars PROVE MigratedInv'
  OBVIOUS
<1>0. LastMigration \in Nat
  BY BootstrapAssumption
<1> USE DEF BootInv, MigratedInv, TypeOK, Enter, At
<1>1. ASSUME NEW p \in Procs,
             \/ Start(p) \/ Open(p) \/ EndMigration(p) \/ ChooseInit(p) \/ Ready(p) \/ Die(p)
      PROVE  MigratedInv'
  <2>1. UNCHANGED <<mark, applied, at, entries>>
    BY <1>1 DEF Start, Open, EndMigration, ChooseInit, Ready, Die, schema, tables
  <2>2. /\ stage'[p] # "applied"
        /\ stage'[p] \in {"migrated", "creating", "serving"} => at[p] = LastMigration
        /\ \A q \in Procs \ {p} : stage'[q] = stage[q]
    BY <1>0, <1>1 DEF Start, Open, EndMigration, ChooseInit, Ready, Die
  <2> QED
    BY <2>1, <2>2
<1>2. ASSUME NEW p \in Procs, CreateNext(p) PROVE MigratedInv'
  BY <1>2 DEF CreateNext, GiveUp, schema, tables
<1>3. ASSUME NEW p \in Procs, ReadVersion(p) PROVE MigratedInv'
  <2>1. UNCHANGED <<mark, applied, entries>>
    BY <1>3 DEF ReadVersion, schema, tables
  <2>2. 1 .. at'[p] \subseteq applied
    BY <1>0, <1>3 DEF ReadVersion, Refused
  <2>3. /\ stage'[p] \in {"down", "migrating"}
        /\ \A q \in Procs \ {p} : stage'[q] = stage[q] /\ at'[q] = at[q]
    BY <1>3 DEF ReadVersion
  <2> QED
    BY <2>1, <2>2, <2>3
<1>4. ASSUME NEW p \in Procs, MarkDirty(p) PROVE MigratedInv'
  BY <1>0, <1>4 DEF MarkDirty, Following, tables
<1>5. ASSUME NEW p \in Procs, RunMigration(p) PROVE MigratedInv'
  <2>1. applied \subseteq applied' /\ UNCHANGED <<mark, at>>
    BY <1>5 DEF RunMigration
  <2>2. /\ stage'[p] = "down" \/ (stage'[p] = "applied" /\ at[p] + 1 \in applied')
        /\ \A q \in Procs \ {p} : stage'[q] = stage[q]
    BY <1>5 DEF RunMigration, Following
  <2>3. entries' # {} => entries # {}
    BY <1>5, RunMigrationTables DEF CreateAdminGroup, GiveUuids, Exists, tables
  <2> QED
    BY <2>1, <2>2, <2>3
<1>6. ASSUME NEW p \in Procs, MarkClean(p) PROVE MigratedInv'
  <2>1. at[p] + 1 \in applied /\ 1 .. at[p] \subseteq applied /\ at[p] \in Nat
    BY <1>0, <1>6 DEF MarkClean
  <2>2. 1 .. (at[p] + 1) \subseteq applied
    BY <2>1
  <2> QED
    BY <1>0, <1>6, <2>1, <2>2 DEF MarkClean, Following, tables
<1>7. ASSUME UNCHANGED vars PROVE MigratedInv'
  BY <1>7 DEF vars, proc, schema, tables
<1> QED
  BY <1>1, <1>2, <1>3, <1>4, <1>5, <1>6, <1>7 DEF Next

\* With the tables as they were, what has been created is there.
LEMMA CreatedUnchanged ==
    ASSUME UNCHANGED tables PROVE \A i : Created(i) => Created(i)'
<1>1. Boot' = Boot
  BY DEF Boot, OU, BaseEntry
<1> QED
  BY <1>1 DEF Created, Exists, IdOf, RowAt, tables, classTables

\* A migration that runs again, late, adds at most the admin group: what has been created
\* stays.
LEMMA CreatedUnderMigration ==
    ASSUME TypeOK, SingleRows, NEW p \in Procs, RunMigration(p)
    PROVE  SingleRows' /\ \A i : Created(i) => Created(i)'
<1>1. CASE UNCHANGED tables
  BY <1>1, CreatedUnchanged DEF SingleRows, tables
<1>2. CASE UNCHANGED <<entries, users, groupMembers>>
  <2>1. Boot' = Boot
    BY DEF Boot, OU, BaseEntry
  <2> QED
    BY <1>2, <2>1 DEF SingleRows, Created, Exists, IdOf, RowAt
<1>3. CASE CreateAdminGroup /\ ~UNCHANGED tables
  <2>1. users' = users /\ groupMembers \subseteq groupMembers'
    BY <1>3 DEF CreateAdminGroup
  <2>2. CASE Exists(AdminGroupDN)
    <3>1. entries' = entries
      BY <1>3, <2>2 DEF CreateAdminGroup
    <3>2. Boot' = Boot
      BY DEF Boot, OU, BaseEntry
    <3> QED
      BY <2>1, <3>1, <3>2 DEF SingleRows, Created, Exists, IdOf, RowAt
  <2>3. CASE ~Exists(AdminGroupDN)
    <3> DEFINE row == [id |-> nextId, dn |-> AdminGroupDN, class |-> "groupOfNames"]
    <3>1. entries' = entries \cup {row} /\ row.dn = AdminGroupDN
      BY <1>3, <2>3 DEF CreateAdminGroup
    <3>2. SingleRows'
      BY <2>3, <3>1 DEF SingleRows, Exists
    <3>3. ASSUME NEW d, Exists(d) PROVE Exists(d)' /\ IdOf(d)' = IdOf(d)
      BY <3>1, <3>2, <3>3 DEF Exists, RowAt, IdOf, SingleRows
    <3>4. ASSUME NEW i, Created(i) PROVE Created(i)'
      <4>1. Boot' = Boot
        BY DEF Boot, OU, BaseEntry
      <4>2. i = 4 => Exists(AdminDN)
        BY <3>4, BootAdmins DEF Created
      <4>3. i # 5
        BY <2>3, <3>4, BootAdmins DEF Created
      <4> QED
        BY <2>1, <3>3, <3>4, <4>1, <4>2, <4>3 DEF Created
    <3> QED
      BY <3>2, <3>4
  <2> QED
    BY <2>2, <2>3
<1> QED
  BY <1>1, <1>2, <1>3, RunMigrationTables DEF GiveUuids, classTables

\* A process that creates the base is the only one that has created anything.
LEMMA CreatorStep == BootInv /\ [Next]_vars => CreatorInv'
<1> SUFFICES ASSUME BootInv, [Next]_vars PROVE CreatorInv'
  OBVIOUS
<1>0. TypeOK /\ CreatorInv
  BY DEF BootInv
<1> USE DEF Enter, At
<1>1. ASSUME UNCHANGED tables PROVE SingleRows' /\ \A i : Created(i) => Created(i)'
  BY <1>0, <1>1, CreatedUnchanged DEF CreatorInv, SingleRows, tables
<1>2. ASSUME NEW p \in Procs, Start(p) PROVE CreatorInv'
  BY <1>0, <1>1, <1>2 DEF CreatorInv, Start, TypeOK
<1>3. ASSUME NEW p \in Procs,
             \/ Open(p) \/ ReadVersion(p) \/ MarkDirty(p) \/ MarkClean(p) \/ EndMigration(p)
             \/ ChooseInit(p) \/ Die(p)
      PROVE  CreatorInv'
  BY <1>0, <1>1, <1>3 DEF CreatorInv, TypeOK, Open, ReadVersion, MarkDirty, MarkClean,
     EndMigration, ChooseInit, Die
<1>4. ASSUME NEW p \in Procs, Ready(p) PROVE CreatorInv'
  <2>1. next[p] = 6
    BY <1>0, <1>4, BootEntries DEF Ready, AllCreated, TypeOK
  <2> QED
    BY <1>0, <1>1, <1>4, <2>1 DEF CreatorInv, TypeOK, Ready
<1>5. ASSUME NEW p \in Procs, CreateNext(p), UNCHANGED tables, GiveUp(p) PROVE CreatorInv'
  BY <1>0, <1>1, <1>5 DEF CreatorInv, TypeOK, GiveUp, CreateNext
<1>6. ASSUME NEW p \in Procs, CreateNext(p), CreateEntryTx(Boot[next[p]]),
             next' = [next EXCEPT ![p] = @ + 1], UNCHANGED stage
      PROVE  CreatorInv'
  <2>1. next[p] \in 1 .. 5 /\ isNew' = isNew /\ stage[p] = "creating"
    BY <1>0, <1>6, BootEntries DEF CreateNext, AllCreated, TypeOK
  <2>2. ASSUME NEW i \in 1 .. 5, NEW q \in Procs, next[q] > i PROVE Created(i)'
    <3>1. Created(i) /\ (i = 4 => Exists(AdminDN))
      BY <1>0, <2>2, BootAdmins DEF CreatorInv, Created
    <3>2. ASSUME i = 5 PROVE Exists(AdminGroupDN) /\ Exists(AdminDN)
      <4>1. next[q] > 4
        BY <1>0, <2>2, <3>2 DEF TypeOK
      <4>2. Created(4) /\ Created(5)
        BY <1>0, <2>2, <3>2, <4>1 DEF CreatorInv
      <4> QED
        BY <4>2, BootAdmins DEF Created
    <3> QED
      BY <1>0, <1>6, <3>1, <3>2, CreatedStays DEF CreatorInv
  <2>3. ASSUME NEW i \in 1 .. 5, i = next[p] PROVE Created(i)'
    <3>1. ASSUME i = 5 PROVE Exists(AdminDN)
      <4>1. next[p] > 4
        BY <2>3, <3>1
      <4> QED
        BY <1>0, <4>1, BootAdmins DEF CreatorInv, Created
    <3>2. SingleRows /\ CreateEntryTx(Boot[i])
      BY <1>0, <1>6, <2>3 DEF CreatorInv
    <3> QED
      BY <3>1, <3>2, CreateCreates
  <2>4. SingleRows'
    BY <1>0, <1>6, CreateGrows DEF CreatorInv
  <2>5. ASSUME NEW q \in Procs, NEW i \in 1 .. 5, next'[q] > i PROVE Created(i)'
    <3>1. CASE next[q] > i
      BY <2>2, <3>1
    <3>2. CASE ~(next[q] > i)
      <4>1. q = p /\ i = next[p]
        BY <1>0, <1>6, <2>1, <2>5, <3>2 DEF TypeOK
      <4> QED
        BY <2>3, <4>1
    <3> QED
      BY <3>1, <3>2
  <2>6. ASSUME NEW q \in Procs, NEW r \in Procs, next'[q] > 1, next'[r] > 1 PROVE q = r
    <3>1. CASE next[p] = 1
      <4>1. ~Exists(BaseDN)
        BY <1>6, <3>1, BootEntries DEF CreateEntryTx, CanCreate
      <4>2. \A s \in Procs : ~(next[s] > 1)
        BY <1>0, <4>1, BootEntries DEF CreatorInv, Created
      <4> QED
        BY <1>0, <1>6, <2>6, <4>2 DEF TypeOK
    <3>2. CASE next[p] # 1
      <4>1. next[q] > 1 /\ next[r] > 1
        BY <1>0, <1>6, <2>1, <2>6, <3>2 DEF TypeOK
      <4> QED
        BY <1>0, <4>1 DEF CreatorInv
    <3> QED
      BY <3>1, <3>2
  <2>7. ASSUME NEW q \in Procs, stage'[q] = "serving", isNew'[q] PROVE next'[q] = 6
    BY <1>0, <1>6, <2>1, <2>7 DEF CreatorInv, TypeOK
  <2> QED
    BY <2>4, <2>5, <2>6, <2>7 DEF CreatorInv
<1>7. ASSUME UNCHANGED vars PROVE CreatorInv'
  BY <1>0, <1>1, <1>7 DEF CreatorInv, vars, proc
<1>8. ASSUME NEW p \in Procs, CreateNext(p) PROVE CreatorInv'
  BY <1>5, <1>6, <1>8 DEF CreateNext, GiveUp
<1>9. ASSUME NEW p \in Procs, RunMigration(p) PROVE CreatorInv'
  <2>1. SingleRows' /\ \A i : Created(i) => Created(i)'
    BY <1>0, <1>9, CreatedUnderMigration DEF CreatorInv
  <2>2. /\ UNCHANGED <<isNew, next>>
        /\ \A q \in Procs : stage'[q] = "serving" => stage[q] = "serving"
    BY <1>0, <1>9 DEF RunMigration, TypeOK
  <2> QED
    BY <1>0, <2>1, <2>2 DEF CreatorInv
<1> QED
  BY <1>2, <1>3, <1>4, <1>7, <1>8, <1>9 DEF Next

\* BootInv holds in every reachable state.
LEMMA BootInvHolds == Spec => []BootInv
<1>1. BootInv /\ [Next]_vars => BootInv'
  BY BootTypeStep, UnderwayStep, MigratedStep, CreatorStep DEF BootInv
<1> QED
  BY BootInvInit, <1>1, PTL DEF Spec

\* However many processes find no file, one at most fills the database.
THEOREM OneInitializer == Spec => []SoleInitializer
<1>1. BootInv => SoleInitializer
  BY DEF BootInv, CreatorInv, SoleInitializer
<1> QED
  BY <1>1, BootInvHolds, PTL

\* No process reads or writes entries before all migrations have been committed, however
\* many processes migrate at once and wherever they die.
THEOREM SchemaComesFirst == Spec => []SchemaBeforeUse
<1>1. BootInv => SchemaBeforeUse
  BY DEF BootInv, TypeOK, MigratedInv, SchemaBeforeUse
<1> QED
  BY <1>1, BootInvHolds, PTL

\* A process that initializes serves the whole initial tree, with the administrator's
\* password and membership, whatever other processes do and wherever they die.
THEOREM InitializerIsComplete == Spec => []InitializerServesAll
<1>1. ASSUME BootInv, NEW p \in Procs, At(p, "serving"), isNew[p] PROVE Initialized
  <2>1. \A i \in 1 .. 5 : Created(i)
    BY <1>1 DEF BootInv, CreatorInv, At
  <2> QED
    BY <2>1, BootEntries DEF Initialized, Created
<1>2. BootInv => InitializerServesAll
  BY <1>1 DEF InitializerServesAll
<1> QED
  BY <1>2, BootInvHolds, PTL

----
(* Stopping: the goroutines *)

\* The goroutines that hold Server.wg.
Holders == Cardinality(Alive) + IF acceptor THEN 1 ELSE 0

Drained == main \in {"stopWeb", "drainWeb", "closeStore", "exit", "exited"}

\* wg counts the goroutines that hold it, so the step that waits for 0 finds none.
DrainInv ==
    /\ LifecycleTypeOK
    /\ wg = Holders
    /\ StopDrains

\* A goroutine that starts adds one to the live ones.
LEMMA AliveAdds ==
    ASSUME LifecycleTypeOK, NEW c \in Conns, conn[c] = "none",
           NEW w \in {"loop"}, conn' = [conn EXCEPT ![c] = w]
    PROVE  /\ IsFiniteSet(Alive)
           /\ Cardinality(Alive') = Cardinality(Alive) + 1
           /\ Cardinality(Alive') <= Cardinality(Conns)
<1>1. Alive \subseteq Conns /\ Alive' \subseteq Conns
  BY DEF Alive
<1>2. IsFiniteSet(Alive) /\ IsFiniteSet(Alive') /\ IsFiniteSet(Conns)
  BY <1>1, LifecycleAssumption, FS_Subset
<1>3. c \notin Alive /\ Alive' = Alive \cup {c}
  BY DEF Alive, LifecycleTypeOK
<1>4. Cardinality(Alive') = Cardinality(Alive) + 1
  BY <1>2, <1>3, FS_AddElement
<1>5. Cardinality(Alive') <= Cardinality(Conns)
  BY <1>1, <1>2, FS_Subset
<1> QED
  BY <1>2, <1>4, <1>5

\* A goroutine that ends takes one from them.
LEMMA AliveLoses ==
    ASSUME LifecycleTypeOK, NEW c \in Alive, conn' = [conn EXCEPT ![c] = "ended"]
    PROVE  /\ Cardinality(Alive) \in Nat \ {0}
           /\ Cardinality(Alive') = Cardinality(Alive) - 1
<1>1. Alive \subseteq Conns /\ IsFiniteSet(Alive)
  BY LifecycleAssumption, FS_Subset DEF Alive
<1>2. Alive' = Alive \ {c}
  BY <1>1 DEF Alive, LifecycleTypeOK
<1>3. Cardinality(Alive') = Cardinality(Alive) - 1
  BY <1>1, <1>2, FS_RemoveElement
<1>4. Cardinality(Alive) \in Nat /\ Alive # {}
  BY <1>1, FS_CardinalityType
<1>5. Cardinality(Alive) # 0
  BY <1>1, <1>4, FS_EmptySet
<1> QED
  BY <1>3, <1>4, <1>5

\* The live goroutines are at most the connections.
LEMMA AliveBound ==
    ASSUME LifecycleTypeOK
    PROVE  /\ IsFiniteSet(Alive)
           /\ Cardinality(Alive) \in Nat
           /\ Cardinality(Conns) \in Nat
           /\ Cardinality(Alive) <= Cardinality(Conns)
<1>1. Alive \subseteq Conns
  BY DEF Alive
<1> QED
  BY <1>1, LifecycleAssumption, FS_Subset, FS_CardinalityType

\* A process that has just begun to serve is at the start of everything.
LEMMA DrainInvInit == LifecycleInit => DrainInv
<1> SUFFICES ASSUME LifecycleInit PROVE DrainInv
  OBVIOUS
<1>1. Cardinality(Conns) \in Nat
  BY LifecycleAssumption, FS_CardinalityType
<1>2. LifecycleTypeOK
  <2>1. wg \in 0 .. Cardinality(Conns) + 1 /\ messages \in 0 .. MaxMessages
    BY <1>1, LifecycleAssumption DEF LifecycleInit
  <2>2. /\ conn \in [Conns -> {"none", "loop", "reading", "handling", "writing", "ended"}]
        /\ socket \in [Conns -> BOOLEAN] /\ watcher \in [Conns -> BOOLEAN]
        /\ request \in [Requests -> {"none", "running", "answered"}]
    BY DEF LifecycleInit
  <2> QED
    BY <2>1, <2>2 DEF LifecycleInit, LifecycleTypeOK
<1>3. Alive = {}
  BY DEF LifecycleInit, Alive
<1>4. wg = Holders
  BY <1>3, FS_EmptySet DEF LifecycleInit, Holders
<1> QED
  BY <1>2, <1>4 DEF DrainInv, StopDrains, LifecycleInit

\* A connection's goroutine that ends gives up its count.
LEMMA EndKeepsDrainInv ==
    ASSUME DrainInv, NEW c \in Conns, Running, conn[c] \in {"loop", "reading"}, End(c)
    PROVE  DrainInv'
<1>1. c \in Alive /\ LifecycleTypeOK
  BY DEF Alive, DrainInv
<1>2. /\ Cardinality(Alive) \in Nat \ {0}
      /\ Cardinality(Alive') = Cardinality(Alive) - 1
      /\ Cardinality(Conns) \in Nat
      /\ Cardinality(Alive) <= Cardinality(Conns)
  BY <1>1, AliveLoses, AliveBound DEF End, Goto
<1>3. wg' = Holders'
  BY <1>1, <1>2 DEF DrainInv, Holders, End, LifecycleTypeOK
<1>4. wg' \in 0 .. Cardinality(Conns) + 1
  BY <1>1, <1>2, <1>3 DEF Holders, End, LifecycleTypeOK
<1>5. LifecycleTypeOK'
  <2>1. /\ conn' \in [Conns -> {"none", "loop", "reading", "handling", "writing", "ended"}]
        /\ socket' \in [Conns -> BOOLEAN] /\ watcher' \in [Conns -> BOOLEAN]
    BY <1>1 DEF LifecycleTypeOK, End, Goto
  <2> QED
    BY <1>1, <1>4, <2>1 DEF LifecycleTypeOK, End, http
<1>6. StopDrains'
  BY <1>1 DEF DrainInv, StopDrains, End, Alive, Goto
<1> QED
  BY <1>3, <1>5, <1>6 DEF DrainInv

\* A goroutine that goes on to its next step keeps its count.
LEMMA StepKeepsDrainInv ==
    ASSUME DrainInv, NEW c \in Conns, conn[c] \in {"loop", "reading", "handling", "writing"},
           NEW to \in {"loop", "reading", "handling", "writing"}, Step(c, to),
           messages' \in 0 .. MaxMessages
    PROVE  DrainInv'
<1>1. LifecycleTypeOK'
  <2>1. conn' \in [Conns -> {"none", "loop", "reading", "handling", "writing", "ended"}]
    BY DEF DrainInv, LifecycleTypeOK, Step, Goto
  <2> QED
    BY <2>1 DEF DrainInv, LifecycleTypeOK, Step, http
<1>2. Alive' = Alive
  BY DEF DrainInv, LifecycleTypeOK, Step, Goto, Alive
<1>3. UNCHANGED <<wg, acceptor, main>>
  BY DEF Step
<1> QED
  BY <1>1, <1>2, <1>3 DEF DrainInv, Holders, StopDrains

\* Every step keeps DrainInv.
LEMMA DrainInvInductive == DrainInv /\ [LifecycleNext]_lifecycle => DrainInv'
<1> SUFFICES ASSUME DrainInv, [LifecycleNext]_lifecycle PROVE DrainInv'
  OBVIOUS
<1> USE DEF Running
<1>0. LifecycleTypeOK /\ wg = Holders /\ StopDrains
  BY DEF DrainInv
<1>b. /\ IsFiniteSet(Alive) /\ Cardinality(Alive) \in Nat /\ Cardinality(Conns) \in Nat
      /\ Cardinality(Alive) <= Cardinality(Conns)
  BY <1>0, AliveBound
<1>1. ASSUME Signal \/ Cancel \/ CloseListener \/ StopWeb \/ DrainWeb \/ CloseStore \/ Exit
      PROVE  DrainInv'
  <2>1. UNCHANGED <<wg, acceptor, conn>> /\ Alive' = Alive
    BY <1>1 DEF Signal, Cancel, CloseListener, StopWeb, DrainWeb, CloseStore, Exit, ldap, Alive
  <2>2. LifecycleTypeOK'
    BY <1>0, <1>1, <2>1 DEF LifecycleTypeOK, Signal, Cancel, CloseListener, StopWeb, DrainWeb,
       CloseStore, Exit, ldap, http
  <2>3. StopDrains'
    BY <1>0, <1>1, <2>1 DEF StopDrains, Signal, Cancel, CloseListener, StopWeb, DrainWeb,
       CloseStore, Exit
  <2> QED
    BY <1>0, <2>1, <2>2, <2>3 DEF DrainInv, Holders
<1>2. ASSUME Wait PROVE DrainInv'
  <2>1. ~acceptor /\ Cardinality(Alive) = 0
    BY <1>0, <1>b, <1>2 DEF Wait, Holders, LifecycleTypeOK
  <2>2. Alive = {}
    BY <2>1, <1>b, FS_EmptySet
  <2>3. UNCHANGED <<wg, acceptor, conn>> /\ Alive' = Alive
    BY <1>2 DEF Wait, ldap, Alive
  <2>4. LifecycleTypeOK'
    BY <1>0, <1>2 DEF LifecycleTypeOK, Wait, ldap, http
  <2> QED
    BY <1>0, <2>1, <2>2, <2>3, <2>4 DEF DrainInv, StopDrains, Holders
<1>3. ASSUME AcceptFails PROVE DrainInv'
  <2>1. acceptor = TRUE /\ acceptor' = FALSE /\ wg' = wg - 1 /\ UNCHANGED <<conn, main>>
    BY <1>0, <1>3 DEF AcceptFails, LifecycleTypeOK
  <2>2. Alive' = Alive
    BY <2>1 DEF Alive
  <2>3. wg' = Holders' /\ wg' \in 0 .. Cardinality(Conns) + 1
    BY <1>0, <1>b, <2>1, <2>2 DEF Holders
  <2>4. LifecycleTypeOK'
    BY <1>0, <1>3, <2>3 DEF LifecycleTypeOK, AcceptFails, http
  <2> QED
    BY <1>0, <2>1, <2>2, <2>3, <2>4 DEF DrainInv, StopDrains
<1>4. ASSUME NEW c \in Conns, Accept(c) PROVE DrainInv'
  <2>1. /\ Cardinality(Alive') = Cardinality(Alive) + 1
        /\ Cardinality(Alive') <= Cardinality(Conns)
    BY <1>0, <1>4, AliveAdds DEF Accept
  <2>2. acceptor = TRUE /\ acceptor' = TRUE /\ wg' = wg + 1 /\ main' = main
    BY <1>0, <1>4 DEF Accept, Counted, LifecycleTypeOK
  <2>3. wg' = Holders' /\ wg' \in 0 .. Cardinality(Conns) + 1
    BY <1>0, <1>b, <2>1, <2>2 DEF Holders
  <2>4. LifecycleTypeOK'
    BY <1>0, <1>4, <2>3 DEF LifecycleTypeOK, Accept, http
  <2> QED
    BY <1>0, <2>2, <2>3, <2>4 DEF DrainInv, StopDrains
<1>5. ASSUME NEW c \in Conns, CheckContext(c) PROVE DrainInv'
  BY <1>0, <1>5, EndKeepsDrainInv, StepKeepsDrainInv DEF CheckContext, Only, LifecycleTypeOK
<1>6. ASSUME NEW c \in Conns, ReadMessage(c) PROVE DrainInv'
  <2>1. messages' \in 0 .. MaxMessages
    BY <1>0, <1>6, LifecycleAssumption DEF ReadMessage, LifecycleTypeOK
  <2> QED
    BY <1>6, <2>1, StepKeepsDrainInv DEF ReadMessage, Only
<1>7. ASSUME NEW c \in Conns, ReadEnds(c) \/ ReadOnClosed(c) PROVE DrainInv'
  BY <1>7, EndKeepsDrainInv DEF ReadEnds, ReadOnClosed, Only
<1>8. ASSUME NEW c \in Conns, UseStore(c) \/ ClientReads(c) \/ WriteOnClosed(c)
      PROVE  DrainInv'
  BY <1>0, <1>8, StepKeepsDrainInv
     DEF UseStore, ClientReads, WriteOnClosed, Only, LifecycleTypeOK
<1>9. ASSUME NEW c \in Conns, Watch(c) PROVE DrainInv'
  <2>1. LifecycleTypeOK' /\ UNCHANGED <<wg, acceptor, conn, main>>
    BY <1>0, <1>9 DEF Watch, LifecycleTypeOK, http
  <2> QED
    BY <1>0, <2>1 DEF DrainInv, Holders, StopDrains, Alive
<1>10. ASSUME WebStart \/ \E r \in Requests : WebRequest(r) \/ WebAnswer(r) PROVE DrainInv'
  <2>1. LifecycleTypeOK' /\ UNCHANGED <<wg, acceptor, conn, main>>
    BY <1>0, <1>10 DEF WebStart, WebRequest, WebAnswer, WebStep, LifecycleTypeOK, ldap
  <2> QED
    BY <1>0, <2>1 DEF DrainInv, Holders, StopDrains, Alive
<1>11. ASSUME UNCHANGED lifecycle PROVE DrainInv'
  BY <1>0, <1>11
     DEF lifecycle, ldap, http, DrainInv, LifecycleTypeOK, Holders, StopDrains, Alive
<1> QED
  BY <1>1, <1>2, <1>3, <1>4, <1>5, <1>6, <1>7, <1>8, <1>9, <1>10, <1>11 DEF LifecycleNext, Main

\* DrainInv holds in every reachable state.
LEMMA DrainInvHolds == LifecycleSpec => []DrainInv
  BY DrainInvInit, DrainInvInductive, PTL DEF LifecycleSpec

\* Every reachable state is well typed; in particular wg never goes below 0, which
\* sync.WaitGroup answers with a panic.
THEOREM LifecycleTypeCorrect == LifecycleSpec => []LifecycleTypeOK
<1>1. DrainInv => LifecycleTypeOK
  BY DEF DrainInv
<1> QED
  BY <1>1, DrainInvHolds, PTL

\* Server.Stop returns only when no LDAP handler runs and none will: the store is never
\* closed under one, whatever the number of connections.
THEOREM StopWaitsForHandlers == LifecycleSpec => []StopDrains
<1>1. DrainInv => StopDrains
  BY DEF DrainInv
<1> QED
  BY <1>1, DrainInvHolds, PTL

----
(* The web server *)

\* Once web.Server.Stop has returned, and unless it gave up, Shutdown has closed the
\* listener and no request is left; the store closes only after that.
WebInv ==
    /\ ~storeOpen => main \in {"exit", "exited"}
    /\ main = "drainWeb" => web = "shutdown"
    /\ (main \in {"closeStore", "exit", "exited"} /\ ~webUnwaited) =>
          web = "shutdown" /\ InFlight = {}

\* WebInv holds at first, and every step keeps it.
LEMMA WebInvHolds == LifecycleSpec => []WebInv
<1>1. LifecycleInit => WebInv
  BY DEF LifecycleInit, WebInv
<1>2. LifecycleTypeOK /\ WebInv /\ [LifecycleNext]_lifecycle => WebInv'
  <2> SUFFICES ASSUME LifecycleTypeOK, WebInv, [LifecycleNext]_lifecycle PROVE WebInv'
    OBVIOUS
  <2> USE DEF WebInv, InFlight
  <2>1. ASSUME Signal \/ Cancel \/ CloseListener \/ Wait PROVE WebInv'
    BY <2>1 DEF Signal, Cancel, CloseListener, Wait, http
  <2>2. ASSUME StopWeb PROVE WebInv'
    BY <2>2 DEF StopWeb
  <2>3. ASSUME DrainWeb PROVE WebInv'
    BY <2>3 DEF DrainWeb, http
  <2>4. ASSUME CloseStore \/ Exit PROVE WebInv'
    BY <2>4 DEF CloseStore, Exit, http
  <2>5. ASSUME UNCHANGED <<main, storeOpen, http, webUnwaited>> PROVE WebInv'
    BY <2>5 DEF http
  <2>6. ASSUME AcceptFails PROVE WebInv'
    BY <2>5, <2>6 DEF AcceptFails
  <2>7. ASSUME NEW c \in Conns,
               \/ Accept(c) \/ CheckContext(c) \/ ReadMessage(c) \/ ReadEnds(c)
               \/ ReadOnClosed(c) \/ UseStore(c) \/ ClientReads(c) \/ WriteOnClosed(c)
               \/ Watch(c)
        PROVE  WebInv'
    BY <2>5, <2>7 DEF Accept, CheckContext, ReadMessage, ReadEnds, ReadOnClosed, UseStore,
       ClientReads, WriteOnClosed, Watch, End, Step
  <2>8. ASSUME WebStart PROVE WebInv'
    BY <2>8 DEF WebStart, WebStep
  <2>9. ASSUME NEW r \in Requests, WebRequest(r) PROVE WebInv'
    BY <2>9 DEF WebRequest, WebStep
  <2>10. ASSUME NEW r \in Requests, WebAnswer(r) PROVE WebInv'
    BY <2>10 DEF WebAnswer, WebStep, LifecycleTypeOK
  <2>11. ASSUME UNCHANGED lifecycle PROVE WebInv'
    BY <2>5, <2>11 DEF lifecycle
  <2> QED
    BY <2>1, <2>2, <2>3, <2>4, <2>6, <2>7, <2>8, <2>9, <2>10, <2>11 DEF LifecycleNext, Main
<1> QED
  BY <1>1, <1>2, LifecycleTypeCorrect, PTL DEF LifecycleSpec

\* A web request meets a closed store only if web.Server.Stop did not wait for it, however
\* many requests there are.
THEOREM WebRequestsKeepStore == LifecycleSpec => []WebStoreOpen
<1>1. WebInv => WebStoreOpen
  BY DEF WebInv, WebStoreOpen
<1> QED
  BY <1>1, WebInvHolds, PTL

====
