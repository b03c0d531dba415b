---- MODULE Bootstrap ----
(***************************************************************************)
(* Starting a process on the database file: SQLiteStore.Initialize, which  *)
(* the server and the import command both run, and initializeDatabase,     *)
(* which fills a new database.  Processes may start at the same time, and  *)
(* any of them may die between two steps.                                  *)
(*                                                                         *)
(* golang-migrate, a library, runs the migrations: it reads the version    *)
(* once, then marks, runs and unmarks each later one, every time in a      *)
(* transaction of its own and under a lock of its own process only.  The   *)
(* migrations other than the four named below may run again at any time    *)
(* and leave the tables here as they are: they create what is missing, or  *)
(* delete attributes that are not stored.                                  *)
(***************************************************************************)
EXTENDS EntryStore, Sequences

CONSTANTS
    Procs,          \* processes sharing the file
    UsersDN, GroupsDN, AdminDN, AdminGroupDN,
    AdminHash,      \* the hash of LDAP_ADMIN_PASSWORD
    IndexUsers,     \* migration 002, which indexes users(uid)
    DropColumns,    \* 004, which drops that column
    AdminGroup,     \* 005, which creates the admin group where the groups OU exists
    EntryUuids,     \* 013, which gives an entryUUID to the entries without one
    LastMigration,  \* 014
    MaxStarts       \* bound: how often a process is started

ASSUME BootstrapAssumption ==
    /\ {UsersDN, GroupsDN, AdminDN, AdminGroupDN} \subseteq DNs
    /\ Parent[UsersDN] = BaseDN /\ Parent[AdminDN] = UsersDN
    /\ Parent[GroupsDN] = BaseDN /\ Parent[AdminGroupDN] = GroupsDN
    /\ AdminHash \in Passwords
    /\ {IndexUsers, DropColumns, AdminGroup, EntryUuids, LastMigration} \subseteq Nat \ {0}
    /\ IndexUsers < DropColumns /\ DropColumns < AdminGroup
    /\ AdminGroup < EntryUuids /\ EntryUuids <= LastMigration
    /\ MaxStarts \in Nat

VARIABLES
    file,           \* the database file exists
    mark,           \* the row of schema_migrations: a version, 0 for no row, and dirty
    applied,        \* the migrations whose script has been committed
    starts,
    stage,          \* where each process is in Initialize
    at,             \* the version golang-migrate takes the database to be at
    isNew,          \* its isNew: the file did not exist when it looked
    password,       \* LDAP_ADMIN_PASSWORD is set for it
    next            \* the entry of Boot it creates next

schema == <<mark, applied>>
proc == <<stage, at, isNew, password, next>>
vars == <<tables, file, schema, starts, proc>>

OU(d) == [dn |-> d, parent |-> BaseDN, class |-> "organizationalUnit", attrs |-> Attrs,
          members |-> {}, password |-> NoPassword, uuid |-> 0]

\* What initializeDatabase creates, in its order, each in a transaction of its own.
Boot == <<
    BaseEntry, OU(UsersDN), OU(GroupsDN),
    [dn |-> AdminDN, parent |-> UsersDN, class |-> "inetOrgPerson", attrs |-> Attrs,
     members |-> {}, password |-> AdminHash, uuid |-> 0],
    [dn |-> AdminGroupDN, parent |-> GroupsDN, class |-> "groupOfNames", attrs |-> Attrs,
     members |-> {AdminDN}, password |-> NoPassword, uuid |-> 0] >>

----
Init ==
    /\ InitTables
    /\ file = FALSE
    /\ mark = [version |-> 0, dirty |-> FALSE] /\ applied = {}
    /\ starts = 0
    /\ stage = [p \in Procs |-> "down"]
    /\ at = [p \in Procs |-> 0]
    /\ isNew = [p \in Procs |-> FALSE]
    /\ password = [p \in Procs |-> FALSE]
    /\ next = [p \in Procs |-> 1]

At(p, s) == stage[p] = s
Enter(p, s) == stage' = [stage EXCEPT ![p] = s]

\* fileExists, before the database is opened.
Start(p) ==
    /\ At(p, "down") /\ starts < MaxStarts
    /\ starts' = starts + 1
    /\ isNew' = [isNew EXCEPT ![p] = ~file]
    /\ \E given \in BOOLEAN : password' = [password EXCEPT ![p] = given]
    /\ next' = [next EXCEPT ![p] = 1]
    /\ Enter(p, "checked")
    /\ UNCHANGED <<tables, file, schema, at>>

\* Opening a database creates its file.
Open(p) ==
    /\ At(p, "checked")
    /\ file' = TRUE
    /\ Enter(p, "opened")
    /\ UNCHANGED <<tables, schema, starts, at, isNew, password, next>>

\* Mutant: the dirty mark is overlooked.
DirtyIgnored == FALSE

\* ErrDirty: Up returns it, and Initialize too.
Refused == mark.dirty

\* Up reads the version, once; a query that fails is taken for a database without one.
ReadVersion(p) ==
    /\ At(p, "opened")
    /\ \/ Refused /\ Enter(p, "down") /\ UNCHANGED at
       \/ ~Refused /\ at' = [at EXCEPT ![p] = mark.version] /\ Enter(p, "migrating")
       \/ at' = [at EXCEPT ![p] = 0] /\ Enter(p, "migrating")
    /\ UNCHANGED <<tables, file, schema, starts, isNew, password, next>>

Following(p) == at[p] + 1

\* SetVersion(v, true), whatever the row says by now.
MarkDirty(p) ==
    /\ At(p, "migrating") /\ at[p] < LastMigration
    /\ mark' = [version |-> Following(p), dirty |-> TRUE]
    /\ Enter(p, "marked")
    /\ UNCHANGED <<tables, file, applied, starts, at, isNew, password, next>>

\* 002 cannot index a column that 004 has dropped.
CanRun(m) == ~(m = IndexUsers /\ DropColumns \in applied)

\* 005, each statement INSERT OR IGNORE: the group beneath the groups OU, and its member
\* if the administrator is there.
CreateAdminGroup ==
    LET found == Exists(AdminGroupDN)
        id == IF found THEN IdOf(AdminGroupDN) ELSE nextId
        admin == {d \in {AdminDN} : Exists(d)}
    IN  IF found \/ Exists(GroupsDN)
        THEN /\ found \/ nextId <= MaxId
             /\ nextId' = IF found THEN nextId ELSE nextId + 1
             /\ entries' = IF found THEN entries
                           ELSE entries \cup {[id |-> id, dn |-> AdminGroupDN,
                                               class |-> "groupOfNames"]}
             /\ otherAttr' = otherAttr \cup ({id} \X Attrs)
             /\ memberAttr' = memberAttr \cup ({id} \X admin)
             /\ groups' = groups \cup {id}
             /\ groupMembers' = groupMembers \cup MemberRows(entries, id, admin)
             /\ UNCHANGED <<uuidAttr, users, ous, nextUuid>>
        ELSE UNCHANGED tables

\* 013: of the entries here only one that 005 created can be without.
GiveUuids ==
    LET without == {id \in LiveIds : StoredUuids(id) = {}}
    IN  /\ uuidAttr' = uuidAttr \cup (without \X {nextUuid})
        /\ nextUuid' = nextUuid + Cardinality(without)
        /\ UNCHANGED <<entries, otherAttr, memberAttr, classTables, groupMembers, nextId>>

\* A script runs in one transaction; where it fails, Up returns and the mark stays.
RunMigration(p) ==
    /\ At(p, "marked")
    /\ \/ /\ CanRun(Following(p))
          /\ CASE Following(p) = AdminGroup -> CreateAdminGroup
               [] Following(p) = EntryUuids -> GiveUuids
               [] OTHER -> UNCHANGED tables
          /\ applied' = applied \cup {Following(p)}
          /\ Enter(p, "applied")
       \/ ~CanRun(Following(p)) /\ Enter(p, "down") /\ UNCHANGED <<tables, applied>>
    /\ UNCHANGED <<file, mark, starts, at, isNew, password, next>>

\* SetVersion(v, false).
MarkClean(p) ==
    /\ At(p, "applied")
    /\ mark' = [version |-> Following(p), dirty |-> FALSE]
    /\ at' = [at EXCEPT ![p] = Following(p)]
    /\ Enter(p, "migrating")
    /\ UNCHANGED <<tables, file, applied, starts, isNew, password, next>>

\* No migration is left, ErrNoChange if there was none.
EndMigration(p) ==
    /\ At(p, "migrating") /\ at[p] >= LastMigration
    /\ Enter(p, "migrated")
    /\ UNCHANGED <<tables, file, schema, starts, at, isNew, password, next>>

\* if isNew { initializeDatabase }: without a password it fails before it creates anything.
ChooseInit(p) ==
    /\ At(p, "migrated")
    /\ Enter(p, IF ~isNew[p] THEN "serving" ELSE IF password[p] THEN "creating" ELSE "down")
    /\ UNCHANGED <<tables, file, schema, starts, at, isNew, password, next>>

\* Mutant: off by one.
AllButLast(p) == next[p] >= Len(Boot)

AllCreated(p) == next[p] > Len(Boot)

\* Mutant: an entry that cannot be created is logged and skipped.
SkipEntry(p) == next' = [next EXCEPT ![p] = @ + 1] /\ UNCHANGED <<tables, stage>>

GiveUp(p) == Enter(p, "down") /\ UNCHANGED <<tables, next>>

\* The next CreateEntry of initializeDatabase, which returns on the first error.
CreateNext(p) ==
    /\ At(p, "creating") /\ ~AllCreated(p)
    /\ LET e == Boot[next[p]]
       IN  \/ /\ CreateEntryTx(e)
              /\ next' = [next EXCEPT ![p] = @ + 1]
              /\ UNCHANGED stage
           \/ ~CanCreate(e) /\ GiveUp(p)
    /\ UNCHANGED <<file, schema, starts, at, isNew, password>>

Ready(p) ==
    /\ At(p, "creating") /\ AllCreated(p)
    /\ Enter(p, "serving")
    /\ UNCHANGED <<tables, file, schema, starts, at, isNew, password, next>>

\* The process is killed, its context is cancelled by SIGTERM, a statement fails, or it ends.
Die(p) ==
    /\ ~At(p, "down")
    /\ Enter(p, "down")
    /\ UNCHANGED <<tables, file, schema, starts, at, isNew, password, next>>

Next ==
    \E p \in Procs :
        \/ Start(p) \/ Open(p)
        \/ ReadVersion(p) \/ MarkDirty(p) \/ RunMigration(p) \/ MarkClean(p) \/ EndMigration(p)
        \/ ChooseInit(p) \/ CreateNext(p) \/ Ready(p)
        \/ Die(p)

Spec == Init /\ [][Next]_vars

----
(* Properties *)

Stages == {"down", "checked", "opened", "migrating", "marked", "applied", "migrated",
            "creating", "serving"}

TypeOK ==
    /\ TablesOK
    /\ file \in BOOLEAN
    /\ mark \in [version : 0 .. LastMigration, dirty : BOOLEAN]
    /\ applied \subseteq 1 .. LastMigration
    /\ starts \in 0 .. MaxStarts
    /\ stage \in [Procs -> Stages]
    /\ at \in [Procs -> 0 .. LastMigration]
    /\ isNew \in [Procs -> BOOLEAN]
    /\ password \in [Procs -> BOOLEAN]
    /\ next \in [Procs -> 1 .. Len(Boot) + 1]

Initialized ==
    /\ \A i \in DOMAIN Boot : Exists(Boot[i].dn)
    /\ <<IdOf(AdminDN), AdminHash>> \in users
    /\ <<IdOf(AdminGroupDN), IdOf(AdminDN)>> \in groupMembers

\* Two processes that both found no file do not both fill the database: the entries the
\* tables hold were created by one of them.
SoleInitializer ==
    \A p, q \in Procs : (next[p] > 1 /\ next[q] > 1 /\ isNew[p] /\ isNew[q]) => p = q

\* No process reads or writes entries before every migration has been committed, though
\* several may migrate at once and overwrite each other's mark, and any may die or fail in
\* the middle: what a start reads from the mark is never more than what has been applied.
SchemaBeforeUse ==
    (entries # {} \/ \E p \in Procs : stage[p] \in {"creating", "serving"})
        => applied = 1 .. LastMigration

\* A process that found a new database serves only when the whole initial tree is there,
\* with an administrator who has a password and is a member of the admin group.
InitializerServesAll ==
    \A p \in Procs : (At(p, "serving") /\ isNew[p]) => Initialized

\* A process that serves has the initial tree, after whatever earlier starts.
FirstRunInitializes == (\E p \in Procs : At(p, "serving")) => Initialized

====
