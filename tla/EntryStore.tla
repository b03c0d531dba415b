---- MODULE EntryStore ----
(***************************************************************************)
(* The SQLite entry store (internal/store): the tables of the schema and   *)
(* the transactions that read and write them.  StoreCallers adds the       *)
(* goroutines that use it.                                                 *)
(*                                                                         *)
(* A table is a set of rows.  A DN stands for its lower-cased form, the    *)
(* one every statement of the store compares.  SQLite's transactions are   *)
(* serializable, so each transaction is one step: it commits, or it leaves *)
(* the tables as they were.  Timestamps are left out.                      *)
(***************************************************************************)
EXTENDS Naturals, FiniteSets

CONSTANTS
    DNs,            \* the DNs clients use
    BaseDN,         \* cfg.LDAP.BaseDN
    Parent,         \* ldapdn.Parent: a DN to its parent, in DNs or not
    NoDN,           \* "", the parent the bootstrap gives to the base entry
    ClassesAt,      \* the object classes clients create at each DN
    Attrs,          \* the generic attributes that matter
    Required,       \* those ValidateUser, ValidateGroup and ValidateOU ask for
    MemberDNs,      \* bound: the DNs clients list as members
    Passwords,      \* processed passwords
    NoPassword,     \* the absent password: GetAttribute's "", SQL's ''
    MaxId,          \* bound: the entries ever created
    ForeignKeys     \* SQLite's foreign_keys pragma: no connection turns it on

Classes == {"top", "organizationalUnit", "inetOrgPerson", "groupOfNames"}

ASSUME StoreAssumption ==
    /\ BaseDN \in DNs
    /\ NoDN \notin DNs
    /\ DOMAIN Parent = DNs
    /\ Parent[BaseDN] \notin DNs
    /\ ClassesAt \in [DNs -> SUBSET Classes]
    /\ Required \in [Classes -> SUBSET Attrs]
    /\ "top" \in ClassesAt[BaseDN]
    /\ MemberDNs \subseteq DNs
    /\ NoPassword \notin Passwords
    /\ MaxId \in Nat
    /\ ForeignKeys \in BOOLEAN

Ids == 1 .. MaxId
PasswordHashes == Passwords \cup {NoPassword}

\* models.Entry: what a caller holds in memory.  uuid is 0 until the store sets it.
Entry == [dn : DNs, parent : {Parent[d] : d \in DNs} \cup {NoDN}, class : Classes,
          attrs : SUBSET Attrs, members : SUBSET DNs,
          password : PasswordHashes, uuid : Nat]

VARIABLES
    entries,        \* rows [id, dn, class]
    otherAttr,      \* rows <<entry_id, attribute>> of the attributes table
    memberAttr,     \* its rows <<entry_id, DN>> with name 'member'
    uuidAttr,       \* its rows <<entry_id, uuid>> with name 'entryuuid'
    users,          \* rows <<entry_id, password_hash>>
    groups,         \* entry_id column of groups
    ous,            \* entry_id column of organizational_units
    groupMembers,   \* rows <<group_entry_id, member_entry_id>>
    nextId,         \* sqlite_sequence: the AUTOINCREMENT id of the next entry
    nextUuid        \* the next value uuid.NewString() draws

attributes == <<otherAttr, memberAttr, uuidAttr>>
classTables == <<users, groups, ous>>
tables == <<entries, attributes, classTables, groupMembers, nextId, nextUuid>>

----
(* Reading the tables *)

LiveIds == {r.id : r \in entries}
Exists(d) == \E r \in entries : r.dn = d
RowAt(d) == CHOOSE r \in entries : r.dn = d
IdOf(d) == RowAt(d).id

StoredUuids(id) == {row[2] : row \in {r \in uuidAttr : r[1] = id}}

\* GetEntryWithOptions: one statement, so one snapshot.  The hash is not an attribute.
LoadedEntry(d) ==
    LET row == RowAt(d)
        stored == StoredUuids(row.id)
    IN  [dn |-> d, parent |-> Parent[d], class |-> row.class,
         attrs |-> {a \in Attrs : <<row.id, a>> \in otherAttr},
         members |-> {m \in DNs : <<row.id, m>> \in memberAttr},
         password |-> NoPassword,
         uuid |-> IF stored = {} THEN 0 ELSE CHOOSE u \in stored : TRUE]

StoredPassword(id) ==
    IF \E row \in users : row[1] = id
    THEN (CHOOSE row \in users : row[1] = id)[2] ELSE NoPassword

\* GetUserPasswordHashByDN.
HashAt(d) == IF Exists(d) THEN StoredPassword(IdOf(d)) ELSE NoPassword

\* What the tables hold of the live entries; the rows of deleted ones are not seen.
LiveEntry(r) ==
    [class |-> r.class,
     attrs |-> {a \in Attrs : <<r.id, a>> \in otherAttr},
     members |-> {d \in DNs : <<r.id, d>> \in memberAttr},
     password |-> StoredPassword(r.id),
     uuid |-> CHOOSE u \in StoredUuids(r.id) : TRUE]
LiveEntries == [d \in {r.dn : r \in entries} |-> LiveEntry(RowAt(d))]

----
(* The rows of one entry *)

Without(rows, id) == {row \in rows : row[1] # id}

\* resolveMemberEntryIDs and the inserts of syncGroupMembers: one row for each member
\* DN, through the entry that has that DN in this table.
MemberRows(table, id, members) ==
    {<<id, r.id>> : r \in {row \in table : row.dn \in members}}

\* Mutant: the caller's id wins.
CopiedUuid(id, e) == IF e.uuid = 0 THEN nextUuid ELSE e.uuid

\* preserveStableIDAttributes: the stored id wins over the caller's copy.
KeptUuid(id, e) ==
    IF StoredUuids(id) = {} THEN nextUuid ELSE CHOOSE u \in StoredUuids(id) : TRUE

----
(* Transactions *)

\* ldapdn.WithinBase: BaseDN is the DN or one of its ancestors.
Subtree[n \in Nat] ==
    IF n = 0 THEN {BaseDN}
    ELSE LET above == Subtree[n - 1] IN above \cup {d \in DNs : Parent[d] \in above}
WithinBase(d) == d \in Subtree[Cardinality(DNs)]

\* Mutant: the parent is not looked up.
PlacementInBase(e) == WithinBase(e.dn)

\* validateEntryPlacement.
PlacementOK(e) ==
    /\ WithinBase(e.dn)
    /\ IF e.dn = BaseDN THEN e.parent = NoDN ELSE Exists(e.parent)

\* ValidateUser, ValidateGroup, ValidateOU: only CreateEntry calls them.
ValidForClass(e) ==
    /\ Required[e.class] \subseteq e.attrs
    /\ e.class = "groupOfNames" => e.members # {}

\* resolveMemberEntryIDs fails on a member DN the table does not have.
MembersResolve(table, e) ==
    e.class = "groupOfNames" => \A m \in e.members : \E row \in table : row.dn = m

\* Mutant: no AUTOINCREMENT, so SQLite takes the id after the largest in the table.
ReusedId == IF LiveIds = {} THEN 1 ELSE 1 + CHOOSE i \in LiveIds : \A j \in LiveIds : j <= i

\* AUTOINCREMENT: an id above every id the table has ever had.
NewId == nextId

NewRow(e) == [id |-> NewId, dn |-> e.dn, class |-> e.class]

\* Members are resolved after the insert, so a group may list itself.
CanCreate(e) ==
    /\ PlacementOK(e)
    /\ ~Exists(e.dn)
    /\ ValidForClass(e)
    /\ MembersResolve(entries \cup {NewRow(e)}, e)

\* CreateEntry, committed.
CreateEntryTx(e) ==
    /\ nextId <= MaxId
    /\ CanCreate(e)
    /\ entries' = entries \cup {NewRow(e)}
    /\ otherAttr' = otherAttr \cup ({NewId} \X e.attrs)
    /\ memberAttr' = memberAttr \cup ({NewId} \X e.members)
    /\ uuidAttr' = uuidAttr \cup {<<NewId, nextUuid>>}
    /\ users' = IF e.class = "inetOrgPerson"
                THEN users \cup {<<NewId, e.password>>} ELSE users
    /\ groups' = IF e.class = "groupOfNames" THEN groups \cup {NewId} ELSE groups
    /\ ous' = IF e.class = "organizationalUnit" THEN ous \cup {NewId} ELSE ous
    /\ groupMembers' = IF e.class = "groupOfNames"
                       THEN groupMembers \cup MemberRows(entries', NewId, e.members)
                       ELSE groupMembers
    /\ nextId' = nextId + 1
    /\ nextUuid' = nextUuid + 1

CanUpdate(e) ==
    /\ Exists(e.dn)
    /\ MembersResolve(entries, e)

\* Mutant: INSERT where the code says UPDATE.
InsertPassword(id, e) ==
    IF e.class = "inetOrgPerson" /\ e.password # NoPassword
    THEN users \cup {<<id, e.password>>} ELSE users

\* Mutant: a copy without a password clears the hash.
UpdatePasswordAlways(id, e) ==
    IF e.class = "inetOrgPerson"
    THEN {IF row[1] = id THEN <<id, e.password>> ELSE row : row \in users} ELSE users

\* UPDATE users SET password_hash: nothing when the copy carries no password.
UpdatePassword(id, e) ==
    IF e.class = "inetOrgPerson" /\ e.password # NoPassword
    THEN {IF row[1] = id THEN <<id, e.password>> ELSE row : row \in users}
    ELSE users

\* Mutant: the old rows are not deleted.
AddMembers(id, e) ==
    IF e.class = "groupOfNames"
    THEN groupMembers \cup MemberRows(entries, id, e.members) ELSE groupMembers

\* syncGroupMembers with replace.
ReplaceMembers(id, e) ==
    IF e.class = "groupOfNames"
    THEN Without(groupMembers, id) \cup MemberRows(entries, id, e.members)
    ELSE groupMembers

\* UpdateEntry, committed.  The object class it tests is that of the caller's copy.
UpdateEntryTx(e) ==
    LET id == IdOf(e.dn)
    IN  /\ CanUpdate(e)
        /\ otherAttr' = Without(otherAttr, id) \cup ({id} \X e.attrs)
        /\ memberAttr' = Without(memberAttr, id) \cup ({id} \X e.members)
        /\ uuidAttr' = Without(uuidAttr, id) \cup {<<id, KeptUuid(id, e)>>}
        /\ nextUuid' = IF KeptUuid(id, e) = nextUuid THEN nextUuid + 1 ELSE nextUuid
        /\ users' = UpdatePassword(id, e)
        /\ groupMembers' = ReplaceMembers(id, e)
        /\ UNCHANGED <<entries, groups, ous, nextId>>

\* ON DELETE CASCADE of every table that references entries, when SQLite enforces it.
Cascade(id) ==
    IF ForeignKeys
    THEN /\ otherAttr' = Without(otherAttr, id)
         /\ memberAttr' = Without(memberAttr, id)
         /\ uuidAttr' = Without(uuidAttr, id)
         /\ users' = Without(users, id)
         /\ groups' = groups \ {id}
         /\ ous' = ous \ {id}
         /\ groupMembers' = {row \in groupMembers : row[1] # id /\ row[2] # id}
    ELSE UNCHANGED <<attributes, classTables, groupMembers>>

\* DeleteEntry, committed: one DELETE statement, children or not.
DeleteEntryTx(d) ==
    /\ Exists(d)
    /\ entries' = {r \in entries : r.dn # d}
    /\ Cascade(IdOf(d))
    /\ UNCHANGED <<nextId, nextUuid>>

----
(* The types of the tables *)

EntryRows == [id : Ids, dn : DNs, class : Classes]

TablesOK ==
    /\ entries \subseteq EntryRows
    /\ otherAttr \subseteq Ids \X Attrs
    /\ memberAttr \subseteq Ids \X DNs
    /\ uuidAttr \subseteq Ids \X Nat
    /\ users \subseteq Ids \X PasswordHashes
    /\ groups \subseteq Ids
    /\ ous \subseteq Ids
    /\ groupMembers \subseteq Ids \X Ids
    /\ nextId \in 1 .. MaxId + 1
    /\ nextUuid \in Nat \ {0}

----
(* The invariants of the tables, whoever writes them *)

\* No two live entries share a DN, whatever creators race for it.
UniqueDN == \A r, s \in entries : r.dn = s.dn => r = s

\* Each entry has exactly the row its object class calls for: bind, which joins users to
\* entries, finds one hash for a user and none for anything else.
ClassRows ==
    /\ \A r \in entries :
          /\ r.id \in groups <=> r.class = "groupOfNames"
          /\ r.id \in ous <=> r.class = "organizationalUnit"
          /\ (\E row \in users : row[1] = r.id) <=> r.class = "inetOrgPerson"
    /\ \A x, y \in users : x[1] = y[1] => x = y

\* entryUUID identifies an entry: one value each, never the value of another entry, not
\* even of a deleted one whose DN it took over.
UuidIdentifies ==
    /\ \A r \in entries : \E x \in uuidAttr : StoredUuids(r.id) = {x[2]}
    /\ \A x, y \in uuidAttr : x[2] = y[2] => x[1] = y[1]

\* The primary key of the entries table.
UniqueId == \A r, s \in entries : r.id = s.id => r = s

\* Whatever a table holds is below the counter that numbers the next row.
BelowCounters ==
    /\ \A r \in entries : r.id < nextId
    /\ \A row \in otherAttr \cup memberAttr \cup users : row[1] < nextId
    /\ \A row \in uuidAttr : row[1] < nextId /\ row[2] < nextUuid
    /\ \A row \in groupMembers : row[1] < nextId /\ row[2] < nextId
    /\ \A id \in groups \cup ous : id < nextId

\* What every transaction keeps (EntryStoreProofs).
TablesInv ==
    /\ TablesOK
    /\ UniqueId
    /\ BelowCounters
    /\ UniqueDN
    /\ ClassRows
    /\ UuidIdentifies

----
(* What the callers of the store start from and hand to it *)

InitTables ==
    /\ entries = {}
    /\ otherAttr = {} /\ memberAttr = {} /\ uuidAttr = {}
    /\ users = {} /\ groups = {} /\ ous = {}
    /\ groupMembers = {}
    /\ nextId = 1 /\ nextUuid = 1

\* initializeDatabase: the entry it creates first, in a new database file.
BaseEntry == [dn |-> BaseDN, parent |-> NoDN, class |-> "top", attrs |-> {},
              members |-> {}, password |-> NoPassword, uuid |-> 0]

\* The rows CreateEntry leaves for a sequence of entries, each created after the last.
SeededTables(seed) ==
    LET ids == DOMAIN seed
        idAt(d) == CHOOSE i \in ids : seed[i].dn = d
        ofClass(k) == {i \in ids : seed[i].class = k}
    IN  /\ entries = {[id |-> i, dn |-> seed[i].dn, class |-> seed[i].class] : i \in ids}
        /\ otherAttr = UNION {{i} \X seed[i].attrs : i \in ids}
        /\ memberAttr = UNION {{i} \X seed[i].members : i \in ids}
        /\ uuidAttr = {<<i, i>> : i \in ids}
        /\ users = {<<i, seed[i].password>> : i \in ofClass("inetOrgPerson")}
        /\ groups = ofClass("groupOfNames")
        /\ ous = ofClass("organizationalUnit")
        /\ groupMembers = UNION {{<<i, idAt(d)>> : d \in seed[i].members} : i \in ids}
        /\ nextId = Cardinality(ids) + 1
        /\ nextUuid = Cardinality(ids) + 1

\* A sequence that CreateEntry accepts: of entries, each with a DN of its own and a class
\* its DN may have, groups among them whose members are there already.
SeedOK(seed) ==
    /\ \E n \in 0 .. MaxId : DOMAIN seed = 1 .. n
    /\ \A i \in DOMAIN seed :
          /\ seed[i] \in Entry
          /\ seed[i].class \in ClassesAt[seed[i].dn]
          /\ seed[i].class # "groupOfNames" => seed[i].members = {}
          /\ \A d \in seed[i].members : \E j \in 1 .. i : seed[j].dn = d
    /\ \A i, j \in DOMAIN seed : seed[i].dn = seed[j].dn => i = j

\* What is created at a DN is always of one class: the web routes name a user by its uid, a
\* group by its cn and a unit by its ou.
OneClassPerDN == \A d \in DNs : \A j, k \in ClassesAt[d] : j = k

\* Bound: only groups list members, only users carry a password.
Contents(class) ==
    [attrs : SUBSET Attrs,
     members : IF class = "groupOfNames" THEN SUBSET MemberDNs ELSE {{}},
     password : IF class = "inetOrgPerson" THEN PasswordHashes ELSE {NoPassword}]

NewEntry(d, class, x) ==
    [dn |-> d, parent |-> Parent[d], class |-> class, attrs |-> x.attrs,
     members |-> x.members, password |-> x.password, uuid |-> 0]

\* Nothing but the rows of this entry changes, and nothing that says what it is.
OnlyRowsOf(id) ==
    /\ <<entries, groups, ous, nextId, uuidAttr>>' = <<entries, groups, ous, nextId, uuidAttr>>
    /\ \A rows \in {<<otherAttr, otherAttr'>>, <<memberAttr, memberAttr'>>,
                     <<users, users'>>, <<groupMembers, groupMembers'>>} :
          Without(rows[1], id) = Without(rows[2], id)

\* What a caller may make of the copy it has read: it never changes its DN or class.
Changed(e) ==
    {[e EXCEPT !.attrs = x.attrs, !.members = x.members, !.password = x.password] :
        x \in Contents(e.class)}

====
