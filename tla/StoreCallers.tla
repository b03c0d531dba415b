---- MODULE StoreCallers ----
(***************************************************************************)
(* The goroutines that use the store: the bootstrap that creates the base  *)
(* entry, creators, deleters, and callers (LDAP Modify, the directory      *)
(* service, SCIM, LDIF replace) that read an entry in one transaction,     *)
(* change their copy in memory and write it back in another.               *)
(***************************************************************************)
EXTENDS EntryStore

CONSTANTS
    Callers,        \* goroutines that read, change and write back
    NoEntry         \* no copy in memory

ASSUME CallersAssumption == NoEntry \notin Entry

VARIABLES
    held,           \* the copy each caller has in memory
    everCreated,    \* history: every row [id, dn, class] the entries table has had
    crossed         \* history: the ids of the rows that a copy of the other kind, of a
                    \* group or not, was written over, unless a group's was over it since

vars == <<tables, held, everCreated, crossed>>

----
Init ==
    /\ InitTables
    /\ held = [c \in Callers |-> NoEntry]
    /\ everCreated = {}
    /\ crossed = {}

\* initializeDatabase, its first CreateEntry: the database file is new.
CreateBase ==
    /\ nextId = 1
    /\ CreateEntryTx(BaseEntry)
    /\ everCreated' = everCreated \cup {NewRow(BaseEntry)}
    /\ UNCHANGED <<held, crossed>>

CreateEntry(e) ==
    /\ CreateEntryTx(e)
    /\ everCreated' = everCreated \cup {NewRow(e)}
    /\ UNCHANGED <<held, crossed>>

DeleteEntry(d) ==
    /\ DeleteEntryTx(d)
    /\ UNCHANGED <<held, everCreated, crossed>>

GetEntry(c, d) ==
    /\ held[c] = NoEntry
    /\ Exists(d)
    /\ held' = [held EXCEPT ![c] = LoadedEntry(d)]
    /\ UNCHANGED <<tables, everCreated, crossed>>

CrossedBy(e) ==
    LET row == RowAt(e.dn)
        sameKind == (e.class = "groupOfNames") = (row.class = "groupOfNames")
    IN  IF ~sameKind THEN crossed \cup {row.id}
        ELSE IF e.class = "groupOfNames" THEN crossed \ {row.id} ELSE crossed

\* The caller's changes touch its copy only, so they are part of the step that writes it.
UpdateEntry(c) ==
    /\ held[c] # NoEntry
    /\ \E e \in Changed(held[c]) : UpdateEntryTx(e)
    /\ held' = [held EXCEPT ![c] = NoEntry]
    /\ crossed' = CrossedBy(held[c])
    /\ UNCHANGED everCreated

\* The write is refused, the transaction fails and is rolled back, or the caller gives up.
Abandon(c) ==
    /\ held[c] # NoEntry
    /\ held' = [held EXCEPT ![c] = NoEntry]
    /\ UNCHANGED <<tables, everCreated, crossed>>

Next ==
    \/ CreateBase
    \/ \E d \in DNs : \E k \in ClassesAt[d] : \E x \in Contents(k) :
          CreateEntry(NewEntry(d, k, x))
    \/ \E d \in DNs : DeleteEntry(d)
    \/ \E c \in Callers :
        \/ \E d \in DNs : GetEntry(c, d)
        \/ UpdateEntry(c)
        \/ Abandon(c)

Spec == Init /\ [][Next]_vars

----
(* Properties *)

TypeOK ==
    /\ TablesOK
    /\ held \in [Callers -> Entry \cup {NoEntry}]
    /\ everCreated \subseteq EntryRows
    /\ crossed \subseteq Ids

\* The entryUUID of an entry never changes while it lives, not even by a caller that
\* writes back a copy of an earlier entry with the same DN.
UuidStable ==
    [][\A id \in LiveIds \cap LiveIds' : StoredUuids(id)' = StoredUuids(id)]_vars

\* A user with a password keeps one: the copies callers write back never hold the hash.
PasswordKept ==
    [][\A row \in users :
          (row[1] \in LiveIds' /\ row[2] # NoPassword)
             => \E new \in users' : new[1] = row[1] /\ new[2] # NoPassword]_vars

Listed(id) == {d \in DNs : <<id, d>> \in memberAttr}
Represented(id) == {m \in everCreated : <<id, m.id>> \in groupMembers}

\* The rows of group_members say what the member attributes say: those of a live group are
\* one for each listed DN, through the entry that had that DN when the group was written.
\* The one exception is an entry that the copy of an earlier one with its DN was written
\* over, one of them a group and the other not; writing a group again mends it.
MembersInSync ==
    \A r \in entries : r.id \notin crossed =>
        IF r.class = "groupOfNames"
        THEN /\ {m.dn : m \in Represented(r.id)} = Listed(r.id)
             /\ \A m, n \in Represented(r.id) : m.dn = n.dn => m = n
        ELSE \A row \in groupMembers : row[1] # r.id

----
(* The tables implement a map from DNs to entries *)

Dir == INSTANCE Directory WITH dir <- LiveEntries, issued <- 1 .. nextUuid - 1

\* Seven tables without enforced foreign keys, and callers that write back stale copies,
\* behave as one map from DNs to entries changed by one operation at a time.
ImplementsDirectory == Dir!Spec

----
(* The inductive invariant behind the theorems about the callers *)

\* The history holds the live rows, and an id has meant one row for ever.
HistoryOK ==
    /\ entries \subseteq everCreated
    /\ \A m, n \in everCreated : m.id = n.id => m = n
    /\ \A m \in everCreated : m.id < nextId

StoreInv == TypeOK /\ TablesInv /\ HistoryOK

SyncInv == StoreInv /\ MembersInSync

====
