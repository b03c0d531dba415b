---- MODULE SerialCallers ----
(***************************************************************************)
(* The store under callers that take turns: each reads an entry, changes   *)
(* it and writes it back with nobody in between.  Membership is a matter   *)
(* of what is in the tables, so this is where its queries are checked.     *)
(***************************************************************************)
EXTENDS GroupMembership

SerialInit == InitTables

SerialCreateBase == nextId = 1 /\ CreateEntryTx(BaseEntry)

SerialCreate(d, class) ==
    \E x \in Contents(class) : CreateEntryTx(NewEntry(d, class, x))

SerialRewrite(d) ==
    /\ Exists(d)
    /\ \E e \in Changed(LoadedEntry(d)) : UpdateEntryTx(e)

SerialDelete(d) == DeleteEntryTx(d)

SerialNext ==
    \/ SerialCreateBase
    \/ \E d \in DNs :
        \/ \E k \in ClassesAt[d] : SerialCreate(d, k)
        \/ SerialRewrite(d)
        \/ SerialDelete(d)

SerialSpec == SerialInit /\ [][SerialNext]_tables

----
(* The inductive invariant behind the membership queries *)

\* A row of group_members that names a live entry as the group names a group.
GroupsOnly ==
    \A row \in groupMembers : \A r \in entries : r.id = row[1] => r.class = "groupOfNames"

SerialInv == TablesInv /\ GroupsOnly

====
