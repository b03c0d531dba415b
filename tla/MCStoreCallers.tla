---- MODULE MCStoreCallers ----
(* A base and two children: one that clients create as an entry of any    *)
(* class, one they create as a group.                                     *)
EXTENDS StoreCallers

CONSTANTS base, outside, user, group, naming

MCParent == [d \in DNs |-> IF d = base THEN outside ELSE base]

MCClassesAt ==
    [d \in DNs |-> CASE d = base -> {"top"}
                     [] d = user -> {"inetOrgPerson", "organizationalUnit", "groupOfNames"}
                     [] OTHER -> {"groupOfNames"}]

MCRequired == [k \in Classes |-> IF k = "top" THEN {} ELSE {naming}]

====
