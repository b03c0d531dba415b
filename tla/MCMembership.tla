---- MODULE MCMembership ----
(* A user and two groups under the base, nested in every way. *)
EXTENDS SerialCallers

CONSTANTS base, outside, user, group1, group2

MCParent == [d \in DNs |-> IF d = base THEN outside ELSE base]

MCClassesAt ==
    [d \in DNs |-> CASE d = base -> {"top"}
                     [] d = user -> {"inetOrgPerson"}
                     [] OTHER -> {"groupOfNames"}]

MCRequired == [k \in Classes |-> {}]

\* The two groups may be swapped: nothing tells them apart.
MCSymmetry == Permutations({group1, group2})

====
