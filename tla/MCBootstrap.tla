---- MODULE MCBootstrap ----
(***************************************************************************)
(* The five entries of the initial tree, two processes, and three starts   *)
(* between them: a first start that dies, and two that race or follow it.  *)
(***************************************************************************)
EXTENDS Bootstrap

MCDNs == {"base", "users", "groups", "admin", "admins"}
MCParent ==
    [d \in MCDNs |-> CASE d = "base" -> "com" [] d = "admin" -> "users"
                       [] d = "admins" -> "groups" [] OTHER -> "base"]
MCClassesAt ==
    [d \in MCDNs |-> CASE d = "base" -> {"top"} [] d = "admin" -> {"inetOrgPerson"}
                       [] d = "admins" -> {"groupOfNames"}
                       [] OTHER -> {"organizationalUnit"}]
MCRequired ==
    [k \in Classes |-> IF k = "top" THEN {} ELSE {"name"}]

====
