---- MODULE MCLdapServer ----
(* An administrator, a user and the admin group under the base; two connections. *)
EXTENDS LdapServer

CONSTANTS base, outside, admin, admins, alice, naming, p1, p2

MCParent == [d \in DNs |-> IF d = base THEN outside ELSE base]

MCClassesAt ==
    [d \in DNs |-> CASE d = base -> {"top"}
                     [] d = admins -> {"groupOfNames"}
                     [] d = alice -> {"inetOrgPerson", "groupOfNames"}
                     [] OTHER -> {"inetOrgPerson"}]

MCRequired == [k \in Classes |-> {}]

User(d, p) == NewEntry(d, "inetOrgPerson", [attrs |-> {}, members |-> {}, password |-> p])
Group(d, m) ==
    NewEntry(d, "groupOfNames", [attrs |-> {}, members |-> m, password |-> NoPassword])

MCSeed == <<BaseEntry, User(admin, p1), Group(admins, {admin}), User(alice, p1)>>

BindAs(d, p) == [op |-> "bind", dn |-> d, password |-> p]
Add(e, why) == [op |-> "add", dn |-> e.dn, entry |-> e, refusal |-> why]
Delete(d) == [op |-> "delete", dn |-> d]
Compare(d) == [op |-> "compare", dn |-> d]
Modify(d, what, x, why) ==
    [op |-> "modify", dn |-> d, changes |-> what, attrs |-> x.attrs, members |-> x.members,
     password |-> x.password, refusal |-> why]
Values(a, m, p) == [attrs |-> a, members |-> m, password |-> p]

MCRequests ==
    {BindAs(admin, p1), BindAs(alice, p1), BindAs(alice, p2), BindAs(NoDN, NoPassword),
     Add(User(alice, p2), "none"), Add(Group(alice, {admin}), "none"),
     Add(User(alice, p1), "unwillingToPerform"), Delete(alice),
     Compare(alice),
     Modify(alice, {"password"}, Values({}, {}, p2), "none"),
     Modify(alice, {"attrs"}, Values({naming}, {}, NoPassword), "none"),
     Modify(alice, {"attrs"}, Values({}, {}, NoPassword), "unwillingToPerform"),
     Modify(admins, {"members"}, Values({}, {alice}, NoPassword), "none"),
     [op |-> "unbind", dn |-> NoDN]}

====
