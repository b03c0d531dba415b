---- MODULE MCHttpServer ----
(* The tree of a new directory with one more user, and the group whose members may only *)
(* change their password.                                                               *)
EXTENDS HttpServer

CONSTANTS base, outside, people, teams, admin, admins, alice, team, p1, p2

MCParent ==
    [d \in DNs |-> CASE d = base -> outside
                     [] d \in {admin, alice} -> people
                     [] d \in {admins, team} -> teams
                     [] OTHER -> base]

MCClassesAt ==
    [d \in DNs |-> CASE d = base -> {"top"}
                     [] d \in {admin, alice} -> {"inetOrgPerson"}
                     [] d \in {admins, team} -> {"groupOfNames"}
                     [] OTHER -> {"organizationalUnit"}]

UserAttrs == {"uid", "cn"}

MCRequired ==
    [k \in Classes |-> CASE k = "inetOrgPerson" -> UserAttrs
                         [] k = "groupOfNames" -> {"cn"}
                         [] k = "organizationalUnit" -> {"ou"}
                         [] OTHER -> {}]

Unit(d) == NewEntry(d, "organizationalUnit", [attrs |-> {"ou"}, members |-> {}, password |-> NoPassword])
User(d) == NewEntry(d, "inetOrgPerson", [attrs |-> UserAttrs, members |-> {}, password |-> p1])
Group(d, m) == NewEntry(d, "groupOfNames", [attrs |-> {"cn"}, members |-> m, password |-> NoPassword])

\* Ids and entryUUIDs are the positions.
MCSeed ==
    <<BaseEntry, Unit(people), Unit(teams), User(admin), Group(admins, {admin}), User(alice),
      Group(team, {alice})>>
aliceId == 6
teamId == 7

Ask(route, op, kind) ==
    [user |-> admin, secret |-> p1, route |-> route, op |-> op, kind |-> kind, id |-> 0,
     dn |-> NoDN, attrs |-> {}, members |-> {}, password |-> NoPassword, valid |-> TRUE]

OfUser(route, op) == Ask(route, op, "inetOrgPerson")
OfGroup(route, op) == Ask(route, op, "groupOfNames")

NewAlice(route) == [OfUser(route, "create") EXCEPT !.dn = alice, !.attrs = UserAttrs, !.password = p1]

MCRequests ==
    {[OfUser("scim", "get") EXCEPT !.id = aliceId],
     [OfUser("scim", "get") EXCEPT !.id = aliceId, !.user = alice],
     [OfGroup("scim", "get") EXCEPT !.id = teamId],
     NewAlice("scim"), NewAlice("form"),
     [OfUser("scim", "replace") EXCEPT !.id = aliceId, !.dn = alice, !.attrs = {"cn"}],
     [OfUser("scim", "replace") EXCEPT !.id = aliceId, !.dn = admin, !.attrs = {"cn"}],
     [OfUser("scim", "delete") EXCEPT !.id = aliceId],
     [OfGroup("scim", "create") EXCEPT !.dn = team, !.attrs = {"cn"}, !.members = {aliceId, 4}],
     [OfGroup("scim", "replace") EXCEPT !.id = teamId, !.dn = team, !.members = {aliceId, 4}],
     [OfGroup("scim", "replace") EXCEPT !.id = teamId, !.dn = team],
     [OfGroup("api", "replace") EXCEPT !.dn = admins, !.members = {alice}],
     [OfGroup("api", "delete") EXCEPT !.dn = team],
     [OfUser("api", "delete") EXCEPT !.dn = people],
     [OfUser("api", "replace") EXCEPT !.dn = alice, !.valid = FALSE],
     [OfUser("form", "replace") EXCEPT !.dn = alice, !.attrs = {"cn"}],
     [OfUser("form", "replace") EXCEPT !.dn = team, !.attrs = {"cn"}],
     [OfUser("api", "ownPassword") EXCEPT !.user = alice, !.password = p2],
     [OfUser("api", "resetPassword") EXCEPT !.user = alice, !.dn = admin, !.password = p2],
     [OfUser("api", "resetPassword") EXCEPT !.dn = alice, !.password = p2]}

MCSymmetry == Permutations(Handlers)

====
