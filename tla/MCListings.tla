---- MODULE MCListings ----
(***************************************************************************)
(* Six entries, created in another order than that of their DNs, and       *)
(* walks with pages of one and two entries, of a group that may become a   *)
(* unit, of a query that an entry in memory may come to match when it is   *)
(* deleted, and from pages whose offset is more than an int holds: one     *)
(* comes out negative, one as the offset of another page.                  *)
(***************************************************************************)
EXTENDS Listings

CONSTANTS base, outside, people, staff, alice, bob, team

MCTextOrder == <<alice, bob, team, base, people, staff>>

MCParent ==
    [d \in DNs |-> CASE d = base -> outside
                     [] d \in {bob, team} -> people
                     [] d = alice -> staff
                     [] OTHER -> base]

MCClassesAt ==
    [d \in DNs |-> CASE d = base -> {"top"}
                     [] d \in {alice, bob} -> {"inetOrgPerson"}
                     [] d = team -> {"groupOfNames", "organizationalUnit"}
                     [] OTHER -> {"organizationalUnit"}]

MCRequired == [k \in Classes |-> {}]

New(d, class, members) ==
    NewEntry(d, class, [attrs |-> {}, members |-> members, password |-> NoPassword])

MCSeed ==
    <<BaseEntry, New(people, "organizationalUnit", {}), New(bob, "inetOrgPerson", {}),
      New(staff, "organizationalUnit", {}), New(team, "groupOfNames", {bob}),
      New(alice, "inetOrgPerson", {})>>

Ask(route, class, query, first, size) ==
    [route |-> route, class |-> class, query |-> query, first |-> first, size |-> size]

MCWalks ==
    {Ask("scim", "inetOrgPerson", NoQuery, 1, 1),
     Ask("scim", "inetOrgPerson", NoQuery, 1, 7),
     Ask("scim", "inetOrgPerson", NoQuery, 2, 0),
     Ask("scim", "groupOfNames", NoQuery, 1, 1),
     Ask("search", "any", NoQuery, 1, 2),
     Ask("search", "any", team, 1, 1),
     Ask("search", "any", people, 1, 1),
     Ask("search", "any", NoQuery, 7, 3),
     Ask("search", "any", NoQuery, 12, 3),
     Ask("search", "any", NoQuery, 1, 4),
     Ask("directory", "any", NoQuery, 1, 1)}

====
