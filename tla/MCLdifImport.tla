---- MODULE MCLdifImport ----
(***************************************************************************)
(* A unit with a user, a group under the base and a group below that one,  *)
(* and files that list entries after those that need them, replace what is *)
(* there, change a class, need each other, or are refused as they are.     *)
(***************************************************************************)
EXTENDS LdifImport

CONSTANTS base, outside, people, alice, team, crew, p1, p2

MCParent ==
    [d \in DNs |-> CASE d = base -> outside
                     [] d = alice -> people
                     [] d = crew -> team
                     [] OTHER -> base]

\* The server may make a unit where there was a group.
MCClassesAt ==
    [d \in DNs |-> CASE d = base -> {"top"}
                     [] d = alice -> {"inetOrgPerson"}
                     [] d = crew -> {"groupOfNames"}
                     [] d = team -> {"groupOfNames", "organizationalUnit"}
                     [] OTHER -> {"organizationalUnit"}]

MCRequired == [k \in Classes |-> {}]

Unit(d) == NewEntry(d, "organizationalUnit", [attrs |-> {}, members |-> {}, password |-> NoPassword])
User(d) == NewEntry(d, "inetOrgPerson", [attrs |-> {}, members |-> {}, password |-> p2])

MCSeed == <<BaseEntry, Unit(people), User(alice)>>

Plain(d, class, members) ==
    [dn |-> d, classes |-> {class, "top"}, attrs |-> {}, members |-> members,
     passwords |-> {}, protected |-> FALSE]
Team(members) == Plain(team, "groupOfNames", members)
Crew(members) == Plain(crew, "groupOfNames", members)
Alice(passwords) ==
    [Plain(alice, "inetOrgPerson", {}) EXCEPT !.passwords = passwords]

MCFiles ==
    {<<Crew({team}), Team({alice}), Alice({p1})>>,
     <<Alice({}), Team({alice})>>,
     <<Plain(team, "organizationalUnit", {}), Crew({alice})>>,
     <<Team({crew}), Crew({alice})>>,
     <<[Team({alice}) EXCEPT !.protected = TRUE]>>,
     <<[Plain(base, "top", {}) EXCEPT !.classes = {"top"}]>>}

====
