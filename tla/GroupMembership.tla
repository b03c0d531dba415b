---- MODULE GroupMembership ----
(***************************************************************************)
(* The three recursive queries over group_members: IsUserInGroup, which    *)
(* authorization asks; the memberOf projection of populateMemberOf; and    *)
(* the (memberOf=<group>) search.  Each walks the rows along paths that    *)
(* visit nothing twice and stop at a depth.                                *)
(***************************************************************************)
EXTENDS EntryStore, SequencesExt

CONSTANT MaxDepth       \* the depth at which the queries stop: 100 in the code

ASSUME MaxDepthAssumption == MaxDepth \in Nat

\* The recursive part of a common table expression: each path grows at its end by an
\* element it does not hold yet.
Grow(paths, relation) ==
    UNION {{Append(p, y) : y \in {y \in Ids : /\ <<Last(p), y>> \in relation
                                              /\ y \notin Range(p)}} : p \in paths}

\* The paths along the relation that start in the set, by the depth they have.
PathsOfDepth(start, relation) ==
    LET OfDepth[n \in Nat] ==
            IF n = 0 THEN {<<x>> : x \in start} ELSE Grow(OfDepth[n - 1], relation)
    IN  OfDepth

Paths(start, relation) == UNION {PathsOfDepth(start, relation)[n] : n \in 0 .. MaxDepth}

Visited(start, relation) == UNION {Range(p) : p \in Paths(start, relation)}

\* group_members read from a member to its groups, those in a set of ids only.
UpTo(ids) == {<<row[2], row[1]>> : row \in {r \in groupMembers : r[1] \in ids}}

GroupsOf(id, ids) == {pair[2] : pair \in {p \in UpTo(ids) : p[1] = id}}

\* Mutant: only direct members.
IsDirectMember(u, g) ==
    Exists(u) /\ Exists(g) /\ IdOf(g) \in GroupsOf(IdOf(u), Ids)

\* IsUserInGroup: the user and the group are joined to entries, the groups between are not.
IsUserInGroup(u, g) ==
    /\ Exists(u) /\ Exists(g)
    /\ IdOf(g) \in Visited(GroupsOf(IdOf(u), Ids), UpTo(Ids))

\* populateMemberOf: every group on the way is joined to entries.
MemberOfId(id) ==
    LET ids == Visited(GroupsOf(id, LiveIds), UpTo(LiveIds))
    IN  {r.dn : r \in {r \in entries : r.id \in ids}}

MemberOf(u) ==
    IF Exists(u) /\ RowAt(u).class = "inetOrgPerson" THEN MemberOfId(IdOf(u)) ELSE {}

\* Mutant: the groups on the way are not joined to entries.
DownAnyRow == groupMembers

\* searchEntriesByMemberOfEquality: from the group down, through entries that are groups.
Down ==
    LET groupIds == {r.id : r \in {r \in entries : r.class = "groupOfNames"}}
    IN  {row \in groupMembers : row[1] \in groupIds}

SearchByMemberOf(g) ==
    IF Exists(g)
    THEN LET members == {row[2] : row \in {r \in groupMembers : r[1] = IdOf(g)}}
             ids == Visited(members, Down)
         IN  {r.dn : r \in {r \in entries : r.id \in ids /\ r.class = "inetOrgPerson"}}
    ELSE {}

----
(* Properties *)

\* The id and the groups a walk of at most n steps reaches from it, through rows of any group.
WithinSteps(id) ==
    LET Within[n \in Nat] ==
            IF n = 0 THEN {id}
            ELSE Within[n - 1] \cup UNION {GroupsOf(x, Ids) : x \in Within[n - 1]}
    IN  Within

Reach(id) == UNION {GroupsOf(x, Ids) : x \in WithinSteps(id)[MaxDepth]}

\* Leaving out the paths that visit a group twice loses no membership, cycles or not: the
\* authorization query finds exactly the groups some walk of the allowed length reaches.
CycleProtectionExact ==
    \A r, s \in entries :
        IsUserInGroup(r.dn, s.dn) <=> s.id \in Reach(r.id)

\* The (memberOf=g) search returns the users whose memberOf attribute names g, although one
\* query walks down from the group and the other up from the user, at the depth limit too.
SearchMatchesProjection ==
    \A u, g \in DNs : u \in SearchByMemberOf(g) <=> g \in MemberOf(u)

\* A memberOf value the directory shows is one authorization honours.
ShownMembershipHonoured ==
    \A u \in DNs : \A g \in MemberOf(u) : IsUserInGroup(u, g)

\* A new user is in no group, even under the DN of a deleted user whose membership rows
\* are still in group_members.
NewUserInNoGroup ==
    [][\A r \in entries' \ entries :
          r.class = "inetOrgPerson" =>
             /\ MemberOf(r.dn)' = {}
             /\ \A g \in DNs : ~IsUserInGroup(r.dn, g)']_tables

====
