---- MODULE MCSearch ----
(* A group under the base and a user under the group, as the store allows: *)
(* three entries make three levels, a group with a member, and an orphan.  *)
EXTENDS Search

CONSTANTS base, outside, user, group

MCParent ==
    [d \in DNs |-> CASE d = base -> outside [] d = user -> group [] OTHER -> base]

MCClassesAt ==
    [d \in DNs |-> CASE d = base -> {"top"}
                     [] d = user -> {"inetOrgPerson"}
                     [] OTHER -> {"groupOfNames"}]

MCRequired == [k \in Classes |-> {}]

aba == <<"a", "b", "a">>
b == <<"b">>

MCAttrs == {"cn: aba", "cn: b"}
MCNameOf == [a \in MCAttrs |-> "cn"]
MCValueOf == [a \in MCAttrs |-> IF a = "cn: aba" THEN aba ELSE b]

\* Users carry attributes, groups members.
MCBodies ==
    [d \in DNs |-> CASE d = user -> [attrs : SUBSET Attrs, members : {{}}, password : {NoPassword}]
                     [] d = group -> [attrs : {{}}, members : {{user}, {group}}, password : {NoPassword}]
                     [] OTHER -> [attrs : {{}}, members : {{}}, password : {NoPassword}]]

Initial(v) == [kind |-> "initial", value |-> v]
Inner(v) == [kind |-> "any", value |-> v]
Final(v) == [kind |-> "final", value |-> v]

InGroup == Equality("memberOf", <<group>>)
IsUser == Equality("objectClass", <<"inetOrgPerson">>)
Named(v) == Equality("cn", v)
CnHas(pieces) == Substrings("cn", pieces)

\* Every plan, and every way a filter changes on its way to the store.
Mixed ==
    {Named(b), Named(<<"b", "ge", "b">>), Equality("member", <<user>>), Present("cn"),
     Present("objectClass"), IsUser, InGroup,
     And({InGroup, IsUser}), And({InGroup, Named(b)}), Or({InGroup, Named(b)}),
     Not(InGroup), Not(Named(b)), And({IsUser, Not(Present("cn"))}),
     Present("createTimestamp"), Or({InGroup, Present("createTimestamp")}),
     And({InGroup, Not(Present("modifyTimestamp"))}),
     Substrings("objectClass", <<Initial(<<"inetOrgPerson">>)>>),
     And({}), And({Or({}), IsUser}), Not(And({}))}

\* Pieces that fit "aba" or overlap in it.
Readables ==
    {CnHas(<<Initial(<<"a">>)>>),
     CnHas(<<Initial(<<"a", "b">>), Final(<<"b", "a">>)>>),
     CnHas(<<Initial(<<"a">>), Inner(<<"b">>), Final(<<"a">>)>>),
     CnHas(<<Initial(<<"a">>), Inner(<<"a">>), Inner(<<"a">>)>>),
     And({IsUser, CnHas(<<Initial(<<"b">>), Final(<<"b">>)>>)})}

\* Every scope.
Places == {<<base, "sub">>, <<group, "one">>, <<group, "base">>}

Searches(filters, places) ==
    {[base |-> p[1], scope |-> p[2], filter |-> f, wantMemberOf |-> TRUE] :
        f \in filters, p \in places}

MCRequests ==
    Searches(Mixed, Places) \cup Searches(Readables, {<<base, "sub">>})
       \cup [base : {base}, scope : {"sub"}, filter : {InGroup, Named(b), Not(InGroup)},
             wantMemberOf : {FALSE}]

\* A piece that may stand anywhere, and one at the end.
SubstringRequests ==
    Searches({CnHas(<<Inner(<<"b">>)>>), CnHas(<<Final(<<"a">>)>>)}, {<<base, "sub">>})

====
