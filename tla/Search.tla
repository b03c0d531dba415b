---- MODULE Search ----
(***************************************************************************)
(* SearchEntriesWithOptions (internal/store/sqlite_search.go) under        *)
(* writers: one statement reads the entries, another their memberOf        *)
(* values, and a filter that SQL cannot evaluate is applied after either.  *)
(* A filter that names one value, or one group, takes a fast path that     *)
(* starts from the rows with that value and then looks at the scope.       *)
(***************************************************************************)
EXTENDS SearchScope, Filters

CONSTANTS
    NameOf,         \* the attribute name of each generic attribute value
    ValueOf,        \* its value
    Bodies,         \* bound: the contents writers give to the entry of each DN
    Requests,       \* bound: the searches clients send
    NoRequest,      \* before the search begins
    MaxRaces        \* bound: the writes between the two statements of a search

Names ==
    {"objectClass", "memberOf", "member", "entryUUID"} \cup Timestamps
       \cup {NameOf[a] : a \in Attrs}

ASSUME SearchAssumption ==
    /\ NameOf \in [Attrs -> STRING \ Timestamps]   \* isGenericStoredAttribute
    /\ DOMAIN ValueOf = Attrs
    /\ DOMAIN Bodies = DNs
    /\ MaxRaces \in Nat
    /\ \A r \in Requests : r.base \in DNs /\ r.scope \in Scopes /\ r.wantMemberOf \in BOOLEAN

VARIABLES
    phase,          \* "idle"; "read": between the two statements; "answered"; "refused"
    request,        \* the search, chosen when it begins
    found,          \* the entries in memory
    raced           \* history: the writes between the two statements

search == <<phase, request, found, raced>>
vars == <<tables, search>>

----
(* The rows of an entry and the copy of it in memory *)

\* The attributes table, by name.
Rows(id) ==
    [n \in Names |->
        CASE n = "member" -> {<<row[2]>> : row \in {r \in memberAttr : r[1] = id}}
          [] n = "entryUUID" -> {<<u>> : u \in StoredUuids(id)}
          [] OTHER -> {ValueOf[a] : a \in {a \in Attrs : <<id, a>> \in otherAttr /\ NameOf[a] = n}}]

\* filterAttributeValues.  An entry always has both times; which they are no filter asks.
Values(e) ==
    [n \in Names |->
        CASE n = "objectClass" -> {<<e.class>>}
          [] n \in Timestamps -> {<<"time">>}
          [] n = "memberOf" -> {<<g>> : g \in e.memberOf}
          [] OTHER -> e.rows[n]]

\* scanEntriesWithAttributes: the entry as one statement reads it.
Scanned(r) ==
    [id |-> r.id, dn |-> r.dn, class |-> r.class, rows |-> Rows(r.id), memberOf |-> {}]

\* Mutant: the entry is looked up again by its DN.
ProjectedByDN(e) == [e EXCEPT !.memberOf = MemberOf(e.dn)]

\* populateMemberOf, for one entry.
Projected(e) ==
    [e EXCEPT !.memberOf = IF e.class = "inetOrgPerson" THEN MemberOfId(e.id) ELSE {}]

----
(* The four plans *)

\* searchEntriesByMemberOfEquality.
ByMemberOf(q, f) ==
    LET dns == UNION {SearchByMemberOf(g[1]) : g \in MemberOfTargets(f)}
    IN  {r \in entries : r.dn \in dns /\ InScope(r, q.base, q.scope)}

\* searchEntriesByAttributeEquality.
ByEquality(q, f) ==
    {r \in entries : f.value \in Rows(r.id)[f.attr] /\ InScope(r, q.base, q.scope)}

ByClause(q, f) ==
    {r \in Candidates(q.base, q.scope) : Clause(f, Rows(r.id), <<r.class>>)}

FastPath(f) == MemberOfTargets(f) # {} \/ SimpleEquality(f)

\* The first statement of each plan.
FirstRows(q, f) ==
    CASE MemberOfTargets(f) # {} -> ByMemberOf(q, f)
      [] MemberOfTargets(f) = {} /\ SimpleEquality(f) -> ByEquality(q, f)
      [] ~FastPath(f) /\ UsesSQL(f) -> ByClause(q, f)
      [] OTHER -> Candidates(q.base, q.scope)

InMemory(f) == ~FastPath(f) /\ ~UsesSQL(f)

\* What the search makes of the entries it has, once it reads their groups.
Filtered(q, f) ==
    IF InMemory(f)
    THEN IF UsesMemberOf(f)
         THEN {e \in {Projected(e) : e \in found} : Matches(f, Values(e))}
         ELSE {Projected(e) : e \in {e \in found : Matches(f, Values(e))}}
    ELSE {Projected(e) : e \in found}

----
(* The search *)

Init ==
    /\ InitTables
    /\ phase = "idle" /\ request = NoRequest /\ found = {} /\ raced = 0

\* A filter ParseFilter does not accept: operationsError.
Refuse(q) ==
    /\ phase = "idle"
    /\ Unparsable(q.filter)
    /\ phase' = "refused"
    /\ request' = q
    /\ UNCHANGED <<tables, found, raced>>

ReadEntries(q) ==
    /\ phase = "idle"
    /\ ~Unparsable(q.filter)
    /\ phase' = "read"
    /\ request' = q
    /\ found' = {Scanned(r) : r \in FirstRows(q, Parsed(q.filter))}
    /\ UNCHANGED <<tables, raced>>

\* populateMemberOf, the filter in memory, and ClearComputedAttribute.
Answer ==
    /\ phase = "read"
    /\ found' = LET answer == Filtered(request, Parsed(request.filter))
                IN  IF request.wantMemberOf THEN answer
                    ELSE {[e EXCEPT !.memberOf = {}] : e \in answer}
    /\ phase' = "answered"
    /\ UNCHANGED <<tables, request, raced>>

\* Bound: nothing is written once the search is over.
Write ==
    /\ \/ phase = "idle" /\ raced' = 0
       \/ phase = "read" /\ raced < MaxRaces /\ raced' = raced + 1
    /\ UNCHANGED <<phase, request, found>>

CreateBase == nextId = 1 /\ CreateEntryTx(BaseEntry) /\ Write

CreateEntry(d) ==
    /\ \E k \in ClassesAt[d], x \in Bodies[d] : CreateEntryTx(NewEntry(d, k, x))
    /\ Write

UpdateEntry(d) ==
    /\ Exists(d)
    /\ \E x \in Bodies[d] :
          UpdateEntryTx([LoadedEntry(d) EXCEPT !.attrs = x.attrs, !.members = x.members])
    /\ Write

DeleteEntry(d) == DeleteEntryTx(d) /\ Write

Next ==
    \/ \E q \in Requests : Refuse(q) \/ ReadEntries(q)
    \/ Answer
    \/ CreateBase
    \/ \E d \in DNs : CreateEntry(d) \/ UpdateEntry(d) \/ DeleteEntry(d)

Spec == Init /\ [][Next]_vars

----
(* Properties *)

\* What a filter is about: the entry with the groups it is in now.
Current(r) == Values(Projected(Scanned(r)))

Right == {r.dn : r \in {r \in entries : Meaning(request.filter, Current(r))}}

\* The DNs that are a number of steps below the base of the search, by parents in a set.
Within(dns, steps) ==
    LET At[n \in Nat] == IF n = 0 THEN {request.base} \cap dns
                         ELSE {d \in dns : Parent[d] \in At[n - 1]}
    IN  UNION {At[n] : n \in steps}

Meant ==
    CASE request.scope = "base" -> Within(DNs, {0})
      [] request.scope = "one" -> Within(DNs, {1})
      [] request.scope = "sub" -> Within(DNs, 0 .. Cardinality(DNs))

\* A subtree search from the base down does not get past an entry that is not there.
Reachable ==
    IF request.scope = "sub" THEN Within({r.dn : r \in entries}, 0 .. MaxDepth) ELSE Meant

\* The clause for the presence of a timestamp looks for it among the attributes, where it
\* never is; in memory every entry has both.
TimeUnseen(f) == AsksTime(f) /\ ~InMemory(f)

\* The compiled WHERE clause and Filter.Matches are two evaluations of one filter: they
\* agree on every entry, so that which of them a search uses is a matter of speed.  They
\* disagree only about the presence of a timestamp.
CompiledAgrees ==
    phase = "read" =>
       LET f == Parsed(request.filter)
       IN  (UsesSQL(f) /\ ~AsksTime(f)) =>
              \A r \in entries : Clause(f, Rows(r.id), <<r.class>>) <=> Matches(f, Current(r))

\* Whatever plan its filter takes, a search that no write interrupts answers with entries
\* that are within the scope and mean what the filter says, and with all of those it can
\* reach through parents that exist.  Entries that have lost a parent may be among them.
\* Not so of a filter on a timestamp that SQL evaluates.
SearchBounds ==
    (/\ phase = "answered" /\ raced = 0
     /\ Readable(request.filter) /\ ~TimeUnseen(Parsed(request.filter))) =>
       LET dns == {e.dn : e \in found}
       IN  dns \subseteq Right \cap Meant /\ Right \cap Reachable \subseteq dns

\* The groups shown with an entry are groups that entry was put in, also when its DN has
\* come to name another entry since the search read it.
ProjectedForSameEntry ==
    phase = "answered" =>
       \A e \in found : \A g \in e.memberOf : Exists(g) /\ IdOf(g) \in Reach(e.id)

\* Search supports substring filters: the answer to one is not missing an entry whose
\* value has the pieces.
SubstringsHonoured ==
    (phase = "answered" /\ raced = 0 /\ request.filter.op = "substrings") =>
       Right \cap Reachable \subseteq {e.dn : e \in found}

====
