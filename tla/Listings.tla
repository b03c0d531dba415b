---- MODULE Listings ----
(***************************************************************************)
(* The lists of the web server, read page by page while others write:      *)
(* GET /scim/v2/Users and /Groups (internal/scim), the directory search    *)
(* and the directory of the JSON API (internal/web/handlers/api.go).       *)
(* Nothing is kept between pages: each request searches, sorts and cuts    *)
(* anew.  What a SCIM answer shows of each entry is in HttpServer.         *)
(***************************************************************************)
EXTENDS SearchScope

CONSTANTS
    TextOrder,      \* the DNs in the order of their lower-cased text
    Walks,          \* bound: what clients ask for
    Seed,           \* the entries there are at the start
    MaxWrites,      \* bound: the writes meanwhile
    MaxInt,         \* the largest int: 2^63 - 1 on the platforms it is built for
    MaxCount,       \* the SCIM count above which it is cut: 200 in the code
    MaxPageSize,    \* the largest pageSize of the API: 100 in the code
    NoQuery, NoWalk

\* first is a startIndex for SCIM and a page number for the API.
WalkTypes == [route : {"scim", "search", "directory"}, class : Classes \cup {"any"},
              query : DNs \cup {NoQuery}, first : 1 .. MaxInt, size : 0 .. MaxInt]

\* Only the directory search takes a query, and the directory is of every class.
ASSUME ListingsAssumption ==
    /\ TextOrder \in Seq(DNs) /\ Range(TextOrder) = DNs /\ IsInjective(TextOrder)
    /\ NoQuery \notin DNs
    /\ Walks \subseteq WalkTypes /\ NoWalk \notin Walks
    /\ \A w \in Walks : /\ w.route # "search" => w.query = NoQuery
                        /\ w.route = "directory" => w.class = "any"
    /\ SeedOK(Seed)
    /\ MaxInt \in Nat /\ MaxCount \in Nat /\ MaxPageSize \in Nat
    /\ Len(TextOrder) <= MaxInt        \* the length of a slice is an int

VARIABLES
    walk,           \* what the client is going through
    position,       \* the startIndex or the page it asks for next
    classes,        \* the directory: the classes still to list
    phase,          \* "idle", "search", "project", "ended"
    rows,           \* the entries in memory
    answer,         \* the last response
    shown,          \* the DNs the client has seen, in order
    left, joined,   \* history: the DNs that left and joined what is listed, since the walk began
    writes

client == <<walk, position, classes, shown>>
vars == <<tables, client, phase, rows, answer, left, joined, writes>>

NoAnswer == [code |-> "none", entries |-> << >>, total |-> 0]

Init ==
    /\ SeededTables(Seed)
    /\ walk = NoWalk /\ position = 0 /\ classes = << >> /\ shown = << >>
    /\ phase = "idle" /\ rows = {} /\ answer = NoAnswer
    /\ left = {} /\ joined = {} /\ writes = 0

----
(* What is listed *)

\* The text of a DN is part of the text of every DN below it.
Mentions(d, q) == d \in Below(q)

\* Mutant: the class is not asked for.
OfAnyClass(class) == Subtrees(BaseDN)

OfClass(class) == {r \in Subtrees(BaseDN) : class \in {"any", r.class}}

\* scanEntriesWithAttributes: what a row says in the first statement.
Scanned(r) == [id |-> r.id, dn |-> r.dn, class |-> r.class, members |-> LoadedEntry(r.dn).members]

InTree(class) == {Scanned(r) : r \in OfClass(class)}

\* populateMemberOf, then matchesDirectoryQuery for the text of a DN.
Matches(r, q) ==
    \/ q = NoQuery \/ Mentions(r.dn, q)
    \/ \E d \in r.members \cup (IF r.class = "inetOrgPerson" THEN MemberOfId(r.id) ELSE {}) :
          Mentions(d, q)

Matching(rs, q) == {r \in rs : Matches(r, q)}

\* Mutant: in the order the rows come in.
AsRead(rs) ==
    LET ids == {r.id : r \in rs}
        byId == SelectSeq([i \in Ids |-> i], LAMBDA i : i \in ids)
    IN  [n \in DOMAIN byId |-> (CHOOSE r \in rs : r.id = byId[n]).dn]

\* sort.Slice by lower-cased DN.
Sorted(rs) ==
    LET dns == {r.dn : r \in rs}
        First[n \in 0 .. Len(TextOrder)] ==
            IF n = 0 THEN << >>
            ELSE First[n - 1] \o (IF TextOrder[n] \in dns THEN <<TextOrder[n]>> ELSE << >>)
    IN  First[Len(TextOrder)]

----
(* Pages *)

\* An int holds numbers up to MaxInt, and goes on from the other end.
Wrapped(n) ==
    LET m == n % (2 * (MaxInt + 1)) IN IF m > MaxInt THEN m - 2 * (MaxInt + 1) ELSE m

\* Mutant: pages count from zero.
OffsetFromZero(page, size) == Wrapped(page * size)

Offset(page, size) == Wrapped((page - 1) * size)

\* DirectorySearch: a negative index makes the slice fail, and net/http closes the connection.
ApiPage(list, page, size) ==
    LET start == Min({Offset(page, size), Len(list)})
    IN  IF start < 0 THEN [NoAnswer EXCEPT !.code = "closed"]
        ELSE [code |-> "ok", total |-> Len(list),
              entries |-> SubSeq(list, start + 1, Min({start + size, Len(list)}))]

\* pageEntries.
ScimPage(list, start, size) ==
    [code |-> "ok", total |-> Len(list),
     entries |-> IF size = 0 \/ start > Len(list) THEN << >>
                 ELSE SubSeq(list, start, Min({start - 1 + size, Len(list)}))]

PageSize(w) == IF w.route = "scim" THEN Min({w.size, MaxCount}) ELSE w.size

PageOf(list) ==
    CASE walk.route = "scim" -> ScimPage(list, position, PageSize(walk))
      [] walk.route = "search" -> ApiPage(list, position, walk.size)
      [] walk.route = "directory" -> [code |-> "ok", total |-> Len(list), entries |-> list]

----
(* Requests *)

\* What the client asks for after an answer, or 0 at the end.
NextPosition(a) ==
    LET n == Len(a.entries)
        next == IF walk.route = "scim" THEN position + n ELSE position + 1
        more == IF walk.route = "scim" THEN n > 0 /\ next <= a.total
                ELSE position * walk.size < a.total
    IN  IF a.code = "ok" /\ walk.route # "directory" /\ more THEN next ELSE 0

\* The classes of the directory's three searches.
DirectoryClasses == <<"inetOrgPerson", "groupOfNames", "organizationalUnit">>

\* parsePagination refuses a pageSize beyond its limits.
Refuses(w) == w.route = "search" /\ w.size \notin 1 .. MaxPageSize

Begin(w) ==
    /\ phase = "idle"
    /\ walk' = w /\ position' = w.first /\ shown' = << >>
    /\ classes' = IF w.route = "directory" THEN DirectoryClasses ELSE <<w.class>>
    /\ IF Refuses(w) THEN phase' = "ended" /\ answer' = [NoAnswer EXCEPT !.code = "badRequest"]
       ELSE phase' = "search" /\ answer' = NoAnswer
    /\ left' = {} /\ joined' = {}
    /\ UNCHANGED <<tables, rows, writes>>

\* SearchEntriesWithOptions, its first statement.  SCIM asks for no memberOf.
Search ==
    /\ phase = "search"
    /\ rows' = InTree(Head(classes))
    /\ phase' = "project"
    /\ UNCHANGED <<tables, client, answer, left, joined, writes>>

\* Its second statement, and the rest of the handler.
Answer ==
    /\ phase = "project"
    /\ answer' = PageOf(Sorted(Matching(rows, walk.query)))
    /\ shown' = shown \o answer'.entries
    /\ position' = NextPosition(answer')
    /\ IF walk.route = "directory" /\ Len(classes) > 1
       THEN classes' = Tail(classes) /\ phase' = "search"
       ELSE UNCHANGED classes /\ phase' = IF position' = 0 THEN "ended" ELSE "search"
    /\ rows' = {}
    /\ UNCHANGED <<tables, walk, left, joined, writes>>

----
(* Others meanwhile *)

\* The DNs a walk lists, and in which list.
Listed(w) ==
    IF w = NoWalk THEN {}
    ELSE {<<r.dn, r.class>> : r \in Matching(InTree(w.class), w.query)}

DNsIn(pairs) == {p[1] : p \in pairs}

\* An entry in memory that does not match the query and goes from the tree may still match
\* it, by rows of group_members that stay: the client may be shown what was never listed.
Stray ==
    {r.dn : r \in rows \ (Matching(rows, walk.query) \cup InTree(Head(classes))')}

Others(write) ==
    /\ writes < MaxWrites /\ phase \in {"search", "project"}
    /\ write
    /\ writes' = writes + 1
    /\ UNCHANGED <<client, phase, rows, answer>>
    /\ left' = left \cup DNsIn(Listed(walk) \ Listed(walk)') \cup Stray
    /\ joined' = joined \cup DNsIn(Listed(walk)' \ Listed(walk)) \cup Stray

Next ==
    \/ \E w \in Walks : Begin(w)
    \/ Search \/ Answer
    \/ \E d \in DNs : Others(DeleteEntryTx(d))
    \/ \E d \in DNs : \E k \in ClassesAt[d] : \E x \in Contents(k) :
          Others(CreateEntryTx(NewEntry(d, k, x)))

Spec == Init /\ [][Next]_vars

----
(* Properties *)

Before(x, y) ==
    \E i, j \in DOMAIN TextOrder : i < j /\ TextOrder[i] = x /\ TextOrder[j] = y

\* The place of a DN among those of a set.
Rank(d, dns) == Cardinality({x \in dns : x = d \/ Before(x, d)})

Times(d) == Cardinality({i \in DOMAIN shown : shown[i] = d})

\* A client that goes through the pages from the first to the last sees an entry that is
\* listed all the time, unless one before it left meanwhile, and sees it once, unless one
\* before it joined.  A stray before it may do either.
WalkShowsAll ==
    (/\ phase = "ended" /\ walk.route # "directory" /\ walk.first = 1
     /\ answer.code = "ok" /\ PageSize(walk) > 0) =>
        \A d \in DNsIn(Listed(walk)) \ (left \cup joined) :
            /\ Times(d) = 0 => \E x \in left : Before(x, d)
            /\ Times(d) > 1 => \E x \in joined : Before(x, d)

\* The directory makes three searches.  An entry that is there all the time is in one list,
\* once; one shown in two lists was replaced, between two searches, by one of another class.
DirectoryShowsOnce ==
    (phase = "ended" /\ walk.route = "directory") =>
        \A d \in DNs :
            /\ (d \in DNsIn({p \in Listed(walk) : p[2] # "top"}) /\ d \notin left \cup joined)
                 => Times(d) = 1
            /\ Times(d) > 1 => d \in left \cap joined

\* What is in memory is listed from 1 on; a page of the API is the entries numbered from
\* (page - 1) * size + 1 to page * size, a page of SCIM those from startIndex on, as far as
\* they go.  Only if (page - 1) * size is more than an int holds may it be anything else, or
\* nothing: then the client may be left without an answer.
PagesAsAsked ==
    [][(phase = "project" /\ phase' # "project" /\ walk.route # "directory") =>
        \A matching \in {{r.dn : r \in Matching(rows, walk.query)}} :
        \A from \in {IF walk.route = "scim" THEN position
                     ELSE (position - 1) * walk.size + 1} :
            LET page == {d \in matching : Rank(d, matching) \in from .. from + PageSize(walk) - 1}
            IN  from - 1 > MaxInt \/ (/\ answer'.code = "ok"
                                      /\ Range(answer'.entries) = page
                                      /\ answer'.total = Cardinality(matching))]_vars

====
