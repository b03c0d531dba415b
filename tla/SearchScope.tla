---- MODULE SearchScope ----
(***************************************************************************)
(* What the store takes for the entries within the scope of a search: by   *)
(* the DN alone, for its fast paths, or by walking the tree down from the  *)
(* base (internal/store/sqlite_search.go, internal/ldapdn).                *)
(***************************************************************************)
EXTENDS GroupMembership

Scopes == {"base", "one", "sub"}

ParentDN(d) == IF d = BaseDN THEN NoDN ELSE Parent[d]

\* ldapdn.WithinBase, by the DNs alone.
Below(base) ==
    LET Within[n \in Nat] ==
            IF n = 0 THEN {base}
            ELSE UNION {{a} \cup {d \in DNs : Parent[d] = a} : a \in Within[n - 1]}
    IN  Within[Cardinality(DNs)]

\* Mutant: one level includes the base.
InScopeAndBase(r, base, scope) ==
    CASE scope = "base" -> r.dn = base
      [] scope = "one" -> r.dn = base \/ ParentDN(r.dn) = base
      [] scope = "sub" -> r.dn \in Below(base)

\* entryInSearchScope.
InScope(r, base, scope) ==
    CASE scope = "base" -> r.dn = base
      [] scope = "one" -> ParentDN(r.dn) = base
      [] scope = "sub" -> r.dn \in Below(base)

\* The recursive query of a subtree search: from the entry of the base down, by parent.
Levels(base) ==
    LET Level[n \in Nat] ==
            IF n = 0 THEN {r \in entries : r.dn = base}
            ELSE UNION {{r \in entries : ParentDN(r.dn) = s.dn} : s \in Level[n - 1]}
    IN  Level

Subtrees(base) == UNION {Levels(base)[n] : n \in 0 .. MaxDepth}

\* searchEntriesQuery, before its filter.
Candidates(base, scope) ==
    IF scope = "sub" THEN Subtrees(base)
    ELSE {r \in entries : InScope(r, base, scope)}

====
