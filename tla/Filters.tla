---- MODULE Filters ----
(***************************************************************************)
(* Search filters on their way from an LDAP request to an answer: the text *)
(* serializeFilter writes (internal/server/search.go), what ParseFilter    *)
(* reads in it (internal/schema/filter.go), and the two evaluations of the *)
(* result, Matches in memory and the compiled WHERE clause                 *)
(* (internal/schema/filter_compiler.go).                                   *)
(*                                                                         *)
(* A value is a sequence of letters: lower-cased ASCII, where SQLite and   *)
(* Go fold case alike.  What escaping preserves, an asterisk or a          *)
(* parenthesis in a value, is a letter like the others.  Ordering and      *)
(* approximate filters are left out.                                       *)
(***************************************************************************)
EXTENDS SequencesExt

CONSTANTS
    Wild,           \* the unescaped '*' of a filter's text
    Comparators     \* letters that stand for ">=", "<=" and "~=" in a value

\* ldapmsg.Filter and schema.Filter.  A substring filter has the pieces of the request
\* before it is read and a pattern, its value, after.
Equality(attr, value) == [op |-> "equality", attr |-> attr, value |-> value]
Present(attr) == [op |-> "present", attr |-> attr]
Substrings(attr, pieces) == [op |-> "substrings", attr |-> attr, pieces |-> pieces]
Pattern(attr, text) == [op |-> "pattern", attr |-> attr, value |-> text]
And(filters) == [op |-> "and", of |-> filters]
Or(filters) == [op |-> "or", of |-> filters]
Not(filter) == [op |-> "not", of |-> {filter}]

\* A comparison on an attribute name that holds a '=': no entry has it.
Misread == [op |-> "comparison"]

Compound(f) == f.op \in {"and", "or", "not"}

\* Columns of the entries table, and not in the attributes table.
Timestamps == {"createTimestamp", "modifyTimestamp"}

RECURSIVE AsksTime(_)
AsksTime(f) ==
    IF Compound(f) THEN \E g \in f.of : AsksTime(g)
    ELSE f # Misread /\ f.attr \in Timestamps

----
(* From the request to the parsed filter *)

\* serializeFilter: '*' follows an initial and an inner piece, none comes before the first.
SubstringText(pieces) ==
    FlattenSeq([i \in DOMAIN pieces |->
        IF pieces[i].kind = "final" THEN pieces[i].value ELSE Append(pieces[i].value, Wild)])

\* ParseFilter on attr=text.
ParsedAssertion(attr, text) ==
    CASE Range(text) \cap Comparators # {} -> Misread
      [] text = <<Wild>> -> Present(attr)
      [] text # <<Wild>> /\ Wild \in Range(text) -> Pattern(attr, text)
      [] OTHER -> Equality(attr, text)

\* An empty conjunction or disjunction is written as the empty string.
Vanishes(f) == f.op \in {"and", "or"} /\ f.of = {}

\* "(!)" is a parse error wherever it stands.
RECURSIVE Unparsable(_)
Unparsable(f) ==
    /\ Compound(f)
    /\ \/ f.op = "not" /\ \E g \in f.of : Vanishes(g)
       \/ \E g \in f.of : Unparsable(g)

RECURSIVE Reread(_)
Reread(f) ==
    CASE f.op = "equality" -> ParsedAssertion(f.attr, f.value)
      [] f.op = "present" -> ParsedAssertion(f.attr, <<Wild>>)
      [] f.op = "substrings" -> ParsedAssertion(f.attr, SubstringText(f.pieces))
      [] OTHER -> [f EXCEPT !.of = {Reread(g) : g \in {g \in f.of : ~Vanishes(g)}}]

\* handleSearch: the empty text asks for every entry.
Parsed(f) == IF Vanishes(f) THEN Present("objectClass") ELSE Reread(f)

----
(* Evaluation in memory: Filter.Matches *)

\* strings.Split at the wildcards.
Parts(pattern) ==
    FoldLeft(LAMBDA parts, c : IF c = Wild THEN Append(parts, <<>>)
                               ELSE Append(Front(parts), Append(Last(parts), c)),
             << <<>> >>, pattern)

Drop(s, n) == SubSeq(s, n + 1, Len(s))

\* What follows the leftmost occurrence of part: no value, or one.
After(value, part) ==
    LET starts == {i \in 0 .. Len(value) - Len(part) : IsPrefix(part, Drop(value, i))}
    IN  {Drop(value, Len(part) + i) : i \in {i \in starts : \A j \in starts : i <= j}}

InOrder(value, middle) ==
    FoldLeft(LAMBDA rest, part : UNION {After(v, part) : v \in rest}, {value}, middle) # {}

\* Mutant: the suffix may overlap the prefix.
MatchOverlapping(value, pattern) ==
    LET parts == Parts(pattern)
    IN  /\ IsPrefix(Head(parts), value)
        /\ IsSuffix(Last(parts), value)
        /\ InOrder(Drop(value, Len(Head(parts))), Front(Tail(parts)))

\* matchSubstring: the first part, the last in what follows it, the others between.
MatchSubstring(value, pattern) ==
    LET parts == Parts(pattern)
        rest == Drop(value, Len(Head(parts)))
    IN  /\ IsPrefix(Head(parts), value)
        /\ IsSuffix(Last(parts), rest)
        /\ InOrder(SubSeq(rest, 1, Len(rest) - Len(Last(parts))), Front(Tail(parts)))

\* values: the values of an attribute of the entry (filterAttributeValues).
RECURSIVE Matches(_, _)
Matches(f, values) ==
    CASE f.op = "equality" -> f.value \in values[f.attr]
      [] f.op = "present" -> values[f.attr] # {}
      [] f.op = "pattern" -> \E v \in values[f.attr] : MatchSubstring(v, f.value)
      [] f.op = "comparison" -> FALSE
      [] f.op = "and" -> \A g \in f.of : Matches(g, values)
      [] f.op = "or" -> \E g \in f.of : Matches(g, values)
      [] f.op = "not" -> \A g \in f.of : ~Matches(g, values)

----
(* Evaluation by SQLite *)

RECURSIVE CanCompileToSQL(_)
CanCompileToSQL(f) ==
    CASE Compound(f) -> \A g \in f.of : CanCompileToSQL(g)
      [] f.op = "comparison" -> FALSE
      [] OTHER -> f.attr # "memberOf"

\* CompileToSQL returns no error.
RECURSIVE Compiles(_)
Compiles(f) ==
    IF Compound(f) THEN \A g \in f.of : Compiles(g)
    ELSE ~(f.op = "pattern" /\ f.attr = "objectClass")

UsesSQL(f) == CanCompileToSQL(f) /\ Compiles(f)

\* SQLite's LIKE.
RECURSIVE Like(_, _)
Like(value, pattern) ==
    IF pattern = <<>> THEN value = <<>>
    ELSE \/ /\ Head(pattern) = Wild
            /\ \E n \in 0 .. Len(value) : Like(Drop(value, n), Tail(pattern))
         \/ /\ value # <<>> /\ Head(value) = Head(pattern)
            /\ Like(Tail(value), Tail(pattern))

\* rows: the values the attributes table has of an attribute; class: the object_class column.
RECURSIVE Clause(_, _, _)
Clause(f, rows, class) ==
    CASE f.op = "equality" ->
            IF f.attr = "objectClass" THEN f.value = class ELSE f.value \in rows[f.attr]
      [] f.op = "present" -> f.attr = "objectClass" \/ rows[f.attr] # {}
      [] f.op = "pattern" -> \E v \in rows[f.attr] : Like(v, f.value)
      [] f.op = "and" -> \A g \in f.of : Clause(g, rows, class)
      [] f.op = "or" -> \E g \in f.of : Clause(g, rows, class)
      [] f.op = "not" -> \A g \in f.of : ~Clause(g, rows, class)

\* FilterUsesComputedAttributes.
RECURSIVE UsesMemberOf(_)
UsesMemberOf(f) ==
    IF Compound(f) THEN \E g \in f.of : UsesMemberOf(g)
    ELSE f # Misread /\ f.attr = "memberOf"

\* MemberOfEqualityValue: the groups named, one at most.
MemberOfTargets(f) ==
    LET named == {g \in f.of : g.op = "equality" /\ g.attr = "memberOf"}
        users == Equality("objectClass", <<"inetOrgPerson">>)
    IN  CASE f.op = "equality" /\ f.attr = "memberOf" -> {f.value}
          [] f.op = "and" /\ f.of \subseteq named \cup {users} ->
                IF Cardinality({g.value : g \in named}) = 1 THEN {g.value : g \in named} ELSE {}
          [] OTHER -> {}

\* SimpleAttributeEquality.
SimpleEquality(f) == f.op = "equality" /\ f.attr \notin {"memberOf", "objectClass"}

----
(* What the filter of a request means *)

Wildcards(pieces) ==
    (IF pieces[1].kind = "initial" THEN <<>> ELSE <<Wild>>) \o SubstringText(pieces)

RECURSIVE Meaning(_, _)
Meaning(f, values) ==
    CASE f.op = "equality" -> f.value \in values[f.attr]
      [] f.op = "present" -> values[f.attr] # {}
      [] f.op = "substrings" -> \E v \in values[f.attr] : Like(v, Wildcards(f.pieces))
      [] f.op = "and" -> \A g \in f.of : Meaning(g, values)
      [] f.op = "or" -> \E g \in f.of : Meaning(g, values)
      [] f.op = "not" -> \A g \in f.of : ~Meaning(g, values)

\* The requests whose text says what they mean.
RECURSIVE Readable(_)
Readable(f) ==
    CASE Compound(f) -> \A g \in f.of : ~Vanishes(g) /\ Readable(g)
      [] f.op = "equality" -> Range(f.value) \cap Comparators = {}
      [] f.op = "substrings" ->
            /\ f.pieces[1].kind = "initial"
            /\ Range(SubstringText(f.pieces)) \cap Comparators = {}
      [] OTHER -> TRUE

====
