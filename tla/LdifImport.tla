---- MODULE LdifImport ----
(***************************************************************************)
(* ldaplite import ldif and export ldif (cmd/ldaplite, internal/ldif).     *)
(* The import is a process of its own, beside the server that writes to    *)
(* the same database: PlanImport looks every record up in the store before *)
(* anything is written, and ApplyImport then writes the entries one by     *)
(* one, in an order it chose, each in a transaction of its own.            *)
(*                                                                         *)
(* The file has been read: it is a sequence of records.  A password in it  *)
(* is named by the hash it becomes.                                        *)
(***************************************************************************)
EXTENDS SearchScope

CONSTANTS
    Files,          \* bound: the files there are to import, sequences of records
    Generated,      \* a password generatePassword makes
    Seed,           \* the entries there are at the start
    MaxRuns,        \* bound: how often the operator runs the command
    MaxWrites       \* bound: the writes of the server meanwhile

\* A record, with its objectClass values, passwords and protected attributes as they are.
IsRecord(r) ==
    /\ r.dn \in DNs /\ r.attrs \subseteq Attrs
    /\ r.members \subseteq DNs /\ IsFiniteSet(r.members)

ASSUME LdifAssumption ==
    /\ Generated \in Passwords
    /\ \A f \in Files : f \in Seq(Range(f)) /\ \A i \in DOMAIN f : IsRecord(f[i])
    /\ SeedOK(Seed)

VARIABLES
    file,           \* the records
    options,        \* the flags of the run
    phase,          \* where it is, and in the end how it ended
    lookups,        \* what PlanImport still has to look up
    plan,           \* the entries ApplyImport still has to write
    runs, writes,   \* how many so far
    before,         \* history: the directory when the run began
    written,        \* history: the entries this run has written
    raced,          \* history: the DNs the server has written since the run began
    broken,         \* history: a call of this run to the store failed
    resumes         \* history: this run follows one that stopped halfway, and nobody wrote since

job == <<options, phase, lookups, plan>>
history == <<before, written, raced, broken, resumes>>
vars == <<tables, file, job, runs, writes, history>>

Options == [replace : BOOLEAN, generate : BOOLEAN, dryRun : BOOLEAN]

----
(* PlanImport: from a record to an entry *)

Structural(r) == r.classes \ {"top"}

\* primaryObjectClass: one supported class besides top; top alone for the base.
ClassFits(r) ==
    /\ r.classes # {} /\ r.classes \subseteq Classes
    /\ IF Structural(r) = {} THEN r.dn = BaseDN ELSE Cardinality(Structural(r)) = 1

PrimaryClass(r) == IF Structural(r) = {} THEN "top" ELSE CHOOSE k \in Structural(r) : TRUE

IsUser(r) == PrimaryClass(r) = "inetOrgPerson"

PasswordFits(r, o) ==
    IF ~IsUser(r) THEN r.passwords = {}
    ELSE IF r.passwords = {} THEN o.generate
    ELSE Cardinality(r.passwords) = 1 /\ r.passwords \subseteq Passwords

PasswordOf(r) ==
    IF ~IsUser(r) THEN NoPassword
    ELSE IF r.passwords = {} THEN Generated ELSE CHOOSE p \in r.passwords : TRUE

EntryOf(r) ==
    NewEntry(r.dn, PrimaryClass(r),
             [attrs |-> r.attrs, members |-> r.members, password |-> PasswordOf(r)])

\* entryFromRecord, with validateModel.
RecordFits(r, o) ==
    /\ WithinBase(r.dn)
    /\ ClassFits(r) /\ PasswordFits(r, o)
    /\ ~r.protected
    /\ ValidForClass(EntryOf(r))

Batch(f) == {f[i].dn : i \in DOMAIN f}

\* No DN twice, and every record makes an entry.
FileFits(f, o) ==
    /\ Cardinality(Batch(f)) = Len(f)
    /\ \A i \in DOMAIN f : RecordFits(f[i], o)

EntriesOf(f) == [i \in DOMAIN f |-> EntryOf(f[i])]

----
(* PlanImport: what it looks up, and the order of the writes *)

\* Some order of a set.
Listing(S) == CHOOSE s \in [1 .. Cardinality(S) -> S] : Range(s) = S

Lookup(what, e, d) == [what |-> what, entry |-> e, dn |-> d]

\* The DNs an entry needs: its parent, and a group its members.
Needs(e) ==
    (IF e.dn = BaseDN THEN {} ELSE {e.parent})
        \cup (IF e.class = "groupOfNames" THEN e.members ELSE {})

\* validateExistingEntry, validateParent, validateGroupMembers.
LookupsOf(e, batch) ==
    <<Lookup("entry", e, e.dn)>>
        \o Listing({Lookup("needed", e, d) : d \in Needs(e) \ batch})

AllLookups(f) == FlattenSeq([i \in DOMAIN f |-> LookupsOf(EntryOf(f[i]), Batch(f))])

\* Mutant: members are not waited for.
ParentReady(e, batch, done) == {e.parent} \cap batch \subseteq done

\* dependenciesSatisfied.
Ready(e, batch, done) ==
    ({e.parent} \cup (IF e.class = "groupOfNames" THEN e.members ELSE {})) \cap batch
        \subseteq done

DNsOf(es) == {es[i].dn : i \in DOMAIN es}

PassOver(e, batch, ordered) ==
    IF e.dn \notin DNsOf(ordered) /\ Ready(e, batch, DNsOf(ordered))
    THEN Append(ordered, e) ELSE ordered

\* One pass over the entries that remain, in the order of the file.
Pass(es, ordered) ==
    LET after[n \in 0 .. Len(es)] ==
            IF n = 0 THEN ordered ELSE PassOver(es[n], DNsOf(es), after[n - 1])
    IN  after[Len(es)]

\* Mutant: a single pass.
OrderOnce(es) == Pass(es, << >>)

\* orderEntries: passes until one adds nothing.
Order(es) ==
    LET passes[n \in Nat] == IF n = 0 THEN << >> ELSE Pass(es, passes[n - 1])
    IN  passes[Len(es)]

Ordered(es) == Len(Order(es)) = Len(es)

----
(* BuildExportRecords *)

\* dnDepth: one for each component of the DN.
Depth == [d \in DNs |-> Cardinality({x \in DNs : d \in Below(x)})]

\* recordFromEntry, without flags: no password, no entryUUID, no memberOf.
RecordOf(r) ==
    [dn |-> r.dn, classes |-> {r.class}, attrs |-> LiveEntry(r).attrs,
     members |-> LiveEntry(r).members, passwords |-> {}, protected |-> FALSE]

\* By depth, then by DN.
Export ==
    LET rows == Subtrees(BaseDN)
        level(n) == {RecordOf(r) : r \in {r \in rows : Depth[r.dn] = n}}
    IN  FlattenSeq([n \in 1 .. Cardinality(DNs) |-> Listing(level(n))])

----
(* The command *)

Ended == {"none", "refused", "dry", "failed", "done"}

Init ==
    /\ SeededTables(Seed)
    /\ file \in Files
    /\ options = [replace |-> FALSE, generate |-> FALSE, dryRun |-> FALSE]
    /\ phase = "none" /\ lookups = << >> /\ plan = << >>
    /\ runs = 0 /\ writes = 0
    /\ before = LiveEntries /\ written = {} /\ raced = {} /\ broken = FALSE
    /\ resumes = FALSE

\* A run that stopped halfway because a call failed, with nobody else writing.
Resumable == phase = "failed" /\ broken /\ raced = {}

\* runImportLDIF, as far as it needs no store.
Start(o) ==
    /\ phase \in Ended /\ runs < MaxRuns
    /\ runs' = runs + 1
    /\ options' = o
    /\ IF FileFits(file, o) THEN phase' = "checking" /\ lookups' = AllLookups(file)
       ELSE phase' = "refused" /\ lookups' = << >>
    /\ plan' = << >>
    /\ before' = LiveEntries /\ written' = {} /\ raced' = {} /\ broken' = FALSE
    /\ resumes' = Resumable
    /\ UNCHANGED <<tables, file, writes>>

Continue(next, todo, rest) ==
    /\ phase' = next /\ lookups' = todo /\ plan' = rest
    /\ UNCHANGED <<options, file, runs, writes, before, raced, resumes>>

Stop(how) == Continue(how, << >>, << >>)

\* Mutant: the class of the entry there is not compared.
FoundUncompared(l) ==
    CASE l.what = "entry" -> Exists(l.dn) => options.replace
      [] l.what = "needed" -> Exists(l.dn)
      [] l.what = "class" -> TRUE

\* EntryExists; GetEntryWithOptions, which finds nothing if the entry is gone by then.
Found(l) ==
    CASE l.what = "entry" -> Exists(l.dn) => options.replace
      [] l.what = "needed" -> Exists(l.dn)
      [] l.what = "class" -> Exists(l.dn) => RowAt(l.dn).class = l.entry.class

\* One lookup.  For an entry that is there, the next one reads its class.
Check ==
    /\ phase = "checking" /\ lookups # << >>
    /\ LET l == Head(lookups)
           more == IF l.what = "entry" /\ Exists(l.dn)
                   THEN <<Lookup("class", l.entry, l.dn)>> ELSE << >>
       IN  IF Found(l) THEN Continue("checking", more \o Tail(lookups), << >>)
           ELSE Stop("refused")
    /\ UNCHANGED <<tables, written, broken>>

\* ReplaceExisting decides entry by entry whether to create or to update.
FirstMove(o) == IF o.replace THEN "deciding" ELSE "creating"

AfterPlan(es) ==
    IF options.dryRun THEN Stop("dry")
    ELSE IF es = << >> THEN Stop("done")
    ELSE Continue(FirstMove(options), << >>, es)

OrderPlan ==
    /\ phase = "checking" /\ lookups = << >>
    /\ IF Ordered(EntriesOf(file)) THEN AfterPlan(Order(EntriesOf(file))) ELSE Stop("refused")
    /\ UNCHANGED <<tables, written, broken>>

\* Mutant: what is there is not updated.
CreateAlways(e) == "creating"

MoveFor(e) == IF Exists(e.dn) THEN "updating" ELSE "creating"

\* ApplyImport's EntryExists.
Decide ==
    /\ phase = "deciding"
    /\ Continue(MoveFor(Head(plan)), << >>, plan)
    /\ UNCHANGED <<tables, written, broken>>

Wrote ==
    /\ written' = written \cup {Head(plan)}
    /\ IF Len(plan) = 1 THEN Stop("done") ELSE Continue(FirstMove(options), << >>, Tail(plan))

\* The first entry the store refuses ends the import.  What it has written stays.
Create ==
    /\ phase = "creating"
    /\ \/ CreateEntryTx(Head(plan)) /\ Wrote
       \/ ~CanCreate(Head(plan)) /\ Continue("failed", << >>, plan) /\ UNCHANGED <<tables, written>>
    /\ UNCHANGED broken

Update ==
    /\ phase = "updating"
    /\ \/ UpdateEntryTx(Head(plan)) /\ Wrote
       \/ ~CanUpdate(Head(plan)) /\ Continue("failed", << >>, plan) /\ UNCHANGED <<tables, written>>
    /\ UNCHANGED broken

\* A call to the store fails, SQLite being busy, or the process is killed.
StoreFails ==
    /\ phase \notin Ended
    /\ broken' = TRUE
    /\ Continue(IF phase = "checking" THEN "refused" ELSE "failed", << >>, plan)
    /\ UNCHANGED <<tables, written>>

\* The server meanwhile.
ServerWrites(d) ==
    /\ writes < MaxWrites
    /\ \/ \E k \in ClassesAt[d] : \E x \in Contents(k) : CreateEntryTx(NewEntry(d, k, x))
       \/ Exists(d) /\ \E e \in Changed(LoadedEntry(d)) : UpdateEntryTx(e)
       \/ DeleteEntryTx(d)
    /\ writes' = writes + 1
    /\ raced' = raced \cup {d}
    /\ UNCHANGED <<file, job, runs, before, written, broken, resumes>>

Next ==
    \/ \E o \in Options : Start(o)
    \/ Check \/ OrderPlan \/ Decide \/ Create \/ Update \/ StoreFails
    \/ \E d \in DNs : ServerWrites(d)

Spec == Init /\ [][Next]_vars

----
(* Properties *)

\* The directory and the entries laid over it: those there were keep their entryUUID.
Overlaid(dir, es) ==
    [d \in DOMAIN dir \cup {e.dn : e \in es} |->
        IF \E e \in es : e.dn = d
        THEN LET e == CHOOSE x \in es : x.dn = d
             IN  [class |-> e.class, attrs |-> e.attrs, members |-> e.members,
                  password |-> e.password,
                  uuid |-> IF d \in DOMAIN dir THEN dir[d].uuid ELSE LiveEntries[d].uuid]
        ELSE dir[d]]

IsOverlay ==
    /\ DOMAIN LiveEntries = DOMAIN before \cup {e.dn : e \in written}
    /\ LiveEntries = Overlaid(before, written)

\* At every moment of an import nobody races, stopped halfway or not, dry or not, the
\* directory is the one it began with and over it, whole, the entries written so far: no
\* other entry has changed, no class has, and no entryUUID.  All of the file is in at the end.
ImportIsOverlay ==
    raced = {} => IsOverlay /\ (phase = "done" => written = Range(EntriesOf(file)))

\* A plan names the parent of the base entry, which the store does not create with one.
BaseMissing == Head(plan).dn = BaseDN /\ ~Exists(BaseDN)

\* What PlanImport accepts, the store accepts, in the order of the plan: an entry is refused
\* only if the server has written it, its parent or a member of it since the run began, or
\* if it is the base entry and there is none.
PlanHonoured ==
    (phase = "failed" /\ ~broken) =>
        ({Head(plan).dn} \cup Needs(Head(plan))) \cap raced # {} \/ BaseMissing

\* There is no transaction over an import, so it may stop halfway.  Running it again with
\* --replace-existing is then neither refused nor stopped by what the first run has left.
RerunCompletes ==
    (resumes /\ options.replace /\ options.generate /\ raced = {} /\ ~broken)
        => phase # "refused" /\ (phase = "failed" => BaseMissing)

\* PlanImport accepts the file in a directory that holds nothing but its base.
PlannedAfresh(f) ==
    /\ FileFits(f, [replace |-> TRUE, generate |-> TRUE, dryRun |-> FALSE])
    /\ \A l \in Range(AllLookups(f)) :
          CASE l.what = "needed" -> l.dn = BaseDN
            [] l.what = "entry" -> l.dn = BaseDN => l.entry.class = "top"
    /\ Ordered(EntriesOf(f))

\* What the exported entries need, at once or in the end.
NeedsOf(rows) == UNION {{r.dn} \X Needs(EntryOf(RecordOf(r))) : r \in rows}
InTheEnd(needs, d) ==
    LET Within[n \in Nat] ==
            IF n = 0 THEN {d}
            ELSE LET nearer == Within[n - 1]
                 IN  nearer \cup {p[2] : p \in {p \in needs : p[1] \in nearer}}
    IN  {p[2] : p \in {p \in needs : p[1] \in Within[Cardinality(DNs)]}}

\* An export can be imported into a new directory exactly when its entries are valid, the
\* members they list are exported too, and no entry needs itself: no group is a member of
\* itself or of a group it holds, and none lists an entry below it.  The store keeps to
\* none of this.
ExportImportable ==
    LET rows == Subtrees(BaseDN)
        needs == NeedsOf(rows)
    IN  PlannedAfresh(Export) <=>
          /\ \A r \in rows : ValidForClass(LoadedEntry(r.dn))
          /\ \A p \in needs : \E r \in rows : r.dn = p[2]
          /\ \A r \in rows : r.dn \notin InTheEnd(needs, r.dn)

----
(* The inductive invariant *)

Planned == Range(EntriesOf(file))

AsPlanned ==
    /\ file \in Files /\ options \in Options
    /\ phase \in Ended \cup {"checking", "deciding", "creating", "updating"}
    /\ phase \notin {"none", "refused"} => FileFits(file, options)
    /\ raced \subseteq DNs
    /\ broken \in BOOLEAN /\ resumes \in BOOLEAN

\* What a lookup says of the directory stays true of a DN the server does not write.
Untouched(d, fact) == d \in raced \/ fact
ClassKept(e) == Exists(e.dn) => RowAt(e.dn).class = e.class

Pending(what, e, d) == Lookup(what, e, d) \in Range(lookups)

\* PlanImport has written nothing, and what it has looked up it has found.
CheckedSoFar ==
    phase = "checking" =>
        /\ lookups \in Seq(Range(lookups)) /\ written = {}
        /\ \A l \in Range(lookups) :
              /\ l.what \in {"entry", "class", "needed"}
              /\ l = Lookup(l.what, l.entry, l.dn)
              /\ l.entry \in Planned
              /\ IF l.what = "needed" THEN l.dn \in Needs(l.entry) \ Batch(file)
                 ELSE l.dn = l.entry.dn
        /\ \A e \in Planned :
              \/ Pending("entry", e, e.dn)
              \/ /\ Untouched(e.dn, Exists(e.dn) => options.replace)
                 /\ Pending("class", e, e.dn) \/ Untouched(e.dn, ClassKept(e))
        /\ \A e \in Planned : \A d \in Needs(e) \ Batch(file) :
              Pending("needed", e, d) \/ Untouched(d, Exists(d))

Working == phase \in {"deciding", "creating", "updating"}

\* What is left of the plan is what is not written, each entry after those it needs.
PlanOrdered ==
    Working \/ phase = "failed" =>
        /\ Ordered(EntriesOf(file))
        /\ plan \in Seq(Planned) /\ plan # << >>
        /\ Planned = written \cup Range(plan)
        /\ \A i, j \in DOMAIN plan : plan[i].dn = plan[j].dn => i = j
        /\ \A e \in written : \A i \in DOMAIN plan : e.dn # plan[i].dn
        /\ \A i \in DOMAIN plan : \A d \in Needs(plan[i]) :
              Untouched(d, Exists(d)) \/ \E j \in 1 .. i - 1 : plan[j].dn = d

\* The classes and the entries outside the file that PlanImport found.
FileStands ==
    \A e \in Planned :
        /\ Untouched(e.dn, ClassKept(e))
        /\ \A d \in Needs(e) \ Batch(file) : Untouched(d, Exists(d))

\* What PlanImport found still holds.
PlanStands ==
    Working \/ phase = "failed" =>
        /\ \A i \in DOMAIN plan :
              Untouched(plan[i].dn, Exists(plan[i].dn) => options.replace)
        /\ FileStands

\* ApplyImport's own look at the entry: there to update it, not there to create it.
MoveStands ==
    /\ phase = "creating" => Untouched(Head(plan).dn, ~Exists(Head(plan).dn))
    /\ phase = "updating" => Untouched(Head(plan).dn, Exists(Head(plan).dn))

Overlay ==
    /\ phase = "done" => written = Planned
    /\ phase # "none" => written \subseteq Planned
    /\ phase \in {"none", "refused"} => written = {}
    /\ raced = {} => IsOverlay

\* A run that follows one that stopped halfway finds what that one had found.
ResumedFits ==
    resumes /\ raced = {} =>
        /\ FileFits(file, [options EXCEPT !.generate = TRUE])
        /\ Ordered(EntriesOf(file))
        /\ \A e \in Planned : ClassKept(e) /\ \A d \in Needs(e) \ Batch(file) : Exists(d)

ImportInv ==
    /\ TablesInv
    /\ AsPlanned
    /\ CheckedSoFar
    /\ PlanOrdered
    /\ PlanStands
    /\ MoveStands
    /\ Overlay
    /\ ResumedFits
    /\ PlanHonoured
    /\ RerunCompletes

====
