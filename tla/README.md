# A TLA+ development of LDAPLite

LDAPLite is a small LDAP directory server in Go: entries live in SQLite, clients
reach them over LDAP, and a web server in the same process offers an admin UI, a
JSON API and SCIM over the same store. This directory holds TLA+ models of the
parts of it where order, concurrency and failure matter, the TLC configurations
that check them on small instances, and proofs that TLAPS checks for every value
of the constants. `PROJECT.json` maps each definition to the lines it stands for;
this file says what the models are and what the results mean.

## Inventory

| Part | State it keeps | Operations | Hard part |
|---|---|---|---|
| SQLite entry store (`internal/store/sqlite_entries.go`, `sqlite_membership.go`) | tables `entries`, `attributes`, `users`, `groups`, `organizational_units`, `group_members` | `CreateEntry`, `UpdateEntry`, `DeleteEntry`, `GetEntry`, `EntryExists` | each is one transaction, but callers read in one and write in another; foreign keys are declared and not enforced |
| Membership (`sqlite_membership.go`, `sqlite_search.go`) | none: recursive queries over `group_members` | `IsUserInGroup`, `populateMemberOf`, the memberOf search | cycles, the depth limit, rows of deleted entries, three queries with three different joins |
| Initialization (`sqlite_init.go`, `migrations/`) | the database file, golang-migrate's version and dirty mark | `Initialize`, `initializeDatabase` | a process that dies half way, two processes on one file |
| Search and filters (`sqlite_search.go`, `internal/schema/filter.go`, `filter_compiler.go`) | none | `SearchEntries`, `ParseFilter`, `Matches`, the filter compiler | four plans for one filter, two of them past the tree; two statements for one answer |
| LDAP handlers (`internal/server`) | per connection: bound, boundDN | Bind, Unbind, Search, Add, Modify, Delete, Compare, Extended (WhoAmI, StartTLS) | several store calls per handler, no lock around them |
| Authorization (`internal/authz`) | none: decided from the store | capabilities for LDAP and web | decided before the write it allows |
| Connection and transport (`internal/protocol`) | the socket, a mutex, whether it is TLS | `Handle`, `ReadLDAPMessage`, `WriteResponse`, `StartTLS` | TCP delivers pieces of any size; one connection turns from clear to TLS with bytes under way |
| Message codec (`internal/protocol/ber`, `decoder.go`, `encoder.go`) | none | `DecodeLDAPMessage`, `EncodeLDAPResponse` | lengths are read twice, by two functions; integers and lengths change form at 128 and 256 |
| Process lifecycle (`cmd/ldaplite/main.go`, `internal/server/ldap.go`, `internal/web/server.go`) | context, listener, `WaitGroup`, `httpServer` | `startServer`, `Start`, `Stop`, accept loop, watcher | shutdown against clients that owe nothing |
| Directory service (`internal/directory`) | none | create, update, delete of users, groups, OUs; group members; passwords | reads, changes and writes back in separate transactions |
| SCIM (`internal/scim`) and web API, UI (`internal/web`) | none; the browser's cookies | HTTP handlers over the directory service; lists and pages | look up by id, act by DN; nothing is kept between two pages |
| LDIF (`cmd/ldaplite/import.go`, `export.go`, `internal/ldif`) | none | plan and apply an import, export | planned against one state, applied entry by entry to others, by a second process |
| Passwords (`pkg/crypto`), configuration, telemetry, audit | none that other parts read back | hashing, parsing, logging | out of scope |

How they interact. Everything reaches the tables through the store, by
synchronous calls; there are no callbacks from it. Every LDAP connection and every
HTTP request runs in a goroutine of its own, and the only thing they share is the
database (and, at shutdown, the context and the `WaitGroup`). SQLite makes each
transaction atomic and serializable; nothing makes two transactions of one handler
atomic. So the models have one rule in common: **a step is a transaction, and a
handler is a sequence of steps** with anything in between.

What makes each part correct, in the order of importance used for the plan:

1. the tables stay consistent with each other, however callers interleave, and
   act as one map from DNs to entries;
2. membership, which authorization rests on, is what the rows say it is;
3. only administrators write, but for a user's own password, over LDAP and over
   HTTP; a bind decides the identity of its connection; every request is answered;
4. a server serves a directory that is completely initialized;
5. it stops, and does not close the store under a handler;
6. the byte stream is cut and decoded into the messages that were sent, answers can be
   told apart, and nothing sent in the clear counts as protected after StartTLS;
7. a search answers what was asked, whichever plan it takes;
8. a web request changes and shows the entry it names, and leaves it valid;
9. an import lays its file over the directory and touches nothing else, can be run
   again when it stops halfway, and can read what the export writes;
10. a client that goes through a list page by page misses nothing that stays.

## Modules

| Module | Models | Builds on |
|---|---|---|
| `EntryStore` | the tables, and `CreateEntry`, `UpdateEntry`, `DeleteEntry`, `GetEntry` as transactions | |
| `Directory` | the abstract specification: a map from DNs to entries, one operation at a time | |
| `StoreCallers` | creators, deleters, and callers that read, change and write back | `EntryStore`; implements `Directory` |
| `EntryStoreProofs` | what one transaction does to the tables, and induction and recursion over the numbers: the lemmas the modules below share | `EntryStore` |
| `GroupMembership` | the three recursive queries | `EntryStore` |
| `SerialCallers` | callers that take turns, to reach the tables the queries are checked on | `GroupMembership` |
| `StoreProofs` | theorems about the store and its callers, the refinement of `Directory` among them, and about the queries | `StoreCallers`, `SerialCallers`, `EntryStoreProofs` |
| `Filters` | a search filter from the request to its two evaluations | |
| `SearchScope` | the entries within the scope of a search, by DN or down the tree | `GroupMembership` |
| `Search` | `SearchEntries`: plans, scopes, two statements, under writers | `SearchScope`, `Filters` |
| `LdapServer` | the LDAP handlers of several connections over one store | `GroupMembership` |
| `LdapServerProofs` | theorems about them | `LdapServer`, `EntryStoreProofs` |
| `HttpServer` | the web handlers: forms, JSON API and SCIM, with the directory service between | `SearchScope` |
| `HttpServerProofs` | theorems about them | `HttpServer`, `EntryStoreProofs` |
| `Listings` | SCIM's lists, the API's directory search and directory, page by page, under writers | `SearchScope` |
| `ListingsProofs` | theorems about them | `Listings`, `EntryStoreProofs` |
| `LdifImport` | `import ldif`, `export ldif`, and a server beside them | `SearchScope` |
| `LdifImportProofs` | theorems about the import | `LdifImport`, `EntryStoreProofs` |
| `Codec` | LDAP messages as bytes: the BER reader and writer, the decoder, the encoder | |
| `Connection` | one connection: the read loop, message framing, the handlers' answers, StartTLS | `Codec` |
| `ConnectionProofs` | theorems about it | `Connection` |
| `LdapClient` | a client written from RFC 4511, with a codec of its own (external) | |
| `Bootstrap` | processes starting on a database file | `EntryStore` |
| `ServerLifecycle` | the goroutines of a process and how they stop | |
| `ProcessProofs` | theorems about both, the start and the stop of a process | `Bootstrap`, `ServerLifecycle`, `EntryStoreProofs` |

`MC*` modules give the constants their values for TLC.

### How state and actions correspond to the code

**EntryStore.** Each variable is a table, as a set of rows; the `attributes` table
is three variables (`otherAttr`, `memberAttr`, `uuidAttr`) because three rules
read it differently. `nextId` is SQLite's AUTOINCREMENT counter, so a deleted id is
never used again, and `nextUuid` stands for `uuid.NewString()`, whose values never
repeat. A DN stands for its lower-cased form. `CreateEntryTx`,
`UpdateEntryTx` and `DeleteEntryTx` are whole transactions, with the checks before
them (`CanCreate`, `CanUpdate`), the stable-id rule (`KeptUuid`), the class tables
(`UpdatePassword`) and `syncGroupMembers` (`ReplaceMembers`). `ForeignKeys` is a
constant because the schema declares `ON DELETE CASCADE` while no connection sets
SQLite's `foreign_keys` pragma, which is off by default: every run uses FALSE. The
model has the cascade so that the difference can be looked at.

**StoreCallers.** `held[c]` is the `*models.Entry` a goroutine has between
`GetEntry` and `UpdateEntry`: LDAP Modify, the directory service, SCIM and LDIF
replace all do this. What the caller changes in memory is part of the step that
writes it. `everCreated` and `crossed` are history: every row the entries table has had, and
the entries over which a copy was written when one of the two was a group and the other not.

**GroupMembership.** `Paths` is the recursive common table expression with its
path-string check and depth limit; `IsUserInGroup`, `MemberOf` and
`SearchByMemberOf` differ, as the SQL does, in which rows are joined to entries.

**Filters.** A filter is a record and its value a sequence of letters. `Parsed` is what
`ParseFilter` reads in what `serializeFilter` writes: escaping is undone, but the
wildcard before a piece that is not initial is never written, an empty conjunction is
written as nothing, and a value with a comparison sign is read as a comparison.
`Matches` is the evaluation in memory, with the greedy `MatchSubstring`; `Clause` is
the compiled WHERE clause, with SQLite's `Like`; `Meaning` is what the request asks.

**Search.** `ReadEntries` is the first statement: the rows of the plan the filter gets
(`ByMemberOf`, `ByEquality`, `ByClause`, or all candidates). `Answer` is the second,
`populateMemberOf`, with what is done in memory before or after it. `found` is the
slice of entries between, copies that writers may have overtaken; `raced` counts them.

**LdapServer.** `step[c]` is the store call a handler makes next. `Bind` reads the
hash and `Verify` compares it; `Authorize`, `CheckExists`, `ReadEntry` and `Write`
are the calls of Add, Delete, Modify and Compare. `StoreFails` is any call failing,
with the answer the code gives then. `seen` is history: what held at
some moment since the request came, against which answers and writes are judged.
A request carries what the handler itself may refuse it for (`refusal`).

**HttpServer.** `step[h]` is the store call a handler makes next, `local[h]` what it
has in its variables. `Authenticate`, `CheckAdmin` and `CheckPasswordOnly` are the
queries of the middleware, `Lookup` and `Resolve` those that take SCIM's ids to DNs,
`ShowMember` the reads that take them back. `Require` and `Reread` are the directory
service's reads before and after a write; `Load` is the forms', which do not ask
whether there is an entry. `Kept` says which attributes an update leaves as they
are, and `Edited` what it makes of the copy. The status of an error is that of
`statusForError` and `writeDirectoryError`; `closed` stands for a handler that fails on
a nil entry, where `net/http` closes the connection. A request carries what a handler
may refuse it for (`valid`). `seen` is history, as in `LdapServer`; `raced` in it says
that another request has written since this one came.

**Listings.** A walk is a client that asks for page after page. `Search` is the first
statement of `SearchEntriesWithOptions`, with the entries then in `rows`; `Answer` is
the second, and what the handler makes of it: `Matching` is `matchesDirectoryQuery`,
`Sorted` the `sort.Slice` by lower-cased DN, `ScimPage` and `ApiPage` the two ways a page
is cut, `Offset` the product that may wrap around. `NextPosition` is the client. `left`
and `joined` are history: the DNs that left and joined what is listed. `Stray` adds to
both an entry that is in memory and goes from the tree, it or an entry above it deleted,
while it does not match: `group_members` may let it match in the second statement all the
same, and the client is shown what was listed at no moment, in the place of another.

**LdifImport.** `phase` is where the command is: `checking` while `PlanImport` looks up
one record, parent or member after the other (`lookups`), then `deciding`, `creating` or
`updating` for the head of `plan`. `RecordFits` is what a record is refused for without
the store, `Found` what it is refused for with it; `Order` is `orderEntries`, as passes
over the file in its order. `StoreFails` is any call failing or the process being killed.
`ServerWrites` is the server, on the same database. `Export` is `BuildExportRecords`, as
the records of a file. `before`, `written`, `raced`, `broken` and `resumes` are history.

**Codec and LdapClient.** A text is a sequence of bytes. Each reader is two definitions,
what it accepts (`IsMessage`, `Decodes`, `IsFilter`, ...) and what it then returns
(`Message`, `Operation`, `Filter`). The length of a message is read by `BERLength`
(`parseBERLength`) and once more, more strictly, by `PacketLength` (`readLength`).
`LdapClient` shares no definition with `Codec`, so that a mistake in one is not
repeated in the other; it writes TRUE as 1, which `Normalized` has to mend.

**Connection.** `wire` is the stream of bytes not yet read, those inside TLS marked
(`Seal`). `Read` is the first `Read` of `ReadLDAPMessage`, any prefix that fits the buffer,
and what is decided from it: a header that is not whole ends the connection, what is past
the end of the first message is dropped. `Fill` is `io.ReadFull`. `loop = "upgrading"` is
the handshake: `StartTLS` has set `tls`, and `Handshake` takes the client's next byte for a
handshake. Handlers only answer here; a bind decides `bound`, which StartTLS asks for.
A client may pipeline, so what is said of every request is said of clients that wait.

**Bootstrap.** `stage[p]` is where a process is between `fileExists` and serving;
every step of it may be the last (`Die`). `mark` is the row of `schema_migrations`, `applied`
the migrations whose script has been committed, `at[p]` the version a process goes on from.
golang-migrate, which is not in this repository, reads the mark once (`ReadVersion`) and
then, for each later migration, writes a dirty mark, runs the script and writes a clean one
(`MarkDirty`, `RunMigration`, `MarkClean`), in three transactions; its lock is one of the
process, so two processes migrate at once and overwrite each other's mark. Four migrations are
told apart: 002 fails once 004 has run, 005 may add the admin group beneath a groups OU
that another process has just created, and 013 gives that group its entryUUID. The others
may run again and change nothing the tables here hold.

**ServerLifecycle.** `main` is the program counter of `startServer` after the
signal; `conn[c]` that of each connection's goroutine; `wg` the `WaitGroup`;
`web = "spawned"` is the time during which `Stop` finds `httpServer` nil (the field
is read without synchronization, so both values are possible).

## Runs

Passing runs:

| Run | Instance | What it shows |
|---|---|---|
| `store_callers` | a base and two DNs, one for users, units and groups and one for groups, one caller with a copy, four ids | the tables agree with each other in every interleaving of creation, deletion and stale writes, but for the members of an entry that the copy of an earlier one was written over, a group's over another's or the other way round; an entryUUID is never lost, changed or reused; and they implement `Directory` |
| `membership` | a user and two groups nested in any way, cycles and self-membership included, depth limit 1 | leaving out paths that meet a group twice loses nothing; the downward search and the upward projection agree at the limit too; what is shown is honoured; a new user inherits nothing from a deleted one |
| `search` | a group with a user below it, every filter shape, three scopes, up to three writes between the statements | the compiled clause and the in-memory filter agree; each plan answers within the scope and meaning, with everything reachable; groups shown belong to the entry read, not to its DN |
| `ldap_server` | two connections, five requests of fourteen, any call may fail | who may write, whose identity a connection has, what answers mean, and that there is one |
| `http_server` | two handlers, three requests of twenty, over a tree of seven entries with two users and two privileged groups; any call may fail | only an administrator, or a user changing their own password, writes; SCIM writes the entry with the id it was given while there is one, and answers with what it was given when nothing else writes; an answer is lost only to a race; the service's own checks make up for those `UpdateEntry` does not do |
| `listings` | eleven walks over six entries, pages of 0 to 3, an int of 5 bits, three writes at any time | a client that pages from the start sees every entry that stays, once, but for entries that come, go or stray before its position; a page is the entries with the numbers asked for, unless the offset wraps around; the directory's three searches show nothing twice that was not replaced |
| `ldif_import` | six files, two runs with every combination of flags, failing anywhere, two writes of a server | unraced, the directory is at every moment what it was with the written entries laid over it; the store refuses a planned entry only if the server has written what the plan looked at, or if it is a missing base entry; a second run with `--replace-existing` completes a first that was cut off; which exports can be imported |
| `connection` | eight clients with every operation, requests up to 143 bytes, a buffer of 16, ids of one and two bytes, StartTLS at any moment, TLS from the start or not offered | a request is handled as it was sent, id and operation, however TCP cuts it; it is lost only after a split header; its answers carry its id and tags; nothing sent in the clear is handled, or acted under, as protected; what is sent is handled in the end |
| `bootstrap` | two processes, three starts, six migrations, with and without the password, dying anywhere | one process at most fills the file; nobody uses half a schema, although two migrate at once; who initializes serves everything |
| `lifecycle` | two connections, three messages, one web request, a signal at any time | LDAP handlers are drained before the store closes; the process always exits |

Runs that TLC refutes, each the disagreement between the code and something the
repository says of it:

| Run | What happens |
|---|---|
| `substrings` | A substring filter without an initial piece loses its leading wildcard in `serializeFilter`: `(cn=*b*)` is read as `(cn=b*)`, `(cn=*a)` as `(cn=a)`. |
| `first_run` | A first start that leaves a file and no entries, by dying, without a password, or next to another, makes every later start serve an empty directory. |

Other places where the code and what is said of it differ, which no run is about:

- `handleUnbind` (`server/ldap.go:383`) says that the connection will be closed by the
  handler. It clears the bind and the loop reads on; `Connection` and `LdapServer` model that.
- `dispatch` answers an unsupported operation with protocolError (`protocol/connection.go:162`),
  which it never meets: `decodeProtocolOp` refuses unknown tags, and the connection is closed
  without an answer (`Unknown` in `Connection`).
- A group between a user and a privileged group is deleted, and its rows stay:
  `IsUserInGroup` walks through them, `populateMemberOf` does not. `docs/authorization.md:44`
  speaks of one membership check. `ShownMembershipHonoured` is the direction that holds.
- A user's own password change writes back the whole entry it read, and undoes an
  administrator's change made in between, where `docs/authorization.md:25` calls it
  intentionally narrow. `SelfServiceNarrow` says how narrow it is: what it puts back is what
  the request read.
- `addModifyValues` processes a password under the name `userPassword` only, while the check
  before it and the store fold case (`server/write.go:334`): under another spelling the value
  is stored as it was sent.
- A file with the base entry passes `PlanImport` when the database has none, and the store
  then refuses the entry (`sqlite_entries.go:342`), because `NewEntry` gives it a parent
  (`models/entry.go:37`). `docs/import-export.md:39` has every file validated before anything
  is written. `PlanHonoured` and `RerunCompletes` name the case, `BaseMissing`.
- Two first starts may both read that no migration has run. The slower one then fails in
  002, on a column that 004 has dropped, and leaves the mark dirty while the other
  serves: `SchemaBeforeUse` holds, but the next start is refused. No document speaks of it.
- `(createTimestamp=*)` finds no entry, where `docs/client-compatibility.md:22` lists
  presence and timestamp filters as supported: the compiled clause looks among the attributes,
  and the time is a column of `entries`. Beside a `memberOf` the same filter is evaluated in memory and
  every entry has it. `CompiledAgrees` and `SearchBounds` name the case, `TimeUnseen`.
- An export is "safe, importable LDIF" (`docs/internal/prompts/ldif-import-export-goal-prompt.md:157`)
  only under the three conditions of `ExportImportable`, and with `--allow-generated-passwords`.

### Bounds, and why they are enough

- *DNs, ids.* Three or four DNs under one base. The rules of the store relate at
  most two entries at a time (an entry and its parent, a group and its member), and
  an id bound above the number of DNs lets a DN be deleted and taken again, which is
  where identity, stale copies and stale rows matter. Membership has two groups,
  enough for a cycle and for a group between; the depth limit is 1, not the code's
  100, so that it is reached. The proofs have none of these bounds.
- *Callers.* One caller with a copy: creators and deleters need none, and two
  writers of the same entry differ from one writer and a deleter and creator only in
  the last write, since copies are independent. The proofs are for any number.
- *Requests.* Five on two connections: a bind on each, then a read-check-write
  handler with another connection's write between. Fourteen requests cover each handler,
  each kind of refusal and both kinds of writer, and a group put at the DN of the user who is bound.
- *Web requests.* Three on two handlers: a handler that has found its entry, and two
  requests of the other that delete it and create another with its DN. The twenty
  requests cover each route and operation, a member that is gone, an entry of another
  class, a renaming and malformed input.
- *Bytes.* `BufSize` is 16 where the code has 4096, so that requests of 7 to 143 bytes lie
  below, at and far above it. `SmallPiece` is 2: a `Read` returns one or two bytes, or all it
  can, which are the cuts that split a header, fill the buffer or end a message. Two requests
  and an answer have lengths in the long form, and the ids 127, 128 and 300 are where an
  integer takes another byte.
- *Lists.* `MaxInt` is 15, `MaxCount` 2 and `MaxPageSize` 3 for 2^63 - 1, 200 and 100: small
  enough for counts to be cut and products to wrap around. Three writes delete and create on
  both sides of the client's position. A person in one unit and a group in another,
  asked for by the text of the other, are where a stray can come up.
- *Imports.* `MaxRuns` is 2, a run and its repetition; `MaxWrites` is 2, a deletion and a
  creation under the same DN. The six files have a group of groups, a child before its parent,
  a cycle, the base entry, and records that no entry can be made of.
- *Starts.* Three: two that race and one after, or one that dies and two after.
- *Migrations.* Six for fourteen: the four that differ, one before them and one after. The
  proofs are for any number.
- *Members.* In `store_callers` groups list the one DN that comes and goes as an entry of
  any class; `membership` has groups of groups.
- *Searches.* One search in a behaviour, over three levels of entries with two values of
  one attribute, and times that are only present; a letter is lower-cased ASCII, where Go and SQLite fold case alike.
  Three writes between the statements are a deletion, a creation and a new membership:
  what it takes for a DN to come to name another entry with other groups. The depth
  limit is 2, which the three levels reach.

Deadlock checking is off: every model may stop, when its bounds are used up or
the process has exited.

### Fairness

`LdapServer` assumes weak fairness of each connection's handler: the Go scheduler runs
goroutines, and every store call returns. A store failure is outside the fair
part: progress never relies on one. `Connection` assumes it of the read loop, when
there are bytes to read or the client has closed. `ServerLifecycle` assumes it of
`startServer`, of the accept loop after its listener is closed, of each goroutine's
own steps and of each watcher; it assumes nothing of clients, which may never send,
read or hang up, and nothing of web requests, which may never end. `StoreCallers`,
`SerialCallers`, `Search`, `HttpServer`, `Listings`, `LdifImport` and `Bootstrap` state safety
only: an import or a page may never come to its end.

## Proofs

The theorems hold for every value of the constants that satisfies the assumptions the
modules name, so for any number of DNs, ids, callers, connections, handlers, requests and
messages. Each rests on an inductive invariant, stated in the module it is about or beside
its proof, and checked by TLC on the instance of the run before it was proved, and on one lemma per
action that the action keeps it.

**EntryStoreProofs.** `TablesInv` is what every sequence of transactions keeps:
`UniqueDN`, `ClassRows` and `UuidIdentifies`, which are not inductive alone. That a fresh
id or UUID collides with nothing needs to know that all ids differ (`UniqueId`) and that
everything stored lies below the counters (`BelowCounters`). One lemma for each
transaction says that it keeps `TablesInv`, and others what it does to the map from DNs
to entries. All the modules built on `EntryStore` cite these. Recursive definitions
are unfolded with `RecursionOnNat` and induction is `InductionOnSet`, over
a set of numbers in place of a predicate.

**StoreProofs, callers.** Rows of deleted entries cannot pass for those of live ones because
an id has meant one row for ever (`HistoryOK`); `StoreInv` is that and `TablesInv`, and
from it follow the invariants and the two action properties. `MembersStayInSync` adds
`MembersInSync` itself, which names the case in which the code does not keep it: nothing stops a
user's DN from being taken by a group while a caller holds a copy of the user, and
`UpdateEntry`, which picks the class tables by the copy's class, then replaces the member
attributes and leaves `group_members` as it was (`crossed`). The theorem assumes
`ForeignKeys = FALSE`, as in
the code: `Cascade` would remove rows for deleted members that are still listed.
`StoreImplementsDirectory` is the refinement, with `LiveEntries` for the map of `Directory`:
a creation adds one DN to it, an update replaces the entry of one DN by the copy and
keeps its UUID, a deletion removes one DN, and every other step changes nothing.

**LdapServerProofs.** Between two store calls a handler holds what an earlier call told
it, and anything may have happened since. `LdapInv` says what it still may rely on, for
each connection: it takes the steps of its request (`StepFits`); `seen` contains what is
true now (`SeesNow`); a bind that compares a hash has dropped the identity before, and saw
that hash in the store (`Verifying`); whoever is past authorization was an administrator at
some moment, or asks for the own password only, on a connection that is still theirs
(`StillAuthorized`); the copy to be written is an entry of the DN asked for (`CopyFits`).
`SelfServiceIsNarrow` needs the last two only: a request that passed as self-service carries
a password and nothing else, so what is written is the copy the handler read but for that
password. The entry it is written over may be another by then, of any class; `PutsBack` says
what becomes of its attributes and members.

**StoreProofs, membership.** `SerialInv` is `TablesInv` and that rows of `group_members` belong to
groups, or to ids that no entry has. `CycleProtectionLosesNothing` compares paths, which the queries follow, with walks:
a walk that meets an element twice can be cut short there, so whatever a walk reaches
within the depth limit a path reaches too. `SearchMeetsMemberOf` turns paths around:
a path down from a group is one up from its member, of the same length.
`NewUsersStartAlone` is where ids that are never used again matter.

**HttpServerProofs.** `HttpInv` has the same parts as `LdapInv` and those that acting by DN
after looking up by id needs: the DN a SCIM request resolved was that of the entry with the
id it was given, and as long as there is one it still is, because no transaction changes
the DN or UUID of an entry (`SameEntry`); what a handler has found is there unless another
request wrote since (`StillThere`, the history `raced`); what it will show is what it was
asked or has read (`ShowsAsked`), and so are the members while they are resolved one by
one (`MembersFollow`). `ServiceWritesValid` assumes `OneClassPerDN`: the models name users
by `uid`, groups by `cn` and units by `ou` (`internal/models/user.go:16`, `group.go:16`,
`ou.go:15`), so the DN of a web request determines the class of the entry it is for.
Entries created over LDAP need not keep to that, and a copy checked as a user might then
be written over a group.

**ConnectionProofs.** `FreshInv` says where bytes in the clear can be once the client has
sent its first byte of TLS: only in front of that byte, in `wire`. `FramedInv`
follows the requests of a client that waits for each answer: its bytes are all on the
wire, or in part in `data`, or it has been decoded, and no other request is under way
(`OneOnItsWay`, `OneOpen`, `NoneOpen`). `HeaderOfPrefix`, that the length read from the
first bytes of a message is the length of the message, is the lemma that cutting the stream
rests on, whatever sizes the pieces have. That the decoder returns a request from its bytes
is an assumption (`RequestsDecode`, with `RequestsAreElements`): the reader is recursive over
the bytes, which is induction over data. TLC evaluates both for every request of the run.

**LdifImportProofs.** `ImportInv` says what an import may rely on although it reads and
writes without a transaction around it. While `PlanImport` looks things up, whatever it has
found is so, of every DN the server has not written since (`CheckedSoFar`); later the same
holds of all the file (`FileStands`), the plan is what the file asks for less what is
written, each entry after those it needs (`PlanOrdered`), and the last look at an entry is
still right (`MoveStands`). `Overlay` is `ImportIsOverlay` for all phases; `ResumedFits`
keeps, over the end of one run and the start of the next, that what the first run found
still stands. From `PlanOrdered` and `MoveStands` follows that `CanCreate` and `CanUpdate`
hold of the next entry, which is `PlanHonoured`. That `orderEntries` returns each
entry of the file once and in an order that can be written is proved of its passes
(`OrderInOrder`, `OrderedCovers`), for files of any length.

**ListingsProofs.** `ListInv`, stated there, follows the client through a list. Between the
two statements, what is in memory is in the tree or has left, and what matches in the tree
is in memory or has joined (`InMemory`). What the client has not seen lies behind its
position, unless something before it left; what it has seen lies up to there and was seen
once, unless something before it joined (`Paging`, of what is listed between pages, of what
is in memory within one). The two sets may differ by what has left and joined only, and a
place (`Rank`) changes only when something before it does, so both carry over from one to
the other (`UnseenKept`, `SeenKept`). It is here that strays were found: an entry that goes
before it matches may still come to match, so `Seen` is said of all that may be shown
(`MayShow`). `Covering` is the same for the directory, whose classes take turns. That the
sorted list holds each DN at its place is `SortedRanked`, by induction over the order of the
text; that a page is its cut is `PageCuts`, with `WrapsNothing` for offsets that an int holds.

**ProcessProofs, starting.** `SoleInitializer` rests on the base entry: a process
that has created anything in its current start created the base, no step
deletes it, and `CreateEntry` refuses a second. `SchemaBeforeUse` does not rest on one
process migrating at a time, which nothing sees to: a clean mark, whoever wrote it
last, names no version beyond what has been applied (`MigratedInv`), so a process that goes on
from what it read applies what is missing, or fails. `InitializerServesAll`
adds what each creation leaves behind, and that a late 005 takes none of it away.

**ProcessProofs, stopping.** `StopDrains` needs that `wg` counts: it equals the number of
live connection goroutines plus one for the accept loop. `WebStoreOpen` needs what
`Shutdown` leaves: unless it gave up, no request is in flight and none can begin.

Assumptions are those named in the modules, which TLC evaluates in the runs:
`StoreAssumption`, `CallersAssumption`, `ServerAssumption`, `HttpAssumption`,
`ListingsAssumption`, `LdifAssumption`, `BootstrapAssumption` and `LifecycleAssumption` say
what the constants are; `ConnectionAssumption`, `RequestsAreElements` and `RequestsDecode` are about requests and
their bytes. `OneClassPerDN` and `ForeignKeys = FALSE` are hypotheses of the
theorems named above and of no other.

Model-checked only:

- `Search`, whose filters are evaluated by `RECURSIVE` operators over their structure.
- `ExportImportable`: it is about the order of an export and about paths of any length.
- That the codec reads what a client writes, and `AnswersIdentified`: both are about
  what recursion over bytes returns.
- Everything under fairness (`Answered`, `SentIsHandled`, `ShutdownTerminates`).

The type invariants of the modules proved about are theorems or parts of the invariants
above, and no run repeats them; `UniqueDN` and `UuidStable` neither, which
`ImplementsDirectory` and `UuidIdentifies` contain.

## Not modelled, and why

Times, attribute values and names beyond those the rules tell apart, logging and
metrics; the text of LDIF, which is parsed before anything else happens; ordering
and approximate filters, whose order is that of formatted values; what each
migration does to the data of an older version, which this repository cannot write any
more; negative integers, which no writer is given; the same-origin check and sessions; the
browser code; hashing. The abstraction most worth remembering is that a processed
password stands for the plain one it verifies, so whether every path processes
passwords is not visible. SQLite itself is taken at its word: transactions
are serializable, a busy database is a failed call.

## Plan

Done: items 1 to 10 of the list above. Next, in this order:

1. Proofs: `ProjectedForSameEntry` of `Search`, once the filters' recursion is apart from it;
   `AnswersIdentified`, from a stated property of the encoder.
2. **Passwords**: `ProcessPassword` on every path, with plain and processed values apart.
3. **Validity**: what an entry may become by LDAP Modify, which asks less of it than
   the directory service does.
