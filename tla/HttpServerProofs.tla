---- MODULE HttpServerProofs ----
(***************************************************************************)
(* Theorems about the web handlers, for every set of handlers, requests    *)
(* and seeded entries: whatever the others do to the store between two     *)
(* steps of a handler.                                                     *)
(***************************************************************************)
EXTENDS HttpServer, EntryStoreProofs

----
(* What a step does to the tables *)

TableStep ==
    \/ UNCHANGED tables
    \/ \E e \in Entry : CreateEntryTx(e) /\ e.class \in ClassesAt[e.dn]
    \/ \E e \in Entry : UpdateEntryTx(e)
    \/ \E d \in DNs : DeleteEntryTx(d)

\* The tables unchanged, one by one.
LEMMA SameTables ==
    ASSUME UNCHANGED tables
    PROVE  /\ entries' = entries /\ otherAttr' = otherAttr /\ memberAttr' = memberAttr
           /\ uuidAttr' = uuidAttr /\ users' = users /\ groups' = groups /\ ous' = ous
           /\ groupMembers' = groupMembers /\ nextId' = nextId /\ nextUuid' = nextUuid
  BY DEF tables, attributes, classTables

\* No transaction gives an entryUUID that has been drawn to another entry, nor another DN
\* to an entry.
LEMMA TableStepKeeps ==
    ASSUME TablesInv, ClassesFit, TableStep
    PROVE  /\ TablesInv' /\ ClassesFit'
           /\ nextUuid' \in Nat /\ nextUuid \in Nat /\ nextUuid <= nextUuid'
           /\ \A u : u < nextUuid =>
                 \A row \in entries' : <<row.id, u>> \in uuidAttr' =>
                     row \in entries /\ <<row.id, u>> \in uuidAttr
<1>0. /\ nextUuid \in Nat /\ \A r \in entries : r.id < nextId /\ r.id \in Nat
      /\ \A row \in uuidAttr : row[1] < nextId /\ row[1] \in Nat
      /\ nextId \in Nat
  BY StoreAssumption DEF TablesInv, TablesOK, BelowCounters, EntryRows, Ids
<1>1. CASE UNCHANGED tables
  <2>1. TablesInv'
    BY <1>1, SameTablesInv
  <2>2. entries' = entries /\ uuidAttr' = uuidAttr /\ nextUuid' = nextUuid
    BY <1>1, SameTables
  <2> QED
    BY <1>0, <2>1, <2>2 DEF ClassesFit
<1>2. ASSUME NEW e \in Entry, CreateEntryTx(e), e.class \in ClassesAt[e.dn]
      PROVE  /\ TablesInv' /\ ClassesFit'
             /\ nextUuid' \in Nat /\ nextUuid <= nextUuid'
             /\ \A u : u < nextUuid =>
                   \A row \in entries' : <<row.id, u>> \in uuidAttr' =>
                       row \in entries /\ <<row.id, u>> \in uuidAttr
  <2>1. TablesInv'
    BY <1>2, CreateKeepsTables
  <2>2. PICK new : new = NewRow(e)
    OBVIOUS
  <2>3. new.id = nextId /\ new.dn = e.dn /\ new.class = e.class /\ entries' = entries \cup {new}
    BY <1>2, <2>2 DEF NewRow, NewId, CreateEntryTx
  <2>4. uuidAttr' = uuidAttr \cup {<<nextId, nextUuid>>} /\ nextUuid' = nextUuid + 1
    BY <1>2 DEF CreateEntryTx, NewId
  <2>5. ClassesFit'
    BY <1>2, <2>3 DEF ClassesFit
  <2>6. ASSUME NEW u, u < nextUuid, NEW row \in entries', <<row.id, u>> \in uuidAttr'
        PROVE  row \in entries /\ <<row.id, u>> \in uuidAttr
    <3>1. u # nextUuid
      BY <1>0, <2>6
    <3>2. <<row.id, u>> \in uuidAttr
      BY <2>4, <2>6, <3>1
    <3>3. row.id < nextId
      BY <1>0, <3>2
    <3>4. row # new
      BY <1>0, <2>3, <3>3
    <3> QED
      BY <2>3, <2>6, <3>2, <3>4
  <2> QED
    BY <1>0, <2>1, <2>4, <2>5, <2>6
<1>3. ASSUME NEW e \in Entry, UpdateEntryTx(e)
      PROVE  /\ TablesInv' /\ ClassesFit' /\ nextUuid' = nextUuid
             /\ entries' = entries /\ uuidAttr' = uuidAttr
  <2>1. entries' = entries /\ uuidAttr' = uuidAttr /\ nextUuid' = nextUuid
    BY <1>3, UpdateKeepsUuid DEF UpdateEntryTx
  <2> QED
    BY <1>3, <2>1, UpdateKeepsTables DEF ClassesFit
<1>4. ASSUME NEW d \in DNs, DeleteEntryTx(d)
      PROVE  /\ TablesInv' /\ ClassesFit' /\ nextUuid' = nextUuid
             /\ entries' \subseteq entries /\ uuidAttr' \subseteq uuidAttr
  <2>1. entries' \subseteq entries /\ uuidAttr' \subseteq uuidAttr /\ nextUuid' = nextUuid
    BY <1>4 DEF DeleteEntryTx, Cascade, Without, attributes
  <2> QED
    BY <1>4, <2>1, DeleteKeepsTables DEF ClassesFit
<1> QED
  BY <1>0, <1>1, <1>2, <1>3, <1>4 DEF TableStep

\* An entry has one entryUUID, the row of which is its own.
LEMMA OneUuid ==
    ASSUME TablesInv, NEW row \in entries
    PROVE  \E u \in Nat : /\ StoredUuids(row.id) = {u} /\ <<row.id, u>> \in uuidAttr
                          /\ u < nextUuid
                          /\ \A x : <<row.id, x>> \in uuidAttr <=> x = u
                          /\ \A r \in entries : <<r.id, u>> \in uuidAttr => r = row
<1>1. PICK pair \in uuidAttr : StoredUuids(row.id) = {pair[2]}
  BY DEF TablesInv, UuidIdentifies
<1>2. \A p \in uuidAttr : p[1] \in Ids /\ p[2] \in Nat /\ p = <<p[1], p[2]>> /\ p[2] < nextUuid
  BY DEF TablesInv, TablesOK, BelowCounters
<1>3. PICK u \in Nat : u = pair[2]
  BY <1>2
<1>4. \A x : x \in StoredUuids(row.id) <=> <<row.id, x>> \in uuidAttr
  BY <1>2 DEF StoredUuids
<1>5. <<row.id, u>> \in uuidAttr /\ \A x : <<row.id, x>> \in uuidAttr <=> x = u
  BY <1>1, <1>3, <1>4
<1>6. u < nextUuid
  BY <1>2, <1>3
<1>7. ASSUME NEW r \in entries, <<r.id, u>> \in uuidAttr PROVE r = row
  <2>1. r.id = row.id
    BY <1>5, <1>7 DEF TablesInv, UuidIdentifies
  <2> QED
    BY <2>1 DEF TablesInv, UniqueId
<1> QED
  BY <1>1, <1>3, <1>5, <1>6, <1>7

\* What is read at a DN is what its row has.
LEMMA ReadAt ==
    ASSUME TablesInv, NEW row \in entries
    PROVE  /\ Exists(row.dn) /\ RowAt(row.dn) = row /\ IdOf(row.dn) = row.id
           /\ LoadedEntry(row.dn) \in Entry
           /\ LoadedEntry(row.dn).dn = row.dn /\ LoadedEntry(row.dn).class = row.class
           /\ LoadedEntry(row.dn).members = {m \in DNs : <<row.id, m>> \in memberAttr}
           /\ LoadedEntry(row.dn).attrs = {a \in Attrs : <<row.id, a>> \in otherAttr}
           /\ StoredUuids(row.id) = {LoadedEntry(row.dn).uuid}
<1>1. Exists(row.dn) /\ RowAt(row.dn) = row /\ IdOf(row.dn) = row.id
  <2>1. Exists(row.dn)
    BY DEF Exists
  <2>2. RowAt(row.dn) = row
    BY <2>1, RowAtExists DEF TablesInv, UniqueDN
  <2> QED
    BY <2>1, <2>2 DEF IdOf
<1>2. row.dn \in DNs
  BY DEF TablesInv, TablesOK, EntryRows
<1>3. LoadedEntry(row.dn) \in Entry
  BY <1>1, <1>2, LoadedIsEntry DEF TablesInv
<1>4. PICK u \in Nat : StoredUuids(row.id) = {u}
  BY OneUuid
<1>5. LoadedEntry(row.dn).uuid = u
  BY <1>1, <1>4 DEF LoadedEntry
<1> QED
  BY <1>1, <1>3, <1>4, <1>5 DEF LoadedEntry

\* The same for a DN at which there is an entry.
LEMMA ReadsRow ==
    ASSUME TablesInv, NEW d, Exists(d)
    PROVE  \E row \in entries :
              /\ row.dn = d /\ d \in DNs /\ RowAt(d) = row /\ IdOf(d) = row.id
              /\ LoadedEntry(d) \in Entry
              /\ LoadedEntry(d).dn = d /\ LoadedEntry(d).class = row.class
              /\ LoadedEntry(d).members = {m \in DNs : <<row.id, m>> \in memberAttr}
              /\ LoadedEntry(d).attrs = {a \in Attrs : <<row.id, a>> \in otherAttr}
              /\ StoredUuids(row.id) = {LoadedEntry(d).uuid}
<1>1. PICK row \in entries : row.dn = d
  BY DEF Exists
<1>2. d \in DNs
  BY <1>1 DEF TablesInv, TablesOK, EntryRows
<1> QED
  BY <1>1, <1>2, ReadAt

\* What an update writes is there to be read, and nothing else of the rows of entries is new.
LEMMA UpdateWrites ==
    ASSUME TablesInv, NEW e \in Entry, UpdateEntryTx(e), NEW row \in entries, row.dn = e.dn
    PROVE  /\ entries' = entries /\ uuidAttr' = uuidAttr
           /\ {m \in DNs : <<row.id, m>> \in memberAttr'} = e.members
           /\ {a \in Attrs : <<row.id, a>> \in otherAttr'} = e.attrs
<1>1. row.id = IdOf(e.dn)
  BY ReadAt
<1>2. /\ memberAttr' = Without(memberAttr, row.id) \cup ({row.id} \X e.members)
      /\ otherAttr' = Without(otherAttr, row.id) \cup ({row.id} \X e.attrs)
      /\ entries' = entries
  BY <1>1 DEF UpdateEntryTx
<1>3. e.members \subseteq DNs /\ e.attrs \subseteq Attrs
  BY DEF Entry
<1> QED
  BY <1>2, <1>3, UpdateKeepsUuid DEF Without

\* What CreateEntry writes is there to be read, under an id of its own.
LEMMA CreateWrites ==
    ASSUME TablesInv, NEW e \in Entry, CreateEntryTx(e)
    PROVE  \E row \in entries' \ entries :
              /\ row.dn = e.dn /\ row.class = e.class
              /\ entries' = entries \cup {row} /\ \A r \in entries : r.dn # e.dn
              /\ uuidAttr' = uuidAttr \cup {<<row.id, nextUuid>>}
              /\ {m \in DNs : <<row.id, m>> \in memberAttr'} = e.members
              /\ {a \in Attrs : <<row.id, a>> \in otherAttr'} = e.attrs
<1>1. PICK row : row = NewRow(e)
  OBVIOUS
<1>2. row.id = nextId /\ row.dn = e.dn /\ row.class = e.class /\ entries' = entries \cup {row}
  BY <1>1 DEF NewRow, NewId, CreateEntryTx
<1>3. \A r \in entries : r.dn # e.dn
  BY DEF CreateEntryTx, CanCreate, Exists
<1>4. /\ memberAttr' = memberAttr \cup ({nextId} \X e.members)
      /\ otherAttr' = otherAttr \cup ({nextId} \X e.attrs)
      /\ uuidAttr' = uuidAttr \cup {<<nextId, nextUuid>>}
  BY DEF CreateEntryTx, NewId
<1>5. \A x \in memberAttr \cup otherAttr : x[1] # nextId
  BY DEF TablesInv, BelowCounters, TablesOK, Ids
<1>6. e.members \subseteq DNs /\ e.attrs \subseteq Attrs
  BY DEF Entry
<1>7. {m \in DNs : <<row.id, m>> \in memberAttr'} = e.members
  BY <1>2, <1>4, <1>5, <1>6
<1>8. {a \in Attrs : <<row.id, a>> \in otherAttr'} = e.attrs
  BY <1>2, <1>4, <1>5, <1>6
<1> QED
  BY <1>2, <1>3, <1>4, <1>7, <1>8

----
(* Requests and history *)

\* What each kind of request carries.
LEMMA RequestFields ==
    ASSUME NEW r \in Requests
    PROVE  /\ r.op \in {"get", "create", "replace", "delete", "ownPassword", "resetPassword"}
           /\ r.route \in {"form", "api", "scim"} /\ r.kind \in Classes \ {"top"}
           /\ r.op = "get" => r.route = "scim"
           /\ r.op \in {"ownPassword", "resetPassword"} =>
                 r.route # "scim" /\ r.kind = "inetOrgPerson"
           /\ r.id \in Nat
           /\ r.id # 0 => r.route = "scim" /\ r.op \in {"get", "replace", "delete"}
           /\ r.route = "scim" /\ r.op \in {"get", "replace", "delete"} => r.id # 0
           /\ r.user \in DNs \cup {NoDN} /\ r.dn \in DNs \cup {NoDN}
           /\ r.op = "create" => r.dn \in DNs /\ r.kind \in ClassesAt[r.dn]
           /\ r.attrs \subseteq Attrs /\ r.password \in PasswordHashes
           /\ r.members \subseteq DNs \cup Nat /\ (r.route # "scim" => r.members \subseteq DNs)
           /\ r.members # {} => r.kind = "groupOfNames"
           /\ (r.op = "replace" /\ r.route # "form" /\ r.valid) =>
                 Required[r.kind] \subseteq r.attrs \cup {Naming(r.kind)}
<1>1. IsRequest(r)
  BY HttpAssumption
<1> QED
  BY <1>1 DEF IsRequest

\* After a step the history of a request that goes on has grown by what is so now, and
\* records the writes of other handlers.
LEMMA Observed ==
    ASSUME NEW h \in Handlers, NEW also, Observe(h, also), NEW j \in Handlers
    PROVE  /\ SeesNow(j)' /\ DOMAIN seen' = Handlers
           /\ request'[j] # NoRequest => seen[j] \subseteq seen'[j]
           /\ request'[j] # NoRequest /\ j # h /\ "raced" \notin seen'[j] => UNCHANGED tables
           /\ request'[j] # NoRequest /\ j = h /\ also = {"failed"} => "failed" \in seen'[j]
<1>1. seen' = [i \in Handlers |->
                 IF request'[i] = NoRequest THEN {}
                 ELSE seen[i] \cup Sees(i)' \cup (IF i = h THEN also ELSE {})
                        \cup {x \in {"raced"} : i # h /\ tables' # tables}]
  BY DEF Observe
<1>2. CASE request'[j] # NoRequest
  <2>1. seen'[j] = seen[j] \cup Sees(j)' \cup (IF j = h THEN also ELSE {})
                     \cup {x \in {"raced"} : j # h /\ tables' # tables}
    BY <1>1, <1>2
  <2>2. Sees(j)' \subseteq seen'[j]
    BY <2>1
  <2>3. SeesNow(j)'
    BY <2>2 DEF SeesNow
  <2> QED
    BY <1>1, <2>1, <2>3
<1>3. CASE request'[j] = NoRequest
  BY <1>1, <1>3 DEF SeesNow
<1> QED
  BY <1>2, <1>3

----
(* The steps of a handler *)

\* A step of one handler keeps what holds of the others: where they rely on the tables as
\* they were, their history says so.
LEMMA OthersKept ==
    ASSUME HttpInv, TableStep, NEW h \in Handlers, NEW also, Observe(h, also),
           NEW j \in Handlers, j # h,
           request'[j] = request[j], step'[j] = step[j], local'[j] = local[j]
    PROVE  HandlerInv(j)'
<1>1. HandlerInv(j) /\ TablesInv /\ ClassesFit
  BY DEF HttpInv
<1>2. StepFits(j)'
  BY <1>1 DEF HandlerInv, StepFits
<1>3. CopyFits(j)'
  BY <1>1 DEF HandlerInv, CopyFits, Given
<1>4. SeesNow(j)'
  BY Observed
<1>5. CASE request[j] = NoRequest
  <2>1. step'[j] = "idle"
    BY <1>1, <1>5 DEF HandlerInv, StepFits
  <2> QED
    BY <1>2, <1>3, <1>4, <2>1
       DEF HandlerInv, StillAuthorized, SameEntry, StillThere, ShowsAsked, MembersFollow
<1>6. CASE request[j] # NoRequest
  <2>1. /\ seen[j] \subseteq seen'[j]
        /\ "raced" \notin seen'[j] =>
              entries' = entries /\ uuidAttr' = uuidAttr /\ memberAttr' = memberAttr
    BY <1>6, Observed, SameTables
  <2>2. StillAuthorized(j)'
    BY <1>1, <2>1 DEF HandlerInv, StillAuthorized
  <2>3. SameEntry(j)'
    <3>1. SameEntry(j)
      BY <1>1 DEF HandlerInv
    <3> SUFFICES ASSUME /\ step[j] \in {"resolve", "require", "write", "delete", "reread"}
                        /\ request[j].id # 0 /\ request[j].op # "get"
                 PROVE  SameEntry(j)'
      BY DEF SameEntry
    <3>2. request[j] \in Requests
      BY <1>6 DEF HttpInv, HandlersOK
    <3>3. PICK u \in Nat : u = request[j].id
      BY <3>2, RequestFields
    <3>4. u < nextUuid /\ \A row \in entries : <<row.id, u>> \in uuidAttr => row.dn = local[j].at
      BY <3>1, <3>3 DEF SameEntry
    <3>5. u < nextUuid' /\ \A row \in entries' : <<row.id, u>> \in uuidAttr' => row.dn = local[j].at
      BY <1>1, <3>4, TableStepKeeps
    <3>6. "raced" \notin seen'[j] =>
             \E row \in entries' : row.dn = local[j].at /\ <<row.id, u>> \in uuidAttr'
      BY <2>1, <3>1, <3>3 DEF SameEntry
    <3> QED
      BY <3>3, <3>5, <3>6 DEF SameEntry
  <2>4. StillThere(j)' /\ ShowsAsked(j)'
    BY <1>1, <2>1 DEF HandlerInv, StillThere, ShowsAsked
  <2>5. MembersFollow(j)'
    <3>1. CASE "raced" \notin seen'[j]
      <4>1. MembersFollow(j)
        BY <1>1 DEF HandlerInv
      <4>2. "raced" \notin seen[j] /\ ("failed" \in seen[j] => "failed" \in seen'[j])
        BY <2>1, <3>1
      <4>3. entries' = entries /\ uuidAttr' = uuidAttr /\ memberAttr' = memberAttr
        BY <2>1, <3>1
      <4>4. \A ds, ids : Named(ds, ids)' <=> Named(ds, ids)
        BY <4>3 DEF Named
      <4> QED
        BY <4>1, <4>2, <4>3, <4>4 DEF MembersFollow
    <3>2. CASE "raced" \in seen'[j]
      BY <3>2 DEF MembersFollow
    <3> QED
      BY <3>1, <3>2
  <2> QED
    BY <1>2, <1>3, <1>4, <2>2, <2>3, <2>4, <2>5 DEF HandlerInv
<1> QED
  BY <1>5, <1>6

\* A handler that ends leaves nothing behind.
LEMMA EndKeeps ==
    ASSUME HttpInv, TableStep, NEW h \in Handlers, NEW also, Observe(h, also),
           NEW reply, End(h, reply)
    PROVE  HttpInv'
<1>1. HandlersOK /\ TablesInv /\ ClassesFit
  BY DEF HttpInv
<1>2. /\ step' = [step EXCEPT ![h] = "idle"] /\ local' = [local EXCEPT ![h] = Fresh]
      /\ request' = [request EXCEPT ![h] = NoRequest] /\ answer' = [answer EXCEPT ![h] = reply]
  BY DEF End
<1>3. Fresh \in Locals /\ Fresh.shown = {}
  BY DEF Fresh, Locals
<1>4. HandlersOK'
  <2>1. step' \in [Handlers -> Steps]
    BY <1>1, <1>2 DEF HandlersOK, Steps
  <2>2. local' \in [Handlers -> Locals]
    BY <1>1, <1>2, <1>3 DEF HandlersOK
  <2>3. request' \in [Handlers -> Requests \cup {NoRequest}] /\ DOMAIN answer' = Handlers
    BY <1>1, <1>2 DEF HandlersOK
  <2> QED
    BY <2>1, <2>2, <2>3, Observed DEF HandlersOK
<1>5. step'[h] = "idle" /\ local'[h] = Fresh /\ request'[h] = NoRequest
  BY <1>1, <1>2 DEF HandlersOK
<1>6. HandlerInv(h)'
  <2>1. StepFits(h)' /\ CopyFits(h)'
    BY <1>3, <1>5 DEF StepFits, CopyFits
  <2> QED
    BY <1>5, <2>1, Observed
       DEF HandlerInv, StillAuthorized, SameEntry, StillThere, ShowsAsked, MembersFollow
<1>7. ASSUME NEW j \in Handlers, j # h
      PROVE  request'[j] = request[j] /\ step'[j] = step[j] /\ local'[j] = local[j]
  BY <1>1, <1>2, <1>7 DEF HandlersOK
<1>8. ASSUME NEW j \in Handlers PROVE HandlerInv(j)'
  BY <1>6, <1>7, OthersKept
<1> QED
  BY <1>1, <1>4, <1>8, TableStepKeeps DEF HttpInv

\* Where a handler that goes on is then.
LEMMA Gone ==
    ASSUME HttpInv, NEW h \in Handlers, NEW also, Observe(h, also), step[h] # "idle",
           NEW next, NEW l, Goto(h, next, l)
    PROVE  /\ step'[h] = next /\ local'[h] = l /\ request'[h] = request[h]
           /\ request[h] \in Requests /\ request[h] # NoRequest
           /\ seen[h] \subseteq seen'[h] /\ SeesNow(h)'
<1>1. request[h] \in Requests /\ request[h] # NoRequest
  BY DEF HttpInv, HandlersOK, HandlerInv, StepFits
<1>2. step'[h] = next /\ local'[h] = l /\ request'[h] = request[h]
  BY DEF HttpInv, HandlersOK, Goto
<1> QED
  BY <1>1, <1>2, Observed

\* Whoever was past the authorization is past it still.
LEMMA AuthorizedKept ==
    ASSUME HttpInv, NEW h \in Handlers, NEW also, Observe(h, also),
           step[h] \notin {"idle", "authenticate", "admin", "passwordOnly"},
           NEW next, NEW l, Goto(h, next, l)
    PROVE  StillAuthorized(h)'
<1>1. StillAuthorized(h)
  BY DEF HttpInv, HandlerInv
<1> QED
  BY <1>1, Gone DEF StillAuthorized

\* A handler that goes on may rely on what the step has shown.
LEMMA GotoKeeps ==
    ASSUME HttpInv, TableStep, NEW h \in Handlers, NEW also, Observe(h, also),
           step[h] # "idle", NEW next \in Steps, NEW l \in Locals, Goto(h, next, l),
           StepFits(h)', CopyFits(h)', StillAuthorized(h)', SameEntry(h)', StillThere(h)',
           ShowsAsked(h)', MembersFollow(h)'
    PROVE  HttpInv'
<1>1. HandlersOK /\ TablesInv /\ ClassesFit
  BY DEF HttpInv
<1>2. /\ step' = [step EXCEPT ![h] = next] /\ local' = [local EXCEPT ![h] = l]
      /\ request' = request /\ answer' = answer
  BY DEF Goto
<1>3. HandlersOK'
  BY <1>1, <1>2, Observed DEF HandlersOK
<1>4. HandlerInv(h)'
  BY Observed DEF HandlerInv
<1>5. ASSUME NEW j \in Handlers, j # h
      PROVE  request'[j] = request[j] /\ step'[j] = step[j] /\ local'[j] = local[j]
  BY <1>1, <1>2, <1>5 DEF HandlersOK
<1>6. ASSUME NEW j \in Handlers PROVE HandlerInv(j)'
  BY <1>4, <1>5, OthersKept
<1> QED
  BY <1>1, <1>3, <1>6, TableStepKeeps DEF HttpInv

\* A new request finds its handler idle and its history empty.
LEMMA ArriveKeeps ==
    ASSUME HttpInv, NEW h \in Handlers, Arrive(h)
    PROVE  HttpInv'
<1>1. PICK r \in Requests : Receive(h, r) /\ Observe(h, {})
  BY DEF Arrive
<1>2. HandlersOK /\ TablesInv /\ ClassesFit /\ HandlerInv(h)
  BY DEF HttpInv
<1>3. /\ step' = [step EXCEPT ![h] = "authenticate"] /\ local' = local
      /\ request' = [request EXCEPT ![h] = r] /\ DOMAIN answer' = DOMAIN answer
      /\ UNCHANGED tables /\ step[h] = "idle"
  BY <1>1 DEF Receive
<1>4. r # NoRequest
  BY HttpAssumption
<1>5. TableStep
  BY <1>3 DEF TableStep
<1>6. HandlersOK'
  <2>1. step' \in [Handlers -> Steps]
    BY <1>2, <1>3 DEF HandlersOK, Steps
  <2>2. request' \in [Handlers -> Requests \cup {NoRequest}]
    BY <1>2, <1>3 DEF HandlersOK
  <2> QED
    BY <1>1, <1>2, <1>3, <2>1, <2>2, Observed DEF HandlersOK
<1>7. step'[h] = "authenticate" /\ local'[h] = local[h] /\ request'[h] = r
  BY <1>2, <1>3 DEF HandlersOK
<1>8. local[h].shown = {}
  BY <1>2, <1>3 DEF HandlerInv, StepFits
<1>9. HandlerInv(h)'
  <2>1. StepFits(h)' /\ CopyFits(h)'
    BY <1>4, <1>7, <1>8 DEF StepFits, CopyFits
  <2> QED
    BY <1>1, <1>7, <2>1, Observed
       DEF HandlerInv, StillAuthorized, SameEntry, StillThere, ShowsAsked, MembersFollow
<1>10. ASSUME NEW j \in Handlers, j # h
       PROVE  request'[j] = request[j] /\ step'[j] = step[j] /\ local'[j] = local[j]
  BY <1>2, <1>3, <1>10 DEF HandlersOK
<1>11. ASSUME NEW j \in Handlers PROVE HandlerInv(j)'
  BY <1>1, <1>5, <1>9, <1>10, OthersKept
<1> QED
  BY <1>2, <1>5, <1>6, <1>11, TableStepKeeps DEF HttpInv

----
(* Authorization *)

\* Whoever is verified had the credential, now.
LEMMA AuthenticateKeeps ==
    ASSUME HttpInv, NEW h \in Handlers, Observe(h, {}), Authenticate(h)
    PROVE  HttpInv'
<1>1. step[h] = "authenticate" /\ UNCHANGED tables /\ TableStep
  BY DEF Authenticate, TableStep
<1>2. CASE Verified(request[h]) /\ Goto(h, "admin", Fresh)
  <2>1. /\ step'[h] = "admin" /\ local'[h] = Fresh /\ request'[h] = request[h]
        /\ request[h] # NoRequest /\ seen[h] \subseteq seen'[h]
    BY <1>1, <1>2, Gone
  <2>2. SeesNow(h)
    BY DEF HttpInv, HandlerInv
  <2>3. "credential" \in seen[h]
    BY <1>2, <2>1, <2>2 DEF SeesNow, Sees
  <2>4. Fresh \in Locals /\ Fresh.shown = {} /\ "admin" \in Steps
    BY DEF Fresh, Locals, Steps
  <2>5. StepFits(h)' /\ CopyFits(h)'
    BY <2>1, <2>4 DEF StepFits, CopyFits
  <2>6. StillAuthorized(h)'
    BY <2>1, <2>3 DEF StillAuthorized
  <2>7. SameEntry(h)' /\ StillThere(h)' /\ ShowsAsked(h)' /\ MembersFollow(h)'
    BY <2>1 DEF SameEntry, StillThere, ShowsAsked, MembersFollow
  <2> QED
    BY <1>1, <1>2, <2>4, <2>5, <2>6, <2>7, GotoKeeps
<1>3. CASE End(h, Reply("unauthorized"))
  BY <1>1, <1>3, EndKeeps
<1> QED
  BY <1>2, <1>3 DEF Authenticate

\* What the first step of each handler says of its request.
LEMMA FirstSteps ==
    ASSUME NEW r \in Requests
    PROVE  \/ FirstStep(r) = "lookup" /\ r.id # 0
           \/ FirstStep(r) = "resolve" /\ r.op = "create" /\ r.route = "scim" /\ r.kind = "groupOfNames"
           \/ FirstStep(r) = "create" /\ r.op = "create" /\ ~(r.route = "scim" /\ r.kind = "groupOfNames")
           \/ FirstStep(r) = "load" /\ r.op = "replace" /\ r.route = "form" /\ r.id = 0
           \/ FirstStep(r) = "delete" /\ r.op = "delete" /\ r.route # "scim" /\ r.id = 0
           \/ /\ FirstStep(r) = "require" /\ r.op \in {"replace", "ownPassword", "resetPassword"}
              /\ r.route # "scim" /\ r.id = 0
  BY RequestFields DEF FirstStep

\* The handler begins with nothing found and nothing read.
LEMMA BeginKeeps ==
    ASSUME HttpInv, UNCHANGED tables, NEW h \in Handlers, Observe(h, {}), Begin(h),
           step[h] \in {"admin", "passwordOnly"},
           "admin" \in seen[h] \/ request[h].op \in {"get", "ownPassword"}
    PROVE  HttpInv'
<1> DEFINE r == request[h]
           first == FirstStep(r)
           l == [Fresh EXCEPT !.at = IF r.op = "ownPassword" THEN r.user ELSE r.dn,
                              !.pending = IF first = "resolve" THEN r.members ELSE {}]
<1>1. TableStep /\ step[h] # "idle"
  BY DEF TableStep
<1>2. CASE Malformed(r)
  BY <1>1, <1>2, EndKeeps DEF Begin
<1>3. CASE ~Malformed(r)
  <2>1. Goto(h, first, l)
    BY <1>3 DEF Begin
  <2>2. /\ step'[h] = first /\ local'[h] = l /\ request'[h] = r
        /\ r \in Requests /\ r # NoRequest /\ seen[h] \subseteq seen'[h]
    BY <1>1, <2>1, Gone
  <2>3. first \in Steps
    BY <2>2, FirstSteps DEF Steps
  <2>4. PICK a, p : /\ a = (IF r.op = "ownPassword" THEN r.user ELSE r.dn)
                    /\ p = (IF first = "resolve" THEN r.members ELSE {})
    OBVIOUS
  <2>5. l = [at |-> a, entry |-> NoEntry, pending |-> p, members |-> {}, shown |-> {}]
    <3>1. l = [Fresh EXCEPT !.at = a, !.pending = p]
      BY <2>4
    <3> HIDE DEF l, first, r
    <3> QED
      BY <3>1 DEF Fresh
  <2> HIDE DEF l
  <2>6. l \in Locals
    <3>1. a \in DNs \cup {NoDN} /\ p \subseteq DNs \cup Nat
      BY <2>2, <2>4, RequestFields
    <3> QED
      BY <2>5, <3>1 DEF Locals
  <2>7. StepFits(h)'
    BY <2>2, <2>4, <2>5, FirstSteps DEF StepFits
  <2>8. CopyFits(h)' /\ StillThere(h)' /\ ShowsAsked(h)'
    BY <2>2, FirstSteps DEF CopyFits, StillThere, ShowsAsked
  <2>9. StillAuthorized(h)'
    <3>1. "credential" \in seen[h]
      BY DEF HttpInv, HandlerInv, StillAuthorized
    <3> QED
      BY <2>2, <3>1 DEF StillAuthorized
  <2>10. SameEntry(h)'
    BY <2>2, FirstSteps, RequestFields DEF SameEntry
  <2>11. MembersFollow(h)'
    BY <2>2, <2>4, <2>5, FirstSteps DEF MembersFollow, Named
  <2> HIDE DEF first, r
  <2> QED
    BY <1>1, <2>1, <2>3, <2>6, <2>7, <2>8, <2>9, <2>10, <2>11, GotoKeeps
<1> QED
  BY <1>2, <1>3

\* An administrator is one now; the others go on to what everyone may do.
LEMMA CheckAdminKeeps ==
    ASSUME HttpInv, NEW h \in Handlers, Observe(h, {}), CheckAdmin(h)
    PROVE  HttpInv'
<1>1. step[h] = "admin" /\ UNCHANGED tables /\ TableStep
  BY DEF CheckAdmin, TableStep
<1>2. SeesNow(h) /\ StillAuthorized(h) /\ StepFits(h)
  BY DEF HttpInv, HandlerInv
<1>3. CASE IsAdmin(request[h]) /\ Begin(h)
  <2>1. request[h] # NoRequest
    BY <1>1, <1>2 DEF StepFits
  <2>2. "admin" \in seen[h]
    BY <1>2, <1>3, <2>1 DEF SeesNow, Sees
  <2> QED
    BY <1>1, <1>3, <2>2, BeginKeeps
<1>4. CASE Goto(h, "passwordOnly", Fresh)
  <2>1. /\ step'[h] = "passwordOnly" /\ local'[h] = Fresh /\ request'[h] = request[h]
        /\ request[h] # NoRequest /\ seen[h] \subseteq seen'[h]
    BY <1>1, <1>4, Gone
  <2>2. Fresh \in Locals /\ Fresh.shown = {} /\ "passwordOnly" \in Steps
    BY DEF Fresh, Locals, Steps
  <2>3. StepFits(h)' /\ CopyFits(h)'
    BY <2>1, <2>2 DEF StepFits, CopyFits
  <2>4. StillAuthorized(h)'
    BY <1>1, <1>2, <2>1 DEF StillAuthorized
  <2>5. SameEntry(h)' /\ StillThere(h)' /\ ShowsAsked(h)' /\ MembersFollow(h)'
    BY <2>1 DEF SameEntry, StillThere, ShowsAsked, MembersFollow
  <2> QED
    BY <1>1, <1>4, <2>2, <2>3, <2>4, <2>5, GotoKeeps
<1> QED
  BY <1>3, <1>4 DEF CheckAdmin

LEMMA CheckPasswordOnlyKeeps ==
    ASSUME HttpInv, NEW h \in Handlers, Observe(h, {}), CheckPasswordOnly(h)
    PROVE  HttpInv'
<1>1. step[h] = "passwordOnly" /\ UNCHANGED tables /\ TableStep
  BY DEF CheckPasswordOnly, TableStep
<1>2. CASE request[h].op \in {"get", "ownPassword"} /\ Begin(h)
  BY <1>1, <1>2, BeginKeeps
<1>3. CASE End(h, Reply("forbidden"))
  BY <1>1, <1>3, EndKeeps
<1> QED
  BY <1>2, <1>3 DEF CheckPasswordOnly, Capable

----
(* From ids to entries *)

\* The walk down the tree meets entries only.
LEMMA SubtreesAreEntries ==
    ASSUME NEW base
    PROVE  Subtrees(base) \subseteq entries
<1> DEFINE V == SUBSET entries
           start == {r \in entries : r.dn = base}
           Under(above) == UNION {{r \in entries : ParentDN(r.dn) = s.dn} : s \in above}
           Step == [S \in V |-> Under(S)]
<1>1. Step \in [V -> V]
  OBVIOUS
<1>2. PICK g \in [Nat -> V] : g[0] = start /\ \A n \in Nat : g[n + 1] = Step[g[n]]
  <2>1. start \in V
    OBVIOUS
  <2> HIDE DEF Step, V, start
  <2> QED
    BY <1>1, <2>1, RecursionOnNat
<1>3. \A n \in Nat : g[n + 1] = Under(g[n])
  BY <1>2
<1>4. g = [n \in Nat |-> IF n = 0 THEN start ELSE Under(g[n - 1])]
  <2> HIDE DEF Step, V, start, Under
  <2>1. ASSUME NEW n \in Nat, n # 0 PROVE g[n] = Under(g[n - 1])
    <3>1. n - 1 \in Nat /\ n = (n - 1) + 1
      BY <2>1
    <3> QED
      BY <1>3, <3>1
  <2> QED
    BY <1>2, <2>1
<1>5. PICK f : f = Levels(base)
  OBVIOUS
<1>6. f = [n \in Nat |-> IF n = 0 THEN start ELSE Under(f[n - 1])]
  BY <1>4, <1>5, Zenon DEF Levels
<1>7. \A n \in Nat : f[n] \subseteq entries
  BY <1>6
<1>8. \A n \in 0 .. MaxDepth : n \in Nat
  OBVIOUS
<1> QED
  BY <1>5, <1>7, <1>8 DEF Subtrees

\* The entry with the id asked for, the only one, and what is read there.
LEMMA FoundById ==
    ASSUME HttpInv, NEW r, NEW row \in WithId(r)
    PROVE  /\ row \in entries /\ <<row.id, r.id>> \in uuidAttr /\ r.id < nextUuid
           /\ \A x \in entries : <<x.id, r.id>> \in uuidAttr => x = row
           /\ LoadedEntry(row.dn) \in Entry /\ LoadedEntry(row.dn).dn = row.dn
           /\ LoadedEntry(row.dn).uuid = r.id /\ row.dn \in DNs
<1>1. TablesInv
  BY DEF HttpInv
<1>2. row \in entries /\ r.id \in StoredUuids(row.id)
  BY SubtreesAreEntries DEF WithId
<1>3. row.dn \in DNs
  BY <1>1, <1>2 DEF TablesInv, TablesOK, EntryRows
<1>4. PICK u \in Nat : /\ StoredUuids(row.id) = {u} /\ <<row.id, u>> \in uuidAttr
                       /\ u < nextUuid
                       /\ \A x \in entries : <<x.id, u>> \in uuidAttr => x = row
  BY <1>1, <1>2, OneUuid
<1>5. r.id = u
  BY <1>2, <1>4
<1>6. LoadedEntry(row.dn) \in Entry /\ LoadedEntry(row.dn).dn = row.dn
      /\ StoredUuids(row.id) = {LoadedEntry(row.dn).uuid}
  BY <1>1, <1>2, ReadAt
<1> QED
  BY <1>2, <1>3, <1>4, <1>5, <1>6

\* The names of rows that are as they were.
LEMMA SameNames ==
    ASSUME entries' = entries, uuidAttr' = uuidAttr
    PROVE  \A ds, ids : Named(ds, ids)' <=> Named(ds, ids)
  BY DEF Named

LEMMA NothingNamed == Named({}, {})
  BY DEF Named

\* One more name.
LEMMA NameOneMore ==
    ASSUME NEW ds, NEW ids, NEW u, NEW row \in entries, Named(ds, ids), <<row.id, u>> \in uuidAttr
    PROVE  Named(ds \cup {row.dn}, ids \cup {u})
  BY DEF Named

\* What a handler carries, with some of it replaced.
LEMMA LocalFields ==
    ASSUME NEW l \in Locals
    PROVE  /\ l.at \in DNs \cup {NoDN} /\ l.entry \in Entry \cup {NoEntry}
           /\ l.pending \subseteq DNs \cup Nat /\ l.members \subseteq DNs /\ l.shown \subseteq Nat
           /\ l = [at |-> l.at, entry |-> l.entry, pending |-> l.pending,
                   members |-> l.members, shown |-> l.shown]
  BY DEF Locals

LEMMA LocalAt ==
    ASSUME NEW l \in Locals, NEW a, NEW p
    PROVE  /\ [l EXCEPT !.at = a] =
                 [at |-> a, entry |-> l.entry, pending |-> l.pending,
                  members |-> l.members, shown |-> l.shown]
           /\ [l EXCEPT !.at = a, !.pending = p] =
                 [at |-> a, entry |-> l.entry, pending |-> p,
                  members |-> l.members, shown |-> l.shown]
<1>1. PICK k : k = [l EXCEPT !.at = a]
  OBVIOUS
<1>2. k = [at |-> a, entry |-> l.entry, pending |-> l.pending,
           members |-> l.members, shown |-> l.shown]
  BY <1>1 DEF Locals
<1>3. [l EXCEPT !.at = a, !.pending = p] = [k EXCEPT !.pending = p]
  BY <1>1
<1>4. [k EXCEPT !.pending = p] =
         [at |-> a, entry |-> l.entry, pending |-> p,
          members |-> l.members, shown |-> l.shown]
  BY <1>2
<1> QED
  BY <1>1, <1>2, <1>3, <1>4

LEMMA LocalEntry ==
    ASSUME NEW l \in Locals, NEW e, NEW p
    PROVE  /\ [l EXCEPT !.entry = e] =
                 [at |-> l.at, entry |-> e, pending |-> l.pending,
                  members |-> l.members, shown |-> l.shown]
           /\ [l EXCEPT !.entry = e, !.pending = p] =
                 [at |-> l.at, entry |-> e, pending |-> p,
                  members |-> l.members, shown |-> l.shown]
<1>1. PICK k : k = [l EXCEPT !.entry = e]
  OBVIOUS
<1>2. k = [at |-> l.at, entry |-> e, pending |-> l.pending,
           members |-> l.members, shown |-> l.shown]
  BY <1>1 DEF Locals
<1>3. [l EXCEPT !.entry = e, !.pending = p] = [k EXCEPT !.pending = p]
  BY <1>1
<1>4. [k EXCEPT !.pending = p] =
         [at |-> l.at, entry |-> e, pending |-> p,
          members |-> l.members, shown |-> l.shown]
  BY <1>2
<1> QED
  BY <1>1, <1>2, <1>3, <1>4

LEMMA LocalPending ==
    ASSUME NEW l \in Locals, NEW p, NEW m, NEW s
    PROVE  /\ [l EXCEPT !.pending = p] =
                 [at |-> l.at, entry |-> l.entry, pending |-> p,
                  members |-> l.members, shown |-> l.shown]
           /\ [l EXCEPT !.pending = p, !.members = m] =
                 [at |-> l.at, entry |-> l.entry, pending |-> p,
                  members |-> m, shown |-> l.shown]
           /\ [l EXCEPT !.pending = p, !.shown = s] =
                 [at |-> l.at, entry |-> l.entry, pending |-> p,
                  members |-> l.members, shown |-> s]
<1>1. PICK k : k = [l EXCEPT !.pending = p]
  OBVIOUS
<1>2. k = [at |-> l.at, entry |-> l.entry, pending |-> p,
           members |-> l.members, shown |-> l.shown]
  BY <1>1 DEF Locals
<1>3. /\ [l EXCEPT !.pending = p, !.members = m] = [k EXCEPT !.members = m]
      /\ [l EXCEPT !.pending = p, !.shown = s] = [k EXCEPT !.shown = s]
  BY <1>1
<1>4. /\ [k EXCEPT !.members = m] =
            [at |-> l.at, entry |-> l.entry, pending |-> p, members |-> m, shown |-> l.shown]
      /\ [k EXCEPT !.shown = s] =
            [at |-> l.at, entry |-> l.entry, pending |-> p, members |-> l.members, shown |-> s]
  BY <1>2
<1> QED
  BY <1>1, <1>2, <1>3, <1>4

\* The handlers that are at work.
LEMMA AtWork ==
    ASSUME HttpInv, NEW h \in Handlers, step[h] # "idle"
    PROVE  /\ request[h] \in Requests /\ request[h] # NoRequest /\ local[h] \in Locals
           /\ HandlerInv(h) /\ TablesInv /\ ClassesFit
  BY DEF HttpInv, HandlersOK, HandlerInv, StepFits

\* An answer that shows an entry: the one asked for, and of a group the members given.
LEMMA RespondKeeps ==
    ASSUME HttpInv, UNCHANGED tables, NEW h \in Handlers, Observe(h, {}), NEW e \in Entry,
           step[h] \in {"lookup", "reread"}, Respond(h, e),
           request[h].op \in {"get", "create", "replace"},
           (request[h].id # 0 /\ (request[h].op = "get" \/ "raced" \notin seen[h]))
               => e.uuid = request[h].id,
           (/\ request[h].route = "scim" /\ request[h].kind = "groupOfNames"
            /\ request[h].op # "get" /\ "raced" \notin seen[h] /\ "failed" \notin seen[h])
               => Named(e.members, request[h].members)
    PROVE  HttpInv'
<1>1. TableStep /\ step[h] # "idle"
  BY DEF TableStep
<1>2. CASE End(h, [Reply("ok") EXCEPT !.id = e.uuid])
  BY <1>1, <1>2, EndKeeps
<1>3. CASE /\ request[h].route = "scim" /\ request[h].kind = "groupOfNames"
           /\ Goto(h, "show", [local[h] EXCEPT !.entry = e, !.pending = e.members])
  <2>1. request[h] \in Requests /\ local[h] \in Locals /\ HandlerInv(h)
    BY <1>1, AtWork
  <2>2. PICK l : l = [local[h] EXCEPT !.entry = e, !.pending = e.members]
    OBVIOUS
  <2>3. l = [at |-> local[h].at, entry |-> e, pending |-> e.members,
             members |-> local[h].members, shown |-> local[h].shown]
    BY <2>1, <2>2, LocalEntry
  <2>4. l \in Locals
    <3>1. e.members \subseteq DNs
      BY DEF Entry
    <3> QED
      BY <2>1, <2>3, <3>1, LocalFields DEF Locals
  <2>5. /\ step'[h] = "show" /\ local'[h] = l /\ request'[h] = request[h]
        /\ seen[h] \subseteq seen'[h] /\ request[h] # NoRequest
    BY <1>1, <1>3, <2>2, Gone
  <2>6. l.entry = e /\ l.pending = e.members /\ l.shown = {}
    BY <2>1, <2>3 DEF HandlerInv, StepFits
  <2>7. StepFits(h)' /\ CopyFits(h)'
    BY <1>3, <2>5, <2>6 DEF StepFits, CopyFits
  <2>8. StillAuthorized(h)'
    BY <1>3, AuthorizedKept
  <2>9. SameEntry(h)' /\ StillThere(h)'
    BY <2>5 DEF SameEntry, StillThere
  <2>10. ShowsAsked(h)'
    BY <2>5, <2>6 DEF ShowsAsked
  <2>11. MembersFollow(h)'
    <3>1. \A ds, ids : Named(ds, ids)' <=> Named(ds, ids)
      BY SameNames, SameTables
    <3>2. Named(l.entry.members \ l.pending, l.shown)
      BY <2>6, NothingNamed
    <3> QED
      BY <2>5, <2>6, <3>1, <3>2 DEF MembersFollow
  <2> QED
    BY <1>1, <1>3, <2>2, <2>4, <2>5, <2>7, <2>8, <2>9, <2>10, <2>11, GotoKeeps DEF Steps
<1> QED
  BY <1>2, <1>3 DEF Respond

\* SCIM goes on with the DN of the entry that has the id.
LEMMA LookupKeeps ==
    ASSUME HttpInv, NEW h \in Handlers, Observe(h, {}), Lookup(h)
    PROVE  HttpInv'
<1> DEFINE r == request[h]
<1>1. step[h] = "lookup" /\ UNCHANGED tables /\ TableStep
  BY DEF Lookup, TableStep
<1>2. /\ r \in Requests /\ r # NoRequest /\ local[h] \in Locals /\ HandlerInv(h)
      /\ r.id # 0 /\ local[h].members = {} /\ local[h].shown = {}
  BY <1>1, AtWork DEF HandlerInv, StepFits
<1>3. r.route = "scim" /\ r.op \in {"get", "replace", "delete"}
  BY <1>2, RequestFields
<1>4. CASE End(h, Reply("notFound"))
  BY <1>1, <1>4, EndKeeps
<1>5. ASSUME NEW row \in WithId(r), NEW e, e = LoadedEntry(row.dn),
             \/ r.op = "get" /\ Respond(h, e)
             \/ r.op = "delete" /\ Goto(h, "delete", [local[h] EXCEPT !.at = e.dn])
             \/ r.op = "replace" /\ Replace(h, e)
      PROVE  HttpInv'
  <2>1. /\ row \in entries /\ <<row.id, r.id>> \in uuidAttr /\ r.id < nextUuid
        /\ \A x \in entries : <<x.id, r.id>> \in uuidAttr => x = row
        /\ e \in Entry /\ e.dn = row.dn /\ e.uuid = r.id /\ row.dn \in DNs
    BY <1>5, FoundById
  <2>2. CASE r.op = "get" /\ Respond(h, e)
    BY <1>1, <2>1, <2>2, RespondKeeps
  <2>3. ASSUME r.op # "get", NEW next \in {"delete", "require", "resolve"}, NEW l \in Locals,
               Goto(h, next, l), l.at = e.dn, l.members = {}, l.shown = {},
               next = "delete" <=> r.op = "delete",
               next = "resolve" => l.pending = r.members /\ r.kind = "groupOfNames",
               next = "require" => r.members = {}
        PROVE  HttpInv'
    <3>1. /\ step'[h] = next /\ local'[h] = l /\ request'[h] = r /\ seen[h] \subseteq seen'[h]
      BY <1>1, <2>3, Gone
    <3>2. entries' = entries /\ uuidAttr' = uuidAttr /\ nextUuid' = nextUuid
      BY <1>1, SameTables
    <3>3. StepFits(h)' /\ CopyFits(h)'
      BY <1>2, <1>3, <2>3, <3>1 DEF StepFits, CopyFits
    <3>4. StillAuthorized(h)'
      BY <1>1, <2>3, AuthorizedKept
    <3>5. SameEntry(h)'
      BY <2>1, <2>3, <3>1, <3>2 DEF SameEntry
    <3>6. StillThere(h)' /\ ShowsAsked(h)'
      BY <2>3, <3>1 DEF StillThere, ShowsAsked
    <3>7. MembersFollow(h)'
      <4>1. \A ds, ids : Named(ds, ids)' <=> Named(ds, ids)
        BY <3>2, SameNames
      <4>2. next = "resolve" => Named(l.members, r.members \ l.pending)
        BY <2>3, NothingNamed
      <4>3. next = "require" => Named(l.members, r.members)
        BY <2>3, NothingNamed
      <4> QED
        BY <2>3, <3>1, <4>1, <4>2, <4>3 DEF MembersFollow
    <3> QED
      BY <1>1, <2>3, <3>3, <3>4, <3>5, <3>6, <3>7, GotoKeeps DEF Steps
  <2>4. CASE r.op = "delete" /\ Goto(h, "delete", [local[h] EXCEPT !.at = e.dn])
    <3>1. PICK l : l = [local[h] EXCEPT !.at = e.dn]
      OBVIOUS
    <3>2. l = [at |-> e.dn, entry |-> local[h].entry, pending |-> local[h].pending,
               members |-> local[h].members, shown |-> local[h].shown]
      BY <1>2, <3>1, LocalAt
    <3>3. l \in Locals
      BY <1>2, <2>1, <3>2, LocalFields DEF Locals
    <3> QED
      BY <1>2, <2>3, <2>4, <3>1, <3>2, <3>3
  <2>5. CASE r.op = "replace" /\ Replace(h, e)
    <3>1. CASE End(h, Reply("badRequest"))
      BY <1>1, <3>1, EndKeeps
    <3>2. ASSUME NEW next, next = (IF r.members = {} THEN "require" ELSE "resolve"),
                 Goto(h, next, [local[h] EXCEPT !.at = e.dn, !.pending = r.members])
          PROVE  HttpInv'
      <4>1. PICK l : l = [local[h] EXCEPT !.at = e.dn, !.pending = r.members]
        OBVIOUS
      <4>2. l = [at |-> e.dn, entry |-> local[h].entry, pending |-> r.members,
                 members |-> local[h].members, shown |-> local[h].shown]
        BY <1>2, <4>1, LocalAt
      <4>3. r.members \subseteq DNs \cup Nat /\ (r.members # {} => r.kind = "groupOfNames")
        BY <1>2, RequestFields
      <4>4. l \in Locals
        BY <1>2, <2>1, <4>2, <4>3, LocalFields DEF Locals
      <4> QED
        BY <1>2, <2>3, <2>5, <3>2, <4>1, <4>2, <4>3, <4>4
    <3> QED
      BY <2>5, <3>1, <3>2 DEF Replace
  <2> QED
    BY <1>5, <2>2, <2>4, <2>5
<1> QED
  BY <1>4, <1>5 DEF Lookup

\* One more member is found by its id.
LEMMA ResolveKeeps ==
    ASSUME HttpInv, NEW h \in Handlers, Observe(h, {}), Resolve(h)
    PROVE  HttpInv'
<1> DEFINE r == request[h]
<1>1. step[h] = "resolve" /\ UNCHANGED tables /\ TableStep
  BY DEF Resolve, TableStep
<1>2. /\ r \in Requests /\ r # NoRequest /\ local[h] \in Locals /\ HandlerInv(h) /\ TablesInv
      /\ r.op \in {"create", "replace"} /\ r.route = "scim" /\ r.kind = "groupOfNames"
      /\ local[h].shown = {}
  BY <1>1, AtWork DEF HandlerInv, StepFits
<1>3. CASE End(h, Reply("badRequest"))
  BY <1>1, <1>3, EndKeeps
<1>4. ASSUME NEW u \in local[h].pending, NEW row \in MembersWithId(u),
             NEW l, l = [local[h] EXCEPT !.pending = @ \ {u}, !.members = @ \cup {row.dn}],
             Goto(h, IF l.pending # {} THEN "resolve"
                     ELSE IF r.op = "create" THEN "create" ELSE "require", l)
      PROVE  HttpInv'
  <2>1. row \in entries /\ u \in StoredUuids(row.id)
    BY <1>4 DEF MembersWithId
  <2>2. row.dn \in DNs
    BY <1>2, <2>1 DEF TablesInv, TablesOK, EntryRows
  <2>3. <<row.id, u>> \in uuidAttr
    <3>1. TablesInv
      BY <1>2
    <3>2. PICK v : StoredUuids(row.id) = {v} /\ <<row.id, v>> \in uuidAttr
      BY <2>1, <3>1, OneUuid
    <3> QED
      BY <2>1, <3>2
  <2>4. l = [at |-> local[h].at, entry |-> local[h].entry, pending |-> local[h].pending \ {u},
             members |-> local[h].members \cup {row.dn}, shown |-> local[h].shown]
    <3>1. PICK p, m : p = local[h].pending \ {u} /\ m = local[h].members \cup {row.dn}
      OBVIOUS
    <3>2. PICK k \in Locals : k = local[h]
      BY <1>2
    <3>3. l = [k EXCEPT !.pending = @ \ {u}, !.members = @ \cup {row.dn}]
      BY <1>4, <3>2
    <3>4. [k EXCEPT !.pending = @ \ {u}, !.members = @ \cup {row.dn}]
            = [k EXCEPT !.pending = k.pending \ {u}, !.members = k.members \cup {row.dn}]
      OBVIOUS
    <3>5. l = [k EXCEPT !.pending = p, !.members = m]
      BY <3>1, <3>2, <3>3, <3>4
    <3>6. l = [at |-> local[h].at, entry |-> local[h].entry, pending |-> p,
               members |-> m, shown |-> local[h].shown]
      BY <3>2, <3>5, LocalPending
    <3> QED
      BY <3>1, <3>6
  <2>5. l \in Locals
    BY <1>2, <2>2, <2>4, LocalFields DEF Locals
  <2>6. /\ l.at = local[h].at /\ l.pending = local[h].pending \ {u}
        /\ l.members = local[h].members \cup {row.dn} /\ l.shown = {}
    BY <1>2, <2>4
  <2> HIDE DEF r
  <2>7. PICK next : next = IF l.pending # {} THEN "resolve"
                           ELSE IF r.op = "create" THEN "create" ELSE "require"
    OBVIOUS
  <2>8. /\ next \in {"resolve", "create", "require"}
        /\ next # "resolve" => l.pending = {}
        /\ next = "create" => r.op = "create"
        /\ next = "require" => r.op = "replace"
    BY <1>2, <2>7
  <2>9. /\ step'[h] = next /\ local'[h] = l /\ request'[h] = r /\ seen[h] \subseteq seen'[h]
    BY <1>1, <1>4, <2>7, Gone DEF r
  <2>10. entries' = entries /\ uuidAttr' = uuidAttr /\ nextUuid' = nextUuid
    BY <1>1, SameTables
  <2>11. StepFits(h)'
    <3>1. StepFits(h)
      BY <1>2 DEF HandlerInv
    <3> QED
      BY <1>1, <1>2, <2>6, <2>8, <2>9, <3>1 DEF StepFits, r
  <2>12. StillAuthorized(h)'
    BY <1>1, <1>4, AuthorizedKept DEF r
  <2>13. SameEntry(h)'
    <3>1. CASE r.id # 0
      <4>1. /\ r.id < nextUuid
            /\ \A x \in entries : <<x.id, r.id>> \in uuidAttr => x.dn = local[h].at
            /\ "raced" \notin seen[h] =>
                  \E x \in entries : x.dn = local[h].at /\ <<x.id, r.id>> \in uuidAttr
        BY <1>1, <1>2, <3>1 DEF HandlerInv, SameEntry, r
      <4> QED
        BY <2>6, <2>9, <2>10, <4>1 DEF SameEntry
    <3>2. CASE r.id = 0
      BY <2>9, <3>2 DEF SameEntry
    <3> QED
      BY <3>1, <3>2
  <2>14. CopyFits(h)' /\ StillThere(h)' /\ ShowsAsked(h)'
    BY <2>8, <2>9 DEF CopyFits, StillThere, ShowsAsked
  <2>15. MembersFollow(h)'
    <3> SUFFICES ASSUME "raced" \notin seen'[h], "failed" \notin seen'[h]
                 PROVE  MembersFollow(h)'
      BY DEF MembersFollow
    <3>1. local[h].pending \subseteq r.members /\ Named(local[h].members, r.members \ local[h].pending)
      BY <1>1, <1>2, <2>9 DEF HandlerInv, MembersFollow, r
    <3>2. (r.members \ local[h].pending) \cup {u} = r.members \ l.pending
      BY <1>4, <2>6, <3>1
    <3>3. Named(l.members, r.members \ l.pending)
      BY <2>1, <2>3, <2>6, <3>1, <3>2, NameOneMore
    <3>4. l.pending = {} => Named(l.members, r.members)
      <4>1. l.pending = {} => r.members \ l.pending = r.members
        OBVIOUS
      <4> QED
        BY <3>3, <4>1
    <3>5. \A ds, ids : Named(ds, ids)' <=> Named(ds, ids)
      BY <2>10, SameNames
    <3>6. l.pending \subseteq r.members
      BY <2>6, <3>1
    <3> QED
      BY <2>8, <2>9, <3>3, <3>4, <3>5, <3>6 DEF MembersFollow
  <2> QED
    BY <1>1, <1>4, <2>5, <2>7, <2>8, <2>11, <2>12, <2>13, <2>14, <2>15, GotoKeeps DEF Steps, r
<1> QED
  BY <1>3, <1>4 DEF Resolve

\* The members shown are those that are no longer pending.
LEMMA ShownSoFar ==
    ASSUME HttpInv, NEW h \in Handlers, step[h] = "show", NEW d \in local[h].pending,
           NEW l, l.pending = local[h].pending \ {d}, l.entry = local[h].entry,
           l.shown = local[h].shown \cup IF Exists(d) THEN StoredUuids(IdOf(d)) ELSE {},
           request[h].route = "scim", request[h].kind = "groupOfNames", request[h].op # "get",
           "raced" \notin seen[h], "failed" \notin seen[h]
    PROVE  /\ l.pending \subseteq l.entry.members
           /\ Named(l.entry.members, request[h].members)
           /\ Named(l.entry.members \ l.pending, l.shown)
<1>1. HandlerInv(h) /\ TablesInv
  BY AtWork
<1>2. /\ local[h].pending \subseteq l.entry.members
      /\ Named(l.entry.members, request[h].members)
      /\ Named(l.entry.members \ local[h].pending, local[h].shown)
  BY <1>1 DEF HandlerInv, MembersFollow
<1>3. d \in l.entry.members
  BY <1>2
<1>4. PICK row \in entries : row.dn = d
  BY <1>2, <1>3 DEF Named
<1>5. PICK u \in Nat : StoredUuids(row.id) = {u} /\ <<row.id, u>> \in uuidAttr
  BY <1>1, OneUuid
<1>6. Exists(d) /\ IdOf(d) = row.id
  BY <1>1, <1>4, ReadAt
<1>7. l.shown = local[h].shown \cup {u}
  BY <1>5, <1>6
<1>8. Named((l.entry.members \ local[h].pending) \cup {d}, local[h].shown \cup {u})
  BY <1>2, <1>4, <1>5, NameOneMore
<1>9. (l.entry.members \ local[h].pending) \cup {d} = l.entry.members \ l.pending
  BY <1>3
<1> QED
  BY <1>2, <1>7, <1>8, <1>9

\* One more member is shown; one that cannot be read is not, which the history tells.
LEMMA ShowKeeps ==
    ASSUME HttpInv, UNCHANGED tables, NEW h \in Handlers, NEW also, Observe(h, also),
           step[h] = "show", NEW d \in local[h].pending, NEW s \in SUBSET Nat,
           NEW l, l = [local[h] EXCEPT !.pending = @ \ {d}, !.shown = @ \cup s],
           also = {"failed"} \/ s = (IF Exists(d) THEN StoredUuids(IdOf(d)) ELSE {}),
           Goto(h, "show", l)
    PROVE  HttpInv'
<1> DEFINE r == request[h]
<1>1. TableStep /\ step[h] # "idle"
  BY DEF TableStep
<1>2. /\ r \in Requests /\ r # NoRequest /\ local[h] \in Locals /\ HandlerInv(h) /\ TablesInv
  BY <1>1, AtWork
<1>3. l = [at |-> local[h].at, entry |-> local[h].entry, pending |-> local[h].pending \ {d},
           members |-> local[h].members, shown |-> local[h].shown \cup s]
  BY <1>2, LocalPending
<1>4. l \in Locals
  BY <1>2, <1>3, LocalFields DEF Locals
<1>5. /\ l.pending = local[h].pending \ {d} /\ l.shown = local[h].shown \cup s
      /\ l.entry = local[h].entry
  BY <1>3
<1>6. /\ step'[h] = "show" /\ local'[h] = l /\ request'[h] = r /\ seen[h] \subseteq seen'[h]
  BY <1>1, Gone
<1>7. entries' = entries /\ uuidAttr' = uuidAttr
  BY SameTables
<1>8. StepFits(h)' /\ CopyFits(h)'
  BY <1>2, <1>5, <1>6 DEF HandlerInv, StepFits, CopyFits
<1>9. StillAuthorized(h)'
  BY AuthorizedKept
<1>10. SameEntry(h)' /\ StillThere(h)'
  BY <1>6 DEF SameEntry, StillThere
<1>11. ShowsAsked(h)'
  BY <1>2, <1>5, <1>6 DEF HandlerInv, ShowsAsked
<1>12. MembersFollow(h)'
  <2> SUFFICES ASSUME r.route = "scim", r.kind = "groupOfNames", r.op # "get",
                      "raced" \notin seen'[h], "failed" \notin seen'[h]
               PROVE  MembersFollow(h)'
    BY <1>6 DEF MembersFollow
  <2>1. also # {"failed"}
    BY <1>2, <1>6, Observed
  <2>2. s = (IF Exists(d) THEN StoredUuids(IdOf(d)) ELSE {})
    BY <2>1
  <2>3. /\ l.pending \subseteq l.entry.members
        /\ Named(l.entry.members, r.members)
        /\ Named(l.entry.members \ l.pending, l.shown)
    BY <1>5, <1>6, <2>2, ShownSoFar
  <2>4. \A ds, ids : Named(ds, ids)' <=> Named(ds, ids)
    BY <1>7, SameNames
  <2> QED
    BY <1>6, <2>3, <2>4 DEF MembersFollow
<1> QED
  BY <1>1, <1>4, <1>8, <1>9, <1>10, <1>11, <1>12, GotoKeeps DEF Steps

LEMMA ShowMemberKeeps ==
    ASSUME HttpInv, NEW h \in Handlers, Observe(h, {}), ShowMember(h)
    PROVE  HttpInv'
<1>1. step[h] = "show" /\ UNCHANGED tables /\ TableStep
  BY DEF ShowMember, TableStep
<1>2. PICK d \in local[h].pending :
          \E s, l : /\ s = (IF Exists(d) THEN StoredUuids(IdOf(d)) ELSE {})
                    /\ l = [local[h] EXCEPT !.pending = @ \ {d}, !.shown = @ \cup s]
                    /\ \/ Goto(h, "show", l)
                       \/ \E reply : End(h, reply)
  BY DEF ShowMember
<1>3. TablesInv
  BY DEF HttpInv
<1>4. (IF Exists(d) THEN StoredUuids(IdOf(d)) ELSE {}) \in SUBSET Nat
  BY <1>3 DEF StoredUuids, TablesInv, TablesOK
<1> QED
  BY <1>1, <1>2, <1>4, EndKeeps, ShowKeeps

LEMMA FailKeeps ==
    ASSUME HttpInv, NEW h \in Handlers, Fail(h)
    PROVE  HttpInv'
<1>1. UNCHANGED tables /\ TableStep /\ Observe(h, {"failed"})
  BY DEF Fail, StoreFails, TableStep
<1>2. ASSUME NEW reply, End(h, reply) PROVE HttpInv'
  BY <1>1, <1>2, EndKeeps
<1>3. ASSUME step[h] = "show", NEW d \in local[h].pending,
             Goto(h, "show", [local[h] EXCEPT !.pending = @ \ {d}])
      PROVE  HttpInv'
  <2>1. local[h] \in Locals
    BY <1>3, AtWork
  <2>2. local[h].shown \cup {} = local[h].shown
    OBVIOUS
  <2>3. [local[h] EXCEPT !.pending = @ \ {d}, !.shown = @ \cup {}]
          = [local[h] EXCEPT !.pending = @ \ {d}]
    BY <2>1, <2>2, LocalPending
  <2> QED
    BY <1>1, <1>3, <2>3, ShowKeeps
<1> QED
  BY <1>2, <1>3 DEF Fail, StoreFails

----
(* The writes *)

\* The members a request asks for are DNs.
LEMMA GivenAreDNs ==
    ASSUME NEW h, request[h] \in Requests, local[h] \in Locals
    PROVE  Given(h) \subseteq DNs
  BY RequestFields, LocalFields DEF Given

\* What a handler creates.
LEMMA CreatedIsEntry ==
    ASSUME HttpInv, NEW h \in Handlers, step[h] = "create"
    PROVE  /\ Created(h) \in Entry /\ Created(h).dn = local[h].at
           /\ Created(h).class = request[h].kind /\ Created(h).members = Given(h)
           /\ Created(h).attrs = request[h].attrs
           /\ request[h].kind \in ClassesAt[local[h].at] /\ local[h].at \in DNs
<1>1. request[h] \in Requests /\ local[h] \in Locals /\ HandlerInv(h)
  BY AtWork
<1>2. request[h].op = "create" /\ local[h].at = request[h].dn
  BY <1>1 DEF HandlerInv, StepFits
<1>3. /\ request[h].dn \in DNs /\ request[h].kind \in ClassesAt[request[h].dn]
      /\ request[h].kind \in Classes
      /\ request[h].attrs \subseteq Attrs /\ request[h].password \in PasswordHashes
  BY <1>1, <1>2, RequestFields
<1>4. Given(h) \subseteq DNs
  BY <1>1, GivenAreDNs
<1>5. Created(h) = [dn |-> local[h].at, parent |-> Parent[local[h].at], class |-> request[h].kind,
                    attrs |-> request[h].attrs, members |-> Given(h),
                    password |-> request[h].password, uuid |-> 0]
  BY DEF Created, NewEntry
<1> QED
  BY <1>2, <1>3, <1>4, <1>5 DEF Entry

\* What a handler writes back: its copy, with members and attributes of the request.
LEMMA EditedIsEntry ==
    ASSUME HttpInv, NEW h \in Handlers, step[h] = "write"
    PROVE  /\ Edited(h) \in Entry /\ Edited(h).dn = local[h].at
           /\ Edited(h).class = local[h].entry.class
           /\ request[h].op = "replace" =>
                 /\ Edited(h).attrs = (local[h].entry.attrs \cap Kept(request[h].kind))
                                         \cup request[h].attrs
                 /\ Edited(h).members =
                       IF request[h].kind = "groupOfNames" THEN Given(h) ELSE {}
           /\ request[h].op # "replace" =>
                 /\ Edited(h).attrs = local[h].entry.attrs
                 /\ Edited(h).members = local[h].entry.members
<1>1. request[h] \in Requests /\ local[h] \in Locals /\ HandlerInv(h)
  BY AtWork
<1>2. PICK e \in Entry : e = local[h].entry /\ e.dn = local[h].at
  BY <1>1 DEF HandlerInv, CopyFits
<1>3. PICK a \in SUBSET Attrs : a = (e.attrs \cap Kept(request[h].kind)) \cup request[h].attrs
  BY <1>1, RequestFields DEF Entry
<1>4. PICK m \in SUBSET DNs : m = IF request[h].kind = "groupOfNames" THEN Given(h) ELSE {}
  BY <1>1, GivenAreDNs
<1>5. PICK p \in PasswordHashes : p = request[h].password
  BY <1>1, RequestFields
<1>6. CASE request[h].op = "replace"
  <2>1. Edited(h) = [e EXCEPT !.attrs = a, !.members = m, !.password = p, !.uuid = 0]
    BY <1>2, <1>3, <1>4, <1>5, <1>6 DEF Edited, Entry
  <2>2. PICK x : x = [e EXCEPT !.attrs = a, !.members = m, !.password = p, !.uuid = 0]
    OBVIOUS
  <2>3. x \in Entry /\ x.dn = e.dn /\ x.class = e.class /\ x.attrs = a /\ x.members = m
    BY <2>2 DEF Entry
  <2> QED
    BY <1>2, <1>3, <1>4, <1>6, <2>1, <2>2, <2>3
<1>7. CASE request[h].op # "replace"
  <2>1. Edited(h) = [e EXCEPT !.password = p]
    BY <1>2, <1>5, <1>7 DEF Edited
  <2>2. PICK x : x = [e EXCEPT !.password = p]
    OBVIOUS
  <2>3. x \in Entry /\ x.dn = e.dn /\ x.class = e.class /\ x.attrs = e.attrs
        /\ x.members = e.members
    BY <2>2 DEF Entry
  <2> QED
    BY <1>2, <1>7, <2>1, <2>2, <2>3
<1> QED
  BY <1>6, <1>7

\* What was written is read again: by the DN it was written at.
LEMMA WrittenKeeps ==
    ASSUME HttpInv, TableStep, NEW h \in Handlers, Observe(h, {}),
           step[h] \in {"create", "write"}, Written(h),
           NEW row \in entries', row.dn = local[h].at,
           \A x \in entries' : x.dn = local[h].at => x = row,
           request[h].op # "create" => entries' = entries /\ uuidAttr' = uuidAttr,
           entries \subseteq entries', uuidAttr \subseteq uuidAttr',
           (request[h].route = "scim" /\ request[h].kind = "groupOfNames"
              /\ request[h].op \in {"create", "replace"}) =>
                 {m \in DNs : <<row.id, m>> \in memberAttr'} = local[h].members
    PROVE  HttpInv'
<1> DEFINE r == request[h]
           l == local[h]
<1>1. /\ r \in Requests /\ r # NoRequest /\ l \in Locals /\ HandlerInv(h) /\ TablesInv
      /\ ClassesFit /\ step[h] # "idle"
  BY AtWork
<1>2. CASE End(h, Reply("ok"))
  BY <1>2, EndKeeps
<1>3. CASE r.route # "form" /\ r.op \notin {"ownPassword", "resetPassword"} /\ Goto(h, "reread", l)
  <2>1. r.op \in {"create", "replace"} /\ l.shown = {}
    BY <1>1, <1>3 DEF HandlerInv, StepFits
  <2>2. /\ step'[h] = "reread" /\ local'[h] = l /\ request'[h] = r /\ seen[h] \subseteq seen'[h]
    BY <1>1, <1>3, Gone
  <2>3. StepFits(h)' /\ CopyFits(h)'
    BY <1>1, <1>3, <2>1, <2>2 DEF StepFits, CopyFits
  <2>4. StillAuthorized(h)'
    BY <1>3, AuthorizedKept
  <2>5. SameEntry(h)'
    <3>1. CASE r.op = "create"
      BY <1>1, <2>2, <3>1, RequestFields DEF SameEntry
    <3>2. CASE r.op = "replace"
      <4> SUFFICES ASSUME r.id # 0 PROVE SameEntry(h)'
        BY <2>2 DEF SameEntry
      <4>1. /\ step[h] = "write" /\ r.id \in Nat
        BY <1>1, <3>2, RequestFields DEF HandlerInv, StepFits
      <4>2. /\ r.id < nextUuid
            /\ \A x \in entries : <<x.id, r.id>> \in uuidAttr => x.dn = l.at
            /\ "raced" \notin seen[h] =>
                  \E x \in entries : x.dn = l.at /\ <<x.id, r.id>> \in uuidAttr
        BY <1>1, <3>2, <4>1 DEF HandlerInv, SameEntry
      <4>3. r.id < nextUuid'
        BY <1>1, <4>1, <4>2, TableStepKeeps
      <4> QED
        BY <2>2, <3>2, <4>2, <4>3 DEF SameEntry
    <3> QED
      BY <2>1, <3>1, <3>2
  <2>6. StillThere(h)' /\ ShowsAsked(h)'
    BY <2>2 DEF StillThere, ShowsAsked
  <2>7. MembersFollow(h)'
    <3> SUFFICES ASSUME r.route = "scim", r.kind = "groupOfNames",
                        "raced" \notin seen'[h], "failed" \notin seen'[h]
                 PROVE  MembersFollow(h)'
      BY <2>2 DEF MembersFollow
    <3>1. Named(l.members, r.members)
      BY <1>1, <2>1, <2>2 DEF HandlerInv, MembersFollow
    <3>2. PICK ds, ids : ds = l.members /\ ids = r.members
      OBVIOUS
    <3>3. Named(ds, ids)'
      BY <3>1, <3>2 DEF Named
    <3> QED
      BY <2>1, <2>2, <3>2, <3>3 DEF MembersFollow
  <2> QED
    BY <1>1, <1>3, <2>3, <2>4, <2>5, <2>6, <2>7, GotoKeeps DEF Steps
<1> QED
  BY <1>2, <1>3 DEF Written

LEMMA CreateKeeps ==
    ASSUME HttpInv, NEW h \in Handlers, Observe(h, {}), Create(h)
    PROVE  HttpInv'
<1>1. step[h] = "create" /\ TablesInv
  BY DEF Create, HttpInv
<1>2. CASE CreateEntryTx(Created(h)) /\ Written(h)
  <2>1. PICK e : e = Created(h)
    OBVIOUS
  <2>2. /\ e \in Entry /\ e.dn = local[h].at /\ e.class \in ClassesAt[e.dn]
        /\ e.members = Given(h)
    BY <1>1, <2>1, CreatedIsEntry
  <2>3. CreateEntryTx(e)
    BY <1>2, <2>1
  <2>4. TableStep
    BY <2>2, <2>3 DEF TableStep
  <2>5. PICK row \in entries' \ entries :
              /\ row.dn = e.dn
              /\ entries' = entries \cup {row} /\ \A x \in entries : x.dn # e.dn
              /\ uuidAttr' = uuidAttr \cup {<<row.id, nextUuid>>}
              /\ {m \in DNs : <<row.id, m>> \in memberAttr'} = e.members
    BY <1>1, <2>2, <2>3, CreateWrites
  <2>6. request[h].op = "create"
    BY <1>1, AtWork DEF HandlerInv, StepFits
  <2>7. request[h].route = "scim" => Given(h) = local[h].members
    BY DEF Given
  <2> QED
    BY <1>1, <1>2, <2>2, <2>4, <2>5, <2>6, <2>7, WrittenKeeps
<1>3. ASSUME UNCHANGED tables, NEW reply, End(h, reply) PROVE HttpInv'
  BY <1>3, EndKeeps DEF TableStep
<1> QED
  BY <1>2, <1>3 DEF Create

LEMMA WriteKeeps ==
    ASSUME HttpInv, NEW h \in Handlers, Observe(h, {}), Write(h)
    PROVE  HttpInv'
<1>1. step[h] = "write" /\ TablesInv
  BY DEF Write, HttpInv
<1>2. CASE UpdateEntryTx(Edited(h)) /\ Written(h)
  <2>1. PICK e : e = Edited(h)
    OBVIOUS
  <2>2. e \in Entry /\ e.dn = local[h].at
    BY <1>1, <2>1, EditedIsEntry
  <2>3. UpdateEntryTx(e)
    BY <1>2, <2>1
  <2>4. TableStep
    BY <2>2, <2>3 DEF TableStep
  <2>5. PICK row \in entries : row.dn = e.dn
    BY <2>3 DEF UpdateEntryTx, CanUpdate, Exists
  <2>6. /\ entries' = entries /\ uuidAttr' = uuidAttr
        /\ {m \in DNs : <<row.id, m>> \in memberAttr'} = e.members
    BY <1>1, <2>2, <2>3, <2>5, UpdateWrites
  <2>7. \A x \in entries : x.dn = local[h].at => x = row
    BY <1>1, <2>2, <2>5 DEF TablesInv, UniqueDN
  <2>8. request[h].op # "create"
    BY <1>1, AtWork DEF HandlerInv, StepFits
  <2>9. (request[h].route = "scim" /\ request[h].kind = "groupOfNames"
          /\ request[h].op = "replace") => e.members = local[h].members
    BY <1>1, <2>1, EditedIsEntry DEF Given
  <2> QED
    BY <1>1, <1>2, <2>2, <2>4, <2>5, <2>6, <2>7, <2>8, <2>9, WrittenKeeps
<1>3. ASSUME UNCHANGED tables, NEW reply, End(h, reply) PROVE HttpInv'
  BY <1>3, EndKeeps DEF TableStep
<1> QED
  BY <1>2, <1>3 DEF Write

LEMMA DeleteKeeps ==
    ASSUME HttpInv, NEW h \in Handlers, Observe(h, {}), Delete(h)
    PROVE  HttpInv'
<1>1. CASE DeleteEntryTx(local[h].at) /\ End(h, Reply("ok"))
  <2>1. local[h].at \in DNs
    BY <1>1, ReadsRow DEF DeleteEntryTx, HttpInv
  <2>2. TableStep
    BY <1>1, <2>1 DEF TableStep
  <2> QED
    BY <1>1, <2>2, EndKeeps
<1>2. CASE UNCHANGED tables /\ End(h, Reply("notFound"))
  BY <1>2, EndKeeps DEF TableStep
<1> QED
  BY <1>1, <1>2 DEF Delete

----
(* The reads before and after a write *)

\* The copy is what the entry has, of the class its DN may have.
LEMMA CopyKeeps ==
    ASSUME HttpInv, UNCHANGED tables, NEW h \in Handlers, Observe(h, {}),
           step[h] \in {"require", "load"}, Exists(local[h].at),
           Goto(h, "write", [local[h] EXCEPT !.entry = LoadedEntry(local[h].at)]),
           request[h].route # "form" =>
              /\ LoadedEntry(local[h].at).class = request[h].kind /\ request[h].valid
              /\ (request[h].op = "replace" /\ request[h].kind = "groupOfNames") => Given(h) # {}
    PROVE  HttpInv'
<1> DEFINE r == request[h]
<1>1. /\ r \in Requests /\ r # NoRequest /\ local[h] \in Locals /\ HandlerInv(h) /\ TablesInv
      /\ ClassesFit /\ TableStep /\ step[h] # "idle"
  BY AtWork DEF TableStep
<1>2. PICK e \in Entry : e = LoadedEntry(local[h].at) /\ e.dn = local[h].at
                           /\ e.class \in ClassesAt[e.dn]
  <2>1. PICK row \in entries : /\ row.dn = local[h].at /\ LoadedEntry(local[h].at) \in Entry
                               /\ LoadedEntry(local[h].at).dn = local[h].at
                               /\ LoadedEntry(local[h].at).class = row.class
    BY <1>1, ReadsRow
  <2> QED
    BY <1>1, <2>1 DEF ClassesFit
<1>3. PICK l : l = [local[h] EXCEPT !.entry = e]
  OBVIOUS
<1>4. l = [at |-> local[h].at, entry |-> e, pending |-> local[h].pending,
           members |-> local[h].members, shown |-> local[h].shown]
  BY <1>1, <1>3, LocalEntry
<1>5. l \in Locals
  BY <1>1, <1>4, LocalFields DEF Locals
<1>6. l.at = local[h].at /\ l.entry = e /\ l.members = local[h].members /\ l.shown = {}
  BY <1>1, <1>4 DEF HandlerInv, StepFits
<1>7. /\ step'[h] = "write" /\ local'[h] = l /\ request'[h] = r /\ seen[h] \subseteq seen'[h]
      /\ Goto(h, "write", l)
  BY <1>1, <1>2, <1>3, Gone
<1>8. entries' = entries /\ uuidAttr' = uuidAttr /\ nextUuid' = nextUuid
  BY SameTables
<1>9. StepFits(h)'
  <2>1. /\ r.op \in {"replace", "ownPassword", "resetPassword"}
        /\ r.op = "ownPassword" => local[h].at = r.user
    BY <1>1 DEF HandlerInv, StepFits
  <2> QED
    BY <1>1, <1>6, <1>7, <2>1 DEF StepFits
<1>10. CopyFits(h)'
  <2>1. Given(h)' = Given(h)
    BY <1>6, <1>7 DEF Given
  <2> QED
    BY <1>2, <1>6, <1>7, <2>1 DEF CopyFits
<1>11. StillAuthorized(h)'
  BY <1>7, AuthorizedKept
<1>12. SameEntry(h)'
  <2> SUFFICES ASSUME r.id # 0 PROVE SameEntry(h)'
    BY <1>7 DEF SameEntry
  <2>1. step[h] = "require" /\ r.op # "get"
    BY <1>1, RequestFields DEF HandlerInv, StepFits
  <2>2. /\ r.id < nextUuid
        /\ \A x \in entries : <<x.id, r.id>> \in uuidAttr => x.dn = local[h].at
        /\ "raced" \notin seen[h] =>
              \E x \in entries : x.dn = local[h].at /\ <<x.id, r.id>> \in uuidAttr
    BY <1>1, <2>1 DEF HandlerInv, SameEntry
  <2> QED
    BY <1>6, <1>7, <1>8, <2>2 DEF SameEntry
<1>13. StillThere(h)' /\ ShowsAsked(h)'
  BY <1>7 DEF StillThere, ShowsAsked
<1>14. MembersFollow(h)'
  <2> SUFFICES ASSUME r.route = "scim", r.kind = "groupOfNames", r.op # "get",
                      "raced" \notin seen'[h], "failed" \notin seen'[h]
               PROVE  MembersFollow(h)'
    BY <1>7 DEF MembersFollow
  <2>1. step[h] = "require"
    BY <1>1 DEF HandlerInv, StepFits
  <2>2. Named(local[h].members, r.members)
    BY <1>1, <1>7, <2>1 DEF HandlerInv, MembersFollow
  <2>3. \A ds, ids : Named(ds, ids)' <=> Named(ds, ids)
    BY <1>8, SameNames
  <2> QED
    BY <1>6, <1>7, <2>2, <2>3 DEF MembersFollow
<1> QED
  BY <1>1, <1>5, <1>7, <1>9, <1>10, <1>11, <1>12, <1>13, <1>14, GotoKeeps DEF Steps

LEMMA RequireKeeps ==
    ASSUME HttpInv, NEW h \in Handlers, Observe(h, {}), Require(h)
    PROVE  HttpInv'
<1>1. step[h] = "require" /\ UNCHANGED tables /\ TableStep
  BY DEF Require, TableStep
<1>2. CASE /\ Exists(local[h].at) /\ RowAt(local[h].at).class = request[h].kind
           /\ request[h].valid
           /\ (request[h].op = "replace" /\ request[h].kind = "groupOfNames") => Given(h) # {}
           /\ Goto(h, "write", [local[h] EXCEPT !.entry = LoadedEntry(local[h].at)])
  <2>1. LoadedEntry(local[h].at).class = request[h].kind
    BY <1>2 DEF LoadedEntry
  <2> QED
    BY <1>1, <1>2, <2>1, CopyKeeps
<1>3. ASSUME NEW reply, End(h, reply) PROVE HttpInv'
  BY <1>1, <1>3, EndKeeps
<1> QED
  BY <1>2, <1>3 DEF Require

LEMMA LoadKeeps ==
    ASSUME HttpInv, NEW h \in Handlers, Observe(h, {}), Load(h)
    PROVE  HttpInv'
<1>1. step[h] = "load" /\ UNCHANGED tables /\ TableStep
  BY DEF Load, TableStep
<1>2. request[h].route = "form"
  BY <1>1, AtWork DEF HandlerInv, StepFits
<1>3. CASE /\ Exists(local[h].at)
           /\ Goto(h, "write", [local[h] EXCEPT !.entry = LoadedEntry(local[h].at)])
  BY <1>1, <1>2, <1>3, CopyKeeps
<1>4. CASE End(h, Reply("closed"))
  BY <1>1, <1>4, EndKeeps
<1> QED
  BY <1>3, <1>4 DEF Load

\* What is read again is the entry asked for, with the members given.
LEMMA RereadShows ==
    ASSUME HttpInv, NEW h \in Handlers, step[h] = "reread", Exists(local[h].at),
           NEW e, e = LoadedEntry(local[h].at)
    PROVE  /\ e \in Entry
           /\ (request[h].id # 0 /\ "raced" \notin seen[h]) => e.uuid = request[h].id
           /\ (/\ request[h].route = "scim" /\ request[h].kind = "groupOfNames"
               /\ "raced" \notin seen[h] /\ "failed" \notin seen[h])
                 => Named(e.members, request[h].members)
           /\ request[h].op \in {"create", "replace"}
<1> DEFINE r == request[h]
<1>1. /\ r \in Requests /\ local[h] \in Locals /\ HandlerInv(h) /\ TablesInv
      /\ r.op \in {"create", "replace"}
  BY AtWork DEF HandlerInv, StepFits
<1>2. PICK row \in entries :
            /\ e \in Entry /\ row.dn = local[h].at
            /\ e.members = {m \in DNs : <<row.id, m>> \in memberAttr}
            /\ StoredUuids(row.id) = {e.uuid}
  BY <1>1, ReadsRow
<1>3. ASSUME r.id # 0, "raced" \notin seen[h] PROVE e.uuid = r.id
  <2>1. PICK x \in entries : x.dn = local[h].at /\ <<x.id, r.id>> \in uuidAttr
    BY <1>1, <1>3 DEF HandlerInv, SameEntry
  <2>2. x = row
    BY <1>1, <1>2, <2>1 DEF TablesInv, UniqueDN
  <2>3. PICK u \in Nat : StoredUuids(row.id) = {u} /\ \A y : <<row.id, y>> \in uuidAttr <=> y = u
    BY <1>1, OneUuid
  <2> QED
    BY <1>2, <2>1, <2>2, <2>3
<1>4. (/\ r.route = "scim" /\ r.kind = "groupOfNames"
       /\ "raced" \notin seen[h] /\ "failed" \notin seen[h]) => Named(e.members, r.members)
  BY <1>1, <1>2 DEF HandlerInv, MembersFollow
<1> QED
  BY <1>1, <1>2, <1>3, <1>4

LEMMA RereadKeeps ==
    ASSUME HttpInv, NEW h \in Handlers, Observe(h, {}), Reread(h)
    PROVE  HttpInv'
<1>1. step[h] = "reread" /\ UNCHANGED tables /\ TableStep
  BY DEF Reread, TableStep
<1>2. CASE Exists(local[h].at) /\ Respond(h, LoadedEntry(local[h].at))
  <2>1. PICK e : e = LoadedEntry(local[h].at)
    OBVIOUS
  <2> QED
    BY <1>1, <1>2, <2>1, RereadShows, RespondKeeps
<1>3. CASE End(h, Reply("closed"))
  BY <1>1, <1>3, EndKeeps
<1> QED
  BY <1>2, <1>3 DEF Reread

----
(* The invariant *)

LEMMA HttpInit == Init => HttpInv
<1> SUFFICES ASSUME Init PROVE HttpInv
  OBVIOUS
<1>1. TablesInv /\ ClassesFit
  BY SeededTablesInv, HttpAssumption DEF Init, ClassesFit
<1>2. Fresh \in Locals /\ Fresh.shown = {}
  BY DEF Fresh, Locals
<1>3. HandlersOK
  BY <1>2 DEF Init, HandlersOK, Steps
<1>4. ASSUME NEW h \in Handlers PROVE HandlerInv(h)
  <2>1. step[h] = "idle" /\ request[h] = NoRequest /\ local[h] = Fresh
    BY DEF Init
  <2> QED
    BY <1>2, <2>1
       DEF HandlerInv, StepFits, CopyFits, SeesNow, StillAuthorized, SameEntry, StillThere,
           ShowsAsked, MembersFollow
<1> QED
  BY <1>1, <1>3, <1>4 DEF HttpInv

\* What the history holds of a request depends on the tables and the request.
LEMMA SameSight ==
    ASSUME NEW h \in Handlers, UNCHANGED tables, request'[h] = request[h]
    PROVE  Sees(h)' = Sees(h)
<1>1. /\ entries' = entries /\ users' = users /\ groupMembers' = groupMembers
      /\ otherAttr' = otherAttr
  BY SameTables
<1>2. \A d : Exists(d)' = Exists(d) /\ IdOf(d)' = IdOf(d) /\ RowAt(d)' = RowAt(d)
  BY <1>1 DEF Exists, IdOf, RowAt
<1>3. \A d : HashAt(d)' = HashAt(d)
  <2>1. \A id : StoredPassword(id)' = StoredPassword(id)
    BY <1>1 DEF StoredPassword
  <2> QED
    BY <1>2, <2>1 DEF HashAt
<1>4. \A d : LoadedEntry(d).attrs' = LoadedEntry(d).attrs
  BY <1>1, <1>2 DEF LoadedEntry
<1>5. UpTo(Ids)' = UpTo(Ids)
  BY <1>1 DEF UpTo
<1>6. \A id : GroupsOf(id, Ids)' = GroupsOf(id, Ids)
  BY <1>5 DEF GroupsOf
<1>7. \A u, g : IsUserInGroup(u, g)' = IsUserInGroup(u, g)
  BY <1>2, <1>5, <1>6 DEF IsUserInGroup
<1>8. \A r : Verified(r)' = Verified(r) /\ IsAdmin(r)' = IsAdmin(r)
  BY <1>2, <1>3, <1>4, <1>7 DEF Verified, IsAdmin
<1> QED
  BY <1>8 DEF Sees

LEMMA HttpStep == HttpInv /\ [Next]_vars => HttpInv'
<1> SUFFICES ASSUME HttpInv, [Next]_vars PROVE HttpInv'
  OBVIOUS
<1>1. CASE UNCHANGED vars
  <2>1. /\ request' = request /\ step' = step /\ local' = local /\ answer' = answer
        /\ seen' = seen /\ UNCHANGED tables
    BY <1>1 DEF vars, handlers
  <2>2. /\ entries' = entries /\ memberAttr' = memberAttr /\ uuidAttr' = uuidAttr
        /\ nextUuid' = nextUuid
    BY <2>1, SameTables
  <2>3. TablesInv' /\ ClassesFit'
    BY <2>1, <2>2, SameTablesInv DEF HttpInv, ClassesFit
  <2>4. HandlersOK'
    BY <2>1 DEF HttpInv, HandlersOK
  <2>5. ASSUME NEW h \in Handlers PROVE HandlerInv(h)'
    <3>1. HandlerInv(h)
      BY DEF HttpInv
    <3>2. StepFits(h)' /\ CopyFits(h)' /\ StillAuthorized(h)' /\ ShowsAsked(h)'
      BY <2>1, <3>1
         DEF HandlerInv, StepFits, CopyFits, Given, StillAuthorized, ShowsAsked
    <3>3. SameEntry(h)' /\ StillThere(h)'
      BY <2>1, <2>2, <3>1 DEF HandlerInv, SameEntry, StillThere
    <3>4. MembersFollow(h)'
      <4>1. \A ds, ids : Named(ds, ids)' <=> Named(ds, ids)
        BY <2>2, SameNames
      <4> QED
        BY <2>1, <2>2, <3>1, <4>1 DEF HandlerInv, MembersFollow
    <3>5. SeesNow(h)'
      BY <2>1, <3>1, SameSight DEF HandlerInv, SeesNow
    <3> QED
      BY <3>2, <3>3, <3>4, <3>5 DEF HandlerInv
  <2> QED
    BY <2>3, <2>4, <2>5 DEF HttpInv
<1>2. ASSUME NEW h \in Handlers, Arrive(h) PROVE HttpInv'
  BY <1>2, ArriveKeeps
<1>3. ASSUME NEW h \in Handlers, Handle(h) PROVE HttpInv'
  BY <1>3, AuthenticateKeeps, CheckAdminKeeps, CheckPasswordOnlyKeeps, LookupKeeps,
     ResolveKeeps, ShowMemberKeeps, CreateKeeps, RequireKeeps, LoadKeeps, WriteKeeps,
     DeleteKeeps, RereadKeeps DEF Handle
<1>4. ASSUME NEW h \in Handlers, Fail(h) PROVE HttpInv'
  BY <1>4, FailKeeps
<1> QED
  BY <1>1, <1>2, <1>3, <1>4 DEF Next

\* What each step of a handler may rely on, whatever the other requests have done since the
\* step before: the entry a SCIM id was resolved to, the copy it is about to write back, the
\* members on their way from ids to DNs and back, and that it is authorized.
THEOREM HttpInvariant == Spec => []HttpInv
<1>1. Init => HttpInv
  BY HttpInit
<1>2. HttpInv /\ [Next]_vars => HttpInv'
  BY HttpStep
<1> QED
  BY <1>1, <1>2, PTL DEF Spec

----
(* The steps that commit and the steps that end *)

\* A handler that is past the arrival of its request ends or goes on.
LEMMA HandlerMoves ==
    ASSUME NEW j \in Handlers, Handle(j) \/ Fail(j)
    PROVE  (\E next, l : Goto(j, next, l)) \/ (\E reply : End(j, reply))
<1>1. ASSUME Begin(j) PROVE (\E next, l : Goto(j, next, l)) \/ (\E reply : End(j, reply))
  BY <1>1 DEF Begin
<1>2. ASSUME NEW e, Respond(j, e)
      PROVE  (\E next, l : Goto(j, next, l)) \/ (\E reply : End(j, reply))
  BY <1>2 DEF Respond
<1>3. CASE Authenticate(j) \/ CheckAdmin(j) \/ CheckPasswordOnly(j)
  BY <1>1, <1>3 DEF Authenticate, CheckAdmin, CheckPasswordOnly
<1>4. CASE Lookup(j)
  BY <1>2, <1>4 DEF Lookup, Replace
<1>5. CASE Resolve(j) \/ ShowMember(j)
  BY <1>5 DEF Resolve, ShowMember
<1>6. CASE Create(j) \/ Require(j) \/ Load(j) \/ Write(j) \/ Delete(j)
  BY <1>6 DEF Create, Require, Load, Write, Delete, Written
<1>7. CASE Reread(j)
  BY <1>2, <1>7 DEF Reread
<1>8. CASE Fail(j)
  BY <1>8 DEF Fail, StoreFails
<1> QED
  BY <1>3, <1>4, <1>5, <1>6, <1>7, <1>8 DEF Handle

\* Only its own steps move a handler.
LEMMA OwnStep ==
    ASSUME HttpInv, Next, NEW h \in Handlers, step'[h] # step[h] \/ request'[h] # request[h]
    PROVE  Arrive(h) \/ Handle(h) \/ Fail(h)
<1>1. PICK j \in Handlers : Arrive(j) \/ Handle(j) \/ Fail(j)
  BY DEF Next
<1>2. CASE Arrive(j)
  <2>1. PICK r \in Requests : Receive(j, r)
    BY <1>2 DEF Arrive
  <2> QED
    BY <1>2, <2>1 DEF Receive, HttpInv, HandlersOK
<1>3. CASE \E next, l : Goto(j, next, l)
  BY <1>1, <1>3 DEF Goto, HttpInv, HandlersOK
<1>4. CASE \E reply : End(j, reply)
  BY <1>1, <1>4 DEF End, HttpInv, HandlersOK
<1> QED
  BY <1>1, <1>2, <1>3, <1>4, HandlerMoves

\* The step of a write that commits, and what the handler relies on in it.
LEMMA CommitIs ==
    ASSUME HttpInv, Next, NEW h \in Handlers, Commits(h)
    PROVE  /\ \/ step[h] = "create" /\ CreateEntryTx(Created(h))
              \/ step[h] = "write" /\ UpdateEntryTx(Edited(h))
              \/ step[h] = "delete" /\ DeleteEntryTx(local[h].at)
           /\ HandlerInv(h) /\ TablesInv /\ ClassesFit
           /\ request[h] \in Requests /\ local[h] \in Locals
<1>1. /\ HandlerInv(h) /\ TablesInv /\ ClassesFit
      /\ request[h] \in Requests /\ local[h] \in Locals
  BY AtWork DEF Commits
<1>2. tables' # tables /\ step[h] \in {"create", "write", "delete"}
  BY DEF Commits
<1>3. ~Arrive(h) /\ ~Fail(h)
  BY <1>2 DEF Arrive, Receive, Fail, StoreFails
<1>4. Handle(h)
  BY <1>3, OwnStep DEF Commits
<1>5. CASE Create(h)
  BY <1>1, <1>2, <1>5 DEF Create
<1>6. CASE Write(h)
  BY <1>1, <1>2, <1>6 DEF Write
<1>7. CASE Delete(h)
  BY <1>1, <1>2, <1>7 DEF Delete
<1> QED
  BY <1>2, <1>4, <1>5, <1>6, <1>7
     DEF Handle, Authenticate, CheckAdmin, CheckPasswordOnly, Lookup, Resolve, ShowMember,
         Require, Load, Reread

\* What a request leads to where it writes.
LEMMA CommitFits ==
    ASSUME NEW h, HandlerInv(h)
    PROVE  /\ step[h] = "create" => request[h].op = "create"
           /\ step[h] = "write" =>
                 /\ request[h].op \in {"replace", "ownPassword", "resetPassword"}
                 /\ request[h].op = "ownPassword" => local[h].at = request[h].user
           /\ step[h] = "delete" => request[h].op = "delete"
  BY DEF HandlerInv, StepFits

----
(* Who writes, and what *)

LEMMA WebCommit ==
    ASSUME HttpInv, Next, NEW h \in Handlers, Commits(h)
    PROVE  /\ "credential" \in seen[h]
           /\ \/ "admin" \in seen[h]
              \/ /\ request[h].op = "ownPassword"
                 /\ OnlyRowsOf(IdOf(request[h].user))
<1>1. /\ HandlerInv(h) /\ TablesInv
      /\ \/ step[h] = "create" /\ CreateEntryTx(Created(h))
         \/ step[h] = "write" /\ UpdateEntryTx(Edited(h))
         \/ step[h] = "delete" /\ DeleteEntryTx(local[h].at)
  BY CommitIs
<1>2. /\ "credential" \in seen[h]
      /\ "admin" \in seen[h] \/ request[h].op \in {"get", "ownPassword"}
  BY <1>1 DEF HandlerInv, StillAuthorized
<1>3. ASSUME "admin" \notin seen[h]
      PROVE  /\ request[h].op = "ownPassword" /\ step[h] = "write"
             /\ local[h].at = request[h].user
  BY <1>1, <1>2, <1>3, CommitFits
<1>4. ASSUME "admin" \notin seen[h] PROVE OnlyRowsOf(IdOf(request[h].user))
  <2>1. PICK e : e = Edited(h)
    OBVIOUS
  <2>2. e \in Entry /\ e.dn = request[h].user
    BY <1>3, <1>4, <2>1, EditedIsEntry
  <2>3. UpdateEntryTx(e)
    BY <1>1, <1>3, <1>4, <2>1
  <2> QED
    BY <1>1, <2>2, <2>3, UpdateTouchesOne
<1> QED
  BY <1>2, <1>3, <1>4

\* Every write through the forms, the JSON API and SCIM is by somebody who gave their
\* password and was an administrator since the request came, or is the change of their own
\* password, which touches the rows of their own entry only.
THEOREM WebWritesAreAuthorized == Spec => WebWritesAuthorized
<1>1. HttpInv /\ [Next]_vars =>
        [\A h \in Handlers : Commits(h) =>
            /\ "credential" \in seen[h]
            /\ \/ "admin" \in seen[h]
               \/ /\ request[h].op = "ownPassword"
                  /\ OnlyRowsOf(IdOf(request[h].user))]_vars
  BY WebCommit
<1> QED
  BY <1>1, HttpInvariant, PTL DEF Spec, WebWritesAuthorized

LEMMA AskedCommit ==
    ASSUME HttpInv, Next, NEW h \in Handlers, Commits(h), request[h].id # 0,
           NEW row \in entries, request[h].id \in StoredUuids(row.id)
    PROVE  IF step[h] = "delete" THEN entries' = entries \ {row} ELSE OnlyRowsOf(row.id)
<1>1. /\ HandlerInv(h) /\ TablesInv /\ request[h] \in Requests
      /\ \/ step[h] = "create" /\ CreateEntryTx(Created(h))
         \/ step[h] = "write" /\ UpdateEntryTx(Edited(h))
         \/ step[h] = "delete" /\ DeleteEntryTx(local[h].at)
  BY CommitIs
<1>2. request[h].op \in {"get", "replace", "delete"}
  BY <1>1, RequestFields
<1>3. step[h] \in {"write", "delete"} /\ request[h].op # "get"
  BY <1>1, <1>2, CommitFits
<1>4. row.dn = local[h].at
  <2>1. PICK u : StoredUuids(row.id) = {u} /\ <<row.id, u>> \in uuidAttr
    BY <1>1, OneUuid
  <2>2. \A x \in entries : <<x.id, request[h].id>> \in uuidAttr => x.dn = local[h].at
    BY <1>1, <1>3 DEF HandlerInv, SameEntry
  <2> QED
    BY <2>1, <2>2
<1>5. CASE step[h] = "delete"
  <2>1. entries' = {r \in entries : r.dn # local[h].at}
    BY <1>1, <1>5 DEF DeleteEntryTx
  <2>2. \A r \in entries : r.dn = local[h].at => r = row
    BY <1>1, <1>4 DEF TablesInv, UniqueDN
  <2>3. entries' = entries \ {row}
    BY <1>4, <2>1, <2>2
  <2> QED
    BY <1>5, <2>3
<1>6. CASE step[h] = "write"
  <2>1. PICK e : e = Edited(h)
    OBVIOUS
  <2>2. e \in Entry /\ e.dn = row.dn
    BY <1>4, <1>6, <2>1, EditedIsEntry
  <2>3. UpdateEntryTx(e)
    BY <1>1, <1>6, <2>1
  <2>4. IdOf(e.dn) = row.id
    BY <1>1, <2>2, ReadAt
  <2> QED
    BY <1>1, <1>6, <2>2, <2>3, <2>4, UpdateTouchesOne
<1> QED
  BY <1>3, <1>5, <1>6

\* SCIM reads the id once and acts on the DN it found several calls later: whatever was
\* deleted and created in between, it never writes another entry than the one with the id.
THEOREM AskedEntryIsWritten == Spec => WritesAskedEntry
<1>1. HttpInv /\ [Next]_vars =>
        [\A h \in Handlers : (Commits(h) /\ request[h].id # 0) =>
            \A row \in entries : request[h].id \in StoredUuids(row.id) =>
                IF step[h] = "delete" THEN entries' = entries \ {row}
                ELSE OnlyRowsOf(row.id)]_vars
  BY AskedCommit
<1> QED
  BY <1>1, HttpInvariant, PTL DEF Spec, WritesAskedEntry

----
(* The answers *)

\* The DNs of a list of ids name no other ids.
LEMMA NamesAreUnique ==
    ASSUME TablesInv, NEW ds, NEW x, NEW y, Named(ds, x), Named(ds, y)
    PROVE  x = y
<1>1. ASSUME NEW xs, NEW ys, Named(ds, xs), Named(ds, ys), NEW u \in xs PROVE u \in ys
  <2>1. PICK row \in entries : row.dn \in ds /\ <<row.id, u>> \in uuidAttr
    BY <1>1 DEF Named
  <2>2. PICK r \in entries, v \in ys : r.dn = row.dn /\ <<r.id, v>> \in uuidAttr
    BY <1>1, <2>1 DEF Named
  <2>3. r = row
    BY <2>1, <2>2 DEF TablesInv, UniqueDN
  <2>4. PICK w \in Nat : \A z : <<row.id, z>> \in uuidAttr <=> z = w
    BY <2>1, OneUuid
  <2> QED
    BY <2>1, <2>2, <2>3, <2>4
<1> QED
  BY <1>1

\* The step that ends a handler, and what it answers.
LEMMA EndIs ==
    ASSUME HttpInv, Next, NEW h \in Handlers, Ends(h)
    PROVE  /\ Handle(h) \/ Fail(h)
           /\ \A next, l : ~Goto(h, next, l)
           /\ \A reply : End(h, reply) => answer'[h] = reply
           /\ HandlerInv(h) /\ TablesInv /\ request[h] \in Requests /\ local[h] \in Locals
           /\ step[h] # "idle"
<1>1. request[h] # NoRequest /\ request'[h] = NoRequest
  BY DEF Ends
<1>2. HandlerInv(h) /\ TablesInv /\ step[h] # "idle" /\ HandlersOK
  BY <1>1 DEF HttpInv, HandlerInv, StepFits
<1>3. request[h] \in Requests /\ local[h] \in Locals
  BY <1>2, AtWork
<1>4. Handle(h) \/ Fail(h)
  <2>1. ~Arrive(h)
    BY <1>2 DEF Arrive, Receive
  <2> QED
    BY <1>1, <2>1, OwnStep
<1>5. \A next, l : ~Goto(h, next, l)
  BY <1>1 DEF Goto
<1>6. \A reply : End(h, reply) => answer'[h] = reply
  BY <1>2 DEF End, HandlersOK
<1> QED
  BY <1>2, <1>3, <1>4, <1>5, <1>6

\* A handler that ends without an answer was going on with an entry that is no more.
LEMMA ClosedBy ==
    ASSUME HttpInv, Next, NEW h \in Handlers, Ends(h), answer'[h].code = "closed",
           request[h].route # "form"
    PROVE  "raced" \in seen[h]
<1> DEFINE Open(reply) == reply.code # "closed"
<1>1. /\ Handle(h) \/ Fail(h)
      /\ \A next, l : ~Goto(h, next, l)
      /\ \A reply : End(h, reply) => answer'[h] = reply
      /\ HandlerInv(h)
  BY EndIs
<1>2. ASSUME NEW reply, End(h, reply), Open(reply) PROVE FALSE
  BY <1>1, <1>2
<1>3. ASSUME NEW code, code # "closed", End(h, Reply(code)) PROVE FALSE
  BY <1>2, <1>3 DEF Reply
<1>4. ASSUME NEW e, Respond(h, e) PROVE FALSE
  <2>1. Open([Reply("ok") EXCEPT !.id = e.uuid])
    BY DEF Reply
  <2> QED
    BY <1>1, <1>2, <1>4, <2>1 DEF Respond
<1>5. ASSUME NEW i, NEW m, End(h, [code |-> "ok", id |-> i, members |-> m]) PROVE FALSE
  BY <1>2, <1>5
<1>6. ~Begin(h)
  BY <1>1, <1>3 DEF Begin
<1>7. ~Authenticate(h) /\ ~CheckAdmin(h) /\ ~CheckPasswordOnly(h)
  BY <1>1, <1>3, <1>6 DEF Authenticate, CheckAdmin, CheckPasswordOnly
<1>8. ~Lookup(h)
  BY <1>1, <1>3, <1>4 DEF Lookup, Replace
<1>9. ~Resolve(h) /\ ~ShowMember(h)
  BY <1>1, <1>3, <1>5 DEF Resolve, ShowMember
<1>10. ~Written(h)
  BY <1>1, <1>3 DEF Written
<1>11. ~Create(h)
  <2>1. \A e : CreateStatus(e) # "closed"
    BY DEF CreateStatus
  <2> QED
    BY <1>3, <1>10, <2>1 DEF Create
<1>12. ~Write(h) /\ ~Delete(h)
  <2>1. \A e : UpdateStatus(e) # "closed"
    BY DEF UpdateStatus
  <2> QED
    BY <1>3, <1>10, <2>1 DEF Write, Delete
<1>13. ~Require(h)
  <2>1. Refused(h) # "closed"
    BY DEF Refused
  <2> QED
    BY <1>1, <1>3, <2>1 DEF Require
<1>14. ~Load(h)
  BY <1>1 DEF Load, HandlerInv, StepFits
<1>15. ~Fail(h)
  BY <1>1, <1>3, <1>5 DEF Fail, StoreFails
<1>16. Reread(h)
  BY <1>1, <1>7, <1>8, <1>9, <1>11, <1>12, <1>13, <1>14, <1>15 DEF Handle
<1>17. step[h] = "reread" /\ ~Exists(local[h].at)
  BY <1>4, <1>16 DEF Reread
<1> QED
  BY <1>1, <1>17 DEF HandlerInv, StillThere, Exists

\* The API and SCIM leave a client without an answer only when another request wrote since
\* theirs came.
THEOREM OnlyRacesClose == Spec => ClosedOnlyByRace
<1>1. HttpInv /\ [Next]_vars =>
        [\A h \in Handlers :
            (Ends(h) /\ answer'[h].code = "closed" /\ request[h].route # "form")
               => "raced" \in seen[h]]_vars
  BY ClosedBy
<1> QED
  BY <1>1, HttpInvariant, PTL DEF Spec, ClosedOnlyByRace

\* What an answer of a read shows.
LEMMA RespondAnswers ==
    ASSUME NEW h, NEW e, NEW r, r = request[h], r.route = "scim",
           \A next, l : ~Goto(h, next, l), Respond(h, e),
           \A reply : End(h, reply) => answer'[h] = reply
    PROVE  /\ answer'[h].id = e.uuid /\ answer'[h].members = {}
           /\ r.kind = "groupOfNames" => e.members = {}
<1>1. End(h, [Reply("ok") EXCEPT !.id = e.uuid]) /\ (r.kind = "groupOfNames" => e.members = {})
  BY DEF Respond
<1>2. answer'[h] = [Reply("ok") EXCEPT !.id = e.uuid]
  BY <1>1
<1>3. [Reply("ok") EXCEPT !.id = e.uuid] = [code |-> "ok", id |-> e.uuid, members |-> {}]
  BY DEF Reply
<1> QED
  BY <1>1, <1>2, <1>3

\* What an answer of SCIM shows: what was asked for, what was given.
LEMMA AnswerAsAsked ==
    ASSUME HttpInv, Next, NEW h \in Handlers, Ends(h), answer'[h].code = "ok",
           NEW r, r = request[h], r.route = "scim", r.op # "delete"
    PROVE  /\ (r.id # 0 /\ (r.op = "get" \/ "raced" \notin seen[h])) => answer'[h].id = r.id
           /\ (/\ r.op # "get" /\ r.kind = "groupOfNames" /\ "raced" \notin seen[h]
               /\ "failed" \notin seen[h] /\ ~StoreFails(h))
                 => answer'[h].members = r.members
<1> DEFINE Goal == /\ (r.id # 0 /\ (r.op = "get" \/ "raced" \notin seen[h]))
                         => answer'[h].id = r.id
                   /\ (/\ r.op # "get" /\ r.kind = "groupOfNames" /\ "raced" \notin seen[h]
                       /\ "failed" \notin seen[h] /\ ~StoreFails(h))
                         => answer'[h].members = r.members
<1>1. /\ Handle(h) \/ Fail(h)
      /\ \A next, l : ~Goto(h, next, l)
      /\ \A reply : End(h, reply) => answer'[h] = reply
      /\ HandlerInv(h) /\ TablesInv /\ r \in Requests /\ local[h] \in Locals
  BY EndIs
<1>2. ASSUME NEW code, code # "ok", End(h, Reply(code)) PROVE FALSE
  BY <1>1, <1>2 DEF Reply
<1>3. ~Begin(h)
  BY <1>1, <1>2 DEF Begin
<1>4. ~Authenticate(h) /\ ~CheckAdmin(h) /\ ~CheckPasswordOnly(h)
  BY <1>1, <1>2, <1>3 DEF Authenticate, CheckAdmin, CheckPasswordOnly
<1>5. ~Resolve(h)
  BY <1>1, <1>2 DEF Resolve
<1>6. r.op \notin {"ownPassword", "resetPassword"} /\ (r.op = "get" => r.id # 0)
  BY <1>1, RequestFields
<1>7. ~Written(h)
  BY <1>1, <1>6 DEF Written
<1>8. ~Create(h) /\ ~Write(h)
  <2>1. \A e : CreateStatus(e) # "ok" /\ UpdateStatus(e) # "ok"
    BY DEF CreateStatus, UpdateStatus
  <2> QED
    BY <1>2, <1>7, <2>1 DEF Create, Write
<1>9. ~Delete(h)
  BY <1>1 DEF Delete, HandlerInv, StepFits
<1>10. ~Require(h) /\ ~Load(h)
  <2>1. Refused(h) # "ok"
    BY DEF Refused
  <2> QED
    BY <1>1, <1>2, <2>1 DEF Require, Load
<1>11. CASE Lookup(h)
  <2>1. PICK row \in WithId(r) : r.op = "get" /\ Respond(h, LoadedEntry(row.dn))
    BY <1>1, <1>2, <1>11 DEF Lookup, Replace
  <2>2. LoadedEntry(row.dn).uuid = r.id
    BY <2>1, FoundById
  <2> QED
    BY <1>1, <2>1, <2>2, RespondAnswers
<1>12. CASE Reread(h)
  <2>1. step[h] = "reread" /\ Exists(local[h].at) /\ Respond(h, LoadedEntry(local[h].at))
    BY <1>2, <1>12 DEF Reread
  <2>2. PICK e : e = LoadedEntry(local[h].at)
    OBVIOUS
  <2>3. /\ answer'[h].id = e.uuid /\ answer'[h].members = {}
        /\ r.kind = "groupOfNames" => e.members = {}
    BY <1>1, <2>1, <2>2, RespondAnswers
  <2>4. /\ (r.id # 0 /\ "raced" \notin seen[h]) => e.uuid = r.id
        /\ (/\ r.kind = "groupOfNames"
            /\ "raced" \notin seen[h] /\ "failed" \notin seen[h]) => Named(e.members, r.members)
        /\ r.op # "get"
    BY <2>1, <2>2, RereadShows
  <2>5. Named({}, r.members) => r.members = {}
    BY DEF Named
  <2> QED
    BY <2>3, <2>4, <2>5
<1>13. CASE ShowMember(h)
  <2>1. step[h] = "show"
    BY <1>13 DEF ShowMember
  <2>2. PICK d \in local[h].pending :
            \E s, l : /\ s = (IF Exists(d) THEN StoredUuids(IdOf(d)) ELSE {})
                      /\ l = [local[h] EXCEPT !.pending = @ \ {d}, !.shown = @ \cup s]
                      /\ l.pending = {}
                      /\ End(h, [code |-> "ok", id |-> l.entry.uuid, members |-> l.shown])
    BY <1>1, <1>13 DEF ShowMember
  <2>3. PICK s, l : /\ s = (IF Exists(d) THEN StoredUuids(IdOf(d)) ELSE {})
                    /\ l = [local[h] EXCEPT !.pending = @ \ {d}, !.shown = @ \cup s]
                    /\ l.pending = {}
                    /\ End(h, [code |-> "ok", id |-> l.entry.uuid, members |-> l.shown])
    BY <2>2
  <2>4. l = [at |-> local[h].at, entry |-> local[h].entry, pending |-> local[h].pending \ {d},
             members |-> local[h].members, shown |-> local[h].shown \cup s]
    <3>1. PICK k \in Locals : k = local[h]
      BY <1>1
    <3>2. PICK p, x : p = k.pending \ {d} /\ x = k.shown \cup s
      OBVIOUS
    <3>3. [k EXCEPT !.pending = @ \ {d}, !.shown = @ \cup s]
            = [k EXCEPT !.pending = k.pending \ {d}, !.shown = k.shown \cup s]
      OBVIOUS
    <3>4. l = [k EXCEPT !.pending = p, !.shown = x]
      BY <2>3, <3>1, <3>2, <3>3
    <3>5. l = [at |-> k.at, entry |-> k.entry, pending |-> p, members |-> k.members, shown |-> x]
      BY <3>4, LocalPending
    <3> QED
      BY <3>1, <3>2, <3>5
  <2>5. l.entry = local[h].entry /\ l.pending = local[h].pending \ {d}
        /\ l.shown = local[h].shown \cup s
    BY <2>4
  <2>6. answer'[h].id = l.entry.uuid /\ answer'[h].members = l.shown
    BY <1>1, <2>3
  <2>7. (r.id # 0 /\ (r.op = "get" \/ "raced" \notin seen[h])) => l.entry.uuid = r.id
    BY <1>1, <2>1, <2>5 DEF HandlerInv, ShowsAsked
  <2>8. ASSUME r.op # "get", r.kind = "groupOfNames", "raced" \notin seen[h],
               "failed" \notin seen[h]
        PROVE  l.shown = r.members
    <3>1. Named(l.entry.members, r.members) /\ Named(l.entry.members \ l.pending, l.shown)
      BY <2>1, <2>3, <2>5, <2>8, ShownSoFar
    <3>2. l.entry.members \ l.pending = l.entry.members
      BY <2>3
    <3> QED
      BY <1>1, <3>1, <3>2, NamesAreUnique
  <2> QED
    BY <2>6, <2>7, <2>8
<1>14. CASE Fail(h)
  <2>1. StoreFails(h)
    BY <1>14 DEF Fail
  <2>2. PICK l : /\ \E d : l = [local[h] EXCEPT !.pending = @ \ {d}]
                 /\ step[h] = "show"
                 /\ End(h, [code |-> "ok", id |-> l.entry.uuid, members |-> l.shown])
    BY <1>1, <1>2, <2>1 DEF StoreFails
  <2>3. l.entry = local[h].entry
    BY <1>1, <2>2, LocalPending
  <2>4. answer'[h].id = l.entry.uuid
    BY <1>1, <2>2
  <2> QED
    BY <1>1, <2>1, <2>2, <2>3, <2>4 DEF HandlerInv, ShowsAsked
<1> QED
  BY <1>1, <1>4, <1>5, <1>8, <1>9, <1>10, <1>11, <1>12, <1>13, <1>14 DEF Handle

\* An answer of SCIM shows the id that was asked for; and of a group the ids that were
\* given, after they went to DNs, to the rows of the group and back.
THEOREM ScimAnswersAsAsked == Spec => AnswersAsAsked
<1>1. HttpInv /\ [Next]_vars =>
        [\A h \in Handlers :
            (/\ Ends(h) /\ answer'[h].code = "ok" /\ request[h].route = "scim"
             /\ request[h].op # "delete") =>
            \A r \in {request[h]} :
                /\ (r.id # 0 /\ (r.op = "get" \/ "raced" \notin seen[h])) => answer'[h].id = r.id
                /\ (/\ r.op # "get" /\ r.kind = "groupOfNames" /\ "raced" \notin seen[h]
                    /\ "failed" \notin seen[h] /\ ~StoreFails(h))
                      => answer'[h].members = r.members]_vars
  BY AnswerAsAsked
<1> QED
  BY <1>1, HttpInvariant, PTL DEF Spec, AnswersAsAsked

----
(* What the service writes is valid *)

\* What is read of each row, as a formula of its own: to be read after a step, too.
AllRead ==
    \A row \in entries :
        /\ LoadedEntry(row.dn).class = row.class
        /\ LoadedEntry(row.dn).members = {m \in DNs : <<row.id, m>> \in memberAttr}
        /\ LoadedEntry(row.dn).attrs = {a \in Attrs : <<row.id, a>> \in otherAttr}

LEMMA TablesAreRead == TablesInv => AllRead
  BY ReadAt DEF AllRead

LEMMA TablesAreReadNext == TablesInv' => AllRead'
  BY TablesAreRead, PTL

\* An entry the service edits has what its class requires if its copy had.
LEMMA EditedIsValid ==
    ASSUME HttpInv, NEW h \in Handlers, step[h] = "write", request[h].route # "form",
           ValidForClass(local[h].entry)
    PROVE  ValidForClass(Edited(h))
<1> DEFINE r == request[h]
           e == local[h].entry
<1>1. r \in Requests /\ HandlerInv(h)
  BY AtWork
<1>2. /\ e \in Entry /\ e.class = r.kind /\ r.valid
      /\ (r.op = "replace" /\ r.kind = "groupOfNames") => Given(h) # {}
  BY <1>1 DEF HandlerInv, CopyFits
<1>3. Required[e.class] \subseteq e.attrs /\ (e.class = "groupOfNames" => e.members # {})
  BY DEF ValidForClass
<1>4. Edited(h).class = e.class
  BY EditedIsEntry
<1>5. CASE r.op = "replace"
  <2>1. /\ Edited(h).attrs = (e.attrs \cap {Naming(r.kind)}) \cup r.attrs
        /\ r.kind = "groupOfNames" => Edited(h).members = Given(h)
    BY <1>5, EditedIsEntry DEF Kept
  <2>2. Required[r.kind] \subseteq r.attrs \cup {Naming(r.kind)}
    BY <1>1, <1>2, <1>5, RequestFields
  <2>3. Required[e.class] \subseteq Edited(h).attrs
    BY <1>2, <1>3, <2>1, <2>2
  <2> QED
    BY <1>2, <1>4, <1>5, <2>1, <2>3 DEF ValidForClass
<1>6. CASE r.op # "replace"
  <2>1. Edited(h).attrs = e.attrs /\ Edited(h).members = e.members
    BY <1>6, EditedIsEntry
  <2> QED
    BY <1>3, <1>4, <2>1 DEF ValidForClass
<1> QED
  BY <1>5, <1>6

LEMMA CommitIsValid ==
    ASSUME OneClassPerDN, HttpInv, Next, NEW h \in Handlers, Commits(h), step[h] # "delete",
           request[h].route # "form", step[h] = "write" => ValidForClass(local[h].entry),
           NEW d, d = local[h].at
    PROVE  ValidForClass(LoadedEntry(d))'
<1>1. /\ TablesInv /\ ClassesFit /\ HandlerInv(h)
      /\ \/ step[h] = "create" /\ CreateEntryTx(Created(h))
         \/ step[h] = "write" /\ UpdateEntryTx(Edited(h))
  BY CommitIs
<1>2. ASSUME NEW e, ValidForClass(e), TablesInv',
             NEW row \in entries', row.dn = d, row.class = e.class,
             {m \in DNs : <<row.id, m>> \in memberAttr'} = e.members,
             {a \in Attrs : <<row.id, a>> \in otherAttr'} = e.attrs
      PROVE  ValidForClass(LoadedEntry(d))'
  <2>1. AllRead'
    BY <1>2, TablesAreReadNext
  <2>2. /\ LoadedEntry(d)'.class = e.class /\ LoadedEntry(d)'.members = e.members
        /\ LoadedEntry(d)'.attrs = e.attrs
    BY <1>2, <2>1 DEF AllRead
  <2> QED
    BY <1>2, <2>2 DEF ValidForClass
<1>3. CASE step[h] = "create"
  <2>1. PICK e : e = Created(h)
    OBVIOUS
  <2>2. e \in Entry /\ e.dn = d
    BY <1>3, <2>1, CreatedIsEntry
  <2>3. CreateEntryTx(e)
    BY <1>1, <1>3, <2>1
  <2>4. ValidForClass(e)
    BY <2>3 DEF CreateEntryTx, CanCreate
  <2>5. PICK row \in entries' \ entries :
            /\ row.dn = e.dn /\ row.class = e.class
            /\ {m \in DNs : <<row.id, m>> \in memberAttr'} = e.members
            /\ {a \in Attrs : <<row.id, a>> \in otherAttr'} = e.attrs
    BY <1>1, <2>2, <2>3, CreateWrites
  <2>6. TablesInv'
    BY <1>1, <2>2, <2>3, CreateKeepsTables
  <2> QED
    BY <1>2, <2>2, <2>4, <2>5, <2>6
<1>4. CASE step[h] = "write"
  <2>1. PICK e : e = Edited(h)
    OBVIOUS
  <2>2. e \in Entry /\ e.dn = d /\ e.class = local[h].entry.class /\ e.class \in ClassesAt[d]
    BY <1>1, <1>4, <2>1, EditedIsEntry DEF HandlerInv, CopyFits
  <2>3. UpdateEntryTx(e)
    BY <1>1, <1>4, <2>1
  <2>4. ValidForClass(e)
    BY <1>4, <2>1, EditedIsValid
  <2>5. PICK row \in entries : row.dn = d
    BY <2>2, <2>3 DEF UpdateEntryTx, CanUpdate, Exists
  <2>6. row.class = e.class
    BY <1>1, <2>2, <2>5 DEF ClassesFit, OneClassPerDN, TablesInv, TablesOK, EntryRows
  <2>7. /\ entries' = entries
        /\ {m \in DNs : <<row.id, m>> \in memberAttr'} = e.members
        /\ {a \in Attrs : <<row.id, a>> \in otherAttr'} = e.attrs
    BY <1>1, <2>2, <2>3, <2>5, UpdateWrites
  <2>8. TablesInv'
    BY <1>1, <2>2, <2>3, UpdateKeepsTables
  <2> QED
    BY <1>2, <2>4, <2>5, <2>6, <2>7, <2>8
<1> QED
  BY <1>1, <1>3, <1>4

\* UpdateEntry does not validate: where a DN is only ever given to one class, the checks of
\* the service leave every entry the API and SCIM write with what its class requires.
THEOREM ServiceWritesValid ==
    ASSUME OneClassPerDN
    PROVE  Spec => ServiceKeepsValid
<1>1. HttpInv /\ [Next]_vars =>
        [\A h \in Handlers :
            (/\ Commits(h) /\ step[h] # "delete" /\ request[h].route # "form"
             /\ step[h] = "write" => ValidForClass(local[h].entry)) =>
            \A d \in {local[h].at} : ValidForClass(LoadedEntry(d))']_vars
  <2> SUFFICES ASSUME HttpInv, Next, NEW h \in Handlers, Commits(h), step[h] # "delete",
                      request[h].route # "form",
                      step[h] = "write" => ValidForClass(local[h].entry),
                      NEW d \in {local[h].at}
               PROVE  ValidForClass(LoadedEntry(d))'
    OBVIOUS
  <2> QED
    BY CommitIsValid
<1> QED
  BY <1>1, HttpInvariant, PTL DEF Spec, ServiceKeepsValid

====
