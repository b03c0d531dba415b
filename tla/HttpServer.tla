---- MODULE HttpServer ----
(***************************************************************************)
(* The web server (internal/web, internal/scim, internal/directory): the   *)
(* handlers that net/http runs concurrently over one store.  Three routes  *)
(* lead to a write: the forms, the JSON API over the directory service,    *)
(* and SCIM, which finds an entry by its id and goes to the service with   *)
(* its DN.  A handler is a sequence of steps, one for each call it makes   *)
(* to the store, so the store may change between them.                     *)
(*                                                                         *)
(* An attribute stands for the presence of a value that is not empty, a    *)
(* processed password for the plain one it verifies.  Lists of entries     *)
(* and the pages of the user interface are left out: they only read.       *)
(***************************************************************************)
EXTENDS SearchScope

CONSTANTS
    Handlers,           \* the goroutines that handle requests
    Requests,           \* bound: the requests clients send
    MaxRequests,        \* bound: how many of them
    AdminGroup,         \* cn=ldaplite.admin,ou=groups,<base>
    PasswordGroup,      \* cn=ldaplite.password,ou=groups,<base>
    Seed,               \* the entries there are at the start, in order of creation
    NoRequest, NoEntry

Naming(kind) ==
    CASE kind = "inetOrgPerson" -> "uid"
      [] kind = "groupOfNames" -> "cn"
      [] kind = "organizationalUnit" -> "ou"

\* What the routes take for a request: SCIM knows members and the entries it is asked for
\* by their ids, the others by their DNs; valid is what the checks of the input say, among
\* them that a replacement has what the class requires.
IsRequest(r) ==
    /\ r.op \in {"get", "create", "replace", "delete", "ownPassword", "resetPassword"}
    /\ r.route \in {"form", "api", "scim"}
    /\ r.kind \in Classes \ {"top"}
    /\ r.op = "get" => r.route = "scim"
    /\ r.op \in {"ownPassword", "resetPassword"} => r.route # "scim" /\ r.kind = "inetOrgPerson"
    /\ r.id \in Nat /\ (r.id # 0 <=> r.route = "scim" /\ r.op \in {"get", "replace", "delete"})
    /\ {r.user, r.dn} \subseteq DNs \cup {NoDN}
    /\ r.op = "create" => r.dn \in DNs \ {BaseDN} /\ r.kind \in ClassesAt[r.dn]
    /\ r.attrs \subseteq Attrs /\ r.password \in PasswordHashes
    /\ r.members \subseteq IF r.route = "scim" THEN Nat ELSE DNs
    /\ r.members # {} => r.kind = "groupOfNames"
    /\ (r.op = "replace" /\ r.route # "form" /\ r.valid) =>
          Required[r.kind] \subseteq r.attrs \cup {Naming(r.kind)}

ASSUME HttpAssumption ==
    /\ {"uid", "cn", "ou"} \subseteq Attrs
    /\ AdminGroup # BaseDN /\ PasswordGroup # BaseDN
    /\ \A r \in Requests : IsRequest(r)
    /\ NoRequest \notin Requests
    /\ SeedOK(Seed)

VARIABLES
    request,            \* the request each handler is handling
    step,               \* where it is
    local,              \* its variables
    answer,             \* the last response: a status, the id and the members it shows
    received,           \* how many requests came in
    seen                \* history: what held of the request at some moment since it came

handlers == <<request, step, local, answer, received>>
vars == <<tables, handlers, seen>>

Reply(code) == [code |-> code, id |-> 0, members |-> {}]

\* at: the DN the handler acts on; entry: its copy of the entry there; pending: the
\* members it has still to look up; members: the DNs it found; shown: the ids it found.
Fresh == [at |-> NoDN, entry |-> NoEntry, pending |-> {}, members |-> {}, shown |-> {}]

Init ==
    /\ SeededTables(Seed)
    /\ request = [h \in Handlers |-> NoRequest]
    /\ step = [h \in Handlers |-> "idle"]
    /\ local = [h \in Handlers |-> Fresh]
    /\ answer = [h \in Handlers |-> Reply("none")]
    /\ received = 0
    /\ seen = [h \in Handlers |-> {}]

Goto(h, next, l) ==
    /\ step' = [step EXCEPT ![h] = next]
    /\ local' = [local EXCEPT ![h] = l]
    /\ UNCHANGED <<request, answer, received>>

End(h, reply) ==
    /\ step' = [step EXCEPT ![h] = "idle"]
    /\ local' = [local EXCEPT ![h] = Fresh]
    /\ request' = [request EXCEPT ![h] = NoRequest]
    /\ answer' = [answer EXCEPT ![h] = reply]
    /\ UNCHANGED received

Receive(h, r) ==
    /\ step[h] = "idle"
    /\ received < MaxRequests
    /\ received' = received + 1
    /\ request' = [request EXCEPT ![h] = r]
    /\ step' = [step EXCEPT ![h] = "authenticate"]
    /\ answer' = [answer EXCEPT ![h] = Reply("none")]
    /\ UNCHANGED <<tables, local>>

----
(* Authorization: RequireCapability *)

\* GetUserPasswordHash finds the user by the uid attribute.
Verified(r) ==
    /\ Exists(r.user) /\ "uid" \in LoadedEntry(r.user).attrs
    /\ HashAt(r.user) = r.secret

IsAdmin(r) == IsUserInGroup(r.user, AdminGroup)

\* Mutant: every password operation takes password.changeSelf.
AnyPassword(r, passwordOnly) ==
    r.op \in {"ownPassword", "resetPassword"} \/ (r.op = "get" /\ ~passwordOnly)

\* What a user who is no administrator is capable of.
Capable(r, passwordOnly) == r.op = "ownPassword" \/ (r.op = "get" /\ ~passwordOnly)

\* What handlers refuse before they call the store.
Malformed(r) ==
    \/ r.op = "create" /\ ~r.valid
    \/ r.op \in {"ownPassword", "resetPassword"} /\ r.password = NoPassword

FirstStep(r) ==
    CASE r.op \in {"get", "replace", "delete"} /\ r.route = "scim" -> "lookup"
      [] r.op = "create" /\ r.route = "scim" /\ r.kind = "groupOfNames" -> "resolve"
      [] r.op = "create" /\ ~(r.route = "scim" /\ r.kind = "groupOfNames") -> "create"
      [] r.op = "replace" /\ r.route = "form" -> "load"
      [] r.op = "delete" /\ r.route # "scim" -> "delete"
      [] OTHER -> "require"

\* The middleware calls the handler.
Begin(h) ==
    LET r == request[h]
        first == FirstStep(r)
    IN  IF Malformed(r) THEN End(h, Reply("badRequest"))
        ELSE Goto(h, first,
                  [Fresh EXCEPT !.at = IF r.op = "ownPassword" THEN r.user ELSE r.dn,
                                !.pending = IF first = "resolve" THEN r.members ELSE {}])

\* GetUserPasswordHash and Verify.
Authenticate(h) ==
    /\ step[h] = "authenticate"
    /\ IF Verified(request[h]) THEN Goto(h, "admin", Fresh)
       ELSE End(h, Reply("unauthorized"))
    /\ UNCHANGED tables

\* Capabilities asks for the two groups one after the other.
CheckAdmin(h) ==
    /\ step[h] = "admin"
    /\ IF IsAdmin(request[h]) THEN Begin(h) ELSE Goto(h, "passwordOnly", Fresh)
    /\ UNCHANGED tables

CheckPasswordOnly(h) ==
    LET r == request[h]
    IN  /\ step[h] = "passwordOnly"
        /\ IF Capable(r, IsUserInGroup(r.user, PasswordGroup)) THEN Begin(h)
           ELSE End(h, Reply("forbidden"))
        /\ UNCHANGED tables

----
(* SCIM: from ids to DNs and back *)

\* Mutant: the filter asks for the class only.
AllOfClass(r) == {row \in Subtrees(BaseDN) : row.class = r.kind}

\* userByID, groupByID: a compiled filter over the subtree of the base.
WithId(r) ==
    {row \in Subtrees(BaseDN) : row.class = r.kind /\ r.id \in StoredUuids(row.id)}

\* userResource, groupResource: the latter reads each member.
Respond(h, e) ==
    IF request[h].route = "scim" /\ request[h].kind = "groupOfNames" /\ e.members # {}
    THEN Goto(h, "show", [local[h] EXCEPT !.entry = e, !.pending = e.members])
    ELSE End(h, [Reply("ok") EXCEPT !.id = e.uuid])

\* userDirectoryInput, groupDirectoryInput: a replacement does not rename.
Replace(h, e) ==
    LET r == request[h]
    IN  IF ~r.valid \/ (Naming(r.kind) \in e.attrs /\ r.dn # e.dn)
        THEN End(h, Reply("badRequest"))
        ELSE Goto(h, IF r.members = {} THEN "require" ELSE "resolve",
                  [local[h] EXCEPT !.at = e.dn, !.pending = r.members])

Lookup(h) ==
    LET r == request[h]
    IN  /\ step[h] = "lookup"
        /\ \/ WithId(r) = {} /\ End(h, Reply("notFound"))
           \/ \E row \in WithId(r) :
                 LET e == LoadedEntry(row.dn)
                 IN  \/ r.op = "get" /\ Respond(h, e)
                     \/ r.op = "delete" /\ Goto(h, "delete", [local[h] EXCEPT !.at = e.dn])
                     \/ r.op = "replace" /\ Replace(h, e)
        /\ UNCHANGED tables

\* memberDNBySCIMID: the equality fast path, which needs no parents.
MembersWithId(u) ==
    {row \in entries : u \in StoredUuids(row.id) /\ InScope(row, BaseDN, "sub")}

Resolve(h) ==
    /\ step[h] = "resolve"
    /\ \E u \in local[h].pending :
          \/ MembersWithId(u) = {} /\ End(h, Reply("badRequest"))
          \/ \E row \in MembersWithId(u) :
                LET l == [local[h] EXCEPT !.pending = @ \ {u}, !.members = @ \cup {row.dn}]
                IN  Goto(h, IF l.pending # {} THEN "resolve"
                            ELSE IF request[h].op = "create" THEN "create" ELSE "require", l)
    /\ UNCHANGED tables

\* memberResource: a member whose entry is gone, or cannot be read, is not shown.
ShowMember(h) ==
    /\ step[h] = "show"
    /\ \E d \in local[h].pending :
          LET l == [local[h] EXCEPT !.pending = @ \ {d},
                                    !.shown = @ \cup IF Exists(d) THEN StoredUuids(IdOf(d)) ELSE {}]
          IN  IF l.pending # {} THEN Goto(h, "show", l)
              ELSE End(h, [code |-> "ok", id |-> l.entry.uuid, members |-> l.shown])
    /\ UNCHANGED tables

----
(* The directory service and the forms *)

\* The members a request asks for, as DNs.
Given(h) == IF request[h].route = "scim" THEN local[h].members ELSE request[h].members

Created(h) ==
    LET r == request[h]
    IN  NewEntry(local[h].at, r.kind,
                 [attrs |-> r.attrs, members |-> Given(h), password |-> r.password])

\* Mutant: what the update does not set is not kept.
KeptNothing(kind) == {}

\* What the update of each kind keeps of an entry's attributes: it sets the others that
\* are its own, and removes the rest before it adds those of the request.
Kept(kind) == {Naming(kind)}

\* UpdateUser, UpdateGroup, UpdateOU, setUserPassword and the update of each form, on the
\* copy.  replaceExtraAttributes takes entryUUID out, and member if it is not of the kind.
Edited(h) ==
    LET r == request[h]
        e == local[h].entry
    IN  IF r.op = "replace"
        THEN [e EXCEPT !.attrs = (@ \cap Kept(r.kind)) \cup r.attrs,
                       !.members = IF r.kind = "groupOfNames" THEN Given(h) ELSE {},
                       !.password = r.password, !.uuid = 0]
        ELSE [e EXCEPT !.password = r.password]

\* statusForError, writeDirectoryError; a form shows the error.
CreateStatus(e) ==
    CASE WithinBase(e.dn) /\ ~Exists(e.parent) -> "notFound"
      [] PlacementOK(e) /\ Exists(e.dn) -> "conflict"
      [] OTHER -> "badRequest"

UpdateStatus(e) == IF Exists(e.dn) THEN "badRequest" ELSE "notFound"

\* The service reads what it wrote; a form redirects.
Written(h) ==
    IF request[h].route = "form" \/ request[h].op \in {"ownPassword", "resetPassword"}
    THEN End(h, Reply("ok")) ELSE Goto(h, "reread", local[h])

Create(h) ==
    /\ step[h] = "create"
    /\ \/ CreateEntryTx(Created(h)) /\ Written(h)
       \/ ~CanCreate(Created(h)) /\ End(h, Reply(CreateStatus(Created(h)))) /\ UNCHANGED tables

\* Mutant: the entry is not compared with nil.
RequireAny(h) == IF Exists(local[h].at) THEN "badRequest" ELSE "closed"

\* Why requireEntry, or the update after it, refuses.
Refused(h) == IF Exists(local[h].at) THEN "badRequest" ELSE "notFound"

\* requireEntry, and what the update checks of its input.
Require(h) ==
    LET r == request[h]
        d == local[h].at
        fit == /\ Exists(d) /\ RowAt(d).class = r.kind
               /\ r.valid
               /\ (r.op = "replace" /\ r.kind = "groupOfNames") => Given(h) # {}
    IN  /\ step[h] = "require"
        /\ IF fit THEN Goto(h, "write", [local[h] EXCEPT !.entry = LoadedEntry(d)])
           ELSE End(h, Reply(Refused(h)))
        /\ UNCHANGED tables

\* The form's update: GetEntry returns nil and no error for an entry that does not exist,
\* and the handler goes on to use it.  net/http recovers and closes the connection.
Load(h) ==
    /\ step[h] = "load"
    /\ IF Exists(local[h].at)
       THEN Goto(h, "write", [local[h] EXCEPT !.entry = LoadedEntry(local[h].at)])
       ELSE End(h, Reply("closed"))
    /\ UNCHANGED tables

Write(h) ==
    /\ step[h] = "write"
    /\ \/ UpdateEntryTx(Edited(h)) /\ Written(h)
       \/ ~CanUpdate(Edited(h)) /\ End(h, Reply(UpdateStatus(Edited(h)))) /\ UNCHANGED tables

Delete(h) ==
    /\ step[h] = "delete"
    /\ \/ DeleteEntryTx(local[h].at) /\ End(h, Reply("ok"))
       \/ ~Exists(local[h].at) /\ End(h, Reply("notFound")) /\ UNCHANGED tables

\* The service's last GetEntry: nil when the entry has been deleted since, and the handler
\* then fails on it.
Reread(h) ==
    /\ step[h] = "reread"
    /\ IF Exists(local[h].at) THEN Respond(h, LoadedEntry(local[h].at))
       ELSE End(h, Reply("closed"))
    /\ UNCHANGED tables

\* A call to the store fails, SQLite being busy.  memberResource then leaves the member out.
StoreFails(h) ==
    /\ \/ /\ step[h] \notin {"idle", "show"}
          /\ End(h, Reply(CASE step[h] = "authenticate" -> "unauthorized"
                            [] step[h] = "resolve" -> "badRequest"
                            [] OTHER -> "error"))
       \/ /\ step[h] = "show"
          /\ \E d \in local[h].pending :
                LET l == [local[h] EXCEPT !.pending = @ \ {d}]
                IN  IF l.pending # {} THEN Goto(h, "show", l)
                    ELSE End(h, [code |-> "ok", id |-> l.entry.uuid, members |-> l.shown])
    /\ UNCHANGED tables

----
(* History: what has been so, at some moment, since the request came *)

Sees(h) ==
    {x \in {"credential", "admin"} :
        \/ x = "credential" /\ Verified(request[h])
        \/ x = "admin" /\ IsAdmin(request[h])}

\* A write of one handler races with the requests the others handle.
Observe(h, also) ==
    seen' = [i \in Handlers |->
                IF request'[i] = NoRequest THEN {}
                ELSE seen[i] \cup Sees(i)' \cup (IF i = h THEN also ELSE {})
                       \cup {x \in {"raced"} : i # h /\ tables' # tables}]

Arrive(h) == \E r \in Requests : Receive(h, r) /\ Observe(h, {})

Handle(h) ==
    /\ Authenticate(h) \/ CheckAdmin(h) \/ CheckPasswordOnly(h)
         \/ Lookup(h) \/ Resolve(h) \/ ShowMember(h)
         \/ Create(h) \/ Require(h) \/ Load(h) \/ Write(h) \/ Delete(h) \/ Reread(h)
    /\ Observe(h, {})

Fail(h) == StoreFails(h) /\ Observe(h, {"failed"})

Next == \E h \in Handlers : Arrive(h) \/ Handle(h) \/ Fail(h)

Spec == Init /\ [][Next]_vars

----
(* Properties *)

\* The handler of h ends in this step.
Ends(h) == request[h] # NoRequest /\ request'[h] = NoRequest

\* This step is the write of h and commits.
Commits(h) ==
    /\ step[h] \in {"create", "write", "delete"} /\ step'[h] # step[h]
    /\ tables' # tables

\* Every write through the web is by a user who gave their password and was an administrator
\* at some moment since the request came; the others change nothing but their own entry.
WebWritesAuthorized ==
    [][\A h \in Handlers : Commits(h) =>
          /\ "credential" \in seen[h]
          /\ \/ "admin" \in seen[h]
             \/ /\ request[h].op = "ownPassword"
                /\ OnlyRowsOf(IdOf(request[h].user))]_vars

\* SCIM finds an entry by its id and acts on its DN, which may name another entry by then:
\* but as long as there is an entry with that id, it is the one that is written.
WritesAskedEntry ==
    [][\A h \in Handlers : (Commits(h) /\ request[h].id # 0) =>
          \A row \in entries : request[h].id \in StoredUuids(row.id) =>
              IF step[h] = "delete" THEN entries' = entries \ {row} ELSE OnlyRowsOf(row.id)]_vars

\* A SCIM answer shows the id that was asked for, and a group the members it was given,
\* whose ids went to DNs, rows and back, unless another request wrote meanwhile or a read
\* of a member failed.
AnswersAsAsked ==
    [][\A h \in Handlers :
          (/\ Ends(h) /\ answer'[h].code = "ok" /\ request[h].route = "scim"
           /\ request[h].op # "delete") =>
          \A r \in {request[h]} :
              /\ (r.id # 0 /\ (r.op = "get" \/ "raced" \notin seen[h])) => answer'[h].id = r.id
              /\ (/\ r.op # "get" /\ r.kind = "groupOfNames" /\ "raced" \notin seen[h]
                  /\ "failed" \notin seen[h] /\ ~StoreFails(h))
                    => answer'[h].members = r.members]_vars

\* The API and SCIM leave a client without an answer only when another request wrote while
\* they were at work; the one that was lost may have been carried out.
ClosedOnlyByRace ==
    [][\A h \in Handlers :
          (Ends(h) /\ answer'[h].code = "closed" /\ request[h].route # "form")
             => "raced" \in seen[h]]_vars

\* The store does not validate an updated entry against its class; the service's own checks
\* are enough for it: what the API and SCIM write is valid if what they read was.
ServiceKeepsValid ==
    [][\A h \in Handlers :
          (/\ Commits(h) /\ step[h] # "delete" /\ request[h].route # "form"
           /\ step[h] = "write" => ValidForClass(local[h].entry)) =>
          \A d \in {local[h].at} : ValidForClass(LoadedEntry(d))']_vars

----
(* The inductive invariant behind the properties *)

Steps == {"idle", "authenticate", "admin", "passwordOnly", "lookup", "resolve", "show",
          "create", "require", "load", "write", "delete", "reread"}

Locals == [at : DNs \cup {NoDN}, entry : Entry \cup {NoEntry},
           pending : SUBSET (DNs \cup Nat), members : SUBSET DNs, shown : SUBSET Nat]

HandlersOK ==
    /\ request \in [Handlers -> Requests \cup {NoRequest}]
    /\ step \in [Handlers -> Steps]
    /\ local \in [Handlers -> Locals]
    /\ DOMAIN answer = Handlers /\ DOMAIN seen = Handlers

\* What the routes of a request lead to, and what the handler carries there.
StepFits(h) ==
    LET r == request[h]
        l == local[h]
    IN  /\ step[h] = "idle" <=> r = NoRequest
        /\ step[h] # "show" => l.shown = {}
        /\ step[h] = "lookup" => r.id # 0 /\ l.members = {}
        /\ step[h] = "resolve" => /\ r.op \in {"create", "replace"} /\ r.route = "scim"
                                  /\ r.kind = "groupOfNames"
        /\ step[h] = "show" => /\ r.op \in {"get", "create", "replace"} /\ r.route = "scim"
                               /\ r.kind = "groupOfNames" /\ l.entry \in Entry
        /\ step[h] = "create" => r.op = "create"
        /\ (step[h] \in {"resolve", "create"} /\ r.op = "create") => l.at = r.dn
        /\ step[h] = "load" => r.op = "replace" /\ r.route = "form"
        /\ step[h] \in {"require", "write"} =>
              /\ r.op \in {"replace", "ownPassword", "resetPassword"}
              /\ r.op = "ownPassword" => l.at = r.user
        /\ step[h] = "delete" => r.op = "delete"
        /\ step[h] = "reread" => r.op \in {"create", "replace"} /\ r.route # "form"

\* The copy to write back, as it was read.
CopyFits(h) ==
    LET r == request[h]
        l == local[h]
    IN  step[h] = "write" =>
           /\ l.entry \in Entry /\ l.entry.dn = l.at /\ l.entry.class \in ClassesAt[l.at]
           /\ r.route # "form" =>
                 /\ l.entry.class = r.kind /\ r.valid
                 /\ (r.op = "replace" /\ r.kind = "groupOfNames") => Given(h) # {}

SeesNow(h) == request[h] # NoRequest => Sees(h) \subseteq seen[h]

StillAuthorized(h) ==
    /\ step[h] \notin {"idle", "authenticate"} => "credential" \in seen[h]
    /\ step[h] \notin {"idle", "authenticate", "admin", "passwordOnly"} =>
          "admin" \in seen[h] \/ request[h].op \in {"get", "ownPassword"}

\* Whatever has the id asked for has the DN the handler goes on with; and it is there still
\* unless another request wrote.
SameEntry(h) ==
    (/\ step[h] \in {"resolve", "require", "write", "delete", "reread"}
     /\ request[h].id # 0 /\ request[h].op # "get") =>
        /\ request[h].id < nextUuid
        /\ \A row \in entries : <<row.id, request[h].id>> \in uuidAttr => row.dn = local[h].at
        /\ "raced" \notin seen[h] =>
              \E row \in entries : row.dn = local[h].at /\ <<row.id, request[h].id>> \in uuidAttr

\* What the handler wrote is there to be read again, unless another request wrote.
StillThere(h) ==
    (step[h] = "reread" /\ "raced" \notin seen[h]) => \E row \in entries : row.dn = local[h].at

ShowsAsked(h) ==
    (/\ step[h] = "show" /\ request[h].id # 0
     /\ request[h].op = "get" \/ "raced" \notin seen[h]) => local[h].entry.uuid = request[h].id

\* The DNs are those of the entries with the ids.
Named(ds, ids) ==
    /\ \A d \in ds : \E row \in entries, u \in ids : row.dn = d /\ <<row.id, u>> \in uuidAttr
    /\ \A u \in ids : \E row \in entries : row.dn \in ds /\ <<row.id, u>> \in uuidAttr

\* The members of a SCIM group on their way from ids to DNs, to the entry and back.
MembersFollow(h) ==
    LET r == request[h]
        l == local[h]
    IN  (/\ step[h] \in {"resolve", "create", "require", "write", "reread", "show"}
         /\ r.route = "scim" /\ r.kind = "groupOfNames" /\ r.op # "get"
         /\ "raced" \notin seen[h] /\ "failed" \notin seen[h]) =>
           /\ step[h] = "resolve" => /\ l.pending \subseteq r.members
                                     /\ Named(l.members, r.members \ l.pending)
           /\ step[h] \in {"create", "require", "write", "reread"} => Named(l.members, r.members)
           /\ step[h] = "reread" =>
                 \A row \in entries : row.dn = l.at =>
                     {m \in DNs : <<row.id, m>> \in memberAttr} = l.members
           /\ step[h] = "show" => /\ l.pending \subseteq l.entry.members
                                  /\ Named(l.entry.members, r.members)
                                  /\ Named(l.entry.members \ l.pending, l.shown)

HandlerInv(h) ==
    /\ StepFits(h) /\ CopyFits(h) /\ SeesNow(h) /\ StillAuthorized(h)
    /\ SameEntry(h) /\ StillThere(h) /\ ShowsAsked(h) /\ MembersFollow(h)

ClassesFit == \A r \in entries : r.class \in ClassesAt[r.dn]

HttpInv ==
    /\ TablesInv
    /\ ClassesFit
    /\ HandlersOK
    /\ \A h \in Handlers : HandlerInv(h)

====
