---- MODULE LdapServer ----
(***************************************************************************)
(* The LDAP server (internal/server): the handlers that connections run    *)
(* concurrently over one store.  A handler is a sequence of steps, one for *)
(* each call it makes to the store, so the store may change between them.  *)
(*                                                                         *)
(* A connection handles one request at a time.  A processed password       *)
(* stands for the plain one it verifies.                                   *)
(***************************************************************************)
EXTENDS GroupMembership

CONSTANTS
    Conns,              \* connections
    Requests,           \* bound: the requests clients send
    MaxRequests,        \* bound: how many of them
    AdminGroup,         \* cn=ldaplite.admin,ou=groups,<base>
    AllowAnonymous,     \* cfg.Security.AllowAnonymousBind
    Seed,               \* the entries there are at the start, in order of creation
    NoRequest, NoEntry

\* What a request may be refused for on its own account.
Refusals == {"none", "unwillingToPerform", "constraintViolation", "objectClassViolation"}

IsRequest(r) ==
    \/ r \in [op : {"bind"}, dn : DNs \cup {NoDN}, password : PasswordHashes]
    \/ r \in [op : {"unbind"}, dn : {NoDN}]
    \/ r \in [op : {"delete", "compare"}, dn : DNs]
    \/ /\ r \in [op : {"add"}, dn : DNs, entry : Entry, refusal : Refusals]
       /\ r.entry.dn = r.dn /\ r.entry.class \in ClassesAt[r.dn]
    \/ r \in [op : {"modify"}, dn : DNs, changes : SUBSET {"attrs", "members", "password"},
              attrs : SUBSET Attrs, members : SUBSET DNs, password : PasswordHashes,
              refusal : Refusals]

ASSUME ServerAssumption ==
    /\ SeedOK(Seed)
    /\ \A r \in Requests : IsRequest(r)
    /\ NoRequest \notin Requests

VARIABLES
    session,            \* Connection.bound and boundDN
    request,            \* the request each connection is handling
    step,               \* where its handler is
    copy,               \* the entry handleModify has read
    hash,               \* the hash handleBind has read
    answer,             \* the last result code
    received,           \* how many requests came in
    seen                \* history: what held of the request at some moment since it came

handlers == <<session, request, step, copy, hash, answer, received>>
vars == <<tables, handlers, seen>>

Unbound == [bound |-> FALSE, dn |-> NoDN]

Init ==
    /\ SeededTables(Seed)
    /\ session = [c \in Conns |-> Unbound]
    /\ request = [c \in Conns |-> NoRequest]
    /\ step = [c \in Conns |-> "idle"]
    /\ copy = [c \in Conns |-> NoEntry]
    /\ hash = [c \in Conns |-> NoPassword]
    /\ answer = [c \in Conns |-> "none"]
    /\ received = 0
    /\ seen = [c \in Conns |-> {}]

----
(* What the handlers ask *)

\* authz: an actor with an identity that is, in any way, in the admin group.
DirectoryWrite(s) == s.bound /\ s.dn # NoDN /\ IsUserInGroup(s.dn, AdminGroup)

\* Mutant: whose password it is is not compared.
AnyPasswordModify(s, r) == s.bound /\ s.dn # NoDN /\ r.changes = {"password"}

\* Mutant: what changes is not looked at.
SelfModify(s, r) == s.bound /\ s.dn # NoDN /\ s.dn = r.dn

\* isSelfPasswordModify: nothing but replacing the own password.
SelfPasswordModify(s, r) ==
    /\ s.bound /\ s.dn # NoDN /\ s.dn = r.dn
    /\ r.changes = {"password"}

CanModify(s, r) == DirectoryWrite(s) \/ SelfPasswordModify(s, r)

CanSearch(s) == s.bound /\ (s.dn = NoDN => AllowAnonymous)

Authorized(c) ==
    CASE request[c].op \in {"add", "delete"} -> DirectoryWrite(session[c])
      [] request[c].op = "modify" -> CanModify(session[c], request[c])
      [] request[c].op = "compare" -> CanSearch(session[c])

\* The changes of a Modify request, applied to the copy.
Applied(r, e) ==
    [e EXCEPT !.attrs = IF "attrs" \in r.changes THEN r.attrs ELSE @,
              !.members = IF "members" \in r.changes THEN r.members ELSE @,
              !.password = IF "password" \in r.changes THEN r.password ELSE @]

\* Why the store refuses to create or update an entry, in the order it looks.
CreateRefusal(e) ==
    CASE ~WithinBase(e.dn) -> "constraintViolation"
      [] WithinBase(e.dn) /\ e.dn = BaseDN -> "operationsError"
      [] WithinBase(e.dn) /\ e.dn # BaseDN /\ ~Exists(e.parent) -> "noSuchObject"
      [] PlacementOK(e) /\ Exists(e.dn) -> "entryAlreadyExists"
      [] PlacementOK(e) /\ ~Exists(e.dn) /\ ~ValidForClass(e) -> "objectClassViolation"
      [] OTHER -> "constraintViolation"

\* Mutant: every refusal is reported as a missing entry.
UpdateRefusalMerged(e) == "noSuchObject"

UpdateRefusal(e) == IF Exists(e.dn) THEN "constraintViolation" ELSE "noSuchObject"

----
(* Steps *)

Continue(c, next) ==
    /\ step' = [step EXCEPT ![c] = next]
    /\ UNCHANGED <<request, answer, received>>

\* Mutant: the path of a constraint error returns without WriteResponse.
AnswerMostly(c, code) ==
    /\ step' = [step EXCEPT ![c] = "idle"]
    /\ request' = [request EXCEPT ![c] = NoRequest]
    /\ answer' = [answer EXCEPT ![c] = IF code = "constraintViolation" THEN "none" ELSE code]
    /\ UNCHANGED received

\* WriteResponse; the connection then reads its next message.
Answer(c, code) ==
    /\ step' = [step EXCEPT ![c] = "idle"]
    /\ request' = [request EXCEPT ![c] = NoRequest]
    /\ answer' = [answer EXCEPT ![c] = code]
    /\ UNCHANGED received

Forget(c) ==
    /\ copy' = [copy EXCEPT ![c] = NoEntry]
    /\ hash' = [hash EXCEPT ![c] = NoPassword]

Receive(c, r) ==
    /\ step[c] = "idle"
    /\ received < MaxRequests
    /\ received' = received + 1
    /\ request' = [request EXCEPT ![c] = r]
    /\ answer' = [answer EXCEPT ![c] = "none"]
    /\ step' = [step EXCEPT ![c] = IF r.op \in {"bind", "unbind"} THEN r.op ELSE "authorize"]
    /\ UNCHANGED <<tables, session, copy, hash>>

\* Mutant: the old identity stays until the new one is proved.
KeepBoundDN(s) == s

ClearBoundDN(s) == Unbound

\* handleBind drops the identity first.
Bind(c) ==
    LET r == request[c]
        anonymous == r.dn = NoDN \/ r.password = NoPassword
    IN  /\ step[c] = "bind"
        /\ session' = [session EXCEPT ![c] =
                IF anonymous /\ AllowAnonymous THEN [bound |-> TRUE, dn |-> NoDN]
                ELSE ClearBoundDN(@)]
        /\ IF anonymous
           THEN Answer(c, IF AllowAnonymous THEN "success" ELSE "invalidCredentials")
                /\ UNCHANGED hash
           ELSE IF HashAt(r.dn) = NoPassword
           THEN Answer(c, "invalidCredentials") /\ UNCHANGED hash
           ELSE Continue(c, "verify") /\ hash' = [hash EXCEPT ![c] = HashAt(r.dn)]
        /\ UNCHANGED <<tables, copy>>

Verify(c) ==
    LET valid == request[c].password = hash[c]
    IN  /\ step[c] = "verify"
        /\ session' = [session EXCEPT ![c] =
                IF valid THEN [bound |-> TRUE, dn |-> request[c].dn] ELSE @]
        /\ Answer(c, IF valid THEN "success" ELSE "invalidCredentials")
        /\ Forget(c)
        /\ UNCHANGED tables

\* handleUnbind clears the identity and answers nothing; the connection stays open.
Unbind(c) ==
    /\ step[c] = "unbind"
    /\ session' = [session EXCEPT ![c] = ClearBoundDN(@)]
    /\ Answer(c, "none")
    /\ UNCHANGED <<tables, copy, hash>>

\* canWrite, canModify, canSearch.
Authorize(c) ==
    /\ step[c] = "authorize"
    /\ IF Authorized(c)
       THEN Continue(c, IF request[c].op \in {"add", "delete"} THEN "exists" ELSE "read")
       ELSE Answer(c, "insufficientAccessRights")
    /\ UNCHANGED <<tables, session, copy, hash>>

\* EntryExists, then what the request itself may be refused for.
CheckExists(c) ==
    LET r == request[c]
    IN  /\ step[c] = "exists"
        /\ IF r.op = "add"
           THEN IF Exists(r.dn) THEN Answer(c, "entryAlreadyExists")
                ELSE IF r.refusal # "none" THEN Answer(c, r.refusal)
                ELSE Continue(c, "write")
           ELSE IF Exists(r.dn) THEN Continue(c, "write") ELSE Answer(c, "noSuchObject")
        /\ UNCHANGED <<tables, session, copy, hash>>

\* GetEntryWithOptions.  handleCompare answers from the entry; handleModify refuses
\* protected attributes and passwords it cannot process, or goes on with its copy.
ReadEntry(c) ==
    LET r == request[c]
    IN  /\ step[c] = "read"
        /\ IF ~Exists(r.dn) THEN Answer(c, "noSuchObject") /\ UNCHANGED copy
           ELSE IF r.op = "compare" THEN Answer(c, "compared") /\ UNCHANGED copy
           ELSE IF r.refusal # "none" THEN Answer(c, r.refusal) /\ UNCHANGED copy
           ELSE Continue(c, "write") /\ copy' = [copy EXCEPT ![c] = LoadedEntry(r.dn)]
        /\ UNCHANGED <<tables, session, hash>>

Store(r, e) ==
    CASE r.op = "add" -> CreateEntryTx(r.entry)
      [] r.op = "delete" -> DeleteEntryTx(r.dn)
      [] r.op = "modify" -> UpdateEntryTx(Applied(r, e))

\* Why the store would refuse the write in this state; "none" when it would not.
Refusal(r, e) ==
    CASE r.op = "add" -> IF CanCreate(r.entry) THEN "none" ELSE CreateRefusal(r.entry)
      [] r.op = "delete" -> IF Exists(r.dn) THEN "none" ELSE "operationsError"
      [] r.op = "modify" ->
            IF CanUpdate(Applied(r, e)) THEN "none" ELSE UpdateRefusal(Applied(r, e))

\* The store's transaction commits, or is refused.
Write(c) ==
    /\ step[c] = "write"
    /\ \/ Store(request[c], copy[c]) /\ Answer(c, "success")
       \/ /\ Refusal(request[c], copy[c]) # "none"
          /\ Answer(c, Refusal(request[c], copy[c]))
          /\ UNCHANGED tables
    /\ Forget(c)
    /\ UNCHANGED session

\* A call to the store fails, SQLite being busy.
StoreFails(c) ==
    /\ \/ /\ step[c] \in {"authorize", "exists", "read", "write"}
          /\ step[c] = "authorize" => request[c].op # "compare"
          /\ Answer(c, "operationsError")
          /\ UNCHANGED session
       \/ /\ step[c] = "bind"
          /\ request[c].dn # NoDN /\ request[c].password # NoPassword
          /\ Answer(c, "invalidCredentials")
          /\ session' = [session EXCEPT ![c] = ClearBoundDN(@)]
    /\ Forget(c)
    /\ UNCHANGED tables

----
(* History: what has been so, at some moment, since the request came *)

Sees(c) ==
    LET r == request[c]
    IN  {x \in {"admin", "present", "absent", "credential"} :
            \/ x = "admin" /\ DirectoryWrite(session[c])
            \/ x = "present" /\ Exists(r.dn)
            \/ x = "absent" /\ ~Exists(r.dn)
            \/ x = "credential" /\ r.op = "bind" /\ HashAt(r.dn) = r.password}

Observe ==
    seen' = [c \in Conns |->
                IF request'[c] = NoRequest THEN {} ELSE seen[c] \cup Sees(c)']

Handle(c) ==
    /\ Bind(c) \/ Verify(c) \/ Unbind(c) \/ Authorize(c)
         \/ CheckExists(c) \/ ReadEntry(c) \/ Write(c)
    /\ Observe

Fail(c) == StoreFails(c) /\ Observe

Arrive(c) == \E r \in Requests : Receive(c, r) /\ Observe

Next == \E c \in Conns : Arrive(c) \/ Handle(c) \/ Fail(c)

\* Goroutines are scheduled and calls to the store return; clients may send nothing, and
\* nothing relies on a call to fail.
Fairness == \A c \in Conns : WF_vars(Handle(c))

Spec == Init /\ [][Next]_vars /\ Fairness

----
(* Properties *)

\* The handler of c ends in this step.
Ends(c) == request[c] # NoRequest /\ request'[c] = NoRequest

\* This step is the write of c and commits.
Commits(c) == step[c] = "write" /\ step'[c] = "idle" /\ tables' # tables

\* A write is by a connection whose user was an administrator at some moment since the
\* request came, so a request that comes after a revocation never writes; all others change
\* nothing but their own entry, whatever happened to it since they were authorized.
WritesAuthorized ==
    [][\A c \in Conns : Commits(c) =>
          \/ "admin" \in seen[c]
          \/ session[c].dn = request[c].dn /\ OnlyRowsOf(IdOf(request[c].dn))]_vars

\* Nothing but a password is set: the attributes and members are put back as the handler
\* read them, and other rows stay.
PutsBack(e) ==
    LET id == IdOf(e.dn)
    IN  /\ OnlyRowsOf(id)
        /\ LoadedEntry(e.dn)'.attrs = e.attrs /\ LoadedEntry(e.dn)'.members = e.members
        /\ \A row \in groupMembers \cup groupMembers' : row[1] = id =>
              IF e.class = "groupOfNames"
              THEN row \in groupMembers' <=> \E r \in entries : r.id = row[2] /\ r.dn \in e.members
              ELSE row \in groupMembers /\ row \in groupMembers'

\* Self-service is narrow: whoever is no administrator brings nothing but a password of
\* their own into the directory.  The rest of what they write is what this request has
\* read, of an entry that others may have changed since or put another in the place of.
SelfServiceNarrow ==
    [][\A c \in Conns : (Commits(c) /\ "admin" \notin seen[c]) =>
          \A e \in {copy[c]} : PutsBack(e)]_vars

\* A bind decides the identity of its connection: one that succeeds sets the DN it proved,
\* with a password that was the user's at some moment of the bind; one that fails leaves
\* none, also when the connection had one before.
BindDecidesIdentity ==
    [][\A c \in Conns : (Ends(c) /\ request[c].op = "bind") =>
          IF answer'[c] = "success"
          THEN /\ session'[c].bound /\ session'[c].dn \in {request[c].dn, NoDN}
               /\ session'[c].dn # NoDN => "credential" \in seen[c]
          ELSE session'[c] = Unbound]_vars

\* A handler checks before it acts, but what it answers about the entry was so at some
\* moment while it ran, and a success means that it is so now.
AnswersJustified ==
    [][\A c \in Conns : Ends(c) =>
          \A r \in {request[c]} :
              /\ answer'[c] = "entryAlreadyExists" => "present" \in seen[c]
              /\ (answer'[c] = "noSuchObject" /\ r.op # "add") => "absent" \in seen[c]
              /\ (answer'[c] = "success" /\ r.op = "add") =>
                    "absent" \in seen[c] /\ Exists(r.dn)'
              /\ (answer'[c] = "success" /\ r.op = "delete") =>
                    "present" \in seen[c] /\ ~Exists(r.dn)']_vars

\* Every request but Unbind is answered, whatever the others do to its entry meanwhile.
Answered ==
    \A c \in Conns :
        (request[c] # NoRequest /\ step[c] # "unbind")
            ~> (request[c] = NoRequest /\ answer[c] # "none")

----
(* The inductive invariant behind the theorems of LdapServerProofs *)

Steps == {"idle", "bind", "verify", "unbind", "authorize", "exists", "read", "write"}

Sessions == [bound : BOOLEAN, dn : DNs \cup {NoDN}]

HandlersOK ==
    /\ session \in [Conns -> Sessions]
    /\ request \in [Conns -> Requests \cup {NoRequest}]
    /\ step \in [Conns -> Steps]
    /\ copy \in [Conns -> Entry \cup {NoEntry}]
    /\ hash \in [Conns -> PasswordHashes]
    /\ DOMAIN answer = Conns /\ DOMAIN seen = Conns

\* A handler takes the steps of its request.
StepFits(c) ==
    /\ step[c] = "idle" <=> request[c] = NoRequest
    /\ step[c] # "idle" =>
          /\ step[c] \in {"bind", "verify"} <=> request[c].op = "bind"
          /\ step[c] = "unbind" <=> request[c].op = "unbind"
          /\ step[c] = "exists" => request[c].op \in {"add", "delete"}
          /\ step[c] = "read" => request[c].op \in {"modify", "compare"}
          /\ step[c] = "write" => request[c].op \in {"add", "delete", "modify"}

\* The history holds what is so now.
SeesNow(c) == request[c] # NoRequest => Sees(c) \subseteq seen[c]

\* What handleBind goes on with, the identity dropped, was the hash of the DN in the bind.
Verifying(c) ==
    step[c] = "verify" =>
        /\ session[c] = Unbound
        /\ hash[c] = request[c].password => "credential" \in seen[c]

\* Past the authorization check stands who was an administrator, or who asks for nothing
\* but the own password, on a connection that is still theirs.
StillAuthorized(c) ==
    (step[c] \in {"exists", "read", "write"} /\ request[c].op # "compare") =>
        \/ "admin" \in seen[c]
        \/ request[c].op = "modify" /\ SelfPasswordModify(session[c], request[c])

\* handleModify writes back the entry it has read.
CopyFits(c) ==
    (step[c] = "write" /\ request[c].op = "modify") =>
        copy[c] \in Entry /\ copy[c].dn = request[c].dn

ConnInv(c) ==
    StepFits(c) /\ SeesNow(c) /\ Verifying(c) /\ StillAuthorized(c) /\ CopyFits(c)

HandlerInv == HandlersOK /\ \A c \in Conns : ConnInv(c)

LdapInv == TablesInv /\ HandlerInv

====
