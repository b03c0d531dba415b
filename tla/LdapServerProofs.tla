---- MODULE LdapServerProofs ----
(***************************************************************************)
(* Theorems about the LDAP handlers, for every set of connections, requests*)
(* and seeded entries: whatever the others do to the store between two     *)
(* steps of a handler.                                                     *)
(***************************************************************************)
EXTENDS LdapServer, EntryStoreProofs

----
(* Requests and history *)

\* What each kind of request carries.
LEMMA RequestFields ==
    ASSUME NEW r \in Requests
    PROVE  /\ r.op \in {"bind", "unbind", "add", "delete", "modify", "compare"}
           /\ r.op = "bind" => r.dn \in DNs \cup {NoDN} /\ r.password \in PasswordHashes
           /\ r.op \notin {"bind", "unbind"} => r.dn \in DNs
           /\ r.op = "add" => /\ r.entry \in Entry /\ r.entry.dn = r.dn
                              /\ r.entry.class \in ClassesAt[r.dn]
           /\ r.op = "modify" => /\ r.changes \subseteq {"attrs", "members", "password"}
                                 /\ r.attrs \subseteq Attrs /\ r.members \subseteq DNs
                                 /\ r.password \in PasswordHashes
           /\ r.op \in {"add", "modify"} => r.refusal \in Refusals
<1>1. IsRequest(r)
  BY ServerAssumption
<1> QED
  BY <1>1 DEF IsRequest

\* The hash found at a DN is a hash; one that is not empty is a user's.
LEMMA HashOfUser ==
    ASSUME TablesInv, NEW d
    PROVE  /\ HashAt(d) \in PasswordHashes
           /\ HashAt(d) # NoPassword => \E r \in entries : r.dn = d /\ r.class = "inetOrgPerson"
<1>1. CASE Exists(d) /\ \E row \in users : row[1] = IdOf(d)
  <2>1. PICK row \in users : row[1] = IdOf(d) /\ HashAt(d) = row[2]
    BY <1>1 DEF HashAt, StoredPassword
  <2>2. RowAt(d) \in entries /\ RowAt(d).dn = d
    BY <1>1, RowAtExists
  <2> QED
    BY <2>1, <2>2 DEF IdOf, TablesInv, TablesOK, ClassRows
<1>2. CASE ~(Exists(d) /\ \E row \in users : row[1] = IdOf(d))
  BY <1>2 DEF HashAt, StoredPassword, PasswordHashes
<1> QED
  BY <1>1, <1>2

\* After a step the history of a request that goes on has grown by what is so now.
LEMMA Observed ==
    ASSUME NEW c \in Conns, Observe
    PROVE  /\ SeesNow(c)'
           /\ request'[c] # NoRequest => seen[c] \subseteq seen'[c]
           /\ DOMAIN seen' = Conns
  BY DEF Observe, SeesNow

\* What the history holds of a request depends on the tables, the session and the request.
LEMMA SameSees ==
    ASSUME NEW c \in Conns, UNCHANGED <<tables, session, request>>
    PROVE  Sees(c)' = Sees(c)
<1>1. entries' = entries /\ users' = users /\ groupMembers' = groupMembers
  BY DEF tables, classTables
<1>2. \A d : Exists(d)' = Exists(d) /\ IdOf(d)' = IdOf(d)
  BY <1>1 DEF Exists, IdOf, RowAt
<1>3. \A d : HashAt(d)' = HashAt(d)
  <2>1. \A id : StoredPassword(id)' = StoredPassword(id)
    BY <1>1 DEF StoredPassword
  <2> QED
    BY <1>2, <2>1 DEF HashAt
<1>4. UpTo(Ids)' = UpTo(Ids)
  BY <1>1 DEF UpTo
<1>5. \A id : GroupsOf(id, Ids)' = GroupsOf(id, Ids)
  BY <1>4 DEF GroupsOf
<1>6. \A u, g : IsUserInGroup(u, g)' = IsUserInGroup(u, g)
  BY <1>2, <1>4, <1>5 DEF IsUserInGroup
<1> QED
  BY <1>2, <1>3, <1>6 DEF Sees, DirectoryWrite

----
(* The steps of a handler *)

\* A step of one connection keeps what holds of the others: their history only grows.
LEMMA OthersKept ==
    ASSUME HandlerInv, HandlersOK', Observe, NEW c \in Conns, ConnInv(c)',
           \A d \in Conns \ {c} : /\ session'[d] = session[d] /\ request'[d] = request[d]
                                  /\ step'[d] = step[d] /\ copy'[d] = copy[d]
                                  /\ hash'[d] = hash[d]
    PROVE  HandlerInv'
<1>1. ASSUME NEW d \in Conns, d # c PROVE ConnInv(d)'
  <2>1. /\ session'[d] = session[d] /\ request'[d] = request[d] /\ step'[d] = step[d]
        /\ copy'[d] = copy[d] /\ hash'[d] = hash[d]
    BY <1>1
  <2>2. SeesNow(d)' /\ (request'[d] # NoRequest => seen[d] \subseteq seen'[d])
    BY Observed
  <2>3. ConnInv(d)
    BY DEF HandlerInv
  <2>4. StepFits(d)'
    BY <2>1, <2>3 DEF ConnInv, StepFits
  <2>5. Verifying(d)'
    BY <2>1, <2>2, <2>3 DEF ConnInv, StepFits, Verifying
  <2>6. StillAuthorized(d)'
    BY <2>1, <2>2, <2>3 DEF ConnInv, StepFits, StillAuthorized, SelfPasswordModify
  <2>7. CopyFits(d)'
    BY <2>1, <2>3 DEF ConnInv, CopyFits
  <2> QED
    BY <2>2, <2>4, <2>5, <2>6, <2>7 DEF ConnInv
<1> QED
  BY <1>1 DEF HandlerInv

\* A connection that has answered is idle, whatever it answered.
LEMMA AnswerKeeps ==
    ASSUME HandlerInv, Observe, NEW c \in Conns, NEW code, Answer(c, code),
           NEW s \in Sessions, session' = [session EXCEPT ![c] = s],
           copy' \in {copy, [copy EXCEPT ![c] = NoEntry]},
           hash' \in {hash, [hash EXCEPT ![c] = NoPassword]}
    PROVE  HandlerInv'
<1>1. HandlersOK
  BY DEF HandlerInv
<1>2. /\ step' = [step EXCEPT ![c] = "idle"]
      /\ request' = [request EXCEPT ![c] = NoRequest]
      /\ answer' = [answer EXCEPT ![c] = code]
  BY DEF Answer
<1>3. HandlersOK'
  <2>1. hash' \in [Conns -> PasswordHashes] /\ copy' \in [Conns -> Entry \cup {NoEntry}]
    BY <1>1 DEF HandlersOK, PasswordHashes
  <2>2. session' \in [Conns -> Sessions] /\ DOMAIN answer' = Conns
    BY <1>1, <1>2 DEF HandlersOK
  <2>3. request' \in [Conns -> Requests \cup {NoRequest}] /\ step' \in [Conns -> Steps]
    BY <1>1, <1>2 DEF HandlersOK, Steps
  <2> QED
    BY <2>1, <2>2, <2>3, Observed DEF HandlersOK
<1>4. step'[c] = "idle" /\ request'[c] = NoRequest
  BY <1>1, <1>2 DEF HandlersOK
<1>5. ConnInv(c)'
  BY <1>4, Observed DEF ConnInv, StepFits, Verifying, StillAuthorized, CopyFits
<1>6. \A d \in Conns \ {c} : /\ session'[d] = session[d] /\ request'[d] = request[d]
                             /\ step'[d] = step[d] /\ copy'[d] = copy[d]
                             /\ hash'[d] = hash[d]
  BY <1>1, <1>2 DEF HandlersOK
<1> QED
  BY <1>3, <1>5, <1>6, OthersKept

\* A handler that goes on keeps its request, and may replace its copy and hash.
LEMMA ContinueKeeps ==
    ASSUME HandlerInv, Observe, NEW c \in Conns, NEW next \in Steps, Continue(c, next),
           NEW s \in Sessions, session' = [session EXCEPT ![c] = s],
           NEW e \in Entry \cup {NoEntry}, copy' \in {copy, [copy EXCEPT ![c] = e]},
           NEW h \in PasswordHashes, hash' \in {hash, [hash EXCEPT ![c] = h]},
           StepFits(c)', Verifying(c)', StillAuthorized(c)', CopyFits(c)'
    PROVE  HandlerInv'
<1>1. HandlersOK
  BY DEF HandlerInv
<1>2. step' = [step EXCEPT ![c] = next] /\ request' = request /\ answer' = answer
  BY DEF Continue
<1>3. HandlersOK'
  <2>1. hash' \in [Conns -> PasswordHashes] /\ copy' \in [Conns -> Entry \cup {NoEntry}]
    BY <1>1 DEF HandlersOK
  <2>2. session' \in [Conns -> Sessions]
    BY <1>1 DEF HandlersOK
  <2>3. step' \in [Conns -> Steps]
    BY <1>1, <1>2 DEF HandlersOK
  <2> QED
    BY <1>1, <1>2, <2>1, <2>2, <2>3, Observed DEF HandlersOK
<1>4. ConnInv(c)'
  BY Observed DEF ConnInv
<1>5. \A d \in Conns \ {c} : /\ session'[d] = session[d] /\ request'[d] = request[d]
                             /\ step'[d] = step[d] /\ copy'[d] = copy[d]
                             /\ hash'[d] = hash[d]
  BY <1>1, <1>2 DEF HandlersOK
<1> QED
  BY <1>3, <1>4, <1>5, OthersKept

\* A new request finds its connection idle and its history empty.
LEMMA ReceiveKeeps ==
    ASSUME HandlerInv, Observe, NEW c \in Conns, NEW r \in Requests, Receive(c, r)
    PROVE  HandlerInv'
<1>1. HandlersOK
  BY DEF HandlerInv
<1>2. /\ step' = [step EXCEPT ![c] = IF r.op \in {"bind", "unbind"} THEN r.op ELSE "authorize"]
      /\ request' = [request EXCEPT ![c] = r]
      /\ answer' = [answer EXCEPT ![c] = "none"]
      /\ session' = session /\ copy' = copy /\ hash' = hash
  BY DEF Receive
<1>3. r # NoRequest
  BY ServerAssumption
<1>4. HandlersOK'
  <2>1. step' \in [Conns -> Steps]
    BY <1>1, <1>2 DEF HandlersOK, Steps
  <2>2. request' \in [Conns -> Requests \cup {NoRequest}] /\ DOMAIN answer' = Conns
    BY <1>1, <1>2 DEF HandlersOK
  <2> QED
    BY <1>1, <1>2, <2>1, <2>2, Observed DEF HandlersOK
<1>5. /\ request'[c] = r
      /\ step'[c] = IF r.op \in {"bind", "unbind"} THEN r.op ELSE "authorize"
  BY <1>1, <1>2 DEF HandlersOK
<1>6. ConnInv(c)'
  BY <1>3, <1>5, Observed, RequestFields
     DEF ConnInv, StepFits, Verifying, StillAuthorized, CopyFits
<1>7. \A d \in Conns \ {c} : request'[d] = request[d] /\ step'[d] = step[d]
  BY <1>1, <1>2 DEF HandlersOK
<1> QED
  BY <1>2, <1>4, <1>6, <1>7, OthersKept

\* Bind drops the identity; what it goes on with is the hash of the DN as it is now.
LEMMA BindKeeps ==
    ASSUME LdapInv, Observe, NEW c \in Conns, Bind(c)
    PROVE  HandlerInv'
<1> DEFINE r == request[c]
           anonymous == r.dn = NoDN \/ r.password = NoPassword
           s == IF anonymous /\ AllowAnonymous THEN [bound |-> TRUE, dn |-> NoDN]
                ELSE ClearBoundDN(session[c])
<1>1. HandlersOK /\ ConnInv(c) /\ step[c] = "bind"
  BY DEF LdapInv, HandlerInv, Bind
<1>2. r \in Requests /\ r.op = "bind"
  BY <1>1 DEF ConnInv, StepFits, HandlersOK
<1>3. session' = [session EXCEPT ![c] = s] /\ copy' = copy
  BY <1>1 DEF Bind, HandlersOK
<1>4. s \in Sessions
  BY DEF Sessions, ClearBoundDN, Unbound
<1>5. CASE Continue(c, "verify")
  <2>1. r.dn \in DNs /\ ~anonymous /\ hash' = [hash EXCEPT ![c] = HashAt(r.dn)]
    BY <1>1, <1>2, <1>5, RequestFields DEF Bind, Answer, Continue, HandlersOK
  <2>2. /\ step'[c] = "verify" /\ request'[c] = r /\ hash'[c] = HashAt(r.dn)
        /\ session'[c] = Unbound
    BY <1>1, <1>3, <1>5, <2>1 DEF Continue, HandlersOK, ClearBoundDN
  <2>3. HashAt(r.dn) = r.password => "credential" \in seen[c]
    BY <1>1, <1>2, StoreAssumption, ServerAssumption DEF ConnInv, SeesNow, Sees
  <2>4. r # NoRequest
    BY <1>2, ServerAssumption
  <2>5. Verifying(c)'
    BY <2>2, <2>3, <2>4, Observed DEF Verifying, Unbound
  <2>6. StepFits(c)' /\ StillAuthorized(c)' /\ CopyFits(c)'
    BY <1>2, <2>2, <2>4 DEF StepFits, StillAuthorized, CopyFits
  <2>7. HashAt(r.dn) \in PasswordHashes
    BY HashOfUser DEF LdapInv
  <2>8. copy' \in {copy, [copy EXCEPT ![c] = NoEntry]}
    BY <1>3
  <2> HIDE DEF s, r
  <2> QED
    BY <1>3, <1>4, <1>5, <2>1, <2>5, <2>6, <2>7, <2>8, ContinueKeeps DEF LdapInv, Steps
<1>6. CASE \E code : Answer(c, code) /\ hash' = hash
  <2> HIDE DEF s
  <2> QED
    BY <1>3, <1>4, <1>6, AnswerKeeps DEF LdapInv
<1> QED
  BY <1>5, <1>6 DEF Bind

\* Verifying ends the bind.
LEMMA VerifyKeeps ==
    ASSUME LdapInv, Observe, NEW c \in Conns, Verify(c)
    PROVE  HandlerInv'
<1> DEFINE s == IF request[c].password = hash[c] THEN [bound |-> TRUE, dn |-> request[c].dn]
                ELSE session[c]
<1>1. HandlersOK /\ ConnInv(c) /\ step[c] = "verify"
  BY DEF LdapInv, HandlerInv, Verify
<1>2. request[c] \in Requests /\ request[c].op = "bind"
  BY <1>1 DEF ConnInv, StepFits, HandlersOK
<1>3. s \in Sessions
  BY <1>1, <1>2, RequestFields DEF Sessions, HandlersOK
<1>4. session' = [session EXCEPT ![c] = s]
  BY <1>1 DEF Verify, HandlersOK
<1>5. \E code : Answer(c, code)
  BY DEF Verify
<1> HIDE DEF s
<1> QED
  BY <1>3, <1>4, <1>5, AnswerKeeps DEF LdapInv, Verify, Forget

\* An Unbind answers nothing and leaves no identity.
LEMMA UnbindKeeps ==
    ASSUME LdapInv, Observe, NEW c \in Conns, Unbind(c)
    PROVE  HandlerInv'
<1>1. Unbound \in Sessions
  BY DEF Sessions, Unbound
<1>2. session' = [session EXCEPT ![c] = Unbound]
  BY DEF Unbind, ClearBoundDN
<1> QED
  BY <1>1, <1>2, AnswerKeeps DEF LdapInv, Unbind

\* Whoever passes the check is an administrator now, or is allowed the password of the entry
\* the connection is bound as.
LEMMA AuthorizeKeeps ==
    ASSUME LdapInv, Observe, NEW c \in Conns, Authorize(c)
    PROVE  HandlerInv'
<1> DEFINE next == IF request[c].op \in {"add", "delete"} THEN "exists" ELSE "read"
<1>1. HandlersOK /\ ConnInv(c) /\ step[c] = "authorize"
  BY DEF LdapInv, HandlerInv, Authorize
<1>2. /\ request[c] \in Requests /\ request[c] # NoRequest
      /\ request[c].op \in {"add", "delete", "modify", "compare"}
  BY <1>1, RequestFields DEF ConnInv, StepFits, HandlersOK
<1>3. /\ session' = [session EXCEPT ![c] = session[c]] /\ session[c] \in Sessions
      /\ session' = session /\ copy' = copy /\ hash' = hash
  BY <1>1 DEF Authorize, HandlersOK
<1>4. CASE Authorized(c)
  <2>1. Continue(c, next)
    BY <1>4 DEF Authorize
  <2>2. step'[c] = next /\ request'[c] = request[c] /\ session'[c] = session[c]
    BY <1>1, <1>3, <2>1 DEF Continue, HandlersOK
  <2>3. seen[c] \subseteq seen'[c]
    BY <1>2, <2>2, Observed
  <2>4. DirectoryWrite(session[c]) => "admin" \in seen[c]
    BY <1>1, <1>2 DEF ConnInv, SeesNow, Sees
  <2>5. request[c].op # "compare" =>
           \/ DirectoryWrite(session[c])
           \/ request[c].op = "modify" /\ SelfPasswordModify(session[c], request[c])
    BY <1>2, <1>4 DEF Authorized, CanModify
  <2>6. StillAuthorized(c)'
    BY <2>2, <2>3, <2>4, <2>5 DEF StillAuthorized, SelfPasswordModify
  <2>7. StepFits(c)' /\ Verifying(c)' /\ CopyFits(c)'
    BY <1>2, <2>2 DEF StepFits, Verifying, CopyFits
  <2>8. next \in Steps
    BY DEF Steps
  <2> HIDE DEF next
  <2> QED
    BY <1>3, <2>1, <2>6, <2>7, <2>8, ContinueKeeps DEF LdapInv, PasswordHashes
<1>5. CASE ~Authorized(c)
  BY <1>3, <1>5, AnswerKeeps DEF LdapInv, Authorize
<1> QED
  BY <1>4, <1>5

\* Finding the entry, or not, changes nothing about who is authorized.
LEMMA CheckExistsKeeps ==
    ASSUME LdapInv, Observe, NEW c \in Conns, CheckExists(c)
    PROVE  HandlerInv'
<1>1. HandlersOK /\ ConnInv(c) /\ step[c] = "exists"
  BY DEF LdapInv, HandlerInv, CheckExists
<1>2. request[c] # NoRequest /\ request[c].op \in {"add", "delete"}
  BY <1>1 DEF ConnInv, StepFits, HandlersOK
<1>3. /\ session' = [session EXCEPT ![c] = session[c]] /\ session[c] \in Sessions
      /\ session' = session /\ copy' = copy /\ hash' = hash
  BY <1>1 DEF CheckExists, HandlersOK
<1>4. CASE Continue(c, "write")
  <2>1. step'[c] = "write" /\ request'[c] = request[c] /\ session'[c] = session[c]
    BY <1>1, <1>3, <1>4 DEF Continue, HandlersOK
  <2>2. seen[c] \subseteq seen'[c]
    BY <1>2, <2>1, Observed
  <2>3. StillAuthorized(c)'
    BY <1>1, <1>2, <2>1, <2>2 DEF ConnInv, StillAuthorized
  <2>4. StepFits(c)' /\ Verifying(c)' /\ CopyFits(c)'
    BY <1>2, <2>1 DEF StepFits, Verifying, CopyFits
  <2> QED
    BY <1>3, <1>4, <2>3, <2>4, ContinueKeeps DEF LdapInv, PasswordHashes, Steps
<1>5. CASE \E code : Answer(c, code)
  BY <1>3, <1>5, AnswerKeeps DEF LdapInv
<1> QED
  BY <1>4, <1>5 DEF CheckExists

\* The copy handleModify goes on with has the DN of the request.
LEMMA ReadEntryKeeps ==
    ASSUME LdapInv, Observe, NEW c \in Conns, ReadEntry(c)
    PROVE  HandlerInv'
<1>1. HandlersOK /\ ConnInv(c) /\ step[c] = "read"
  BY DEF LdapInv, HandlerInv, ReadEntry
<1>2. /\ request[c] # NoRequest /\ request[c].op \in {"modify", "compare"}
      /\ request[c] \in Requests
  BY <1>1 DEF ConnInv, StepFits, HandlersOK
<1>3. /\ session' = [session EXCEPT ![c] = session[c]] /\ session[c] \in Sessions
      /\ session' = session /\ hash' = hash
  BY <1>1 DEF ReadEntry, HandlersOK
<1>4. CASE Continue(c, "write")
  <2>1. step'[c] = "write" /\ request'[c] = request[c] /\ session'[c] = session[c]
    BY <1>1, <1>3, <1>4 DEF Continue, HandlersOK
  <2>2. seen[c] \subseteq seen'[c]
    BY <1>2, <2>1, Observed
  <2>3. /\ Exists(request[c].dn) /\ request[c].op = "modify"
        /\ copy' = [copy EXCEPT ![c] = LoadedEntry(request[c].dn)]
    BY <1>1, <1>2, <1>4 DEF ReadEntry, Answer, Continue, HandlersOK
  <2>4. LoadedEntry(request[c].dn) \in Entry /\ LoadedEntry(request[c].dn).dn = request[c].dn
    <3>1. request[c].dn \in DNs /\ TablesOK
      BY <1>2, RequestFields DEF LdapInv, TablesInv
    <3>2. LoadedEntry(request[c].dn).dn = request[c].dn
      BY DEF LoadedEntry
    <3> QED
      BY <2>3, <3>1, <3>2, LoadedIsEntry
  <2>5. StillAuthorized(c)'
    BY <1>1, <1>2, <2>1, <2>2 DEF ConnInv, StillAuthorized
  <2>6. copy'[c] = LoadedEntry(request[c].dn)
    BY <1>1, <2>3 DEF HandlersOK
  <2>7. StepFits(c)' /\ Verifying(c)' /\ CopyFits(c)'
    BY <1>2, <2>1, <2>3, <2>4, <2>6 DEF StepFits, Verifying, CopyFits
  <2> QED
    BY <1>3, <1>4, <2>3, <2>4, <2>5, <2>7, ContinueKeeps DEF LdapInv, PasswordHashes, Steps
<1>5. CASE (\E code : Answer(c, code)) /\ copy' = copy
  BY <1>3, <1>5, AnswerKeeps DEF LdapInv
<1> QED
  BY <1>4, <1>5 DEF ReadEntry

\* The write, committed or refused, and a failing call to the store end the request.
LEMMA WriteKeeps ==
    ASSUME LdapInv, Observe, NEW c \in Conns, Write(c) \/ StoreFails(c)
    PROVE  HandlerInv'
<1>1. HandlersOK
  BY DEF LdapInv, HandlerInv
<1>2. \E s \in Sessions : session' = [session EXCEPT ![c] = s]
  <2>1. session[c] \in Sessions /\ Unbound \in Sessions
    BY <1>1 DEF HandlersOK, Sessions, Unbound
  <2>2. session = [session EXCEPT ![c] = session[c]]
    BY <1>1 DEF HandlersOK
  <2> QED
    BY <2>1, <2>2 DEF Write, StoreFails, ClearBoundDN
<1>3. \E code : Answer(c, code)
  BY DEF Write, StoreFails
<1>4. Forget(c)
  BY DEF Write, StoreFails
<1> QED
  BY <1>2, <1>3, <1>4, AnswerKeeps DEF LdapInv, Forget

----
(* The invariant *)

\* The entry handleModify writes back is an entry with the DN and class of its copy.
LEMMA AppliedIsEntry ==
    ASSUME NEW r \in Requests, r.op = "modify", NEW e \in Entry
    PROVE  Applied(r, e) \in Entry /\ Applied(r, e).dn = e.dn /\ Applied(r, e).class = e.class
  BY RequestFields DEF Applied, Entry

\* Every committed write is one of the store's transactions, on an entry.
LEMMA StoreStep ==
    ASSUME LdapInv, NEW c \in Conns, Write(c)
    PROVE  \/ UNCHANGED tables
           \/ /\ request[c].op = "add" /\ request[c].entry \in Entry
              /\ request[c].entry.dn = request[c].dn
              /\ request[c].entry.class \in ClassesAt[request[c].dn]
              /\ CreateEntryTx(request[c].entry)
           \/ request[c].op = "delete" /\ DeleteEntryTx(request[c].dn)
           \/ /\ request[c].op = "modify" /\ Applied(request[c], copy[c]) \in Entry
              /\ Applied(request[c], copy[c]).dn = request[c].dn
              /\ UpdateEntryTx(Applied(request[c], copy[c]))
<1>1. ConnInv(c) /\ step[c] = "write" /\ HandlersOK
  BY DEF LdapInv, HandlerInv, Write
<1>2. request[c] \in Requests /\ request[c].op \in {"add", "delete", "modify"}
  BY <1>1 DEF ConnInv, StepFits, HandlersOK
<1>3. request[c].op = "modify" => copy[c] \in Entry /\ copy[c].dn = request[c].dn
  BY <1>1 DEF ConnInv, CopyFits
<1>4. CASE Store(request[c], copy[c])
  <2>1. CASE request[c].op = "add"
    BY <1>2, <1>4, <2>1, RequestFields DEF Store
  <2>2. CASE request[c].op = "delete"
    BY <1>4, <2>2 DEF Store
  <2>3. CASE request[c].op = "modify"
    <3>1. UpdateEntryTx(Applied(request[c], copy[c]))
      BY <1>4, <2>3 DEF Store
    <3> QED
      BY <1>2, <1>3, <2>3, <3>1, AppliedIsEntry
  <2> QED
    BY <1>2, <2>1, <2>2, <2>3
<1>5. CASE UNCHANGED tables
  BY <1>5
<1> QED
  BY <1>4, <1>5 DEF Write

\* No step but a committed write changes the tables.
LEMMA TablesKept ==
    ASSUME LdapInv, NEW c \in Conns, Arrive(c) \/ Handle(c) \/ Fail(c)
    PROVE  TablesInv'
<1>1. CASE Write(c)
  <2>1. TablesInv
    BY DEF LdapInv
  <2>2. ASSUME NEW e \in Entry, CreateEntryTx(e) \/ UpdateEntryTx(e) PROVE TablesInv'
    BY <2>1, <2>2, CreateKeepsTables, UpdateKeepsTables
  <2>3. ASSUME NEW d, DeleteEntryTx(d) PROVE TablesInv'
    BY <2>1, <2>3, DeleteKeepsTables
  <2> QED
    BY <1>1, <2>1, <2>2, <2>3, StoreStep, SameTablesInv
<1>2. CASE UNCHANGED tables
  BY <1>2, SameTablesInv DEF LdapInv
<1> QED
  BY <1>1, <1>2
     DEF Arrive, Handle, Fail, Receive, Bind, Verify, Unbind, Authorize, CheckExists, ReadEntry,
         StoreFails

\* The strengthening is inductive.
LEMMA LdapInvInductive == LdapInv /\ [Next]_vars => LdapInv'
<1> SUFFICES ASSUME LdapInv, [Next]_vars PROVE LdapInv'
  OBVIOUS
<1>1. ASSUME NEW c \in Conns, Arrive(c) PROVE HandlerInv'
  BY <1>1, ReceiveKeeps DEF Arrive, LdapInv
<1>2. ASSUME NEW c \in Conns, Handle(c) PROVE HandlerInv'
  BY <1>2, BindKeeps, VerifyKeeps, UnbindKeeps, AuthorizeKeeps, CheckExistsKeeps,
     ReadEntryKeeps, WriteKeeps DEF Handle
<1>3. ASSUME NEW c \in Conns, Fail(c) PROVE HandlerInv'
  BY <1>3, WriteKeeps DEF Fail
<1>4. CASE UNCHANGED vars
  <2>1. /\ session' = session /\ request' = request /\ step' = step /\ copy' = copy
        /\ hash' = hash /\ answer' = answer /\ seen' = seen
    BY <1>4 DEF vars, handlers
  <2>2. HandlersOK'
    BY <2>1 DEF LdapInv, HandlerInv, HandlersOK
  <2>3. ASSUME NEW c \in Conns PROVE ConnInv(c)'
    <3>1. Sees(c)' = Sees(c)
      BY <1>4, <2>1, SameSees DEF vars
    <3>2. ConnInv(c)
      BY DEF LdapInv, HandlerInv
    <3>3. StepFits(c)' /\ SeesNow(c)' /\ Verifying(c)'
      BY <2>1, <3>1, <3>2 DEF ConnInv, StepFits, SeesNow, Verifying
    <3>4. StillAuthorized(c)' /\ CopyFits(c)'
      BY <2>1, <3>2 DEF ConnInv, StillAuthorized, SelfPasswordModify, CopyFits
    <3> QED
      BY <3>3, <3>4 DEF ConnInv
  <2>4. TablesInv'
    BY <1>4, SameTablesInv DEF vars, LdapInv
  <2> QED
    BY <2>2, <2>3, <2>4 DEF LdapInv, HandlerInv
<1> QED
  BY <1>1, <1>2, <1>3, <1>4, TablesKept DEF Next, LdapInv

\* It holds of idle connections over the seeded entries.
LEMMA LdapInvInit == Init => LdapInv
<1> SUFFICES ASSUME Init PROVE LdapInv
  OBVIOUS
<1>1. TablesInv
  BY SeededTablesInv, ServerAssumption DEF Init
<1>2. HandlersOK
  BY DEF Init, HandlersOK, Unbound, Sessions, Steps, PasswordHashes
<1>3. ASSUME NEW c \in Conns PROVE ConnInv(c)
  <2>1. step[c] = "idle" /\ request[c] = NoRequest
    BY DEF Init
  <2> QED
    BY <2>1 DEF ConnInv, StepFits, SeesNow, Verifying, StillAuthorized, CopyFits
<1> QED
  BY <1>1, <1>2, <1>3 DEF LdapInv, HandlerInv

\* It holds in every reachable state.
LEMMA LdapInvHolds == Spec => []LdapInv
  BY LdapInvInit, LdapInvInductive, PTL DEF Spec

----
(* What the handlers guarantee *)

\* The step in which a request ends is a step of its own connection.
LEMMA EndsInOwnStep ==
    ASSUME LdapInv, Next, NEW c \in Conns, request'[c] # request[c] \/ step'[c] # step[c]
    PROVE  Arrive(c) \/ Handle(c) \/ Fail(c)
<1>1. HandlersOK
  BY DEF LdapInv, HandlerInv
<1>2. PICK d \in Conns : Arrive(d) \/ Handle(d) \/ Fail(d)
  BY DEF Next
<1>3. d # c => request'[c] = request[c] /\ step'[c] = step[c]
  <2>1. \A r : Receive(d, r) => \E s, q : /\ step' = [step EXCEPT ![d] = s]
                                          /\ request' = [request EXCEPT ![d] = q]
    BY DEF Receive
  <2>2. \A code : Answer(d, code) => \E s, q : /\ step' = [step EXCEPT ![d] = s]
                                               /\ request' = [request EXCEPT ![d] = q]
    BY DEF Answer
  <2>3. \A next : Continue(d, next) => /\ \E s : step' = [step EXCEPT ![d] = s]
                                       /\ request' = request
    BY DEF Continue
  <2>4. \E s, q : /\ step' = [step EXCEPT ![d] = s]
                  /\ request' = request \/ request' = [request EXCEPT ![d] = q]
    BY <1>2, <2>1, <2>2, <2>3
       DEF Arrive, Handle, Fail, Bind, Verify, Unbind, Authorize, CheckExists, ReadEntry,
           Write, StoreFails
  <2> QED
    BY <1>1, <2>4 DEF HandlersOK
<1> QED
  BY <1>2, <1>3

\* The state of a connection whose request ends: it has one, and its history is up to date.
LEMMA EndingRequest ==
    ASSUME LdapInv, NEW c \in Conns, Ends(c)
    PROVE  /\ request[c] \in Requests /\ request[c] # NoRequest /\ ~Arrive(c)
           /\ HandlersOK /\ ConnInv(c) /\ Sees(c) \subseteq seen[c]
           /\ \A code : Answer(c, code) => answer'[c] = code
           /\ \A next : ~Continue(c, next)
<1>1. HandlersOK /\ ConnInv(c) /\ request[c] # NoRequest /\ request'[c] = NoRequest
  BY DEF LdapInv, HandlerInv, Ends
<1>2. ~Arrive(c)
  BY <1>1, ServerAssumption DEF Arrive, Receive, HandlersOK
<1>3. \A next : ~Continue(c, next)
  BY <1>1 DEF Continue
<1>4. \A code : Answer(c, code) => answer'[c] = code
  BY <1>1 DEF Answer, HandlersOK
<1> QED
  BY <1>1, <1>2, <1>3, <1>4 DEF ConnInv, SeesNow, HandlersOK

\* A bind that ends has decided who the connection is.
LEMMA BindStepDecides ==
    ASSUME LdapInv, Next, NEW c \in Conns, Ends(c), request[c].op = "bind"
    PROVE  IF answer'[c] = "success"
           THEN /\ session'[c].bound /\ session'[c].dn \in {request[c].dn, NoDN}
                /\ session'[c].dn # NoDN => "credential" \in seen[c]
           ELSE session'[c] = Unbound
<1> USE EndingRequest
<1>1. Handle(c) \/ Fail(c)
  BY EndsInOwnStep DEF Ends
<1>2. step[c] \in {"bind", "verify"}
  BY DEF ConnInv, StepFits
<1>3. CASE Bind(c)
  <2> DEFINE anonymous == request[c].dn = NoDN \/ request[c].password = NoPassword
  <2>1. /\ session'[c] = IF anonymous /\ AllowAnonymous THEN [bound |-> TRUE, dn |-> NoDN]
                         ELSE Unbound
        /\ answer'[c] = IF anonymous /\ AllowAnonymous THEN "success" ELSE "invalidCredentials"
    BY <1>3 DEF Bind, HandlersOK, ClearBoundDN
  <2> QED
    BY <2>1
<1>4. CASE Verify(c)
  <2>1. session[c] = Unbound /\ (hash[c] = request[c].password => "credential" \in seen[c])
    BY <1>4 DEF Verify, ConnInv, Verifying
  <2>2. /\ session'[c] = IF request[c].password = hash[c]
                         THEN [bound |-> TRUE, dn |-> request[c].dn] ELSE Unbound
        /\ answer'[c] = IF request[c].password = hash[c] THEN "success" ELSE "invalidCredentials"
    BY <1>4, <2>1 DEF Verify, HandlersOK
  <2> QED
    BY <2>1, <2>2
<1>5. CASE Fail(c)
  BY <1>2, <1>5 DEF Fail, StoreFails, HandlersOK, ClearBoundDN
<1> QED
  BY <1>1, <1>2, <1>3, <1>4, <1>5
     DEF Handle, Unbind, Authorize, CheckExists, ReadEntry, Write

\* Whatever a connection was and whatever happens to its user's entry, a bind that succeeds
\* has proved a password the user had in the bind, and one that fails leaves no identity.
THEOREM BindsDecideIdentity == Spec => BindDecidesIdentity
<1>1. LdapInv /\ [Next]_vars =>
        [\A c \in Conns : (Ends(c) /\ request[c].op = "bind") =>
           IF answer'[c] = "success"
           THEN /\ session'[c].bound /\ session'[c].dn \in {request[c].dn, NoDN}
                /\ session'[c].dn # NoDN => "credential" \in seen[c]
           ELSE session'[c] = Unbound]_vars
  BY BindStepDecides
<1> QED
  BY <1>1, LdapInvHolds, PTL DEF Spec, BindDecidesIdentity

\* The step of a write that commits.
LEMMA CommittedWrite ==
    ASSUME LdapInv, Next, NEW c \in Conns, Commits(c)
    PROVE  Write(c) /\ ~UNCHANGED tables
<1>1. Arrive(c) \/ Handle(c) \/ Fail(c)
  BY EndsInOwnStep DEF Commits
<1> QED
  BY <1>1 DEF Commits, Arrive, Handle, Fail, Receive, Bind, Verify, Unbind, Authorize,
              CheckExists, ReadEntry, StoreFails

\* A committed write by somebody who was no administrator since the request came is the
\* password change of the entry the connection is bound as.
LEMMA SelfServiceWrite ==
    ASSUME LdapInv, Next, NEW c \in Conns, Commits(c), "admin" \notin seen[c]
    PROVE  /\ TablesInv /\ request[c] \in Requests /\ request[c].op = "modify"
           /\ SelfPasswordModify(session[c], request[c])
           /\ copy[c] \in Entry /\ copy[c].dn = request[c].dn
           /\ Applied(request[c], copy[c]) \in Entry
           /\ UpdateEntryTx(Applied(request[c], copy[c]))
<1>1. Write(c) /\ step[c] = "write" /\ ConnInv(c) /\ HandlersOK /\ TablesInv
  BY CommittedWrite DEF Commits, LdapInv, HandlerInv
<1>2. request[c] \in Requests /\ request[c].op = "modify"
         /\ SelfPasswordModify(session[c], request[c])
  BY <1>1 DEF ConnInv, StepFits, StillAuthorized, HandlersOK
<1>3. copy[c] \in Entry /\ copy[c].dn = request[c].dn
  BY <1>1, <1>2 DEF ConnInv, CopyFits
<1> QED
  BY <1>1, <1>2, <1>3, StoreStep, CommittedWrite

\* No write is committed for a user whose rights were revoked before the request came, but
\* to the user's own entry.
THEOREM WritesAreAuthorized == Spec => WritesAuthorized
<1>1. ASSUME LdapInv, Next, NEW c \in Conns, Commits(c), "admin" \notin seen[c]
      PROVE  session[c].dn = request[c].dn /\ OnlyRowsOf(IdOf(request[c].dn))
  <2> DEFINE e == Applied(request[c], copy[c])
  <2>1. /\ TablesInv /\ UpdateEntryTx(e) /\ e \in Entry
        /\ session[c].dn = request[c].dn /\ e.dn = request[c].dn
    BY <1>1, SelfServiceWrite, AppliedIsEntry DEF SelfPasswordModify
  <2> HIDE DEF e
  <2> QED
    BY <2>1, UpdateTouchesOne
<1>2. LdapInv /\ [Next]_vars =>
        [\A c \in Conns : Commits(c) =>
            \/ "admin" \in seen[c]
            \/ session[c].dn = request[c].dn /\ OnlyRowsOf(IdOf(request[c].dn))]_vars
  BY <1>1
<1> QED
  BY <1>2, LdapInvHolds, PTL DEF Spec, WritesAuthorized

\* What an answer says of the entry was so when the handler last looked, in this step or in
\* one the history holds.
LEMMA AnswerStepJustified ==
    ASSUME LdapInv, Next, NEW c \in Conns, Ends(c), NEW r, r = request[c]
    PROVE  /\ answer'[c] = "entryAlreadyExists" => "present" \in seen[c]
           /\ (answer'[c] = "noSuchObject" /\ r.op # "add") => "absent" \in seen[c]
           /\ (answer'[c] = "success" /\ r.op = "add") => "absent" \in seen[c] /\ Exists(r.dn)'
           /\ (answer'[c] = "success" /\ r.op = "delete") =>
                 "present" \in seen[c] /\ ~Exists(r.dn)'
<1> DEFINE Goal(code) ==
              /\ code = "entryAlreadyExists" => "present" \in seen[c]
              /\ (code = "noSuchObject" /\ r.op # "add") => "absent" \in seen[c]
              /\ code = "success" => r.op \notin {"add", "delete"}
<1>1. /\ r \in Requests /\ HandlersOK /\ ConnInv(c) /\ Sees(c) \subseteq seen[c]
      /\ \A code : Answer(c, code) => answer'[c] = code
      /\ \A next : ~Continue(c, next)
      /\ Handle(c) \/ Fail(c)
  BY EndingRequest, EndsInOwnStep DEF Ends
<1>2. /\ Exists(r.dn) => "present" \in seen[c]
      /\ ~Exists(r.dn) => "absent" \in seen[c]
  BY <1>1 DEF Sees
<1>3. r.op \in {"add", "modify"} => r.refusal \notin {"entryAlreadyExists", "noSuchObject", "success"}
  BY <1>1, RequestFields DEF Refusals
<1>4. ASSUME NEW code, Answer(c, code), Goal(code) PROVE Goal(answer'[c])
  BY <1>1, <1>4
<1>5. CASE Bind(c) \/ Verify(c) \/ Unbind(c)
  <2>1. r.op \in {"bind", "unbind"}
    BY <1>1, <1>5 DEF Bind, Verify, Unbind, ConnInv, StepFits
  <2>2. \E code \in {"success", "invalidCredentials", "none"} : Answer(c, code)
    BY <1>1, <1>5 DEF Bind, Verify, Unbind
  <2> QED
    BY <1>4, <2>1, <2>2
<1>6. CASE Authorize(c)
  BY <1>1, <1>4, <1>6 DEF Authorize
<1>7. CASE CheckExists(c)
  <2>1. r.op \in {"add", "delete"}
    BY <1>1, <1>7 DEF CheckExists, ConnInv, StepFits
  <2>2. \/ Answer(c, "entryAlreadyExists") /\ Exists(r.dn)
        \/ Answer(c, r.refusal) /\ r.op = "add"
        \/ Answer(c, "noSuchObject") /\ ~Exists(r.dn)
    BY <1>1, <1>7, <2>1 DEF CheckExists
  <2> QED
    BY <1>2, <1>3, <1>4, <2>2
<1>8. CASE ReadEntry(c)
  <2>1. r.op \in {"modify", "compare"}
    BY <1>1, <1>8 DEF ReadEntry, ConnInv, StepFits
  <2>2. \/ Answer(c, "noSuchObject") /\ ~Exists(r.dn)
        \/ Answer(c, "compared")
        \/ Answer(c, r.refusal) /\ r.op = "modify"
    BY <1>1, <1>8, <2>1 DEF ReadEntry
  <2> QED
    BY <1>2, <1>3, <1>4, <2>2
<1>9. CASE Fail(c)
  <2>1. \E code \in {"operationsError", "invalidCredentials"} : Answer(c, code)
    BY <1>9 DEF Fail, StoreFails
  <2> QED
    BY <1>4, <2>1
<1>10. CASE Write(c)
  <2>1. /\ r.op \in {"add", "delete", "modify"}
        /\ r.op = "modify" => copy[c] \in Entry /\ copy[c].dn = r.dn
    BY <1>1, <1>10 DEF Write, ConnInv, StepFits, CopyFits
  <2>2. CASE Store(r, copy[c]) /\ Answer(c, "success")
    <3>1. CASE r.op = "add"
      <4>1. CreateEntryTx(r.entry) /\ r.entry.dn = r.dn
        BY <1>1, <2>2, <3>1, RequestFields DEF Store
      <4>2. ~Exists(r.dn) /\ NewRow(r.entry) \in entries' /\ NewRow(r.entry).dn = r.dn
        BY <4>1 DEF CreateEntryTx, CanCreate, NewRow
      <4>3. Exists(r.dn)'
        BY <4>2 DEF Exists
      <4> QED
        BY <1>1, <1>2, <2>2, <3>1, <4>2, <4>3
    <3>2. CASE r.op = "delete"
      <4>1. DeleteEntryTx(r.dn)
        BY <2>2, <3>2 DEF Store
      <4>2. Exists(r.dn) /\ ~Exists(r.dn)'
        BY <4>1 DEF DeleteEntryTx, Exists
      <4> QED
        BY <1>1, <1>2, <2>2, <3>2, <4>2
    <3>3. CASE r.op = "modify"
      BY <1>1, <2>2, <3>3
    <3> QED
      BY <2>1, <3>1, <3>2, <3>3
  <2>3. CASE Answer(c, Refusal(r, copy[c])) /\ Refusal(r, copy[c]) # "none"
    <3>1. CASE r.op = "add"
      <4>1. Refusal(r, copy[c]) = CreateRefusal(r.entry) /\ r.entry.dn = r.dn
        BY <1>1, <2>3, <3>1, RequestFields DEF Refusal
      <4>2. /\ CreateRefusal(r.entry) # "success"
            /\ CreateRefusal(r.entry) = "entryAlreadyExists" => Exists(r.entry.dn)
        BY DEF CreateRefusal
      <4> QED
        BY <1>2, <1>4, <2>3, <3>1, <4>1, <4>2
    <3>2. CASE r.op = "delete"
      <4>1. Refusal(r, copy[c]) = "operationsError"
        BY <2>3, <3>2 DEF Refusal
      <4> QED
        BY <1>4, <2>3, <4>1
    <3>3. CASE r.op = "modify"
      <4>1. /\ Refusal(r, copy[c]) = UpdateRefusal(Applied(r, copy[c]))
            /\ Applied(r, copy[c]).dn = r.dn
        BY <1>1, <2>1, <2>3, <3>3, AppliedIsEntry DEF Refusal
      <4>2. Refusal(r, copy[c]) \in {"constraintViolation", "noSuchObject"}
              /\ (Refusal(r, copy[c]) = "noSuchObject" => ~Exists(r.dn))
        BY <4>1 DEF UpdateRefusal
      <4> QED
        BY <1>2, <1>4, <2>3, <3>3, <4>2
    <3> QED
      BY <2>1, <3>1, <3>2, <3>3
  <2> QED
    BY <1>10, <2>2, <2>3 DEF Write
<1> QED
  BY <1>1, <1>5, <1>6, <1>7, <1>8, <1>9, <1>10 DEF Handle

\* Every answer about an entry was true of the store at some moment while the request ran,
\* and a success means that it is true now.
THEOREM AnswersAreJustified == Spec => AnswersJustified
<1>1. LdapInv /\ [Next]_vars =>
        [\A c \in Conns : Ends(c) =>
           \A r \in {request[c]} :
              /\ answer'[c] = "entryAlreadyExists" => "present" \in seen[c]
              /\ (answer'[c] = "noSuchObject" /\ r.op # "add") => "absent" \in seen[c]
              /\ (answer'[c] = "success" /\ r.op = "add") =>
                    "absent" \in seen[c] /\ Exists(r.dn)'
              /\ (answer'[c] = "success" /\ r.op = "delete") =>
                    "present" \in seen[c] /\ ~Exists(r.dn)']_vars
  <2> SUFFICES ASSUME LdapInv, Next, NEW c \in Conns, Ends(c), NEW r \in {request[c]}
               PROVE  /\ answer'[c] = "entryAlreadyExists" => "present" \in seen[c]
                      /\ (answer'[c] = "noSuchObject" /\ r.op # "add") => "absent" \in seen[c]
                      /\ (answer'[c] = "success" /\ r.op = "add") =>
                            "absent" \in seen[c] /\ Exists(r.dn)'
                      /\ (answer'[c] = "success" /\ r.op = "delete") =>
                            "present" \in seen[c] /\ ~Exists(r.dn)'
    OBVIOUS
  <2> QED
    BY AnswerStepJustified
<1> QED
  BY <1>1, LdapInvHolds, PTL DEF Spec, AnswersJustified

----
(* Self-service *)

\* UpdateEntry of a copy whose attributes and members are those of another leaves them.
LEMMA UpdatePutsBack ==
    ASSUME TablesInv, NEW e \in Entry, UpdateEntryTx(e), NEW copied \in Entry,
           copied.dn = e.dn, copied.class = e.class,
           copied.attrs = e.attrs, copied.members = e.members
    PROVE  PutsBack(copied)
<1>1. PICK id : id = IdOf(e.dn)
  OBVIOUS
<1>2. /\ otherAttr' = Without(otherAttr, id) \cup ({id} \X e.attrs)
      /\ memberAttr' = Without(memberAttr, id) \cup ({id} \X e.members)
      /\ groupMembers' = IF e.class = "groupOfNames"
                         THEN Without(groupMembers, id) \cup MemberRows(entries, id, e.members)
                         ELSE groupMembers
      /\ entries' = entries
  BY <1>1 DEF UpdateEntryTx, ReplaceMembers
<1>3. RowAt(e.dn)' = RowAt(e.dn) /\ RowAt(e.dn).id = id
  BY <1>1, <1>2 DEF RowAt, IdOf
<1>4. LoadedEntry(e.dn)'.attrs = e.attrs
  <2>1. LoadedEntry(e.dn)'.attrs = {a \in Attrs : <<id, a>> \in otherAttr'}
    BY <1>3 DEF LoadedEntry
  <2>2. e.attrs \subseteq Attrs
    BY DEF Entry
  <2> QED
    BY <1>2, <2>1, <2>2 DEF Without
<1>5. LoadedEntry(e.dn)'.members = e.members
  <2>1. LoadedEntry(e.dn)'.members = {m \in DNs : <<id, m>> \in memberAttr'}
    BY <1>3 DEF LoadedEntry
  <2>2. e.members \subseteq DNs
    BY DEF Entry
  <2> QED
    BY <1>2, <2>1, <2>2 DEF Without
<1>6. ASSUME NEW row \in groupMembers \cup groupMembers', row[1] = id
      PROVE  IF e.class = "groupOfNames"
             THEN row \in groupMembers' <=> \E r \in entries : r.id = row[2] /\ r.dn \in e.members
             ELSE row \in groupMembers /\ row \in groupMembers'
  <2>1. CASE e.class = "groupOfNames"
    <3>1. row \in groupMembers' <=> row \in MemberRows(entries, id, e.members)
      BY <1>2, <1>6, <2>1 DEF Without
    <3>2. \E x, y : row = <<x, y>>
      BY <1>2, <1>6, <2>1 DEF MemberRows, Without, TablesInv, TablesOK
    <3>3. row = <<id, row[2]>>
      BY <1>6, <3>2
    <3>4. row \in MemberRows(entries, id, e.members)
            <=> \E r \in entries : r.dn \in e.members /\ <<id, r.id>> = row
      BY DEF MemberRows
    <3>5. \A r \in entries : <<id, r.id>> = row <=> r.id = row[2]
      BY <3>3
    <3> QED
      BY <2>1, <3>1, <3>4, <3>5
  <2>2. CASE e.class # "groupOfNames"
    BY <1>2, <1>6, <2>2
  <2> QED
    BY <2>1, <2>2
<1>7. OnlyRowsOf(id)
  BY <1>1, UpdateTouchesOne
<1> QED
  BY <1>1, <1>4, <1>5, <1>6, <1>7 DEF PutsBack

\* Somebody who is no administrator writes nothing but a password: the rest is put back as
\* the handler read it, whatever the others have made of the entry since, even a group.
THEOREM SelfServiceIsNarrow == Spec => SelfServiceNarrow
<1>1. ASSUME LdapInv, Next, NEW c \in Conns, Commits(c), "admin" \notin seen[c],
             NEW e \in {copy[c]}
      PROVE  PutsBack(e)
  <2>0. PICK new : new = Applied(request[c], e)
    OBVIOUS
  <2>1. /\ TablesInv /\ UpdateEntryTx(new) /\ new \in Entry /\ request[c] \in Requests
        /\ SelfPasswordModify(session[c], request[c]) /\ e \in Entry
        /\ request[c].op = "modify"
    BY <1>1, <2>0, SelfServiceWrite
  <2>2. new.dn = e.dn /\ new.class = e.class
    BY <2>0, <2>1, AppliedIsEntry
  <2>3. new.attrs = e.attrs /\ new.members = e.members
    BY <2>0, <2>1 DEF Applied, Entry, SelfPasswordModify
  <2> QED
    BY <2>1, <2>2, <2>3, UpdatePutsBack
<1>2. LdapInv /\ [Next]_vars =>
        [\A c \in Conns : (Commits(c) /\ "admin" \notin seen[c]) =>
            \A e \in {copy[c]} : PutsBack(e)]_vars
  BY <1>1
<1> QED
  BY <1>2, LdapInvHolds, PTL DEF Spec, SelfServiceNarrow

====
