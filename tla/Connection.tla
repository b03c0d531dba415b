---- MODULE Connection ----
(***************************************************************************)
(* One LDAP connection (internal/protocol): the bytes a client sends, the  *)
(* loop of Connection.Handle, ReadLDAPMessage, which cuts the bytes into   *)
(* messages, and the upgrade to TLS.  TCP hands the bytes over in pieces   *)
(* of any size.                                                            *)
(*                                                                         *)
(* A byte sent inside TLS is Sealed on the wire.  What a handler does to   *)
(* the directory is modelled in LdapServer; here it answers, and a bind    *)
(* decides whom the connection acts for.                                   *)
(***************************************************************************)
EXTENDS Codec

CONSTANTS
    Scripts,        \* what clients may send: sequences of operations
    MessageIds,     \* the ids of their messages, by position
    Request(_, _),  \* the bytes of a request: id and operation
    Seen,           \* what a client reads in an answer, a function of its bytes
    StartTLSOID, WhoAmIOID,
    BufSize,        \* the buffer of the first Read: 4096 bytes in the code
    SmallPiece      \* bound: a Read returns at most so many bytes, or all it can

ASSUME ConnectionAssumption ==
    /\ MessageIds \in Seq(Nat)
    /\ \A s \in Scripts : s \in Seq(Range(s)) /\ Len(s) <= Len(MessageIds)
    /\ BufSize \in Nat /\ SmallPiece \in Nat

\* RFC 4511: a request is one BER element, which says how long it is.
ASSUME RequestsAreElements ==
    \A s \in Scripts : \A m \in DOMAIN s : \A bytes \in {Request(MessageIds[m], s[m])} :
        /\ bytes \in Bytes
        /\ \E l \in BERLength(bytes) : l.header + l.content = Len(bytes)

\* Given the bytes of a request, the decoder returns it, or refuses an operation it does
\* not know.
ASSUME RequestsDecode ==
    \A s \in Scripts : \A m \in DOMAIN s : \A bytes \in {Request(MessageIds[m], s[m])} :
        IF s[m].kind \in DOMAIN RequestTag
        THEN IsMessage[bytes] /\ Message[bytes] = [id |-> MessageIds[m], op |-> s[m]]
        ELSE ~IsMessage[bytes]

VARIABLES
    script,         \* what this client sends
    offered,        \* LDAP_STARTTLS_ENABLED
    sent,           \* how many of its requests the client has sent
    secured,        \* the client sends inside TLS
    clientOpen,     \* the client has not closed its end
    wire,           \* the bytes sent and not yet read
    loop,           \* Handle: "reading", "filling", "dispatching", "upgrading" or "closed"
    data,           \* the bytes of the message being read
    current,        \* the message being dispatched, and whether it came inside TLS
    missing,        \* the bytes io.ReadFull still waits for
    tls,            \* Connection.tls
    bound,          \* Connection.bound and boundDN, and whether the bind came inside TLS
    handled,        \* the messages dispatched, in order
    answers,        \* what the client saw of the answers, in order
    split,          \* history: a first Read ended inside the header of a message
    pipelined       \* history: the client sent a request before an answer it had to wait for

client == <<script, offered, sent, secured, clientOpen, pipelined>>
results == <<bound, handled, answers>>
reader == <<loop, data, missing, current>>
vars == <<client, wire, reader, tls, results, split>>

NoMessage == [id |-> 0, op |-> [kind |-> "none"], sealed |-> FALSE]

Init ==
    /\ script \in Scripts /\ offered \in BOOLEAN
    /\ sent = 0 /\ clientOpen = TRUE /\ wire = << >>
    /\ tls \in BOOLEAN /\ secured = tls
    /\ loop = "reading" /\ data = << >> /\ missing = 0 /\ current = NoMessage
    /\ bound = << >> /\ handled = << >> /\ answers = << >>
    /\ split = FALSE /\ pipelined = FALSE

----
(* The client *)

Hello == 512        \* the first bytes of a TLS handshake
Seal(bytes) == [i \in DOMAIN bytes |-> bytes[i] + 256]
Opened(bytes) == [i \in DOMAIN bytes |-> bytes[i] % 256]
Sealed(bytes) == \A i \in DOMAIN bytes : bytes[i] >= 256

Send ==
    /\ clientOpen
    /\ sent < Len(script)
    /\ sent' = sent + 1
    /\ LET bytes == Request(MessageIds[sent + 1], script[sent + 1])
       IN  wire' = wire \o (IF secured THEN Seal(bytes) ELSE bytes)
    /\ pipelined' = (pipelined \/ sent > Len(handled) \/ (loop = "upgrading" /\ ~secured))
    /\ UNCHANGED <<script, offered, secured, clientOpen, reader, tls, results, split>>

\* Having seen that StartTLS succeeded, the client goes on inside TLS.
ClientHello ==
    /\ clientOpen
    /\ loop = "upgrading" /\ ~secured
    /\ secured' = TRUE
    /\ wire' = Append(wire, Hello)
    /\ UNCHANGED <<script, offered, sent, clientOpen, pipelined, reader, tls, results, split>>

Hangup ==
    /\ clientOpen
    /\ clientOpen' = FALSE
    /\ UNCHANGED <<script, offered, sent, secured, pipelined, wire, reader, tls, results, split>>

----
(* ReadLDAPMessage *)

\* The loop is where it says, with nothing read.
Goes(to) == loop' = to /\ data' = << >> /\ missing' = 0 /\ current' = NoMessage

Close == Goes("closed")

\* A message that does not decode ends the connection.
Complete(bytes) ==
    IF ~IsMessage[Opened(bytes)] THEN Close
    ELSE /\ loop' = "dispatching" /\ data' = << >> /\ missing' = 0
         /\ \E m \in {Message[Opened(bytes)]} :
               current' = [id |-> m.id, op |-> m.op, sealed |-> Sealed(bytes)]

PieceSizes(limit) == {n \in 1 .. limit : n <= SmallPiece \/ n = limit}

\* The bytes past the end of the message go with the buffer.
Cut(bytes, total) == SubSeq(bytes, 1, total)

HeaderSplit(bytes) == Len(bytes) < 2 \/ Len(bytes) < 2 + LengthBytes(Opened(bytes))

\* Mutant: one byte too many is waited for.
ReadOneMore(bytes, total) ==
    IF Len(bytes) >= total THEN Complete(Cut(bytes, total))
    ELSE /\ loop' = "filling" /\ data' = bytes /\ missing' = total - Len(bytes) + 1
         /\ UNCHANGED current

\* The first Read gave these bytes of a message of total bytes.
ReadOn(bytes, total) ==
    IF Len(bytes) >= total THEN Complete(Cut(bytes, total))
    ELSE /\ loop' = "filling" /\ data' = bytes /\ missing' = total - Len(bytes)
         /\ UNCHANGED current

Read ==
    /\ loop = "reading" /\ wire # << >>
    /\ \E n \in PieceSizes(Min({Len(wire), BufSize})) : \E bytes \in {SubSeq(wire, 1, n)} :
          /\ wire' = SubSeq(wire, n + 1, Len(wire))
          /\ split' = (split \/ HeaderSplit(bytes))
          /\ \/ BERLength(Opened(bytes)) = {} /\ Close
             \/ \E l \in BERLength(Opened(bytes)) : ReadOn(bytes, l.header + l.content)
    /\ UNCHANGED <<client, tls, results>>

\* Mutant: a single Read in place of io.ReadFull, and zeros in the buffer behind it.
FillOnce ==
    /\ loop = "filling" /\ wire # << >>
    /\ \E n \in PieceSizes(Min({Len(wire), missing})) :
          /\ wire' = SubSeq(wire, n + 1, Len(wire))
          /\ Complete(data \o SubSeq(wire, 1, n) \o [i \in 1 .. missing - n |-> 0])
    /\ UNCHANGED <<client, tls, results, split>>

\* io.ReadFull, piece by piece.
Fill ==
    /\ loop = "filling" /\ wire # << >>
    /\ \E n \in PieceSizes(Min({Len(wire), missing})) :
       \E bytes \in {data \o SubSeq(wire, 1, n)} :
          /\ wire' = SubSeq(wire, n + 1, Len(wire))
          /\ IF n = missing THEN Complete(bytes)
             ELSE data' = bytes /\ missing' = missing - n /\ UNCHANGED <<loop, current>>
    /\ UNCHANGED <<client, tls, results, split>>

\* EOF, wherever the connection is read.
ReadEOF ==
    /\ loop \in {"reading", "filling", "upgrading"}
    /\ wire = << >> /\ ~clientOpen
    /\ Close
    /\ UNCHANGED <<client, wire, tls, results, split>>

----
(* dispatch and the handlers *)

\* The handler of the current message ran; it wrote the responses, which a client that has
\* left does not see.
Handled(responses) ==
    /\ handled' = Append(handled, [id |-> current.id, op |-> current.op,
                                   sealed |-> current.sealed, protected |-> tls])
    /\ answers' = IF ~clientOpen THEN answers
                  ELSE answers \o [i \in DOMAIN responses |->
                                      Seen[EncodeLDAPResponse(current.id, responses[i])]]
    /\ UNCHANGED <<client, wire, split>>

Done == Goes("reading")

Answer(kind, code) == [kind |-> kind, code |-> code, diagnostic |-> << >>]
Extended(code, name, value) ==
    [kind |-> "extended", code |-> code, diagnostic |-> << >>, name |-> name, value |-> value]

\* handleBind, which LdapServer models: the credentials are right or not.
HandleBind ==
    /\ loop = "dispatching" /\ current.op.kind = "bind"
    /\ \/ Handled(<<Answer("bind", 0)>>) /\ bound' = <<[dn |-> current.op.name, sealed |-> current.sealed]>>
       \/ Handled(<<Answer("bind", 49)>>) /\ bound' = << >>
    /\ Done /\ UNCHANGED tls

\* handleUnbind clears the bind; the loop goes on.
HandleUnbind ==
    /\ loop = "dispatching" /\ current.op.kind = "unbind"
    /\ Handled(<< >>)
    /\ bound' = << >> /\ Done /\ UNCHANGED tls

\* A search answers with an entry, here one with the attributes asked for, and a result.
Found(op) == [kind |-> "entry", name |-> op.base,
              attrs |-> [i \in DOMAIN op.attrs |-> [name |-> op.attrs[i], values |-> <<op.base>>]]]

HandleOther ==
    /\ loop = "dispatching" /\ current.op.kind \in {"search", "add", "modify", "delete", "compare"}
    /\ Handled(IF current.op.kind = "search" THEN <<Found(current.op), Answer("search", 0)>>
               ELSE <<Answer(current.op.kind, 0)>>)
    /\ Done /\ UNCHANGED <<tls, bound>>

IsExtended(oids) ==
    loop = "dispatching" /\ current.op.kind = "extended" /\ current.op.name \in oids

DNPrefix == <<100, 110, 58>>
AuthzId == IF bound = << >> \/ bound[1].dn = << >> THEN << >> ELSE DNPrefix \o bound[1].dn

HandleWhoAmI ==
    /\ IsExtended({WhoAmIOID})
    /\ Handled(<<Extended(0, WhoAmIOID, <<AuthzId>>)>>)
    /\ Done /\ UNCHANGED <<tls, bound>>

\* StartTLS is not offered, or the connection is in TLS or bound.
RefuseStartTLS ==
    /\ IsExtended({StartTLSOID})
    /\ \/ ~offered /\ Handled(<<Extended(52, << >>, << >>)>>)
       \/ offered /\ (tls \/ bound # << >>) /\ Handled(<<Extended(1, << >>, << >>)>>)
    /\ Done /\ UNCHANGED <<tls, bound>>

HandleUnsupported ==
    /\ loop = "dispatching" /\ current.op.kind = "extended"
    /\ current.op.name \notin {WhoAmIOID, StartTLSOID}
    /\ Handled(<<Extended(52, << >>, << >>)>>)
    /\ Done /\ UNCHANGED <<tls, bound>>

\* Mutant: the connection is marked and goes on as it is.
MarkOnly == tls' = TRUE /\ Done

\* Connection.StartTLS: the loop now waits for the handshake.
StartTLS == tls' = TRUE /\ Goes("upgrading")

\* The success is written and TLS started; the write may fail once the client has left.
HandleStartTLS ==
    /\ IsExtended({StartTLSOID})
    /\ offered /\ ~tls /\ bound = << >>
    /\ Handled(<<Extended(0, << >>, << >>)>>)
    /\ UNCHANGED bound
    /\ \/ StartTLS
       \/ ~clientOpen /\ Done /\ UNCHANGED tls

\* The handshake takes the client's Hello.  Anything else breaks it: the connection is
\* closed, and the error of the handler is followed by one of the next Read.
Handshake ==
    /\ loop = "upgrading" /\ wire # << >>
    /\ wire' = Tail(wire)
    /\ IF Head(wire) = Hello THEN Done ELSE Close
    /\ UNCHANGED <<client, tls, results, split>>

Dispatch ==
    \/ HandleBind \/ HandleUnbind \/ HandleOther
    \/ HandleWhoAmI \/ RefuseStartTLS \/ HandleStartTLS \/ HandleUnsupported

Handle == Read \/ Fill \/ ReadEOF \/ Dispatch \/ Handshake

Next == Send \/ ClientHello \/ Hangup \/ Handle

\* The goroutine of the connection is scheduled, and the network delivers what was sent.
Spec == Init /\ [][Next]_vars /\ WF_vars(Handle)

----
(* Properties *)

\* What dispatch is given is what the client sent, id and operation, in its order, for a
\* client that waits for each answer: however TCP cut the bytes, each call of
\* ReadLDAPMessage reads one message and decodes it to what was encoded.
HandledAsSent ==
    ~pipelined =>
        \A i \in DOMAIN handled :
            handled[i].id = MessageIds[i] /\ handled[i].op = script[i]

Unknown(m) == m \in DOMAIN script /\ script[m].kind \notin DOMAIN RequestTag

\* Handle leaves its loop with such a client's request unhandled only after a first Read
\* that did not hold a whole header, or for an operation the decoder does not know: a
\* client that sends a request and hangs up has it handled.
NoRequestLost ==
    (loop = "closed" /\ ~split /\ ~pipelined) =>
        \/ Len(handled) = sent /\ ~clientOpen
        \/ Len(handled) = sent - 1 /\ Unknown(sent)

\* Once a connection is protected by TLS, whether from its start or by StartTLS, every
\* request handled came inside TLS, and so did the bind it acts under: nothing that was
\* sent in the clear, however it is timed against the upgrade, takes effect after it.
UpgradedIsFresh ==
    /\ \A i \in DOMAIN handled : handled[i].protected => handled[i].sealed
    /\ tls /\ bound # << >> => bound[1].sealed

AnswerTags(op) ==
    CASE op.kind = "unbind" -> << >>
      [] op.kind = "search" -> <<ResponseTag.entry, ResponseTag.search>>
      [] OTHER -> <<ResponseTag[op.kind]>>

\* The client can tell which request each answer is for: the answers carry, in the order of
\* the requests handled, their ids and the tags their operations call for, and are as long
\* as they say.
AnswersIdentified ==
    IsPrefix(answers,
             FlattenSeq([i \in DOMAIN handled |->
                 LET tags == AnswerTags(handled[i].op)
                 IN  [j \in DOMAIN tags |-> <<handled[i].id, tags[j]>>]]))

\* A request that was sent is handled in the end, unless its client did not wait for the
\* answer before, its header was split, or the decoder does not know the operation.
SentIsHandled ==
    \A m \in DOMAIN MessageIds :
        (sent >= m) ~> (Len(handled) >= m \/ split \/ pipelined \/ Unknown(m))

----
(* The inductive invariant behind the properties *)

OnWireByte == 0 .. Hello

ConnTypes ==
    /\ script \in Scripts /\ sent \in 0 .. Len(script)
    /\ {offered, secured, clientOpen, tls, split, pipelined} \subseteq BOOLEAN
    /\ loop \in {"reading", "filling", "dispatching", "upgrading", "closed"}
    /\ wire \in Seq(OnWireByte) /\ data \in Seq(OnWireByte) /\ missing \in Nat
    /\ handled \in Seq(Range(handled))

\* The loop serves requests; it is not between two protocols, and not over.
Serving == loop \in {"reading", "filling", "dispatching"}

\* Between StartTLS and the handshake the wire may hold bytes sent in the clear, but none
\* behind the Hello, and the loop gets no further unless the Hello comes first.
FreshInv ==
    /\ secured => tls
    /\ Serving /\ tls => secured
    /\ Serving /\ secured => Sealed(wire) /\ Sealed(data)
    /\ loop = "dispatching" /\ tls => current.sealed
    /\ loop = "upgrading" => tls /\ bound = << >>
    /\ \A i \in DOMAIN wire : wire[i] = Hello =>
          /\ secured /\ ~Serving
          /\ \A j \in DOMAIN wire : j > i => wire[j] \in 256 .. Hello - 1
    /\ UpgradedIsFresh

\* The bytes of the client's m-th request, as it sends them.
OnWire(m) ==
    LET bytes == Request(MessageIds[m], script[m])
    IN  IF secured THEN Seal(bytes) ELSE bytes

\* All the client has sent is handled, or all but the last.
NoneOpen == sent = Len(handled)
OneOpen == sent = Len(handled) + 1

\* At most one request is on its way, and the loop has read none of it, some of it, or all of
\* it and nothing else.
OneOnItsWay ==
    /\ loop = "reading" =>
          \/ NoneOpen /\ wire = << >>
          \/ OneOpen /\ wire = OnWire(sent)
    /\ loop = "filling" =>
          /\ OneOpen /\ data \o wire = OnWire(sent)
          /\ missing = Len(wire) /\ missing > 0
    /\ loop = "dispatching" =>
          /\ OneOpen /\ wire = << >>
          /\ current.id = MessageIds[sent] /\ current.op = script[sent]
    /\ loop = "upgrading" =>
          \/ NoneOpen /\ wire = (IF secured THEN <<Hello>> ELSE << >>)
          \/ OneOpen /\ secured /\ wire = <<Hello>> \o OnWire(sent)

FramedInv ==
    /\ HandledAsSent /\ NoRequestLost
    /\ ~pipelined => OneOnItsWay

ConnectionInv == ConnTypes /\ FreshInv /\ FramedInv

====
