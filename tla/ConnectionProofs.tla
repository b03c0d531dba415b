---- MODULE ConnectionProofs ----
(***************************************************************************)
(* One LDAP connection, for every script of its client, every way TCP cuts *)
(* the bytes and every moment of the upgrade to TLS.                       *)
(***************************************************************************)
EXTENDS Connection, NaturalsInduction, WellFoundedInduction, SequenceTheorems, TLAPS

----
(* Lengths *)

\* A set of numbers that holds 0 and, with a number, the next one, holds them all.
LEMMA InductionOnSet ==
    ASSUME NEW T, 0 \in T, \A n \in Nat : n \in T => n + 1 \in T
    PROVE  Nat \subseteq T
<1> DEFINE B == Nat \ T
<1> SUFFICES ASSUME B # {} PROVE FALSE
  OBVIOUS
<1>1. PICK x \in B : \A y \in B : <<y, x>> \notin OpToRel(<, Nat)
  BY WFMin, NatLessThanWellFounded, Zenon
<1>2. \A y \in B : ~(y < x)
  BY <1>1, Zenon DEF OpToRel
<1>3. x # 0 /\ x - 1 \in Nat /\ x - 1 < x
  <2>1. x \in Nat /\ x # 0
    OBVIOUS
  <2> QED
    BY <2>1
<1>4. x - 1 \in T
  BY <1>2, <1>3
<1>5. x \in T
  BY <1>3, <1>4
<1> QED
  BY <1>5

LEMMA ByteRange == \A b \in Byte : b \in Nat /\ b < 256
BY DEF Byte

LEMMA WireByteRange == \A b \in OnWireByte : b \in Nat /\ b % 256 \in Byte
BY DEF OnWireByte, Hello, Byte

\* The length in a header is a natural number.
LEMMA BigEndianIsNat ==
    ASSUME NEW bytes \in Bytes
    PROVE  BigEndian(bytes) \in Nat
<1> DEFINE Places == 0 .. Len(bytes)
           Values(f) == f = [i \in Places |-> IF i = 0 THEN 0 ELSE 256 * f[i - 1] + bytes[i]]
           value == CHOOSE f : Values(f)
           Upto(n, f) == /\ f \in [0 .. n -> Nat] /\ f[0] = 0
                         /\ \A i \in 1 .. n : f[i] = 256 * f[i - 1] + bytes[i]
           T == {n \in Nat : n <= Len(bytes) => \E f : Upto(n, f)}
<1>1. Len(bytes) \in Nat /\ \A i \in 1 .. Len(bytes) : bytes[i] \in Nat
  <2>1. Len(bytes) \in Nat /\ \A i \in 1 .. Len(bytes) : bytes[i] \in Byte
    BY DEF Bytes
  <2> QED
    BY <2>1, ByteRange
<1>2. 0 \in T
  <2>1. Upto(0, [i \in 0 .. 0 |-> 0])
    OBVIOUS
  <2> QED
    BY <2>1
<1>3. ASSUME NEW n \in Nat, n \in T PROVE n + 1 \in T
  <2> SUFFICES ASSUME n + 1 <= Len(bytes) PROVE \E f : Upto(n + 1, f)
    OBVIOUS
  <2>0. n <= Len(bytes)
    BY <1>1
  <2>1. PICK f : Upto(n, f)
    BY <1>3, <2>0
  <2> DEFINE k == [i \in 0 .. n + 1 |-> IF i = n + 1 THEN 256 * f[n] + bytes[n + 1] ELSE f[i]]
  <2>2. f[n] \in Nat /\ bytes[n + 1] \in Nat
    BY <1>1, <2>1
  <2>3. k \in [0 .. n + 1 -> Nat] /\ k[0] = 0
    BY <2>1, <2>2
  <2>4. \A i \in 1 .. n + 1 : k[i] = 256 * k[i - 1] + bytes[i]
    BY <2>1
  <2> HIDE DEF k
  <2> QED
    BY <2>3, <2>4
<1>4. Len(bytes) \in T
  <2> HIDE DEF T
  <2> QED
    BY <1>1, <1>2, <1>3, InductionOnSet
<1>5. PICK f : Upto(Len(bytes), f)
  BY <1>1, <1>4
<1>6. Values(f)
  BY <1>1, <1>5
<1>7. Values(value)
  <2> HIDE DEF Values
  <2> QED
    BY <1>6
<1> DEFINE V == {n \in Nat : n <= Len(bytes) => value[n] \in Nat}
<1> HIDE DEF value
<1>8. 0 \in V
  BY <1>1, <1>7
<1>9. ASSUME NEW n \in Nat, n \in V PROVE n + 1 \in V
  <2> SUFFICES ASSUME n + 1 <= Len(bytes) PROVE value[n + 1] \in Nat
    OBVIOUS
  <2>1. value[n] \in Nat /\ bytes[n + 1] \in Nat
    BY <1>1, <1>9
  <2>2. value[n + 1] = 256 * value[n] + bytes[n + 1]
    BY <1>1, <1>7
  <2> QED
    BY <2>1, <2>2
<1>10. Len(bytes) \in V
  <2> HIDE DEF V
  <2> QED
    BY <1>1, <1>8, <1>9, InductionOnSet
<1>11. value[Len(bytes)] \in Nat
  BY <1>1, <1>10
<1> QED
  BY <1>11, Zenon DEF BigEndian, value

\* A header has at least two bytes, and a length.
LEMMA HeaderTypes ==
    ASSUME NEW bytes \in Bytes, NEW l \in BERLength(bytes)
    PROVE  /\ l.header \in Nat /\ l.header >= 2 /\ l.header <= Len(bytes)
           /\ l.content \in Nat
           /\ BERLength(bytes) = {l}
<1>1. Len(bytes) \in Nat /\ Len(bytes) >= 2
  BY DEF BERLength, Bytes
<1>0. bytes[2] \in Nat /\ bytes[2] < 256
  BY <1>1, ByteRange DEF Bytes
<1>2. CASE bytes[2] < 128
  BY <1>0, <1>1, <1>2 DEF BERLength
<1>3. CASE ~(bytes[2] < 128)
  <2> DEFINE n == LengthBytes(bytes)
  <2>1. n \in Nat
    BY <1>0, <1>3 DEF LengthBytes
  <2>2. n \in 1 .. 4 /\ Len(bytes) >= 2 + n
    BY <1>0, <1>1, <1>3, <2>1 DEF BERLength
  <2>3. SubSeq(bytes, 3, 2 + n) \in Bytes
    BY <1>1, <2>1, <2>2 DEF Bytes
  <2>4. BigEndian(SubSeq(bytes, 3, 2 + n)) \in Nat
    BY <2>3, BigEndianIsNat
  <2>5. BERLength(bytes) = {[header |-> 2 + n, content |-> BigEndian(SubSeq(bytes, 3, 2 + n))]}
    BY <1>0, <1>1, <1>3, <2>1, <2>2 DEF BERLength
  <2> QED
    BY <2>1, <2>2, <2>4, <2>5
<1> QED
  BY <1>2, <1>3

\* What the first bytes of an element say of its length is what all of them say, or nothing
\* as long as they do not hold the header.
LEMMA HeaderOfPrefix ==
    ASSUME NEW bytes \in Bytes, NEW l \in BERLength(bytes), NEW n \in 1 .. Len(bytes)
    PROVE  \A p \in {SubSeq(bytes, 1, n)} :
               \/ BERLength(p) = {l}
               \/ BERLength(p) = {} /\ (Len(p) < 2 \/ Len(p) < 2 + LengthBytes(p))
<1> DEFINE p == SubSeq(bytes, 1, n)
           k == LengthBytes(bytes)
<1>1. /\ Len(bytes) \in Nat /\ Len(bytes) >= 2
      /\ bytes[2] \in Nat
      /\ BERLength(bytes) = {l}
  <2>1. Len(bytes) \in Nat /\ Len(bytes) >= 2 /\ BERLength(bytes) = {l}
    <3>1. Len(bytes) \in Nat
      BY DEF Bytes
    <3> QED
      BY <3>1, HeaderTypes
  <2> QED
    BY <2>1, ByteRange DEF Bytes
<1>2. Len(p) = n /\ \A i \in 1 .. n : p[i] = bytes[i]
  BY <1>1 DEF Bytes
<1>3. p \in Bytes
  BY <1>1 DEF Bytes
<1> HIDE DEF p
<1>4. CASE n < 2
  <2>1. BERLength(p) = {}
    BY <1>2, <1>4 DEF BERLength
  <2> QED
    BY <1>2, <1>4, <2>1 DEF p
<1>5. CASE n >= 2 /\ bytes[2] < 128
  <2>1. p[2] = bytes[2]
    BY <1>2, <1>5
  <2>2. BERLength(p) = BERLength(bytes)
    BY <1>1, <1>2, <1>5, <2>1 DEF BERLength
  <2> QED
    BY <1>1, <2>2 DEF p
<1>6. CASE n >= 2 /\ ~(bytes[2] < 128)
  <2>1. p[2] = bytes[2] /\ LengthBytes(p) = k /\ k \in Nat
    BY <1>1, <1>2, <1>6 DEF LengthBytes
  <2>2. k \in 1 .. 4 /\ Len(bytes) >= 2 + k
    BY <1>1, <1>6, <2>1 DEF BERLength
  <2> HIDE DEF k
  <2>3. CASE n < 2 + k
    <3>1. BERLength(p) = {}
      BY <1>2, <1>6, <2>1, <2>2, <2>3 DEF BERLength
    <3> QED
      BY <1>2, <2>1, <2>3, <3>1 DEF p
  <2>4. CASE ~(n < 2 + k)
    <3>1. SubSeq(p, 3, 2 + k) = SubSeq(bytes, 3, 2 + k)
      BY <1>1, <1>2, <1>3, <2>2, <2>4 DEF Bytes
    <3>2. BERLength(p) = {[header |-> 2 + k, content |-> BigEndian(SubSeq(p, 3, 2 + k))]}
      BY <1>2, <1>6, <2>1, <2>2, <2>4 DEF BERLength
    <3>3. BERLength(bytes) = {[header |-> 2 + k, content |-> BigEndian(SubSeq(bytes, 3, 2 + k))]}
      BY <1>1, <1>6, <2>2 DEF BERLength, k
    <3> QED
      BY <1>1, <3>1, <3>2, <3>3 DEF p
  <2> QED
    BY <2>3, <2>4
<1>7. n < 2 \/ n >= 2
  BY <1>1
<1> QED
  BY <1>4, <1>5, <1>6, <1>7, Zenon

----
(* Bytes on the wire *)

LEMMA WireByteTypes ==
    /\ \A b \in Byte : b \in OnWireByte /\ b + 256 \in OnWireByte /\ b + 256 # Hello /\ b # Hello
    /\ Hello \in OnWireByte
BY DEF Byte, OnWireByte, Hello

\* Opening gives the bytes back, whether they were sealed or not.
LEMMA OpenedBytes ==
    /\ \A s \in Seq(OnWireByte) : Opened(s) \in Bytes /\ Len(Opened(s)) = Len(s)
    /\ \A b \in Bytes : Opened(b) = b /\ Opened(Seal(b)) = b
<1>1. ASSUME NEW s \in Seq(OnWireByte)
      PROVE  Opened(s) \in Bytes /\ Len(Opened(s)) = Len(s)
  BY WireByteRange DEF Opened, Bytes
<1>2. ASSUME NEW b \in Bytes
      PROVE  Opened(b) = b /\ Opened(Seal(b)) = b
  <2>1. \A i \in DOMAIN b : b[i] % 256 = b[i] /\ (b[i] + 256) % 256 = b[i]
    <3>1. \A i \in DOMAIN b : b[i] \in Byte
      BY DEF Bytes
    <3>2. \A x \in Byte : x % 256 = x /\ (x + 256) % 256 = x
      BY DEF Byte
    <3> QED
      BY <3>1, <3>2
  <2>2. Opened(b) = [i \in DOMAIN b |-> b[i]] /\ b = [i \in DOMAIN b |-> b[i]]
    BY <2>1 DEF Opened, Bytes
  <2>3. Opened(Seal(b)) = [i \in DOMAIN b |-> b[i]]
    BY <2>1 DEF Opened, Seal
  <2> QED
    BY <2>2, <2>3
<1> QED
  BY <1>1, <1>2

\* What a client sends, sealed or not, is bytes of the wire.
LEMMA SealedBytes ==
    ASSUME NEW b \in Bytes
    PROVE  /\ b \in Seq(OnWireByte)
           /\ Seal(b) \in Seq(OnWireByte) /\ Len(Seal(b)) = Len(b) /\ Sealed(Seal(b))
           /\ \A i \in DOMAIN b : b[i] # Hello
           /\ \A i \in DOMAIN Seal(b) : Seal(b)[i] # Hello
<1>1. \A i \in 1 .. Len(b) : b[i] \in Byte
  BY DEF Bytes
<1>2. Len(b) \in Nat /\ DOMAIN b = 1 .. Len(b)
  BY DEF Bytes
<1>3. b \in Seq(OnWireByte) /\ \A i \in DOMAIN b : b[i] # Hello
  BY <1>1, WireByteTypes DEF Bytes
<1>4. Seal(b) \in Seq(OnWireByte) /\ Len(Seal(b)) = Len(b) /\ DOMAIN Seal(b) = 1 .. Len(b)
  BY <1>1, <1>2, WireByteTypes DEF Seal
<1>5. \A i \in 1 .. Len(b) : Seal(b)[i] = b[i] + 256
  BY <1>2 DEF Seal
<1>6. \A i \in 1 .. Len(b) : Seal(b)[i] # Hello
  BY <1>1, <1>5, WireByteTypes
<1>7. Sealed(Seal(b))
  BY <1>1, <1>4, <1>5, ByteRange DEF Sealed
<1> QED
  BY <1>3, <1>4, <1>6, <1>7

\* Pieces of what is sealed are sealed, and so is what they are put together to.
LEMMA SealedPieces ==
    ASSUME NEW s \in Seq(OnWireByte), NEW t \in Seq(OnWireByte)
    PROVE  /\ Sealed(s) => \A m \in Nat \ {0} : \A n \in 0 .. Len(s) : Sealed(SubSeq(s, m, n))
           /\ Sealed(s) /\ Sealed(t) => Sealed(s \o t)
           /\ s \o t \in Seq(OnWireByte)
           /\ \A m \in Nat \ {0} : \A n \in 0 .. Len(s) : SubSeq(s, m, n) \in Seq(OnWireByte)
<1>1. ASSUME Sealed(s), NEW m \in Nat \ {0}, NEW n \in 0 .. Len(s)
      PROVE  Sealed(SubSeq(s, m, n))
  BY <1>1 DEF Sealed
<1>2. ASSUME Sealed(s), Sealed(t) PROVE Sealed(s \o t)
  BY <1>2 DEF Sealed
<1>3. \A m \in Nat \ {0} : \A n \in 0 .. Len(s) : SubSeq(s, m, n) \in Seq(OnWireByte)
  OBVIOUS
<1> QED
  BY <1>1, <1>2, <1>3

\* One more element.
LEMMA OneMore ==
    ASSUME NEW S, NEW s \in Seq(S), NEW c, NEW t, t = Append(s, c)
    PROVE  /\ t \in Seq(Range(t)) /\ Len(t) = Len(s) + 1 /\ t[Len(s) + 1] = c
           /\ \A i \in DOMAIN s : i \in DOMAIN t /\ t[i] = s[i]
           /\ \A i \in DOMAIN t : i \in DOMAIN s \/ i = Len(s) + 1
<1>1. s \in Seq(S \cup {c}) /\ c \in S \cup {c}
  OBVIOUS
<1>2. t \in Seq(S \cup {c}) /\ Len(t) = Len(s) + 1 /\ Len(s) \in Nat /\ DOMAIN t = 1 .. Len(t)
  BY <1>1
<1>3. \A i \in 1 .. Len(t) : t[i] \in Range(t)
  BY <1>2, Zenon DEF Range
<1>4. t \in Seq(Range(t))
  BY <1>2, <1>3
<1>5. /\ t[Len(s) + 1] = c
      /\ \A i \in 1 .. Len(s) : t[i] = s[i]
  BY <1>1
<1> QED
  BY <1>2, <1>4, <1>5

----
(* The steps of the loop *)

\* What Read takes off the wire is a piece of it, and not empty.
LEMMA ReadStep ==
    ASSUME ConnTypes, Read
    PROVE  \E n \in 1 .. Len(wire) : \E bytes \in {SubSeq(wire, 1, n)} :
              /\ loop = "reading"
              /\ bytes \in Seq(OnWireByte) /\ Len(bytes) = n
              /\ wire' = SubSeq(wire, n + 1, Len(wire))
              /\ split' = (split \/ HeaderSplit(bytes))
              /\ UNCHANGED <<client, tls, results>>
              /\ \/ BERLength(Opened(bytes)) = {} /\ Close
                 \/ \E l \in BERLength(Opened(bytes)) :
                       /\ l.header + l.content \in Nat /\ l.header + l.content >= 2
                       /\ ReadOn(bytes, l.header + l.content)
<1> DEFINE limit == Min({Len(wire), BufSize})
<1>1. Len(wire) \in Nat /\ BufSize \in Nat
  BY ConnectionAssumption DEF ConnTypes
<1>2. limit \in Nat /\ limit <= Len(wire)
  <2>1. ASSUME NEW a \in Nat, NEW b \in Nat PROVE Min({a, b}) \in Nat /\ Min({a, b}) <= a
    <3>1. \E x \in {a, b} : \A y \in {a, b} : x <= y
      BY <2>1
    <3> QED
      BY <3>1 DEF Min
  <2> QED
    BY <1>1, <2>1
<1> HIDE DEF limit
<1>3. PICK n \in PieceSizes(limit) : \E bytes \in {SubSeq(wire, 1, n)} :
          /\ wire' = SubSeq(wire, n + 1, Len(wire))
          /\ split' = (split \/ HeaderSplit(bytes))
          /\ \/ BERLength(Opened(bytes)) = {} /\ Close
             \/ \E l \in BERLength(Opened(bytes)) : ReadOn(bytes, l.header + l.content)
  BY Zenon DEF Read, limit
<1>4. n \in 1 .. Len(wire)
  BY <1>1, <1>2, <1>3 DEF PieceSizes
<1>5. SubSeq(wire, 1, n) \in Seq(OnWireByte) /\ Len(SubSeq(wire, 1, n)) = n
  BY <1>1, <1>4 DEF ConnTypes
<1>6. Opened(SubSeq(wire, 1, n)) \in Bytes
  BY <1>5, OpenedBytes
<1>7. \A l \in BERLength(Opened(SubSeq(wire, 1, n))) :
          l.header + l.content \in Nat /\ l.header + l.content >= 2
  BY <1>6, HeaderTypes
<1>8. loop = "reading" /\ UNCHANGED <<client, tls, results>>
  BY DEF Read
<1> QED
  BY <1>3, <1>4, <1>5, <1>7, <1>8

\* What Fill takes are the bytes the message misses, or some of them.
LEMMA FillStep ==
    ASSUME ConnTypes, Fill
    PROVE  \E n \in 1 .. Len(wire) : \E bytes \in {data \o SubSeq(wire, 1, n)} :
              /\ loop = "filling" /\ n <= missing
              /\ bytes \in Seq(OnWireByte)
              /\ wire' = SubSeq(wire, n + 1, Len(wire))
              /\ UNCHANGED <<client, tls, results, split>>
              /\ IF n = missing THEN Complete(bytes)
                 ELSE data' = bytes /\ missing' = missing - n /\ UNCHANGED <<loop, current>>
<1> DEFINE limit == Min({Len(wire), missing})
<1>1. Len(wire) \in Nat /\ missing \in Nat
  BY DEF ConnTypes
<1>2. limit \in Nat /\ limit <= Len(wire) /\ limit <= missing
  <2>1. ASSUME NEW a \in Nat, NEW b \in Nat
        PROVE  Min({a, b}) \in Nat /\ Min({a, b}) <= a /\ Min({a, b}) <= b
    <3>1. \E x \in {a, b} : \A y \in {a, b} : x <= y
      BY <2>1
    <3> QED
      BY <3>1 DEF Min
  <2> QED
    BY <1>1, <2>1
<1> HIDE DEF limit
<1>3. PICK n \in PieceSizes(limit) : \E bytes \in {data \o SubSeq(wire, 1, n)} :
          /\ wire' = SubSeq(wire, n + 1, Len(wire))
          /\ IF n = missing THEN Complete(bytes)
             ELSE data' = bytes /\ missing' = missing - n /\ UNCHANGED <<loop, current>>
  BY Zenon DEF Fill, limit
<1>4. n \in 1 .. Len(wire) /\ n <= missing
  BY <1>1, <1>2, <1>3 DEF PieceSizes
<1>5. data \o SubSeq(wire, 1, n) \in Seq(OnWireByte)
  <2>1. SubSeq(wire, 1, n) \in Seq(OnWireByte)
    BY <1>1, <1>4 DEF ConnTypes
  <2> QED
    BY <2>1, SealedPieces DEF ConnTypes
<1>6. loop = "filling" /\ UNCHANGED <<client, tls, results, split>>
  BY DEF Fill
<1> QED
  BY <1>3, <1>4, <1>5, <1>6

\* A whole message is dispatched or ends the connection.
LEMMA CompleteStep ==
    ASSUME NEW bytes, Complete(bytes)
    PROVE  /\ data' = << >> /\ missing' = 0
           /\ \/ loop' = "closed" /\ ~IsMessage[Opened(bytes)]
              \/ /\ loop' = "dispatching" /\ IsMessage[Opened(bytes)]
                 /\ current'.id = Message[Opened(bytes)].id
                 /\ current'.op = Message[Opened(bytes)].op
                 /\ current'.sealed = Sealed(bytes)
BY DEF Complete, Close, Goes

\* The record of the message that is being dispatched.
Call == [id |-> current.id, op |-> current.op, sealed |-> current.sealed, protected |-> tls]

\* A handler is done with the message and leaves the loop reading, or it starts TLS.
LEMMA DispatchStep ==
    ASSUME Dispatch
    PROVE  /\ loop = "dispatching"
           /\ handled' = Append(handled, Call)
           /\ UNCHANGED <<client, wire, split>>
           /\ \/ /\ Goes("reading") /\ tls' = tls
                 /\ \/ bound' = bound \/ bound' = << >>
                    \/ bound' = <<[dn |-> current.op.name, sealed |-> current.sealed]>>
              \/ Goes("upgrading") /\ tls' = TRUE /\ ~tls /\ bound = << >> /\ bound' = << >>
<1>0. ASSUME NEW responses, Handled(responses)
      PROVE  handled' = Append(handled, Call) /\ UNCHANGED <<client, wire, split>>
  BY <1>0 DEF Handled, Call
<1>1. CASE HandleBind
  BY <1>0, <1>1 DEF HandleBind, Done
<1>2. CASE HandleUnbind
  BY <1>0, <1>2 DEF HandleUnbind, Done
<1>3. CASE HandleOther
  BY <1>0, <1>3 DEF HandleOther, Done
<1>4. CASE HandleWhoAmI
  BY <1>0, <1>4 DEF HandleWhoAmI, IsExtended, Done
<1>5. CASE RefuseStartTLS
  BY <1>0, <1>5 DEF RefuseStartTLS, IsExtended, Done
<1>6. CASE HandleUnsupported
  BY <1>0, <1>6 DEF HandleUnsupported, Done
<1>7. CASE HandleStartTLS
  BY <1>0, <1>7 DEF HandleStartTLS, IsExtended, StartTLS, Done
<1> QED
  BY <1>1, <1>2, <1>3, <1>4, <1>5, <1>6, <1>7 DEF Dispatch

----
(* Types *)

LEMMA TypesStep ==
    ASSUME ConnTypes, [Next]_vars
    PROVE  ConnTypes'
<1> USE DEF client, reader, results
<1> DEFINE Loops == {"reading", "filling", "dispatching", "upgrading", "closed"}
<1>1. /\ script \in Scripts /\ script \in Seq(Range(script)) /\ Len(script) \in Nat
      /\ << >> \in Seq(OnWireByte) /\ 0 \in Nat
  BY ConnectionAssumption DEF ConnTypes
<1>2. CASE Send
  <2>1. sent \in 0 .. Len(script) /\ sent + 1 \in DOMAIN script
    BY <1>1, <1>2 DEF ConnTypes, Send
  <2>2. OnWire(sent + 1) \in Seq(OnWireByte)
    <3>1. Request(MessageIds[sent + 1], script[sent + 1]) \in Bytes
      BY <1>1, <2>1, RequestsAreElements
    <3> QED
      BY <3>1, SealedBytes DEF OnWire
  <2>3. wire' = wire \o OnWire(sent + 1)
    BY <1>2 DEF Send, OnWire
  <2>4. wire' \in Seq(OnWireByte)
    BY <2>2, <2>3, SealedPieces DEF ConnTypes
  <2>5. sent' \in 0 .. Len(script) /\ pipelined' \in BOOLEAN
    BY <1>1, <1>2, <2>1 DEF Send, ConnTypes
  <2>6. UNCHANGED <<script, offered, secured, clientOpen, tls, split, loop, data, missing, handled>>
    BY <1>2 DEF Send
  <2> QED
    BY <2>4, <2>5, <2>6 DEF ConnTypes
<1>3. CASE ClientHello
  <2>1. wire' \in Seq(OnWireByte)
    BY <1>3, WireByteTypes DEF ClientHello, ConnTypes
  <2> QED
    BY <1>3, <2>1 DEF ClientHello, ConnTypes
<1>4. CASE Hangup
  BY <1>4 DEF Hangup, ConnTypes
<1>5. CASE Read
  <2>1. PICK n \in 1 .. Len(wire) : \E bytes \in {SubSeq(wire, 1, n)} :
          /\ loop = "reading"
          /\ bytes \in Seq(OnWireByte) /\ Len(bytes) = n
          /\ wire' = SubSeq(wire, n + 1, Len(wire))
          /\ split' = (split \/ HeaderSplit(bytes))
          /\ UNCHANGED <<client, tls, results>>
          /\ \/ BERLength(Opened(bytes)) = {} /\ Close
             \/ \E l \in BERLength(Opened(bytes)) :
                   /\ l.header + l.content \in Nat /\ l.header + l.content >= 2
                   /\ ReadOn(bytes, l.header + l.content)
    BY <1>5, ReadStep
  <2>2. wire' \in Seq(OnWireByte)
    BY <2>1, SealedPieces DEF ConnTypes
  <2>3. loop' \in Loops /\ data' \in Seq(OnWireByte) /\ missing' \in Nat
    <3>1. CASE Close
      BY <1>1, <3>1 DEF Close, Goes
    <3>2. CASE \E total \in Nat : ReadOn(SubSeq(wire, 1, n), total)
      <4>1. PICK total \in Nat : ReadOn(SubSeq(wire, 1, n), total)
        BY <3>2
      <4>2. CASE n >= total
        BY <1>1, <2>1, <4>1, <4>2, CompleteStep DEF ReadOn
      <4>3. CASE ~(n >= total)
        BY <2>1, <4>1, <4>3 DEF ReadOn
      <4> QED
        BY <4>2, <4>3
    <3> QED
      BY <2>1, <3>1, <3>2
  <2>4. UNCHANGED <<script, sent, offered, secured, clientOpen, tls, pipelined, handled>>
    BY <2>1
  <2>5. split' \in BOOLEAN
    BY <2>1
  <2> QED
    BY <2>2, <2>3, <2>4, <2>5 DEF ConnTypes
<1>6. CASE Fill
  <2>1. PICK n \in 1 .. Len(wire) : \E bytes \in {data \o SubSeq(wire, 1, n)} :
          /\ loop = "filling" /\ n <= missing
          /\ bytes \in Seq(OnWireByte)
          /\ wire' = SubSeq(wire, n + 1, Len(wire))
          /\ UNCHANGED <<client, tls, results, split>>
          /\ IF n = missing THEN Complete(bytes)
             ELSE data' = bytes /\ missing' = missing - n /\ UNCHANGED <<loop, current>>
    BY <1>6, FillStep
  <2>2. wire' \in Seq(OnWireByte)
    BY <2>1, SealedPieces DEF ConnTypes
  <2>3. loop' \in Loops /\ data' \in Seq(OnWireByte) /\ missing' \in Nat
    <3>1. CASE n = missing
      BY <1>1, <2>1, <3>1, CompleteStep
    <3>2. CASE n # missing
      BY <2>1, <3>2 DEF ConnTypes
    <3> QED
      BY <3>1, <3>2
  <2>4. UNCHANGED <<script, sent, offered, secured, clientOpen, tls, split, pipelined, handled>>
    BY <2>1
  <2> QED
    BY <2>2, <2>3, <2>4 DEF ConnTypes
<1>7. CASE ReadEOF
  BY <1>1, <1>7 DEF ReadEOF, Close, Goes, ConnTypes
<1>8. CASE Dispatch
  <2>1. /\ handled' = Append(handled, Call)
        /\ UNCHANGED <<client, wire, split>>
        /\ loop' \in Loops /\ data' = << >> /\ missing' = 0
        /\ tls' = tls \/ tls' = TRUE
    BY <1>8, DispatchStep DEF Goes
  <2>2. handled' \in Seq(Range(handled'))
    BY <2>1, OneMore DEF ConnTypes
  <2> QED
    BY <1>1, <2>1, <2>2 DEF ConnTypes
<1>9. CASE Handshake
  <2>1. wire' \in Seq(OnWireByte)
    BY <1>9 DEF Handshake, ConnTypes
  <2>2. loop' \in Loops /\ data' = << >> /\ missing' = 0
    BY <1>9 DEF Handshake, Done, Close, Goes
  <2> QED
    BY <1>1, <1>9, <2>1, <2>2 DEF Handshake, ConnTypes
<1>10. CASE UNCHANGED vars
  BY <1>10 DEF vars, ConnTypes
<1> QED
  BY <1>2, <1>3, <1>4, <1>5, <1>6, <1>7, <1>8, <1>9, <1>10 DEF Next, Handle

----
(* The upgrade *)

\* What the handshake leaves behind the Hello was sent inside TLS.
HelloSeals(w) == \A i \in DOMAIN w : w[i] = Hello =>
                     \A j \in DOMAIN w : j > i => w[j] \in 256 .. Hello - 1

LEMMA HelloAbove ==
    /\ \A x \in 256 .. Hello - 1 : x >= 256 /\ x # Hello
    /\ \A x \in OnWireByte : x >= 256 /\ x # Hello => x \in 256 .. Hello - 1
BY DEF Hello, OnWireByte

LEMMA HelloPieces ==
    ASSUME NEW s \in Seq(OnWireByte), NEW t \in Seq(OnWireByte), HelloSeals(s)
    PROVE  /\ \A n \in 0 .. Len(s) : \A r \in {SubSeq(s, n + 1, Len(s))} :
                 /\ HelloSeals(r)
                 /\ \A i \in DOMAIN r : i + n \in DOMAIN s /\ r[i] = s[i + n]
           /\ s # << >> =>
                 /\ Head(s) = Hello => Sealed(Tail(s))
                 /\ HelloSeals(Tail(s))
                 /\ \A i \in DOMAIN Tail(s) : i + 1 \in DOMAIN s /\ Tail(s)[i] = s[i + 1]
           /\ \A i \in DOMAIN (s \o t) :
                 \/ i \in DOMAIN s /\ (s \o t)[i] = s[i]
                 \/ i - Len(s) \in DOMAIN t /\ i > Len(s) /\ (s \o t)[i] = t[i - Len(s)]
<1>1. ASSUME NEW n \in 0 .. Len(s), NEW r, r = SubSeq(s, n + 1, Len(s))
      PROVE  /\ HelloSeals(r)
             /\ \A i \in DOMAIN r : i + n \in DOMAIN s /\ r[i] = s[i + n]
  <2>1. \A i \in DOMAIN r : i \in Nat /\ i + n \in DOMAIN s /\ r[i] = s[i + n]
    BY <1>1
  <2>2. HelloSeals(r)
    <3> SUFFICES ASSUME NEW i \in DOMAIN r, r[i] = Hello, NEW j \in DOMAIN r, j > i
                 PROVE  r[j] \in 256 .. Hello - 1
      BY Zenon DEF HelloSeals
    <3>1. s[i + n] = Hello /\ i + n \in DOMAIN s /\ j + n \in DOMAIN s /\ j + n > i + n
      BY <2>1
    <3>2. s[j + n] \in 256 .. Hello - 1
      BY <3>1 DEF HelloSeals
    <3> QED
      BY <2>1, <3>2
  <2> QED
    BY <2>1, <2>2
<1>2. ASSUME s # << >>
      PROVE  /\ Head(s) = Hello => Sealed(Tail(s))
             /\ HelloSeals(Tail(s))
             /\ \A i \in DOMAIN Tail(s) : i + 1 \in DOMAIN s /\ Tail(s)[i] = s[i + 1]
  <2>1. 1 \in 0 .. Len(s) /\ Tail(s) = SubSeq(s, 1 + 1, Len(s)) /\ 1 \in DOMAIN s /\ Head(s) = s[1]
    BY <1>2
  <2>2. /\ HelloSeals(Tail(s))
        /\ \A i \in DOMAIN Tail(s) : i + 1 \in DOMAIN s /\ Tail(s)[i] = s[i + 1]
    BY <1>1, <2>1
  <2>3. ASSUME Head(s) = Hello PROVE Sealed(Tail(s))
    <3>1. \A i \in DOMAIN Tail(s) : i \in Nat /\ i > 0 /\ i + 1 > 1
      BY <1>2
    <3>2. \A i \in DOMAIN Tail(s) : Tail(s)[i] \in 256 .. Hello - 1
      BY <2>1, <2>2, <2>3, <3>1 DEF HelloSeals
    <3> QED
      BY <3>2, HelloAbove DEF Sealed
  <2> QED
    BY <2>2, <2>3
<1>3. ASSUME NEW i \in DOMAIN (s \o t)
      PROVE  \/ i \in DOMAIN s /\ (s \o t)[i] = s[i]
             \/ i - Len(s) \in DOMAIN t /\ i > Len(s) /\ (s \o t)[i] = t[i - Len(s)]
  OBVIOUS
<1> QED
  BY <1>1, <1>2, <1>3

\* One more call, of a message that came inside TLS if the connection is protected.
LEMMA CallFresh ==
    ASSUME ConnTypes, UpgradedIsFresh, tls => current.sealed, handled' = Append(handled, Call)
    PROVE  \A i \in DOMAIN handled' : handled'[i].protected => handled'[i].sealed
<1>1. /\ \A i \in DOMAIN handled : i \in DOMAIN handled' /\ handled'[i] = handled[i]
      /\ \A i \in DOMAIN handled' : i \in DOMAIN handled \/ i = Len(handled) + 1
      /\ handled'[Len(handled) + 1] = Call
  BY OneMore DEF ConnTypes
<1>2. Call.protected => Call.sealed
  BY DEF Call
<1> QED
  BY <1>1, <1>2 DEF UpgradedIsFresh

LEMMA FreshStep ==
    ASSUME ConnTypes, FreshInv, [Next]_vars
    PROVE  FreshInv'
<1> USE DEF client, reader, results
<1>0. /\ HelloSeals(wire)
      /\ \A i \in DOMAIN wire : wire[i] = Hello => secured /\ ~Serving
      /\ wire \in Seq(OnWireByte) /\ data \in Seq(OnWireByte)
      /\ Sealed(<< >>)
  BY DEF FreshInv, ConnTypes, HelloSeals, Sealed
<1>a. ASSUME HelloSeals(wire)',
             \A i \in DOMAIN wire' : wire'[i] = Hello => secured' /\ ~Serving'
      PROVE  (\A i \in DOMAIN wire : wire[i] = Hello =>
                /\ secured /\ ~Serving
                /\ \A j \in DOMAIN wire : j > i => wire[j] \in 256 .. Hello - 1)'
  BY <1>a DEF HelloSeals
<1>2. CASE Send
  <2> DEFINE b == OnWire(sent + 1)
  <2>1. /\ b \in Seq(OnWireByte) /\ \A i \in DOMAIN b : b[i] # Hello
        /\ secured => Sealed(b)
    <3>1. sent + 1 \in DOMAIN script
      BY <1>2, ConnectionAssumption DEF ConnTypes, Send
    <3>2. Request(MessageIds[sent + 1], script[sent + 1]) \in Bytes
      BY <3>1, RequestsAreElements DEF ConnTypes
    <3> QED
      BY <3>2, SealedBytes DEF OnWire
  <2>2. wire' = wire \o b
    BY <1>2 DEF Send, OnWire
  <2> HIDE DEF b
  <2>3. \A i \in DOMAIN wire' :
            \/ i \in DOMAIN wire /\ wire'[i] = wire[i]
            \/ i - Len(wire) \in DOMAIN b /\ i > Len(wire) /\ wire'[i] = b[i - Len(wire)]
    BY <1>0, <2>1, <2>2, HelloPieces
  <2>4. \A i \in DOMAIN wire' : wire'[i] = Hello =>
            i \in DOMAIN wire /\ wire[i] = Hello /\ secured /\ ~Serving
    BY <1>0, <2>1, <2>3
  <2>5. HelloSeals(wire)'
    <3> SUFFICES ASSUME NEW i \in DOMAIN wire', wire'[i] = Hello, NEW j \in DOMAIN wire', j > i
                 PROVE  wire'[j] \in 256 .. Hello - 1
      BY Zenon DEF HelloSeals
    <3>1. wire[i] = Hello /\ i \in DOMAIN wire /\ secured
      BY <2>4
    <3>2. CASE j \in DOMAIN wire /\ wire'[j] = wire[j]
      BY <1>0, <3>1, <3>2 DEF HelloSeals
    <3>3. CASE j - Len(wire) \in DOMAIN b /\ wire'[j] = b[j - Len(wire)]
      <4>1. \A k \in DOMAIN b : b[k] \in OnWireByte /\ b[k] >= 256 /\ b[k] # Hello
        BY <2>1, <3>1 DEF Sealed
      <4> QED
        BY <3>3, <4>1, HelloAbove
    <3> QED
      BY <2>3, <3>2, <3>3
  <2>6. UNCHANGED <<secured, tls, loop, data, current, bound, handled>>
    BY <1>2 DEF Send
  <2>7. Serving /\ secured => Sealed(wire')
    BY <1>0, <2>1, <2>2, SealedPieces DEF FreshInv
  <2>8. \A i \in DOMAIN wire' : wire'[i] = Hello => secured' /\ ~Serving'
    BY <2>4, <2>6 DEF Serving
  <2> QED
    BY <1>a, <2>5, <2>6, <2>7, <2>8 DEF FreshInv, Serving, UpgradedIsFresh, Sealed
<1>3. CASE ClientHello
  <2>1. /\ loop = "upgrading" /\ ~secured /\ secured' = TRUE /\ wire' = Append(wire, Hello)
        /\ UNCHANGED <<tls, loop, data, current, bound, handled>>
    BY <1>3 DEF ClientHello
  <2>2. \A i \in DOMAIN wire : wire[i] # Hello
    BY <1>0, <2>1
  <2>3. \A i \in DOMAIN wire' : i = Len(wire) + 1 \/ (i \in DOMAIN wire /\ wire'[i] = wire[i])
    <3>1. wire' = Append(wire, Hello) /\ wire \in Seq(OnWireByte)
      BY <1>0, <2>1
    <3>2. /\ \A i \in DOMAIN wire : wire'[i] = wire[i]
          /\ \A i \in DOMAIN wire' : i \in DOMAIN wire \/ i = Len(wire) + 1
      BY <3>1, OneMore
    <3> QED
      BY <3>2, Zenon
  <2>4. \A i \in DOMAIN wire' : i \in 1 .. Len(wire) + 1
    BY <1>0, <2>3
  <2>5. HelloSeals(wire)'
    <3> SUFFICES ASSUME NEW i \in DOMAIN wire', wire'[i] = Hello, NEW j \in DOMAIN wire', j > i
                 PROVE  wire'[j] \in 256 .. Hello - 1
      BY Zenon DEF HelloSeals
    <3>1. i = Len(wire) + 1
      BY <2>2, <2>3
    <3> QED
      BY <1>0, <2>4, <3>1
  <2>6. \A i \in DOMAIN wire' : wire'[i] = Hello => secured' /\ ~Serving'
    BY <2>1 DEF Serving
  <2> QED
    BY <1>a, <2>1, <2>5, <2>6 DEF FreshInv, Serving, UpgradedIsFresh
<1>4. CASE Hangup
  BY <1>4 DEF Hangup, FreshInv, Serving, UpgradedIsFresh, Sealed
<1>5. CASE Read
  <2>1. PICK n \in 1 .. Len(wire) : \E bytes \in {SubSeq(wire, 1, n)} :
          /\ loop = "reading"
          /\ bytes \in Seq(OnWireByte) /\ Len(bytes) = n
          /\ wire' = SubSeq(wire, n + 1, Len(wire))
          /\ split' = (split \/ HeaderSplit(bytes))
          /\ UNCHANGED <<client, tls, results>>
          /\ \/ BERLength(Opened(bytes)) = {} /\ Close
             \/ \E l \in BERLength(Opened(bytes)) :
                   /\ l.header + l.content \in Nat /\ l.header + l.content >= 2
                   /\ ReadOn(bytes, l.header + l.content)
    BY <1>5, ReadStep
  <2> DEFINE bytes == SubSeq(wire, 1, n)
  <2>2. /\ bytes \in Seq(OnWireByte) /\ Len(bytes) = n /\ n \in Nat
        /\ secured => Sealed(bytes)
    BY <1>0, <2>1, SealedPieces DEF FreshInv, Serving
  <2>3. /\ HelloSeals(wire)' /\ \A i \in DOMAIN wire' : wire'[i] # Hello
        /\ secured => Sealed(wire')
    <3>1. /\ HelloSeals(wire)'
          /\ \A i \in DOMAIN wire' : i + n \in DOMAIN wire /\ wire'[i] = wire[i + n]
      <4>1. n \in 0 .. Len(wire)
        BY <1>0
      <4>2. \A r \in {SubSeq(wire, n + 1, Len(wire))} :
              /\ HelloSeals(r)
              /\ \A i \in DOMAIN r : i + n \in DOMAIN wire /\ r[i] = wire[i + n]
        BY <1>0, <4>1, HelloPieces
      <4> QED
        BY <2>1, <4>2 DEF HelloSeals
    <3>2. secured => Sealed(wire')
      BY <1>0, <2>1, SealedPieces DEF FreshInv, Serving
    <3> QED
      BY <1>0, <2>1, <3>1, <3>2 DEF Serving
  <2>4. UNCHANGED <<secured, tls, bound, handled>>
    BY <2>1
  <2>5. \/ loop' = "closed"
        \/ loop' = "filling" /\ data' = bytes
        \/ loop' = "dispatching" /\ data' = << >> /\ (secured => current'.sealed)
    <3>1. CASE Close
      BY <3>1 DEF Close, Goes
    <3>2. CASE \E total \in Nat : ReadOn(bytes, total)
      <4>1. PICK total \in Nat : ReadOn(bytes, total)
        BY <3>2
      <4>2. CASE n >= total
        <5>1. Complete(Cut(bytes, total))
          BY <2>2, <4>1, <4>2 DEF ReadOn
        <5>2. secured => Sealed(Cut(bytes, total))
          <6>1. total \in 0 .. Len(bytes)
            BY <2>2, <4>2
          <6> HIDE DEF bytes
          <6> QED
            BY <2>2, <6>1, SealedPieces DEF Cut
        <5> QED
          BY <5>1, <5>2, CompleteStep
      <4>3. CASE ~(n >= total)
        BY <2>2, <4>1, <4>3 DEF ReadOn
      <4> QED
        BY <4>2, <4>3
    <3> QED
      BY <2>1, <3>1, <3>2
  <2> HIDE DEF bytes
  <2>6. loop = "reading"
    BY <2>1
  <2> QED
    BY <1>0, <1>a, <2>2, <2>3, <2>4, <2>5, <2>6 DEF FreshInv, Serving, UpgradedIsFresh, Sealed
<1>6. CASE Fill
  <2>1. PICK n \in 1 .. Len(wire) : \E bytes \in {data \o SubSeq(wire, 1, n)} :
          /\ loop = "filling" /\ n <= missing
          /\ bytes \in Seq(OnWireByte)
          /\ wire' = SubSeq(wire, n + 1, Len(wire))
          /\ UNCHANGED <<client, tls, results, split>>
          /\ IF n = missing THEN Complete(bytes)
             ELSE data' = bytes /\ missing' = missing - n /\ UNCHANGED <<loop, current>>
    BY <1>6, FillStep
  <2> DEFINE bytes == data \o SubSeq(wire, 1, n)
  <2>2. secured => Sealed(bytes)
    <3>1. /\ SubSeq(wire, 1, n) \in Seq(OnWireByte)
          /\ secured => Sealed(SubSeq(wire, 1, n)) /\ Sealed(data)
      BY <1>0, <2>1, SealedPieces DEF FreshInv, Serving
    <3> QED
      BY <1>0, <3>1, SealedPieces
  <2>3. /\ HelloSeals(wire)' /\ \A i \in DOMAIN wire' : wire'[i] # Hello
        /\ secured => Sealed(wire')
    <3>1. /\ HelloSeals(wire)'
          /\ \A i \in DOMAIN wire' : i + n \in DOMAIN wire /\ wire'[i] = wire[i + n]
      <4>1. n \in 0 .. Len(wire)
        BY <1>0
      <4>2. \A r \in {SubSeq(wire, n + 1, Len(wire))} :
              /\ HelloSeals(r)
              /\ \A i \in DOMAIN r : i + n \in DOMAIN wire /\ r[i] = wire[i + n]
        BY <1>0, <4>1, HelloPieces
      <4> QED
        BY <2>1, <4>2 DEF HelloSeals
    <3>2. secured => Sealed(wire')
      BY <1>0, <2>1, SealedPieces DEF FreshInv, Serving
    <3> QED
      BY <1>0, <2>1, <3>1, <3>2 DEF Serving
  <2>4. UNCHANGED <<secured, tls, bound, handled>>
    BY <2>1
  <2>5. \/ loop' = "closed"
        \/ loop' = "filling" /\ data' = bytes
        \/ loop' = "dispatching" /\ data' = << >> /\ (secured => current'.sealed)
    BY <2>1, <2>2, CompleteStep
  <2> HIDE DEF bytes
  <2>6. loop = "filling"
    BY <2>1
  <2> QED
    BY <1>0, <1>a, <2>2, <2>3, <2>4, <2>5, <2>6 DEF FreshInv, Serving, UpgradedIsFresh, Sealed
<1>7. CASE ReadEOF
  BY <1>7 DEF ReadEOF, Close, Goes, FreshInv, Serving, UpgradedIsFresh
<1>8. CASE Dispatch
  <2>1. /\ loop = "dispatching"
        /\ handled' = Append(handled, Call)
        /\ UNCHANGED <<client, wire, split>>
        /\ \/ /\ Goes("reading") /\ tls' = tls
              /\ \/ bound' = bound \/ bound' = << >>
                 \/ bound' = <<[dn |-> current.op.name, sealed |-> current.sealed]>>
           \/ Goes("upgrading") /\ tls' = TRUE /\ ~tls /\ bound = << >> /\ bound' = << >>
    BY <1>8, DispatchStep
  <2>2. \A i \in DOMAIN handled' : handled'[i].protected => handled'[i].sealed
    BY <2>1, CallFresh DEF FreshInv
  <2>3. (tls' /\ bound' # << >>) => bound'[1].sealed
    <3>1. /\ tls => current.sealed
          /\ tls /\ bound # << >> => bound[1].sealed
      BY <2>1 DEF FreshInv, UpgradedIsFresh
    <3>2. CASE bound' = bound /\ tls' = tls
      BY <3>1, <3>2
    <3>3. CASE bound' = << >>
      BY <3>3
    <3>4. CASE bound' = <<[dn |-> current.op.name, sealed |-> current.sealed]>> /\ tls' = tls
      BY <3>1, <3>4
    <3> QED
      BY <2>1, <3>2, <3>3, <3>4
  <2>4. UpgradedIsFresh'
    BY <2>2, <2>3 DEF UpgradedIsFresh
  <2>5. \A i \in DOMAIN wire' : wire'[i] # Hello
    BY <1>0, <2>1 DEF Serving
  <2>6. HelloSeals(wire)'
    BY <2>5 DEF HelloSeals
  <2>7. UNCHANGED <<wire, secured>> /\ data' = << >>
    BY <2>1 DEF Goes
  <2>8. Serving /\ secured => Sealed(wire') /\ Sealed(data')
    BY <1>0, <2>7 DEF FreshInv
  <2>9. \/ loop' = "reading" /\ tls' = tls
        \/ loop' = "upgrading" /\ tls' = TRUE /\ ~tls /\ bound' = << >>
    BY <2>1 DEF Goes
  <2>10. Serving
    BY <2>1 DEF Serving
  <2> QED
    BY <1>a, <2>4, <2>5, <2>6, <2>7, <2>8, <2>9, <2>10 DEF FreshInv, Serving, Sealed
<1>9. CASE Handshake
  <2>1. /\ loop = "upgrading" /\ wire # << >> /\ wire' = Tail(wire)
        /\ UNCHANGED <<secured, tls, bound, handled>>
        /\ \/ Head(wire) = Hello /\ loop' = "reading" /\ data' = << >>
           \/ loop' = "closed"
    BY <1>9 DEF Handshake, Done, Close, Goes
  <2>2. /\ Head(wire) = Hello => Sealed(wire')
        /\ HelloSeals(wire)'
        /\ \A i \in DOMAIN wire' : i + 1 \in DOMAIN wire /\ wire'[i] = wire[i + 1]
    BY <1>0, <2>1, HelloPieces DEF HelloSeals
  <2>3. Head(wire) = Hello => secured
    BY <1>0, <2>1
  <2>4. CASE loop' = "closed"
    <3>1. \A i \in DOMAIN wire' : wire'[i] = Hello => secured' /\ ~Serving'
      BY <1>0, <2>1, <2>2, <2>4 DEF Serving
    <3> QED
      BY <1>a, <2>1, <2>2, <2>4, <3>1 DEF FreshInv, Serving, UpgradedIsFresh
  <2>5. CASE Head(wire) = Hello /\ loop' = "reading" /\ data' = << >>
    <3>1. \A i \in DOMAIN wire' : wire'[i] # Hello
      <4>1. wire[1] = Hello /\ 1 \in DOMAIN wire
        BY <1>0, <2>1, <2>5
      <4>2. \A i \in DOMAIN wire' : i + 1 > 1
        BY <1>0, <2>1
      <4>3. \A i \in DOMAIN wire' : wire'[i] \in 256 .. Hello - 1
        BY <1>0, <2>2, <4>1, <4>2 DEF HelloSeals
      <4> QED
        BY <4>3, HelloAbove
    <3> QED
      BY <1>0, <1>a, <2>1, <2>2, <2>3, <2>5, <3>1 DEF FreshInv, Serving, UpgradedIsFresh, Sealed
  <2> QED
    BY <2>1, <2>4, <2>5
<1>10. CASE UNCHANGED vars
  BY <1>10 DEF vars, FreshInv, Serving, UpgradedIsFresh, Sealed
<1> QED
  BY <1>2, <1>3, <1>4, <1>5, <1>6, <1>7, <1>8, <1>9, <1>10 DEF Next, Handle

----
(* One request after the other *)

\* A request on the wire: its bytes, what its header says, and what the decoder makes of it.
LEMMA RequestOnWire ==
    ASSUME ConnTypes, NEW m \in DOMAIN script
    PROVE  \A w \in {OnWire(m)} : \A bytes \in {Request(MessageIds[m], script[m])} :
              /\ w \in Seq(OnWireByte) /\ bytes \in Bytes
              /\ Len(w) = Len(bytes) /\ Len(w) \in Nat /\ Len(w) >= 2
              /\ Opened(w) = bytes
              /\ \E l \in BERLength(bytes) : l.header + l.content = Len(bytes)
              /\ IsMessage[bytes] =>
                    Message[bytes].id = MessageIds[m] /\ Message[bytes].op = script[m]
              /\ ~IsMessage[bytes] => Unknown(m)
<1> DEFINE w == OnWire(m)
           bytes == Request(MessageIds[m], script[m])
<1>1. script \in Scripts
  BY DEF ConnTypes
<1>2. bytes \in Bytes /\ \E l \in BERLength(bytes) : l.header + l.content = Len(bytes)
  BY <1>1, RequestsAreElements
<1>3. /\ IsMessage[bytes] => Message[bytes].id = MessageIds[m] /\ Message[bytes].op = script[m]
      /\ ~IsMessage[bytes] => Unknown(m)
  <2>1. \/ /\ script[m].kind \in DOMAIN RequestTag /\ IsMessage[bytes]
           /\ Message[bytes] = [id |-> MessageIds[m], op |-> script[m]]
        \/ script[m].kind \notin DOMAIN RequestTag /\ ~IsMessage[bytes]
    BY <1>1, RequestsDecode, Zenon
  <2> HIDE DEF bytes
  <2> QED
    BY <2>1 DEF Unknown
<1> HIDE DEF bytes
<1>4. w \in Seq(OnWireByte) /\ Len(w) = Len(bytes) /\ Opened(w) = bytes
  BY <1>2, SealedBytes, OpenedBytes DEF OnWire, bytes
<1>5. Len(bytes) \in Nat /\ Len(bytes) >= 2
  <2>1. PICK l \in BERLength(bytes) : l.header + l.content = Len(bytes)
    BY <1>2
  <2>2. Len(bytes) \in Nat
    BY <1>2 DEF Bytes
  <2> QED
    BY <1>2, <2>1, <2>2, HeaderTypes
<1> HIDE DEF w
<1>6. /\ w \in Seq(OnWireByte) /\ bytes \in Bytes
      /\ Len(w) = Len(bytes) /\ Len(w) \in Nat /\ Len(w) >= 2
      /\ Opened(w) = bytes
  BY <1>2, <1>4, <1>5
<1> QED
  BY <1>2, <1>3, <1>6 DEF w, bytes

\* Read to its end, a request is dispatched as what was sent, or is one of no known operation.
LEMMA CompleteRequest ==
    ASSUME ConnTypes, NEW m \in DOMAIN script, Complete(OnWire(m))
    PROVE  \/ loop' = "closed" /\ Unknown(m)
           \/ loop' = "dispatching" /\ current'.id = MessageIds[m] /\ current'.op = script[m]
<1> DEFINE w == OnWire(m)
           bytes == Request(MessageIds[m], script[m])
<1>1. \/ loop' = "closed" /\ ~IsMessage[Opened(w)]
      \/ /\ loop' = "dispatching" /\ IsMessage[Opened(w)]
         /\ current'.id = Message[Opened(w)].id
         /\ current'.op = Message[Opened(w)].op
  BY CompleteStep
<1>2. /\ Opened(w) = bytes
      /\ IsMessage[bytes] =>
            Message[bytes].id = MessageIds[m] /\ Message[bytes].op = script[m]
      /\ ~IsMessage[bytes] => Unknown(m)
  BY RequestOnWire
<1> HIDE DEF w, bytes
<1> QED
  BY <1>1, <1>2

\* The first piece of a request says how long the request is, unless its header is split.
LEMMA FirstPiece ==
    ASSUME ConnTypes, NEW m \in DOMAIN script, NEW n \in 1 .. Len(OnWire(m)),
           NEW piece, piece = SubSeq(OnWire(m), 1, n)
    PROVE  \/ BERLength(Opened(piece)) = {} /\ HeaderSplit(piece)
           \/ /\ BERLength(Opened(piece)) # {}
              /\ \A l \in BERLength(Opened(piece)) : l.header + l.content = Len(OnWire(m))
<1> DEFINE w == OnWire(m)
           bytes == Request(MessageIds[m], script[m])
<1>1. /\ w \in Seq(OnWireByte) /\ bytes \in Bytes /\ Opened(w) = bytes
      /\ Len(w) = Len(bytes) /\ Len(w) \in Nat
      /\ \E l \in BERLength(bytes) : l.header + l.content = Len(bytes)
  BY RequestOnWire
<1>2. n \in 1 .. Len(bytes) /\ piece = SubSeq(w, 1, n)
  BY <1>1
<1> HIDE DEF w, bytes
<1>3. Opened(piece) = SubSeq(bytes, 1, n) /\ Len(Opened(piece)) = Len(piece)
  <2>1. piece \in Seq(OnWireByte) /\ Len(piece) = n
    BY <1>1, <1>2
  <2>2. \A i \in 1 .. n : piece[i] = w[i]
    BY <1>1, <1>2
  <2>3. \A i \in 1 .. n : Opened(piece)[i] = bytes[i]
    <3>1. \A i \in 1 .. n : Opened(piece)[i] = piece[i] % 256
      BY <2>1 DEF Opened
    <3>2. \A i \in 1 .. n : Opened(w)[i] = w[i] % 256
      BY <1>1, <1>2 DEF Opened
    <3> QED
      BY <1>1, <2>2, <3>1, <3>2
  <2>4. Opened(piece) \in Bytes /\ Len(Opened(piece)) = n
    BY <2>1, OpenedBytes
  <2> QED
    BY <1>1, <1>2, <2>1, <2>3, <2>4 DEF Bytes
<1>4. PICK l \in BERLength(bytes) : l.header + l.content = Len(bytes)
  BY <1>1
<1>5. \A p \in {SubSeq(bytes, 1, n)} :
          \/ BERLength(p) = {l}
          \/ BERLength(p) = {} /\ (Len(p) < 2 \/ Len(p) < 2 + LengthBytes(p))
  BY <1>1, <1>2, HeaderOfPrefix
<1>6. \/ BERLength(Opened(piece)) = {l}
      \/ BERLength(Opened(piece)) = {} /\ HeaderSplit(piece)
  BY <1>3, <1>5 DEF HeaderSplit
<1> QED
  BY <1>1, <1>4, <1>6 DEF w

\* Cutting a sequence in two and putting it together again.
LEMMA CutAndJoin ==
    ASSUME NEW d \in Seq(OnWireByte), NEW w \in Seq(OnWireByte), NEW n \in 0 .. Len(w)
    PROVE  /\ (d \o SubSeq(w, 1, n)) \o SubSeq(w, n + 1, Len(w)) = d \o w
           /\ SubSeq(w, 1, n) \o SubSeq(w, n + 1, Len(w)) = w
           /\ Len(SubSeq(w, n + 1, Len(w))) = Len(w) - n
           /\ SubSeq(w, 1, Len(w)) = w /\ SubSeq(w, Len(w) + 1, Len(w)) = << >>
           /\ << >> \o w = w /\ w \o << >> = w
<1>1. n \in Nat /\ Len(w) \in Nat /\ n <= Len(w)
  OBVIOUS
<1>2. /\ SubSeq(w, 1, n) \in Seq(OnWireByte)
      /\ SubSeq(w, n + 1, Len(w)) \in Seq(OnWireByte)
      /\ Len(SubSeq(w, n + 1, Len(w))) = Len(w) - n
  OBVIOUS
<1>3. SubSeq(w, 1, Len(w)) = w /\ SubSeq(w, Len(w) + 1, Len(w)) = << >>
  OBVIOUS
<1>4. SubSeq(w, 1, n) \o SubSeq(w, n + 1, Len(w)) = w
  <2>1. 1 \in 1 .. Len(w) + 1 /\ n \in 1 - 1 .. Len(w) /\ Len(w) \in n .. Len(w)
    BY <1>1
  <2> QED
    BY <1>3, <2>1, ConcatAdjacentSubSeq
<1>5. (d \o SubSeq(w, 1, n)) \o SubSeq(w, n + 1, Len(w))
        = d \o (SubSeq(w, 1, n) \o SubSeq(w, n + 1, Len(w)))
  <2>1. \A x, y \in Seq(OnWireByte) : (d \o x) \o y = d \o (x \o y)
    BY ConcatAssociative
  <2> QED
    BY <1>2, <2>1, Zenon
<1>6. << >> \o w = w /\ w \o << >> = w
  BY ConcatEmptySeq
<1> QED
  BY <1>2, <1>3, <1>4, <1>5, <1>6

\* One step of a connection whose client still waits for each answer.
LEMMA FramedStep ==
    ASSUME ConnTypes, FreshInv, FramedInv, [Next]_vars, ~pipelined'
    PROVE  /\ ~pipelined
           /\ HandledAsSent' /\ NoRequestLost' /\ OneOnItsWay'
<1> USE DEF client, reader, results
<1> DEFINE AsSent == \A i \in DOMAIN handled :
                        handled[i].id = MessageIds[i] /\ handled[i].op = script[i]
           Over == \/ Len(handled) = sent /\ ~clientOpen
                   \/ Len(handled) = sent - 1 /\ Unknown(sent)
<1>1. script' = script /\ (pipelined => pipelined')
  <2>0. CASE Send
    <3>1. script' = script
      BY <2>0 DEF Send
    <3>2. pipelined => pipelined'
      BY <2>0, Zenon DEF Send
    <3> QED
      BY <3>1, <3>2
  <2>1. CASE ClientHello \/ Hangup
    BY <2>1 DEF ClientHello, Hangup
  <2>2. CASE Read \/ Fill \/ ReadEOF \/ Handshake
    <3>1. UNCHANGED client
      BY <2>2, Zenon DEF Read, Fill, ReadEOF, Handshake
    <3> QED
      BY <3>1
  <2>3. CASE Dispatch
    BY <2>3, DispatchStep
  <2>4. CASE UNCHANGED vars
    BY <2>4 DEF vars
  <2> QED
    BY <2>0, <2>1, <2>2, <2>3, <2>4 DEF Next, Handle
<1>2. ~pipelined /\ AsSent /\ OneOnItsWay /\ (loop = "closed" /\ ~split => Over)
  BY <1>1 DEF FramedInv, HandledAsSent, NoRequestLost
<1>3. /\ sent \in Nat /\ Len(handled) \in Nat /\ Len(script) \in Nat /\ sent <= Len(script)
      /\ DOMAIN script = 1 .. Len(script)
      /\ wire \in Seq(OnWireByte) /\ data \in Seq(OnWireByte) /\ Len(wire) \in Nat
  BY ConnectionAssumption DEF ConnTypes
<1>4. OneOpen => sent \in DOMAIN script
  BY <1>3 DEF OneOpen
<1>5. ASSUME handled' = handled PROVE HandledAsSent'
  BY <1>1, <1>2, <1>5 DEF HandledAsSent
<1>6. CASE Send
  <2>0. sent <= Len(handled) /\ ~(loop = "upgrading" /\ ~secured)
    <3>1. ~(sent > Len(handled) \/ (loop = "upgrading" /\ ~secured))
      BY <1>6 DEF Send
    <3> QED
      BY <1>3, <3>1
  <2>1. /\ sent <= Len(handled) /\ ~(loop = "upgrading" /\ ~secured)
        /\ sent' = sent + 1 /\ clientOpen /\ wire' = wire \o OnWire(sent + 1)
        /\ UNCHANGED <<secured, clientOpen, loop, data, missing, current, handled, split>>
    BY <1>6, <2>0 DEF Send, OnWire
  <2>2. sent + 1 \in DOMAIN script /\ OnWire(sent + 1) \in Seq(OnWireByte)
    <3>1. sent + 1 \in DOMAIN script
      BY <1>3, <1>6 DEF Send
    <3> QED
      BY <3>1, RequestOnWire
  <2>3. ~OneOpen /\ (NoneOpen => OneOpen')
    BY <1>3, <2>1 DEF OneOpen, NoneOpen
  <2>4. OnWire(sent + 1) = OnWire(sent)'
    BY <1>1, <2>1 DEF OnWire
  <2>5. CASE loop = "reading"
    <3>1. wire' = OnWire(sent + 1) /\ OneOpen'
      BY <1>2, <2>1, <2>2, <2>3, <2>5, ConcatEmptySeq DEF OneOnItsWay
    <3> QED
      BY <1>2, <1>5, <2>1, <2>4, <2>5, <3>1 DEF OneOnItsWay, NoRequestLost
  <2>6. CASE loop = "upgrading"
    <3>1. secured /\ wire' = <<Hello>> \o OnWire(sent + 1) /\ OneOpen'
      BY <1>2, <2>1, <2>3, <2>6 DEF OneOnItsWay
    <3> QED
      BY <1>2, <1>5, <2>1, <2>4, <2>6, <3>1 DEF OneOnItsWay, NoRequestLost
  <2>7. CASE loop = "closed"
    <3>1. split
      BY <1>2, <1>3, <2>1, <2>7
    <3> QED
      BY <1>2, <1>5, <2>1, <2>7, <3>1 DEF OneOnItsWay, NoRequestLost
  <2>8. loop \in {"reading", "upgrading", "closed"}
    BY <1>2, <2>3 DEF OneOnItsWay, ConnTypes
  <2> QED
    BY <2>5, <2>6, <2>7, <2>8
<1>7. CASE ClientHello
  <2>1. /\ loop = "upgrading" /\ ~secured /\ secured' = TRUE
        /\ wire' = Append(wire, Hello) /\ NoneOpen /\ wire = << >>
        /\ UNCHANGED <<sent, loop, handled, split>>
    BY <1>2, <1>7 DEF ClientHello, OneOnItsWay
  <2>2. wire' = <<Hello>> /\ NoneOpen'
    BY <2>1 DEF NoneOpen
  <2> QED
    BY <1>2, <1>5, <2>1, <2>2 DEF OneOnItsWay, NoRequestLost
<1>8. CASE Hangup
  <2>1. UNCHANGED <<script, sent, secured, wire, loop, data, missing, current, handled, split>>
        /\ clientOpen' = FALSE
    BY <1>8 DEF Hangup
  <2>2. OneOnItsWay'
    BY <1>2, <2>1 DEF OneOnItsWay, NoneOpen, OneOpen, OnWire
  <2>3. NoRequestLost'
    BY <1>2, <2>1 DEF NoRequestLost, Unknown
  <2> QED
    BY <1>2, <1>5, <2>1, <2>2, <2>3
<1>9. CASE Read
  <2>1. PICK n \in 1 .. Len(wire) : \E bytes \in {SubSeq(wire, 1, n)} :
          /\ loop = "reading"
          /\ bytes \in Seq(OnWireByte) /\ Len(bytes) = n
          /\ wire' = SubSeq(wire, n + 1, Len(wire))
          /\ split' = (split \/ HeaderSplit(bytes))
          /\ UNCHANGED <<client, tls, results>>
          /\ \/ BERLength(Opened(bytes)) = {} /\ Close
             \/ \E l \in BERLength(Opened(bytes)) :
                   /\ l.header + l.content \in Nat /\ l.header + l.content >= 2
                   /\ ReadOn(bytes, l.header + l.content)
    BY <1>9, ReadStep
  <2>2. PICK piece : piece = SubSeq(wire, 1, n)
    OBVIOUS
  <2>3. OneOpen /\ wire = OnWire(sent) /\ sent \in DOMAIN script
    <3>1. wire # << >>
      BY <1>9 DEF Read
    <3> QED
      BY <1>2, <1>4, <2>1, <3>1 DEF OneOnItsWay
  <2>4. /\ UNCHANGED <<script, sent, secured, clientOpen, handled>>
        /\ OneOpen' /\ OnWire(sent)' = OnWire(sent)
    BY <2>1, <2>3 DEF OneOpen, OnWire
  <2>5. CASE BERLength(Opened(piece)) = {} /\ HeaderSplit(piece)
    <3>1. loop' = "closed" /\ split'
      BY <2>1, <2>2, <2>5 DEF Close, Goes
    <3> QED
      BY <1>2, <1>5, <2>4, <3>1 DEF OneOnItsWay, NoRequestLost
  <2>6. CASE ReadOn(piece, Len(wire))
    <3>1. Len(piece) = n /\ n <= Len(wire) /\ wire' = SubSeq(wire, n + 1, Len(wire))
      BY <1>3, <2>1, <2>2
    <3>2. /\ piece \o wire' = wire /\ Len(wire') = Len(wire) - n
          /\ SubSeq(wire, 1, Len(wire)) = wire
          /\ SubSeq(wire, Len(wire) + 1, Len(wire)) = << >>
      <4>1. n \in 0 .. Len(wire)
        BY <1>3
      <4> QED
        BY <1>3, <2>2, <3>1, <4>1, CutAndJoin
    <3>3. CASE n = Len(wire)
      <4>1. Complete(wire) /\ wire' = << >>
        <5>1. Complete(Cut(piece, Len(wire)))
          BY <1>3, <2>6, <3>1, <3>3 DEF ReadOn
        <5>2. piece = wire
          BY <2>2, <3>2, <3>3
        <5> QED
          BY <3>1, <3>2, <3>3, <5>1, <5>2 DEF Cut
      <4>2. \/ loop' = "closed" /\ Unknown(sent)
            \/ loop' = "dispatching" /\ current'.id = MessageIds[sent] /\ current'.op = script[sent]
        BY <2>3, <4>1, CompleteRequest
      <4>3. NoRequestLost'
        BY <1>3, <2>3, <2>4, <4>2 DEF NoRequestLost, OneOpen, Unknown
      <4>4. OneOnItsWay'
        BY <2>4, <4>1, <4>2 DEF OneOnItsWay
      <4> QED
        BY <1>2, <1>5, <2>4, <4>3, <4>4
    <3>4. CASE n # Len(wire)
      <4>1. loop' = "filling" /\ data' = piece /\ missing' = Len(wire) - n
        BY <1>3, <2>6, <3>1, <3>4 DEF ReadOn
      <4>2. missing' = Len(wire') /\ missing' > 0
        BY <1>3, <3>1, <3>2, <3>4, <4>1
      <4>3. data' \o wire' = OnWire(sent)'
        BY <2>3, <2>4, <3>2, <4>1
      <4> QED
        BY <1>2, <1>5, <2>4, <4>1, <4>2, <4>3 DEF OneOnItsWay, NoRequestLost
    <3> QED
      BY <3>3, <3>4
  <2>7. \/ BERLength(Opened(piece)) = {} /\ HeaderSplit(piece)
        \/ /\ BERLength(Opened(piece)) # {}
           /\ \A l \in BERLength(Opened(piece)) : l.header + l.content = Len(wire)
    BY <2>2, <2>3, FirstPiece
  <2>8. \/ BERLength(Opened(piece)) = {}
        \/ \E l \in BERLength(Opened(piece)) : ReadOn(piece, l.header + l.content)
    BY <2>1, <2>2
  <2>9. \/ BERLength(Opened(piece)) = {} /\ HeaderSplit(piece)
        \/ ReadOn(piece, Len(wire))
    BY <2>7, <2>8, Zenon
  <2> QED
    BY <2>5, <2>6, <2>9
<1>10. CASE Fill
  <2>1. PICK n \in 1 .. Len(wire) : \E bytes \in {data \o SubSeq(wire, 1, n)} :
          /\ loop = "filling" /\ n <= missing
          /\ bytes \in Seq(OnWireByte)
          /\ wire' = SubSeq(wire, n + 1, Len(wire))
          /\ UNCHANGED <<client, tls, results, split>>
          /\ IF n = missing THEN Complete(bytes)
             ELSE data' = bytes /\ missing' = missing - n /\ UNCHANGED <<loop, current>>
    BY <1>10, FillStep
  <2>2. /\ OneOpen /\ sent \in DOMAIN script /\ data \o wire = OnWire(sent)
        /\ missing = Len(wire)
    BY <1>2, <1>4, <2>1 DEF OneOnItsWay
  <2>3. /\ UNCHANGED <<script, sent, secured, clientOpen, handled>>
        /\ OneOpen' /\ OnWire(sent)' = OnWire(sent)
    BY <2>1, <2>2 DEF OneOpen, OnWire
  <2>4. /\ (data \o SubSeq(wire, 1, n)) \o wire' = data \o wire /\ Len(wire') = Len(wire) - n
        /\ SubSeq(wire, 1, Len(wire)) = wire
        /\ SubSeq(wire, Len(wire) + 1, Len(wire)) = << >>
    <3>1. n \in 0 .. Len(wire)
      BY <1>3
    <3>2. /\ (data \o SubSeq(wire, 1, n)) \o SubSeq(wire, n + 1, Len(wire)) = data \o wire
          /\ Len(SubSeq(wire, n + 1, Len(wire))) = Len(wire) - n
          /\ SubSeq(wire, 1, Len(wire)) = wire /\ SubSeq(wire, Len(wire) + 1, Len(wire)) = << >>
      BY <1>3, <3>1, CutAndJoin
    <3> QED
      BY <2>1, <3>2
  <2>5. CASE n = missing
    <3>1. Complete(OnWire(sent)) /\ wire' = << >>
      BY <2>1, <2>2, <2>4, <2>5
    <3>2. \/ loop' = "closed" /\ Unknown(sent)
          \/ loop' = "dispatching" /\ current'.id = MessageIds[sent] /\ current'.op = script[sent]
      BY <2>2, <3>1, CompleteRequest
    <3>3. NoRequestLost'
      BY <1>3, <2>2, <2>3, <3>2 DEF NoRequestLost, OneOpen, Unknown
    <3>4. OneOnItsWay'
      BY <2>3, <3>1, <3>2 DEF OneOnItsWay
    <3> QED
      BY <1>2, <1>5, <2>3, <3>3, <3>4
  <2>6. CASE n # missing
    <3>1. loop' = "filling" /\ data' = data \o SubSeq(wire, 1, n) /\ missing' = missing - n
      BY <2>1, <2>6
    <3>2. missing' = Len(wire') /\ missing' > 0
      BY <1>3, <2>1, <2>2, <2>4, <2>6, <3>1
    <3>3. data' \o wire' = OnWire(sent)'
      BY <2>2, <2>3, <2>4, <3>1
    <3> QED
      BY <1>2, <1>5, <2>3, <3>1, <3>2, <3>3 DEF OneOnItsWay, NoRequestLost
  <2> QED
    BY <2>5, <2>6
<1>11. CASE ReadEOF
  <2>1. /\ loop \in {"reading", "filling", "upgrading"} /\ wire = << >> /\ ~clientOpen
        /\ loop' = "closed" /\ UNCHANGED <<script, sent, clientOpen, handled>>
    BY <1>11 DEF ReadEOF, Close, Goes
  <2>2. OneOpen => Len(OnWire(sent)) >= 2
    BY <1>4, RequestOnWire
  <2>3. NoneOpen
    <3>1. CASE loop = "reading"
      BY <1>2, <2>1, <2>2, <3>1 DEF OneOnItsWay
    <3>2. loop # "filling"
      BY <1>2, <2>1 DEF OneOnItsWay
    <3>3. CASE loop = "upgrading"
      <4>1. ASSUME OneOpen, wire = <<Hello>> \o OnWire(sent) PROVE FALSE
        <5>1. OnWire(sent) \in Seq(OnWireByte) /\ <<Hello>> \in Seq(OnWireByte)
          BY <1>4, <4>1, RequestOnWire, WireByteTypes
        <5> QED
          BY <2>1, <4>1, <5>1
      <4> QED
        BY <1>2, <3>3, <4>1 DEF OneOnItsWay
    <3> QED
      BY <2>1, <3>1, <3>2, <3>3
  <2>4. NoRequestLost'
    BY <2>1, <2>3 DEF NoRequestLost, NoneOpen
  <2> QED
    BY <1>2, <1>5, <2>1, <2>4 DEF OneOnItsWay
<1>12. CASE Dispatch
  <2>1. /\ loop = "dispatching"
        /\ handled' = Append(handled, Call)
        /\ UNCHANGED <<client, wire, split>>
        /\ \/ Goes("reading")
           \/ Goes("upgrading") /\ ~tls
    BY <1>12, DispatchStep
  <2>2. /\ OneOpen /\ wire = << >>
        /\ current.id = MessageIds[sent] /\ current.op = script[sent]
    BY <1>2, <2>1 DEF OneOnItsWay
  <2>3. /\ Len(handled') = Len(handled) + 1
        /\ \A i \in DOMAIN handled : handled'[i] = handled[i]
        /\ \A i \in DOMAIN handled' : i \in DOMAIN handled \/ i = Len(handled) + 1
        /\ handled'[Len(handled) + 1] = Call
    BY <2>1, OneMore DEF ConnTypes
  <2>4. Call.id = current.id /\ Call.op = current.op
    BY DEF Call
  <2>5. HandledAsSent'
    <3>1. \A i \in DOMAIN handled' :
              handled'[i].id = MessageIds[i] /\ handled'[i].op = script[i]
      BY <1>2, <2>2, <2>3, <2>4 DEF OneOpen
    <3> QED
      BY <1>1, <3>1 DEF HandledAsSent
  <2>6. NoneOpen' /\ wire' = << >> /\ secured' = secured
    BY <2>1, <2>2, <2>3 DEF NoneOpen, OneOpen
  <2>7. loop' = "reading" \/ (loop' = "upgrading" /\ ~secured)
    BY <2>1 DEF Goes, FreshInv
  <2> QED
    BY <1>2, <2>5, <2>6, <2>7 DEF OneOnItsWay, NoRequestLost
<1>13. CASE Handshake
  <2>1. /\ loop = "upgrading" /\ wire # << >> /\ wire' = Tail(wire)
        /\ UNCHANGED <<script, sent, secured, handled>>
        /\ Head(wire) = Hello => loop' = "reading"
    BY <1>13 DEF Handshake, Done, Goes
  <2>2. /\ NoneOpen' <=> NoneOpen
        /\ OneOpen' <=> OneOpen
        /\ OnWire(sent)' = OnWire(sent)
    BY <2>1 DEF NoneOpen, OneOpen, OnWire
  <2>3. /\ Head(wire) = Hello
        /\ \/ NoneOpen /\ wire' = << >>
           \/ OneOpen /\ wire' = OnWire(sent)
    <3>1. CASE NoneOpen /\ wire = <<Hello>>
      <4>1. Head(<<Hello>>) = Hello /\ Tail(<<Hello>>) = << >>
        OBVIOUS
      <4> QED
        BY <2>1, <3>1, <4>1
    <3>2. CASE OneOpen /\ wire = <<Hello>> \o OnWire(sent)
      <4>1. PICK w \in Seq(OnWireByte) : w = OnWire(sent)
        BY <1>4, <3>2, RequestOnWire
      <4>2. Head(<<Hello>> \o w) = Hello /\ Tail(<<Hello>> \o w) = w
        BY WireByteTypes
      <4> QED
        BY <2>1, <3>2, <4>1, <4>2
    <3> QED
      BY <1>2, <2>1, <3>1, <3>2 DEF OneOnItsWay
  <2> QED
    BY <1>2, <1>5, <2>1, <2>2, <2>3 DEF OneOnItsWay, NoRequestLost
<1>14. CASE UNCHANGED vars
  <2>1. UNCHANGED <<script, sent, secured, clientOpen, wire, loop, data, missing, current, handled,
                    split, pipelined>>
    BY <1>14 DEF vars
  <2>2. OneOnItsWay'
    BY <1>2, <2>1 DEF OneOnItsWay, NoneOpen, OneOpen, OnWire
  <2>3. NoRequestLost'
    BY <1>2, <2>1 DEF NoRequestLost, Unknown
  <2> QED
    BY <1>2, <1>5, <2>1, <2>2, <2>3
<1> QED
  BY <1>6, <1>7, <1>8, <1>9, <1>10, <1>11, <1>12, <1>13, <1>14 DEF Next, Handle

----
(* The invariant and what it gives *)

LEMMA ConnectionInit ==
    ASSUME Init
    PROVE  ConnectionInv
<1>1. ConnTypes
  <2>1. wire = << >> /\ data = << >> /\ handled = << >> /\ script \in Scripts
    BY DEF Init
  <2>2. wire \in Seq(OnWireByte) /\ data \in Seq(OnWireByte) /\ handled \in Seq(Range(handled))
    BY <2>1
  <2>3. sent \in 0 .. Len(script)
    <3>1. Len(script) \in Nat
      BY <2>1, ConnectionAssumption
    <3> QED
      BY <3>1 DEF Init
  <2>4. /\ {offered, secured, clientOpen, tls, split, pipelined} \subseteq BOOLEAN
        /\ loop = "reading" /\ missing \in Nat
    BY DEF Init
  <2> QED
    BY <2>1, <2>2, <2>3, <2>4 DEF ConnTypes
<1>2. FreshInv
  BY DEF Init, FreshInv, Serving, Sealed, UpgradedIsFresh
<1>3. FramedInv
  BY DEF Init, FramedInv, HandledAsSent, NoRequestLost, OneOnItsWay, NoneOpen
<1> QED
  BY <1>1, <1>2, <1>3 DEF ConnectionInv

LEMMA ConnectionStep ==
    ASSUME ConnectionInv, [Next]_vars
    PROVE  ConnectionInv'
<1>1. ConnTypes' /\ FreshInv'
  BY TypesStep, FreshStep DEF ConnectionInv
<1>2. ASSUME pipelined' PROVE FramedInv'
  BY <1>2 DEF FramedInv, HandledAsSent, NoRequestLost
<1>3. ASSUME ~pipelined' PROVE FramedInv'
  BY <1>3, FramedStep DEF FramedInv, ConnectionInv
<1> QED
  BY <1>1, <1>2, <1>3 DEF ConnectionInv

\* Every reachable state of a connection is well typed, has sent nothing in the clear past a
\* Hello, and has at most one request of a patient client on its way.
THEOREM ConnectionInvariant == Spec => []ConnectionInv
<1>1. Init => ConnectionInv
  BY ConnectionInit
<1>2. ConnectionInv /\ [Next]_vars => ConnectionInv'
  BY ConnectionStep
<1> QED
  BY <1>1, <1>2, PTL DEF Spec

\* However the pieces fall and whenever the client sends, hangs up or upgrades: what is
\* handled as protected came inside TLS, and the bind it acts under too.
THEOREM UpgradeIsFresh == Spec => []UpgradedIsFresh
<1>1. ConnectionInv => UpgradedIsFresh
  BY DEF ConnectionInv, FreshInv
<1> QED
  BY <1>1, ConnectionInvariant, PTL

\* Each call of ReadLDAPMessage reads one request of a client that waits, and all of it.
THEOREM HandlersGetWhatWasSent == Spec => []HandledAsSent
<1>1. ConnectionInv => HandledAsSent
  BY DEF ConnectionInv, FramedInv
<1> QED
  BY <1>1, ConnectionInvariant, PTL

\* The loop ends with a request of such a client unhandled only if its header was split or
\* its operation is unknown.
THEOREM RequestsAreNotLost == Spec => []NoRequestLost
<1>1. ConnectionInv => NoRequestLost
  BY DEF ConnectionInv, FramedInv
<1> QED
  BY <1>1, ConnectionInvariant, PTL

====
