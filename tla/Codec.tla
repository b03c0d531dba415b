---- MODULE Codec ----
(***************************************************************************)
(* LDAP messages as bytes: the BER reader and writer (internal/protocol/   *)
(* ber), the request decoder and the response encoder (internal/protocol). *)
(*                                                                         *)
(* A text is a sequence of bytes.  What a reader may refuse is split into  *)
(* the condition it accepts under and the value it then returns.           *)
(***************************************************************************)
EXTENDS Integers, SequencesExt

Byte == 0 .. 255
Bytes == Seq(Byte)
Packet == [tag : Byte, value : Bytes]

Tag == [boolean |-> 1, integer |-> 2, octets |-> 4, enumerated |-> 10,
        sequence |-> 48, set |-> 49,
        simpleAuth |-> 128, requestName |-> 128, requestValue |-> 129,
        responseName |-> 138, responseValue |-> 139]

RequestTag == [bind |-> 96, search |-> 99, modify |-> 102, add |-> 104, delete |-> 74,
               compare |-> 110, unbind |-> 66, extended |-> 119]

ResponseTag == [bind |-> 97, entry |-> 100, search |-> 101, modify |-> 103, add |-> 105,
                delete |-> 107, compare |-> 111, extended |-> 120]

FilterTag == [and |-> 160, or |-> 161, not |-> 162, equality |-> 163, substrings |-> 164,
              greaterOrEqual |-> 165, lessOrEqual |-> 166, present |-> 135, approx |-> 168]

PieceTag == [initial |-> 128, any |-> 129, final |-> 130]

MaxPacketSize == 16 * 1048576

Constructed(tag) == (tag \div 32) % 2 = 1

\* The name a tag has in one of the records above, of the names it has there.
NamesIn(tags, tag) == {name \in DOMAIN tags : tags[name] = tag}
NameIn(tags, tag) == CHOOSE name \in NamesIn(tags, tag) : TRUE

----
(* Lengths *)

BigEndian(bytes) ==
    LET value[i \in 0 .. Len(bytes)] == IF i = 0 THEN 0 ELSE 256 * value[i - 1] + bytes[i]
    IN  value[Len(bytes)]

\* The bytes of the length that follow its first one.
LengthBytes(data) == IF data[2] < 128 THEN 0 ELSE data[2] - 128

\* parseBERLength: the lengths of header and content, if data starts with a whole header.
BERLength(data) ==
    IF Len(data) < 2 THEN {}
    ELSE IF data[2] < 128 THEN {[header |-> 2, content |-> data[2]]}
    ELSE IF LengthBytes(data) \notin 1 .. 4 \/ Len(data) < 2 + LengthBytes(data) THEN {}
    ELSE {[header |-> 2 + LengthBytes(data),
           content |-> BigEndian(SubSeq(data, 3, 2 + LengthBytes(data)))]}

\* readLength and ReadPacket refuse a length with a shorter form, too long, or beyond the end.
PacketLength(data) ==
    {l \in BERLength(data) :
        /\ l.header > 2 => data[3] # 0 /\ l.content >= 128
        /\ l.content <= MaxPacketSize
        /\ l.header + l.content <= Len(data)}

----
(* Packets *)

First(data, l) == SubSeq(data, l.header + 1, l.header + l.content)
Rest(data, l) == SubSeq(data, l.header + l.content + 1, Len(data))

\* ReadPackets succeeds: at every depth, data is made of whole packets.
WellFormed[data \in Bytes] ==
    \/ data = << >>
    \/ \E l \in PacketLength(data) :
          /\ Constructed(data[1]) => WellFormed[First(data, l)]
          /\ WellFormed[Rest(data, l)]

\* normalizeBERBooleans.
Normalized(tag, value) ==
    IF tag = Tag.boolean /\ Len(value) = 1 /\ value # <<0>> THEN <<255>> ELSE value

\* The packets of well-formed data.
Packets[data \in Bytes] ==
    IF data = << >> THEN << >>
    ELSE LET l == CHOOSE l \in PacketLength(data) : TRUE
         IN  <<[tag |-> data[1], value |-> Normalized(data[1], First(data, l))]>>
                 \o Packets[Rest(data, l)]

Children[p \in Packet] == IF Constructed(p.tag) THEN Packets[p.value] ELSE << >>
Tags(ps) == [i \in DOMAIN ps |-> ps[i].tag]
Texts(ps) == [i \in DOMAIN ps |-> ps[i].value]
HasFields(p, tags) == Tags(Children[p]) = tags
ListOf(p, tag) == \A i \in DOMAIN Children[p] : Children[p][i].tag = tag
Field(p, i) == Children[p][i]

\* Packet.Int: an unsigned reading, in the 64 bits of an int.
HasInt(p) == p.value # << >>
IntOf(p) == BigEndian(p.value)

\* Packet.Bool.
HasBool(p) == Len(p.value) = 1
BoolOf(p) == p.value # <<0>>

----
(* Requests: decodeProtocolOp *)

\* decodeAttribute, decodeStringSet and decodeStringSequence.
IsAttribute[p \in Packet] ==
    /\ p.tag = Tag.sequence
    /\ HasFields(p, <<Tag.octets, Tag.set>>)
    /\ ListOf(Field(p, 2), Tag.octets)
Attribute[p \in Packet] == [name |-> Field(p, 1).value, values |-> Texts(Children[Field(p, 2)])]

IsStrings(p) == p.tag = Tag.sequence /\ ListOf(p, Tag.octets)

\* decodeAVA takes a sequence, decodeTaggedAVA any tag.
IsAVA(p) == HasFields(p, <<Tag.octets, Tag.octets>>)
AVA(p) == [attr |-> Field(p, 1).value, value |-> Field(p, 2).value]

IsSubstrings(p) ==
    /\ HasFields(p, <<Tag.octets, Tag.sequence>>)
    /\ \A i \in DOMAIN Children[Field(p, 2)] :
          NamesIn(PieceTag, Field(Field(p, 2), i).tag) # {}
Pieces(p) ==
    [i \in DOMAIN Children[p] |->
        [kind |-> NameIn(PieceTag, Field(p, i).tag), value |-> Field(p, i).value]]

FilterName(p) == NameIn(FilterTag, p.tag)

IsFilter[p \in Packet] ==
    /\ NamesIn(FilterTag, p.tag) # {}
    /\ CASE FilterName(p) \in {"and", "or"} ->
              \A i \in DOMAIN Children[p] : IsFilter[Field(p, i)]
         [] FilterName(p) = "not" -> Len(Children[p]) = 1 /\ IsFilter[Field(p, 1)]
         [] FilterName(p) = "substrings" -> IsSubstrings(p)
         [] FilterName(p) = "present" -> TRUE
         [] OTHER -> IsAVA(p)

Filter[p \in Packet] ==
    CASE FilterName(p) \in {"and", "or", "not"} ->
            [op |-> FilterName(p), of |-> [i \in DOMAIN Children[p] |-> Filter[Field(p, i)]]]
      [] FilterName(p) = "substrings" ->
            [op |-> "substrings", attr |-> Field(p, 1).value, pieces |-> Pieces(Field(p, 2))]
      [] FilterName(p) = "present" -> [op |-> "present", attr |-> p.value]
      [] OTHER -> [op |-> FilterName(p), of |-> AVA(p)]

\* Dereferencing, size limit and time limit are neither checked nor kept.
IsSearch[p \in Packet] ==
    /\ Len(Children[p]) = 8
    /\ Field(p, 1).tag = Tag.octets
    /\ Field(p, 2).tag = Tag.enumerated /\ HasInt(Field(p, 2))
    /\ Field(p, 6).tag = Tag.boolean /\ HasBool(Field(p, 6))
    /\ IsFilter[Field(p, 7)]
    /\ IsStrings(Field(p, 8))

IsChange[p \in Packet] ==
    /\ Len(Children[p]) = 2
    /\ Field(p, 1).tag = Tag.enumerated /\ HasInt(Field(p, 1))
    /\ IsAttribute[Field(p, 2)]

\* What follows the value is not looked at.
IsExtendedRequest[p \in Packet] ==
    /\ Children[p] # << >> /\ Field(p, 1).tag = Tag.requestName
    /\ Len(Children[p]) > 1 => Field(p, 2).tag = Tag.requestValue

Decodes[p \in Packet] ==
    /\ NamesIn(RequestTag, p.tag) # {}
    /\ CASE p.tag = RequestTag.bind ->
              HasFields(p, <<Tag.integer, Tag.octets, Tag.simpleAuth>>)
         [] p.tag = RequestTag.search -> IsSearch[p]
         [] p.tag = RequestTag.add ->
              /\ HasFields(p, <<Tag.octets, Tag.sequence>>)
              /\ \A i \in DOMAIN Children[Field(p, 2)] : IsAttribute[Field(Field(p, 2), i)]
         [] p.tag = RequestTag.modify ->
              /\ HasFields(p, <<Tag.octets, Tag.sequence>>)
              /\ \A i \in DOMAIN Children[Field(p, 2)] : IsChange[Field(Field(p, 2), i)]
         [] p.tag = RequestTag.delete -> TRUE
         [] p.tag = RequestTag.compare ->
              HasFields(p, <<Tag.octets, Tag.sequence>>) /\ IsAVA(Field(p, 2))
         [] p.tag = RequestTag.unbind -> p.value = << >>
         [] p.tag = RequestTag.extended -> IsExtendedRequest[p]

EachOf(p, decode) == [i \in DOMAIN Children[p] |-> decode[Field(p, i)]]

Change[p \in Packet] == [op |-> IntOf(Field(p, 1)), attr |-> Attribute[Field(p, 2)]]

Operation[p \in Packet] ==
    CASE p.tag = RequestTag.bind ->
            [kind |-> "bind", name |-> Field(p, 2).value, password |-> Field(p, 3).value]
      [] p.tag = RequestTag.search ->
            [kind |-> "search", base |-> Field(p, 1).value, scope |-> IntOf(Field(p, 2)),
             typesOnly |-> BoolOf(Field(p, 6)), filter |-> Filter[Field(p, 7)],
             attrs |-> Texts(Children[Field(p, 8)])]
      [] p.tag = RequestTag.add ->
            [kind |-> "add", name |-> Field(p, 1).value,
             attrs |-> EachOf(Field(p, 2), Attribute)]
      [] p.tag = RequestTag.modify ->
            [kind |-> "modify", name |-> Field(p, 1).value,
             changes |-> EachOf(Field(p, 2), Change)]
      [] p.tag = RequestTag.delete -> [kind |-> "delete", name |-> p.value]
      [] p.tag = RequestTag.compare ->
            [kind |-> "compare", name |-> Field(p, 1).value, ava |-> AVA(Field(p, 2))]
      [] p.tag = RequestTag.unbind -> [kind |-> "unbind"]
      [] p.tag = RequestTag.extended ->
            [kind |-> "extended", name |-> Field(p, 1).value,
             value |-> Texts(SubSeq(Children[p], 2, Min({2, Len(Children[p])})))]

\* DecodeLDAPMessage.  What follows the operation, its controls, is not looked at.
IsMessage[data \in Bytes] ==
    /\ WellFormed[data] /\ Len(Packets[data]) = 1
    /\ LET message == Packets[data][1]
       IN  /\ message.tag = Tag.sequence
           /\ Len(Children[message]) >= 2
           /\ Field(message, 1).tag = Tag.integer /\ HasInt(Field(message, 1))
           /\ Decodes[Field(message, 2)]

Message[data \in Bytes] ==
    LET message == Packets[data][1]
    IN  [id |-> IntOf(Field(message, 1)), op |-> Operation[Field(message, 2)]]

----
(* Responses: EncodeLDAPResponse *)

Digits[n \in Nat] == IF n < 256 THEN <<n>> ELSE Append(Digits[n \div 256], n % 256)

\* appendLength.
Length[n \in Nat] == IF n < 128 THEN <<n>> ELSE <<128 + Len(Digits[n])>> \o Digits[n]

TLV(tag, value) == <<tag>> \o Length[Len(value)] \o value

\* Mutant: the sign of the first byte is not thought of.
UnsignedBytes(n) == Digits[n]

\* signedIntegerBytes, of what is not negative.
SignedIntegerBytes(n) == IF Digits[n][1] < 128 THEN Digits[n] ELSE <<0>> \o Digits[n]

Integer(n) == TLV(Tag.integer, SignedIntegerBytes(n))
Enumerated(n) == TLV(Tag.enumerated, SignedIntegerBytes(n))
OctetString(text) == TLV(Tag.octets, text)
Sequence(parts) == TLV(Tag.sequence, FlattenSeq(parts))

EncodeAttribute(attr) ==
    Sequence(<<OctetString(attr.name),
               TLV(Tag.set, FlattenSeq([i \in DOMAIN attr.values |->
                                           OctetString(attr.values[i])]))>>)

\* encodeLDAPResult, with no matched DN: the handlers never set one.
Result(r) == Enumerated(r.code) \o OctetString(<< >>) \o OctetString(r.diagnostic)

\* encodeResponseProtocolOp.
EncodeOp(r) ==
    TLV(ResponseTag[r.kind],
        CASE r.kind = "entry" ->
                OctetString(r.name)
                    \o Sequence([i \in DOMAIN r.attrs |-> EncodeAttribute(r.attrs[i])])
          [] r.kind = "extended" ->
                Result(r)
                    \o (IF r.name = << >> THEN << >> ELSE TLV(Tag.responseName, r.name))
                    \o FlattenSeq([i \in DOMAIN r.value |-> TLV(Tag.responseValue, r.value[i])])
          [] OTHER -> Result(r))

EncodeLDAPResponse(id, r) == Sequence(<<Integer(id), EncodeOp(r)>>)

====
