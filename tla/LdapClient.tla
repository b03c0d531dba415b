---- MODULE LdapClient ----
(***************************************************************************)
(* An LDAP client, as RFC 4511 describes it: how it writes its requests    *)
(* and what it sees in an answer.  It is not part of ldaplite and shares   *)
(* no definition with it.  Requests are the records Codec decodes to;      *)
(* lengths and integers take two bytes at most.                            *)
(***************************************************************************)
EXTENDS Integers, SequencesExt

BerLength(n) ==
    IF n < 128 THEN <<n>> ELSE IF n < 256 THEN <<129, n>> ELSE <<130, n \div 256, n % 256>>
Ber(tag, content) == <<tag>> \o BerLength(Len(content)) \o content

BerInteger(tag, n) == Ber(tag, IF n < 128 THEN <<n>> ELSE <<n \div 256, n % 256>>)
BerText(text) == Ber(4, text)
BerList(tag, items, Item(_)) == Ber(tag, FlattenSeq([i \in DOMAIN items |-> Item(items[i])]))

BerAttribute(attr) == Ber(48, BerText(attr.name) \o BerList(49, attr.values, BerText))
BerChange(change) == Ber(48, BerInteger(10, change.op) \o BerAttribute(change.attr))
BerAVA(ava) == BerText(ava.attr) \o BerText(ava.value)
BerPiece(piece) ==
    Ber(CASE piece.kind = "initial" -> 128 [] piece.kind = "any" -> 129 [] OTHER -> 130,
        piece.value)

RECURSIVE BerFilter(_)
BerFilter(f) ==
    CASE f.op = "and" -> BerList(160, f.of, BerFilter)
      [] f.op = "or" -> BerList(161, f.of, BerFilter)
      [] f.op = "not" -> BerList(162, f.of, BerFilter)
      [] f.op = "equality" -> Ber(163, BerAVA(f.of))
      [] f.op = "substrings" ->
            Ber(164, BerText(f.attr) \o BerList(48, f.pieces, BerPiece))
      [] f.op = "greaterOrEqual" -> Ber(165, BerAVA(f.of))
      [] f.op = "lessOrEqual" -> Ber(166, BerAVA(f.of))
      [] f.op = "present" -> Ber(135, f.attr)
      [] f.op = "approx" -> Ber(168, BerAVA(f.of))

\* BER lets TRUE be any byte but 0; this client writes 1.
BerOperation(op) ==
    CASE op.kind = "bind" ->
            Ber(96, BerInteger(2, 3) \o BerText(op.name) \o Ber(128, op.password))
      [] op.kind = "unbind" -> Ber(66, << >>)
      [] op.kind = "search" ->
            Ber(99, BerText(op.base) \o BerInteger(10, op.scope) \o BerInteger(10, 0)
                    \o BerInteger(2, 0) \o BerInteger(2, 0)
                    \o Ber(1, IF op.typesOnly THEN <<1>> ELSE <<0>>)
                    \o BerFilter(op.filter) \o BerList(48, op.attrs, BerText))
      [] op.kind = "modify" ->
            Ber(102, BerText(op.name) \o BerList(48, op.changes, BerChange))
      [] op.kind = "add" -> Ber(104, BerText(op.name) \o BerList(48, op.attrs, BerAttribute))
      [] op.kind = "delete" -> Ber(74, op.name)
      [] op.kind = "compare" -> Ber(110, BerText(op.name) \o Ber(48, BerAVA(op.ava)))
      [] op.kind = "extended" ->
            Ber(119, Ber(128, op.name)
                     \o FlattenSeq([i \in DOMAIN op.value |-> Ber(129, op.value[i])]))
      [] op.kind = "modifyDN" -> Ber(108, BerText(op.name) \o BerText(op.name) \o Ber(1, <<1>>))

BerRequest(id, op) == Ber(48, BerInteger(2, id) \o BerOperation(op))

----
(* Answers *)

ContentOf(data) ==
    IF data[2] < 128 THEN SubSeq(data, 3, Len(data)) ELSE SubSeq(data, data[2] - 125, Len(data))

\* An integer in two's complement.
Signed(bytes) ==
    FoldLeft(LAMBDA n, b : 256 * n + b, IF bytes[1] < 128 THEN 0 ELSE -1, bytes)

\* The message an answer belongs to and the tag of its operation, if it has the length it says.
AnswerSeen[data \in Seq(0 .. 255)] ==
    LET content == ContentOf(data)
        idEnd == 2 + content[2]
    IN  IF data # Ber(48, content) THEN << >>
        ELSE <<Signed(SubSeq(content, 3, idEnd)), content[idEnd + 1]>>

====
