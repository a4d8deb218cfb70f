----------------------------- MODULE WireFormat ------------------------------
(***************************************************************************)
(* Record values as bytes: what the producers of this repository and       *)
(* Confluent's put before a payload, and what the consumer and the decoder *)
(* take for a header (pkg/rp, internal/tui/proto_decode.go).               *)
(***************************************************************************)
EXTENDS Integers, Sequences, FiniteSetsExt, SequencesExt

CONSTANT MaxCap     \* capacity of []int beyond which make does not return

ASSUME CapAssumption == MaxCap \in Nat /\ MaxCap >= 63

Drop(s, n) == SubSeq(s, n + 1, Len(s))

\* binary.BigEndian: four bytes from and to a number.
PutUint32(id) == <<(id \div 16777216) % 256, (id \div 65536) % 256,
                   (id \div 256) % 256, id % 256>>
IsUint32(id) == id \div 16777216 < 256
Uint32(b) == b[1] * 16777216 + b[2] * 65536 + b[3] * 256 + b[4]

-----------------------------------------------------------------------------
(* Senders *)

\* The magic byte, the schema ID and one zero byte: the first message.
PrependSchemaHeader(payload, id) == <<0>> \o PutUint32(id) \o <<0>> \o payload

\* The magic byte and the schema ID.
EncodeAvro(payload, id) == <<0>> \o PutUint32(id) \o payload

\* Confluent's protobuf serializer: then the message indexes as zig-zag varints,
\* here below 64, after their count; <<0>> for the first message.
PutIndexes(path) ==
    IF path = <<0>> THEN <<0>>
    ELSE <<2 * Len(path)>> \o [i \in DOMAIN path |-> 2 * path[i]]
EncodeProto(payload, id, path) == EncodeAvro(PutIndexes(path) \o payload, id)

-----------------------------------------------------------------------------
(* Receivers *)

\* Mutant: a value that is all header has no schema ID.
ExtractSchemaIDLonger(value) ==
    IF Len(value) < 6 \/ value[1] # 0
    THEN [ok |-> FALSE, id |-> 0, payload |-> value]
    ELSE [ok |-> TRUE, id |-> Uint32(SubSeq(value, 2, 5)), payload |-> Drop(value, 5)]

ExtractSchemaID(value) ==
    IF Len(value) < 5 \/ value[1] # 0
    THEN [ok |-> FALSE, id |-> 0, payload |-> value]
    ELSE [ok |-> TRUE, id |-> Uint32(SubSeq(value, 2, 5)), payload |-> Drop(value, 5)]

\* Mutant: only the magic byte and the ID are stripped.
StripFive(data) == IF Len(data) > 5 /\ data[1] = 0 THEN Drop(data, 5) ELSE data

StripSchemaHeaders(data) ==
    IF Len(data) > 6 /\ data[1] = 0 THEN Drop(data, 6) ELSE data

\* binary.Varint: the value and how many bytes it takes; none if p ends first or
\* the value does not fit in 64 bits.
Varint(p) ==
    LET ends == {i \in DOMAIN p : p[i] < 128}
        first == IF ends = {} THEN 0 ELSE Min(ends)
        n == IF first > 10 \/ (first = 10 /\ p[10] > 1) THEN 0 ELSE first
        u == FoldRight(LAMBDA byte, acc : (byte % 128) + 128 * acc, SubSeq(p, 1, n), 0)
    IN  [n |-> n, v |-> IF u % 2 = 0 THEN u \div 2 ELSE -((u + 1) \div 2)]

ReadIndex(acc, i) ==
    LET x == Varint(acc.payload)
    IN  IF ~acc.ok \/ x.n = 0 THEN [acc EXCEPT !.ok = FALSE]
        ELSE [acc EXCEPT !.path = Append(@, x.v), !.payload = Drop(@, x.n)]

\* parseProtoMessageIndexes: a count, then that many indexes.  A list is made of
\* the capacity of the count, also when it is negative or larger than there can be.
ParseMessageIndexes(p) ==
    LET count == Varint(p)
        rest == Drop(p, count.n)
        Result(ok, panics) ==
            [ok |-> ok, panics |-> panics, path |-> <<>>, payload |-> rest]
    IN  IF p = <<>> \/ count.n = 0 THEN Result(FALSE, FALSE)
        ELSE IF count.v = 0 THEN [Result(TRUE, FALSE) EXCEPT !.path = <<0>>]
        ELSE IF count.v < 0 \/ count.v > MaxCap THEN Result(FALSE, TRUE)
        ELSE FoldLeft(ReadIndex, Result(TRUE, FALSE), [i \in 1..count.v |-> i])
=============================================================================
