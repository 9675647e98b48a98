-------------------------------- MODULE Wire --------------------------------
(***************************************************************************)
(* proto: how the bytes of a FeedMessage become a message graph under the  *)
(* schema it is given (decode.py over wire.py), and how a fixture's values *)
(* become bytes again (encode.py); and when two serializations are the same*)
(* message to the reader (runner/equal_message.py).                        *)
(*                                                                         *)
(* Widths are scaled and every place where one runs out is kept: a byte is *)
(* 0 .. 15 with three payload bits (the code: seven) under its             *)
(* continuation bit; an int is 14 bits, so that four whole varint bytes    *)
(* and two bits of the fifth fill it (the code: 28 + 4 of 32); a 64-bit    *)
(* varint is 28 bits, nine bytes and one bit of the tenth; a fixed32 is    *)
(* two bytes and a fixed64 three.  A text is a sequence of characters: a   *)
(* byte below 8 is a character of its own, <<14, 8>> is the encoding of    *)
(* U+FFFD, and any other byte becomes U+FFFD.                              *)
(***************************************************************************)
EXTENDS Schemas, Sequences, SequencesExt, FiniteSetsExt

CONSTANT Inputs     \* the pairs of bytes and schema the checker starts from

WIRE_VARINT      == 0
WIRE_FIXED64     == 1
WIRE_LENGTH      == 2
WIRE_START_GROUP == 3
WIRE_END_GROUP   == 4
WIRE_FIXED32     == 5

BYTE  == 16         \* one byte's values
CONTINUES == 8      \* the byte's top bit, the code's 0x80
INT32 == 2^14
UINT64 == 2^28
FIXED32_BYTES == 2
FIXED64_BYTES == 3
MAX_VARINT_BYTES == 10
REPLACEMENT == BYTE \* U+FFFD, which no single byte is

KIND_WIRE_TYPES ==
  [int32 |-> 0, int64 |-> 0, uint32 |-> 0, uint64 |-> 0, sint32 |-> 0, bool |-> 0, enum |-> 0,
   fixed64 |-> 1, double |-> 1, string |-> 2, bytes |-> 2, message |-> 2, fixed32 |-> 5, float |-> 5]

(***************************************************************************)
(* wire.py.  A reading is the position it ends at and the value it read;   *)
(* DecodeError is the reading Refused.                                     *)
(***************************************************************************)
Refused == [pos |-> -1, value |-> 0]
Reads(r) == r.pos >= 0
At(p, v) == [pos |-> p, value |-> v]

Payload(d, p, n) ==
  FoldSet(LAMBDA i, t : t + (d[p + i] % CONTINUES) * CONTINUES^(i - 1), 0, 1 .. n)

\* Which of the bytes numbered by `span` from p on end a varint.
Ends(d, p, span) == {i \in span : p + i <= Len(d) /\ d[p + i] < CONTINUES}

as_int32(v) == LET w == v % INT32 IN IF w >= INT32 \div 2 THEN w - INT32 ELSE w
as_int64(v) == LET w == v % UINT64 IN IF w >= UINT64 \div 2 THEN w - UINT64 ELSE w
as_sint32(v) ==
  LET w == v % INT32 IN IF w % 2 = 0 THEN w \div 2 ELSE -((w + 1) \div 2)

read_varint(d, p) ==
  LET ends == Ends(d, p, 1 .. MAX_VARINT_BYTES) IN
  IF ends = {} THEN Refused
  ELSE At(p + Min(ends), Payload(d, p, Min(ends)) % UINT64)

\* Four masked bytes; the fifth's whole signed byte shifted past them and cut
\* by the register; five more read and dropped while they continue.
read_varint32(d, p) ==
  LET short == Ends(d, p, 1 .. 4)
      fifth == d[p + 5]
      signed == IF fifth >= CONTINUES THEN fifth - BYTE ELSE fifth
      value == as_int32(Payload(d, p, 4) + signed * CONTINUES^4)
      rest  == Ends(d, p, 6 .. 10)
  IN CASE short # {} -> At(p + Min(short), Payload(d, p, Min(short)))
       [] short = {} /\ p + 5 > Len(d) -> Refused
       [] OTHER -> IF fifth < CONTINUES THEN At(p + 5, value)
                   ELSE IF rest = {} THEN Refused ELSE At(p + Min(rest), value)

read_tag(d, p) ==
  LET r   == read_varint32(d, p)
      tag == r.value % INT32
  IN IF ~Reads(r) \/ tag \div 8 = 0 THEN Refused
     ELSE At(r.pos, [number |-> tag \div 8, wire_type |-> tag % 8])

take(d, p, width) ==
  IF p + width > Len(d) THEN Refused
  ELSE At(p + width, FoldSet(LAMBDA i, t : t + d[p + i] * BYTE^(i - 1), 0, 1 .. width))

read_length_delimited(d, p) ==
  LET r == read_varint32(d, p) IN
  IF ~Reads(r) \/ r.value < 0 \/ r.pos + r.value > Len(d) THEN Refused
  ELSE At(r.pos + r.value, SubSeq(d, r.pos + 1, r.pos + r.value))

RECURSIVE skip_group(_, _, _)
\* Only the reading's position counts.
skip(d, p, wire_type, number) ==
  CASE wire_type = WIRE_VARINT  -> read_varint(d, p)
    [] wire_type = WIRE_FIXED64 -> take(d, p, FIXED64_BYTES)
    [] wire_type = WIRE_LENGTH  -> read_length_delimited(d, p)
    [] wire_type = WIRE_FIXED32 -> take(d, p, FIXED32_BYTES)
    [] wire_type = WIRE_START_GROUP -> skip_group(d, p, number)
    [] OTHER -> Refused

\* A group closes on the number that opened it.
InGroup(d, opened, tag) ==
  CASE ~Reads(tag) -> Refused
    [] Reads(tag) /\ tag.value.wire_type = WIRE_END_GROUP ->
         IF tag.value.number = opened THEN At(tag.pos, 0) ELSE Refused
    [] OTHER ->
         skip_group(d, skip(d, tag.pos, tag.value.wire_type, tag.value.number).pos, opened)
skip_group(d, p, opened) ==
  IF p < 0 THEN Refused ELSE InGroup(d, opened, read_tag(d, p))

(***************************************************************************)
(* descriptor.py: a schema is its messages' fields and its enums' values.  *)
(***************************************************************************)
FieldsOf(schema, type) == schema.messages[type]

wire_type_matches(field, wire_type) == KIND_WIRE_TYPES[field.kind] = wire_type

\* The field a tag names, or none: a number the schema lacks, or a wire type
\* its kind does not have.
FieldFor(schema, type, tag) ==
  {f \in FieldsOf(schema, type) :
     f.number = tag.number /\ wire_type_matches(f, tag.wire_type)}

(***************************************************************************)
(* decode.py and encode.py.                                                *)
(***************************************************************************)
Empty == [values |-> <<>>, unknown |-> <<>>]

has(msg, name) == name \in DOMAIN msg.values

\* What a getter answers for a field that is not there: the kind's zero, unless
\* the schema declares another.
default(field) ==
  CASE field.label = "repeated" \/ field.kind = "string" -> <<>>
    [] field.label # "repeated" /\ field.kind = "message" -> Empty
    [] field.label # "repeated" /\ field.kind = "bool"    -> FALSE
    [] OTHER                                              -> field.default
get(msg, field) == IF has(msg, field.name) THEN msg.values[field.name] ELSE default(field)

Put(msg, name, value) == [msg EXCEPT !.values = (name :> value) @@ @]
Extend(msg, name, items) ==
  Put(msg, name, IF has(msg, name) THEN msg.values[name] \o items ELSE items)
Keep(msg, number, wire_type, bytes) ==
  [msg EXCEPT !.unknown =
     Append(@, [number |-> number, wire_type |-> wire_type, bytes |-> bytes])]

RECURSIVE varint_bytes(_)
varint_bytes(v) ==
  IF v < CONTINUES THEN <<v>>
  ELSE <<CONTINUES + (v % CONTINUES)>> \o varint_bytes(v \div CONTINUES)

\* str(raw, "utf-8", "replace").
RECURSIVE Decoded(_)
Decoded(raw) ==
  CASE raw = <<>> -> <<>>
    [] raw # <<>> /\ Head(raw) < 8 -> <<Head(raw)>> \o Decoded(Tail(raw))
    [] Len(raw) >= 2 /\ SubSeq(raw, 1, 2) = <<14, 8>> ->
         <<REPLACEMENT>> \o Decoded(SubSeq(raw, 3, Len(raw)))
    [] OTHER -> <<REPLACEMENT>> \o Decoded(Tail(raw))

Encoded(text) ==
  FlattenSeq([i \in DOMAIN text |-> IF text[i] = REPLACEMENT THEN <<14, 8>> ELSE <<text[i]>>])

\* A mistake: a repeated field of the later message in place of the earlier's.
RECURSIVE merge_without_lists(_, _, _, _)
merge_without_lists(schema, type, into, other) ==
  LET one(m, f) ==
        IF ~has(other, f.name) THEN m
        ELSE IF f.kind = "message" /\ f.label # "repeated" /\ has(m, f.name)
             THEN Put(m, f.name, merge_without_lists(schema, f.type, m.values[f.name],
                                                     other.values[f.name]))
             ELSE Put(m, f.name, other.values[f.name])
      merged == FoldSet(LAMBDA f, m : one(m, f), into, FieldsOf(schema, type))
  IN [merged EXCEPT !.unknown = @ \o other.unknown]

\* Singular messages merge, repeated fields follow on, anything else is the
\* later one's; unknown fields follow on.
RECURSIVE merge(_, _, _, _)
merge(schema, type, into, other) ==
  LET one(m, f) ==
        LET value == other.values[f.name] IN
        CASE ~has(other, f.name)      -> m
          [] has(other, f.name) /\ f.label = "repeated" -> Extend(m, f.name, value)
          [] has(other, f.name) /\ f.label # "repeated" /\ f.kind = "message"
                                /\ has(m, f.name) ->
               Put(m, f.name, merge(schema, f.type, m.values[f.name], value))
          [] OTHER                    -> Put(m, f.name, value)
      merged == FoldSet(LAMBDA f, m : one(m, f), into, FieldsOf(schema, type))
  IN [merged EXCEPT !.unknown = @ \o other.unknown]

Scalar(field, d, p) ==
  LET wire_type == KIND_WIRE_TYPES[field.kind] IN
  CASE wire_type = WIRE_VARINT  -> read_varint(d, p)
    [] wire_type = WIRE_FIXED64 -> take(d, p, FIXED64_BYTES)
    [] wire_type = WIRE_FIXED32 -> take(d, p, FIXED32_BYTES)
    [] OTHER                    -> read_length_delimited(d, p)

Converted(kind, raw) ==
  CASE kind \in {"int32", "enum"} -> as_int32(raw)
    [] kind = "int64"             -> as_int64(raw)
    [] kind = "uint32"            -> raw % INT32
    [] kind = "sint32"            -> as_sint32(raw)
    [] kind = "bool"              -> raw # 0
    [] kind = "string"            -> Decoded(raw)
    [] OTHER                      -> raw

RECURSIVE read(_, _, _, _)
\* What a payload says: a nested message is read to its end.
Interpreted(schema, field, raw) ==
  CASE ~Reads(raw) -> Refused
    [] Reads(raw) /\ field.kind = "message" ->
         read(schema, field.type, raw.value, At(0, Empty))
    [] OTHER -> At(raw.pos, Converted(field.kind, raw.value))

\* A closed enum keeps the bytes of a value it lacks and the field as it was; a
\* singular message merges; any other singular field is replaced.
Stored(schema, msg, field, raw, given) ==
  CASE field.kind = "enum" /\ given.value \notin schema.enums[field.type] ->
         Keep(msg, field.number, WIRE_VARINT, varint_bytes(raw.value))
    [] field.label = "repeated" -> Extend(msg, field.name, <<given.value>>)
    [] field.label # "repeated" /\ field.kind = "message" /\ has(msg, field.name) ->
         Put(msg, field.name, merge(schema, field.type, msg.values[field.name], given.value))
    [] OTHER -> Put(msg, field.name, given.value)

\* _set, of a field of a known number and wire type.
StoredIfRead(schema, msg, field, raw, given) ==
  IF Reads(given) THEN At(raw.pos, Stored(schema, msg, field, raw, given)) ELSE Refused
FromPayload(schema, msg, field, raw) ==
  StoredIfRead(schema, msg, field, raw, Interpreted(schema, field, raw))
set(schema, msg, field, d, p) == FromPayload(schema, msg, field, Scalar(field, d, p))

\* One turn of _read's loop: a tag, and the field it leads.
Kept(d, msg, tag, over) ==
  IF ~Reads(over) THEN Refused
  ELSE At(over.pos, Keep(msg, tag.value.number, tag.value.wire_type,
                         SubSeq(d, tag.pos + 1, over.pos)))
AfterTag(schema, type, d, msg, tag) ==
  IF ~Reads(tag) THEN Refused
  ELSE IF FieldFor(schema, type, tag.value) = {}
       THEN Kept(d, msg, tag, skip(d, tag.pos, tag.value.wire_type, tag.value.number))
       ELSE set(schema, msg, CHOOSE f \in FieldFor(schema, type, tag.value) : TRUE, d, tag.pos)
ReadOne(schema, type, d, r) == AfterTag(schema, type, d, r.value, read_tag(d, r.pos))

\* _read, on from the reading r.
read(schema, type, d, r) ==
  IF ~Reads(r) \/ r.pos >= Len(d) THEN r
  ELSE read(schema, type, d, ReadOne(schema, type, d, r))

\* isInitialized, recursively.
RECURSIVE initialized(_, _, _)
initialized(schema, type, msg) ==
  \A f \in FieldsOf(schema, type) :
    /\ f.label = "required" => has(msg, f.name)
    /\ (f.kind = "message" /\ has(msg, f.name)) =>
         IF f.label = "repeated"
         THEN \A i \in DOMAIN msg.values[f.name] :
                initialized(schema, f.type, msg.values[f.name][i])
         ELSE initialized(schema, f.type, msg.values[f.name])

\* sorted(); an order is never asked of elements that tie.
Ascending(S, before(_, _)) == SortSeq(FoldSet(LAMBDA x, s : Append(s, x), <<>>, S), before)

RECURSIVE encode(_, _, _)
\* _one: a tag and the payload of one item.
EncodedOne(schema, field, item) ==
  LET led(bytes) == varint_bytes(Len(bytes)) \o bytes
      fixed(width) == [i \in 1 .. width |-> (item \div BYTE^(i - 1)) % BYTE]
  IN varint_bytes(field.number * 8 + KIND_WIRE_TYPES[field.kind]) \o
     CASE field.kind = "message" -> led(encode(schema, field.type, item.values))
       [] field.kind = "string"  -> led(Encoded(item))
       [] field.kind = "bytes"   -> led(item)
       [] field.kind \in {"fixed32", "float"} -> fixed(FIXED32_BYTES)
       [] field.kind \in {"fixed64", "double"} -> fixed(FIXED64_BYTES)
       [] field.kind = "bool"    -> varint_bytes(IF item THEN 1 ELSE 0)
       [] field.kind = "sint32"  -> varint_bytes(IF item < 0 THEN -2 * item - 1 ELSE 2 * item)
       [] OTHER                  -> varint_bytes(IF item < 0 THEN item + UINT64 ELSE item)

\* Ascending field numbers.
encode(schema, type, values) ==
  LET fields == Ascending({f \in FieldsOf(schema, type) : f.name \in DOMAIN values},
                          LAMBDA a, b : a.number < b.number)
      items(f) == IF f.label = "repeated" THEN values[f.name] ELSE <<values[f.name]>>
      written(f) == FlattenSeq([i \in DOMAIN items(f) |-> EncodedOne(schema, f, items(f)[i])])
  IN FlattenSeq([i \in DOMAIN fields |-> written(fields[i])])

(***************************************************************************)
(* runner/equal_message.py: protobuf-java's equals over two messages.  A   *)
(* float is its bits: a sign, three of exponent and four of fraction, or   *)
(* eight.                                                                  *)
(***************************************************************************)
\* Float.floatToIntBits: every NaN is one, and -0.0 is not 0.0.
NaN == [float |-> 113, double |-> 1793]
isnan(kind, value) ==
  LET sign == IF kind = "float" THEN 2^7 ELSE 2^11 IN value % sign > sign - sign \div 8
_bits(kind, value) == IF isnan(kind, value) THEN NaN[kind] ELSE value

_payload(wire_type, raw) ==
  CASE wire_type = WIRE_VARINT -> read_varint(raw, 0).value
    [] wire_type = WIRE_LENGTH -> read_length_delimited(raw, 0).value
    [] OTHER                   -> raw

\* UnknownFieldSet: a list for every number and wire type.
_unknown_set(m) ==
  [key \in {<<u.number, u.wire_type>> : u \in Range(m.unknown)} |->
     LET seen == SelectSeq(m.unknown, LAMBDA u : <<u.number, u.wire_type>> = key)
     IN  [i \in DOMAIN seen |-> _payload(seen[i].wire_type, seen[i].bytes)]]

RECURSIVE equal_messages(_, _, _, _)
_equal_value(schema, field, left, right) ==
  CASE field.kind = "message" -> equal_messages(schema, field.type, left, right)
    [] field.kind \in DOMAIN NaN -> _bits(field.kind, left) = _bits(field.kind, right)
    [] OTHER                  -> left = right

\* A repeated field that was not seen has no elements.
_equal_field(schema, field, left, right) ==
  /\ has(left, field.name) <=> has(right, field.name)
  /\ has(left, field.name) =>
       LET mine == left.values[field.name]
           theirs == right.values[field.name]
       IN  IF field.label = "repeated"
           THEN Len(mine) = Len(theirs) /\ \A i \in DOMAIN mine : _equal_value(schema, field, mine[i], theirs[i])
           ELSE _equal_value(schema, field, mine, theirs)

equal_messages(schema, type, left, right) ==
  /\ \A field \in FieldsOf(schema, type) : _equal_field(schema, field, left, right)
  /\ _unknown_set(left) = _unknown_set(right)

(***************************************************************************)
(* One decode: a step per turn of the outermost loop, then _require.       *)
(***************************************************************************)
VARIABLES input,    \* the bytes and the schema
          pos,      \* the outermost reader's cursor
          msg,      \* what the message holds so far
          phase     \* "reading", "decoded" or "refused"

vars == <<input, pos, msg, phase>>

Init ==
  /\ input \in Inputs
  /\ pos = 0
  /\ msg = Empty
  /\ phase = "reading"

Turn == ReadOne(input.schema, "FeedMessage", input.data, At(pos, msg))

Field ==
  /\ phase = "reading"
  /\ pos < Len(input.data)
  /\ \E turn \in {Turn} : Reads(turn) /\ pos' = turn.pos /\ msg' = turn.value
  /\ UNCHANGED <<input, phase>>

Malformed ==
  /\ phase = "reading"
  /\ pos < Len(input.data)
  /\ ~Reads(Turn)
  /\ phase' = "refused"
  /\ UNCHANGED <<input, pos, msg>>

require ==
  /\ phase = "reading"
  /\ pos = Len(input.data)
  /\ phase' = IF initialized(input.schema, "FeedMessage", msg) THEN "decoded" ELSE "refused"
  /\ UNCHANGED <<input, pos, msg>>

Next == Field \/ Malformed \/ require

Spec == Init /\ [][Next]_vars

TypeOK ==
  /\ pos \in 0 .. Len(input.data)
  /\ DOMAIN msg.values \subseteq {f.name : f \in FieldsOf(input.schema, "FeedMessage")}
  /\ phase \in {"reading", "decoded", "refused"}

\* What the rest of the bytes make of m.
Onward(m) == read(input.schema, "FeedMessage", input.data, At(pos, m))
Reread(bytes) == read(input.schema, "FeedMessage", bytes, At(0, Empty))

\* protobuf's law of concatenation, at every field boundary: what the rest of
\* the bytes say on their own, merged into what was read so far, is what
\* reading on gives.  Two paths of decode.py must agree for it, _set on a
\* field met again and _merge on a message met again, at every depth.
ConcatenationMerges ==
  \A on \in {Onward(msg)}, alone \in {Onward(Empty)} :
    /\ Reads(alone) = Reads(on)
    /\ Reads(on) => on.value = merge(input.schema, "FeedMessage", msg, alone.value)

\* A message of this graph without what its parts did not know.
RECURSIVE Known(_, _, _)
Known(schema, type, m) ==
  LET of(f, v) == IF f.kind # "message" THEN v ELSE Known(schema, f.type, v)
      field(n) == CHOOSE f \in FieldsOf(schema, type) : f.name = n
  IN [values |-> [n \in DOMAIN m.values |->
                   IF field(n).label = "repeated"
                   THEN [i \in DOMAIN m.values[n] |-> of(field(n), m.values[n][i])]
                   ELSE of(field(n), m.values[n])],
      unknown |-> <<>>]

\* What was read can be written and read again: encode.py's bytes for the
\* values, followed by the unknown fields as they were retained, decode to the
\* same message (sign extension, zigzag, the ten-byte varint of -1, the bytes
\* an unrecognised enum value leaves, nested lengths).
ReadingBackIsTheSame ==
  LET schema == input.schema
      kept(u) == varint_bytes(u.number * 8 + u.wire_type) \o u.bytes
      bytes   == encode(schema, "FeedMessage", msg.values)
                 \o FlattenSeq([i \in DOMAIN msg.unknown |-> kept(msg.unknown[i])])
  IN  phase = "decoded" =>
        \A again \in {Reread(bytes)} :
          /\ Reads(again)
          /\ Known(schema, "FeedMessage", again.value) = Known(schema, "FeedMessage", msg)
          /\ again.value.unknown = msg.unknown

\* From any byte on, the 32-bit varint of tags and lengths refuses what the
\* 64-bit one refuses, ends where it ends, and holds its low 32 bits with
\* their sign: read_varint32's discarded tail and read_varint's ceiling are
\* the same ten bytes.
VarintsAgree ==
  \A p \in 0 .. Len(input.data) :
    LET narrow == read_varint32(input.data, p)
        wide   == read_varint(input.data, p)
    IN /\ narrow.pos = wide.pos
       /\ Reads(wide) => narrow.value = as_int32(wide.value)

\* A message written as another producer might: what is unknown comes first and
\* by number, every varint and every length is as short as it can be, and one
\* NaN stands for all.
RECURSIVE Rewritten(_, _, _)
Rewritten(schema, type, m) ==
  LET led(bytes) == varint_bytes(Len(bytes)) \o bytes
      tag(u)  == u.number * 8 + u.wire_type
      tags == Ascending({tag(u) : u \in Range(m.unknown)}, <)
      kept(u) ==
        varint_bytes(tag(u)) \o
        CASE u.wire_type = WIRE_VARINT -> varint_bytes(read_varint(u.bytes, 0).value)
          [] u.wire_type = WIRE_LENGTH -> led(read_length_delimited(u.bytes, 0).value)
          [] OTHER                     -> u.bytes
      seen(t) == SelectSeq(m.unknown, LAMBDA u : tag(u) = t)
      fields == Ascending({f \in FieldsOf(schema, type) : has(m, f.name)}, LAMBDA a, b : a.number < b.number)
      one(f, value) ==
        CASE f.kind = "message" -> EncodedOne(schema, [f EXCEPT !.kind = "bytes"], Rewritten(schema, f.type, value))
          [] f.kind \in DOMAIN NaN -> EncodedOne(schema, f, _bits(f.kind, value))
          [] OTHER              -> EncodedOne(schema, f, value)
      items(f) == IF f.label = "repeated" THEN m.values[f.name] ELSE <<m.values[f.name]>>
  IN FlattenSeq([k \in DOMAIN tags |-> FlattenSeq([i \in DOMAIN seen(tags[k]) |-> kept(seen(tags[k])[i])])])
     \o FlattenSeq([k \in DOMAIN fields |-> FlattenSeq([i \in DOMAIN items(fields[k]) |-> one(fields[k], items(fields[k])[i])])])

\* The same content in other bytes is caught by the guard and not by the digest
\* of the bytes, however deep the difference between the two writings lies
\* (equal_message.py, "reachable rather than theoretical").
ReEncodingsAreEqual ==
  phase = "decoded" =>
    \A again \in {Reread(Rewritten(input.schema, "FeedMessage", msg))} :
      /\ Reads(again)
      /\ equal_messages(input.schema, "FeedMessage", msg, again.value)
      /\ equal_messages(input.schema, "FeedMessage", again.value, msg)

\* Two messages are equal exactly when they rewrite to the same bytes, so the
\* guard's comparison is an equivalence and tells apart whatever a rule could:
\* what was read so far, what the rest of the bytes say on their own, and both.
EqualMeansTheSameBytes ==
  LET ways    == {msg} \cup {r.value : r \in {q \in {Onward(m) : m \in {msg, Empty}} : Reads(q)}}
      written == {[m |-> m, bytes |-> Rewritten(input.schema, "FeedMessage", m)] : m \in ways}
  IN  \A one, two \in written :
        equal_messages(input.schema, "FeedMessage", one.m, two.m) <=> one.bytes = two.bytes

\* Every getter of an enum answers a member of it, however the field was written
\* and how often (the closed enums of _set), at every depth: the name a rule asks
\* for is there, and _named and java_enum never raise.
RECURSIVE Named(_, _, _)
Named(schema, type, m) ==
  \A f \in FieldsOf(schema, type) :
    /\ f.kind = "enum" => get(m, f) \in schema.enums[f.type]
    /\ (f.kind = "message" /\ has(m, f.name)) =>
         IF f.label = "repeated"
         THEN \A i \in DOMAIN m.values[f.name] : Named(schema, f.type, m.values[f.name][i])
         ELSE Named(schema, f.type, m.values[f.name])

ValuesAreNamed == phase = "decoded" => Named(input.schema, "FeedMessage", msg)

\* Every field of 2015 as compat's getter and modern's have it.  Modern may read
\* a member that the enum of 2015 lacks; compat then has an earlier one or none.
RECURSIVE SameView(_, _, _)
SameView(type, old, new) ==
  \A f \in SCHEMA_2015.messages[type] :
    LET was == get(old, f)
        is  == get(new, CHOOSE g \in SCHEMA_CURRENT.messages[type] : g.name = f.name)
    IN  CASE f.kind = "message" /\ f.label = "repeated" ->
               Len(was) = Len(is) /\ \A i \in DOMAIN was : SameView(f.type, was[i], is[i])
          [] f.kind = "message" /\ f.label # "repeated" ->
               (has(old, f.name) <=> has(new, f.name)) /\ SameView(f.type, was, is)
          [] f.kind = "enum" -> is \in SCHEMA_2015.enums[f.type] => was = is
          [] OTHER -> (has(old, f.name) <=> has(new, f.name)) /\ was = is

\* One message, two views (tests/test_two_views.py): whatever modern can read,
\* compat can, and to every question the schema of 2015 knows both give one
\* answer, defaults included, except where the producer used a member younger than
\* the jar; and what compat alone can read holds something it does not know.  A
\* field renumbered, made required or given another default by the later schema
\* would part the two modes on a feed that uses nothing younger.
TwoViewsAgree ==
  input.schema = SCHEMA_CURRENT =>
    \A old \in {read(SCHEMA_2015, "FeedMessage", input.data, At(0, Empty))} :
      LET reads == Reads(old) /\ initialized(SCHEMA_2015, "FeedMessage", old.value)
      IN  /\ phase = "decoded" => reads /\ SameView("FeedMessage", old.value, msg)
          /\ phase = "refused" /\ reads => Known(SCHEMA_2015, "FeedMessage", old.value) # old.value
=============================================================================
