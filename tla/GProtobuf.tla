----------------------------- MODULE GProtobuf -----------------------------
(***************************************************************************)
(* GProtobuf (src/src/gprotobuf.c): messages decoded from bytes, encoded,  *)
(* and converted to JSON and back, by a registry of message types.  Memory *)
(* may run out: the allocation number fail_at is refused.                  *)
(*                                                                         *)
(* A message is the sequence of its fields' values, by tag.  A value has a *)
(* type and the sequence v: one number, the bytes of a string, the items   *)
(* of a repeated field, or the values of a message.                        *)
(***************************************************************************)
EXTENDS PbWire

CONSTANT Types    \* the registry: from a name to the fields of its tags
(* A field has a kind ("none": the tag has no field), and says whether it  *)
(* is repeated, the type of its sub-message, and the v of its default.     *)

Value(type, v) == [type |-> type, v |-> v]
NULL == Value("NULL", <<>>)
Number(type, n) == Value(type, <<n>>)
Undefined == -1          \* a byte of memory that was never written
NullString == <<-2>>     \* the default of a string field that has none

RECURSIVE Objects(_)
ObjectsOf(values) == FoldLeft(LAMBDA n, value : n + Objects(value), 0, values)
(* The allocations that a value owns; a default string is not its own.     *)
Objects(value) ==
  CASE value.type = "NULL"                -> 0
    [] value.type \in {"Str", "Array"}    -> 2
    [] value.type = "PtrArray"            -> 2 + ObjectsOf(value.v)
    [] value.type = "Message"             -> 3 + ObjectsOf(value.v)
    [] OTHER                              -> 1

-----------------------------------------------------------------------------
(* What decoding goes on with: the stream, how many allocations were made, *)
(* how many are alive, and whether a NULL or wild pointer was used.        *)
Decoder(stream, fail_at) ==
  [in |-> stream, calls |-> 0, fail_at |-> fail_at, live |-> 0, crashed |-> FALSE]

(* A result of the wire, in the decoder that asked for it.                 *)
Wire(st, r) == [r EXCEPT !.s = [st EXCEPT !.in = r.s]]
Grow(st) ==
  LET t == [st EXCEPT !.calls = @ + 1]
  IN  IF t.calls = t.fail_at THEN Fail(t) ELSE Ok(t, 0)
Allocate(st) == Then(Grow(st), LAMBDA t, none : Ok([t EXCEPT !.live = @ + 1], 0))
Crash(st) == Fail([st EXCEPT !.crashed = TRUE])

(* Failing with so many allocations freed, or with the values that the     *)
(* message has so far.                                                     *)
OrFrees(r, count) == IF r.ok THEN r ELSE [r EXCEPT !.s.live = @ - count]
OrKeeps(r, values) == IF r.ok THEN r ELSE [r EXCEPT !.v = values]

(* g_value_set(g_value_new(), ...) of a payload that owned allocations     *)
(* belong to, which are freed, or not, when there is no value for it.      *)
NewValue(st, value, owned) ==
  Then(OrFrees(Allocate(st), owned), LAMBDA t, none : Ok(t, value))

-----------------------------------------------------------------------------
(* _decode_field_*: what a kind of field reads, and the value it makes.    *)
Numeric == {"bool", "int32", "uint32", "int64", "sint", "fixed32", "float",
            "fixed64", "double"}

ReadNumber(b, s, kind) ==
  CASE kind \in {"bool", "int32", "uint32"} -> DecodeInt(b, s)
    [] kind = "int64"                       -> DecodeLong(b, s)
    [] kind = "sint"                        -> DecodeSigned(b, s)
    [] kind \in {"fixed32", "float"}        -> DecodeFixed(b, s, IntBits)
    [] OTHER                                -> DecodeFixed(b, s, LongBits)

NumberOf(kind, v) ==
  CASE kind = "bool"                  -> Number("Bool", IF v # 0 THEN 1 ELSE 0)
    [] kind \in {"int32", "fixed32"}  -> Number("Int", Signed(IntBits, v))
    [] kind \in {"int64", "fixed64"}  -> Number("Long", Signed(LongBits, v))
    [] kind \in {"float", "double"}   -> Number("Double", v)
    [] OTHER                          -> Number("Long", v)

DecodeNumber(b, st, kind) ==
  Then(Wire(st, ReadNumber(b, st.in, kind)), LAMBDA t, v : NewValue(t, NumberOf(kind, v), 0))

(* A string or bytes.  The result of pb_read is not looked at: what cannot *)
(* be read stays undefined.                                                *)
WhateverRead(r, length) ==
  Ok(r.s, IF r.ok THEN r.v ELSE [i \in 1 .. length |-> Undefined])
Contents(b, st, length) == WhateverRead(Wire(st, Read(b, st.in, length)), length)

DecodeBytes(b, st) ==
  Then(Wire(st, DecodeInt(b, st.in)), LAMBDA t, length :
    Then(Allocate(t), LAMBDA u, none :
      Then(IF length = 0 THEN Ok(u, 0) ELSE Grow(u), LAMBDA w, room :
        Then(Contents(b, w, length), LAMBDA x, bytes :
          NewValue(x, Value("Array", bytes), 0)))))

(* length + 1 wraps to 0 for the greatest length.                          *)
DecodeString(b, st) ==
  Then(Wire(st, DecodeInt(b, st.in)), LAMBDA t, length :
    Then(Allocate(t), LAMBDA u, none :
      IF length + 1 = Pow2[IntBits] THEN Crash(u)
      ELSE Then(Contents(b, u, length), LAMBDA w, bytes :
             NewValue(w, Value("Str", bytes), 1))))

(* _ensure_field_repeated                                                  *)
EnsureRepeated(st, values, tag) ==
  IF values[tag] # NULL THEN Ok(st, values)
  ELSE OrKeeps(Then(Allocate(st), LAMBDA t, none :
                 Then(NewValue(t, Value("PtrArray", <<>>), 1), LAMBDA u, array :
                   Ok(u, [values EXCEPT ![tag] = array]))),
               values)

Appended(r, values, tag, value) ==
  [r EXCEPT !.v = IF r.ok THEN [values EXCEPT ![tag].v = Append(@, value)] ELSE values]
AddItem(st, values, tag, value) ==
  OrFrees(Then(EnsureRepeated(st, values, tag), LAMBDA t, begun :
            Appended(Grow(t), begun, tag, value)),
          Objects(value))

(* _decode_packed                                                          *)
RECURSIVE PackedItems(_, _, _, _, _)
PackedItems(b, st, kind, values, tag) ==
  IF st.in.left = 0 THEN Ok(st, values)
  ELSE Then(OrKeeps(DecodeNumber(b, st, kind), values), LAMBDA t, value :
         Then(AddItem(t, values, tag, value), LAMBDA u, more :
           PackedItems(b, u, kind, more, tag)))

DecodePacked_ItsOwnPlace(b, st, kind, values, tag) ==
  Then(OrKeeps(Wire(st, Substream(b, st.in)), values), LAMBDA t, sub :
    Then(EnsureRepeated(t, values, tag), LAMBDA u, begun :
      Then(PackedItems(b, [u EXCEPT !.in = sub], kind, begun, tag), LAMBDA w, all :
        Ok([w EXCEPT !.in = t.in], all))))
DecodePacked(b, st, kind, values, tag) ==
  Then(OrKeeps(Wire(st, Substream(b, st.in)), values), LAMBDA t, sub :
    Then(EnsureRepeated(t, values, tag), LAMBDA u, begun :
      Then(PackedItems(b, [u EXCEPT !.in = sub], kind, begun, tag), LAMBDA w, all :
        [Wire(w, CloseSubstream(b, t.in, w.in)) EXCEPT !.v = all])))

(* The values of fields that did not come.                                 *)
Default(field) ==
  CASE field.kind = "string"              -> Value("Default", field.default)
    [] field.kind \in {"double", "float"} -> Value("Double", field.default)
    [] OTHER                              -> Value("Long", field.default)

Filled(values, tag, r) == Ok(r.s, IF r.ok THEN [values EXCEPT ![tag] = r.v] ELSE values)
Defaults(st, fields, values) ==
  LET fill(r, tag) ==
        IF \/ fields[tag].kind \in {"none", "message", "bytes"} \/ fields[tag].repeated
           \/ values[tag] # NULL THEN r
        ELSE Filled(r.v, tag, NewValue(r.s, Default(fields[tag]), 0))
  IN  FoldLeft(fill, Ok(st, values), [tag \in DOMAIN fields |-> tag])

-----------------------------------------------------------------------------
(* _decode: fields are read until no tag can be.  A value that comes again *)
(* takes the place of the one before, which nobody frees.                  *)
RECURSIVE DecodeMessage(_, _, _)

(* Freeing a message frees its values, their array and itself.             *)
OrFreesMessage(r, values) == OrFrees(r, 2 + ObjectsOf(values))

DecodeSub(b, st, field) ==
  Then(Wire(st, Substream(b, st.in)), LAMBDA t, sub :
    Then(DecodeMessage(b, [t EXCEPT !.in = sub], field.sub), LAMBDA u, values :
      Then(OrFreesMessage(Wire(u, CloseSubstream(b, t.in, u.in)), values), LAMBDA w, none :
        NewValue(w, Value("Message", values), 2 + ObjectsOf(values)))))

DecodeValue(b, st, field, wire) ==
  CASE field.kind \in Numeric -> DecodeNumber(b, st, field.kind)
    [] wire # Delimited       -> Fail(st)
    [] field.kind = "bytes"   -> DecodeBytes(b, st)
    [] field.kind = "string"  -> DecodeString(b, st)
    [] OTHER                  -> DecodeSub(b, st, field)

DecodeField(b, st, field, tag, wire, values) ==
  IF field.kind \in Numeric /\ wire = Delimited
  THEN DecodePacked(b, st, field.kind, values, tag)
  ELSE Then(OrKeeps(DecodeValue(b, st, field, wire), values), LAMBDA t, value :
         IF field.repeated THEN AddItem(t, values, tag, value)
         ELSE Ok(t, [values EXCEPT ![tag] = value]))

RECURSIVE DecodeFields(_, _, _, _)
AfterTag(b, r, fields, values) ==
  IF ~r.ok THEN Defaults(r.s, fields, values)
  ELSE IF r.v.tag > Len(fields) THEN OrKeeps(Fail(r.s), values)
  ELSE IF r.v.tag = 0 \/ fields[r.v.tag].kind = "none" THEN OrKeeps(Crash(r.s), values)
  ELSE Then(DecodeField(b, r.s, fields[r.v.tag], r.v.tag, r.v.wire, values),
            LAMBDA t, more : DecodeFields(b, t, fields, more))
DecodeFields(b, st, fields, values) ==
  AfterTag(b, Wire(st, DecodeTag(b, st.in)), fields, values)

(* A new message, its array of values with their slots, and its fields;    *)
(* freed by its caller if it cannot be decoded.  A type that is not        *)
(* registered is NULL.                                                     *)
Begin(st, name) ==
  Then(Allocate(st), LAMBDA t, message :
    IF name \notin DOMAIN Types THEN Crash(t)
    ELSE Then(OrFrees(Allocate(t), 1), LAMBDA u, array : OrFrees(Grow(u), 2)))

FreeUndecoded_KeepsValues(r) == OrFrees(r, 2)
FreeUndecoded(r) == OrFreesMessage(r, r.v)
DecodeInto(b, begun, type) ==
  IF ~begun.ok THEN begun
  ELSE FreeUndecoded(DecodeFields(b, begun.s, type, [tag \in DOMAIN type |-> NULL]))

DecodeMessage(b, st, name) == DecodeInto(b, Begin(st, name), Types[name])

(* g_pb_message_decode_buffer and g_pb_message_decode_stream               *)
DecodeBuffer(name, b, fail_at) ==
  IF b = <<>> \/ name \notin DOMAIN Types THEN Fail(Decoder(FromBuffer(b), fail_at))
  ELSE DecodeMessage(b, Decoder(FromBuffer(b), fail_at), name)
DecodeStream(name, b, position, fail_at) ==
  IF name \notin DOMAIN Types THEN Fail(Decoder(FromStream(b, position), fail_at))
  ELSE DecodeMessage(b, Decoder(FromStream(b, position), fail_at), name)

-----------------------------------------------------------------------------
(* g_value_int, g_value_long and g_value_bool of what a field of an        *)
(* integer kind can hold, which is never a double.                         *)
AsLong(value) ==
  IF value.type \in {"Bool", "Int", "Long"} THEN value.v[1] ELSE 0
AsInt(value) == Signed(IntBits, Bits(IntBits, AsLong(value)))
AsBool(value) ==
  IF value.type \in {"Bool", "Int", "Long", "Double"} THEN Bits(1, IF value.v[1] # 0 THEN 1 ELSE 0)
  ELSE IF value.type = "NULL" THEN 0 ELSE 1

(* g_len: a string ends at its first zero; a NULL string has no end.       *)
UpToZero(bytes) ==
  LET zeros == {i \in DOMAIN bytes : bytes[i] = 0}
  IN  SelectSeq([i \in DOMAIN bytes |-> <<i, bytes[i]>>],
                LAMBDA e : \A z \in zeros : e[1] < z)
CString(value) == LET t == UpToZero(value.v) IN [i \in DOMAIN t |-> t[i][2]]

WireType(kind) ==
  CASE kind \in {"double", "fixed64"}            -> Wide
    [] kind \in {"float", "fixed32"}             -> Narrow
    [] kind \in {"string", "bytes", "message"}   -> Delimited
    [] OTHER                                     -> Varint

WithLength(bytes) == EncodeLong(Len(bytes)) \o bytes

(* _encode_one and _encode; a fixed64 goes through g_value_int.            *)
RECURSIVE Encode(_, _)

Payload(field, value) ==
  CASE field.kind = "double"  -> EncodeFixed(value.v[1], LongBits)
    [] field.kind = "fixed64" -> EncodeFixed(Bits(LongBits, AsInt(value)), LongBits)
    [] field.kind = "float"   -> EncodeFixed(value.v[1], IntBits)
    [] field.kind = "fixed32" -> EncodeFixed(Bits(IntBits, AsInt(value)), IntBits)
    [] field.kind = "string"  -> WithLength(CString(value))
    [] field.kind = "bytes"   -> WithLength(value.v)
    [] field.kind = "message" -> WithLength(Encode(Types[field.sub], value.v))
    [] field.kind = "bool"    -> EncodeLong(AsBool(value))
    [] field.kind = "sint"    -> EncodeSigned(AsLong(value))
    [] OTHER                  -> EncodeLong(Bits(LongBits, AsLong(value)))

EncodeOne(field, tag, value) ==
  EncodeTag(WireType(field.kind), tag) \o Payload(field, value)

Encode(fields, values) ==
  FlattenSeq([tag \in DOMAIN fields |->
    CASE values[tag] = NULL   -> <<>>
      [] fields[tag].repeated ->
           FlattenSeq([i \in DOMAIN values[tag].v |->
                         EncodeOne(fields[tag], tag, values[tag].v[i])])
      [] OTHER                -> EncodeOne(fields[tag], tag, values[tag])])

-----------------------------------------------------------------------------
(* _to_json and g_pb_json_to_message.  A JSON object has a member for each *)
(* tag (its name is the field's), NULL where there is none; the value that *)
(* a single sub-message is written into is not an object yet, so nothing   *)
(* can be set in it.                                                       *)
RECURSIVE ToJson(_, _)
Member(field, value) ==
  CASE value = NULL -> Ok(0, NULL)
    [] field.repeated /\ field.kind = "message" ->
         LET items == [i \in DOMAIN value.v |-> ToJson(Types[field.sub], value.v[i].v)]
         IN  IF \E i \in DOMAIN items : ~items[i].ok THEN Fail(0)
             ELSE Ok(0, Value("PtrArray", [i \in DOMAIN items |-> items[i].v]))
    [] ~field.repeated /\ field.kind = "message" ->
         IF \A tag \in DOMAIN value.v : value.v[tag] = NULL
         THEN Ok(0, Value("Null", <<>>)) ELSE Fail(0)
    [] OTHER -> Ok(0, value)

ToJson(fields, values) ==
  LET members == [tag \in DOMAIN fields |-> Member(fields[tag], values[tag])]
  IN  IF \E tag \in DOMAIN fields : ~members[tag].ok THEN Fail(0)
      ELSE Ok(0, Value("Map", [tag \in DOMAIN fields |-> members[tag].v]))

RECURSIVE FromJson(_, _)
FromJsonField(field, json) ==
  IF field.kind = "message" THEN Value("Message", FromJson(Types[field.sub], json))
  ELSE json

FromJson(fields, json) ==
  [tag \in DOMAIN fields |->
     IF json.type # "Map" \/ fields[tag].kind = "none" THEN NULL
     ELSE LET member == json.v[tag]
          IN  CASE member = NULL -> NULL
                [] fields[tag].repeated ->
                     Value("PtrArray", [i \in DOMAIN member.v |->
                                          FromJsonField(fields[tag], member.v[i])])
                [] OTHER -> FromJsonField(fields[tag], member)]
=============================================================================
