------------------------------- MODULE Codecs -------------------------------
(***************************************************************************)
(* The pure functions of gef-core and of the libraries it is built with,   *)
(* applied to inputs that grow item by item: varints (WireFormat),         *)
(* messages (GProtobuf), strings and bytes (StringHelpers), and conversions*)
(* of numbers (Printf).                                                    *)
(* What each function must compute is said by definitions that are not     *)
(* made from its code.                                                     *)
(***************************************************************************)
EXTENDS WireFormat, GProtobuf, StringHelpers

CONSTANTS
  MaxParts,       \* bound: fields in a message
  MaxCalls        \* bound: the allocations that may be the one that fails

ASSUME CodecsAssumption ==
  MaxParts \in Nat /\ MaxCalls \in Nat

-----------------------------------------------------------------------------
(* Two types of messages with every kind of field, and a tag without one.  *)
Field(kind, repeated, sub, default) ==
  [kind |-> kind, repeated |-> repeated, sub |-> sub, default |-> default]
Plain(kind) == Field(kind, FALSE, "none", <<0>>)
Outer ==
  <<Field("int32", FALSE, "none", <<3>>), Field("int64", TRUE, "none", <<0>>),
    Field("string", FALSE, "none", <<5>>), Plain("bytes"),
    Field("message", FALSE, "inner", <<0>>), Plain("none"),
    Field("message", TRUE, "inner", <<0>>), Plain("sint"), Plain("fixed32"),
    Plain("double"), Field("string", TRUE, "none", <<>>),
    Field("message", FALSE, "unknown", <<0>>)>>
Inner == <<Plain("bool"), Plain("fixed64"), Plain("float"), Plain("uint32")>>
Schema == [outer |-> Outer, inner |-> Inner]

Texts == {3, 4, 11}

(* Fields on the wire, with what a client reads in them, one for each item *)
(* if the field is repeated: well formed ones; ones with the wrong wire    *)
(* type and with a tag behind the last; ones of a type that is not         *)
(* registered, with a tag that only a hole has, and with lengths that are  *)
(* too great.                                                              *)
Part(wire, tag, payload, means) ==
  [tag |-> tag, bytes |-> EncodeTag(wire, tag) \o payload, means |-> means,
   kept |-> means]
InnerBytes(wide) ==
  EncodeTag(Varint, 1) \o <<1>> \o EncodeTag(Wide, 2) \o EncodeFixed(wide, LongBits)
InnerMeans(wide) == <<<<1>>, <<wide>>, <<0>>, <<0>>>>

(* A fixed64 that is no int: its low bits are kept when it is encoded.     *)
TooWide(part, kept) == [part EXCEPT !.kept = kept]
WellFormed ==
  {Part(Varint, 1, EncodeLong(Bits(LongBits, -3)), <<-3>>),
   Part(Delimited, 2, WithLength(EncodeLong(300) \o EncodeLong(7)), <<<<300>>, <<7>>>>),
   Part(Varint, 2, EncodeLong(Bits(LongBits, -1)), <<<<-1>>>>),
   Part(Delimited, 3, WithLength(<<1, 2>>), <<1, 2>>),
   Part(Delimited, 4, WithLength(<<0, 9>>), <<0, 9>>),
   Part(Delimited, 5, WithLength(InnerBytes(100)), InnerMeans(100)),
   Part(Delimited, 5, WithLength(<<>>), <<<<0>>, <<0>>, <<0>>, <<0>>>>),
   TooWide(Part(Delimited, 7, WithLength(InnerBytes(200)), <<InnerMeans(200)>>),
           <<InnerMeans(-56)>>),
   Part(Varint, 8, EncodeSigned(-100), <<-100>>),
   Part(Narrow, 9, EncodeFixed(Bits(IntBits, -2), IntBits), <<-2>>),
   Part(Wide, 10, EncodeFixed(4660, LongBits), <<4660>>),
   Part(Delimited, 11, WithLength(<<6>>), <<<<6>>>>)}
Refused == {Part(Varint, 3, <<1>>, <<>>), Part(Varint, 20, <<1>>, <<>>)}
Malformed ==
  {Part(Delimited, 12, WithLength(<<>>), <<>>), Part(Varint, 6, <<1>>, <<>>),
   Part(Varint, 0, <<1>>, <<>>), Part(Delimited, 2, <<3, 15>>, <<>>),
   Part(Delimited, 5, <<4>> \o EncodeTag(Varint, 1) \o <<1>>, <<>>)}

(* What strings are made of, what is looked for in them, and what is put   *)
(* in its place.                                                           *)
Typed == {"a", "n", "u", " ", Quote, Backslash}
Sought == UNION {[1 .. n -> {"a", " "}] : n \in 1 .. 2}
Added == {<<>>, <<"n">>, <<"n", "n", "n">>, <<"n", "n", "n", "n", "n">>}

(* Conversions of a number and of a fraction in sixteenths.                *)
Flags == {"left", "zero", "plus", "space", "hash"}
Widths == {0, 1, 4, 6}
IntDirectives ==
  {Conversion(conv, flags \cup p[2], width, p[1]) :
     conv \in {"d", "u", "x", "o", "b"}, flags \in SUBSET Flags, width \in Widths,
     p \in {<<0, {}>>, <<0, {"prec"}>>, <<3, {"prec"}>>}}
FractionDirectives ==
  {Conversion("f", flags \cup p[2], width, p[1]) :
     flags \in SUBSET (Flags \ {"hash"}), width \in Widths,
     p \in {<<0, {}>>, <<0, {"prec"}>>, <<1, {"prec"}>>, <<3, {"prec"}>>, <<6, {"prec"}>>}}
Ints == {0, 1, -1, 7, 8, 10, 100, 127, -128}
Sixteenths == {0, 1, -1, 7, 8, 15, 16, 24, 31, 40, -40, 159, 1599}

-----------------------------------------------------------------------------
Init ==
  /\ WireInit
  /\ subject \in {"varint", "message", "string", "bytes", "int", "fraction"}

Next ==
  \/ ExtendVarint
  \/ subject = "message" /\ Extend(MaxParts, WellFormed \cup Refused \cup Malformed)
  \/ ExtendString
  \/ ExtendBytes
  \/ subject = "int" /\ Extend(2, IF input = <<>> THEN IntDirectives ELSE Ints)
  \/ subject = "fraction" /\ Extend(2, IF input = <<>> THEN FractionDirectives ELSE Sixteenths)

Spec == Init /\ [][Next]_vars

-----------------------------------------------------------------------------
(* Messages.                                                               *)
Encoded(parts) == FlattenSeq([i \in DOMAIN parts |-> parts[i].bytes])
Tags(parts) == [i \in DOMAIN parts |-> parts[i].tag]
IsRepeated(tag) == tag \in DOMAIN Outer /\ Outer[tag].repeated
OnceEach(parts) ==
  \A i, j \in DOMAIN parts :
    i # j /\ parts[i].tag = parts[j].tag => IsRepeated(parts[i].tag)

MalformedLast(parts) ==
  \A i \in 1 .. Len(parts) - 1 : parts[i] \notin Malformed

(* What a client reads in a value: of a NULL and of an empty repeated      *)
(* field nothing, of a string the characters, of a number the number.      *)
RECURSIVE Meaning(_)
Meaning(value) ==
  CASE value.type \in {"Message", "PtrArray"} ->
         [i \in DOMAIN value.v |-> Meaning(value.v[i])]
    [] OTHER -> value.v

(* Alive is the message, which has 2 allocations besides its values.       *)
IsAccounted(r, may_crash) ==
  /\ ~r.s.in.over
  /\ IF r.s.crashed THEN may_crash
     ELSE r.s.live = IF r.ok THEN 2 + ObjectsOf(r.v) ELSE 0

(* What an allocation, decoding or failing at any point, leaves in memory  *)
(* is the message that was returned, and nothing when none was; no byte    *)
(* behind the end is read, and fields with a known tag and the right       *)
(* length do not crash the program, until they are cut inside a string,    *)
(* whose rest is read as a tag.  Left out are the two leaks of the code: a *)
(* value that comes a second time, and a bytes field for which memory runs *)
(* out.  A part that is malformed comes last, as it may swallow others.    *)
MessagesAccounted ==
  subject = "message" /\ OnceEach(input) /\ MalformedLast(input) =>
    LET b == Encoded(input)
    IN  \A end \in (IF Len(input) < MaxParts THEN 0 ELSE Len(b)) .. Len(b),
           fail_at \in 0 .. IF 4 \in ToSet(Tags(input)) THEN 0 ELSE MaxCalls :
          IsAccounted(DecodeBuffer("outer", SubSeq(b, 1, end), fail_at),
                      \/ ToSet(input) \cap Malformed # {}
                      \/ end < Len(b) /\ ToSet(Tags(input)) \cap Texts # {})

(* What fields must mean: the last of them, all their items, the default.  *)
Expected(parts) ==
  [tag \in DOMAIN Outer |->
    LET of == SelectSeq(parts, LAMBDA part : part.tag = tag)
    IN  CASE Outer[tag].repeated -> FlattenSeq([i \in DOMAIN of |-> of[i].means])
          [] of # <<>>           -> Last(of).means
          [] Outer[tag].kind \in {"none", "message", "bytes"} -> <<>>
          [] OTHER               -> Outer[tag].default]

Means(values) == [tag \in DOMAIN values |-> Meaning(values[tag])]
Expects(r, parts) == r.ok /\ Means(r.v) = Expected(parts)

FromItsBytes(values) == DecodeBuffer("outer", Encode(Outer, values), 0)
FromItsJson(r) == IF r.ok THEN Ok(0, FromJson(Outer, r.v)) ELSE r
HasSingleSub(parts) == 5 \in ToSet(Tags(parts))

Kept(parts) == [i \in DOMAIN parts |-> [parts[i] EXCEPT !.means = parts[i].kept]]

(* The fields, and what is read again of their encoding and their JSON.    *)
MessageMeans(r, parts) ==
  /\ Expects(r, parts)
  /\ Expects(FromItsBytes(r.v), Kept(parts))
  /\ IF HasSingleSub(parts) THEN ~ToJson(Outer, r.v).ok
     ELSE Expects(FromItsJson(ToJson(Outer, r.v)), parts)

(* A message of well-formed fields is decoded to what they mean, in any    *)
(* order, packed or one by one, from a buffer or behind other things in a  *)
(* stream; what is encoded from it, and the JSON object made of it, unless *)
(* it has a single sub-message, are read as the same message again, but    *)
(* for a fixed64 that no int can hold: of that the encoding keeps the low  *)
(* bits of an int, and their sign (gprotobuf.c:534).                       *)
MessagesMeanTheSame ==
  subject = "message" /\ input # <<>> /\ ToSet(input) \subseteq WellFormed =>
    /\ MessageMeans(DecodeBuffer("outer", Encoded(input), 0), input)
    /\ Expects(DecodeStream("outer", <<8, 0>> \o Encoded(input), 2, 0), input)

-----------------------------------------------------------------------------
(* Conversions, as the C standard has them.                                *)
Numeral(n, base) ==
  LET from[v \in 0 .. n] ==
        (IF v < base THEN <<>> ELSE from[v \div base]) \o <<Digits[(v % base) + 1]>>
  IN  from[n]
AtLeast(digits, n) == Copies("0", n - Len(digits)) \o digits

SignOf(n, flags) ==
  IF n < 0 THEN <<"-">>
  ELSE IF "plus" \in flags THEN <<"+">> ELSE IF "space" \in flags THEN <<" ">> ELSE <<>>

(* An int.  Where the code goes its own way it is not compared: precision  *)
(* with the flag -, and the prefix of the flag # with a width or in octal. *)
Standard(d) ==
  /\ "left" \in d.flags => d.prec = 0
  /\ "hash" \in d.flags => d.conv \notin {"x", "o", "b"} \/ (d.width = 0 /\ d.conv # "o")

IntText(d, n) ==
  LET value == IF d.conv = "d" THEN IF n < 0 THEN -n ELSE n ELSE Bits(IntBits, n)
      base == CASE d.conv = "x" -> 16 [] d.conv = "o" -> 8 [] d.conv = "b" -> 2 [] OTHER -> 10
      digits == IF "prec" \notin d.flags THEN Numeral(value, base)
                ELSE IF value = 0 /\ d.prec = 0 THEN <<>>
                ELSE AtLeast(Numeral(value, base), d.prec)
      prefix == IF d.conv = "d" THEN SignOf(n, d.flags)
                ELSE IF "hash" \in d.flags /\ base \in {2, 16} /\ value # 0 THEN <<"0", d.conv>>
                ELSE <<>>
  IN  Layout(prefix, digits, d.width,
             IF "prec" \in d.flags THEN d.flags \ {"zero"} ELSE d.flags)

(* The int is read again by g_parse, and a width of its own, negative or   *)
(* not, takes one argument.                                                *)
IntExact(d, n) ==
  LET text == Format(<<d>>, <<n>>)
      plain == "hash" \notin d.flags
      star == [d EXCEPT !.star = TRUE, !.width = 0]
  IN  /\ Standard(d) => text = IntText(d, n)
      /\ d.conv = "d" /\ plain => Parse(text, "!", 10) = n
      /\ d.conv = "x" /\ plain => Parse(text, "!", 16) = Bits(IntBits, n)
      /\ Format(<<star, Literal("!"), d>>, <<d.width, n, n>>) = text \o <<"!">> \o text
      /\ Format(<<star>>, <<-d.width, n>>) =
           Format(<<IF d.width = 0 THEN d ELSE [d EXCEPT !.flags = @ \cup {"left"}]>>, <<n>>)

(* A fraction is one of the nearest with the digits that were asked for;   *)
(* those that are not computed are zeros.  Without a precision the zeros   *)
(* at the end are left out, and zero padding is not compared.              *)
Decimal(k, prec, zeros) ==
  Numeral(k \div 10 ^ prec, 10)
    \o (IF prec + zeros = 0 THEN <<>> ELSE <<".">>)
    \o (IF prec = 0 THEN <<>> ELSE AtLeast(Numeral(k % 10 ^ prec, 10), prec))
    \o Copies("0", zeros)

Shortened(text) ==
  LET kept == {i \in DOMAIN text : \E k \in i .. Len(text) : text[k] \notin {"0", "."}}
      point == SelectInSeq(text, LAMBDA c : c = ".")
  IN  SubSeq(text, 1, Max({Cardinality(kept), point - 1}))

FractionExact(d, n) ==
  LET asked == IF "prec" \in d.flags THEN d.prec ELSE DefaultPrecision
      prec == Min({asked, MaxPrecision})
      abs == IF n < 0 THEN -n ELSE n
      below == (abs * 10 ^ prec) \div 16
      nearest == {k \in {below, below + 1} :
                    2 * (16 * k - abs * 10 ^ prec) \in -16 .. 16}
      Body(k) == LET text == Decimal(k, prec, asked - prec)
                 IN  IF "prec" \in d.flags THEN text ELSE Shortened(text)
  IN  "prec" \in d.flags \/ "zero" \notin d.flags =>
        \E k \in nearest :
          Format(<<d>>, <<n>>) = Layout(SignOf(n, d.flags), Body(k), d.width, d.flags)

(* The formatter behind g_format and the GString writes what the C         *)
(* standard says of its conversions of numbers, their flags, widths and    *)
(* precisions, and snprintf_ cuts off what has no room, with a zero in its *)
(* place (printf.c).                                                       *)
PrintfExact ==
  subject \in {"int", "fraction"} /\ Len(input) = 2 =>
    /\ subject = "int" => IntExact(input[1], input[2])
    /\ subject = "fraction" => FractionExact(input[1], input[2])
    /\ FitsExactly(Format(<<input[1]>>, <<input[2]>>))
=============================================================================
