------------------------------- MODULE PbWire -------------------------------
(***************************************************************************)
(* The protobuf wire format of src/libs/nanopb/pb_decode.c and             *)
(* pb_encode.c, as far as gprotobuf.c uses it: input streams, varints,     *)
(* tags, fixed-width numbers and length-delimited parts.                   *)
(*                                                                         *)
(* The widths are constants: a byte is a continuation flag above a group   *)
(* of GroupBits bits, an int has IntBits and a long LongBits.  With 3, 8   *)
(* and 16 in place of 7, 32 and 64 the places where a number ends inside a *)
(* group are the same as in the code: once in an int (bit 28) and once in  *)
(* a long (bit 63).                                                        *)
(***************************************************************************)
EXTENDS Integers, Sequences, SequencesExt

CONSTANTS GroupBits, IntBits, LongBits

ASSUME PbWireAssumption ==
  /\ GroupBits \in Nat \ {0, 1, 2} /\ IntBits \in Nat /\ LongBits \in Nat
  /\ IntBits % (GroupBits + 1) = 0 /\ LongBits % (GroupBits + 1) = 0
  /\ IntBits % GroupBits # 0 /\ LongBits % GroupBits # 0 /\ IntBits < LongBits

(* The powers of two, which are what shifting by so many bits multiplies   *)
(* and divides by.                                                         *)
Pow2[n \in Nat] == IF n = 0 THEN 1 ELSE 2 * Pow2[n - 1]

Bytes == 0 .. Pow2[GroupBits + 1] - 1
More(byte) == byte >= Pow2[GroupBits]
Group(byte) == byte % Pow2[GroupBits]
Longs == 0 .. Pow2[LongBits] - 1

(* Two's complement: the number that bits stand for, and its bits.         *)
Signed(width, bits) == IF bits >= Pow2[width - 1] THEN bits - Pow2[width] ELSE bits
Bits(width, n) == n % Pow2[width]

(* The number with these digits of so many bits, the lowest first.         *)
FromDigits(digits, bits) ==
  LET lowest[n \in 0 .. Len(digits)] ==
        IF n = 0 THEN 0 ELSE lowest[n - 1] + digits[n] * Pow2[bits * (n - 1)]
  IN  lowest[Len(digits)]

-----------------------------------------------------------------------------
(* An input stream reads the bytes b: at of them are consumed, left is     *)
(* bytes_left.  over says that a read went beyond b's end in memory.  With *)
(* a callback (a GStream behind it) such a read fails instead.             *)
FromBuffer(b) == [at |-> 0, left |-> Len(b), callback |-> FALSE, over |-> FALSE]
FromStream(b, position) ==
  [at |-> position, left |-> Len(b), callback |-> TRUE, over |-> FALSE]

(* Every function below leaves a result: whether it succeeded, the stream, *)
(* and the value read.  Then continues with the value, or gives up.        *)
Ok(s, v) == [ok |-> TRUE, s |-> s, v |-> v]
Fail(s) == [ok |-> FALSE, s |-> s, v |-> 0]
Then(r, F(_, _)) == IF r.ok THEN F(r.s, r.v) ELSE r

Slice(b, from, count) == [i \in 1 .. count |-> IF from + i \in DOMAIN b THEN b[from + i] ELSE 0]

(* pb_read; a stream's callback consumes what there is before it fails.    *)
Read(b, s, count) ==
  LET missing == s.at + count > Len(b)
      next == [at |-> s.at + count, left |-> s.left - count, callback |-> s.callback,
               over |-> s.over \/ missing]
  IN  IF count = 0 THEN Ok(s, <<>>)
      ELSE IF s.left < count THEN Fail(s)
      ELSE IF s.callback /\ missing THEN Fail([s EXCEPT !.at = Len(b)])
      ELSE Ok(next, Slice(b, s.at, count))

ReadByte(b, s) == Then(Read(b, s, 1), LAMBDA t, bytes : Ok(t, bytes[1]))

-----------------------------------------------------------------------------
(* pb_decode_varint32: above its last bit an int may only go on with zeros *)
(* or with copies of its sign.                                             *)
LastLong == GroupBits * (LongBits \div GroupBits)
SignExtension(bitpos) ==
  IF bitpos < LastLong THEN Pow2[GroupBits + 1] - 1 ELSE Pow2[LongBits - LastLong] - 1

Extends(bitpos, result, byte) ==
  /\ bitpos < LongBits
  /\ Group(byte) = 0 \/ (result >= Pow2[IntBits - 1] /\ byte = SignExtension(bitpos))

Splits(bitpos, byte) ==
  LET kept == IntBits - bitpos
      above == Group(byte) \div Pow2[kept]
  IN  \/ kept >= GroupBits \/ above = 0
      \/ above = Pow2[GroupBits - kept] - 1 /\ (Group(byte) \div Pow2[kept - 1]) % 2 = 1

IntValid(bitpos, result, byte) ==
  IF bitpos >= IntBits THEN Extends(bitpos, result, byte) ELSE Splits(bitpos, byte)
IntSum(bitpos, result, byte) ==
  IF bitpos >= IntBits THEN result
  ELSE (result + Group(byte) * Pow2[bitpos]) % Pow2[IntBits]

(* pb_decode_varint                                                        *)
LongValid_Always(bitpos, byte) == TRUE
LongValid(bitpos, byte) == bitpos < LastLong \/ byte < Pow2[LongBits - LastLong]

(* The loop that reads an int or a long, or skips one: n rounds read n     *)
(* bytes, unless one is missing, is not valid behind the others, or is the *)
(* last.                                                                   *)
Valid(kind, bitpos, result, byte) ==
  CASE kind = "int"  -> IntValid(bitpos, result, byte)
    [] kind = "long" -> LongValid(bitpos, byte)
    [] kind = "skip" -> TRUE

Summed(kind, bitpos, result, byte) ==
  CASE kind = "int"  -> IntSum(bitpos, result, byte)
    [] kind = "long" -> result + Group(byte) * Pow2[bitpos]
    [] kind = "skip" -> 0

Round(kind, b, bitpos, r) ==
  LET read == ReadByte(b, r.s)
  IN  IF ~r.more THEN r
      ELSE IF read.ok /\ Valid(kind, bitpos, r.v, read.v)
      THEN [ok |-> TRUE, s |-> read.s, v |-> Summed(kind, bitpos, r.v, read.v),
            more |-> More(read.v)]
      ELSE [ok |-> FALSE, s |-> read.s, v |-> 0, more |-> FALSE]

DecodeVarint(kind, b, s) ==
  LET after[n \in 0 .. s.left + 1] ==
        IF n = 0 THEN [ok |-> TRUE, s |-> s, v |-> 0, more |-> TRUE]
        ELSE Round(kind, b, GroupBits * (n - 1), after[n - 1])
      r == after[s.left + 1]
  IN  [ok |-> r.ok, s |-> r.s, v |-> r.v]

DecodeInt(b, s) == DecodeVarint("int", b, s)
DecodeLong(b, s) == DecodeVarint("long", b, s)
SkipVarint(b, s) == DecodeVarint("skip", b, s)

(* pb_decode_svarint: zigzag                                               *)
DecodeSigned(b, s) ==
  Then(DecodeLong(b, s), LAMBDA t, v :
    Ok(t, IF v % 2 = 1 THEN -(v \div 2) - 1 ELSE v \div 2))

(* pb_decode_fixed32, pb_decode_fixed64: the lowest byte comes first.      *)
FixedBytes(width) == width \div (GroupBits + 1)
DecodeFixed(b, s, width) ==
  Then(Read(b, s, FixedBytes(width)), LAMBDA t, bytes :
    Ok(t, FromDigits(bytes, GroupBits + 1)))

(* pb_decode_tag: the wire type is in the lowest three bits.               *)
Varint == 0
Wide == 1
Delimited == 2
Narrow == 5
DecodeTag(b, s) ==
  Then(DecodeInt(b, s), LAMBDA t, v : Ok(t, [tag |-> v \div 8, wire |-> v % 8]))

(* pb_skip_field                                                           *)
SkipDelimited(b, s) == Then(DecodeInt(b, s), LAMBDA t, length : Read(b, t, length))

SkipField(b, s, wire) ==
  CASE wire = Varint    -> SkipVarint(b, s)
    [] wire = Wide      -> Read(b, s, FixedBytes(LongBits))
    [] wire = Delimited -> SkipDelimited(b, s)
    [] wire = Narrow    -> Read(b, s, FixedBytes(IntBits))
    [] OTHER            -> Fail(s)

(* pb_make_string_substream: the part of the stream that the length in     *)
(* front of it says; what it has is taken from its parent at once, and its *)
(* place when the part is closed.                                          *)
Substream_Unchecked(b, s) ==
  Then(DecodeInt(b, s), LAMBDA t, size :
    Ok([t EXCEPT !.left = IF @ < size THEN 0 ELSE @ - size], [t EXCEPT !.left = size]))
Substream(b, s) ==
  Then(DecodeInt(b, s), LAMBDA t, size :
    IF t.left < size THEN Fail(t)
    ELSE Ok([t EXCEPT !.left = @ - size], [t EXCEPT !.left = size]))

(* pb_close_string_substream                                               *)
CloseSubstream(b, s, sub) ==
  LET r == Read(b, sub, sub.left)
  IN  IF r.ok THEN Ok([s EXCEPT !.at = r.s.at, !.over = r.s.over], 0) ELSE Fail(s)

-----------------------------------------------------------------------------
(* pb_encode_varint: an int's worth of groups from the low half, then the  *)
(* group that both halves share, then the high half.                       *)
Digit(v, bits, i) == (v \div Pow2[bits * (i - 1)]) % Pow2[bits]

Going(group) == group + Pow2[GroupBits]
Groups(v) ==
  LET last == CHOOSE k \in 1 .. LongBits :
                /\ v < Pow2[GroupBits * k]
                /\ k > 1 => v >= Pow2[GroupBits * (k - 1)]
  IN  [i \in 1 .. last |-> IF i < last THEN Going(Digit(v, GroupBits, i))
                           ELSE Digit(v, GroupBits, i)]

LowGroups == IntBits \div GroupBits
EncodeLong(v) ==
  LET low == v % Pow2[IntBits]
      high == v \div Pow2[IntBits]
      shared == Pow2[GroupBits * (LowGroups + 1) - IntBits]
      middle == (low \div Pow2[GroupBits * LowGroups])
                  + (high % shared) * Pow2[IntBits - GroupBits * LowGroups]
      begin == [i \in 1 .. LowGroups |-> Going(Digit(low, GroupBits, i))]
  IN  IF high = 0 THEN Groups(low)
      ELSE begin \o (IF high < shared THEN <<middle>>
                     ELSE <<Going(middle)>> \o Groups(high \div shared))

(* pb_encode_svarint: zigzag, with the sign's bit masked out first.        *)
EncodeSigned_Unmasked(n) ==
  EncodeLong(IF n >= 0 THEN Bits(LongBits, 2 * n)
             ELSE Pow2[LongBits] - 1 - 2 * (-n))
EncodeSigned(n) ==
  EncodeLong(IF n >= 0 THEN Bits(LongBits, 2 * n)
             ELSE Pow2[LongBits] - 1 - 2 * (Bits(LongBits, n) % Pow2[LongBits - 1]))

(* pb_encode_fixed32, pb_encode_fixed64                                    *)
EncodeFixed(bits, width) ==
  [i \in 1 .. FixedBytes(width) |-> Digit(bits, GroupBits + 1, i)]

EncodeTag(wire, tag) == EncodeLong(tag * 8 + wire)

-----------------------------------------------------------------------------
(* Reference: the number that the groups of a varint spell, and whether it *)
(* ends within the bytes a long can have.                                  *)
Spelled(bytes) == FromDigits([i \in DOMAIN bytes |-> Group(bytes[i])], GroupBits)

Complete(bytes) ==
  /\ bytes # <<>> /\ ~More(Last(bytes))
  /\ \A i \in 1 .. Len(bytes) - 1 : More(bytes[i])

LongestVarint == LongBits \div GroupBits + 1
=============================================================================
