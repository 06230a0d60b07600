----------------------------- MODULE WireFormat -----------------------------
(***************************************************************************)
(* Numbers on the wire (PbWire): an input that grows byte by byte is read  *)
(* as a varint and skipped, and the number it spells is written in every   *)
(* form and read again.                                                    *)
(***************************************************************************)
EXTENDS PbWire, Inputs

CONSTANTS
  Octets,         \* the bytes of a varint
  MaxVarint       \* bound: their number

ASSUME WireFormatAssumption == Octets \subseteq Bytes /\ MaxVarint \in Nat

-----------------------------------------------------------------------------
(* A varint ends with the first byte that says so.                         *)
ExtendVarint ==
  /\ subject = "varint"
  /\ input # <<>> => More(Last(input))
  /\ Extend(MaxVarint, Octets)

(* The inputs of other functions grow as they will.                        *)
WireInit == input = <<>>
WireNext == ExtendVarint \/ (subject # "varint" /\ UNCHANGED subject)
WireSpec == WireInit /\ [][WireNext]_vars

-----------------------------------------------------------------------------
Consumes(r, b) == r.ok /\ r.s.at = Len(b) /\ r.s.left = 0
Rereads(r, b, v) == r.v = v /\ Consumes(r, b)

(* What is read from the bytes b, and that nothing behind their end is.    *)
ReadsExactly(b) ==
  LET long == DecodeLong(b, FromBuffer(b))
      int == DecodeInt(b, FromBuffer(b))
      skipped == SkipVarint(b, FromBuffer(b))
  IN  /\ long.ok <=> /\ Complete(b) /\ Len(b) <= LongestVarint
                     /\ Spelled(b) \in Longs
      /\ long.ok => Rereads(long, b, Spelled(b))
      /\ long.ok /\ Spelled(b) < Pow2[IntBits] => int.ok
      /\ int.ok => Rereads(int, b, Bits(IntBits, Spelled(b)))
      /\ skipped.ok <=> Complete(b)
      /\ \A r \in {long, int, skipped} : ~r.s.over

(* A long: its spelling is the shortest, and what is written is read.      *)
LongRereads(v) ==
  LET b == EncodeLong(v)
  IN  /\ Complete(b) /\ Spelled(b) = v
      /\ Len(b) > 1 => Last(b) # 0
      /\ Rereads(DecodeLong(b, FromBuffer(b)), b, v)

(* An int is written as the long with the same sign.                       *)
IntRereads(i) ==
  LET b == EncodeLong(Bits(LongBits, i))
  IN  Rereads(DecodeInt(b, FromBuffer(b)), b, Bits(IntBits, i))

SignedRereads(n) ==
  LET b == EncodeSigned(n)
  IN  Rereads(DecodeSigned(b, FromBuffer(b)), b, n)

FixedRereads(bits, width) ==
  LET b == EncodeFixed(bits, width)
  IN  Rereads(DecodeFixed(b, FromBuffer(b), width), b, bits)

(* A varint is read as the number its groups spell, if that is a long; an  *)
(* int takes the low bits, also of a number that was written with its sign *)
(* extended; what is skipped is what would be read; what is written is the *)
(* shortest spelling and is read again; nothing is read behind the end.    *)
WireFormatExact ==
  subject = "varint" =>
    LET spelled == Spelled(input)
        n == Signed(LongBits, Bits(LongBits, spelled))
    IN  /\ ReadsExactly(input)
        /\ LongRereads(Bits(LongBits, spelled))
        /\ IntRereads(Signed(IntBits, Bits(IntBits, spelled)))
        /\ SignedRereads(n)
        /\ \A width \in {IntBits, LongBits} : FixedRereads(Bits(width, n), width)
=============================================================================
