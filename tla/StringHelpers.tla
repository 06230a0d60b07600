---------------------------- MODULE StringHelpers ----------------------------
(***************************************************************************)
(* The functions on strings and bytes (Text) and the conversions of        *)
(* strings (Printf), applied to a string that is typed character by        *)
(* character, and to bytes that are stored one by one.                     *)
(***************************************************************************)
EXTENDS Text, Printf, Inputs

CONSTANTS
  Characters,     \* what strings are made of
  Codes,          \* the bytes in base64 and in hexadecimal
  Subs, Reps,     \* what is looked for, what is put in its place
  MaxText         \* bound: characters of a string, bytes

ASSUME StringsAssumption ==
  /\ Codes \subseteq 0 .. 255 /\ MaxText \in Nat
  /\ Subs \subseteq Seq(Characters) \ {<<>>} /\ Reps \subseteq Seq(Characters)

-----------------------------------------------------------------------------
ExtendString == subject = "string" /\ Extend(MaxText, Characters)
ExtendBytes == subject = "bytes" /\ Extend(MaxText, Codes)

(* The inputs of other functions grow as they will.                        *)
StringInit == input = <<>>
StringNext ==
  \/ ExtendString
  \/ ExtendBytes
  \/ subject \notin {"string", "bytes"} /\ UNCHANGED subject
StringSpec == StringInit /\ [][StringNext]_vars

-----------------------------------------------------------------------------
Places(str, sub) == {i \in 0 .. Len(str) : At(str, sub, i)}

(* Escaping: what gjson writes between quotes, mjson finds the end of, and *)
(* reads as the string again, into a buffer that has room for its zero and *)
(* into no smaller one.                                                    *)
EscapesExact(str) ==
  LET written == Escape(str)
  IN  /\ PassString(written \o <<Quote>> \o str) = Len(written)
      /\ \A n \in 0 .. Len(str) + 1 :
           LET r == Unescape(written, n)
           IN  IF n > Len(str) THEN r.ok /\ r.to = str ELSE ~r.ok

(* Searching: the first place, a last place that is the last one of a      *)
(* single character, and both ends.                                        *)
SearchesExact(str, sub) ==
  LET places == Places(str, sub)
      first == IndexOf(str, sub, 0)
      last == LastIndexOf(str, sub)
  IN  /\ IF places = {} THEN first = -1 /\ last = -1
         ELSE /\ first = Min(places) /\ last \in places
              /\ Len(sub) = 1 => last = Max(places)
      /\ StartWith(str, sub) <=> 0 \in places
      /\ EndWith(str, sub) <=> Len(str) - Len(sub) \in places

(* Replacing: the new string and its zero fit the memory that was asked    *)
(* for beforehand; a single character is replaced everywhere.              *)
ReplacesExact(str, sub, rep) ==
  LET new == Replace(str, sub, rep)
  IN  /\ Len(new) + 1 <= ReplaceMemory(str, sub, rep)
      /\ Len(sub) = 1 =>
           new = FlattenSeq([i \in DOMAIN str |-> IF str[i] = sub[1] THEN rep ELSE <<str[i]>>])
      /\ rep = sub => new = str

(* Trimming takes spaces, all of them, from both ends.                     *)
TrimsExact(str) ==
  LET kept == Trim(str)
  IN  /\ kept = <<>> \/ (kept[1] \notin Spaces /\ Last(kept) \notin Spaces)
      /\ \E i \in 0 .. Len(str) :
           /\ kept = SubSeq(str, i + 1, i + Len(kept))
           /\ \A k \in DOMAIN str \ (i + 1 .. i + Len(kept)) : str[k] \in Spaces

SubstringsExact(str) ==
  \A st \in 0 .. Len(str), n \in 0 .. MaxText :
    Substring(str, st, n) =
      SubSeq(str, st + 1, IF n = 0 THEN Len(str) ELSE Min({st + n, Len(str)}))

(* Bytes: base64 and hexadecimal give back what was put in, as far as it   *)
(* fits.                                                                   *)
Hex(bytes) ==
  FlattenSeq([i \in DOMAIN bytes |->
    <<HexDigits[(bytes[i] \div 16) + 1], HexDigits[(bytes[i] % 16) + 1]>>])
BytesExact(bytes) ==
  \A n \in 0 .. Len(bytes) + 1 :
    LET kept == SubSeq(bytes, 1, Min({n, Len(bytes)}))
    IN  /\ Base64Decode(Base64(bytes), n) = kept
        /\ GetHex(Hex(bytes), n) = [i \in DOMAIN kept |-> <<"byte", kept[i]>>]

(* g_cmp of what precedes a place and what is behind it is an order: bytes *)
(* above 127 are negative characters.                                      *)
Chars(bytes) ==
  [i \in DOMAIN bytes |-> IF bytes[i] > 127 THEN bytes[i] - 256 ELSE bytes[i]]
ComparesExact(bytes) ==
  0 \notin ToSet(bytes) =>
    \A k \in 0 .. Len(bytes) :
      LET one == SubSeq(Chars(bytes), 1, k)
          two == SubSeq(Chars(bytes), k + 1, Len(bytes))
      IN  /\ Cmp(one, two) = 0 <=> one = two
          /\ (Cmp(one, two) > 0) <=> (Cmp(two, one) < 0)

(* The layout that the C standard gives a prefix and a body.               *)
Layout(prefix, body, width, flags) ==
  LET missing == width - Len(prefix) - Len(body)
  IN  IF "left" \in flags THEN prefix \o body \o Copies(Blank, missing)
      ELSE IF "zero" \in flags THEN prefix \o Copies("0", missing) \o body
      ELSE Copies(Blank, missing) \o prefix \o body

(* A string that is printed is padded to the width and cut to the         *)
(* precision, and is itself again when it is printed one by one.           *)
PrintsWhole(text, width, flags) ==
  Format(<<Conversion("s", flags, width, 0)>>, <<text>>) = Layout(<<>>, text, width, flags)
PrintsStart(text, prec, width, flags) ==
  Format(<<Conversion("s", flags \cup {"prec"}, width, prec)>>, <<text>>) =
    Layout(<<>>, SubSeq(text, 1, Min({prec, Len(text)})), width, flags)
PrintsEach(text, flags) ==
  Format([i \in DOMAIN text |-> Conversion("c", flags, 0, 0)], text) = text
PrintsExact(text) ==
  \A flags \in SUBSET {"left"}, width, prec \in 0 .. MaxText :
    PrintsWhole(text, width, flags) /\ PrintsStart(text, prec, width, flags)
      /\ PrintsEach(text, flags)

(* What has no room in the buffer of snprintf_ is cut off, and nothing     *)
(* behind the buffer is written.                                           *)
Untouched == "?"
FitsExactly(text) ==
  \A count \in 1 .. Len(text) + 2 :
    LET before == Copies(Untouched, count + 1)
        after == Snprintf(text, count, before)
        kept == SubSeq(text, 1, Min({Len(text), count - 1}))
    IN  /\ SubSeq(after, 1, Len(kept) + 1) = kept \o <<Zero>>
        /\ Last(after) = Untouched

(* The helpers on strings do what their names say on every input, on any   *)
(* overlap of what is looked for: json escapes and their decoding, the     *)
(* searches, the copies with the memory computed for them beforehand, what *)
(* is printed of a string and what has no room in a buffer, and bytes as   *)
(* base64, in hexadecimal and in comparisons (gstrfuncs.c, gjson.c,        *)
(* mjson.c, printf.c).                                                     *)
StringsExact ==
  /\ subject = "string" =>
       /\ EscapesExact(input) /\ TrimsExact(input) /\ SubstringsExact(input)
       /\ PrintsExact(input) /\ FitsExactly(input)
       /\ \A sub \in Subs : SearchesExact(input, sub)
       /\ \A sub \in Subs, rep \in Reps : ReplacesExact(input, sub, rep)
  /\ subject = "bytes" => BytesExact(input) /\ ComparesExact(input)
=============================================================================
