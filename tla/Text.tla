-------------------------------- MODULE Text --------------------------------
(***************************************************************************)
(* Functions on strings: gstrfuncs.c, the escapes that gjson.c writes and  *)
(* mjson.c reads, and mjson's base64 and hexadecimal strings.  A string is *)
(* a sequence of characters without its terminating zero; memory that a    *)
(* function asks for counts it.                                            *)
(***************************************************************************)
EXTENDS Integers, Sequences, SequencesExt, FiniteSets

Spaces == {" ", "\t", "\r", "\n"}
Quote == "\""
Backslash == "\\"

(* The pairs of mjson_esc and _json_esc: raw character, letter behind the  *)
(* backslash; backspace is left out.                                       *)
Escapes ==
  {<<"\f", "f">>, <<"\n", "n">>, <<"\r", "r">>, <<"\t", "t">>,
   <<Backslash, Backslash>>, <<Quote, Quote>>}
MustEscape == {e[1] : e \in Escapes}
Letters == {e[2] : e \in Escapes}
LetterOf(c) == (CHOOSE e \in Escapes : e[1] = c)[2]
CharacterOf(letter) == (CHOOSE e \in Escapes : e[2] = letter)[1]

(* _json_print_str, without the quotes around the string.                  *)
Escape_NotBackslash(s) ==
  FlattenSeq([i \in DOMAIN s |->
    IF s[i] \in MustEscape \ {Backslash} THEN <<Backslash, LetterOf(s[i])>> ELSE <<s[i]>>])
Escape(s) ==
  FlattenSeq([i \in DOMAIN s |->
    IF s[i] \in MustEscape THEN <<Backslash, LetterOf(s[i])>> ELSE <<s[i]>>])

(* mjson_pass_string: the offset of the quote that ends the string, or -1. *)
PassString(s) ==
  LET end[i \in 1 .. Len(s) + 2] ==
        IF i > Len(s) THEN -1
        ELSE IF s[i] = Backslash /\ i < Len(s) /\ s[i + 1] \in MustEscape THEN end[i + 2]
        ELSE IF s[i] = Quote THEN i - 1 ELSE end[i + 1]
  IN  end[1]

(* unhex and mjson_unhex_nimble                                            *)
HexDigits == <<"0", "1", "2", "3", "4", "5", "6", "7", "8", "9",
               "a", "b", "c", "d", "e", "f">>
HexValue(c) == (CHOOSE i \in DOMAIN HexDigits : HexDigits[i] = c) - 1
Unhex(high, low) == <<"byte", 16 * HexValue(high) + HexValue(low)>>

(* mjson_unescape into n characters: what it wrote, and whether it did all *)
(* and had room for a zero behind it.  \u00xx is a byte.                   *)
Unescape(s, n) ==
  LET failed == [ok |-> FALSE, to |-> <<>>]
      next[place \in (1 .. Len(s) + 6) \X (0 .. n)] ==
        LET i == place[1]
            j == place[2]
            rest(c, step) ==
              LET r == next[<<i + step, j + 1>>] IN [r EXCEPT !.to = <<c>> \o @]
        IN  IF j >= n THEN failed
            ELSE IF i > Len(s) THEN [ok |-> TRUE, to |-> <<>>]
            ELSE IF s[i] = Backslash /\ i + 5 <= Len(s) /\ s[i + 1] = "u"
            THEN IF s[i + 2] # "0" \/ s[i + 3] # "0" THEN failed
                 ELSE rest(Unhex(s[i + 4], s[i + 5]), 6)
            ELSE IF s[i] = Backslash /\ i + 1 <= Len(s)
            THEN IF s[i + 1] \notin Letters THEN failed ELSE rest(CharacterOf(s[i + 1]), 2)
            ELSE rest(s[i], 1)
  IN  next[<<1, 0>>]

(* mjson_get_hex, behind the lookup: a digit without its pair is dropped.  *)
GetHex(s, n) ==
  [j \in 1 .. IF Len(s) \div 2 < n THEN Len(s) \div 2 ELSE n |->
     Unhex(s[2 * j - 1], s[2 * j])]

-----------------------------------------------------------------------------
(* mjson_base64_dec of symbols, given by their values in mjson_base64rev   *)
(* (64 for '='), into dlen bytes.                                          *)
Padding == 64
Base64Bytes(q) ==
  LET byte1 == (q[1] * 4 + q[2] \div 16) % 256
      byte2 == (q[2] * 16 + q[3] \div 4) % 256
      byte3 == (q[3] * 64 + q[4]) % 256
  IN  IF q[3] = Padding THEN <<byte1>>
      ELSE IF q[4] = Padding THEN <<byte1, byte2>> ELSE <<byte1, byte2, byte3>>

Base64Decode(src, dlen) ==
  LET quads == [k \in 1 .. Len(src) \div 4 |-> Base64Bytes(SubSeq(src, 4 * k - 3, 4 * k))]
      all == FlattenSeq(quads)
  IN  SubSeq(all, 1, IF Len(all) < dlen THEN Len(all) ELSE dlen)

(* Reference: the base64 of bytes.                                         *)
Base64(bytes) ==
  LET at(i) == IF i \in DOMAIN bytes THEN bytes[i] ELSE 0
      quad(k) ==
        <<at(k) \div 4, (at(k) % 4) * 16 + at(k + 1) \div 16,
          IF k + 1 \in DOMAIN bytes THEN (at(k + 1) % 16) * 4 + at(k + 2) \div 64 ELSE Padding,
          IF k + 2 \in DOMAIN bytes THEN at(k + 2) % 64 ELSE Padding>>
  IN  FlattenSeq([q \in 1 .. (Len(bytes) + 2) \div 3 |-> quad(3 * q - 2)])

-----------------------------------------------------------------------------
(* gstrfuncs.c.  At(s, sub, i): sub is in s from the offset i.             *)
At(s, sub, i) == i + Len(sub) <= Len(s) /\ SubSeq(s, i + 1, i + Len(sub)) = sub

(* g_replace, and the memory it asks for before it begins.                 *)
Replace(source, sub, rep) ==
  LET from[i \in 0 .. Len(source)] ==
        IF i = Len(source) THEN <<>>
        ELSE IF At(source, sub, i) THEN rep \o from[i + Len(sub)]
        ELSE <<source[i + 1]>> \o from[i + 1]
  IN  IF sub = <<>> THEN source ELSE from[0]

ReplaceMemory_NoRemainder(source, sub, rep) ==
  IF Len(rep) > Len(sub) THEN Len(rep) * (Len(source) \div Len(sub)) + 1
  ELSE Len(source) + 1
ReplaceMemory(source, sub, rep) ==
  (IF sub # <<>> /\ Len(rep) > Len(sub)
   THEN (Len(rep) * Len(source)) \div Len(sub) + 1 ELSE Len(source)) + 1

(* g_index_of; strstr finds the first place.                               *)
IndexOf(str, sub, index) ==
  LET from == IF index < 0 THEN 0 ELSE index
      places == {i \in from .. Len(str) : At(str, sub, i)}
  IN  IF (index >= Len(str) /\ index >= 0) \/ places = {} THEN -1
      ELSE CHOOSE i \in places : \A k \in places : i <= k

(* g_last_index_of goes on behind each place it finds.                     *)
LastIndexOf(str, sub) ==
  LET last[pos \in -1 .. Len(str)] ==
        LET next == IndexOf(str, sub, pos)
        IN  IF next # -1 THEN last[next + Len(sub)]
            ELSE IF pos = -1 THEN -1 ELSE pos - Len(sub)
  IN  IF sub = <<>> THEN -1 ELSE last[-1]

(* g_substring                                                             *)
Substring(str, st, len) ==
  LET count == IF len <= 0 \/ st + len > Len(str) THEN Len(str) - st ELSE len
  IN  SubSeq(str, st + 1, st + count)

(* g_trim: from the end, then from the beginning.                          *)
Trim_OneSide(str) ==
  LET kept == {i \in DOMAIN str : \E k \in i .. Len(str) : str[k] \notin Spaces}
  IN  SubSeq(str, 1, Cardinality(kept))
Trim(str) ==
  LET kept == {i \in DOMAIN str : \E k \in i .. Len(str) : str[k] \notin Spaces}
      len == Cardinality(kept)
      spaces == {i \in 1 .. len : \A k \in 1 .. i : str[k] \in Spaces}
  IN  SubSeq(str, Cardinality(spaces) + 1, len)

(* g_start_with, g_end_with                                                *)
StartWith(str, sub) == At(str, sub, 0)
EndWith(str, sub) == Len(str) >= Len(sub) /\ At(str, sub, Len(str) - Len(sub))

(* g_cmp of character codes: signed in the loop, unsigned at the end.      *)
Cmp(str1, str2) ==
  LET both == DOMAIN str1 \cap DOMAIN str2
      differ == {i \in both : str1[i] # str2[i]}
      at == CHOOSE i \in differ : \A k \in differ : i <= k
      rest(s) == IF Len(s) > Cardinality(both) THEN s[Cardinality(both) + 1] % 256 ELSE 0
  IN  IF differ # {} THEN str1[at] - str2[at] ELSE rest(str1) - rest(str2)

(* g_parse: g_hex takes every hexadecimal digit, whatever the base.        *)
Parse(str, chend, base) ==
  LET spaces == {i \in DOMAIN str : \A k \in 1 .. i : str[k] \in Spaces}
      s == SubSeq(str, Cardinality(spaces) + 1, Len(str))
      signed == s # <<>> /\ s[1] \in {"-", "+"}
      digits == IF signed THEN Tail(s) ELSE s
      taken == {i \in DOMAIN digits :
                  \A k \in 1 .. i : digits[k] # chend /\ digits[k] \in ToSet(HexDigits)}
      value == FoldLeft(LAMBDA sum, c : sum * base + HexValue(c), 0,
                        SubSeq(digits, 1, Cardinality(taken)))
  IN  IF signed /\ s[1] = "-" THEN -value ELSE value
=============================================================================
