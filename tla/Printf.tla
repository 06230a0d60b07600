------------------------------- MODULE Printf -------------------------------
(***************************************************************************)
(* The formatter of src/libs/printf/printf.c behind g_format and the       *)
(* GString: _fsnprintf with its conversions of integers, fractions,        *)
(* characters and strings.                                                 *)
(*                                                                         *)
(* A format is a sequence of directives: a literal character, or a         *)
(* conversion with its flags, width and precision.  Text is a sequence of  *)
(* characters.  A fraction is given in sixteenths, which a double holds    *)
(* exactly.                                                                *)
(***************************************************************************)
EXTENDS Integers, Sequences, SequencesExt, FiniteSets

CONSTANTS
  BufferSize,         \* PRINTF_NTOA_BUFFER_SIZE and PRINTF_FTOA_BUFFER_SIZE
  DefaultPrecision,   \* PRINTF_DEFAULT_FLOAT_PRECISION
  MaxPrecision,       \* the last power of ten in _ftoa
  IntWidth            \* bits of an int

ASSUME PrintfAssumption ==
  /\ BufferSize \in Nat \ {0} /\ IntWidth \in Nat \ {0}
  /\ DefaultPrecision \in Nat /\ MaxPrecision \in Nat /\ DefaultPrecision <= MaxPrecision

Digits == <<"0", "1", "2", "3", "4", "5", "6", "7", "8", "9",
            "a", "b", "c", "d", "e", "f">>
Blank == " "
Percent == "%"
Copies(c, n) == [i \in 1 .. IF n > 0 THEN n ELSE 0 |-> c]

(* The directives of a format, as lines 610 to 699 leave them: width and   *)
(* precision are 0 without one, and "." sets the flag; star takes the      *)
(* width from the arguments.                                               *)
Literal(c) ==
  [conv |-> "literal", c |-> c, flags |-> {}, width |-> 0, prec |-> 0, star |-> FALSE]
Conversion(conv, flags, width, prec) ==
  [conv |-> conv, c |-> Percent, flags |-> flags, width |-> width, prec |-> prec, star |-> FALSE]

-----------------------------------------------------------------------------
(* A conversion writes a number backwards into a buffer, where characters  *)
(* that do not fit are dropped.                                            *)
Put(buf, c) == IF Len(buf) < BufferSize THEN Append(buf, c) ELSE buf
PutUpTo(buf, c, len) ==
  buf \o Copies(c, (IF len < BufferSize THEN len ELSE BufferSize) - Len(buf))

(* _out_rev                                                                *)
OutRev(buf, width, flags) ==
  LET pad == Copies(Blank, width - Len(buf))
  IN  (IF flags \cap {"left", "zero"} = {} THEN pad ELSE <<>>)
        \o Reverse(buf) \o (IF "left" \in flags THEN pad ELSE <<>>)

Sign(buf, negative, flags) ==
  IF negative THEN Put(buf, "-")
  ELSE IF "plus" \in flags THEN Put(buf, "+")
  ELSE IF "space" \in flags THEN Put(buf, " ") ELSE buf

(* The column that the sign needs is taken from zero padding.              *)
ZeroWidth_NoSign(width, negative, flags) == width
ZeroWidth(width, negative, flags) ==
  IF width # 0 /\ "zero" \in flags /\ (negative \/ flags \cap {"plus", "space"} # {})
  THEN width - 1 ELSE width

(* The prefix of the # flag takes the place of zeros that were padded, or  *)
(* of digits that happen to fill the width.                                *)
Hash(buf, base, prec, width, flags) ==
  LET len == Len(buf)
      fills == "prec" \notin flags /\ len # 0 /\ len \in {prec, width}
      cut == IF ~fills THEN 0 ELSE IF base = 16 /\ len > 1 THEN 2 ELSE 1
      kept == SubSeq(buf, 1, len - cut)
      letter == CASE base = 16 -> Put(kept, "x")
                  [] base = 2  -> Put(kept, "b")
                  [] OTHER     -> kept
  IN  IF "hash" \in flags THEN Put(letter, "0") ELSE buf

(* _ntoa_format                                                            *)
NtoaFormat(buf, negative, base, prec, width, flags) ==
  LET columns == IF "left" \in flags THEN width ELSE ZeroWidth(width, negative, flags)
      precise == IF "left" \in flags THEN buf ELSE PutUpTo(buf, "0", prec)
      padded == IF "left" \notin flags /\ "zero" \in flags
                THEN PutUpTo(precise, "0", columns) ELSE precise
      hashed == Hash(padded, base, prec, columns, flags)
  IN  OutRev(Sign(hashed, negative, flags), columns, flags)

(* _ntoa_long and _ntoa_long_long: the digits that fit, lowest first.      *)
DigitsOf(value, base, room) ==
  LET from[place \in (0 .. value) \X (0 .. room)] ==
        LET v == place[1]
            r == place[2]
        IN  IF r = 0 THEN <<>>
            ELSE <<Digits[(v % base) + 1]>>
                   \o (IF v \div base = 0 THEN <<>> ELSE from[<<v \div base, r - 1>>])
  IN  from[<<value, room>>]

Ntoa(value, negative, base, prec, width, flags) ==
  NtoaFormat(IF "prec" \in flags /\ value = 0 THEN <<>> ELSE DigitsOf(value, base, BufferSize),
             negative, base, prec, width,
             IF value = 0 THEN flags \ {"hash"} ELSE flags)

-----------------------------------------------------------------------------
(* _ftoa of n sixteenths.  What is left after the digits is rounded to     *)
(* even, except that a last digit of 0 is rounded up.                      *)
Sixteen == 16
Rounded_Down(whole, sixteenths, prec) == <<whole, (sixteenths * 10 ^ prec) \div Sixteen>>
Rounded(whole, sixteenths, prec) ==
  LET scaled == sixteenths * 10 ^ prec
      frac == scaled \div Sixteen
      diff == 2 * (scaled % Sixteen)
      up == diff > Sixteen \/ (diff = Sixteen /\ (frac = 0 \/ frac % 2 = 1))
      carries == diff > Sixteen /\ frac + 1 >= 10 ^ prec
  IN  IF carries THEN <<whole + 1, 0>>
      ELSE <<whole, IF up THEN frac + 1 ELSE frac>>

(* With no digits after the point the whole is rounded once more, if what  *)
(* is left of it is not less than a half and it is odd.                    *)
Whole(n, whole, prec) ==
  IF prec = 0 /\ 2 * (n - Sixteen * whole) >= Sixteen /\ whole % 2 = 1 THEN whole + 1 ELSE whole

(* Zeros stand before the digits of a small fraction.  If there were more  *)
(* digits than prec the count of zeros would wrap and fill the buffer.     *)
Fraction(buf, frac, prec) ==
  LET digits == buf \o DigitsOf(frac, 10, BufferSize - Len(buf))
      columns == IF Len(digits) > Len(buf) + prec THEN BufferSize ELSE Len(buf) + prec
  IN  Put(PutUpTo(digits, "0", columns), ".")

(* Without an explicit precision the zeros at the end are taken away, and  *)
(* the point with them if nothing remains behind it.                       *)
Trimmed(buf) ==
  LET point == SelectInSeq(buf, LAMBDA c : c = ".")
      zeros == Cardinality({i \in 1 .. point - 1 : \A k \in 1 .. i : buf[k] = "0"})
      cut == IF zeros = 0 THEN 0 ELSE IF zeros = point - 1 THEN point ELSE zeros
  IN  IF point = 0 THEN buf ELSE SubSeq(buf, cut + 1, Len(buf))

Ftoa(n, precision, width, flags) ==
  LET negative == n < 0
      abs == IF negative THEN -n ELSE n
      wanted == IF "prec" \in flags THEN precision ELSE DefaultPrecision
      prec == IF wanted > MaxPrecision THEN MaxPrecision ELSE wanted
      excess == PutUpTo(<<>>, "0", wanted - prec)
      r == Rounded(abs \div Sixteen, abs % Sixteen, prec)
      after == IF prec = 0 THEN excess ELSE Fraction(excess, r[2], prec)
      digits == after \o DigitsOf(Whole(abs, r[1], prec), 10, BufferSize - Len(after))
      padded == IF "zero" \in flags /\ "left" \notin flags
                THEN PutUpTo(digits, "0", ZeroWidth(width, negative, flags)) ELSE digits
      signed == Sign(padded, negative, flags)
      columns == IF "left" \in flags THEN width ELSE ZeroWidth(width, negative, flags)
  IN  OutRev(IF "prec" \in flags THEN signed ELSE Trimmed(signed), columns, flags)

-----------------------------------------------------------------------------
(* %c and %s                                                               *)
Padded(text, width, flags) ==
  LET pad == Copies(Blank, width - Len(text))
  IN  IF "left" \in flags THEN text \o pad ELSE pad \o text

StringCut(s, prec, flags) ==
  IF "prec" \in flags /\ prec < Len(s) THEN SubSeq(s, 1, prec) ELSE s

(* What a specifier does with the flags of a number; x stands for X, too,  *)
(* which differs in the letters only.                                      *)
Base(conv) == CASE conv = "x" -> 16 [] conv = "o" -> 8 [] conv = "b" -> 2 [] OTHER -> 10

NumberFlags(conv, flags) ==
  flags \ ((IF conv \in {"d", "u"} THEN {"hash"} ELSE {})
             \cup (IF conv = "d" THEN {} ELSE {"plus", "space"})
             \cup (IF "prec" \in flags THEN {"zero"} ELSE {}))

(* An int's magnitude or bits; the lengths hh, h, l and ll, which take     *)
(* another number of bits from the argument, are left out.                 *)
Magnitude(conv, n) ==
  IF conv = "d" THEN IF n < 0 THEN -n ELSE n ELSE n % 2 ^ IntWidth

Convert(d, arg) ==
  CASE d.conv \in {"d", "u", "x", "o", "b"} ->
         Ntoa(Magnitude(d.conv, arg), d.conv = "d" /\ arg < 0, Base(d.conv),
              d.prec, d.width, NumberFlags(d.conv, d.flags))
    [] d.conv = "f" -> Ftoa(arg, d.prec, d.width, d.flags)
    [] d.conv = "c" -> Padded(<<arg>>, d.width, d.flags)
    [] d.conv = "s" -> Padded(StringCut(arg, d.prec, d.flags), d.width, d.flags)
    [] OTHER        -> <<d.c>>

(* A width by the arguments: a negative one pads on the right.             *)
WithStar(d, w) ==
  [d EXCEPT !.star = FALSE, !.width = IF w < 0 THEN -w ELSE w,
            !.flags = IF w < 0 THEN @ \cup {"left"} ELSE @]

(* _fsnprintf: the text.  Every directive but a character takes one        *)
(* argument, behind those of the directives before it, and a star one more.*)
Format(directives, args) ==
  LET taken(i) == Cardinality({k \in 1 .. i - 1 : directives[k].conv # "literal"})
                    + Cardinality({k \in 1 .. i - 1 : directives[k].star})
      text(i) ==
        LET d == directives[i]
            at == taken(i) + 1
        IN  IF d.conv = "literal" THEN <<d.c>>
            ELSE IF d.star THEN Convert(WithStar(d, args[at]), args[at + 1])
            ELSE Convert(d, args[at])
  IN  FlattenSeq([i \in DOMAIN directives |-> text(i)])

(* snprintf_ into a buffer of count characters: _out_buffer drops what has *)
(* no room, and the terminating zero goes to the last place at most.       *)
Zero == "NUL"
Snprintf_Tight(text, count, buffer) ==
  [i \in DOMAIN buffer |-> IF i <= Len(text) THEN text[i]
                           ELSE IF i = Len(text) + 1 THEN Zero ELSE buffer[i]]
Snprintf(text, count, buffer) ==
  LET end == IF Len(text) < count THEN Len(text) ELSE count - 1
  IN  [i \in DOMAIN buffer |->
         IF i > count THEN buffer[i]
         ELSE IF i = end + 1 THEN Zero
         ELSE IF i <= Len(text) THEN text[i] ELSE buffer[i]]
=============================================================================
