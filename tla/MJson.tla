-------------------------------- MODULE MJson --------------------------------
(***************************************************************************)
(* The JSON scanner of src/libs/mjson/mjson.c.  mjson() walks over a text  *)
(* and calls back for every structural character and value; mjson_find and *)
(* mjson_next are callbacks that look for a path and for the next member.  *)
(*                                                                         *)
(* A text is a sequence of lexemes: what mjson() consumes in one round of  *)
(* its loop.  A lexeme has a kind and, for a string or a number, a value;  *)
(* "?" is a character that begins no lexeme, or a string without its end.  *)
(* White space is left out.  An offset is the number of lexemes before.    *)
(***************************************************************************)
EXTENDS Integers, Sequences, SequencesExt

CONSTANTS
  Strings,      \* what strings can say; 0 stands for an escape that cannot be
  Numbers,      \*   decoded (a \u above 00ff, or an unknown one)
  MaxDepth      \* MJSON_MAX_DEPTH

ASSUME MJsonAssumption ==
  Strings \subseteq Nat /\ Numbers \subseteq Nat /\ MaxDepth \in Nat \ {0}

Containers == {"{", "["}
Closers == {"}", "]"}
Structure == Containers \cup Closers \cup {",", ":"}
Scalars == {"string", "number", "null"}
Mark(kind) == [kind |-> kind, v |-> 0]
Lexemes ==
  {Mark(k) : k \in Structure \cup {"null", "?"}}
    \cup [kind: {"string"}, v: Strings] \cup [kind: {"number"}, v: Numbers]

-----------------------------------------------------------------------------
(* mjson(): the loop's state, and the event of the callback in this round. *)
Start == [expecting |-> "value", nesting |-> <<>>, status |-> "more", event |-> "none"]

Invalid(sc) == [sc EXCEPT !.status = "error", !.event = "none"]

(* What a member of an object or array begins with.                        *)
Begin(c) == IF c = "{" THEN "key" ELSE "value"

Enter(sc, c) ==
  IF Len(sc.nesting) >= MaxDepth THEN Invalid(sc)
  ELSE [sc EXCEPT !.nesting = Append(@, c), !.event = c,
                  !.expecting = Begin(c)]

(* MJSONEOO: the end of an array or object, and of the text if outermost.  *)
Matches_Any(open, c) == TRUE
Matches(open, c) == <<open, c>> \in {<<"{", "}">>, <<"[", "]">>}
Leave(sc, c) ==
  IF ~Matches(Last(sc.nesting), c) THEN Invalid(sc)
  ELSE [sc EXCEPT !.nesting = Front(@), !.event = c, !.expecting = "comma",
                  !.status = IF Len(sc.nesting) = 1 THEN "done" ELSE "more"]

Value(sc, kind) ==
  [sc EXCEPT !.event = kind, !.expecting = "comma",
             !.status = IF sc.nesting = <<>> THEN "done" ELSE "more"]

ValueExpected(sc, c) ==
  CASE c \in Containers -> Enter(sc, c)
    [] c = "]" /\ sc.nesting # <<>> -> Leave(sc, c)
    [] c \in Scalars -> Value(sc, c)
    [] OTHER -> Invalid(sc)

Pass(sc, event, expecting) == [sc EXCEPT !.event = event, !.expecting = expecting]

KeyExpected(sc, c) ==
  CASE c = "string" -> Pass(sc, "key", "colon")
    [] c = "}" -> Leave(sc, c)
    [] OTHER -> Invalid(sc)

ColonExpected(sc, c) ==
  IF c = ":" THEN Pass(sc, c, "value") ELSE Invalid(sc)

CommaExpected(sc, c) ==
  CASE c = "," -> Pass(sc, c, Begin(Last(sc.nesting)))
    [] c \in Closers -> Leave(sc, c)
    [] OTHER -> Invalid(sc)

Scan(sc, lexeme) ==
  CASE sc.expecting = "value" -> ValueExpected(sc, lexeme.kind)
    [] sc.expecting = "key"   -> KeyExpected(sc, lexeme.kind)
    [] sc.expecting = "colon" -> ColonExpected(sc, lexeme.kind)
    [] sc.expecting = "comma" -> CommaExpected(sc, lexeme.kind)

(* mjson(text) with a callback that keeps d: Callback(d, event, lexeme,    *)
(* offset), until the text ends or d.stop says that the callback returned  *)
(* something else than 0.                                                  *)
Walk(text, d0, Callback(_, _, _, _)) ==
  LET round(a, lexeme) ==
        LET sc == Scan(a.sc, lexeme)
        IN  IF a.d.stop \/ a.sc.status # "more" THEN a
            ELSE [sc |-> sc, off |-> a.off + 1,
                  d |-> IF sc.status = "error" THEN a.d
                        ELSE Callback(a.d, sc.event, lexeme, a.off)]
  IN  FoldLeft(round, [sc |-> Start, off |-> 0, d |-> d0], text)

(* The result is not negative.                                             *)
Succeeds(walk) == walk.d.stop \/ walk.sc.status = "done"

-----------------------------------------------------------------------------
(* mjson_find.  A path is a sequence of keys and indices.  d1 is the depth *)
(* of the text, d2 the depth of the part of the path matched so far (pos   *)
(* steps); i1 counts the items of the array in which item i2 is wanted.    *)
KeyStep(k) == <<"key", k>>
IndexStep(i) == <<"index", i>>

ToFind == [pos |-> 0, d1 |-> 0, d2 |-> 0, i1 |-> 0, i2 |-> 0, obj |-> -1,
           tok |-> "none", from |-> 0, len |-> 0, stop |-> FALSE]

Wants(d, path, kind) == d.pos < Len(path) /\ path[d.pos + 1][1] = kind
Matched(d) == [d EXCEPT !.pos = @ + 1, !.d2 = @ + 1]
Found(d, tok, from, len) ==
  [d EXCEPT !.tok = tok, !.from = from, !.len = len, !.stop = TRUE]

FindOpen(d, path, c, off) ==
  LET e == [d EXCEPT !.d1 = @ + 1,
              !.obj = CASE d.d1 < d.d2 -> -1 [] d.d1 = d.d2 -> off [] OTHER -> @]
      i == path[d.pos + 1][2]
      f == [e EXCEPT !.i1 = 0, !.i2 = i]
  IN  IF d.d1 = d.d2 /\ c = "[" /\ Wants(d, path, "index")
      THEN IF i = 0 THEN Matched(f) ELSE f
      ELSE e

FindClose(d, path, c, off) ==
  LET e == [d EXCEPT !.d1 = @ - 1,
                     !.i1 = IF c = "]" /\ d.d1 = d.d2 THEN 0 ELSE @]
  IN  IF d.pos = Len(path) /\ e.d1 = e.d2 /\ e.obj # -1
      THEN Found(e, IF c = "}" THEN "{" ELSE "[", e.obj, off - e.obj + 1)
      ELSE e

NextItem_Below(d) == LET e == [d EXCEPT !.i1 = @ + 1]
                     IN  IF e.i1 <= e.i2 THEN Matched(e) ELSE e
NextItem(d) == LET e == [d EXCEPT !.i1 = @ + 1]
               IN  IF e.i1 = e.i2 THEN Matched(e) ELSE e

(* mjson_get_cb                                                            *)
FindEvent(d, path, event, lexeme, off) ==
  LET same == d.d1 = d.d2
      below == d.d1 = d.d2 + 1
  IN  CASE event \in Containers -> FindOpen(d, path, event, off)
        [] event \in Closers -> FindClose(d, path, event, off)
        [] event = "," /\ same /\ d.pos > 0 /\ path[d.pos][1] = "index" ->
             [d EXCEPT !.stop = TRUE]
        [] event = "," /\ below /\ Wants(d, path, "index") -> NextItem(d)
        [] event = "key" /\ below /\ Wants(d, path, "key")
             /\ path[d.pos + 1][2] = lexeme.v -> Matched(d)
        [] event = "key" /\ same -> [d EXCEPT !.stop = TRUE]
        [] event \in Scalars /\ same /\ d.i1 = d.i2 /\ d.pos = Len(path) ->
             Found(d, event, off, 1)
        [] OTHER -> d

Find(text, path) ==
  LET walk == Walk(text, ToFind,
                   LAMBDA d, event, lexeme, off : FindEvent(d, path, event, lexeme, off))
  IN  IF Succeeds(walk) THEN walk.d ELSE ToFind

-----------------------------------------------------------------------------
(* mjson_next: the member of the outermost array or object that begins     *)
(* behind the offset after, and the offset len where to go on (0: none).   *)
(* An array's member has its index for a key.                              *)
ToIterate(after) ==
  [after |-> after, len |-> 0, depth |-> 0, vo |-> 0, index |-> -1, koff |-> -1,
   voff |-> -1, vlen |-> 0, stop |-> FALSE]

Report(d, from, to) ==
  [d EXCEPT !.len = to, !.vlen = to - from, !.stop = TRUE,
            !.koff = IF d.index >= 0 THEN d.index ELSE @]
Skipped(d) == [d EXCEPT !.index = IF @ >= 0 THEN @ + 1 ELSE @]

(* next_cb                                                                 *)
NextEvent(d, event, lexeme, off) ==
  CASE event \in Containers ->
         LET e == [d EXCEPT !.depth = @ + 1,
                     !.index = IF d.depth = 0 /\ event = "[" THEN 0 ELSE @]
         IN  IF d.depth = 1 /\ off > d.after
             THEN [e EXCEPT !.vo = off, !.voff = off] ELSE e
    [] event \in Closers ->
         LET e == [d EXCEPT !.depth = @ - 1]
         IN  CASE e.depth = 1 /\ e.vo # 0 -> Report(e, e.vo, off + 1)
               [] e.depth = 1 /\ e.vo = 0 -> Skipped(e)
               [] OTHER -> e
    [] event = "key" ->
         IF d.depth = 1 /\ d.after < off THEN [d EXCEPT !.koff = off] ELSE d
    [] event \in Scalars /\ d.depth = 1 ->
         IF off > d.after THEN Report([d EXCEPT !.voff = off], off, off + 1)
         ELSE Skipped(d)
    [] OTHER -> d

NextMember(text, after) == Walk(text, ToIterate(after), NextEvent).d

(* All members, as a client's loop over mjson_next sees them.              *)
Members(text) ==
  LET from[after \in 0 .. Len(text)] ==
        LET m == NextMember(text, after)
        IN  IF m.len = 0 THEN <<>>
            ELSE <<[koff |-> m.koff, voff |-> m.voff, vlen |-> m.vlen]>> \o from[m.len]
  IN  from[0]
=============================================================================
