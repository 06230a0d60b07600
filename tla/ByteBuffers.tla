----------------------------- MODULE ByteBuffers -----------------------------
(***************************************************************************)
(* The two growing byte buffers: one client of a GMemoryStream             *)
(* (src/src/gmemorystream.c, g_stream_read_all_content of gstream.c) or of *)
(* a GString (src/src/gstring.c) makes every call in every order while     *)
(* memory may run out.                                                     *)
(*                                                                         *)
(* A client may seek anywhere.  A copy at a place that is not in the       *)
(* stream's block has no defined effect: the behaviour ends there.         *)
(***************************************************************************)
EXTENDS Integers, Sequences, SequencesExt

CONSTANTS
  Chars,          \* what a byte can be
  Garbage,        \* what is in memory before it is written
  Nul,            \* the byte 0
  DoubleUpTo,     \* 1024: the largest capacity that a write doubles
  ChunkSize,      \* STRING_CHUNK_SIZE
  MaxBytes,       \* bound: length, position and capacity asked for
  MaxWrite        \* bound: bytes written, read or appended by one call

BuffersAssumption ==
  /\ DoubleUpTo \in Nat /\ ChunkSize \in Nat \ {0, 1} /\ MaxBytes \in Nat \ {0} /\ MaxWrite \in Nat
  /\ Garbage \notin Chars /\ Nul \notin Chars

VARIABLES
  which,         \* the buffer in use
  stream,        \* its block, the length of the file, the position
  moved,         \* what the last call wrote or read
  crashed,       \* bytes outside the block were asked for
  strayed,       \* history: the client left the position outside the file
  string,        \* value (a block of alloc bytes), len, max_len
  text           \* history: what was put in the string since it was empty

vars == <<which, stream, moved, crashed, strayed, string, text>>
stringVars == <<string, text>>

Texts == UNION {[1 .. n -> Chars] : n \in 1 .. MaxWrite}
Garbages(n) == [i \in 1 .. n |-> Garbage]

(* g_realloc: what both sizes have stays.                                  *)
Realloc(block, n) ==
  [i \in 1 .. n |-> IF i <= Len(block) THEN block[i] ELSE Garbage]

NewStream == [buffer |-> <<>>, length |-> 0, position |-> 0]
Capacity(s) == Len(s.buffer)

(* g_string_new, g_string_new_with and g_string_wrap.                      *)
NewString(max) ==
  IF max = 0 THEN [value |-> <<>>, len |-> 0, max_len |-> 0]
  ELSE [value |-> <<Nul>> \o Garbages(max), len |-> 0, max_len |-> max]
Alloc(s) == Len(s.value)

Init ==
  /\ which \in {"GMemoryStream", "GString"}
  /\ stream = NewStream /\ moved = <<>> /\ crashed = FALSE /\ strayed = FALSE
  /\ string \in {NewString(0)} \cup
                 IF which = "GString" THEN {NewString(MaxBytes - 1)} ELSE {}
  /\ text = <<>>

-----------------------------------------------------------------------------
(* g_memory_stream_set_capacity, if there is memory for it.                *)
SetCapacity_Fresh(s, n) ==
  IF n <= s.length THEN s ELSE [s EXCEPT !.buffer = Garbages(n)]
SetCapacity(s, n) ==
  IF n <= s.length THEN s ELSE [s EXCEPT !.buffer = Realloc(@, n)]

(* The capacity a write asks for when the block is too short.              *)
CapacityFor_Doubled(s, n) ==
  IF Capacity(s) # 0 /\ Capacity(s) <= DoubleUpTo
  THEN 2 * Capacity(s) ELSE s.position + n
CapacityFor(s, n) ==
  Max({s.position + n,
       IF Capacity(s) <= DoubleUpTo THEN 2 * Capacity(s) ELSE Capacity(s)})

Extended(s, n) ==
  IF s.position + n > Capacity(s) THEN SetCapacity(s, CapacityFor(s, n)) ELSE s

Outside(s) == s.position < 0
Put(s, bytes) ==
  LET end == s.position + Len(bytes)
  IN  [buffer   |-> [i \in DOMAIN s.buffer |->
                       IF i > s.position /\ i <= end
                       THEN bytes[i - s.position] ELSE s.buffer[i]],
       length   |-> Max({s.length, end}),
       position |-> end]

InFile(s) == s.position \in 0 .. s.length
Becomes(s) == stream' = s /\ strayed' = (strayed \/ ~InFile(s))

Crash == crashed' = TRUE /\ UNCHANGED <<stream, strayed, moved>>

Write ==
  \E bytes \in Texts :
    /\ stream.position + Len(bytes) <= MaxBytes
    /\ LET s == Extended(stream, Len(bytes))
       IN  IF Outside(s) \/ s.position + Len(bytes) > Capacity(s) THEN Crash
           ELSE /\ \/ Becomes(Put(s, bytes)) /\ moved' = bytes
                   \/ s # stream /\ Becomes(stream) /\ UNCHANGED moved
                /\ UNCHANGED crashed

(* Behind the end there is less than nothing available, which memcpy takes *)
(* for a huge size.                                                        *)
Read ==
  \E n \in 0 .. MaxWrite :
    LET available == stream.length - stream.position
        size == Min({n, available})
    IN  IF size < 0 \/ (Outside(stream) /\ size > 0) THEN Crash
        ELSE /\ moved' = SubSeq(stream.buffer, stream.position + 1,
                              stream.position + size)
             /\ Becomes([stream EXCEPT !.position = @ + size])
             /\ UNCHANGED crashed

Seek ==
  \E p \in -1 .. MaxBytes :
    Becomes([stream EXCEPT !.position = p]) /\ UNCHANGED <<moved, crashed>>

SetLength ==
  \E n \in 0 .. MaxBytes :
    /\ \/ n <= Capacity(stream) /\ Becomes([stream EXCEPT !.length = n])
       \/ n > Capacity(stream) /\ Becomes([SetCapacity(stream, n) EXCEPT !.length = n])
       \/ n > Capacity(stream) /\ Becomes(stream)
    /\ UNCHANGED <<moved, crashed>>

Reserve ==
  \E n \in 0 .. MaxBytes :
    Becomes(SetCapacity(stream, n)) /\ UNCHANGED <<moved, crashed>>

(* g_stream_read_all_content, if it has a block to read into.              *)
ReadAll ==
  /\ moved' = SubSeq(stream.buffer, 1, stream.length)
  /\ Becomes([stream EXCEPT !.position = stream.length])
  /\ UNCHANGED crashed

StreamStep ==
  /\ which = "GMemoryStream" /\ ~crashed
  /\ Write \/ Read \/ Seek \/ SetLength \/ Reserve \/ ReadAll
  /\ UNCHANGED <<which, stringVars>>

-----------------------------------------------------------------------------
(* _string_putc of a character.  can: there is memory for a chunk.  A      *)
(* string that could not grow takes what it has for its limit.             *)
PutChar_Retries(s, c, can) ==
  LET store(t) == [t EXCEPT !.value[t.len + 1] = c, !.len = @ + 1]
  IN  IF s.len + 1 < Alloc(s) THEN store(s)
      ELSE IF s.max_len = 0 /\ can
      THEN store([s EXCEPT !.value = Realloc(@, Alloc(s) + ChunkSize)])
      ELSE s
PutChar(s, c, can) ==
  LET store(t) == [t EXCEPT !.value[t.len + 1] = c, !.len = @ + 1]
  IN  IF s.len + 1 < Alloc(s) THEN store(s)
      ELSE IF s.max_len # 0 THEN s
      ELSE IF can THEN store([s EXCEPT !.value = Realloc(@, Alloc(s) + ChunkSize)])
      ELSE [s EXCEPT !.max_len = IF Alloc(s) = 0 THEN -1 ELSE Alloc(s) - 1]

(* _string_putc of the terminating zero.                                   *)
Terminate(s) == IF s.len < Alloc(s) THEN [s EXCEPT !.value[s.len + 1] = Nul] ELSE s

(* g_string_append_with.                                                   *)
AppendText(chars, can) ==
  /\ string' = Terminate(FoldLeft(LAMBDA s, i : PutChar(s, chars[i], can[i]),
                                  string, [i \in DOMAIN chars |-> i]))
  /\ text' = text \o chars

Reset ==
  /\ Alloc(string) > 0
  /\ string' = [string EXCEPT !.len = 0, !.value[1] = Nul]
  /\ text' = <<>>

StringStep ==
  /\ which = "GString"
  /\ \/ \E chars \in Texts, can \in [1 .. MaxWrite -> BOOLEAN] :
          Len(text) + Len(chars) <= MaxBytes /\ AppendText(chars, can)
     \/ Reset
  /\ UNCHANGED <<which, stream, moved, crashed, strayed>>

Next == StreamStep \/ StringStep

Spec == Init /\ [][Next]_vars

-----------------------------------------------------------------------------
(* A client that keeps its position inside the file never makes the stream *)
(* copy bytes that are outside its block, whichever calls failed: neither  *)
(* the doubled nor the exact capacity is ever too small, and no shrinking  *)
(* of the block cuts the file.                                             *)
CopiesStayInside ==
  /\ crashed => strayed
  /\ stream.length \in 0 .. Capacity(stream)

(* A string that memory cut short stays cut: its characters are always the *)
(* first of those that were put in it, without a hole, and the zero behind *)
(* them is inside the block.                                               *)
StringIsPrefix ==
  LET chars == SubSeq(string.value, 1, string.len)
  IN  /\ IsPrefix(chars, text)
      /\ string.max_len = 0 => chars = text
      /\ Alloc(string) > 0 =>
           string.len < Alloc(string) /\ string.value[string.len + 1] = Nul

(* A stream is a file: reallocation loses nothing, a write that failed     *)
(* changed nothing, a read returns what was last written there.            *)
File == INSTANCE ByteFile WITH
  MaxLength <- MaxBytes,
  content <- SubSeq(stream.buffer, 1, stream.length),
  position <- stream.position

ImplementsFile == File!Spec
=============================================================================
