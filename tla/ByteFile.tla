------------------------------ MODULE ByteFile ------------------------------
(***************************************************************************)
(* What a stream promises: a file of bytes with a position.  A write is    *)
(* carried out whole or not at all, a read returns what was last written   *)
(* at the position.  The promise does not say what the bytes are that a    *)
(* client skipped over or moved by making the file longer.                   *)
(***************************************************************************)
EXTENDS Integers, Sequences

CONSTANT MaxLength

VARIABLES
  content,
  position,
  moved       \* what the last call wrote or read

vars == <<content, position, moved>>

Lesser(m, n) == IF m < n THEN m ELSE n
Greater(m, n) == IF m > n THEN m ELSE n

Init == content = <<>> /\ position = 0 /\ moved = <<>>

Write ==
  /\ position >= 0 /\ moved' # <<>>
  /\ position' = position + Len(moved')
  /\ Len(content') = Greater(Len(content), position')
  /\ \A i \in DOMAIN content' :
       /\ i > position /\ i <= position' => content'[i] = moved'[i - position]
       /\ i \in DOMAIN content /\ (i <= position \/ i > position') =>
            content'[i] = content[i]

Read(n) ==
  /\ n = 0 \/ position >= 0
  /\ moved' = IF n = 0 THEN <<>>
            ELSE SubSeq(content, position + 1, Lesser(position + n, Len(content)))
  /\ position' = position + Len(moved')
  /\ UNCHANGED content

Seek == UNCHANGED <<content, moved>>

Resize ==
  /\ \A i \in DOMAIN content \cap DOMAIN content' : content'[i] = content[i]
  /\ UNCHANGED <<position, moved>>

ReadAll == moved' = content /\ position' = Len(content) /\ UNCHANGED content

Next ==
  \/ Write
  \/ \E n \in 0 .. MaxLength : Read(n)
  \/ Seek \/ Resize \/ ReadAll

Spec == Init /\ [][Next]_vars
=============================================================================
