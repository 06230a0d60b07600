------------------------------- MODULE Inputs --------------------------------
(***************************************************************************)
(* The input of a pure function, which grows item by item.                 *)
(***************************************************************************)
EXTENDS Naturals, Sequences

VARIABLES
  subject,    \* the functions it is for
  input

vars == <<subject, input>>

Extend(max, items) ==
  /\ Len(input) < max
  /\ \E item \in items : input' = Append(input, item)
  /\ UNCHANGED subject
=============================================================================
