----------------------------- MODULE BoundedFifo -----------------------------
(***************************************************************************)
(* What a channel promises its two ends, whatever the callbacks on its     *)
(* events do: an item is received once, in the order of sending; data are  *)
(* refused while Capacity items are pending (errors and the close marker   *)
(* are not); nothing is sent after the close marker.                       *)
(***************************************************************************)
EXTENDS Naturals, Sequences

CONSTANTS
  Capacity,    \* 0: unbounded
  Data,        \* the kind of an item that is neither error nor close marker
  Closed       \* the kind of the close marker

VARIABLES sent, received, closed

vars == <<sent, received, closed>>

Pending == Len(sent) - Len(received)

Init == sent = <<>> /\ received = <<>> /\ closed = FALSE

Put(item) ==
  /\ ~closed
  /\ item.kind = Data /\ Capacity > 0 => Pending < Capacity
  /\ sent' = Append(sent, item)
  /\ closed' = (item.kind = Closed)
  /\ UNCHANGED received

Get ==
  /\ Pending > 0
  /\ received' = Append(received, sent[Len(received) + 1])
  /\ UNCHANGED <<sent, closed>>

(* The item sent is read off the next state.                               *)
Next == Get \/ (Len(sent') > 0 /\ Put(sent'[Len(sent')]))

Spec == Init /\ [][Next]_vars
=============================================================================
