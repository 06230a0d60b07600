------------------------------ MODULE ItemList ------------------------------
(***************************************************************************)
(* What the sequence containers (GArray, GPtrArray, GList) promise: a      *)
(* sequence of items on which each call does what its name says, or, when  *)
(* it reports that memory ran out, nothing.  A container that is made      *)
(* longer keeps its items; the promise does not say what the new ones are. *)
(***************************************************************************)
EXTENDS Naturals, Sequences, SequencesExt

CONSTANT Items

VARIABLES
  items,
  call,       \* the last call: its name, its index or size, its items
  done        \* it was carried out

vars == <<items, call, done>>

Init == items = <<>> /\ call = [op |-> "new", n |-> 0, with |-> <<>>] /\ done = TRUE

(* The items after a call that was carried out.                            *)
Insert == items' = InsertAt(items, call'.n + 1, call'.with[1])
AppendItems == items' = items \o call'.with
PrependItems == items' = call'.with \o items
Set == items' = [items EXCEPT ![call'.n + 1] = call'.with[1]]
RemoveIndex == items' = RemoveAt(items, call'.n + 1)
RemoveItem ==
  items' = IF Contains(items, call'.with[1])
           THEN RemoveFirst(items, call'.with[1]) ELSE items
SetSize ==
  /\ Len(items') = call'.n
  /\ \A i \in DOMAIN items \cap DOMAIN items' : items'[i] = items[i]
Keep == items' = items

Next ==
  IF ~done' THEN Keep
  ELSE \/ call'.op = "insert" /\ Insert
       \/ call'.op = "append" /\ AppendItems
       \/ call'.op = "prepend" /\ PrependItems
       \/ call'.op = "set" /\ Set
       \/ call'.op = "remove" /\ RemoveIndex
       \/ call'.op = "remove_item" /\ RemoveItem
       \/ call'.op = "size" /\ SetSize
       \/ call'.op \in {"new", "capacity"} /\ Keep
       \/ call'.op = "free" /\ items' = <<>>

Spec == Init /\ [][Next]_vars
=============================================================================
