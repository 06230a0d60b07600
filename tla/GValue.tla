------------------------------- MODULE GValue -------------------------------
(***************************************************************************)
(* GValue (src/src/gvalue.c): a tagged value that may share a payload with *)
(* other values through a separately allocated reference count.            *)
(*                                                                         *)
(* The first half is the library: operators on a heap of value structs,    *)
(* counters and payloads.  The second half is a client that uses values    *)
(* the way the library's own callers do: a struct is initialised, set,     *)
(* assigned from another one, and freed once.  What a value holds is       *)
(* abstracted to plain data (no free callback) or a payload that must be   *)
(* released through the free callback.                                     *)
(***************************************************************************)
EXTENDS Naturals, Sequences, FiniteSets

CONSTANTS
  Cells,         \* the value structs a client has
  MaxPayloads,   \* bound: payloads created in one behaviour
  AllocMayFail   \* may g_new fail (g_mem_record_set_max)?

ASSUME ValueAssumption ==
  /\ MaxPayloads \in Nat
  /\ AllocMayFail \in BOOLEAN

(* A struct: its type, refs (0 is NULL, otherwise the number of a counter) *)
(* and the payload behind data.v_pointer with its free_callback (0 for     *)
(* plain data, whose free_callback is NULL).  Freeing a value's data       *)
(* changes its type only.                                                  *)
Types == {"NULL", "PLAIN", "POINTER"}
Cell == [type: Types, refs: Nat, payload: Nat]
Counter == [count: Nat, freed: Nat]

(* The heap: the structs, the counters allocated so far, how often each    *)
(* payload was released, and whether a released counter was used.          *)
Heap == [cell: [Cells -> Cell], counter: Seq(Counter),
         released: Seq(Nat), fault: BOOLEAN]

Fresh == [type |-> "NULL", refs |-> 0, payload |-> 0]

-----------------------------------------------------------------------------
(* g_value_free_data: releases the counter and the payload, forgets the    *)
(* type; refs, data and free_callback stay as they are.                    *)
FreeCounter(h, r) ==
  IF r = 0 THEN h ELSE [h EXCEPT !.counter[r].freed = @ + 1]
ReleasePayload(h, p) ==
  IF p = 0 THEN h ELSE [h EXCEPT !.released[p] = @ + 1]
FreeData(h, c) ==
  LET v == h.cell[c]
  IN  [ReleasePayload(FreeCounter(h, v.refs), v.payload) EXCEPT !.cell[c].type = "NULL"]

Uses(h, r) == [h EXCEPT !.fault = @ \/ h.counter[r].freed > 0]
AddTo(h, r, n) == [Uses(h, r) EXCEPT !.counter[r].count = @ + n]

(* g_value_unref                                                           *)
Unref(h, c) ==
  LET r == h.cell[c].refs
      g == [Uses(h, r) EXCEPT !.counter[r].count = @ - 1]
  IN  CASE r = 0                            -> FreeData(h, c)
        [] r # 0 /\ h.counter[r].count = 0 -> Uses(h, r)
        [] r # 0 /\ h.counter[r].count = 1 -> FreeData(g, c)
        [] OTHER                            -> g

(* g_new(gint) for d's counter, with its first value.                      *)
NewCounter(h, d, n) ==
  [h EXCEPT !.counter = Append(@, [count |-> n, freed |-> 0]),
            !.cell[d].refs = Len(h.counter) + 1]

Copy(h, c, d) == [h EXCEPT !.cell[c] = h.cell[d]]

(* g_value_set of plain data, and of a payload p with a free callback.     *)
SetTo(h, c, type, p) ==
  [Unref(h, c) EXCEPT !.cell[c] = [type |-> type, refs |-> 0, payload |-> p]]

(* g_value_assign(c, d), when its allocation (if it needs one) succeeds.   *)
Assign(h, c, d) ==
  LET v == h.cell[d]
  IN  CASE v.payload = 0             -> Copy(Unref(h, c), c, d)
        [] v.payload # 0 /\ v.refs = 0 ->
             Copy(Unref(NewCounter(h, d, 2), c), c, d)
        [] OTHER -> AddTo(Copy(Unref(h, c), c, d), v.refs, 1)

(* g_value_ref: counts from 1, so the first call adds no reference.        *)
Ref(h, d) ==
  LET v == h.cell[d]
  IN  CASE v.refs # 0    -> AddTo(h, v.refs, 1)
        [] v.refs = 0 /\ v.payload # 0 -> NewCounter(h, d, 1)
        [] OTHER         -> h

NeedsCounter(h, d) == h.cell[d].payload # 0 /\ h.cell[d].refs = 0

-----------------------------------------------------------------------------
VARIABLES
  heap,
  live       \* the structs the client has initialised and not freed

vars == <<heap, live>>

Init ==
  /\ heap = [cell |-> [c \in Cells |-> Fresh], counter |-> <<>>,
             released |-> <<>>, fault |-> FALSE]
  /\ live = {}

(* g_value_new, or a struct zeroed with the one that embeds it.            *)
New(c) ==
  /\ c \notin live
  /\ live' = live \cup {c}
  /\ heap' = [heap EXCEPT !.cell[c] = Fresh]

SetPlain(c) ==
  /\ c \in live
  /\ heap' = SetTo(heap, c, "PLAIN", 0)
  /\ UNCHANGED live

(* g_value_set with a payload that was just created and its free callback. *)
SetPayload(c) ==
  /\ c \in live
  /\ Len(heap.released) < MaxPayloads
  /\ heap' = LET p == Len(heap.released) + 1
             IN  [SetTo(heap, c, "POINTER", p) EXCEPT !.released = Append(@, 0)]
  /\ UNCHANGED live

(* Two different structs: assigning a value to itself is outside the       *)
(* library's use (it drops the last reference before it copies).           *)
AssignFrom(c, d) ==
  /\ c \in live /\ d \in live /\ c # d
  /\ \/ heap' = Assign(heap, c, d)
     \/ AllocMayFail /\ NeedsCounter(heap, d) /\ UNCHANGED heap
  /\ UNCHANGED live

(* g_value_free, or g_value_unref of an embedded struct before its owner   *)
(* is freed: the struct is not used again.                                 *)
Free(c) ==
  /\ c \in live
  /\ live' = live \ {c}
  /\ heap' = Unref(heap, c)

-----------------------------------------------------------------------------
Holders(p) == {c \in live : heap.cell[c].payload = p /\ heap.cell[c].type # "NULL"}
Sharers(r) == {c \in live : heap.cell[c].refs = r /\ heap.cell[c].type # "NULL"}

(* A payload is released exactly when the last value that holds it lets it *)
(* go, and once: never under a value that can still read it, and never     *)
(* leaked.  The same holds of counters, and no released counter is read.   *)
ReleasedWithLastHolder ==
  /\ ~heap.fault
  /\ \A p \in DOMAIN heap.released :
       heap.released[p] = IF Holders(p) = {} THEN 1 ELSE 0
  /\ \A r \in DOMAIN heap.counter :
       heap.counter[r].freed = IF Sharers(r) = {} THEN 1 ELSE 0

(* A counter counts the values that share it, and all values that hold a   *)
(* payload agree on its counter; a value without one is the only holder.   *)
CountIsSharers ==
  /\ \A r \in DOMAIN heap.counter :
       IF heap.counter[r].freed = 0
       THEN heap.counter[r].count = Cardinality(Sharers(r)) /\ Sharers(r) # {}
       ELSE Sharers(r) = {}
  /\ \A c, d \in live :
       LET v == heap.cell[c]
           w == heap.cell[d]
       IN  v.payload # 0 /\ v.payload = w.payload
             /\ v.type # "NULL" /\ w.type # "NULL" /\ c # d =>
             v.refs = w.refs /\ v.refs # 0
=============================================================================
