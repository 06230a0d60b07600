------------------------------ MODULE FiniteMap ------------------------------
(***************************************************************************)
(* What a GMap promises its client: a finite function from keys to values, *)
(* which releases a value, with the callback that came with it or the      *)
(* map's own, at the moment the value leaves the map, and only then.  A    *)
(* set may fail for lack of memory and then changes nothing.               *)
(***************************************************************************)
EXTENDS Naturals

CONSTANTS
  Keys,
  Values,
  Callbacks,
  None        \* in Callbacks: the value is not the map's to release

VARIABLES
  content,    \* key -> [value, by]
  out,        \* the values released so far, with the callback that did it
  answer,     \* the last call and what it returned
  open

vars == <<content, out, answer, open>>

Item == [value: Values, by: Callbacks]
Answer(call, key, result) == [call |-> call, key |-> key, result |-> result]
Released(items) == {e \in items : e.by # None}
At(k) == {content[j] : j \in DOMAIN content \cap {k}}

Init ==
  /\ content = <<>> /\ out = {} /\ open = TRUE
  /\ answer = Answer("new", 0, 0)

Set(k, e) ==
  /\ content' = [j \in DOMAIN content \cup {k} |-> IF j = k THEN e ELSE content[j]]
  /\ out' = out \cup Released(At(k))
  /\ answer' = Answer("set", k, 1)
  /\ UNCHANGED open

SetFails(k) ==
  /\ answer' = Answer("set", k, 0)
  /\ UNCHANGED <<content, out, open>>

Get(k) ==
  /\ answer' = Answer("get", k, IF k \in DOMAIN content THEN content[k].value ELSE 0)
  /\ UNCHANGED <<content, out, open>>

Remove(k) ==
  /\ content' = [j \in DOMAIN content \ {k} |-> content[j]]
  /\ out' = out \cup Released(At(k))
  /\ answer' = Answer("remove", k, 0)
  /\ UNCHANGED open

Clear(call) ==
  /\ content' = <<>>
  /\ out' = out \cup Released({content[j] : j \in DOMAIN content})
  /\ answer' = Answer(call, 0, 0)
  /\ open' = (call # "free")

Next ==
  /\ open
  /\ \/ \E k \in Keys :
          \/ \E e \in Item : Set(k, e)
          \/ SetFails(k)
          \/ Get(k)
          \/ Remove(k)
     \/ \E call \in {"remove_all", "free"} : Clear(call)

Spec == Init /\ [][Next]_vars
=============================================================================
