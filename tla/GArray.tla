------------------------------- MODULE GArray -------------------------------
(***************************************************************************)
(* GArray (src/src/garray.c): items of item_len bytes in one block.  The   *)
(* struct is a record: len and alloc in bytes (guint), data the item slots *)
(* of the block, those behind len included.  An operator gives the struct  *)
(* after a call for which g_realloc, if it was needed, succeeded;          *)
(* NeedsMemory says whether it was.                                        *)
(***************************************************************************)
EXTENDS Integers, Sequences

CONSTANTS
  ItemLen,      \* item_len
  Width,        \* guint arithmetic is modulo this
  Zero          \* an item of zero bytes

ArrayAssumption == ItemLen \in Nat \ {0} /\ Width \in Nat \ {0}

Wrap(n) == n % Width

NewArray == [len |-> 0, alloc |-> 0, data |-> <<>>]

ArraySize(a) == a.len \div ItemLen
ArrayItems(a) == SubSeq(a.data, 1, ArraySize(a))

(* g_array_maybe_expand                                                    *)
NeedsMemory_OneLess(a, bytes) == Wrap(a.len + bytes) > a.alloc + ItemLen
NeedsMemory(a, bytes) == Wrap(a.len + bytes) > a.alloc
Expand(a, bytes) ==
  IF NeedsMemory(a, bytes)
  THEN [a EXCEPT
         !.alloc = Wrap(a.len + bytes),
         !.data = @ \o [i \in 1 .. (Wrap(a.len + bytes) - a.alloc) \div ItemLen |->
                          Zero]]
  ELSE a

(* g_memmove of n items between slots counted from 0; memcpy of items.     *)
Move(d, to, from, n) ==
  [j \in DOMAIN d |-> IF to < j /\ j <= to + n THEN d[j - to + from] ELSE d[j]]
Write(d, to, items) ==
  [j \in DOMAIN d |->
     IF to < j /\ j <= to + Len(items) THEN items[j - to] ELSE d[j]]

ArrayAppend(a, items) ==
  LET b == Expand(a, ItemLen * Len(items))
  IN  [b EXCEPT !.data = Write(@, ArraySize(a), items),
                !.len = @ + ItemLen * Len(items)]

ArrayPrepend_ShortMove(a, items) ==
  LET b == Expand(a, ItemLen * Len(items))
      moved == Move(b.data, Len(items), 0, ArraySize(a) - Len(items))
  IN  [b EXCEPT !.data = Write(moved, 0, items), !.len = @ + ItemLen * Len(items)]
ArrayPrepend(a, items) ==
  LET b == Expand(a, ItemLen * Len(items))
      moved == Move(b.data, Len(items), 0, ArraySize(a))
  IN  [b EXCEPT !.data = Write(moved, 0, items), !.len = @ + ItemLen * Len(items)]

(* g_array_set_size: a shorter length makes the difference wrap, and the   *)
(* sum in g_array_maybe_expand wraps back.                                 *)
SizeDifference(a, n) == Wrap(n * ItemLen - a.len)
ArraySetSize(a, n) ==
  [Expand(a, SizeDifference(a, n)) EXCEPT !.len = Wrap(n * ItemLen)]

ArraySetCapacity(a, n) ==
  IF n * ItemLen > a.len THEN Expand(a, n * ItemLen - a.len) ELSE a

ArrayRemove(a, i) ==
  LET n == ArraySize(a)
  IN  [a EXCEPT !.data = IF i < n - 1 THEN Move(@, i, i + 1, n - (1 + i)) ELSE @,
                !.len = @ - ItemLen]

ArraySet(a, i, x) == [a EXCEPT !.data = Write(@, i, <<x>>)]

ArrayInsert(a, i, x) ==
  LET b == Expand(a, ItemLen)
      n == ArraySize(a) + 1
      moved == IF i < n - 1 THEN Move(b.data, i + 1, i, n - (1 + i)) ELSE b.data
  IN  [b EXCEPT !.data = Write(moved, i, <<x>>), !.len = @ + ItemLen]
=============================================================================
