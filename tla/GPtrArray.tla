------------------------------ MODULE GPtrArray ------------------------------
(***************************************************************************)
(* GPtrArray (src/src/garray.c): pointers in one block, of which size are  *)
(* in use.  The block is first allocated zeroed and later grown by         *)
(* g_realloc, whose new slots are not: the memset after it counts slots    *)
(* but clears bytes.                                                       *)
(***************************************************************************)
EXTENDS Integers, Sequences

CONSTANTS
  PointerSize,   \* sizeof(gpointer)
  Nil,           \* the NULL pointer
  Garbage        \* what an uninitialised slot holds

NewPtrArray == [size |-> 0, alloc |-> 0, data |-> <<>>]

PtrItems(p) == SubSeq(p.data, 1, p.size)

(* g_ptr_array_maybe_expand                                                *)
PtrNeedsMemory(p, n) == p.size + n > p.alloc
NewSlots_NeverZeroed(p, n) == [i \in 1 .. n |-> IF i <= n \div PointerSize THEN Nil ELSE Garbage]
NewSlots(p, n) ==
  [i \in 1 .. n |->
     IF p.alloc = 0 \/ i <= n \div PointerSize THEN Nil ELSE Garbage]
PtrExpand(p, n) ==
  IF PtrNeedsMemory(p, n)
  THEN [p EXCEPT !.alloc = p.size + n,
                 !.data = @ \o NewSlots(p, p.size + n - p.alloc)]
  ELSE p

PtrSetCapacity(p, n) == IF n > p.size THEN PtrExpand(p, n - p.size) ELSE p
PtrSetSize(p, n) == [PtrSetCapacity(p, n) EXCEPT !.size = n]

(* The loops of remove and insert move one slot at a time.                 *)
PtrRemove(p, i) ==
  [p EXCEPT !.data = [j \in DOMAIN @ |->
                        CASE i < j /\ j < p.size -> @[j + 1]
                          [] j = p.size          -> Nil
                          [] OTHER               -> @[j]],
            !.size = @ - 1]

PtrInsert(p, i, x) ==
  LET q == PtrExpand(p, 1)
  IN  [q EXCEPT !.data = [j \in DOMAIN @ |->
                            CASE j = i + 1                      -> x
                              [] i + 1 < j /\ j <= p.size + 1   -> @[j - 1]
                              [] OTHER                          -> @[j]],
                !.size = @ + 1]

PtrSet(p, i, x) == [p EXCEPT !.data[i + 1] = x]

PtrAppend(p, items) ==
  LET q == PtrExpand(p, Len(items))
  IN  [q EXCEPT !.data = [j \in DOMAIN @ |->
                            IF p.size < j /\ j <= p.size + Len(items)
                            THEN items[j - p.size] ELSE @[j]],
                !.size = @ + Len(items)]

PtrPrepend(p, items) ==
  LET q == PtrExpand(p, Len(items))
      n == Len(items)
  IN  [q EXCEPT !.data = [j \in DOMAIN @ |->
                            CASE j <= n               -> items[j]
                              [] n < j /\ j <= n + p.size -> @[j - n]
                              [] OTHER                -> @[j]],
                !.size = @ + n]
=============================================================================
