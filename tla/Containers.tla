----------------------------- MODULE Containers -----------------------------
(***************************************************************************)
(* One client of one container, a GArray, a GPtrArray or a GList, making   *)
(* every call in every order while memory may run out.  The container is   *)
(* the record that its module describes; what the client sees of it is     *)
(* Contents.  Reading calls change nothing and read Contents.              *)
(***************************************************************************)
EXTENDS GArray, GPtrArray, GList, FiniteSets, SequencesExt

CONSTANTS
  Things,       \* what clients store
  MaxSize,      \* bound: items in a container
  MaxNodes,     \* bound: nodes allocated by a list
  MaxBatch      \* bound: items appended or prepended by one call

ContainersAssumption ==
  /\ ArrayAssumption
  /\ MaxSize \in Nat /\ MaxNodes \in Nat /\ MaxBatch \in Nat
  /\ MaxSize * ItemLen < Width
  /\ Garbage \notin Things \cup {Nil}    \* told apart from what anyone stored

VARIABLES
  kind,
  store,
  call,
  done,
  sized      \* history: a GPtrArray that had a block was made longer by
             \*   g_ptr_array_set_size

vars == <<kind, store, call, done, sized>>

Kinds == {"GArray", "GPtrArray", "GList"}
Call(op, n, with) == [op |-> op, n |-> n, with |-> with]

New(k) ==
  CASE k = "GArray" -> NewArray [] k = "GPtrArray" -> NewPtrArray [] OTHER -> NewList

Contents ==
  CASE kind = "GArray"    -> ArrayItems(store)
    [] kind = "GPtrArray" -> PtrItems(store)
    [] OTHER              -> ListItems(store)
Size == Len(Contents)

Init ==
  /\ kind \in Kinds
  /\ store = New(kind)
  /\ call = Call("new", 0, <<>>) /\ done = TRUE
  /\ sized = FALSE

-----------------------------------------------------------------------------
(* A call: carried out with this result, or given up for lack of memory if *)
(* it needs any.                                                           *)
Calls(op, n, with, needs, result) ==
  /\ call.op # "free"
  /\ call' = Call(op, n, with)
  /\ \/ store' = result /\ done' = TRUE
     \/ needs /\ UNCHANGED store /\ done' = FALSE
  /\ UNCHANGED kind

Batches == UNION {[1 .. n -> Things] : n \in 1 .. MaxBatch}
Fits(n) == Size + n <= MaxSize

ArrayCalls ==
  /\ kind = "GArray"
  /\ \/ \E i \in 0 .. Size, x \in Things :
          /\ Fits(1)
          /\ Calls("insert", i, <<x>>, NeedsMemory(store, ItemLen),
                   ArrayInsert(store, i, x))
     \/ \E i \in 0 .. Size - 1 :
          Calls("remove", i, <<>>, FALSE, ArrayRemove(store, i))
     \/ \E i \in 0 .. Size - 1, x \in Things :
          Calls("set", i, <<x>>, FALSE, ArraySet(store, i, x))
     \/ \E xs \in Batches :
          /\ Fits(Len(xs))
          /\ \/ Calls("append", 0, xs, NeedsMemory(store, ItemLen * Len(xs)),
                      ArrayAppend(store, xs))
             \/ Calls("prepend", 0, xs, NeedsMemory(store, ItemLen * Len(xs)),
                      ArrayPrepend(store, xs))
     \/ \E n \in 0 .. MaxSize :
          \/ Calls("size", n, <<>>,
                   NeedsMemory(store, SizeDifference(store, n)),
                   ArraySetSize(store, n))
          \/ Calls("capacity", n, <<>>, n * ItemLen > store.alloc,
                   ArraySetCapacity(store, n))
  /\ UNCHANGED sized

PtrArrayCalls ==
  /\ kind = "GPtrArray"
  /\ \/ /\ \/ \E i \in 0 .. Size, x \in Things :
                /\ Fits(1)
                /\ Calls("insert", i, <<x>>, PtrNeedsMemory(store, 1),
                         PtrInsert(store, i, x))
           \/ \E i \in 0 .. Size - 1 :
                Calls("remove", i, <<>>, FALSE, PtrRemove(store, i))
           \/ \E i \in 0 .. Size - 1, x \in Things :
                Calls("set", i, <<x>>, FALSE, PtrSet(store, i, x))
           \/ \E xs \in Batches :
                /\ Fits(Len(xs))
                /\ \/ Calls("append", 0, xs, PtrNeedsMemory(store, Len(xs)),
                            PtrAppend(store, xs))
                   \/ Calls("prepend", 0, xs, PtrNeedsMemory(store, Len(xs)),
                            PtrPrepend(store, xs))
           \/ \E n \in 0 .. MaxSize :
                Calls("capacity", n, <<>>, n > store.alloc, PtrSetCapacity(store, n))
        /\ UNCHANGED sized
     \/ \E n \in 0 .. MaxSize :
          /\ Calls("size", n, <<>>, n > store.alloc, PtrSetSize(store, n))
          /\ sized' = (sized \/ (store.alloc > 0 /\ n > Size))

(* An append for which there is no memory is dropped silently; a prepend   *)
(* would use the missing node, and is left out then.                       *)
ListCalls ==
  /\ kind = "GList"
  /\ \E x \in Things :
       \/ /\ Len(store.node) < MaxNodes
          /\ \/ Calls("append", 0, <<x>>, TRUE, ListAppend(store, x))
             \/ Calls("prepend", 0, <<x>>, FALSE, ListPrepend(store, x))
       \/ Calls("remove_item", 0, <<x>>, FALSE, ListRemove(store, x))
  /\ UNCHANGED sized

Free ==
  /\ Calls("free", 0, <<>>, FALSE,
           IF kind = "GList" THEN ListFree(store) ELSE New(kind))
  /\ UNCHANGED sized

Next == ArrayCalls \/ PtrArrayCalls \/ ListCalls \/ Free

Spec == Init /\ [][Next]_vars

-----------------------------------------------------------------------------
(* The bytes in use lie inside the block, which is whole items long, also  *)
(* after the differences in g_array_set_size have wrapped.                 *)
TypeOK ==
  /\ kind \in Kinds /\ done \in BOOLEAN /\ sized \in BOOLEAN
  /\ kind = "GArray" =>
       /\ store.len \in 0 .. store.alloc /\ store.alloc \in 0 .. Width - 1
       /\ store.len % ItemLen = 0 /\ store.alloc = ItemLen * Len(store.data)
       /\ store.data \in Seq(Things \cup {Zero})
  /\ kind = "GPtrArray" =>
       /\ store.size \in 0 .. store.alloc /\ store.alloc = Len(store.data)
       /\ store.data \in Seq(Things \cup {Nil, Garbage})
  /\ kind = "GList" =>
       /\ store.head \in 0 .. Len(store.node)
       /\ store.node \in Seq([data: Things, next: 0 .. Len(store.node), freed: Nat])

(* Each call has the effect its name says on the sequence the client sees, *)
(* and a call that reports failure has none: no shift is too short, too    *)
(* long or in the wrong direction, whatever lies behind the last item.     *)
List == INSTANCE ItemList WITH items <- Contents, Items <- Things

ImplementsList == List!Spec

(* No client reads an uninitialised pointer, as long as it sizes an array  *)
(* once, while it is new, the way gprotobuf.c does: stale and new slots    *)
(* stay behind the end until something is stored in them.                  *)
NothingUndefined ==
  kind = "GPtrArray" /\ ~sized => ~Contains(Contents, Garbage)

(* Every node is on the chain once or was released once: unlinking the     *)
(* first, the last, or the only node loses none and frees none too early.  *)
NodesAccounted ==
  kind = "GList" =>
    /\ IsInjective(Walk(store))
    /\ \A n \in DOMAIN store.node :
         store.node[n].freed = IF Contains(Walk(store), n) THEN 0 ELSE 1
=============================================================================
