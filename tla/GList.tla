-------------------------------- MODULE GList --------------------------------
(***************************************************************************)
(* GList (src/src/glist.c): a chain of nodes.  The struct and its heap are *)
(* a record: head is a node or 0, and node[n] says what node n holds,      *)
(* which node is next and how often it was released.                       *)
(***************************************************************************)
EXTENDS Integers, Sequences

NewList == [head |-> 0, node |-> <<>>]

(* The nodes from the head on, as every loop of glist.c meets them.        *)
Walk(l) ==
  LET at[k \in 1 .. Len(l.node) + 1] ==
        IF k = 1 THEN l.head
        ELSE IF at[k - 1] = 0 THEN 0 ELSE l.node[at[k - 1]].next
  IN  [k \in {j \in DOMAIN at : at[j] # 0} |-> at[k]]

ListItems(l) ==
  LET nodes == Walk(l) IN [k \in DOMAIN nodes |-> l.node[nodes[k]].data]

NodeNew(l, x, next) ==
  [l EXCEPT !.node = Append(@, [data |-> x, next |-> next, freed |-> 0])]

(* g_list_append goes to the last node; g_list_prepend does not.           *)
ListAppend(l, x) ==
  LET n == Len(l.node) + 1
      m == NodeNew(l, x, 0)
      last == Walk(l)[Len(Walk(l))]
  IN  IF l.head = 0 THEN [m EXCEPT !.head = n] ELSE [m EXCEPT !.node[last].next = n]

ListPrepend(l, x) == [NodeNew(l, x, l.head) EXCEPT !.head = Len(l.node) + 1]

(* g_list_remove: the first node that holds x is unlinked and released.    *)
Unlink_KeepsHead(l, prev, n) ==
  IF prev = 0 THEN l ELSE [l EXCEPT !.node[prev].next = l.node[n].next]
Unlink(l, prev, n) ==
  IF prev = 0 THEN [l EXCEPT !.head = l.node[n].next]
  ELSE [l EXCEPT !.node[prev].next = l.node[n].next]

ListRemove(l, x) ==
  LET nodes == Walk(l)
      holding == {k \in DOMAIN nodes : l.node[nodes[k]].data = x}
  IN  IF holding = {} THEN l
      ELSE LET k == CHOOSE k \in holding : \A j \in holding : k <= j
               n == nodes[k]
               prev == IF k = 1 THEN 0 ELSE nodes[k - 1]
           IN  [Unlink(l, prev, n) EXCEPT
                  !.node[n].next = 0, !.node[n].freed = @ + 1]

(* g_list_free releases the nodes it meets.                                *)
ListFree(l) ==
  LET nodes == Walk(l)
  IN  [head |-> 0,
       node |-> [n \in DOMAIN l.node |->
                   IF \E k \in DOMAIN nodes : nodes[k] = n
                   THEN [l.node[n] EXCEPT !.freed = @ + 1] ELSE l.node[n]]]
=============================================================================
