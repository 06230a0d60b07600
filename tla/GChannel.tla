------------------------------ MODULE GChannel ------------------------------
(***************************************************************************)
(* GChannel (src/src/gchannel.c): a bounded queue of values with a close   *)
(* marker, and two events its users hang callbacks on.  An event fires     *)
(* inside g_channel_write and g_channel_read, so a callback may call the   *)
(* channel again; g_event_fire refuses to fire an event that is firing     *)
(* (GEvent: NoRefire, for callbacks that remove no listener), so such a    *)
(* call still changes the queue but nobody hears of it.                    *)
(*                                                                         *)
(* One listener stands for all the listeners of an event: what they do, in *)
(* any number, is a sequence of calls made while the event is firing.      *)
(* Items are told apart by the order of writing; who owns the values is    *)
(* the subject of ChannelValues.                                           *)
(***************************************************************************)
EXTENDS Naturals, Sequences, SequencesExt

CONSTANTS
  Capacity,      \* g_channel_new(max); 0 is unbounded
  MaxWrites,     \* bound: accepted writes in one behaviour
  OnWriteOps,    \* what callbacks of on_write call:
  OnReadOps,     \*   subsets of {"write", "error", "close", "read"}
  AllocMayFail   \* may a reallocation fail (g_mem_record_set_max)?

Ops == {"write", "error", "close", "read"}

ASSUME ChannelAssumption ==
  /\ Capacity \in Nat
  /\ MaxWrites \in Nat
  /\ OnWriteOps \subseteq Ops
  /\ OnReadOps \subseteq Ops
  /\ AllocMayFail \in BOOLEAN

VARIABLES
  items,       \* items->data up to its length
  alloc,       \* items->alloc, in items
  closed,
  firing,      \* the g_event_fire calls in progress, innermost last
  alive,       \* g_channel_free has not been called
  accepted,    \* history: the writes that returned TRUE
  stored,      \* history: those g_array_add could store
  delivered,   \* history: the items read
  announced,   \* history: the items on_write fired with
  taken,       \* history: the items on_read fired with
  cramped      \* history: how many writes were accepted before the array had
               \*   memory for Capacity items

vars == <<items, alloc, closed, firing, alive,
          accepted, stored, delivered, announced, taken, cramped>>

Events == {"on_write", "on_read"}
Kinds == {"data", "error", "closed"}
Item == [kind: Kinds, id: Nat]

CallbackOps == [on_write |-> OnWriteOps, on_read |-> OnReadOps]
MayCall(op) ==
  alive /\ (firing # <<>> => op \in CallbackOps[firing[Len(firing)]])

Firing(e) == \E k \in DOMAIN firing : firing[k] = e

(* g_channel_new asks for memory for the capacity at once, and ignores the *)
(* answer.                                                                 *)
Init ==
  /\ items = <<>>
  /\ alloc = Capacity \/ (AllocMayFail /\ alloc = 0)
  /\ closed = FALSE
  /\ firing = <<>>
  /\ alive = TRUE
  /\ accepted = <<>> /\ stored = <<>> /\ delivered = <<>>
  /\ announced = <<>> /\ taken = <<>>
  /\ cramped = 0

-----------------------------------------------------------------------------
(* g_event_fire(event, item), whose callbacks run in the steps that follow *)
(* until CallbackReturns: nothing if the event is firing.                  *)
Fire_Always(e, heard, item) ==
  /\ firing' = Append(firing, e)
  /\ heard' = Append(heard, item)

Fire(e, heard, item) ==
  IF Firing(e) THEN UNCHANGED <<firing, heard>>
  ELSE /\ firing' = Append(firing, e)
       /\ heard' = Append(heard, item)

(* Errors and the close marker are written whatever the size.              *)
HasRoom_OffByOne(kind) == Capacity = 0 \/ Capacity >= Len(items) \/ kind # "data"
HasRoom(kind) == Capacity = 0 \/ Capacity > Len(items) \/ kind # "data"

(* g_array_add grows the array by exactly one item when it is full; its    *)
(* result is ignored, so the write goes on when that failed.               *)
Add_NoGrow(item) ==
  /\ items' = Append(items, item)
  /\ stored' = Append(stored, item)
  /\ UNCHANGED alloc
Add_Lossy(item) ==
  \/ /\ items' = Append(items, item)
     /\ stored' = Append(stored, item)
     /\ alloc' = IF Len(items) < alloc THEN alloc ELSE Len(items) + 1
  \/ AllocMayFail /\ UNCHANGED <<items, stored, alloc>>
Add(item) ==
  \/ /\ items' = Append(items, item)
     /\ stored' = Append(stored, item)
     /\ alloc' = IF Len(items) < alloc THEN alloc ELSE Len(items) + 1
  \/ /\ AllocMayFail /\ Len(items) >= alloc
     /\ UNCHANGED <<items, stored, alloc>>

ClosedAfter_Unchanged(kind) == closed
ClosedAfter(kind) == closed \/ kind = "closed"

(* g_channel_write of an item; a refused write changes nothing.            *)
WriteItem(kind) ==
  /\ ~closed
  /\ Len(accepted) < MaxWrites
  /\ HasRoom(kind)
  /\ LET item == [kind |-> kind, id |-> Len(accepted) + 1]
     IN  /\ Add(item)
         /\ accepted' = Append(accepted, item)
         /\ cramped' = IF alloc' >= Capacity THEN cramped ELSE Len(accepted) + 1
         /\ closed' = ClosedAfter(kind)
         /\ Fire("on_write", announced, item)
  /\ UNCHANGED <<alive, delivered, taken>>

Write == MayCall("write") /\ WriteItem("data")
Error == MayCall("error") /\ WriteItem("error")
Close == MayCall("close") /\ WriteItem("closed")

(* g_channel_read: copy the first item out, remove it, fire on_read.       *)
Read_Peek ==
  /\ MayCall("read")
  /\ items # <<>>
  /\ delivered' = Append(delivered, Head(items))
  /\ Fire("on_read", taken, Head(items))
  /\ UNCHANGED <<items, alloc, closed, alive, accepted, stored, announced, cramped>>

Read ==
  /\ MayCall("read")
  /\ items # <<>>
  /\ items' = Tail(items)
  /\ delivered' = Append(delivered, Head(items))
  /\ Fire("on_read", taken, Head(items))
  /\ UNCHANGED <<alloc, closed, alive, accepted, stored, announced, cramped>>

CallbackReturns ==
  /\ firing # <<>>
  /\ firing' = SubSeq(firing, 1, Len(firing) - 1)
  /\ UNCHANGED <<items, alloc, closed, alive,
                 accepted, stored, delivered, announced, taken, cramped>>

(* g_channel_free, by the client and never from a callback.                *)
Free ==
  /\ alive /\ firing = <<>>
  /\ alive' = FALSE
  /\ items' = <<>>
  /\ alloc' = 0
  /\ UNCHANGED <<closed, firing, accepted, stored, delivered, announced, taken,
                 cramped>>

Next == Write \/ Error \/ Close \/ Read \/ CallbackReturns \/ Free

Spec == Init /\ [][Next]_vars

-----------------------------------------------------------------------------
(* The queue never needs more memory than its array has allocated.         *)
TypeOK ==
  /\ items \in Seq(Item) /\ alloc \in Nat /\ Len(items) <= alloc
  /\ closed \in BOOLEAN /\ alive \in BOOLEAN
  /\ firing \in Seq(Events)
  /\ accepted \in Seq(Item) /\ stored \in Seq(Item)
  /\ delivered \in Seq(Item)
  /\ announced \in Seq(Item) /\ taken \in Seq(Item)
  /\ cramped \in Nat

IsData(item) == item.kind = "data"
(* The close marker is the last item ever accepted: g_channel_is_closed     *)
(* says exactly whether it was.                                            *)
ClosedIsLast ==
  /\ \A k \in DOMAIN accepted : accepted[k].kind = "closed" => k = Len(accepted)
  /\ closed <=> accepted # <<>> /\ Last(accepted).kind = "closed"

(* g_channel_write ignores the result of g_array_add, as g_channel_new     *)
(* does that of the reservation.  Once the array of a bounded channel has  *)
(* had memory for its capacity, be it reserved or grown into, no data item *)
(* is reported as written that is not stored: only writes accepted before  *)
(* can be lost, and there are none if the reservation succeeded.           *)
DataNeverLost ==
  Capacity > 0 =>
    \A k \in DOMAIN accepted :
      k > cramped /\ IsData(accepted[k]) => Contains(stored, accepted[k])

(* The items on_write fired with are accepted ones, each at most once, in  *)
(* the order of the writes, and likewise on_read with the items read: a    *)
(* callback that writes and a callback that reads can call each other only *)
(* once around, every event fires at most once at a time.                  *)
IdOrdered(s) == \A j, k \in DOMAIN s : j < k => s[j].id < s[k].id
AnnouncedInOrder ==
  /\ IsInjective(firing)
  /\ IdOrdered(announced) /\ ToSet(announced) \subseteq ToSet(accepted)
  /\ IdOrdered(taken) /\ ToSet(taken) \subseteq ToSet(delivered)

(* The items the array took, and those that were read, are those of a      *)
(* bounded FIFO, whatever callbacks call and whichever allocations fail.   *)
Fifo == INSTANCE BoundedFifo
          WITH Data <- "data", Closed <- "closed",
               sent <- stored, received <- delivered,
               closed <- stored # <<>> /\ Last(stored).kind = "closed"
ImplementsFifo == Fifo!Spec
=============================================================================
