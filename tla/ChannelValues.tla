---------------------------- MODULE ChannelValues ----------------------------
(***************************************************************************)
(* Who owns the values that travel through a channel: GChannel's reads and *)
(* writes (src/src/gchannel.c) on the heap of GValue.  The queue's GArray  *)
(* holds value structs of its own, so a write copies a struct and calls    *)
(* g_value_ref on the original, a read drops the reader's value and moves  *)
(* the queue's struct over it.  When the array has no memory for the copy, *)
(* g_value_ref counts it all the same.  The order of items and the events  *)
(* are the subject of GChannel; here a queue is unobserved and as long as  *)
(* Slots allow.                                                            *)
(***************************************************************************)
EXTENDS GValue, SequencesExt

CONSTANT
  Slots           \* the structs in the queue's array

Clients == Cells \ Slots

ASSUME ChannelValuesAssumption == Slots \subseteq Cells

VARIABLES
  queue,     \* the slots in use, first out first
  closed,
  open,      \* g_channel_free has not been called
  alloc,     \* the items the array has had memory for
  sole,      \* history: payloads written while their writer alone held them
  lost       \* history: the copies that were counted and are nowhere; a slot
             \*   that nobody reads stands for each, a holder for ever

cvars == <<heap, live, queue, closed, open, alloc, sole, lost>>

(* With nothing reserved every add may fail that may fail at all.          *)
CInit ==
  /\ Init
  /\ queue = <<>> /\ closed = FALSE /\ open = TRUE /\ alloc = 0
  /\ sole = {} /\ lost = {}

-----------------------------------------------------------------------------
(* g_array_add(items, item); g_value_ref(item), into a free slot q.        *)
WriteCopy_NoRef(h, q, c) == Copy(h, q, c)
WriteCopy(h, q, c) == Ref(Copy(h, q, c), c)

Enqueue(q) ==
  /\ open /\ ~closed
  /\ q \in Slots \ live
  /\ queue' = Append(queue, q)
  /\ live' = live \cup {q}
  /\ alloc' = IF Len(queue) < alloc THEN alloc ELSE Len(queue) + 1
  /\ UNCHANGED <<open, lost>>

(* g_array_add finds no memory, and g_channel_write goes on.               *)
NotAdded ==
  /\ open /\ ~closed
  /\ AllocMayFail /\ Len(queue) >= alloc
  /\ UNCHANGED <<queue, open, alloc, sole>>

WriteValue(c, q) ==
  /\ c \in live
  /\ Enqueue(q)
  /\ \/ heap' = WriteCopy(heap, q, c)
     \/ AllocMayFail /\ NeedsCounter(heap, c) /\ heap' = Copy(heap, q, c)
  /\ sole' = IF NeedsCounter(heap, c) THEN sole \cup {heap.cell[c].payload}
             ELSE sole
  /\ UNCHANGED closed

(* A value that has a counter is counted once more than it is held.  One   *)
(* that has none gets a counter, if there is memory, which is right.       *)
LoseCounted(c, q) ==
  /\ c \in live /\ heap.cell[c].refs # 0
  /\ NotAdded
  /\ q \in Slots \ live
  /\ heap' = WriteCopy(heap, q, c)
  /\ live' = live \cup {q}
  /\ lost' = lost \cup {q}
  /\ UNCHANGED closed

LoseUncounted(c) ==
  /\ c \in live /\ heap.cell[c].refs = 0
  /\ NotAdded
  /\ heap' = Ref(heap, c) \/ (NeedsCounter(heap, c) /\ heap' = heap)
  /\ UNCHANGED <<live, lost, closed>>

(* g_channel_error: a value is made for the message, written, and freed.   *)
(* A client's unused struct stands for it.  Without a message the callback *)
(* is kept with a NULL pointer, whose release does nothing.                *)
NewError(h, c) ==
  [h EXCEPT !.cell[c] = [type |-> "POINTER", refs |-> 0,
                         payload |-> Len(h.released) + 1],
            !.released = Append(@, 0)]

MayFailWith(c) == c \in Clients \ live /\ Len(heap.released) < MaxPayloads

WriteError(c, q) ==
  /\ MayFailWith(c)
  /\ Enqueue(q)
  /\ LET made == NewError(heap, c)
     IN  \/ heap' = Unref(WriteCopy(made, q, c), c)
         \/ AllocMayFail /\ heap' = Unref(Copy(made, q, c), c)
  /\ sole' = sole \cup {Len(heap.released) + 1}
  /\ UNCHANGED closed

LoseError(c) ==
  /\ MayFailWith(c)
  /\ NotAdded
  /\ LET made == NewError(heap, c)
     IN  heap' = Unref(Ref(made, c), c) \/ heap' = Unref(made, c)
  /\ UNCHANGED <<live, lost, closed>>

(* g_channel_close: a plain value.                                         *)
WriteMarker(q) ==
  /\ Enqueue(q)
  /\ heap' = [heap EXCEPT !.cell[q] = [Fresh EXCEPT !.type = "PLAIN"]]
  /\ closed' = TRUE
  /\ UNCHANGED sole

LoseMarker ==
  /\ NotAdded
  /\ closed' = TRUE
  /\ UNCHANGED <<heap, live, lost>>

(* g_channel_read: g_value_unref(item), then the struct moves out.         *)
ReadCopy(h, r, q) == Copy(Unref(h, r), r, q)

ReadValue(r) ==
  /\ open /\ queue # <<>>
  /\ r \in live \cap Clients
  /\ heap' = ReadCopy(heap, r, Head(queue))
  /\ queue' = Tail(queue)
  /\ live' = live \ {Head(queue)}
  /\ UNCHANGED <<closed, open, alloc, sole, lost>>

(* g_channel_free: every queued value loses its reference.                 *)
ReleaseQueue_First(h) == IF queue = <<>> THEN h ELSE Unref(h, Head(queue))
ReleaseQueue(h) == FoldLeft(Unref, h, queue)

FreeChannel ==
  /\ open
  /\ open' = FALSE
  /\ heap' = ReleaseQueue(heap)
  /\ queue' = <<>>
  /\ live' = live \ ToSet(queue)
  /\ alloc' = 0
  /\ UNCHANGED <<closed, sole, lost>>

(* What the clients do with their own values (GValue's actions).           *)
ClientStep(c) ==
  /\ \/ New(c)
     \/ SetPlain(c)
     \/ SetPayload(c)
     \/ \E d \in Clients : AssignFrom(c, d)
     \/ Free(c)
  /\ UNCHANGED <<queue, closed, open, alloc, sole, lost>>

(* Memory was released twice, or used after its release: nothing is said   *)
(* about what the program does then.                                       *)
Corrupt ==
  \/ heap.fault
  \/ \E p \in DOMAIN heap.released : heap.released[p] > 1
  \/ \E n \in DOMAIN heap.counter : heap.counter[n].freed > 1

CNext ==
  /\ ~Corrupt
  /\ \/ \E c \in Clients :
          \/ ClientStep(c)
          \/ \E q \in Slots : \/ WriteValue(c, q) \/ LoseCounted(c, q)
                             \/ WriteError(c, q)
          \/ LoseUncounted(c) \/ LoseError(c)
          \/ ReadValue(c)
     \/ \E q \in Slots : WriteMarker(q)
     \/ LoseMarker
     \/ FreeChannel

CSpec == CInit /\ [][CNext]_cvars

(* Nobody reads a struct that is not in use.                               *)
InUse ==
  <<[heap EXCEPT !.cell = [c \in Cells |-> IF c \in live THEN @[c] ELSE Fresh]],
    live, queue, closed, open, alloc, sole, lost>>

(* Structs of one kind differ in nothing.                                  *)
Symmetry == Permutations(Clients) \cup Permutations(Slots)

-----------------------------------------------------------------------------
(* A payload that was never written by its only holder has a counter when  *)
(* it is queued, and travels safely: it is released once, when the last    *)
(* value that holds it, queued or a client's, lets it go, and never when a *)
(* counted copy of it was lost.  As long as all payloads are such, every   *)
(* counter is exact, lost copies included, and goes with its sharers.      *)
SharedTravelsSafely ==
  /\ \A p \in DOMAIN heap.released \ sole :
       /\ heap.released[p] <= 1
       /\ (heap.released[p] = 0) <=> (Holders(p) # {})
  /\ sole = {} => ReleasedWithLastHolder /\ CountIsSharers

(* When the channel and all the values are gone only payloads of which a   *)
(* counted copy was lost are leaked, and not even those to which           *)
(* g_value_ref gave one reference for two holders.                         *)
NothingLeaked ==
  ~open /\ live \subseteq lost =>
    \A p \in DOMAIN heap.released :
      heap.released[p] >= 1 \/ \E q \in lost : heap.cell[q].payload = p

(* Every payload ever made was released, and once: "allocated == freed".   *)
AllocatedIsFreed ==
  ~open /\ live = {} => \A p \in DOMAIN heap.released : heap.released[p] = 1
=============================================================================
