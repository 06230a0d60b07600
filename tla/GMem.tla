-------------------------------- MODULE GMem --------------------------------
(***************************************************************************)
(* The allocator wrappers of src/src/gmem.c, built with ENABLE_MEM_PROFILE *)
(* and ENABLE_MEM_RECORD: every block carries its size in a header, four   *)
(* counters profile the memory in use, a limit makes allocations fail, and *)
(* while recording is on, the default callback keeps the list of blocks    *)
(* that are allocated and not freed.                                       *)
(*                                                                         *)
(* malloc may return any address that is not in use, one that was freed    *)
(* before included; it does not fail by itself.                            *)
(***************************************************************************)
EXTENDS Naturals, Sequences, FiniteSets, FiniteSetsExt, SequencesExt

CONSTANTS
  Blocks,        \* addresses
  Sizes,         \* the sizes asked for (0 is allowed)
  Limits,        \* the limits set with g_mem_record_set_max; 0 is none
  MaxAllocated   \* bound: bytes allocated in one behaviour

ASSUME MemAssumption ==
  /\ IsFiniteSet(Blocks)
  /\ Sizes \subseteq Nat /\ Limits \subseteq Nat
  /\ MaxAllocated \in Nat

VARIABLES
  header,      \* the size in the header of each block in use, 0 if free
  total_allocated_mem, total_freed_mem, current_mem, peak_mem,
  mem_record_max,
  mem_record_enabled,
  leak_records,
  before,      \* history: blocks allocated before recording began
  quiet,       \* history: the limit was set, and the profile reset, only
               \*   while no memory was in use
  shrunk       \* history: blocks reallocated to size 0 since recording began

counters == <<total_allocated_mem, total_freed_mem, current_mem, peak_mem>>
memVars == <<header, counters, mem_record_max, mem_record_enabled, leak_records,
          before, quiet, shrunk>>

InUse == {b \in Blocks : header[b] > 0}
Record == [mem: Blocks, size: Nat]

MemInit ==
  /\ header = [b \in Blocks |-> 0]
  /\ total_allocated_mem = 0 /\ total_freed_mem = 0
  /\ current_mem = 0 /\ peak_mem = 0
  /\ mem_record_max \in Limits
  /\ mem_record_enabled = FALSE
  /\ leak_records = <<>>
  /\ before = {}
  /\ quiet = TRUE /\ shrunk = {}

-----------------------------------------------------------------------------
(* _g_mem_record_alloc_free: of freed bytes, then of allocated ones.       *)
Larger(a, b) == IF a >= b THEN a ELSE b
Count_NotFreed(allocated, freed) ==
  /\ total_allocated_mem' = total_allocated_mem + allocated
  /\ total_freed_mem' = total_freed_mem + freed
  /\ current_mem' = IF allocated = 0 THEN current_mem - freed
                                     ELSE current_mem + allocated
  /\ peak_mem' = Larger(peak_mem, current_mem')
Count(allocated, freed) ==
  /\ total_allocated_mem' = total_allocated_mem + allocated
  /\ total_freed_mem' = total_freed_mem + freed
  /\ current_mem' = current_mem - freed + allocated
  /\ peak_mem' = Larger(peak_mem, current_mem')

(* The list after g_mem_leak_record_free and g_mem_leak_record_alloc:      *)
(* the first drops the first record of a block if there is one, and if it  *)
(* is of that size; the second adds one unless the address has one.        *)
IsRecorded(records, b) == \E k \in DOMAIN records : records[k].mem = b
RecordOf(records, b) ==
  CHOOSE k \in DOMAIN records :
    records[k].mem = b /\ \A j \in 1 .. k - 1 : records[j].mem # b
Dropped(records, b, size) ==
  IF IsRecorded(records, b) /\ records[RecordOf(records, b)].size = size
  THEN RemoveAt(records, RecordOf(records, b))
  ELSE records
Added(records, b, size) ==
  IF IsRecorded(records, b) THEN records
  ELSE Append(records, [mem |-> b, size |-> size])

RecordOnly(records) ==
  leak_records' = IF mem_record_enabled THEN records ELSE leak_records

(* The limit is compared with the peak, not with the memory in use. The    *)
(* unsigned difference wraps to a number above every limit.                *)
Refused_BeforeAdding(size, freed) ==
  mem_record_max > 0 /\ peak_mem > mem_record_max
Refused(size, freed) ==
  mem_record_max > 0 /\ (peak_mem + size < freed
                         \/ peak_mem + size - freed > mem_record_max)

(* _g_malloc and _g_malloc0, _g_realloc, which may move the block, and     *)
(* _g_free: each keeps the size in the header and the counters.            *)
Allocated(b, size) == header' = [header EXCEPT ![b] = size] /\ Count(size, 0)
Moved(b, c, size) ==
  header' = [header EXCEPT ![b] = 0, ![c] = size] /\ Count(size, header[b])
Released(b) == header' = [header EXCEPT ![b] = 0] /\ Count(0, header[b])
mem_size(b) == header[b]

(* g_malloc and g_malloc0; a refused call and one of size 0 change nothing *)
Malloc(size) ==
  /\ size > 0 /\ ~Refused(size, 0)
  /\ total_allocated_mem + size <= MaxAllocated
  /\ \E b \in Blocks \ InUse :
       /\ Allocated(b, size)
       /\ RecordOnly(Added(leak_records, b, size))
  /\ UNCHANGED <<mem_record_max, mem_record_enabled, before, quiet, shrunk>>

(* g_realloc of a block.                                                   *)
Realloc_AddsFirst(b, size) ==
  /\ b \in InUse
  /\ size > 0 /\ ~Refused(size, mem_size(b))
  /\ total_allocated_mem + size <= MaxAllocated
  /\ \E c \in (Blocks \ InUse) \cup {b} :
       /\ Moved(b, c, size)
       /\ RecordOnly(Dropped(Added(leak_records, c, size), b, mem_size(b)))
  /\ before' = before \ {b} /\ shrunk' = shrunk \ {b}
  /\ UNCHANGED <<mem_record_max, mem_record_enabled, quiet>>

Realloc(b, size) ==
  /\ b \in InUse
  /\ size > 0 /\ ~Refused(size, mem_size(b))
  /\ total_allocated_mem + size <= MaxAllocated
  /\ \E c \in (Blocks \ InUse) \cup {b} :
       /\ Moved(b, c, size)
       /\ RecordOnly(Added(Dropped(leak_records, b, mem_size(b)), c, size))
  /\ before' = before \ {b} /\ shrunk' = shrunk \ {b}
  /\ UNCHANGED <<mem_record_max, mem_record_enabled, quiet>>

(* g_realloc to size 0 returns NULL and frees nothing, but the callback is *)
(* told that the block was freed.                                          *)
ReallocToZero(b) ==
  /\ b \in InUse
  /\ ~Refused(0, mem_size(b))
  /\ RecordOnly(Dropped(leak_records, b, mem_size(b)))
  /\ shrunk' = shrunk \cup {b}
  /\ UNCHANGED <<header, counters, mem_record_max, mem_record_enabled, before,
                 quiet>>

Free(b) ==
  /\ b \in InUse
  /\ Released(b)
  /\ RecordOnly(Dropped(leak_records, b, mem_size(b)))
  /\ before' = before \ {b} /\ shrunk' = shrunk \ {b}
  /\ UNCHANGED <<mem_record_max, mem_record_enabled, quiet>>

RecordBegin ==
  /\ ~mem_record_enabled
  /\ mem_record_enabled' = TRUE
  /\ before' = InUse /\ shrunk' = {}
  /\ UNCHANGED <<header, counters, mem_record_max, leak_records, quiet>>

RecordEnd ==
  /\ mem_record_enabled
  /\ mem_record_enabled' = FALSE
  /\ leak_records' = <<>>
  /\ UNCHANGED <<header, counters, mem_record_max, before, quiet, shrunk>>

SetMax(max) ==
  /\ mem_record_max' = max
  /\ quiet' = (quiet /\ InUse = {})
  /\ UNCHANGED <<header, counters, mem_record_enabled, leak_records, before,
                 shrunk>>

(* g_mem_profile_reset leaves current_mem alone.                           *)
ProfileReset ==
  /\ quiet' = (quiet /\ InUse = {})
  /\ total_allocated_mem' = 0 /\ total_freed_mem' = 0 /\ peak_mem' = 0
  /\ UNCHANGED <<header, current_mem, mem_record_max, mem_record_enabled,
                 leak_records, before, shrunk>>

MemNext ==
  \/ \E size \in Sizes :
       \/ Malloc(size)
       \/ \E b \in Blocks : Realloc(b, size)
  \/ \E b \in Blocks : ReallocToZero(b) \/ Free(b)
  \/ RecordBegin
  \/ RecordEnd
  \/ \E max \in Limits : SetMax(max)
  \/ ProfileReset

MemSpec == MemInit /\ [][MemNext]_memVars

-----------------------------------------------------------------------------
BytesInUse == SumFunction(header)

(* current_mem is the memory in use, although it is only ever changed by   *)
(* what the calls say they add and free; and the totals, if they are reset *)
(* only while no memory is in use, are what the tests take them for:       *)
(* "allocated == freed" exactly when no block is in use.  Under a limit    *)
(* that is set, too, only then, the memory in use never exceeds the limit: *)
(* comparing with the peak errs on the safe side.                          *)
Balanced ==
  /\ current_mem = BytesInUse
  /\ quiet => /\ total_freed_mem + current_mem = total_allocated_mem
              /\ (total_allocated_mem = total_freed_mem) <=> (InUse = {})
              /\ current_mem <= peak_mem
              /\ mem_record_max > 0 => current_mem <= mem_record_max

(* While recording, the leak list names exactly the blocks in use that     *)
(* were not allocated before recording began and not reallocated to size   *)
(* 0, each once, with its size: reused addresses do not confuse it.        *)
LeaksExact ==
  LET traced == InUse \ (before \cup shrunk)
  IN  IF mem_record_enabled
      THEN /\ ToSet(leak_records) = {[mem |-> b, size |-> header[b]] : b \in traced}
           /\ Len(leak_records) = Cardinality(traced)
      ELSE leak_records = <<>>
=============================================================================
