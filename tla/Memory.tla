------------------------------- MODULE Memory -------------------------------
(***************************************************************************)
(* What a program allocates it gives back, in two parts: the blocks, sizes *)
(* and records of GMem, and the objects, classes and containers that       *)
(* Registry frees by name.  They share nothing: Registry's allocations     *)
(* fail by choice, and GMem's limit is what makes them fail.  A behaviour  *)
(* is about one part, the subject, and leaves the other as it was made.    *)
(***************************************************************************)
EXTENDS GMem, Registry

VARIABLE subject

memoryVars == <<subject, memVars, vars>>

MemoryInit ==
  \/ subject = "blocks" /\ MemInit /\ Init
  \/ subject = "objects" /\ mem_record_max = 0 /\ MemInit /\ Init

BlockStep == subject = "blocks" /\ MemNext /\ UNCHANGED <<subject, vars>>
ObjectStep == subject = "objects" /\ Next /\ UNCHANGED <<subject, memVars>>

MemoryNext == BlockStep \/ ObjectStep

MemorySpec == MemoryInit /\ [][MemoryNext]_memoryVars
=============================================================================
