----------------------------- MODULE Collections -----------------------------
(***************************************************************************)
(* The data structures that the rest of gef-core is built from, each with  *)
(* one client that makes every call in every order while memory may run    *)
(* out: a GArray, GPtrArray or GList (Containers), a GMap, a GMemoryStream *)
(* or GString (ByteBuffers).  They share nothing, so a behaviour is about  *)
(* one of them, the subject, and leaves the others as they were made.      *)
(***************************************************************************)
EXTENDS Integers, Sequences, TLC

CONSTANTS
  ItemLen, Width, Zero, PointerSize, Nil, Garbage,      \* Containers
  Things, MaxSize, MaxNodes, MaxBatch,
  Keys, MaxSets,                                        \* GMap
  Chars, Nul, DoubleUpTo, ChunkSize, MaxBytes, MaxWrite \* ByteBuffers

VARIABLES
  subject,
  kind, store, call, done, sized,                       \* Containers
  own_keys, own_values, has_data, data, alloc, token,   \* GMap
  released, held, copied, answer, open,
  which, stream, moved, crashed, strayed, string, text  \* ByteBuffers

Container == INSTANCE Containers
Map == INSTANCE GMap
Buffer == INSTANCE ByteBuffers

ASSUME CollectionsAssumption ==
  /\ Container!ContainersAssumption
  /\ Map!MapAssumption
  /\ Buffer!BuffersAssumption

containerVars == <<kind, store, call, done, sized>>
mapVars == <<own_keys, own_values, has_data, data, alloc, token, released,
             held, copied, answer, open>>
bufferVars == <<which, stream, moved, crashed, strayed, string, text>>
vars == <<subject, containerVars, mapVars, bufferVars>>

-----------------------------------------------------------------------------
(* A client of one structure; the others have been made in one way.        *)
ContainerIdle == kind = "GArray" /\ Container!Init
MapIdle == own_keys = FALSE /\ own_values = FALSE /\ has_data = FALSE /\ Map!Init
BufferIdle == which = "GString" /\ string = Buffer!NewString(0) /\ Buffer!Init

Init ==
  \/ subject = "container" /\ Container!Init /\ MapIdle /\ BufferIdle
  \/ subject = "map" /\ Map!Init /\ ContainerIdle /\ BufferIdle
  \/ subject = "buffer" /\ Buffer!Init /\ ContainerIdle /\ MapIdle

ContainerStep ==
  /\ subject = "container"
  /\ Container!Next
  /\ UNCHANGED <<subject, mapVars, bufferVars>>

MapStep ==
  /\ subject = "map"
  /\ Map!Next
  /\ UNCHANGED <<subject, containerVars, bufferVars>>

BufferStep ==
  /\ subject = "buffer"
  /\ Buffer!Next
  /\ UNCHANGED <<subject, containerVars, mapVars>>

Next == ContainerStep \/ MapStep \/ BufferStep

Spec == Init /\ [][Next]_vars

(* Items and bytes are only stored and compared.                           *)
Symmetry == Permutations(Things) \cup Permutations(Chars)

-----------------------------------------------------------------------------
(* What the structures keep to inside: in a GArray and GPtrArray the bytes *)
(* in use lie in the block, a GMap's entries are sorted by key, whatever   *)
(* was inserted, removed or refused before.                                *)
TypeOK ==
  /\ subject = "container" => Container!TypeOK
  /\ subject = "map" => Map!TypeOK

(* Nothing is lost or released twice: a GList's nodes are on the chain or  *)
(* were freed, a GMap's keys and values are in an entry or were given      *)
(* back; and no stale slot of a GPtrArray is ever shown.                   *)
NothingLost ==
  /\ subject = "container" => Container!NothingUndefined /\ Container!NodesAccounted
  /\ subject = "map" => Map!NothingLost

(* The calls on GArray, GPtrArray and GList have the effect on a sequence  *)
(* that their names say, or none when they fail.                           *)
ImplementsList == Container!ImplementsList

(* A GMap is a finite function.                                            *)
ImplementsMap == Map!ImplementsMap

(* A client that keeps its position inside a GMemoryStream never makes it  *)
(* copy bytes outside its block, and a GString holds the first characters  *)
(* that were put in it, all of them unless memory or a limit cut it short. *)
BuffersSound == Buffer!CopiesStayInside /\ Buffer!StringIsPrefix

(* A GMemoryStream is a file.                                              *)
ImplementsFile == Buffer!ImplementsFile
=============================================================================
