---------------------------- MODULE Memory_proofs ----------------------------
(***************************************************************************)
(* What gef allocates it gives back: theorems about GMem, for any number   *)
(* of blocks, any sizes and any limits, and about Registry, for any        *)
(* containers, classes and objects.                                        *)
(***************************************************************************)
EXTENDS GMem, Registry, DataTheorems

(***************************************************************************)
(* GMem.                                                                   *)
(***************************************************************************)
MemType ==
  /\ header \in [Blocks -> Nat]
  /\ total_allocated_mem \in Nat /\ total_freed_mem \in Nat
  /\ current_mem \in Nat /\ peak_mem \in Nat
  /\ mem_record_max \in Nat
  /\ mem_record_enabled \in BOOLEAN
  /\ leak_records \in Seq(Record)

(* The two facts that make the profile add up: current_mem is the sum of   *)
(* the headers, and the totals differ by it.  The limit is safe because a  *)
(* call that passes it passes the larger test with the peak.               *)
BalanceInv ==
  /\ current_mem = BytesInUse
  /\ quiet => /\ total_freed_mem + current_mem = total_allocated_mem
              /\ current_mem <= peak_mem
              /\ mem_record_max > 0 => current_mem <= mem_record_max

-----------------------------------------------------------------------------
(* The headers and their sum.                                              *)
LEMMA SomeInUse ==
  ASSUME header \in [Blocks -> Nat]
  PROVE  /\ BytesInUse \in Nat
         /\ BytesInUse = 0 <=> InUse = {}
<1>1. IsFiniteSet(Blocks)
  BY MemAssumption
<1>2. BytesInUse \in Nat
  BY <1>1, SumType DEF BytesInUse
<1>3. ASSUME InUse = {} PROVE BytesInUse = 0
  <2>1. \A b \in Blocks : header[b] = 0
    BY <1>3 DEF InUse
  <2> QED
    BY <1>1, <2>1, SumOfNothing DEF BytesInUse
<1>4. ASSUME NEW b \in InUse PROVE BytesInUse # 0
  <2>1. header[b] \in Nat /\ header[b] > 0 /\ b \in Blocks
    BY DEF InUse
  <2>2. header[b] <= BytesInUse
    BY <1>1, <2>1, SumBound DEF BytesInUse
  <2> QED
    BY <1>2, <2>1, <2>2
<1> QED
  BY <1>2, <1>3, <1>4

LEMMA BlockSet ==
  ASSUME NEW h \in [Blocks -> Nat], NEW g \in [Blocks -> Nat], NEW b \in Blocks,
         \A c \in Blocks \ {b} : g[c] = h[c]
  PROVE  SumFunction(g) = SumFunction(h) - h[b] + g[b]
BY MemAssumption, SumUpdate

LEMMA HeaderSet ==
  ASSUME header \in [Blocks -> Nat], NEW b \in Blocks, NEW size \in Nat,
         header' = [header EXCEPT ![b] = size]
  PROVE  /\ header' \in [Blocks -> Nat]
         /\ BytesInUse' = BytesInUse - header[b] + size
         /\ header[b] <= BytesInUse
<1>1. IsFiniteSet(Blocks) /\ header \in [Blocks -> Nat] /\ b \in Blocks
  BY MemAssumption
<1>2. /\ header' \in [Blocks -> Nat] /\ header'[b] = size
      /\ \A c \in Blocks \ {b} : header'[c] = header[c]
  OBVIOUS
<1>3. SumFunction(header') = SumFunction(header) - header[b] + header'[b]
  BY <1>1, <1>2, BlockSet
<1>4. header[b] <= SumFunction(header)
  BY <1>1, SumBound, Zenon
<1> QED
  BY <1>2, <1>3, <1>4 DEF BytesInUse

LEMMA HeaderMoved ==
  ASSUME header \in [Blocks -> Nat], NEW b \in Blocks, NEW size \in Nat,
         NEW c \in (Blocks \ InUse) \cup {b},
         header' = [header EXCEPT ![b] = 0, ![c] = size]
  PROVE  /\ header' \in [Blocks -> Nat]
         /\ BytesInUse' = BytesInUse - header[b] + size
         /\ header[b] <= BytesInUse
<1> DEFINE without == [header EXCEPT ![b] = 0]
<1>1. IsFiniteSet(Blocks) /\ c \in Blocks
  BY MemAssumption
<1>2. /\ without \in [Blocks -> Nat] /\ without[b] = 0 /\ without[c] = 0
      /\ \A x \in Blocks \ {b} : without[x] = header[x]
  BY <1>1 DEF InUse
<1>3. /\ header' \in [Blocks -> Nat] /\ header'[c] = size
      /\ \A x \in Blocks \ {c} : header'[x] = without[x]
  BY <1>1
<1> HIDE DEF without
<1>4. SumFunction(without) = SumFunction(header) - header[b] + without[b]
  BY <1>1, <1>2, BlockSet
<1>5. SumFunction(header') = SumFunction(without) - without[c] + header'[c]
  BY <1>1, <1>2, <1>3, BlockSet
<1>6. header[b] <= SumFunction(header) /\ SumFunction(header) \in Nat /\ header[b] \in Nat
  BY <1>1, SumBound, SumType
<1> QED
  BY <1>2, <1>3, <1>4, <1>5, <1>6 DEF BytesInUse

-----------------------------------------------------------------------------
(* A call that allocates size bytes and frees freed ones.                  *)
LEMMA CountBalance ==
  ASSUME MemType, BalanceInv, NEW size \in Nat, NEW freed \in Nat,
         Count(size, freed),
         freed <= BytesInUse,
         BytesInUse' = BytesInUse - freed + size,
         size = 0 \/ ~Refused(size, freed),
         UNCHANGED <<quiet, mem_record_max>>
  PROVE  /\ BalanceInv'
         /\ total_allocated_mem' \in Nat /\ total_freed_mem' \in Nat
         /\ current_mem' \in Nat /\ peak_mem' \in Nat
<1>1. /\ total_allocated_mem \in Nat /\ total_freed_mem \in Nat
      /\ current_mem \in Nat /\ peak_mem \in Nat /\ mem_record_max \in Nat
      /\ current_mem = BytesInUse
  BY DEF MemType, BalanceInv
<1>2. /\ total_allocated_mem' = total_allocated_mem + size
      /\ total_freed_mem' = total_freed_mem + freed
      /\ current_mem' = current_mem - freed + size
      /\ peak_mem' = IF peak_mem >= current_mem' THEN peak_mem ELSE current_mem'
  BY DEF Count, Larger
<1>3. /\ total_allocated_mem' \in Nat /\ total_freed_mem' \in Nat
      /\ current_mem' \in Nat /\ peak_mem' \in Nat
      /\ current_mem' <= peak_mem' /\ current_mem' = BytesInUse'
  BY <1>1, <1>2
<1>4. ASSUME quiet'
      PROVE  /\ total_freed_mem' + current_mem' = total_allocated_mem'
             /\ mem_record_max' > 0 => current_mem' <= mem_record_max'
  <2>1. /\ total_freed_mem + current_mem = total_allocated_mem
        /\ current_mem <= peak_mem
        /\ mem_record_max > 0 => current_mem <= mem_record_max
    BY <1>4 DEF BalanceInv
  <2>2. total_freed_mem' + current_mem' = total_allocated_mem'
    BY <1>1, <1>2, <2>1
  <2>3. ASSUME mem_record_max > 0 PROVE current_mem' <= mem_record_max
    <3>1. CASE size = 0
      BY <1>1, <1>2, <2>1, <2>3, <3>1
    <3>2. CASE ~Refused(size, freed)
      <4>1. peak_mem + size >= freed /\ peak_mem + size - freed <= mem_record_max
        BY <1>1, <2>3, <3>2 DEF Refused
      <4> QED
        BY <1>1, <1>2, <2>1, <4>1
    <3> QED
      BY <3>1, <3>2
  <2> QED
    BY <2>2, <2>3
<1> QED
  BY <1>3, <1>4 DEF BalanceInv

-----------------------------------------------------------------------------
(* While recording, the list has one record, of the right size, for each   *)
(* block of T, and no other.  Blocks in before and shrunk are in use, so   *)
(* that an address that is handed out again is traced.                     *)
ListsExactly(records, T, h) ==
  /\ \A k \in DOMAIN records :
       records[k].mem \in T /\ records[k].size = h[records[k].mem]
  /\ \A b \in T : \E k \in DOMAIN records : records[k].mem = b
  /\ \A j, k \in DOMAIN records : records[j].mem = records[k].mem => j = k

Traced == InUse \ (before \cup shrunk)

RecordInv ==
  /\ before \subseteq InUse /\ shrunk \subseteq InUse
  /\ mem_record_enabled => ListsExactly(leak_records, Traced, header)
  /\ ~mem_record_enabled => leak_records = <<>>

LEMMA DroppedExactly ==
  ASSUME NEW records \in Seq(Record), NEW T, NEW h, NEW b,
         ListsExactly(records, T, h)
  PROVE  /\ Dropped(records, b, h[b]) \in Seq(Record)
         /\ ListsExactly(Dropped(records, b, h[b]), T \ {b}, h)
<1>1. Len(records) \in Nat /\ DOMAIN records = 1 .. Len(records)
  BY LenProperties
<1>2. CASE ~IsRecorded(records, b)
  BY <1>2 DEF Dropped, IsRecorded, ListsExactly
<1>3. CASE IsRecorded(records, b)
  <2> DEFINE k == RecordOf(records, b)
             rest == RemoveAt(records, k)
  <2>1. PICK m \in DOMAIN records : records[m].mem = b
    BY <1>3 DEF IsRecorded
  <2>2. \A j \in 1 .. m - 1 : records[j].mem # b
    BY <1>1, <2>1 DEF ListsExactly
  <2>3. k \in DOMAIN records /\ records[k].mem = b
    BY <2>1, <2>2 DEF RecordOf
  <2> HIDE DEF k
  <2>4. Dropped(records, b, h[b]) = rest
    BY <1>3, <2>3 DEF Dropped, ListsExactly, k
  <2>5. /\ rest \in Seq(Record) /\ Len(rest) = Len(records) - 1
        /\ \A j \in 1 .. Len(records) - 1 :
             rest[j] = IF j < k THEN records[j] ELSE records[j + 1]
    BY <1>1, <2>3, RemoveAtProperties
  <2> HIDE DEF rest
  <2>6. DOMAIN rest = 1 .. Len(records) - 1
    BY <2>5, LenProperties
  <2>7. \A j \in DOMAIN rest :
          \E m2 \in DOMAIN records :
            /\ m2 # k /\ rest[j] = records[m2]
            /\ m2 = IF j < k THEN j ELSE j + 1
    BY <1>1, <2>3, <2>5, <2>6
  <2>8. \A m2 \in DOMAIN records \ {k} : \E j \in DOMAIN rest : rest[j] = records[m2]
    <3> SUFFICES ASSUME NEW m2 \in DOMAIN records \ {k}
                 PROVE  \E j \in DOMAIN rest : rest[j] = records[m2]
      OBVIOUS
    <3>1. CASE m2 < k
      <4>1. m2 \in DOMAIN rest /\ rest[m2] = records[m2]
        BY <1>1, <2>3, <2>5, <2>6, <3>1
      <4> QED
        BY <4>1
    <3>2. CASE m2 > k
      <4>1. m2 - 1 \in DOMAIN rest /\ ~(m2 - 1 < k) /\ (m2 - 1) + 1 = m2
        BY <1>1, <2>3, <2>6, <3>2
      <4>2. rest[m2 - 1] = records[m2]
        BY <2>5, <2>6, <4>1
      <4> QED
        BY <4>1, <4>2
    <3> QED
      BY <1>1, <2>3, <3>1, <3>2
  <2>9. /\ \A j \in DOMAIN rest :
             rest[j].mem \in T \ {b} /\ rest[j].size = h[rest[j].mem]
        /\ \A c \in T \ {b} : \E j \in DOMAIN rest : rest[j].mem = c
    BY <2>3, <2>7, <2>8 DEF ListsExactly
  <2>10. \A i, j \in DOMAIN rest : rest[i].mem = rest[j].mem => i = j
    BY <1>1, <2>3, <2>6, <2>7 DEF ListsExactly
  <2> QED
    BY <2>4, <2>5, <2>9, <2>10 DEF ListsExactly
<1> QED
  BY <1>2, <1>3

LEMMA AddedExactly ==
  ASSUME NEW records \in Seq(Record), NEW T, NEW h, NEW g,
         NEW b \in Blocks, NEW size \in Nat,
         ListsExactly(records, T, h), b \notin T,
         g[b] = size, \A c \in T : g[c] = h[c]
  PROVE  /\ Added(records, b, size) \in Seq(Record)
         /\ ListsExactly(Added(records, b, size), T \cup {b}, g)
<1> DEFINE r == [mem |-> b, size |-> size]
<1>1. Len(records) \in Nat /\ DOMAIN records = 1 .. Len(records)
  BY LenProperties
<1>2. Added(records, b, size) = Append(records, r)
  BY DEF Added, IsRecorded, ListsExactly
<1>3. r \in Record /\ r.mem = b /\ r.size = size
  BY DEF Record
<1> HIDE DEF r
<1> DEFINE more == Append(records, r)
<1>4. /\ more \in Seq(Record) /\ DOMAIN more = 1 .. Len(records) + 1
      /\ \A j \in 1 .. Len(records) : more[j] = records[j]
      /\ more[Len(records) + 1] = r
  BY <1>1, <1>3, AppendProperties, LenProperties
<1> HIDE DEF more
<1>5. \A k \in DOMAIN more : more[k].mem \in T \cup {b} /\ more[k].size = g[more[k].mem]
  BY <1>1, <1>3, <1>4 DEF ListsExactly
<1>6. \A c \in T \cup {b} : \E k \in DOMAIN more : more[k].mem = c
  BY <1>1, <1>3, <1>4 DEF ListsExactly
<1>7. \A j, k \in DOMAIN more : more[j].mem = more[k].mem => j = k
  BY <1>1, <1>3, <1>4 DEF ListsExactly
<1> QED
  BY <1>2, <1>4, <1>5, <1>6, <1>7 DEF ListsExactly, more

-----------------------------------------------------------------------------
MemInv == MemType /\ BalanceInv /\ RecordInv

LEMMA InitMem == MemInit => MemInv
<1> SUFFICES ASSUME MemInit PROVE MemInv
  OBVIOUS
<1>1. MemType
  <2>1. header \in [Blocks -> Nat] /\ mem_record_max \in Nat
    BY MemAssumption DEF MemInit
  <2>2. leak_records \in Seq(Record)
    BY DEF MemInit
  <2>3. mem_record_enabled \in BOOLEAN
    BY DEF MemInit
  <2> QED
    BY <2>1, <2>2, <2>3 DEF MemInit, MemType
<1>2. InUse = {}
  BY DEF MemInit, InUse
<1>3. BalanceInv
  BY <1>1, <1>2, SomeInUse DEF MemInit, MemType, BalanceInv
<1>4. RecordInv
  BY DEF MemInit, RecordInv
<1> QED
  BY <1>1, <1>3, <1>4 DEF MemInv

LEMMA MallocMem ==
  ASSUME MemInv, NEW size \in Sizes, Malloc(size) PROVE MemInv'
<1>1. MemType /\ BalanceInv /\ RecordInv /\ size \in Nat /\ size > 0
  BY MemAssumption DEF MemInv, Malloc
<1>2. PICK b \in Blocks \ InUse :
        Allocated(b, size) /\ RecordOnly(Added(leak_records, b, size))
  BY DEF Malloc
<1>3. /\ header' = [header EXCEPT ![b] = size] /\ Count(size, 0)
      /\ header \in [Blocks -> Nat] /\ header[b] = 0
      /\ leak_records \in Seq(Record)
  BY <1>1, <1>2 DEF Allocated, MemType, InUse
<1>4. /\ header' \in [Blocks -> Nat] /\ BytesInUse \in Nat
      /\ BytesInUse' = BytesInUse - 0 + size
  BY <1>1, <1>3, HeaderSet, SomeInUse
<1>5. BalanceInv' /\ MemType'
  <2>1. /\ BalanceInv'
        /\ total_allocated_mem' \in Nat /\ total_freed_mem' \in Nat
        /\ current_mem' \in Nat /\ peak_mem' \in Nat
    <3>1. /\ 0 <= BytesInUse /\ ~Refused(size, 0)
          /\ UNCHANGED <<quiet, mem_record_max>>
      BY <1>4 DEF Malloc
    <3> QED
      BY <1>1, <1>3, <1>4, <3>1, CountBalance
  <2>2. Added(leak_records, b, size) \in Seq(Record)
    BY <1>1, <1>3, AppendProperties DEF Added, Record
  <2>3. leak_records' \in Seq(Record) /\ mem_record_max' \in Nat
        /\ mem_record_enabled' \in BOOLEAN
    BY <1>1, <1>2, <2>2 DEF RecordOnly, Malloc, MemType
  <2> QED
    BY <1>4, <2>1, <2>3 DEF MemType
<1>6. RecordInv'
  <2>1. /\ InUse' = InUse \cup {b}
        /\ Traced' = Traced \cup {b} /\ b \notin Traced
        /\ \A c \in Traced : header'[c] = header[c]
    BY <1>1, <1>2, <1>3 DEF InUse, Traced, Malloc, RecordInv
  <2>2. before' \subseteq InUse' /\ shrunk' \subseteq InUse'
    BY <1>1, <2>1 DEF RecordInv, Malloc
  <2>3. CASE mem_record_enabled
    <3>1. ListsExactly(leak_records, Traced, header) /\ header'[b] = size
      BY <1>1, <1>3, <2>3 DEF RecordInv
    <3>2. ListsExactly(Added(leak_records, b, size), Traced \cup {b}, header')
      BY <1>1, <1>3, <2>1, <3>1, AddedExactly
    <3> QED
      BY <1>2, <2>1, <2>2, <2>3, <3>2 DEF RecordInv, RecordOnly, Malloc
  <2>4. CASE ~mem_record_enabled
    BY <1>1, <1>2, <2>2, <2>4 DEF RecordInv, RecordOnly, Malloc
  <2> QED
    BY <2>3, <2>4
<1> QED
  BY <1>5, <1>6 DEF MemInv

(* While nothing is recorded the list is empty, and stays so.              *)
LEMMA DroppedType ==
  ASSUME MemInv, NEW b, NEW records, RecordOnly(records),
         mem_record_enabled => records \in Seq(Record)
  PROVE  /\ leak_records' \in Seq(Record)
         /\ mem_record_enabled => leak_records' = records
         /\ ~mem_record_enabled => leak_records' = <<>>
BY DEF MemInv, MemType, RecordInv, RecordOnly

LEMMA ReallocMem ==
  ASSUME MemInv, NEW size \in Sizes, NEW b \in Blocks, Realloc(b, size)
  PROVE  MemInv'
<1>1. MemType /\ BalanceInv /\ RecordInv /\ size \in Nat /\ size > 0 /\ b \in InUse
  BY MemAssumption DEF MemInv, Realloc
<1> DEFINE rest == Dropped(leak_records, b, header[b])
<1>2. PICK c \in (Blocks \ InUse) \cup {b} :
        Moved(b, c, size) /\ RecordOnly(Added(rest, c, size))
  BY DEF Realloc, mem_size
<1>3. /\ header' = [header EXCEPT ![b] = 0, ![c] = size]
      /\ Count(size, header[b])
      /\ header \in [Blocks -> Nat] /\ header[b] \in Nat
      /\ leak_records \in Seq(Record) /\ c \in Blocks
  BY <1>1, <1>2 DEF Moved, MemType
<1>4. /\ header' \in [Blocks -> Nat]
      /\ BytesInUse' = BytesInUse - header[b] + size
      /\ header[b] <= BytesInUse
  BY <1>1, <1>2, <1>3, HeaderMoved
<1>5. /\ InUse' = (InUse \ {b}) \cup {c} /\ c \notin InUse \ {b}
      /\ \A x \in InUse \ {b} : header'[x] = header[x]
      /\ header'[c] = size
  BY <1>1, <1>2, <1>3 DEF InUse
<1>6. /\ Traced' = (Traced \ {b}) \cup {c} /\ c \notin Traced \ {b}
      /\ \A x \in Traced \ {b} : header'[x] = header[x]
      /\ before' \subseteq InUse' /\ shrunk' \subseteq InUse'
  BY <1>1, <1>5 DEF Traced, Realloc, RecordInv
<1>7. /\ BalanceInv'
      /\ total_allocated_mem' \in Nat /\ total_freed_mem' \in Nat
      /\ current_mem' \in Nat /\ peak_mem' \in Nat
  <2>1. ~Refused(size, header[b]) /\ UNCHANGED <<quiet, mem_record_max>>
    BY DEF Realloc, mem_size
  <2> QED
    BY <1>1, <1>3, <1>4, <2>1, CountBalance
<1>8. ASSUME mem_record_enabled
      PROVE  /\ Added(rest, c, size) \in Seq(Record)
             /\ ListsExactly(Added(rest, c, size), (Traced \ {b}) \cup {c}, header')
  <2>1. ListsExactly(leak_records, Traced, header)
    BY <1>1, <1>8 DEF RecordInv
  <2>2. rest \in Seq(Record) /\ ListsExactly(rest, Traced \ {b}, header)
    BY <1>3, <2>1, DroppedExactly
  <2> HIDE DEF rest
  <2>3. /\ c \in Blocks /\ size \in Nat /\ c \notin Traced \ {b}
        /\ header'[c] = size /\ \A x \in Traced \ {b} : header'[x] = header[x]
    BY <1>1, <1>3, <1>5, <1>6
  <2> QED
    BY ONLY <2>2, <2>3, AddedExactly
<1> HIDE DEF rest
<1>9. /\ leak_records' \in Seq(Record)
      /\ mem_record_enabled => leak_records' = Added(rest, c, size)
      /\ ~mem_record_enabled => leak_records' = <<>>
  BY <1>2, <1>8, DroppedType
<1>10. MemType'
  BY <1>1, <1>4, <1>7, <1>9 DEF MemType, Realloc
<1>11. RecordInv'
  BY <1>6, <1>8, <1>9 DEF RecordInv, Realloc
<1> QED
  BY <1>7, <1>10, <1>11 DEF MemInv

LEMMA ReallocToZeroMem ==
  ASSUME MemInv, NEW b \in Blocks, ReallocToZero(b) PROVE MemInv'
<1>1. MemType /\ BalanceInv /\ RecordInv /\ b \in InUse
  BY DEF MemInv, ReallocToZero
<1> DEFINE rest == Dropped(leak_records, b, header[b])
<1>2. /\ RecordOnly(rest) /\ shrunk' = shrunk \cup {b} /\ header' = header
      /\ UNCHANGED <<total_allocated_mem, total_freed_mem, current_mem, peak_mem,
                     mem_record_max, mem_record_enabled, before, quiet>>
  BY DEF ReallocToZero, mem_size, counters
<1>3. Traced' = Traced \ {b} /\ InUse' = InUse /\ shrunk' \subseteq InUse'
  BY <1>1, <1>2 DEF Traced, InUse, RecordInv
<1>4. mem_record_enabled =>
        rest \in Seq(Record) /\ ListsExactly(rest, Traced \ {b}, header)
  BY <1>1, DroppedExactly DEF RecordInv, MemType
<1> HIDE DEF rest
<1>5. /\ leak_records' \in Seq(Record)
      /\ mem_record_enabled => leak_records' = rest
      /\ ~mem_record_enabled => leak_records' = <<>>
  BY <1>2, <1>4, DroppedType
<1>6. MemType'
  BY <1>1, <1>2, <1>5 DEF MemType
<1>7. BalanceInv'
  BY <1>1, <1>2 DEF BalanceInv, BytesInUse
<1>8. RecordInv'
  BY <1>1, <1>2, <1>3, <1>4, <1>5 DEF RecordInv
<1> QED
  BY <1>6, <1>7, <1>8 DEF MemInv

LEMMA FreeMem ==
  ASSUME MemInv, NEW b \in Blocks, Free(b) PROVE MemInv'
<1>1. MemType /\ BalanceInv /\ RecordInv /\ b \in InUse
  BY DEF MemInv, Free
<1> DEFINE rest == Dropped(leak_records, b, header[b])
<1>2. /\ header' = [header EXCEPT ![b] = 0] /\ Count(0, header[b])
      /\ RecordOnly(rest)
      /\ before' = before \ {b} /\ shrunk' = shrunk \ {b}
      /\ UNCHANGED <<mem_record_max, mem_record_enabled, quiet>>
  BY DEF Free, Released, mem_size
<1>3. /\ header \in [Blocks -> Nat] /\ header[b] \in Nat
      /\ leak_records \in Seq(Record)
  BY <1>1 DEF MemType
<1>4. /\ header' \in [Blocks -> Nat]
      /\ BytesInUse' = BytesInUse - header[b] + 0
      /\ header[b] <= BytesInUse
  BY <1>2, <1>3, HeaderSet
<1>5. /\ BalanceInv'
      /\ total_allocated_mem' \in Nat /\ total_freed_mem' \in Nat
      /\ current_mem' \in Nat /\ peak_mem' \in Nat
  BY <1>1, <1>2, <1>3, <1>4, CountBalance
<1>6. /\ InUse' = InUse \ {b} /\ Traced' = Traced \ {b}
      /\ before' \subseteq InUse' /\ shrunk' \subseteq InUse'
      /\ \A c \in Traced \ {b} : header'[c] = header[c]
  BY <1>1, <1>2, <1>3 DEF InUse, Traced, RecordInv
<1>7. ASSUME mem_record_enabled
      PROVE  rest \in Seq(Record) /\ ListsExactly(rest, Traced \ {b}, header')
  <2>1. rest \in Seq(Record) /\ ListsExactly(rest, Traced \ {b}, header)
    BY <1>1, <1>3, <1>7, DroppedExactly DEF RecordInv
  <2> HIDE DEF rest
  <2> QED
    BY <1>6, <2>1 DEF ListsExactly
<1> HIDE DEF rest
<1>8. /\ leak_records' \in Seq(Record)
      /\ mem_record_enabled => leak_records' = rest
      /\ ~mem_record_enabled => leak_records' = <<>>
  BY <1>2, <1>7, DroppedType
<1>9. MemType'
  BY <1>1, <1>2, <1>4, <1>5, <1>8 DEF MemType
<1>10. RecordInv'
  BY <1>2, <1>6, <1>7, <1>8 DEF RecordInv
<1> QED
  BY <1>5, <1>9, <1>10 DEF MemInv

LEMMA RecordingMem ==
  ASSUME MemInv, RecordBegin \/ RecordEnd PROVE MemInv'
<1>1. /\ MemType /\ BalanceInv /\ RecordInv
      /\ header' = header /\ quiet' = quiet /\ mem_record_max' = mem_record_max
      /\ UNCHANGED <<total_allocated_mem, total_freed_mem, current_mem, peak_mem>>
  BY DEF MemInv, RecordBegin, RecordEnd, counters
<1>2. BalanceInv'
  BY <1>1 DEF BalanceInv, BytesInUse
<1>3. InUse' = InUse
  BY <1>1 DEF InUse
<1>4. CASE RecordBegin
  <2>1. /\ mem_record_enabled' = TRUE /\ before' = InUse /\ shrunk' = {}
        /\ leak_records' = <<>>
    BY <1>1, <1>4 DEF RecordBegin, RecordInv
  <2>2. Traced' = {}
    BY <1>3, <2>1 DEF Traced
  <2>3. MemType'
    BY <1>1, <2>1 DEF MemType
  <2>4. RecordInv'
    BY <1>3, <2>1, <2>2 DEF RecordInv, ListsExactly
  <2> QED
    BY <1>2, <2>3, <2>4 DEF MemInv
<1>5. CASE RecordEnd
  <2>1. /\ mem_record_enabled' = FALSE /\ before' = before /\ shrunk' = shrunk
        /\ leak_records' = <<>>
    BY <1>5 DEF RecordEnd
  <2>2. mem_record_enabled' \in BOOLEAN /\ leak_records' \in Seq(Record)
    <3>1. <<>> \in Seq(Record)
      OBVIOUS
    <3> QED
      BY <2>1, <3>1
  <2>4. MemType'
    BY <1>1, <2>2 DEF MemType
  <2>3. RecordInv'
    BY <1>1, <1>3, <2>1 DEF RecordInv
  <2> QED
    BY <1>2, <2>3, <2>4 DEF MemInv
<1> QED
  BY <1>4, <1>5

LEMMA ProfileMem ==
  ASSUME MemInv, ProfileReset \/ (\E max \in Limits : SetMax(max)) PROVE MemInv'
<1>1. /\ MemType /\ BalanceInv /\ RecordInv
      /\ header' = header /\ current_mem' = current_mem
      /\ UNCHANGED <<mem_record_enabled, leak_records, before, shrunk>>
      /\ quiet' => InUse = {} /\ quiet
  BY DEF MemInv, ProfileReset, SetMax, counters
<1>2. RecordInv'
  BY <1>1 DEF RecordInv, Traced, InUse
<1>3. MemType'
  BY <1>1, MemAssumption DEF MemType, ProfileReset, SetMax, counters
<1>4. current_mem' = BytesInUse'
  BY <1>1 DEF BalanceInv, BytesInUse
<1>5. ASSUME quiet' PROVE current_mem' = 0
  BY <1>1, <1>5, SomeInUse DEF BalanceInv, MemType
<1>6. BalanceInv'
  <2>1. ASSUME quiet'
        PROVE  /\ total_freed_mem' + current_mem' = total_allocated_mem'
               /\ current_mem' <= peak_mem'
               /\ mem_record_max' > 0 => current_mem' <= mem_record_max'
    <3>1. /\ quiet /\ current_mem' = 0
          /\ mem_record_max' \in Nat /\ peak_mem' \in Nat
      BY <1>1, <1>3, <1>5, <2>1 DEF MemType
    <3>2. total_freed_mem' + current_mem' = total_allocated_mem'
      BY <1>1, <3>1 DEF BalanceInv, ProfileReset, SetMax, counters
    <3> QED
      BY <3>1, <3>2
  <2> QED
    BY <1>4, <2>1 DEF BalanceInv
<1> QED
  BY <1>2, <1>3, <1>6 DEF MemInv

LEMMA MemStep == MemInv /\ [MemNext]_memVars => MemInv'
<1> SUFFICES ASSUME MemInv, [MemNext]_memVars PROVE MemInv'
  OBVIOUS
<1>1. ASSUME NEW size \in Sizes, Malloc(size) PROVE MemInv'
  BY <1>1, MallocMem
<1>2. ASSUME NEW size \in Sizes, NEW b \in Blocks, Realloc(b, size) PROVE MemInv'
  BY <1>2, ReallocMem
<1>3. ASSUME NEW b \in Blocks, ReallocToZero(b) PROVE MemInv'
  BY <1>3, ReallocToZeroMem
<1>4. ASSUME NEW b \in Blocks, Free(b) PROVE MemInv'
  BY <1>4, FreeMem
<1>5. CASE RecordBegin \/ RecordEnd
  BY <1>5, RecordingMem
<1>6. CASE ProfileReset \/ (\E max \in Limits : SetMax(max))
  BY <1>6, ProfileMem
<1>7. CASE UNCHANGED memVars
  BY <1>7 DEF memVars, counters, MemInv, MemType, BalanceInv, RecordInv, Traced,
              InUse, BytesInUse
<1> QED
  BY <1>1, <1>2, <1>3, <1>4, <1>5, <1>6, <1>7 DEF MemNext

THEOREM MemAlways == MemSpec => []MemInv
BY InitMem, MemStep, PTL DEF MemSpec

(* The profile of g_mem_profile adds up, for any blocks, sizes and limits: *)
(* current_mem is the memory in use, the totals agree exactly when nothing *)
(* is in use, and the memory in use never exceeds a limit set in time.     *)
THEOREM ProfileAddsUp == MemSpec => []Balanced
<1>1. MemInv => Balanced
  <2> SUFFICES ASSUME MemInv PROVE Balanced
    OBVIOUS
  <2>1. MemType /\ BalanceInv
    BY DEF MemInv
  <2>2. BytesInUse = 0 <=> InUse = {}
    BY <2>1, SomeInUse DEF MemType
  <2>3. ASSUME quiet
        PROVE  (total_allocated_mem = total_freed_mem) <=> (InUse = {})
    <3>1. /\ total_allocated_mem \in Nat /\ total_freed_mem \in Nat
          /\ current_mem \in Nat /\ current_mem = BytesInUse
          /\ total_freed_mem + current_mem = total_allocated_mem
      BY <2>1, <2>3 DEF MemType, BalanceInv
    <3>2. (total_allocated_mem = total_freed_mem) <=> (current_mem = 0)
      BY <3>1
    <3> QED
      BY <2>2, <3>1, <3>2
  <2> QED
    BY <2>1, <2>3 DEF BalanceInv, Balanced
<1> QED
  BY <1>1, MemAlways, PTL

LEMMA AsManyAsTraced ==
  ASSUME NEW records \in Seq(Record), NEW T, NEW h, ListsExactly(records, T, h)
  PROVE  Len(records) = Cardinality(T)
<1>1. Len(records) \in Nat /\ DOMAIN records = 1 .. Len(records)
  BY LenProperties
<1> DEFINE f == [k \in 1 .. Len(records) |-> records[k].mem]
<1>2. f \in Bijection(1 .. Len(records), T)
  BY <1>1 DEF ListsExactly, Bijection, Injection, Surjection, IsInjective
<1>3. ExistsBijection(1 .. Len(records), T)
  BY <1>2 DEF ExistsBijection
<1> QED
  BY <1>1, <1>3, FS_CountingElements

(* While recording, the leak list is exact: one record of the right size   *)
(* for each block allocated since and still in use, addresses being handed *)
(* out again and blocks moved by g_realloc included.                       *)
THEOREM LeaksNamed == MemSpec => []LeaksExact
<1>1. MemInv => LeaksExact
  <2> SUFFICES ASSUME MemInv, mem_record_enabled
               PROVE  /\ ToSet(leak_records) =
                           {[mem |-> b, size |-> header[b]] : b \in Traced}
                      /\ Len(leak_records) = Cardinality(Traced)
    BY DEF MemInv, RecordInv, LeaksExact, Traced
  <2>1. leak_records \in Seq(Record) /\ ListsExactly(leak_records, Traced, header)
    BY DEF MemInv, MemType, RecordInv
  <2>2. DOMAIN leak_records = 1 .. Len(leak_records)
        /\ \A k \in DOMAIN leak_records : leak_records[k] \in Record
    BY <2>1, ElementOfSeq, LenProperties
  <2>3. \A k \in DOMAIN leak_records :
          leak_records[k] = [mem |-> leak_records[k].mem,
                             size |-> header[leak_records[k].mem]]
    BY <2>1, <2>2 DEF ListsExactly, Record
  <2>4. ToSet(leak_records) = {leak_records[k] : k \in DOMAIN leak_records}
    BY <2>1, <2>2 DEF ToSet
  <2>5. ToSet(leak_records) = {[mem |-> b, size |-> header[b]] : b \in Traced}
    BY <2>1, <2>3, <2>4 DEF ListsExactly
  <2> QED
    BY <2>1, <2>5, AsManyAsTraced
<1> QED
  BY <1>1, MemAlways, PTL

-----------------------------------------------------------------------------
(***************************************************************************)
(* Registry: the classes outlive the objects of a careful client, and      *)
(* every object is held in one place or was freed once.                    *)
(***************************************************************************)
(* An object lives in no container or in one that is not the class         *)
(* system's own.                                                           *)
Places == (Containers \cup {Client}) \ {ClassSystem}
Requests == [class: Classes, where: Places]
MapStates == {"NULL", "live", "freed"}
Things == [class: Classes, where: Places, stale: BOOLEAN, freed: Nat]

TypeInv ==
  /\ DOMAIN containers \subseteq Containers /\ IsFiniteSet(DOMAIN containers)
  /\ \A n \in DOMAIN containers : containers[n] \in Seq(Nat)
  /\ name_to_class \in MapStates
  /\ objects \in Seq(Things)
  /\ wanted \in Requests \cup {Nothing}
  /\ fault \in BOOLEAN /\ careless \in BOOLEAN

(* Each container has each pointer once, the class system's none but the   *)
(* map of classes, and that while it lives; the others have exactly the    *)
(* live objects that were created for them.                                *)
Has(n, p) == n \in DOMAIN containers /\ p \in ToSet(containers[n])
PointersInv ==
  /\ \A n \in DOMAIN containers : IsInjective(containers[n])
  /\ \A n \in DOMAIN containers : \A p \in ToSet(containers[n]) :
       IF n = ClassSystem THEN p = ClassMap ELSE p \in DOMAIN objects
  /\ Has(ClassSystem, ClassMap) <=> name_to_class = "live"
  /\ \A n \in Containers \ {ClassSystem}, o \in DOMAIN objects :
       Has(n, o) <=> Live(o) /\ objects[o].where = n

FreedOnce == \A o \in DOMAIN objects : objects[o].freed <= 1

ClassesInv ==
  /\ name_to_class # "live" => registered = <<>>
  /\ \A c \in DOMAIN registered :
       registered[c] # NoClass => registered[c] \in DOMAIN registered

(* A careful client's objects have their classes.                          *)
CarefulInv ==
  ~careless => ~fault /\ \A o \in DOMAIN objects : Live(o) => ~objects[o].stale

RegistryInv == TypeInv /\ PointersInv /\ FreedOnce /\ ClassesInv /\ CarefulInv

-----------------------------------------------------------------------------
(* The order in which g_auto_free takes the containers: a finite set of    *)
(* names can be sorted, and the sorted sequence has them all.              *)
Ascends(s) == \A i, j \in DOMAIN s : i < j => s[i] < s[j]

LEMMA SortedExists ==
  ASSUME NEW S \in SUBSET Nat, IsFiniteSet(S)
  PROVE  \E s \in SetToSeqs(S) : Ascends(s)
<1> DEFINE P == {T \in SUBSET S : \E s \in SetToSeqs(T) : Ascends(s)}
<1>1. \A T \in SUBSET S : IsFiniteSet(T) /\ Cardinality(T) \in Nat
  BY FS_Subset, FS_CardinalityType
<1>2. {} \in P
  <2> DEFINE none == [i \in 1 .. 0 |-> i]
  <2>1. none \in [1 .. 0 -> {}] /\ 1 .. 0 = {} /\ Cardinality({}) = 0
    BY FS_EmptySet
  <2>2. none \in SetToSeqs({}) /\ Ascends(none)
    BY <2>1 DEF SetToSeqs, Ascends
  <2> QED
    BY <2>2
<1>3. ASSUME NEW T \in SUBSET S, T # {}, \A x \in T : T \ {x} \in P PROVE T \in P
  <2>1. T \in SUBSET Int
    OBVIOUS
  <2>2. PICK m \in T : \A y \in T : m >= y
    BY <1>1, <1>3, <2>1, LargestExists
  <2> DEFINE n == Cardinality(T \ {m})
             U == T \ {m}
  <2>3. n \in Nat /\ Cardinality(T) = n + 1
    BY <1>1, OneRemoved
  <2>4. PICK s \in SetToSeqs(U) : Ascends(s)
    BY <1>3, <2>2
  <2>5. /\ s \in [1 .. n -> U]
        /\ \A i, j \in 1 .. n : i # j => s[i] # s[j]
        /\ \A i, j \in 1 .. n : i < j => s[i] < s[j]
    BY <2>4 DEF SetToSeqs, Ascends
  <2> HIDE DEF n
  <2> DEFINE t == [i \in 1 .. n + 1 |-> IF i = n + 1 THEN m ELSE s[i]]
  <2>6. \A i \in 1 .. n + 1 : i # n + 1 => i \in 1 .. n
    BY <2>3
  <2>7. \A i \in 1 .. n : s[i] \in T /\ s[i] \in Nat /\ m \in Nat /\ s[i] # m /\ s[i] < m
    <3> SUFFICES ASSUME NEW i \in 1 .. n
                 PROVE  s[i] \in T /\ s[i] \in Nat /\ m \in Nat /\ s[i] # m /\ s[i] < m
      OBVIOUS
    <3>1. s[i] \in U
      BY <2>5
    <3>2. s[i] \in Nat /\ m \in Nat /\ m >= s[i] /\ s[i] # m /\ s[i] \in T
      BY <2>2, <3>1
    <3> QED
      BY <3>2
  <2>8. t \in [1 .. n + 1 -> T]
    BY <2>2, <2>6, <2>7
  <2>9. \A i, j \in 1 .. n + 1 : i # j => t[i] # t[j]
    BY <2>5, <2>6, <2>7
  <2>10. \A i, j \in 1 .. n + 1 : i < j => t[i] < t[j]
    <3> SUFFICES ASSUME NEW i \in 1 .. n + 1, NEW j \in 1 .. n + 1, i < j
                 PROVE  t[i] < t[j]
      OBVIOUS
    <3>1. i \in 1 .. n /\ t[i] = s[i]
      BY <2>3
    <3>2. CASE j = n + 1
      BY <2>7, <3>1, <3>2
    <3>3. CASE j # n + 1
      BY <2>5, <2>6, <3>1, <3>3
    <3> QED
      BY <3>2, <3>3
  <2>11. DOMAIN t = 1 .. n + 1
    OBVIOUS
  <2> HIDE DEF t
  <2>12. t \in SetToSeqs(T) /\ Ascends(t)
    BY <2>3, <2>8, <2>9, <2>10, <2>11 DEF SetToSeqs, Ascends
  <2> QED
    BY <2>12
<1> HIDE DEF P
<1>4. S \in P
  BY <1>2, <1>3, FiniteInduction
<1> QED
  BY <1>4 DEF P

LEMMA OrderProperties ==
  ASSUME NEW S \in SUBSET Nat, IsFiniteSet(S)
  PROVE  /\ Order(S) \in Seq(S) /\ IsInjective(Order(S)) /\ ToSet(Order(S)) = S
         /\ Ascends(Order(S))
<1> DEFINE s == Order(S)
           n == Cardinality(S)
<1>1. \E t \in SetToSeqs(S) : \A i, j \in DOMAIN t : i < j => t[i] < t[j]
  BY SortedExists DEF Ascends
<1>2. s \in SetToSeqs(S) /\ Ascends(s)
  BY <1>1 DEF Order, Ascends
<1> HIDE DEF s
<1>3. n \in Nat
  BY FS_CardinalityType
<1>4. s \in [1 .. n -> S] /\ \A i, j \in 1 .. n : i # j => s[i] # s[j]
  BY <1>2 DEF SetToSeqs
<1>5. IsInjective(s) /\ s \in Injection(1 .. n, S)
  BY <1>4 DEF IsInjective, Injection
<1>6. Cardinality(1 .. n) = n
  BY <1>3, FS_Interval
<1>7. s \in Surjection(1 .. n, S)
  BY <1>5, <1>6, FS_Injection
<1>8. ToSet(s) = S
  BY <1>4, <1>7 DEF Surjection, ToSet
<1>9. s \in Seq(S)
  BY <1>3, <1>4
<1> QED
  BY <1>2, <1>5, <1>8, <1>9 DEF s

-----------------------------------------------------------------------------
(* What the free callbacks of the pointers in P do: each object among them *)
(* is freed once more, and with the map of classes the classes are gone.   *)
Systems(d, R) ==
  [registered: R, objects: [d -> Things], fault: BOOLEAN, map: MapStates]

Changed(s, t, o, P) ==
  /\ t.objects[o].class = s.objects[o].class
  /\ t.objects[o].where = s.objects[o].where
  /\ t.objects[o].freed = s.objects[o].freed + (IF o \in P THEN 1 ELSE 0)
  /\ t.objects[o].stale <=> s.objects[o].stale \/ ClassMap \in P

Effect(s, t, P) ==
  /\ t.registered = IF ClassMap \in P THEN <<>> ELSE s.registered
  /\ t.map = IF ClassMap \in P THEN "freed" ELSE s.map
  /\ \A o \in DOMAIN s.objects : Changed(s, t, o, P)

Unsafe(s, o) == s.objects[o].stale \/ s.objects[o].freed > 0

LEMMA SystemIs ==
  ASSUME NEW d, NEW R, NEW s \in Systems(d, R)
  PROVE  /\ s.registered \in R /\ s.objects \in [d -> Things]
         /\ s.fault \in BOOLEAN /\ s.map \in MapStates /\ DOMAIN s.objects = d
         /\ \A o \in d : /\ s.objects[o] \in Things
                         /\ s.objects[o].class \in Classes
                         /\ s.objects[o].where \in Places
                         /\ s.objects[o].stale \in BOOLEAN
                         /\ s.objects[o].freed \in Nat
<1>1. /\ s.registered \in R /\ s.objects \in [d -> Things]
      /\ s.fault \in BOOLEAN /\ s.map \in MapStates
  BY DEF Systems
<1>2. \A o \in d : s.objects[o] \in Things
  BY <1>1
<1>3. \A x \in Things : x.class \in Classes /\ x.where \in Places
                        /\ x.stale \in BOOLEAN /\ x.freed \in Nat
  BY DEF Things
<1> QED
  BY <1>1, <1>2, <1>3

LEMMA SystemWith ==
  ASSUME NEW d, NEW R, NEW s \in Systems(d, R), NEW x \in [d -> Things],
         NEW y \in BOOLEAN
  PROVE  [s EXCEPT !.objects = x, !.fault = y] \in Systems(d, R)
BY DEF Systems

LEMMA ObjectFreed ==
  ASSUME NEW d, ClassMap \notin d, NEW R, NEW s \in Systems(d, R), NEW o \in d
  PROVE  LET t == FreeObject(s, o)
         IN  /\ t \in Systems(d, R)
             /\ Effect(s, t, {o})
             /\ t.fault <=> s.fault \/ Unsafe(s, o)
<1> DEFINE t == FreeObject(s, o)
           old == s.objects[o]
           new == [old EXCEPT !.freed = @ + 1]
<1>1. /\ s.registered \in R /\ s.objects \in [d -> Things]
      /\ s.fault \in BOOLEAN /\ s.map \in MapStates /\ DOMAIN s.objects = d
      /\ old \in Things /\ old.stale \in BOOLEAN /\ old.freed \in Nat
  BY SystemIs
<1>2. /\ t.registered = s.registered /\ t.map = s.map
      /\ t.objects = [s.objects EXCEPT ![o] = new]
      /\ t.fault = (s.fault \/ old.stale \/ old.freed > 0)
  BY DEF FreeObject, Systems
<1>3. /\ new \in Things /\ new.class = old.class /\ new.where = old.where
      /\ new.stale = old.stale /\ new.freed = old.freed + 1
  BY <1>1 DEF Things
<1>4. t = [s EXCEPT !.objects = t.objects, !.fault = t.fault]
  BY DEF FreeObject, Systems
<1> HIDE DEF t, new, old
<1>5. /\ t.objects \in [d -> Things] /\ t.objects[o] = new
      /\ \A x \in d : x # o => t.objects[x] = s.objects[x]
  BY <1>1, <1>2, <1>3
<1>6. t \in Systems(d, R)
  <2>1. t.fault \in BOOLEAN
    BY <1>2
  <2>2. [s EXCEPT !.objects = t.objects, !.fault = t.fault] \in Systems(d, R)
    BY <1>5, <2>1, SystemWith
  <2> QED
    BY <1>4, <2>2
<1>7. \A x \in d : s.objects[x].freed \in Nat /\ s.objects[x].stale \in BOOLEAN
  BY SystemIs
<1>8. ASSUME NEW x \in d PROVE Changed(s, t, x, {o})
  BY <1>3, <1>5, <1>7 DEF Changed, old
<1>9. Effect(s, t, {o})
  BY <1>1, <1>2, <1>8 DEF Effect
<1> QED
  BY <1>1, <1>2, <1>6, <1>9 DEF t, Unsafe, old

LEMMA ClassesFreed ==
  ASSUME NEW d, ClassMap \notin d, NEW R, <<>> \in R, NEW s \in Systems(d, R)
  PROVE  LET t == FreeClasses(s)
         IN  /\ t \in Systems(d, R)
             /\ Effect(s, t, {ClassMap})
             /\ t.fault <=> s.fault
<1> DEFINE t == FreeClasses(s)
           stale == [o \in d |-> [s.objects[o] EXCEPT !.stale = TRUE]]
<1>1. /\ s.registered \in R /\ s.objects \in [d -> Things]
      /\ s.fault \in BOOLEAN /\ s.map \in MapStates /\ DOMAIN s.objects = d
      /\ \A o \in d : s.objects[o] \in Things /\ s.objects[o].freed \in Nat
  BY SystemIs
<1>2. /\ t.registered = <<>> /\ t.map = "freed" /\ t.fault = s.fault
      /\ t.objects = stale
      /\ t = [s EXCEPT !.registered = <<>>, !.objects = stale, !.map = "freed"]
  BY <1>1 DEF FreeClasses, Systems
<1>3. \A o \in d : LET x == s.objects[o] IN
        /\ stale[o] \in Things /\ stale[o].class = x.class
        /\ stale[o].where = x.where /\ stale[o].freed = x.freed
        /\ stale[o].stale = TRUE
  BY <1>1 DEF Things
<1>4. stale \in [d -> Things]
  BY <1>3
<1> HIDE DEF t, stale
<1>5. t \in Systems(d, R)
  BY <1>1, <1>2, <1>4 DEF Systems, MapStates
<1>6. ASSUME NEW x \in d PROVE Changed(s, t, x, {ClassMap})
  BY <1>1, <1>2, <1>3 DEF Changed
<1>7. Effect(s, t, {ClassMap})
  BY <1>1, <1>2, <1>6 DEF Effect
<1> QED
  BY <1>2, <1>5, <1>7 DEF t

LEMMA EffectNone ==
  ASSUME NEW d, NEW R, NEW s \in Systems(d, R)
  PROVE  Effect(s, s, {})
BY SystemIs DEF Effect, Changed

LEMMA EffectThen ==
  ASSUME NEW d, NEW R, NEW s \in Systems(d, R), NEW t \in Systems(d, R),
         NEW u \in Systems(d, R), NEW P, NEW Q, P \cap Q = {},
         Effect(s, t, P), Effect(t, u, Q)
  PROVE  Effect(s, u, P \cup Q)
<1>1. /\ DOMAIN s.objects = d /\ DOMAIN t.objects = d
      /\ \A o \in d : s.objects[o].freed \in Nat
      /\ \A o \in d : s.objects[o].stale \in BOOLEAN
      /\ \A o \in d : t.objects[o].stale \in BOOLEAN
      /\ \A o \in d : u.objects[o].stale \in BOOLEAN
  BY SystemIs
<1>2. ASSUME NEW o \in d PROVE Changed(s, u, o, P \cup Q)
  <2>1. Changed(s, t, o, P) /\ Changed(t, u, o, Q)
    BY <1>1 DEF Effect
  <2> QED
    BY <1>1, <2>1 DEF Changed
<1> QED
  BY <1>1, <1>2 DEF Effect

(* The callbacks of a container run one after another.                     *)
Freeable(d) == {ClassMap} \cup d

LEMMA PointerFreed ==
  ASSUME NEW d, ClassMap \notin d, NEW R, <<>> \in R,
         NEW s \in Systems(d, R), NEW p \in Freeable(d)
  PROVE  LET t == FreePointer(s, p)
         IN  /\ t \in Systems(d, R)
             /\ Effect(s, t, {p})
             /\ t.fault <=> s.fault \/ (p # ClassMap /\ Unsafe(s, p))
<1>1. CASE p = ClassMap
  <2>1. FreePointer(s, p) = FreeClasses(s)
    BY <1>1 DEF FreePointer
  <2> QED
    BY <1>1, <2>1, ClassesFreed
<1>2. CASE p # ClassMap
  <2>1. FreePointer(s, p) = FreeObject(s, p) /\ p \in d
    BY <1>2 DEF FreePointer, Freeable
  <2> QED
    BY <1>2, <2>1, ObjectFreed
<1> QED
  BY <1>1, <1>2

PointerStages(stage, s, q) ==
  /\ stage[{}] = s
  /\ \A k \in 1 .. Len(q) : stage[1 .. k] = FreePointer(stage[1 .. k - 1], q[k])
  /\ FoldLeft(FreePointer, s, q) = stage[1 .. Len(q)]

LEMMA PointerStagesExist ==
  ASSUME NEW d, ClassMap \notin d, NEW R, <<>> \in R,
         NEW s \in Systems(d, R), NEW q \in Seq(Freeable(d))
  PROVE  \E stage : PointerStages(stage, s, q)
<1> DEFINE A == Systems(d, R)
           n == Len(q)
           step == [p \in A \X (1 .. n) |-> FreePointer(p[1], q[p[2]])]
           IsIter(iter) ==
             iter = [x \in SUBSET DOMAIN q |->
                       IF x = {} THEN s ELSE FreePointer(iter[x \ {Max(x)}], q[Max(x)])]
           stage == CHOOSE iter : IsIter(iter)
<1>1. /\ DOMAIN q = 1 .. n /\ n \in Nat /\ \A i \in 1 .. n : q[i] \in Freeable(d)
  BY LenProperties, ElementOfSeq
<1>2. step \in [A \X (1 .. n) -> A]
  <2>1. \A t \in A, x \in Freeable(d) : FreePointer(t, x) \in A
    BY PointerFreed
  <2> HIDE DEF A
  <2> QED
    BY <1>1, <2>1
<1>3. \A t \in A, i \in 1 .. n : step[<<t, i>>] = FreePointer(t, q[i])
  OBVIOUS
<1>4. \A x \in SUBSET (1 .. n) : x # {} => Max(x) \in x
  BY <1>1, LargestOf
<1> HIDE DEF step, A
<1>5. PICK iter \in [SUBSET (1 .. n) -> A] :
        /\ iter[{}] = s
        /\ \A x \in SUBSET (1 .. n) : x # {} =>
             iter[x] = step[<<iter[x \ {Max(x)}], Max(x)>>]
  <2>1. s \in A
    BY DEF A
  <2>2. \E iter \in [SUBSET (1 .. n) -> A] : IsOrderedFold(iter, n, s, step)
    BY ONLY <1>1, <1>2, <2>1, OrderedFoldExists
  <2> QED
    BY <2>2 DEF IsOrderedFold
<1>6. IsIter(iter)
  <2>1. iter = [x \in SUBSET (1 .. n) |-> iter[x]]
    BY <1>5
  <2>2. \A x \in SUBSET (1 .. n) :
          iter[x] = IF x = {} THEN s ELSE FreePointer(iter[x \ {Max(x)}], q[Max(x)])
    <3> SUFFICES ASSUME NEW x \in SUBSET (1 .. n), x # {}
                 PROVE  iter[x] = FreePointer(iter[x \ {Max(x)}], q[Max(x)])
      BY <1>5
    <3>1. Max(x) \in 1 .. n
      BY <1>4
    <3>2. iter[x \ {Max(x)}] \in A
      BY <1>5
    <3> QED
      BY <1>3, <1>5, <3>1, <3>2
  <2> QED
    BY <1>1, <2>1, <2>2
<1>7. IsIter(stage)
  BY <1>6
<1>8. FoldLeft(FreePointer, s, q) = stage[1 .. n]
  BY <1>1 DEF FoldLeft, MapThenFoldSet
<1>9. \A x \in SUBSET (1 .. n) :
        stage[x] = IF x = {} THEN s ELSE FreePointer(stage[x \ {Max(x)}], q[Max(x)])
  <2> HIDE DEF stage
  <2> QED
    BY <1>1, <1>7
<1> HIDE DEF stage
<1>10. stage[{}] = s
  <2>1. {} \in SUBSET (1 .. n)
    OBVIOUS
  <2> QED
    BY <1>9, <2>1
<1>11. ASSUME NEW k \in 1 .. n PROVE stage[1 .. k] = FreePointer(stage[1 .. k - 1], q[k])
  <2>1. /\ Max(1 .. k) = k /\ (1 .. k) \ {k} = 1 .. k - 1
        /\ 1 .. k \in SUBSET (1 .. n) /\ 1 .. k # {}
    BY <1>1, LargestOfFirst
  <2> QED
    BY <1>9, <2>1
<1> QED
  BY <1>8, <1>10, <1>11 DEF PointerStages

(* Freeing the pointers in P uses no freed memory if the map of classes    *)
(* is not among objects, and those have classes and were not freed.        *)
Safe(s, P) ==
  /\ ~s.fault
  /\ \A o \in P : o # ClassMap => ~Unsafe(s, o)
  /\ ClassMap \in P => P = {ClassMap}

Served(q, k) == {q[i] : i \in 1 .. k}

LEMMA ServedNext ==
  ASSUME NEW q, NEW n \in Nat, NEW k \in Nat, k + 1 <= n,
         \A i, j \in 1 .. n : q[i] = q[j] => i = j
  PROVE  /\ Served(q, k + 1) = Served(q, k) \cup {q[k + 1]}
         /\ q[k + 1] \notin Served(q, k)
<1>1. /\ 1 .. k + 1 = (1 .. k) \cup {k + 1}
      /\ \A i \in 1 .. k : i \in 1 .. n /\ k + 1 \in 1 .. n /\ i # k + 1
  OBVIOUS
<1> QED
  BY <1>1 DEF Served

LEMMA SequenceFreed ==
  ASSUME NEW d, ClassMap \notin d, NEW R, <<>> \in R,
         NEW s \in Systems(d, R), NEW q \in Seq(Freeable(d)), IsInjective(q)
  PROVE  LET t == FoldLeft(FreePointer, s, q)
         IN  /\ t \in Systems(d, R)
             /\ Effect(s, t, ToSet(q))
             /\ Safe(s, ToSet(q)) => ~t.fault
<1> DEFINE n == Len(q)
<1>1. /\ DOMAIN q = 1 .. n /\ n \in Nat /\ \A i \in 1 .. n : q[i] \in Freeable(d)
      /\ \A i, j \in 1 .. n : q[i] = q[j] => i = j
  BY LenProperties, ElementOfSeq DEF IsInjective
<1>2. PICK stage : PointerStages(stage, s, q)
  BY PointerStagesExist
<1>3. /\ stage[{}] = s /\ FoldLeft(FreePointer, s, q) = stage[1 .. n]
      /\ \A k \in 1 .. n : stage[1 .. k] = FreePointer(stage[1 .. k - 1], q[k])
  BY <1>2 DEF PointerStages
<1>4. Served(q, n) = ToSet(q)
  BY <1>1 DEF Served, ToSet
<1> DEFINE Good(k) == /\ stage[1 .. k] \in Systems(d, R)
                      /\ Effect(s, stage[1 .. k], Served(q, k))
                      /\ Safe(s, ToSet(q)) => ~stage[1 .. k].fault
           P == {k \in Nat : k <= n => Good(k)}
<1>5. 0 \in P
  <2>1. 1 .. 0 = {} /\ Served(q, 0) = {}
    BY DEF Served
  <2>2. Effect(s, s, {})
    BY EffectNone
  <2>3. Safe(s, ToSet(q)) => ~s.fault
    BY DEF Safe
  <2>4. Good(0)
    BY <1>3, <2>1, <2>2, <2>3
  <2> QED
    BY <2>4
<1>6. ASSUME NEW k \in Nat, k \in P PROVE k + 1 \in P
  <2> SUFFICES ASSUME k + 1 <= n PROVE Good(k + 1)
    OBVIOUS
  <2> DEFINE t == stage[1 .. k]
             u == stage[1 .. k + 1]
             p == q[k + 1]
  <2>1. k <= n /\ k + 1 \in 1 .. n /\ (k + 1) - 1 = k
    BY <1>1
  <2>2. /\ t \in Systems(d, R) /\ Effect(s, t, Served(q, k))
        /\ Safe(s, ToSet(q)) => ~t.fault
    BY <1>6, <2>1
  <2>3. u = FreePointer(t, p) /\ p \in Freeable(d)
    BY <1>1, <1>3, <2>1
  <2>4. /\ Served(q, k + 1) = Served(q, k) \cup {p} /\ p \notin Served(q, k)
    BY <1>1, ServedNext
  <2>5. p \in ToSet(q) /\ Served(q, k) \subseteq ToSet(q)
    BY <1>1, <2>1 DEF Served, ToSet
  <2> HIDE DEF t, u, p, Good, P
  <2>6. /\ u \in Systems(d, R) /\ Effect(t, u, {p})
        /\ u.fault <=> t.fault \/ (p # ClassMap /\ Unsafe(t, p))
    BY <2>2, <2>3, PointerFreed
  <2>7. Served(q, k) \cap {p} = {}
    BY <2>4
  <2>8. Effect(s, u, Served(q, k + 1))
    BY <2>2, <2>4, <2>6, <2>7, EffectThen
  <2>9. ASSUME Safe(s, ToSet(q)) PROVE ~u.fault
    <3> SUFFICES ASSUME p # ClassMap PROVE ~Unsafe(t, p)
      BY <2>2, <2>6, <2>9
    <3>1. ~Unsafe(s, p) /\ ClassMap \notin Served(q, k)
      BY <2>5, <2>9 DEF Safe
    <3>2. p \in d /\ DOMAIN s.objects = d /\ s.objects[p].freed \in Nat
      BY <2>3, SystemIs DEF Freeable
    <3>3. Changed(s, t, p, Served(q, k))
      BY <2>2, <3>2 DEF Effect
    <3> QED
      BY <2>4, <3>1, <3>2, <3>3 DEF Changed, Unsafe
  <2> QED
    BY <2>6, <2>8, <2>9 DEF Good, u
<1>7. n \in P
  <2> HIDE DEF P
  <2> QED
    BY <1>1, <1>5, <1>6, NaturalInduction
<1> QED
  BY <1>1, <1>3, <1>4, <1>7

-----------------------------------------------------------------------------
(* Each container in turn.                                                 *)
Held(n) == ToSet(Pointers(n))

LEMMA NotAnObject == ASSUME TypeInv PROVE ClassMap \notin DOMAIN objects
BY DEF TypeInv, ClassMap

LEMMA HeldIs ==
  ASSUME TypeInv, PointersInv
  PROVE  /\ \A n : /\ Pointers(n) \in Seq(Freeable(DOMAIN objects))
                   /\ IsInjective(Pointers(n))
                   /\ \A p : p \in Held(n) <=> Has(n, p)
                   /\ ClassMap \in Held(n) => n = ClassSystem
         /\ Held(ClassSystem) \subseteq {ClassMap}
         /\ \A n, o : n # ClassSystem /\ o \in Held(n) =>
              o \in DOMAIN objects /\ Live(o) /\ objects[o].where = n
<1>1. ASSUME NEW n
      PROVE  /\ Pointers(n) \in Seq(Freeable(DOMAIN objects))
             /\ IsInjective(Pointers(n))
             /\ \A p : p \in Held(n) <=> Has(n, p)
             /\ ClassMap \in Held(n) => n = ClassSystem
             /\ n = ClassSystem => Held(n) \subseteq {ClassMap}
             /\ \A o : n # ClassSystem /\ o \in Held(n) =>
                  o \in DOMAIN objects /\ Live(o) /\ objects[o].where = n
  <2>1. CASE n \notin DOMAIN containers
    <3>1. Pointers(n) = <<>>
      BY <2>1 DEF Pointers
    <3>2. Held(n) = {}
      BY <3>1 DEF Held, ToSet
    <3>3. <<>> \in Seq(Freeable(DOMAIN objects)) /\ IsInjective(<<>>)
      BY DEF IsInjective
    <3> QED
      BY <2>1, <3>1, <3>2, <3>3 DEF Has
  <2>2. CASE n \in DOMAIN containers
    <3> DEFINE q == containers[n]
    <3>1. Pointers(n) = q /\ q \in Seq(Nat) /\ IsInjective(q) /\ n \in Containers
      BY <2>2 DEF Pointers, TypeInv, PointersInv
    <3>2. \A p : p \in Held(n) <=> Has(n, p)
      BY <2>2, <3>1 DEF Held, Has
    <3>3. \A p \in Held(n) : IF n = ClassSystem THEN p = ClassMap ELSE p \in DOMAIN objects
      BY <2>2, <3>1 DEF Held, PointersInv
    <3>4. \A i \in 1 .. Len(q) : q[i] \in Held(n)
      BY <3>1 DEF Held, ToSet
    <3> HIDE DEF q
    <3>5. q \in Seq(Freeable(DOMAIN objects))
      <4>1. \A i \in 1 .. Len(q) : q[i] \in Freeable(DOMAIN objects)
        BY <3>3, <3>4 DEF Freeable
      <4>2. q = [i \in 1 .. Len(q) |-> q[i]] /\ Len(q) \in Nat
        BY <3>1
      <4> QED
        BY <4>1, <4>2
    <3>6. \A o : n # ClassSystem /\ o \in Held(n) =>
            o \in DOMAIN objects /\ Live(o) /\ objects[o].where = n
      BY <3>1, <3>2, <3>3 DEF PointersInv
    <3>7. ClassMap \in Held(n) => n = ClassSystem
      BY <3>3, NotAnObject
    <3>8. n = ClassSystem => Held(n) \subseteq {ClassMap}
      BY <3>3
    <3> QED
      BY <3>1, <3>2, <3>5, <3>6, <3>7, <3>8
  <2> QED
    BY <2>1, <2>2
<1> QED
  BY <1>1

LEMMA ContainerFreed ==
  ASSUME TypeInv, PointersInv, NEW R, <<>> \in R,
         NEW s \in Systems(DOMAIN objects, R), NEW n
  PROVE  LET t == FreeContainer(s, n)
         IN  /\ t \in Systems(DOMAIN objects, R)
             /\ Effect(s, t, Held(n))
             /\ Safe(s, Held(n)) => ~t.fault
<1>1. Pointers(n) \in Seq(Freeable(DOMAIN objects)) /\ IsInjective(Pointers(n))
  BY HeldIs
<1> QED
  BY <1>1, NotAnObject, SequenceFreed DEF FreeContainer, Held

ContainerStages(stage, s, q) ==
  /\ stage[{}] = s
  /\ \A k \in 1 .. Len(q) : stage[1 .. k] = FreeContainer(stage[1 .. k - 1], q[k])
  /\ FoldLeft(FreeContainer, s, q) = stage[1 .. Len(q)]

LEMMA ContainerStagesExist ==
  ASSUME TypeInv, PointersInv, NEW R, <<>> \in R, NEW d, d = DOMAIN objects,
         NEW s \in Systems(d, R), NEW q \in Seq(Containers)
  PROVE  \E stage : ContainerStages(stage, s, q)
<1> DEFINE A == Systems(d, R)
           n == Len(q)
           step == [p \in A \X (1 .. n) |-> FreeContainer(p[1], q[p[2]])]
           IsIter(iter) ==
             iter = [x \in SUBSET DOMAIN q |->
                       IF x = {} THEN s ELSE FreeContainer(iter[x \ {Max(x)}], q[Max(x)])]
           stage == CHOOSE iter : IsIter(iter)
<1>1. /\ DOMAIN q = 1 .. n /\ n \in Nat /\ \A i \in 1 .. n : q[i] \in Containers
  BY LenProperties, ElementOfSeq
<1>2. step \in [A \X (1 .. n) -> A]
  <2>1. \A t \in A, x \in Containers : FreeContainer(t, x) \in A
    BY ContainerFreed
  <2> HIDE DEF A
  <2> QED
    BY <1>1, <2>1
<1>3. \A t \in A, i \in 1 .. n : step[<<t, i>>] = FreeContainer(t, q[i])
  OBVIOUS
<1>4. \A x \in SUBSET (1 .. n) : x # {} => Max(x) \in x
  BY <1>1, LargestOf
<1> HIDE DEF step, A
<1>5. PICK iter \in [SUBSET (1 .. n) -> A] :
        /\ iter[{}] = s
        /\ \A x \in SUBSET (1 .. n) : x # {} =>
             iter[x] = step[<<iter[x \ {Max(x)}], Max(x)>>]
  <2>1. s \in A
    BY DEF A
  <2>2. \E iter \in [SUBSET (1 .. n) -> A] : IsOrderedFold(iter, n, s, step)
    BY ONLY <1>1, <1>2, <2>1, OrderedFoldExists
  <2> QED
    BY <2>2 DEF IsOrderedFold
<1>6. IsIter(iter)
  <2>1. iter = [x \in SUBSET (1 .. n) |-> iter[x]]
    BY <1>5
  <2>2. \A x \in SUBSET (1 .. n) :
          iter[x] = IF x = {} THEN s ELSE FreeContainer(iter[x \ {Max(x)}], q[Max(x)])
    <3> SUFFICES ASSUME NEW x \in SUBSET (1 .. n), x # {}
                 PROVE  iter[x] = FreeContainer(iter[x \ {Max(x)}], q[Max(x)])
      BY <1>5
    <3>1. Max(x) \in 1 .. n
      BY <1>4
    <3>2. iter[x \ {Max(x)}] \in A
      BY <1>5
    <3> QED
      BY <1>3, <1>5, <3>1, <3>2
  <2> QED
    BY <1>1, <2>1, <2>2
<1>7. IsIter(stage)
  BY <1>6
<1>8. FoldLeft(FreeContainer, s, q) = stage[1 .. n]
  BY <1>1 DEF FoldLeft, MapThenFoldSet
<1>9. \A x \in SUBSET (1 .. n) :
        stage[x] = IF x = {} THEN s ELSE FreeContainer(stage[x \ {Max(x)}], q[Max(x)])
  <2> HIDE DEF stage
  <2> QED
    BY <1>1, <1>7
<1> HIDE DEF stage
<1>10. stage[{}] = s
  <2>1. {} \in SUBSET (1 .. n)
    OBVIOUS
  <2> QED
    BY <1>9, <2>1
<1>11. ASSUME NEW k \in 1 .. n PROVE stage[1 .. k] = FreeContainer(stage[1 .. k - 1], q[k])
  <2>1. /\ Max(1 .. k) = k /\ (1 .. k) \ {k} = 1 .. k - 1
        /\ 1 .. k \in SUBSET (1 .. n) /\ 1 .. k # {}
    BY <1>1, LargestOfFirst
  <2> QED
    BY <1>9, <2>1
<1> QED
  BY <1>8, <1>10, <1>11 DEF ContainerStages

LEMMA StateIs ==
  ASSUME TypeInv
  PROVE  /\ State \in Systems(DOMAIN objects, {registered, <<>>})
         /\ <<>> \in {registered, <<>>}
         /\ State.registered = registered /\ State.objects = objects
         /\ State.fault = fault /\ State.map = name_to_class
<1>1. objects \in [DOMAIN objects -> Things]
  BY DEF TypeInv
<1> QED
  BY <1>1 DEF TypeInv, State, Systems

(* A container is freed before what it has turns stale or is freed: its    *)
(* objects are in no other one, and when the classes went before it, the   *)
(* client was careless.                                                    *)
LeavesNone ==
  ~careless /\ ~(name_to_class = "live" /\ \E o \in DOMAIN objects : Live(o) /\ Behind(o))

HeldIn(names) == UNION {Held(n) : n \in names}

LEMMA HeldApart ==
  ASSUME TypeInv, PointersInv, NEW n, NEW names, n \notin names
  PROVE  HeldIn(names) \cap Held(n) = {}
<1> SUFFICES ASSUME NEW m \in names, NEW p \in Held(m), p \in Held(n) PROVE FALSE
  BY DEF HeldIn
<1>1. m # n
  OBVIOUS
<1>2. CASE m = ClassSystem
  BY <1>1, <1>2, HeldIs, NotAnObject
<1>3. CASE n = ClassSystem
  BY <1>1, <1>3, HeldIs, NotAnObject
<1>4. CASE m # ClassSystem /\ n # ClassSystem
  BY <1>1, <1>4, HeldIs
<1> QED
  BY <1>2, <1>3, <1>4

LEMMA SafeNext ==
  ASSUME TypeInv, PointersInv, CarefulInv, LeavesNone,
         NEW t \in Systems(DOMAIN objects, {registered, <<>>}),
         NEW names \in SUBSET Containers, NEW n \in Containers,
         \A m \in names : m < n,
         Effect(State, t, HeldIn(names)), ~t.fault
  PROVE  Safe(t, Held(n))
<1>1. CASE n = ClassSystem
  <2>1. Held(n) \subseteq {ClassMap}
    BY <1>1, HeldIs
  <2> QED
    BY <2>1 DEF Safe
<1>2. CASE n # ClassSystem
  <2>1. ClassMap \notin Held(n)
    BY <1>2, HeldIs
  <2>2. ASSUME NEW o \in Held(n) PROVE ~Unsafe(t, o)
    <3>1. o \in DOMAIN objects /\ Live(o) /\ objects[o].where = n
      BY <1>2, HeldIs
    <3>2. ~objects[o].stale /\ objects[o].freed = 0
      BY <3>1 DEF CarefulInv, LeavesNone, Live
    <3>3. n \notin names
      <4>1. n \in Nat
        BY RegistryAssumption
      <4> QED
        BY <4>1
    <3>4. o \notin HeldIn(names)
      BY <3>3, HeldApart
    <3>5. ClassMap \notin HeldIn(names)
      <4> SUFFICES ASSUME NEW m \in names, ClassMap \in Held(m) PROVE FALSE
        BY DEF HeldIn
      <4>1. m = ClassSystem /\ Has(ClassSystem, ClassMap)
        BY HeldIs
      <4>2. name_to_class = "live" /\ n > ClassSystem
        BY <4>1, RegistryAssumption DEF PointersInv
      <4>3. Behind(o)
        BY <3>1, <4>2 DEF Behind
      <4> QED
        BY <3>1, <4>2, <4>3 DEF LeavesNone
    <3>6. Changed(State, t, o, HeldIn(names))
      BY <3>1, StateIs DEF Effect
    <3>7. t.objects[o].stale \in BOOLEAN
      BY <3>1, SystemIs
    <3> QED
      BY <3>2, <3>4, <3>5, <3>6, <3>7, StateIs DEF Changed, Unsafe
  <2> QED
    BY <2>1, <2>2 DEF Safe
<1> QED
  BY <1>1, <1>2

LEMMA AllFreed ==
  ASSUME TypeInv, PointersInv, CarefulInv, ~fault
  PROVE  LET t == FoldLeft(FreeContainer, State, Order(DOMAIN containers))
         IN  /\ t \in Systems(DOMAIN objects, {registered, <<>>})
             /\ Effect(State, t, HeldIn(DOMAIN containers))
             /\ LeavesNone => ~t.fault
<1> DEFINE d == DOMAIN objects
           R == {registered, <<>>}
           q == Order(DOMAIN containers)
           n == Len(q)
<1>1. /\ DOMAIN containers \in SUBSET Nat /\ IsFiniteSet(DOMAIN containers)
      /\ DOMAIN containers \in SUBSET Containers
  BY RegistryAssumption DEF TypeInv
<1>2. /\ q \in Seq(DOMAIN containers) /\ IsInjective(q)
      /\ ToSet(q) = DOMAIN containers /\ Ascends(q)
  BY <1>1, OrderProperties
<1> HIDE DEF q
<1>3. /\ DOMAIN q = 1 .. n /\ n \in Nat /\ \A i \in 1 .. n : q[i] \in Containers
      /\ \A i, j \in 1 .. n : q[i] = q[j] => i = j
      /\ \A i, j \in 1 .. n : i < j => q[i] < q[j]
  BY <1>1, <1>2, LenProperties, ElementOfSeq DEF IsInjective, Ascends
<1>4. q \in Seq(Containers)
  BY <1>1, <1>2
<1>5. State \in Systems(d, R) /\ <<>> \in R
  BY StateIs
<1>6. PICK stage : ContainerStages(stage, State, q)
  BY <1>4, <1>5, ContainerStagesExist
<1>7. /\ stage[{}] = State /\ FoldLeft(FreeContainer, State, q) = stage[1 .. n]
      /\ \A k \in 1 .. n : stage[1 .. k] = FreeContainer(stage[1 .. k - 1], q[k])
  BY <1>6 DEF ContainerStages
<1>8. Served(q, n) = DOMAIN containers
  BY <1>2, <1>3 DEF Served, ToSet
<1> DEFINE Good(k) == /\ stage[1 .. k] \in Systems(d, R)
                      /\ Effect(State, stage[1 .. k], HeldIn(Served(q, k)))
                      /\ LeavesNone => ~stage[1 .. k].fault
           P == {k \in Nat : k <= n => Good(k)}
<1>9. 0 \in P
  <2>1. 1 .. 0 = {} /\ HeldIn(Served(q, 0)) = {}
    BY DEF Served, HeldIn
  <2>2. Effect(State, State, {})
    BY <1>5, EffectNone
  <2>3. ~State.fault
    BY StateIs
  <2>4. Good(0)
    BY <1>5, <1>7, <2>1, <2>2, <2>3
  <2> QED
    BY <2>4
<1>10. ASSUME NEW k \in Nat, k \in P PROVE k + 1 \in P
  <2> SUFFICES ASSUME k + 1 <= n PROVE Good(k + 1)
    OBVIOUS
  <2> DEFINE t == stage[1 .. k]
             u == stage[1 .. k + 1]
             c == q[k + 1]
             earlier == Served(q, k)
  <2>1. k <= n /\ k + 1 \in 1 .. n /\ (k + 1) - 1 = k
    BY <1>3
  <2>2. /\ t \in Systems(d, R) /\ Effect(State, t, HeldIn(earlier))
        /\ LeavesNone => ~t.fault
    BY <1>10, <2>1
  <2>3. u = FreeContainer(t, c) /\ c \in Containers
    BY <1>3, <1>7, <2>1
  <2>4. Served(q, k + 1) = earlier \cup {c} /\ c \notin earlier
    BY <1>3, ServedNext
  <2>5. earlier \in SUBSET Containers /\ \A m \in earlier : m < c
    BY <1>3, <2>1 DEF Served
  <2> HIDE DEF t, u, c, earlier, Good, P, d, R
  <2>6. /\ u \in Systems(d, R) /\ Effect(t, u, Held(c))
        /\ Safe(t, Held(c)) => ~u.fault
    BY <1>5, <2>2, <2>3, ContainerFreed DEF d
  <2>7. HeldIn(Served(q, k + 1)) = HeldIn(earlier) \cup Held(c)
    BY <2>4 DEF HeldIn
  <2>8. HeldIn(earlier) \cap Held(c) = {}
    BY <2>4, HeldApart
  <2>9. Effect(State, u, HeldIn(Served(q, k + 1)))
    BY <1>5, <2>2, <2>6, <2>7, <2>8, EffectThen
  <2>10. LeavesNone => ~u.fault
    BY <2>2, <2>3, <2>5, <2>6, SafeNext DEF d, R
  <2> QED
    BY <2>6, <2>9, <2>10 DEF Good, u
<1>11. n \in P
  <2> HIDE DEF P
  <2> QED
    BY <1>3, <1>9, <1>10, NaturalInduction
<1> QED
  BY <1>3, <1>7, <1>8, <1>11 DEF q

-----------------------------------------------------------------------------
(* g_auto_with adds a pointer to a container or none, and the containers   *)
(* stay what they are otherwise.                                           *)
ContainersOK ==
  /\ DOMAIN containers \subseteq Containers /\ IsFiniteSet(DOMAIN containers)
  /\ \A n \in DOMAIN containers : containers[n] \in Seq(Nat) /\ IsInjective(containers[n])

LEMMA WithKeeps ==
  ASSUME ContainersOK, NEW n \in Containers, NEW q \in Seq(Nat), IsInjective(q),
         containers' = With(containers, n, q)
  PROVE  /\ ContainersOK'
         /\ \A m, p : Has(m, p)' <=> IF m = n THEN p \in ToSet(q) ELSE Has(m, p)
<1>1. /\ DOMAIN containers' = DOMAIN containers \cup {n}
      /\ containers'[n] = q
      /\ \A m \in DOMAIN containers : m # n => containers'[m] = containers[m]
  BY DEF With
<1>2. IsFiniteSet(DOMAIN containers')
  <2>1. IsFiniteSet(DOMAIN containers)
    BY DEF ContainersOK
  <2>2. IsFiniteSet(DOMAIN containers \cup {n})
    BY ONLY <2>1, FS_AddElement
  <2> QED
    BY ONLY <1>1, <2>2
<1>3. ContainersOK'
  BY <1>1, <1>2 DEF ContainersOK
<1> QED
  BY <1>1, <1>3 DEF Has

LEMMA PointersAre ==
  ASSUME ContainersOK, NEW n
  PROVE  /\ Pointers(n) \in Seq(Nat) /\ IsInjective(Pointers(n))
         /\ \A p : p \in ToSet(Pointers(n)) <=> Has(n, p)
<1>1. CASE n \in DOMAIN containers
  BY <1>1 DEF ContainersOK, Pointers, Has
<1>2. CASE n \notin DOMAIN containers
  <2>1. Pointers(n) = <<>>
    BY <1>2 DEF Pointers
  <2>2. ToSet(<<>>) = {} /\ IsInjective(<<>>) /\ <<>> \in Seq(Nat)
    BY DEF ToSet, IsInjective
  <2> QED
    BY <1>2, <2>1, <2>2 DEF Has
<1> QED
  BY <1>1, <1>2

LEMMA AutoFailedKeeps ==
  ASSUME ContainersOK, NEW n \in Containers, containers' \in AutoFailed(n)
  PROVE  /\ ContainersOK'
         /\ \A m, p : Has(m, p)' <=> Has(m, p)
<1>1. CASE containers' = containers
  BY <1>1 DEF ContainersOK, Has
<1>2. CASE containers' = With(containers, n, Pointers(n))
  BY <1>2, PointersAre, WithKeeps
<1> QED
  BY <1>1, <1>2 DEF AutoFailed

LEMMA AutoWithAdds ==
  ASSUME ContainersOK, NEW n \in Containers, NEW p \in Nat, ~Has(n, p),
         containers' = AutoWith(n, p)
  PROVE  /\ ContainersOK'
         /\ \A m, x : Has(m, x)' <=> Has(m, x) \/ (m = n /\ x = p)
<1> DEFINE q == Pointers(n)
           r == Append(q, p)
<1>1. /\ q \in Seq(Nat) /\ IsInjective(q)
      /\ \A x : x \in ToSet(q) <=> Has(n, x)
  BY PointersAre
<1> HIDE DEF q
<1>2. /\ r \in Seq(Nat) /\ Len(r) = Len(q) + 1 /\ r[Len(q) + 1] = p
      /\ Len(q) \in Nat /\ DOMAIN q = 1 .. Len(q) /\ DOMAIN r = 1 .. Len(q) + 1
      /\ \A i \in 1 .. Len(q) : r[i] = q[i]
  BY <1>1, AppendProperties
<1>3. \A i \in 1 .. Len(q) : q[i] # p
  BY <1>1, <1>2 DEF ToSet
<1> HIDE DEF r
<1>4. IsInjective(r)
  <2> SUFFICES ASSUME NEW i \in 1 .. Len(q) + 1, NEW j \in 1 .. Len(q) + 1, r[i] = r[j]
               PROVE  i = j
    BY <1>2 DEF IsInjective
  <2>1. \A k \in 1 .. Len(q) + 1 : k # Len(q) + 1 => k \in 1 .. Len(q)
    BY <1>2
  <2> QED
    BY <1>1, <1>2, <1>3, <2>1 DEF IsInjective
<1>5. \A x : x \in ToSet(r) <=> x \in ToSet(q) \/ x = p
  <2>1. 1 .. Len(q) + 1 = (1 .. Len(q)) \cup {Len(q) + 1}
    BY <1>2
  <2> QED
    BY <1>2, <2>1 DEF ToSet
<1>6. containers' = With(containers, n, r)
  BY DEF AutoWith, r, q
<1> QED
  BY <1>1, <1>2, <1>4, <1>5, <1>6, WithKeeps

LEMMA ContainersSound == ASSUME TypeInv, PointersInv PROVE ContainersOK
BY DEF TypeInv, PointersInv, ContainersOK

LEMMA PointersHeld ==
  ASSUME TypeInv, PointersInv
  PROVE  \A n, p : Has(n, p) =>
           /\ n \in Containers
           /\ IF n = ClassSystem THEN p = ClassMap ELSE p \in DOMAIN objects
BY DEF TypeInv, PointersInv, Has

LEMMA ClassSystemInit ==
  ASSUME TypeInv, PointersInv, InitClassSystem, UNCHANGED objects
  PROVE  /\ ContainersOK' /\ name_to_class' \in MapStates /\ PointersInv'
         /\ name_to_class = "live" => name_to_class' = "live"
<1>1. ContainersOK /\ ClassSystem \in Containers /\ ClassMap \in Nat
  BY ContainersSound, RegistryAssumption DEF ClassMap
<1>2. \A n, p : Has(n, p) =>
        IF n = ClassSystem THEN p = ClassMap ELSE p \in DOMAIN objects
  BY PointersHeld
<1>3. CASE name_to_class = "NULL" /\ name_to_class' = "live"
           /\ containers' = AutoWith(ClassSystem, ClassMap)
  <2>1. ~Has(ClassSystem, ClassMap)
    BY <1>3 DEF PointersInv
  <2>2. /\ ContainersOK'
        /\ \A n, p : Has(n, p)' <=> Has(n, p) \/ (n = ClassSystem /\ p = ClassMap)
    BY <1>1, <1>3, <2>1, AutoWithAdds
  <2>3. PointersInv'
    BY <1>2, <1>3, <2>2 DEF PointersInv, ContainersOK, Has, Live
  <2> QED
    BY <1>3, <2>2, <2>3 DEF MapStates
<1>4. CASE containers' \in AutoFailed(ClassSystem) /\ UNCHANGED name_to_class
  <2>1. ContainersOK' /\ \A n, p : Has(n, p)' <=> Has(n, p)
    BY <1>1, <1>4, AutoFailedKeeps
  <2>2. PointersInv'
    BY <1>2, <1>4, <2>1 DEF PointersInv, ContainersOK, Has, Live
  <2> QED
    BY <1>4, <2>1, <2>2 DEF TypeInv
<1>5. CASE UNCHANGED <<name_to_class, containers>>
  <2>1. ContainersOK' /\ PointersInv'
    BY <1>1, <1>5 DEF PointersInv, ContainersOK, Has, Live
  <2> QED
    BY <1>5, <2>1 DEF TypeInv
<1> QED
  BY <1>3, <1>4, <1>5 DEF InitClassSystem

-----------------------------------------------------------------------------
LEMMA InitSound == ASSUME Init PROVE RegistryInv
<1> USE DEF Init
<1>1. DOMAIN containers = {} /\ DOMAIN objects = {} /\ DOMAIN registered = {}
  OBVIOUS
<1>2. TypeInv
  <2>1. IsFiniteSet(DOMAIN containers)
    BY <1>1, FS_EmptySet
  <2>2. <<>> \in Seq(Things)
    OBVIOUS
  <2> QED
    BY <1>1, <2>1, <2>2 DEF TypeInv, MapStates
<1>3. PointersInv
  BY <1>1 DEF PointersInv, Has
<1> QED
  BY <1>1, <1>2, <1>3 DEF RegistryInv, FreedOnce, ClassesInv, CarefulInv

LEMMA ObjectNewSound ==
  ASSUME RegistryInv, NEW class \in Classes, NEW where \in Places, ObjectNew(class, where)
  PROVE  RegistryInv'
<1> USE DEF RegistryInv, ObjectNew, registry
<1>1. TypeInv'
  BY DEF TypeInv, Requests
<1>2. PointersInv'
  BY DEF PointersInv, Has, Live
<1>3. FreedOnce' /\ ClassesInv' /\ CarefulInv'
  BY DEF FreedOnce, ClassesInv, CarefulInv, Live
<1> QED
  BY <1>1, <1>2, <1>3

LEMMA LookupClassSound ==
  ASSUME RegistryInv, LookupClass
  PROVE  RegistryInv'
<1> USE DEF RegistryInv, LookupClass, UsesFreedMap
<1>1. /\ ContainersOK' /\ name_to_class' \in MapStates /\ PointersInv'
      /\ name_to_class = "live" => name_to_class' = "live"
  BY ClassSystemInit
<1>2. TypeInv'
  BY <1>1 DEF TypeInv, ContainersOK
<1>3. ClassesInv'
  BY <1>1 DEF ClassesInv
<1>4. FreedOnce' /\ CarefulInv'
  BY DEF FreedOnce, CarefulInv, Live, TypeInv
<1> QED
  BY <1>1, <1>2, <1>3, <1>4

LEMMA RegisterClassSound ==
  ASSUME RegistryInv, RegisterClass
  PROVE  RegistryInv'
<1> USE DEF RegistryInv, RegisterClass, UsesFreedMap
<1>1. /\ ContainersOK' /\ name_to_class' \in MapStates /\ PointersInv'
      /\ name_to_class = "live" => name_to_class' = "live"
  BY ClassSystemInit
<1>2. TypeInv'
  BY <1>1 DEF TypeInv, ContainersOK
<1>3. ClassesInv'
  <2>1. CASE UNCHANGED registered
    BY <1>1, <2>1 DEF ClassesInv
  <2>2. CASE /\ name_to_class' = "live"
             /\ registered' =
                  With(registered, Top.class,
                       IF Found(Base(Top.class)) THEN Base(Top.class) ELSE NoClass)
    <3> DEFINE base == IF Found(Base(Top.class)) THEN Base(Top.class) ELSE NoClass
    <3>1. base # NoClass => base \in DOMAIN registered
      BY DEF Found
    <3> HIDE DEF base
    <3>2. /\ DOMAIN registered' = DOMAIN registered \cup {Top.class}
          /\ registered'[Top.class] = base
          /\ \A c \in DOMAIN registered : c # Top.class => registered'[c] = registered[c]
      BY <2>2 DEF With, base
    <3> QED
      BY <2>2, <3>1, <3>2 DEF ClassesInv
  <2> QED
    BY <2>1, <2>2
<1>4. FreedOnce' /\ CarefulInv'
  BY DEF FreedOnce, CarefulInv, Live, TypeInv
<1> QED
  BY <1>1, <1>2, <1>3, <1>4

LEMMA ObjectCreateSound ==
  ASSUME RegistryInv, ObjectCreate
  PROVE  RegistryInv'
<1> DEFINE n == Len(objects) + 1
           where == wanted.where
           new == NewObject(where)
<1>1. /\ TypeInv /\ PointersInv /\ FreedOnce /\ ClassesInv /\ CarefulInv
      /\ wanted' = Nothing
      /\ UNCHANGED <<name_to_class, registered, fault, careless>>
  BY DEF RegistryInv, ObjectCreate
<1>2. wanted \in Requests
  BY <1>1 DEF ObjectCreate, Idle, TypeInv
<1>3. where \in Places /\ wanted.class \in Classes
  BY <1>2 DEF Requests
<1>4. /\ objects \in Seq(Things) /\ DOMAIN objects = 1 .. Len(objects)
      /\ n \in Nat /\ n \notin DOMAIN objects /\ n # ClassMap
  BY <1>1 DEF TypeInv, ClassMap
<1>5. \A m : ~Has(m, n)
  BY <1>1, <1>4, PointersHeld
<1>6. ContainersOK
  BY <1>1, ContainersSound
<1>7. FreedOnce' /\ CarefulInv' /\ objects' \in Seq(Things) /\ ContainersOK' /\ PointersInv'
  <2>1. CASE UNCHANGED <<objects, containers>>
    BY <1>1, <1>6, <2>1 DEF FreedOnce, CarefulInv, Live, TypeInv, ContainersOK, PointersInv, Has
  <2>2. ASSUME NEW x \in Things, x.where = where, ~x.stale, x.freed \in {0, 1},
               objects' = Append(objects, x), ContainersOK',
               \A m, p : Has(m, p)' <=> Has(m, p) \/ (m = where /\ x.freed = 0
                                         /\ where # Client /\ p = n)
        PROVE  FreedOnce' /\ CarefulInv' /\ objects' \in Seq(Things) /\ PointersInv'
    <3>1. /\ objects' \in Seq(Things) /\ DOMAIN objects' = DOMAIN objects \cup {n}
          /\ objects'[n] = x
          /\ \A o \in DOMAIN objects : objects'[o] = objects[o]
      BY <1>4, <2>2, AppendProperties
    <3>2. FreedOnce' /\ CarefulInv'
      BY <1>1, <2>2, <3>1 DEF FreedOnce, CarefulInv, Live
    <3>3. \A m, p : Has(m, p)' =>
            IF m = ClassSystem THEN p = ClassMap ELSE p \in DOMAIN objects'
      BY <1>1, <1>3, <2>2, <3>1, PointersHeld DEF Places
    <3>4. \A m \in DOMAIN containers' : \A p \in ToSet(containers'[m]) :
            IF m = ClassSystem THEN p = ClassMap ELSE p \in DOMAIN objects'
      BY <3>3 DEF Has
    <3>5. Has(ClassSystem, ClassMap)' <=> name_to_class' = "live"
      BY <1>1, <1>4, <2>2 DEF PointersInv
    <3>6. ASSUME NEW m \in Containers \ {ClassSystem}, NEW o \in DOMAIN objects'
          PROVE  Has(m, o)' <=> (Live(o) /\ objects[o].where = m)'
      <4>1. CASE o = n
        BY <1>5, <2>2, <3>1, <4>1, RegistryAssumption DEF Live
      <4>2. CASE o # n
        BY <1>1, <2>2, <3>1, <4>2 DEF Live, PointersInv
      <4> QED
        BY <4>1, <4>2
    <3>7. PointersInv'
      BY <2>2, <3>4, <3>5, <3>6 DEF PointersInv, ContainersOK
    <3> QED
      BY <3>1, <3>2, <3>7
  <2>3. /\ new \in Things /\ new.where = where /\ ~new.stale /\ new.freed = 0
    BY <1>3 DEF NewObject, Things
  <2>4. CASE objects' = Append(objects, new) /\ where = Client /\ containers' = containers
    <3>1. ContainersOK' /\ \A m, p : Has(m, p)' <=> Has(m, p)
      BY <1>6, <2>4 DEF ContainersOK, Has
    <3> QED
      BY <2>2, <2>3, <2>4, <3>1
  <2>5. CASE objects' = Append(objects, new) /\ where # Client
             /\ containers' = AutoWith(where, n)
    <3>1. where \in Containers
      BY <1>3, <2>5 DEF Places
    <3>2. ContainersOK' /\ \A m, p : Has(m, p)' <=> Has(m, p) \/ (m = where /\ p = n)
      BY <1>4, <1>5, <1>6, <2>5, <3>1, AutoWithAdds
    <3> QED
      BY <2>2, <2>3, <2>5, <3>2
  <2>6. CASE where # Client /\ objects' = Append(objects, [new EXCEPT !.freed = 1])
             /\ containers' \in AutoFailed(where)
    <3> DEFINE x == [new EXCEPT !.freed = 1]
    <3>1. where \in Containers
      BY <1>3, <2>6 DEF Places
    <3>2. ContainersOK' /\ \A m, p : Has(m, p)' <=> Has(m, p)
      BY <1>6, <2>6, <3>1, AutoFailedKeeps
    <3>3. x \in Things /\ x.where = where /\ ~x.stale /\ x.freed = 1
      BY <2>3 DEF Things
    <3>4. objects' = Append(objects, x)
      BY <2>6
    <3> HIDE DEF x
    <3>5. \A m, p : Has(m, p)' <=> Has(m, p) \/ (m = where /\ x.freed = 0
                                           /\ where # Client /\ p = n)
      BY <3>2, <3>3
    <3> HIDE DEF where, n
    <3> QED
      BY ONLY <2>2, <3>2, <3>3, <3>4, <3>5
  <2> QED
    BY <2>1, <2>4, <2>5, <2>6 DEF ObjectCreate, AutoFails
<1>8. TypeInv'
  BY <1>1, <1>7 DEF TypeInv, ContainersOK
<1>9. ClassesInv'
  BY <1>1 DEF ClassesInv
<1> QED
  BY <1>7, <1>8, <1>9 DEF RegistryInv

-----------------------------------------------------------------------------
LEMMA ObjectTypes ==
  ASSUME TypeInv, NEW o \in DOMAIN objects
  PROVE  objects[o].freed \in Nat /\ objects[o].where \in Places
<1>1. objects[o] \in Things
  BY DEF TypeInv
<1> QED
  BY <1>1 DEF Things

(* Freeing leaves the objects what they are but for what was freed.        *)
LEMMA AfterFreeing ==
  ASSUME TypeInv, NEW P,
         NEW t \in Systems(DOMAIN objects, {registered, <<>>}),
         Effect(State, t, P), objects' = t.objects
  PROVE  /\ objects' \in Seq(Things) /\ DOMAIN objects' = DOMAIN objects
         /\ \A o \in DOMAIN objects :
              /\ objects'[o].where = objects[o].where
              /\ objects[o].freed \in Nat
              /\ objects'[o].freed = objects[o].freed + (IF o \in P THEN 1 ELSE 0)
              /\ objects'[o].stale <=> objects[o].stale \/ ClassMap \in P
              /\ Live(o)' <=> Live(o) /\ o \notin P
         /\ t.registered = IF ClassMap \in P THEN <<>> ELSE registered
         /\ t.map = IF ClassMap \in P THEN "freed" ELSE name_to_class
         /\ t.fault \in BOOLEAN /\ t.map \in MapStates
<1>1. /\ t.objects \in [DOMAIN objects -> Things]
      /\ t.fault \in BOOLEAN /\ t.map \in MapStates
  BY SystemIs
<1>2. objects \in Seq(Things) /\ \A o \in DOMAIN objects : objects[o].freed \in Nat
  BY ObjectTypes DEF TypeInv
<1>3. objects' \in Seq(Things) /\ DOMAIN objects' = DOMAIN objects
  <2>1. Len(objects) \in Nat /\ DOMAIN objects = 1 .. Len(objects)
    BY <1>2
  <2> QED
    BY <1>1, <2>1
<1>4. ASSUME NEW o \in DOMAIN objects
      PROVE  /\ objects'[o].where = objects[o].where
             /\ objects'[o].freed = objects[o].freed + (IF o \in P THEN 1 ELSE 0)
             /\ objects'[o].stale <=> objects[o].stale \/ ClassMap \in P
  <2>1. Changed(State, t, o, P)
    BY StateIs DEF Effect
  <2> QED
    BY <2>1, StateIs DEF Changed
<1>5. ASSUME NEW o \in DOMAIN objects PROVE Live(o)' <=> Live(o) /\ o \notin P
  <2>1. objects[o].freed \in Nat
    BY <1>2
  <2>2. objects'[o].freed = objects[o].freed + (IF o \in P THEN 1 ELSE 0)
    BY <1>4
  <2> QED
    BY ONLY <2>1, <2>2 DEF Live
<1> QED
  BY <1>1, <1>2, <1>3, <1>4, <1>5, StateIs DEF Effect

LEMMA OthersKept ==
  ASSUME ContainersOK, NEW n, containers' = Others(n)
  PROVE  /\ ContainersOK'
         /\ \A m, p : Has(m, p)' <=> m # n /\ Has(m, p)
<1>1. /\ DOMAIN containers' = DOMAIN containers \ {n}
      /\ \A m \in DOMAIN containers' : containers'[m] = containers[m]
  BY DEF Others
<1>2. IsFiniteSet(DOMAIN containers')
  <2>1. IsFiniteSet(DOMAIN containers)
    BY DEF ContainersOK
  <2>2. IsFiniteSet(DOMAIN containers \ {n})
    BY ONLY <2>1, FS_RemoveElement
  <2> QED
    BY ONLY <1>1, <2>2
<1> QED
  BY <1>1, <1>2 DEF ContainersOK, Has

LEMMA ObjectFreeSound ==
  ASSUME RegistryInv, NEW o \in DOMAIN objects, ObjectFree(o)
  PROVE  RegistryInv'
<1> DEFINE t == FreeObject(State, o)
<1>1. /\ TypeInv /\ PointersInv /\ FreedOnce /\ ClassesInv /\ CarefulInv
      /\ Live(o) /\ objects[o].where = Client
      /\ registered' = t.registered /\ objects' = t.objects /\ fault' = t.fault
      /\ name_to_class' = t.map
      /\ UNCHANGED <<containers, wanted, careless>>
  BY DEF RegistryInv, ObjectFree, Becomes
<1> HIDE DEF t
<1>2. ClassMap \notin {o} /\ ClassMap \notin DOMAIN objects
  BY <1>1, NotAnObject
<1>3. /\ t \in Systems(DOMAIN objects, {registered, <<>>})
      /\ Effect(State, t, {o})
      /\ t.fault <=> State.fault \/ Unsafe(State, o)
  BY <1>1, <1>2, StateIs, ObjectFreed DEF t
<1>4. /\ objects' \in Seq(Things) /\ DOMAIN objects' = DOMAIN objects
      /\ \A x \in DOMAIN objects :
           /\ objects'[x].where = objects[x].where
           /\ objects[x].freed \in Nat
           /\ objects'[x].freed = objects[x].freed + (IF x \in {o} THEN 1 ELSE 0)
           /\ objects'[x].stale <=> objects[x].stale \/ ClassMap \in {o}
           /\ Live(x)' <=> Live(x) /\ x \notin {o}
      /\ registered' = registered /\ name_to_class' = name_to_class
      /\ t.fault \in BOOLEAN
  BY <1>1, <1>2, <1>3, AfterFreeing
<1>5. TypeInv'
  BY <1>1, <1>4 DEF TypeInv
<1>6. PointersInv'
  <2>1. \A n \in Containers : objects[o].where # n
    BY <1>1, RegistryAssumption
  <2> QED
    BY <1>1, <1>4, <2>1 DEF PointersInv, Has
<1>7. FreedOnce' /\ ClassesInv'
  BY <1>1, <1>4 DEF FreedOnce, ClassesInv, Live
<1>8. CarefulInv'
  <2> SUFFICES ASSUME ~careless PROVE ~fault' /\ \A x \in DOMAIN objects : Live(x)' => ~objects'[x].stale
    BY <1>1, <1>4 DEF CarefulInv
  <2>1. ~fault /\ ~objects[o].stale /\ objects[o].freed = 0
    BY <1>1 DEF CarefulInv, Live
  <2>2. ~t.fault
    BY <1>1, <1>3, <2>1, StateIs DEF Unsafe
  <2> QED
    BY <1>1, <1>2, <1>4, <2>2 DEF CarefulInv
<1> QED
  BY <1>5, <1>6, <1>7, <1>8 DEF RegistryInv

LEMMA ContainerFreeSound ==
  ASSUME RegistryInv, NEW n \in Containers, ContainerFree(n)
  PROVE  RegistryInv'
<1> DEFINE t == FreeContainer(State, n)
           P == Held(n)
<1>1. /\ TypeInv /\ PointersInv /\ FreedOnce /\ ClassesInv /\ CarefulInv
      /\ n # ClassSystem
      /\ registered' = t.registered /\ objects' = t.objects /\ fault' = t.fault
      /\ name_to_class' = t.map
      /\ containers' = Others(n) /\ UNCHANGED <<wanted, careless>>
  BY DEF RegistryInv, ContainerFree, Becomes
<1> HIDE DEF t, P
<1>2. /\ ClassMap \notin P
      /\ \A o \in P : o \in DOMAIN objects /\ Live(o) /\ objects[o].where = n
      /\ \A o : o \in P <=> Has(n, o)
  BY <1>1, HeldIs DEF P
<1>3. /\ t \in Systems(DOMAIN objects, {registered, <<>>})
      /\ Effect(State, t, P)
      /\ Safe(State, P) => ~t.fault
  BY <1>1, StateIs, ContainerFreed DEF t, P
<1>4. /\ objects' \in Seq(Things) /\ DOMAIN objects' = DOMAIN objects
      /\ \A x \in DOMAIN objects :
           /\ objects'[x].where = objects[x].where
           /\ objects[x].freed \in Nat
           /\ objects'[x].freed = objects[x].freed + (IF x \in P THEN 1 ELSE 0)
           /\ objects'[x].stale <=> objects[x].stale \/ ClassMap \in P
           /\ Live(x)' <=> Live(x) /\ x \notin P
      /\ registered' = registered /\ name_to_class' = name_to_class
      /\ t.fault \in BOOLEAN
  BY <1>1, <1>2, <1>3, AfterFreeing
<1>5. ContainersOK' /\ \A m, p : Has(m, p)' <=> m # n /\ Has(m, p)
  BY <1>1, ContainersSound, OthersKept
<1>6. TypeInv'
  BY <1>1, <1>4, <1>5 DEF TypeInv, ContainersOK
<1>7. PointersInv'
  <2>1. \A m, p : Has(m, p)' =>
          IF m = ClassSystem THEN p = ClassMap ELSE p \in DOMAIN objects'
    BY <1>1, <1>4, <1>5, PointersHeld
  <2>2. \A m \in DOMAIN containers' : /\ IsInjective(containers'[m])
           /\ \A p \in ToSet(containers'[m]) :
                IF m = ClassSystem THEN p = ClassMap ELSE p \in DOMAIN objects'
    BY <1>5, <2>1 DEF Has, ContainersOK
  <2>3. Has(ClassSystem, ClassMap)' <=> name_to_class' = "live"
    BY <1>1, <1>4, <1>5 DEF PointersInv
  <2>4. ASSUME NEW m \in Containers \ {ClassSystem}, NEW o \in DOMAIN objects'
        PROVE  Has(m, o)' <=> (Live(o) /\ objects[o].where = m)'
    <3>1. Has(m, o) <=> Live(o) /\ objects[o].where = m
      BY <1>1, <1>4 DEF PointersInv
    <3> QED
      BY <1>2, <1>4, <1>5, <3>1
  <2> QED
    BY <2>2, <2>3, <2>4 DEF PointersInv
<1>8. FreedOnce' /\ ClassesInv'
  BY <1>1, <1>2, <1>4 DEF FreedOnce, ClassesInv, Live
<1>9. CarefulInv'
  <2> SUFFICES ASSUME ~careless PROVE ~fault' /\ \A x \in DOMAIN objects : Live(x)' => ~objects'[x].stale
    BY <1>1, <1>4 DEF CarefulInv
  <2>1. ~fault /\ \A o \in P : ~objects[o].stale /\ objects[o].freed = 0
    BY <1>1, <1>2 DEF CarefulInv, Live
  <2>2. Safe(State, P)
    BY <1>1, <1>2, <1>4, <2>1, StateIs DEF Unsafe, Safe
  <2> QED
    BY <1>1, <1>2, <1>3, <1>4, <2>2 DEF CarefulInv
<1> QED
  BY <1>6, <1>7, <1>8, <1>9 DEF RegistryInv

LEMMA AutoFreeSound ==
  ASSUME RegistryInv, ~fault, AutoFree
  PROVE  RegistryInv'
<1> DEFINE t == FoldLeft(FreeContainer, State, Order(DOMAIN containers))
           P == HeldIn(DOMAIN containers)
<1>1. /\ TypeInv /\ PointersInv /\ FreedOnce /\ ClassesInv /\ CarefulInv
      /\ registered' = t.registered /\ objects' = t.objects /\ fault' = t.fault
      /\ name_to_class' = t.map
      /\ containers' = <<>> /\ UNCHANGED wanted
      /\ careless' \in BOOLEAN
      /\ ~careless' <=> LeavesNone
  BY DEF RegistryInv, AutoFree, Becomes, LeavesNone
<1>2. /\ t \in Systems(DOMAIN objects, {registered, <<>>})
      /\ Effect(State, t, P)
      /\ LeavesNone => ~t.fault
  BY <1>1, AllFreed
<1> HIDE DEF t, P
<1>3. \A p : p \in P <=> \E n : Has(n, p)
  <2>1. \A n, p : p \in Held(n) <=> Has(n, p)
    BY <1>1, HeldIs
  <2> QED
    BY <2>1 DEF P, HeldIn, Has
<1>4. /\ \A o \in DOMAIN objects : o \in P => Live(o)
      /\ \A o \in DOMAIN objects :
           Live(o) /\ objects[o].where # Client => o \in P
      /\ ClassMap \in P <=> name_to_class = "live"
  <2>1. ASSUME NEW o \in DOMAIN objects, o \in P PROVE Live(o)
    <3>1. PICK n : Has(n, o)
      BY <1>3, <2>1
    <3>2. n \in Containers \ {ClassSystem}
      BY <1>1, <3>1, PointersHeld, NotAnObject
    <3> QED
      BY <1>1, <3>1, <3>2 DEF PointersInv
  <2>2. ASSUME NEW o \in DOMAIN objects, Live(o), objects[o].where # Client PROVE o \in P
    <3>1. objects[o].where \in Containers \ {ClassSystem}
      BY <1>1, <2>2, ObjectTypes DEF Places
    <3> QED
      BY <1>1, <1>3, <2>2, <3>1 DEF PointersInv
  <2>3. ClassMap \in P <=> name_to_class = "live"
    <3>1. \A n : Has(n, ClassMap) => n = ClassSystem
      BY <1>1, PointersHeld, NotAnObject
    <3> QED
      BY <1>1, <1>3, <3>1 DEF PointersInv
  <2> QED
    BY <2>1, <2>2, <2>3
<1>5. /\ objects' \in Seq(Things) /\ DOMAIN objects' = DOMAIN objects
      /\ \A x \in DOMAIN objects :
           /\ objects'[x].where = objects[x].where
           /\ objects[x].freed \in Nat
           /\ objects'[x].freed = objects[x].freed + (IF x \in P THEN 1 ELSE 0)
           /\ objects'[x].stale <=> objects[x].stale \/ ClassMap \in P
           /\ Live(x)' <=> Live(x) /\ x \notin P
      /\ registered' = IF ClassMap \in P THEN <<>> ELSE registered
      /\ name_to_class' = IF ClassMap \in P THEN "freed" ELSE name_to_class
      /\ t.fault \in BOOLEAN /\ name_to_class' \in MapStates
  BY <1>1, <1>2, AfterFreeing
<1>6. name_to_class' # "live"
  BY <1>4, <1>5
<1>7. TypeInv'
  <2>1. DOMAIN containers' = {} /\ IsFiniteSet(DOMAIN containers')
    BY <1>1, FS_EmptySet
  <2> QED
    BY <1>1, <1>5, <2>1 DEF TypeInv
<1>8. PointersInv'
  <2>1. DOMAIN containers' = {} /\ \A n, p : ~Has(n, p)'
    BY <1>1 DEF Has
  <2>2. ASSUME NEW n \in Containers \ {ClassSystem}, NEW o \in DOMAIN objects'
        PROVE  ~(Live(o) /\ objects[o].where = n)'
    <3>1. n # Client
      BY RegistryAssumption
    <3> QED
      BY <1>4, <1>5, <3>1
  <2> QED
    BY <1>6, <2>1, <2>2 DEF PointersInv
<1>9. FreedOnce'
  BY <1>1, <1>4, <1>5 DEF FreedOnce, Live
<1>10. ClassesInv'
  <2>1. DOMAIN <<>> = {}
    OBVIOUS
  <2> QED
    BY <1>1, <1>4, <1>5, <2>1 DEF ClassesInv
<1>11. CarefulInv'
  <2> SUFFICES ASSUME LeavesNone PROVE ~fault' /\ \A x \in DOMAIN objects : Live(x)' => ~objects'[x].stale
    BY <1>1, <1>5 DEF CarefulInv
  <2>1. ASSUME NEW x \in DOMAIN objects, Live(x)' PROVE ~objects'[x].stale
    <3>1. Live(x) /\ objects[x].where = Client
      BY <1>4, <1>5, <2>1
    <3>2. ClassMap \notin P /\ ~objects[x].stale
      BY <1>1, <1>4, <3>1 DEF LeavesNone, Behind, CarefulInv
    <3> QED
      BY <1>5, <3>2
  <2> QED
    BY <1>1, <1>2, <2>1
<1> QED
  BY <1>7, <1>8, <1>9, <1>10, <1>11 DEF RegistryInv

LEMMA ClassSystemResetSound ==
  ASSUME RegistryInv, ~fault, ClassSystemReset
  PROVE  RegistryInv'
<1> DEFINE n == ClassSystem
           t == FreeContainer(State, n)
           P == Held(n)
<1>1. /\ TypeInv /\ PointersInv /\ FreedOnce /\ ClassesInv /\ CarefulInv
      /\ registered' = t.registered /\ objects' = t.objects /\ fault' = t.fault
      /\ name_to_class' = "NULL"
      /\ containers' = Others(n) /\ UNCHANGED wanted
      /\ careless' = (careless \/ \E o \in DOMAIN objects : Live(o))
  BY DEF RegistryInv, ClassSystemReset
<1> HIDE DEF t, P
<1>2. /\ P \subseteq {ClassMap} /\ ClassMap \notin DOMAIN objects
      /\ ClassMap \in P <=> name_to_class = "live"
  BY <1>1, HeldIs, NotAnObject DEF P, PointersInv
<1>3. /\ t \in Systems(DOMAIN objects, {registered, <<>>})
      /\ Effect(State, t, P)
      /\ Safe(State, P) => ~t.fault
  BY <1>1, StateIs, ContainerFreed DEF t, P
<1>4. /\ objects' \in Seq(Things) /\ DOMAIN objects' = DOMAIN objects
      /\ \A x \in DOMAIN objects :
           /\ objects'[x].where = objects[x].where
           /\ objects[x].freed \in Nat
           /\ objects'[x].freed = objects[x].freed + (IF x \in P THEN 1 ELSE 0)
           /\ Live(x)' <=> Live(x) /\ x \notin P
      /\ registered' = IF ClassMap \in P THEN <<>> ELSE registered
      /\ t.fault \in BOOLEAN
  BY <1>1, <1>3, AfterFreeing
<1>5. ContainersOK' /\ \A m, p : Has(m, p)' <=> m # n /\ Has(m, p)
  BY <1>1, ContainersSound, OthersKept
<1>6. TypeInv'
  BY <1>1, <1>4, <1>5 DEF TypeInv, ContainersOK, MapStates
<1>7. \A x \in DOMAIN objects : x \notin P
  BY <1>2
<1>8. PointersInv'
  <2>1. \A m, p : Has(m, p)' => m # ClassSystem /\ p \in DOMAIN objects'
    BY <1>1, <1>4, <1>5, PointersHeld
  <2>2. \A m \in DOMAIN containers' : /\ IsInjective(containers'[m])
           /\ \A p \in ToSet(containers'[m]) :
                IF m = ClassSystem THEN p = ClassMap ELSE p \in DOMAIN objects'
    BY <1>5, <2>1 DEF Has, ContainersOK
  <2>3. ASSUME NEW m \in Containers \ {ClassSystem}, NEW o \in DOMAIN objects'
        PROVE  Has(m, o)' <=> (Live(o) /\ objects[o].where = m)'
    <3>1. Has(m, o) <=> Live(o) /\ objects[o].where = m
      BY <1>1, <1>4 DEF PointersInv
    <3> QED
      BY <1>4, <1>5, <1>7, <3>1
  <2> QED
    BY <1>1, <2>1, <2>2, <2>3 DEF PointersInv
<1>9. FreedOnce'
  BY <1>1, <1>4, <1>7 DEF FreedOnce
<1>10. ClassesInv'
  <2>1. DOMAIN <<>> = {} /\ registered' = <<>>
    BY <1>1, <1>2, <1>4 DEF ClassesInv
  <2> QED
    BY <2>1 DEF ClassesInv
<1>11. CarefulInv'
  <2>1. Safe(State, P)
    BY <1>2, StateIs, <1>1 DEF Safe
  <2> QED
    BY <1>1, <1>3, <1>4, <2>1 DEF CarefulInv
<1> QED
  BY <1>6, <1>8, <1>9, <1>10, <1>11 DEF RegistryInv

-----------------------------------------------------------------------------
LEMMA RegistryStep == RegistryInv /\ [Next]_vars => RegistryInv'
<1> SUFFICES ASSUME RegistryInv, [Next]_vars PROVE RegistryInv'
  OBVIOUS
<1>1. ASSUME NEW class \in Classes, NEW where \in (Containers \cup {Client}) \ {ClassSystem},
             ObjectNew(class, where)
      PROVE  RegistryInv'
  BY <1>1, ObjectNewSound DEF Places
<1>2. CASE LookupClass
  BY <1>2, LookupClassSound
<1>3. CASE RegisterClass
  BY <1>3, RegisterClassSound
<1>4. CASE ObjectCreate
  BY <1>4, ObjectCreateSound
<1>5. ASSUME NEW o \in DOMAIN objects, ObjectFree(o) PROVE RegistryInv'
  BY <1>5, ObjectFreeSound
<1>6. ASSUME NEW n \in Containers, ContainerFree(n) PROVE RegistryInv'
  BY <1>6, ContainerFreeSound
<1>7. CASE ~fault /\ AutoFree
  BY <1>7, AutoFreeSound
<1>8. CASE ~fault /\ ClassSystemReset
  BY <1>8, ClassSystemResetSound
<1>9. CASE UNCHANGED vars
  BY <1>9 DEF vars, RegistryInv, TypeInv, PointersInv, Has, Live, FreedOnce,
              ClassesInv, CarefulInv
<1> QED
  BY <1>1, <1>2, <1>3, <1>4, <1>5, <1>6, <1>7, <1>8, <1>9 DEF Next

LEMMA RegistryAlways == Spec => []RegistryInv
<1>1. Init => RegistryInv
  BY InitSound
<1> QED
  BY <1>1, RegistryStep, PTL DEF Spec

(* Whatever the order of calls, whichever allocations fail and however the *)
(* program's containers are named: an object is finalized through a class  *)
(* that exists and classes are looked up in a map that exists, unless the  *)
(* client was careless (gauto.c, gobject.c).                               *)
THEOREM ClassesLast == Spec => []ClassesOutliveObjects
<1>1. RegistryInv => ClassesOutliveObjects
  BY DEF RegistryInv, CarefulInv, ClassesOutliveObjects
<1> QED
  BY <1>1, RegistryAlways, PTL

(* An object is in the container it was made for exactly while it lives,   *)
(* and is freed once; the map of classes is known where it is (g_auto_with,*)
(* g_auto_free, g_class_system_reset).                                     *)
THEOREM HeldInOnePlace == Spec => []HeldOrFreedOnce
<1>1. ASSUME RegistryInv PROVE HeldOrFreedOnce
  <2>1. TypeInv /\ PointersInv /\ FreedOnce /\ ClassesInv
    BY <1>1 DEF RegistryInv
  <2>2. \A n, p : InContainer(n, p) <=> Has(n, p)
    BY <2>1 DEF InContainer, Has, Contains, ToSet, TypeInv
  <2>3. ASSUME NEW o \in DOMAIN objects, NEW n \in Containers
        PROVE  InContainer(n, o) <=> Live(o) /\ objects[o].where = n
    <3>1. CASE n = ClassSystem
      <4>1. ~Has(n, o)
        BY <2>1, <3>1, PointersHeld, NotAnObject
      <4>2. objects[o].where # n
        BY <2>1, <3>1, ObjectTypes DEF Places
      <4> QED
        BY <2>2, <4>1, <4>2
    <3>2. CASE n # ClassSystem
      BY <2>1, <2>2, <3>2 DEF PointersInv
    <3> QED
      BY <3>1, <3>2
  <2> QED
    BY <2>1, <2>2, <2>3 DEF HeldOrFreedOnce, FreedOnce, ClassesInv, PointersInv
<1> QED
  BY <1>1, RegistryAlways, PTL
=============================================================================
