------------------------ MODULE ChannelValues_proofs ------------------------
(***************************************************************************)
(* What is proved about the values that travel through a channel, for any  *)
(* number of structs, slots and payloads (ChannelValues and GValue).       *)
(***************************************************************************)
EXTENDS ChannelValues, DataTheorems

(* The heap as the operators need it: what a struct refers to exists.      *)
SoundHeap(h) ==
  /\ h \in Heap
  /\ \A c \in Cells : /\ h.cell[c].refs \in 0 .. Len(h.counter)
                      /\ h.cell[c].payload \in 0 .. Len(h.released)

(* What one operator on the heap leaves alone.                             *)
SameSizes(h, g) ==
  Len(g.counter) = Len(h.counter) /\ Len(g.released) = Len(h.released)
OtherCells(h, g, c) == \A d \in Cells : d # c => g.cell[d] = h.cell[d]
OtherCounters(h, g, r) ==
  \A k \in 1 .. Len(h.counter) : k # r => g.counter[k] = h.counter[k]
OtherPayloads(h, g, p) ==
  \A k \in 1 .. Len(h.released) : k # p => g.released[k] = h.released[k]

-----------------------------------------------------------------------------
(* The parts of a heap.                                                    *)
LEMMA HeapParts ==
  ASSUME NEW h \in Heap
  PROVE  /\ h.cell \in [Cells -> Cell] /\ \A c \in Cells : h.cell[c] \in Cell
         /\ h.counter \in Seq(Counter) /\ Len(h.counter) \in Nat
         /\ DOMAIN h.counter = 1 .. Len(h.counter)
         /\ \A k \in 1 .. Len(h.counter) :
              /\ h.counter[k] \in Counter
              /\ h.counter[k].count \in Nat /\ h.counter[k].freed \in Nat
         /\ h.released \in Seq(Nat) /\ Len(h.released) \in Nat
         /\ DOMAIN h.released = 1 .. Len(h.released)
         /\ \A k \in 1 .. Len(h.released) : h.released[k] \in Nat
         /\ h.fault \in BOOLEAN
<1>1. /\ h.cell \in [Cells -> Cell] /\ h.counter \in Seq(Counter)
      /\ h.released \in Seq(Nat) /\ h.fault \in BOOLEAN
  BY DEF Heap
<1>2. /\ Len(h.counter) \in Nat /\ DOMAIN h.counter = 1 .. Len(h.counter)
      /\ \A k \in 1 .. Len(h.counter) : h.counter[k] \in Counter
  BY ONLY <1>1, LenProperties, ElementOfSeq
<1>3. /\ Len(h.released) \in Nat /\ DOMAIN h.released = 1 .. Len(h.released)
      /\ \A k \in 1 .. Len(h.released) : h.released[k] \in Nat
  BY ONLY <1>1, LenProperties, ElementOfSeq
<1>4. \A k \in 1 .. Len(h.counter) :
        h.counter[k].count \in Nat /\ h.counter[k].freed \in Nat
  BY <1>2 DEF Counter
<1> QED
  BY ONLY <1>1, <1>2, <1>3, <1>4

LEMMA CellParts ==
  ASSUME NEW h \in Heap, NEW c \in Cells
  PROVE  /\ h.cell[c].type \in Types
         /\ h.cell[c].refs \in Nat /\ h.cell[c].payload \in Nat
         /\ h.cell[c] = [type |-> h.cell[c].type, refs |-> h.cell[c].refs,
                         payload |-> h.cell[c].payload]
BY HeapParts DEF Cell

(* One item of a sequence changes.                                         *)
LEMMA ItemChanged ==
  ASSUME NEW S, NEW s \in Seq(S), NEW i \in 1 .. Len(s), NEW e \in S
  PROVE  /\ [s EXCEPT ![i] = e] \in Seq(S)
         /\ Len([s EXCEPT ![i] = e]) = Len(s)
         /\ [s EXCEPT ![i] = e][i] = e
         /\ \A k \in 1 .. Len(s) : k # i => [s EXCEPT ![i] = e][k] = s[k]
BY ExceptSeq

(* Uses: only the fault, and only if the counter was freed.                *)
LEMMA UsesIs ==
  ASSUME NEW h \in Heap, NEW r \in 1 .. Len(h.counter)
  PROVE  /\ Uses(h, r) \in Heap
         /\ Uses(h, r).cell = h.cell /\ Uses(h, r).counter = h.counter
         /\ Uses(h, r).released = h.released
         /\ h.counter[r].freed = 0 => Uses(h, r).fault = h.fault
<1> DEFINE used == h.counter[r].freed > 0
           g == [h EXCEPT !.fault = @ \/ used]
<1>1. Uses(h, r) = g
  BY DEF Uses
<1>2. used \in BOOLEAN /\ (h.counter[r].freed = 0 => ~used)
  BY HeapParts
<1>3. h.fault \in BOOLEAN
  BY HeapParts
<1> HIDE DEF used
<1>4. (h.fault \/ used) \in BOOLEAN /\ (~used => (h.fault \/ used) = h.fault)
  BY ONLY <1>2, <1>3, Zenon
<1>5. /\ g \in Heap /\ g.cell = h.cell /\ g.counter = h.counter
      /\ g.released = h.released /\ g.fault = (h.fault \/ used)
  BY <1>4 DEF Heap
<1> HIDE DEF g
<1> QED
  BY ONLY <1>1, <1>2, <1>4, <1>5

(* A counter gets another count, in the heap with the fault it may add.    *)
Recounted(h, g, r, n) ==
  /\ g \in Heap /\ SameSizes(h, g)
  /\ g.cell = h.cell /\ g.released = h.released
  /\ OtherCounters(h, g, r)
  /\ g.counter[r].count = n /\ g.counter[r].freed = h.counter[r].freed
  /\ h.counter[r].freed = 0 => g.fault = h.fault

LEMMA RecountIs ==
  ASSUME NEW h \in Heap, NEW r \in 1 .. Len(h.counter), NEW n \in Nat,
         NEW g, g = [Uses(h, r) EXCEPT !.counter[r].count = n]
  PROVE  Recounted(h, g, r, n)
<1> DEFINE u == Uses(h, r)
           counter == [u.counter EXCEPT ![r] = [u.counter[r] EXCEPT !.count = n]]
<1>1. /\ u \in Heap /\ u.cell = h.cell /\ u.counter = h.counter
      /\ u.released = h.released
      /\ h.counter[r].freed = 0 => u.fault = h.fault
  BY UsesIs
<1> HIDE DEF u
<1>2. u.counter[r] \in Counter /\ u.counter \in Seq(Counter) /\ r \in 1 .. Len(u.counter)
  BY <1>1, HeapParts
<1>3. /\ [u.counter[r] EXCEPT !.count = n] \in Counter
      /\ [u.counter[r] EXCEPT !.count = n].count = n
      /\ [u.counter[r] EXCEPT !.count = n].freed = u.counter[r].freed
  BY <1>2 DEF Counter
<1>4. /\ counter \in Seq(Counter) /\ Len(counter) = Len(u.counter)
      /\ counter[r] = [u.counter[r] EXCEPT !.count = n]
      /\ \A k \in 1 .. Len(u.counter) : k # r => counter[k] = u.counter[k]
  BY ONLY <1>2, <1>3, ItemChanged
<1>5. g = [u EXCEPT !.counter = counter]
  BY <1>1 DEF u, Heap
<1> HIDE DEF counter
<1>6. /\ g \in Heap /\ g.cell = u.cell /\ g.counter = counter
      /\ g.released = u.released /\ g.fault = u.fault
  BY <1>1, <1>4, <1>5 DEF Heap
<1> QED
  BY ONLY <1>1, <1>3, <1>4, <1>6 DEF Recounted, SameSizes, OtherCounters

(* g_value_free_data.                                                      *)
Forgotten(h, g, c) ==
  LET r == h.cell[c].refs
      p == h.cell[c].payload
  IN  /\ g \in Heap /\ SameSizes(h, g)
      /\ OtherCells(h, g, c)
      /\ g.cell[c].refs = r /\ g.cell[c].payload = p
      /\ OtherCounters(h, g, r) /\ OtherPayloads(h, g, p)
      /\ r # 0 => /\ g.counter[r].count = h.counter[r].count
                  /\ g.counter[r].freed = h.counter[r].freed + 1
      /\ p # 0 => g.released[p] = h.released[p] + 1
      /\ g.fault = h.fault

LEMMA FreeCounterIs ==
  ASSUME NEW h \in Heap, NEW r \in 0 .. Len(h.counter), NEW g, g = FreeCounter(h, r)
  PROVE  /\ g \in Heap /\ SameSizes(h, g)
         /\ g.cell = h.cell /\ g.released = h.released /\ g.fault = h.fault
         /\ OtherCounters(h, g, r)
         /\ r # 0 => /\ g.counter[r].count = h.counter[r].count
                     /\ g.counter[r].freed = h.counter[r].freed + 1
<1>1. CASE r = 0
  BY <1>1 DEF FreeCounter, SameSizes, OtherCounters
<1>2. CASE r # 0
  <2> DEFINE one == [h.counter[r] EXCEPT !.freed = @ + 1]
             counter == [h.counter EXCEPT ![r] = one]
  <2>1. r \in 1 .. Len(h.counter) /\ h.counter \in Seq(Counter)
    BY <1>2, HeapParts
  <2>2. h.counter[r] \in Counter /\ h.counter[r].freed \in Nat
    BY <2>1, HeapParts
  <2>3. /\ one \in Counter /\ one.count = h.counter[r].count
        /\ one.freed = h.counter[r].freed + 1
    BY <2>2 DEF Counter
  <2>4. /\ counter \in Seq(Counter) /\ Len(counter) = Len(h.counter)
        /\ counter[r] = one
        /\ \A k \in 1 .. Len(h.counter) : k # r => counter[k] = h.counter[k]
    <3> HIDE DEF one
    <3> QED
      BY ONLY <2>1, <2>3, ItemChanged
  <2>5. g = [h EXCEPT !.counter = counter]
    BY <1>2 DEF FreeCounter, Heap
  <2> HIDE DEF one, counter
  <2>6. /\ g \in Heap /\ g.cell = h.cell /\ g.counter = counter
        /\ g.released = h.released /\ g.fault = h.fault
    BY <2>4, <2>5 DEF Heap
  <2> QED
    BY ONLY <2>3, <2>4, <2>6 DEF SameSizes, OtherCounters
<1> QED
  BY <1>1, <1>2

LEMMA ReleasePayloadIs ==
  ASSUME NEW h \in Heap, NEW p \in 0 .. Len(h.released), NEW g, g = ReleasePayload(h, p)
  PROVE  /\ g \in Heap /\ SameSizes(h, g)
         /\ g.cell = h.cell /\ g.counter = h.counter /\ g.fault = h.fault
         /\ OtherPayloads(h, g, p)
         /\ p # 0 => g.released[p] = h.released[p] + 1
<1>1. CASE p = 0
  BY <1>1 DEF ReleasePayload, SameSizes, OtherPayloads
<1>2. CASE p # 0
  <2> DEFINE released == [h.released EXCEPT ![p] = @ + 1]
  <2>1. p \in 1 .. Len(h.released) /\ h.released \in Seq(Nat)
    BY <1>2, HeapParts
  <2>2. h.released[p] + 1 \in Nat
    BY <2>1, HeapParts
  <2>3. /\ released \in Seq(Nat) /\ Len(released) = Len(h.released)
        /\ released[p] = h.released[p] + 1
        /\ \A k \in 1 .. Len(h.released) : k # p => released[k] = h.released[k]
    BY ONLY <2>1, <2>2, ItemChanged
  <2>4. g = [h EXCEPT !.released = released]
    BY <1>2 DEF ReleasePayload, Heap
  <2> HIDE DEF released
  <2>5. /\ g \in Heap /\ g.cell = h.cell /\ g.counter = h.counter
        /\ g.released = released /\ g.fault = h.fault
    BY <2>3, <2>4 DEF Heap
  <2> QED
    BY ONLY <2>3, <2>5 DEF SameSizes, OtherPayloads
<1> QED
  BY <1>1, <1>2

LEMMA FreeDataIs ==
  ASSUME NEW h, SoundHeap(h), NEW c \in Cells, NEW g, g = FreeData(h, c)
  PROVE  Forgotten(h, g, c)
<1> DEFINE r == h.cell[c].refs
           p == h.cell[c].payload
           k == FreeCounter(h, r)
           l == ReleasePayload(k, p)
           cell == [l.cell EXCEPT ![c].type = "NULL"]
<1>1. /\ h \in Heap /\ r \in 0 .. Len(h.counter) /\ p \in 0 .. Len(h.released)
  BY DEF SoundHeap
<1>2. g = [l EXCEPT !.cell[c].type = "NULL"]
  BY DEF FreeData
<1> HIDE DEF r, p
<1>3. /\ k \in Heap /\ SameSizes(h, k)
      /\ k.cell = h.cell /\ k.released = h.released /\ k.fault = h.fault
      /\ OtherCounters(h, k, r)
      /\ r # 0 => /\ k.counter[r].count = h.counter[r].count
                  /\ k.counter[r].freed = h.counter[r].freed + 1
  BY <1>1, FreeCounterIs
<1>4. p \in 0 .. Len(k.released)
  BY <1>1, <1>3 DEF SameSizes
<1> HIDE DEF k
<1>5. /\ l \in Heap /\ SameSizes(k, l)
      /\ l.cell = k.cell /\ l.counter = k.counter /\ l.fault = k.fault
      /\ OtherPayloads(k, l, p)
      /\ p # 0 => l.released[p] = k.released[p] + 1
  BY <1>3, <1>4, ReleasePayloadIs
<1> HIDE DEF l
<1>6. /\ cell \in [Cells -> Cell]
      /\ \A d \in Cells : d # c => cell[d] = l.cell[d]
      /\ cell[c].refs = l.cell[c].refs /\ cell[c].payload = l.cell[c].payload
  <2>1. l.cell \in [Cells -> Cell] /\ l.cell[c] \in Cell
    BY <1>5, HeapParts
  <2> QED
    BY <2>1 DEF Cell, Types
<1>7. g = [l EXCEPT !.cell = cell]
  BY <1>2, <1>5 DEF Heap
<1> HIDE DEF cell
<1>8. /\ g \in Heap /\ g.cell = cell /\ g.counter = l.counter
      /\ g.released = l.released /\ g.fault = l.fault
  BY <1>5, <1>6, <1>7 DEF Heap
<1>9. /\ SameSizes(h, g) /\ OtherCounters(h, g, r) /\ OtherPayloads(h, g, p)
  BY ONLY <1>3, <1>5, <1>8 DEF SameSizes, OtherCounters, OtherPayloads
<1>10. OtherCells(h, g, c)
  BY ONLY <1>3, <1>5, <1>6, <1>8 DEF OtherCells
<1> QED
  BY <1>3, <1>5, <1>6, <1>8, <1>9, <1>10 DEF Forgotten, r, p

(* g_value_unref of the struct c: the payload is let go with the last      *)
(* reference, and with a counter that never counted c nothing happens.     *)
Dropped(h, g, c) ==
  LET r == h.cell[c].refs
      p == h.cell[c].payload
  IN  /\ g \in Heap /\ SameSizes(h, g)
      /\ OtherCells(h, g, c)
      /\ g.cell[c].refs = r /\ g.cell[c].payload = p
      /\ OtherCounters(h, g, r) /\ OtherPayloads(h, g, p)
      /\ r = 0 => g.fault = h.fault /\ (p # 0 => g.released[p] = h.released[p] + 1)
      /\ r # 0 /\ h.counter[r].count = 0 =>
           g.counter[r] = h.counter[r] /\ g.released = h.released
      /\ r # 0 /\ h.counter[r].count = 1 =>
           /\ g.counter[r].count = 0
           /\ g.counter[r].freed = h.counter[r].freed + 1
           /\ p # 0 => g.released[p] = h.released[p] + 1
      /\ r # 0 /\ h.counter[r].count > 1 =>
           /\ g.counter[r].count = h.counter[r].count - 1
           /\ g.counter[r].freed = h.counter[r].freed
           /\ g.released = h.released
      /\ r # 0 /\ h.counter[r].freed = 0 => g.fault = h.fault

LEMMA UnrefIs ==
  ASSUME NEW h, SoundHeap(h), NEW c \in Cells, NEW g, g = Unref(h, c)
  PROVE  Dropped(h, g, c)
<1> DEFINE r == h.cell[c].refs
           p == h.cell[c].payload
           n == h.counter[r].count
           k == [Uses(h, r) EXCEPT !.counter[r].count = @ - 1]
<1>1. /\ h \in Heap /\ r \in 0 .. Len(h.counter) /\ p \in 0 .. Len(h.released)
      /\ Len(h.counter) \in Nat
  BY HeapParts DEF SoundHeap
<1>2. g = CASE r = 0 -> FreeData(h, c)
            [] r # 0 /\ n = 0 -> Uses(h, r)
            [] r # 0 /\ n = 1 -> FreeData(k, c)
            [] OTHER -> k
  BY DEF Unref
<1>3. r # 0 => r \in 1 .. Len(h.counter) /\ n \in Nat
  BY <1>1, HeapParts
<1>4. ASSUME r # 0, n # 0 PROVE Recounted(h, k, r, n - 1)
  <2>1. r \in 1 .. Len(h.counter) /\ n - 1 \in Nat
    BY <1>3, <1>4
  <2>2. /\ Uses(h, r).counter = h.counter /\ Uses(h, r) \in Heap
    BY <1>1, <2>1, UsesIs
  <2>3. k = [Uses(h, r) EXCEPT !.counter[r].count = n - 1]
    BY <2>2
  <2> HIDE DEF k, n
  <2> QED
    BY <1>1, <2>1, <2>3, RecountIs
<1>5. CASE r = 0
  <2>1. g = FreeData(h, c)
    BY <1>2, <1>5
  <2>2. Forgotten(h, g, c)
    BY ONLY <2>1, FreeDataIs, SoundHeap(h), c \in Cells
  <2> QED
    BY <1>5, <2>2 DEF Forgotten, Dropped
<1>6. CASE r # 0 /\ n = 0
  <2>1. /\ g \in Heap /\ g.cell = h.cell /\ g.counter = h.counter
        /\ g.released = h.released
        /\ h.counter[r].freed = 0 => g.fault = h.fault
    BY <1>1, <1>2, <1>3, <1>6, UsesIs
  <2> QED
    BY <1>6, <2>1 DEF Dropped, SameSizes, OtherCells, OtherCounters, OtherPayloads
<1>7. CASE r # 0 /\ n = 1
  <2>1. Recounted(h, k, r, n - 1) /\ n - 1 = 0
    BY <1>4, <1>7
  <2>2. g = FreeData(k, c)
    <3>1. r # 0 /\ n = 1 /\ n # 0
      BY <1>7
    <3> HIDE DEF r, n, k
    <3> QED
      BY ONLY <1>2, <3>1
  <2> HIDE DEF k
  <2>3. SoundHeap(k)
    BY <2>1 DEF SoundHeap, Recounted, SameSizes
  <2>4. Forgotten(k, g, c)
    BY <2>2, <2>3, FreeDataIs
  <2>5. k.cell[c].refs = r /\ k.cell[c].payload = p
    BY <2>1 DEF Recounted
  <2>6. /\ g \in Heap /\ SameSizes(h, g) /\ OtherCells(h, g, c)
        /\ g.cell[c].refs = r /\ g.cell[c].payload = p
        /\ OtherCounters(h, g, r) /\ OtherPayloads(h, g, p)
    BY ONLY <2>1, <2>4, <2>5
    DEF Forgotten, Recounted, SameSizes, OtherCells, OtherCounters, OtherPayloads
  <2>7. /\ g.counter[r].count = 0
        /\ g.counter[r].freed = h.counter[r].freed + 1
        /\ p # 0 => g.released[p] = h.released[p] + 1
        /\ h.counter[r].freed = 0 => g.fault = h.fault
    BY <1>7, <2>1, <2>4, <2>5 DEF Forgotten, Recounted
  <2> QED
    BY <1>7, <2>6, <2>7 DEF Dropped
<1>8. CASE r # 0 /\ n # 0 /\ n # 1
  <2>1. Recounted(h, g, r, n - 1)
    BY <1>2, <1>4, <1>8
  <2> QED
    BY <1>8, <2>1
    DEF Dropped, Recounted, SameSizes, OtherCells, OtherCounters, OtherPayloads
<1> QED
  BY ONLY <1>5, <1>6, <1>7, <1>8

-----------------------------------------------------------------------------
(* The inductive invariant.  L are the structs in use, S the payloads that *)
(* were written by their only holder, and e a counter that has already     *)
(* counted the struct that is about to be copied (0 when there is none).   *)
Hold(h, L, p) == {c \in L : h.cell[c].payload = p}
Share(h, L, r) == {c \in L : h.cell[c].refs = r}
Extra(r, e) == IF r = e THEN 1 ELSE 0

(* A struct with a payload knows it; one without has no counter; a counter *)
(* is of one payload.                                                      *)
Formed(v) ==
  /\ v.payload # 0 => v.type # "NULL"
  /\ v.payload = 0 => v.refs = 0
OnePayload(v, w) == v.refs # 0 /\ v.refs = w.refs => v.payload = w.payload
Shape(h, L) ==
  /\ SoundHeap(h) /\ L \subseteq Cells /\ IsFiniteSet(L)
  /\ \A c \in L : Formed(h.cell[c])
  /\ \A c, d \in L : OnePayload(h.cell[c], h.cell[d])

(* A counter never counts more than its sharers: it may be exhausted too   *)
(* early, and then the payload is gone, but it does not keep it for ever.  *)
CounterKept(h, L, r, e) ==
  /\ h.counter[r].freed = 0 =>
       /\ h.counter[r].count >= 1
       /\ h.counter[r].count <= Cardinality(Share(h, L, r)) + Extra(r, e)
  /\ h.counter[r].freed # 0 =>
       \A c \in Share(h, L, r) : h.released[h.cell[c].payload] > 0

PayloadKept(h, L, p) == h.released[p] = 0 => Hold(h, L, p) # {}

(* A payload that is not in S is released once, by its last holder, and    *)
(* its counter is exact.                                                   *)
ReleasedOnce(h, L, p) ==
  /\ h.released[p] <= 1
  /\ h.released[p] = 1 => Hold(h, L, p) = {}
OneCounter(h, L, p) ==
  \A c, d \in Hold(h, L, p) :
    c # d => h.cell[c].refs = h.cell[d].refs /\ h.cell[c].refs # 0
ExactCount(h, L, r, e) ==
  r # 0 => /\ h.counter[r].freed = 0
           /\ h.counter[r].count = Cardinality(Share(h, L, r)) + Extra(r, e)
PayloadExact(h, L, p, e) ==
  /\ ReleasedOnce(h, L, p) /\ OneCounter(h, L, p)
  /\ \A c \in Hold(h, L, p) : ExactCount(h, L, h.cell[c].refs, e)

CounterExact(h, L, r) ==
  /\ h.counter[r].freed <= 1
  /\ h.counter[r].freed = 1 => Share(h, L, r) = {}

HeapInv(h, L, S, e) ==
  /\ Shape(h, L)
  /\ \A r \in 1 .. Len(h.counter) : CounterKept(h, L, r, e)
  /\ \A p \in 1 .. Len(h.released) : PayloadKept(h, L, p)
  /\ \A p \in (1 .. Len(h.released)) \ S : PayloadExact(h, L, p, e)
  /\ S = {} => /\ h.fault = FALSE
               /\ \A r \in 1 .. Len(h.counter) : CounterExact(h, L, r)

LEMMA SharesFinite ==
  ASSUME NEW h, NEW L, Shape(h, L)
  PROVE  \A r : IsFiniteSet(Share(h, L, r)) /\ Cardinality(Share(h, L, r)) \in Nat
<1> TAKE r
<1>1. IsFiniteSet(L) /\ Share(h, L, r) \subseteq L
  BY DEF Shape, Share
<1> QED
  BY ONLY <1>1, FS_Subset, FS_CardinalityType

LEMMA InvHeap ==
  ASSUME NEW h, NEW L, NEW S, NEW e, HeapInv(h, L, S, e)
  PROVE  /\ Shape(h, L) /\ SoundHeap(h) /\ h \in Heap
         /\ IsFiniteSet(L) /\ L \subseteq Cells
         /\ Len(h.counter) \in Nat /\ Len(h.released) \in Nat
<1>1. /\ Shape(h, L) /\ SoundHeap(h) /\ h \in Heap
      /\ IsFiniteSet(L) /\ L \subseteq Cells
  BY DEF HeapInv, Shape, SoundHeap
<1> QED
  BY ONLY <1>1, HeapParts

LEMMA InvNumbers ==
  ASSUME NEW h, NEW L, NEW S, NEW e, HeapInv(h, L, S, e)
  PROVE  /\ \A k \in 1 .. Len(h.counter) :
              h.counter[k].count \in Nat /\ h.counter[k].freed \in Nat
         /\ \A k \in 1 .. Len(h.released) : h.released[k] \in Nat
<1>1. h \in Heap
  BY InvHeap
<1> QED
  BY ONLY <1>1, HeapParts

LEMMA InvCells ==
  ASSUME NEW h, NEW L, NEW S, NEW e, HeapInv(h, L, S, e), NEW d \in L
  PROVE  /\ d \in Cells
         /\ h.cell[d].refs \in 0 .. Len(h.counter)
         /\ h.cell[d].payload \in 0 .. Len(h.released)
         /\ h.cell[d].refs # 0 => h.cell[d].payload # 0
<1>1. Shape(h, L) /\ SoundHeap(h)
  BY InvHeap
<1> QED
  BY ONLY <1>1, d \in L DEF Shape, SoundHeap, Formed

(* Without the struct c the others hold and share what they did.           *)
LEMMA SharesWithout ==
  ASSUME NEW h, NEW g, NEW L, Shape(h, L), NEW c, OtherCells(h, g, c), NEW r
  PROVE  Share(g, L \ {c}, r) = Share(h, L, r) \ {c}
<1>1. \A d \in L \ {c} : g.cell[d] = h.cell[d]
  BY DEF Shape, OtherCells
<1> QED
  BY <1>1 DEF Share

LEMMA HoldWithout ==
  ASSUME NEW h, NEW g, NEW L, Shape(h, L), NEW c, OtherCells(h, g, c), NEW p
  PROVE  Hold(g, L \ {c}, p) = Hold(h, L, p) \ {c}
<1>1. \A d \in L \ {c} : g.cell[d] = h.cell[d]
  BY DEF Shape, OtherCells
<1> QED
  BY <1>1 DEF Hold

LEMMA OthersShare ==
  ASSUME NEW h, NEW g, NEW L, Shape(h, L), NEW c, OtherCells(h, g, c),
         NEW r, r # h.cell[c].refs
  PROVE  Share(g, L \ {c}, r) = Share(h, L, r)
<1>1. c \notin Share(h, L, r)
  BY DEF Share
<1> QED
  BY <1>1, SharesWithout

LEMMA OthersHold ==
  ASSUME NEW h, NEW g, NEW L, Shape(h, L), NEW c, OtherCells(h, g, c),
         NEW p, p # h.cell[c].payload
  PROVE  Hold(g, L \ {c}, p) = Hold(h, L, p)
<1>1. c \notin Hold(h, L, p)
  BY DEF Hold
<1> QED
  BY <1>1, HoldWithout

(* The counter of c has counted no other struct in advance.                *)
Uncounted(h, c, e) == e = 0 \/ h.cell[c].refs # e

LEMMA DropReleases ==
  ASSUME NEW h, NEW L, NEW S, NEW e, HeapInv(h, L, S, e), NEW c \in L,
         NEW g, Dropped(h, g, c)
  PROVE  \A q \in 1 .. Len(h.released) :
           g.released[q] \in Nat /\ g.released[q] >= h.released[q]
<1> TAKE q \in 1 .. Len(h.released)
<1> DEFINE r == h.cell[c].refs
           p == h.cell[c].payload
<1>1. h.released[q] \in Nat /\ h.released[q] + 1 \in Nat
  BY InvNumbers
<1>2. CASE q # p
  BY <1>1, <1>2 DEF Dropped, OtherPayloads
<1>3. CASE q = p
  <2>1. r # 0 => h.counter[r].count \in Nat
    <3>1. r \in 0 .. Len(h.counter) /\ Len(h.counter) \in Nat
      BY InvCells, InvHeap
    <3>2. \A j \in 1 .. Len(h.counter) : h.counter[j].count \in Nat
      BY InvNumbers
    <3> HIDE DEF r
    <3> QED
      BY <3>1, <3>2
  <2>2. r = 0 \/ (r # 0 /\ h.counter[r].count = 0)
        \/ (r # 0 /\ h.counter[r].count = 1) \/ (r # 0 /\ h.counter[r].count > 1)
    BY <2>1
  <2>3. g.released = h.released \/ g.released[q] = h.released[q] + 1
    BY <1>3, <2>2 DEF Dropped
  <2> QED
    BY <1>1, <2>3
<1> QED
  BY <1>2, <1>3

LEMMA DropShape ==
  ASSUME NEW h, NEW L, NEW S, NEW e, HeapInv(h, L, S, e), NEW c \in L,
         NEW g, Dropped(h, g, c)
  PROVE  Shape(g, L \ {c})
<1>1. /\ g \in Heap /\ SameSizes(h, g) /\ OtherCells(h, g, c)
      /\ g.cell[c].refs = h.cell[c].refs /\ g.cell[c].payload = h.cell[c].payload
  BY DEF Dropped
<1>2. Shape(h, L) /\ SoundHeap(h)
  BY InvHeap
<1>3. SoundHeap(g)
  BY ONLY <1>1, <1>2 DEF SoundHeap, SameSizes, OtherCells
<1>4. IsFiniteSet(L \ {c}) /\ L \ {c} \subseteq Cells
  BY ONLY <1>2, OneRemoved, c \in L DEF Shape
<1>5. \A d \in L \ {c} : g.cell[d] = h.cell[d]
  BY ONLY <1>1, <1>2 DEF OtherCells, Shape
<1> QED
  BY ONLY <1>2, <1>3, <1>4, <1>5 DEF Shape

LEMMA DropCounter ==
  ASSUME NEW h, NEW L, NEW S, NEW e, HeapInv(h, L, S, e), NEW c \in L,
         Uncounted(h, c, e), NEW g, Dropped(h, g, c),
         NEW k \in 1 .. Len(h.counter)
  PROVE  CounterKept(g, L \ {c}, k, e)
<1> DEFINE r == h.cell[c].refs
           p == h.cell[c].payload
           M == L \ {c}
<1>1. /\ OtherCells(h, g, c) /\ OtherCounters(h, g, r)
      /\ Shape(h, L) /\ L \subseteq Cells
  BY InvHeap DEF Dropped
<1>2. CounterKept(h, L, k, e)
  BY DEF HeapInv
<1>3. \A d \in Share(g, M, k) :
        /\ d \in Share(h, L, k) /\ g.cell[d].payload = h.cell[d].payload
        /\ h.cell[d].payload \in 1 .. Len(h.released)
  <2> TAKE d \in Share(g, M, k)
  <2>1. d \in L /\ d # c /\ d \in Cells /\ g.cell[d] = h.cell[d] /\ h.cell[d].refs = k
    BY <1>1 DEF Share, OtherCells
  <2>2. h.cell[d].payload # 0 /\ h.cell[d].payload \in 0 .. Len(h.released)
    BY <2>1, InvCells
  <2>3. Len(h.released) \in Nat
    BY InvHeap
  <2>4. d \in Share(h, L, k)
    BY <2>1 DEF Share
  <2> QED
    BY ONLY <2>1, <2>2, <2>3, <2>4
<1>4. \A d \in Share(g, M, k) :
        h.released[h.cell[d].payload] > 0 => g.released[g.cell[d].payload] > 0
  <2> TAKE d \in Share(g, M, k)
  <2> DEFINE q == h.cell[d].payload
  <2>1. q \in 1 .. Len(h.released) /\ g.cell[d].payload = q
    BY <1>3
  <2>2. g.released[q] \in Nat /\ g.released[q] >= h.released[q] /\ h.released[q] \in Nat
    BY <2>1, DropReleases, InvNumbers
  <2> HIDE DEF q
  <2>3. h.released[q] > 0 => g.released[q] > 0
    BY ONLY <2>2
  <2> QED
    BY <2>1, <2>3 DEF q
<1>5. CASE k # r
  <2>1. g.counter[k] = h.counter[k] /\ Share(g, M, k) = Share(h, L, k)
    <3>1. g.counter[k] = h.counter[k]
      BY <1>1, <1>5 DEF OtherCounters
    <3>2. Share(g, M, k) = Share(h, L, k)
      BY ONLY <1>1, <1>5, OthersShare DEF M, r
    <3> QED
      BY <3>1, <3>2
  <2> HIDE DEF M
  <2>2. \A d \in Share(g, M, k) : d \in Share(h, L, k)
    BY <2>1
  <2>3. h.counter[k].freed # 0 => \A d \in Share(g, M, k) : g.released[g.cell[d].payload] > 0
    BY ONLY <1>2, <1>4, <2>2 DEF CounterKept
  <2>4. CounterKept(g, M, k, e)
    BY ONLY <1>2, <2>1, <2>3 DEF CounterKept
  <2> QED
    BY <2>4 DEF M
<1>6. CASE k = r
  <2> DEFINE n == h.counter[k].count
             f == h.counter[k].freed
             m == Cardinality(Share(h, L, k))
             l == Cardinality(Share(g, M, k))
  <2>1. n \in Nat /\ f \in Nat /\ k \in Nat /\ k # 0
    BY InvNumbers
  <2>2. k # e /\ Extra(k, e) = 0
    BY <1>6, <2>1 DEF Extra, Uncounted
  <2>3. m \in Nat /\ l \in Nat /\ m = l + 1
    <3>1. IsFiniteSet(Share(h, L, k))
      <4>1. Shape(h, L)
        BY InvHeap
      <4> QED
        BY ONLY <4>1, SharesFinite
    <3>2. c \in Share(h, L, k)
      BY <1>6 DEF Share
    <3>3. Share(g, M, k) = Share(h, L, k) \ {c}
      BY ONLY <1>1, SharesWithout DEF M
    <3> QED
      BY ONLY <3>1, <3>2, <3>3, OneRemoved
  <2>4. p \in 1 .. Len(h.released)
    <3>1. p # 0 /\ p \in 0 .. Len(h.released)
      BY <1>6, <2>1, InvCells
    <3> HIDE DEF p
    <3> QED
      BY <3>1, InvHeap
  <2>5. \A d \in Share(g, M, k) : h.cell[d].payload = p
    BY <1>1, <1>3, <1>6, <2>1 DEF Shape, Share, OnePayload
  <2>6. f = 0 => n >= 1 /\ n <= m
    BY <1>2, <2>1, <2>2, <2>3 DEF CounterKept
  <2>7. CASE n = 0
    <3>1. g.counter[k] = h.counter[k] /\ f # 0
      BY <1>6, <2>1, <2>6, <2>7 DEF Dropped
    <3>2. \A d \in Share(g, M, k) : g.released[g.cell[d].payload] > 0
      BY <1>2, <1>3, <1>4, <3>1 DEF CounterKept
    <3> QED
      BY ONLY <3>1, <3>2 DEF CounterKept
  <2>8. CASE n = 1
    <3>1. g.counter[k].freed = f + 1 /\ g.released[p] = h.released[p] + 1
      BY <1>6, <2>1, <2>4, <2>8 DEF Dropped
    <3>2. g.released[p] > 0 /\ g.counter[k].freed # 0
      BY <2>1, <2>4, <3>1, InvNumbers
    <3> QED
      BY <1>3, <2>5, <3>2 DEF CounterKept
  <2>9. CASE n > 1
    <3>1. g.counter[k].count = n - 1 /\ g.counter[k].freed = f
      BY <1>6, <2>1, <2>9 DEF Dropped
    <3>2. f # 0 => \A d \in Share(g, M, k) : g.released[g.cell[d].payload] > 0
      BY <1>2, <1>3, <1>4 DEF CounterKept
    <3>3. f = 0 => n - 1 >= 1 /\ n - 1 <= l + Extra(k, e)
      BY ONLY <2>1, <2>2, <2>3, <2>6, <2>9
    <3> HIDE DEF n, f, l, M
    <3>4. CounterKept(g, M, k, e)
      BY ONLY <3>1, <3>2, <3>3 DEF CounterKept, l
    <3> QED
      BY <3>4 DEF M
  <2> QED
    BY <2>1, <2>7, <2>8, <2>9
<1> QED
  BY <1>5, <1>6

SoundCounter(h, L, c, e) ==
  LET r == h.cell[c].refs
  IN  /\ r \in 1 .. Len(h.counter) /\ Extra(r, e) = 0
      /\ h.counter[r].count \in Nat /\ h.counter[r].freed \in Nat
      /\ c \in Share(h, L, r) /\ IsFiniteSet(Share(h, L, r))
      /\ Cardinality(Share(h, L, r)) \in Nat
      /\ Cardinality(Share(h, L, r) \ {c}) = Cardinality(Share(h, L, r)) - 1
      /\ CounterKept(h, L, r, e)
      /\ h.cell[c].payload \in 1 .. Len(h.released)
      /\ \A d \in Share(h, L, r) : h.cell[d].payload = h.cell[c].payload

LEMMA CounterOf ==
  ASSUME NEW h, NEW L, NEW S, NEW e, HeapInv(h, L, S, e), NEW c \in L,
         h.cell[c].refs # 0, Uncounted(h, c, e)
  PROVE  SoundCounter(h, L, c, e)
<1> DEFINE r == h.cell[c].refs
<1>1. r \in 1 .. Len(h.counter) /\ h.cell[c].payload \in 1 .. Len(h.released)
  BY InvCells, InvHeap
<1>2. Extra(r, e) = 0
  BY <1>1 DEF Extra, Uncounted
<1>3. h.counter[r].count \in Nat /\ h.counter[r].freed \in Nat
  BY <1>1, InvNumbers
<1>4. c \in Share(h, L, r) /\ Shape(h, L)
  BY InvHeap DEF Share
<1>5. IsFiniteSet(Share(h, L, r))
  BY ONLY <1>4, SharesFinite
<1>6. /\ Cardinality(Share(h, L, r)) \in Nat
      /\ Cardinality(Share(h, L, r) \ {c}) = Cardinality(Share(h, L, r)) - 1
  BY ONLY <1>4, <1>5, OneRemoved
<1>7. CounterKept(h, L, r, e)
  BY <1>1 DEF HeapInv
<1>8. \A d \in Share(h, L, r) : h.cell[d].payload = h.cell[c].payload
  BY <1>4 DEF Shape, Share, OnePayload
<1> QED
  BY <1>1, <1>2, <1>3, <1>4, <1>5, <1>6, <1>7, <1>8 DEF SoundCounter

LEMMA DropPayload ==
  ASSUME NEW h, NEW L, NEW S, NEW e, HeapInv(h, L, S, e), NEW c \in L,
         Uncounted(h, c, e), NEW g, Dropped(h, g, c),
         NEW k \in 1 .. Len(h.released)
  PROVE  PayloadKept(g, L \ {c}, k)
<1> SUFFICES ASSUME g.released[k] = 0 PROVE Hold(g, L \ {c}, k) # {}
  BY DEF PayloadKept
<1> DEFINE r == h.cell[c].refs
           p == h.cell[c].payload
           M == L \ {c}
<1>1. h.released[k] = 0
  <2>1. /\ g.released[k] \in Nat /\ g.released[k] >= h.released[k]
        /\ h.released[k] \in Nat
    BY DropReleases, InvNumbers
  <2> QED
    BY <2>1
<1>2. OtherCells(h, g, c) /\ Shape(h, L) /\ L \subseteq Cells
  BY InvHeap DEF Dropped
<1>3. Hold(h, L, k) # {}
  BY <1>1 DEF HeapInv, PayloadKept
<1>4. CASE k # p
  BY ONLY <1>2, <1>3, <1>4, OthersHold DEF M, p
<1>5. CASE k = p
  <2>1. r # 0
    <3>1. k # 0 /\ h.released[k] + 1 # 0
      BY InvHeap, <1>1
    <3> QED
      BY <1>5, <3>1 DEF Dropped
  <2> DEFINE sharers == Share(h, L, r)
             n == h.counter[r].count
  <2>2. /\ Extra(r, e) = 0 /\ n \in Nat /\ c \in sharers
        /\ Cardinality(sharers) \in Nat
        /\ Cardinality(sharers \ {c}) = Cardinality(sharers) - 1
        /\ CounterKept(h, L, r, e)
        /\ \A d \in sharers : h.cell[d].payload = p
    <3>1. SoundCounter(h, L, c, e)
      BY <2>1, CounterOf
    <3> QED
      BY ONLY <3>1 DEF SoundCounter, r, p, n, sharers
  <2>3. h.counter[r].freed = 0
    <3>1. ~(h.released[p] > 0)
      BY <1>1, <1>5
    <3> QED
      BY <2>2, <3>1 DEF CounterKept
  <2>4. n >= 1 /\ n <= Cardinality(sharers)
    BY <2>2, <2>3 DEF CounterKept
  <2>5. n # 1
    <3>1. n = 1 => g.released[k] = h.released[k] + 1
      BY <1>5, <2>1, InvHeap DEF Dropped
    <3> QED
      BY <1>1, <3>1
  <2>6. sharers \ {c} # {}
    <3>1. Cardinality(sharers \ {c}) # 0
      BY <2>2, <2>4, <2>5
    <3> QED
      BY ONLY <3>1, FS_EmptySet
  <2>7. PICK d \in sharers \ {c} : TRUE
    BY <2>6
  <2>8. d \in L \ {c} /\ h.cell[d].payload = k /\ d \in Cells
    BY <1>2, <1>5, <2>2, <2>7 DEF Share
  <2>9. g.cell[d].payload = k
    BY <1>2, <2>8 DEF OtherCells
  <2> QED
    BY <2>8, <2>9 DEF Hold
<1> QED
  BY ONLY <1>4, <1>5 DEF M

(* A holder of a payload that is not in S.                                 *)
LEMMA ExactHolder ==
  ASSUME NEW h, NEW L, NEW S, NEW e, HeapInv(h, L, S, e), NEW c \in L,
         Uncounted(h, c, e),
         NEW p, p = h.cell[c].payload, p # 0, p \notin S,
         NEW r, r = h.cell[c].refs
  PROVE  /\ p \in 1 .. Len(h.released) /\ h.released[p] = 0
         /\ r = 0 => Hold(h, L, p) = {c}
         /\ r # 0 => /\ Hold(h, L, p) = Share(h, L, r)
                     /\ h.counter[r].freed = 0
                     /\ h.counter[r].count = Cardinality(Share(h, L, r))
<1>1. p \in 1 .. Len(h.released) /\ h.released[p] \in Nat
  BY InvCells, InvHeap, InvNumbers
<1>2. PayloadExact(h, L, p, e)
  BY <1>1 DEF HeapInv
<1>3. c \in Hold(h, L, p)
  BY DEF Hold
<1>4. h.released[p] = 0
  BY <1>1, <1>2, <1>3 DEF PayloadExact, ReleasedOnce
<1>5. \A d \in Hold(h, L, p) : d # c => h.cell[d].refs = r /\ r # 0
  BY <1>2, <1>3 DEF PayloadExact, OneCounter
<1>6. CASE r = 0
  BY <1>1, <1>3, <1>4, <1>5, <1>6
<1>7. CASE r # 0
  <2>1. /\ Extra(r, e) = 0 /\ Cardinality(Share(h, L, r)) \in Nat
        /\ \A d \in Share(h, L, r) : h.cell[d].payload = p
    <3>1. SoundCounter(h, L, c, e)
      BY <1>7, CounterOf
    <3> QED
      BY <3>1 DEF SoundCounter
  <2>2. Hold(h, L, p) = Share(h, L, r)
    <3>1. Hold(h, L, p) \subseteq L /\ Share(h, L, r) \subseteq L
      BY DEF Hold, Share
    <3>2. \A d \in Hold(h, L, p) : h.cell[d].refs = r
      BY <1>5
    <3>3. \A d \in Hold(h, L, p) : d \in Share(h, L, r)
      BY <3>1, <3>2 DEF Share
    <3>4. \A d \in Share(h, L, r) : d \in Hold(h, L, p)
      BY <2>1, <3>1 DEF Hold
    <3> QED
      BY ONLY <3>3, <3>4
  <2>3. /\ h.counter[r].freed = 0
        /\ h.counter[r].count = Cardinality(Share(h, L, r)) + Extra(r, e)
    BY <1>2, <1>3, <1>7 DEF PayloadExact, ExactCount
  <2> QED
    BY <1>1, <1>4, <1>7, <2>1, <2>2, <2>3
<1> QED
  BY ONLY <1>6, <1>7

(* The same holder after it was dropped: the last one releases the payload *)
(* and its counter, and another one leaves the count to the rest.          *)
DroppedHolder(h, g, L, c, p) ==
  LET r == h.cell[c].refs
      M == L \ {c}
  IN  \/ /\ g.released[p] = 1 /\ Hold(g, M, p) = {}
         /\ r # 0 => g.counter[r].freed = 1 /\ Share(g, M, r) = {}
      \/ /\ g.released[p] = 0 /\ r # 0
         /\ Hold(g, M, p) = Share(g, M, r)
         /\ g.counter[r].freed = 0
         /\ g.counter[r].count = Cardinality(Share(g, M, r))

LEMMA DropHolder ==
  ASSUME NEW h, NEW L, NEW S, NEW e, HeapInv(h, L, S, e), NEW c \in L,
         Uncounted(h, c, e), NEW g, Dropped(h, g, c),
         NEW p, p = h.cell[c].payload, p # 0, p \notin S
  PROVE  DroppedHolder(h, g, L, c, p)
<1> DEFINE r == h.cell[c].refs
           M == L \ {c}
           sharers == Share(h, L, r)
           n == h.counter[r].count
<1>1. /\ p \in 1 .. Len(h.released) /\ h.released[p] = 0
      /\ r = 0 => Hold(h, L, p) = {c}
      /\ r # 0 => /\ Hold(h, L, p) = sharers
                  /\ h.counter[r].freed = 0
                  /\ n = Cardinality(sharers)
  BY ExactHolder
<1>2. OtherCells(h, g, c) /\ Shape(h, L)
  BY InvHeap DEF Dropped
<1>3. Hold(g, M, p) = Hold(h, L, p) \ {c} /\ Share(g, M, r) = sharers \ {c}
  BY ONLY <1>2, HoldWithout, SharesWithout DEF M, sharers
<1>4. CASE r = 0
  <2>1. g.released[p] = 1
    BY <1>1, <1>4 DEF Dropped
  <2>2. Hold(g, M, p) = {}
    BY <1>1, <1>3, <1>4
  <2> QED
    BY <1>4, <2>1, <2>2 DEF DroppedHolder
<1>5. CASE r # 0
  <2>1. SoundCounter(h, L, c, e)
    BY <1>5, CounterOf
  <2>2. /\ n \in Nat /\ c \in sharers /\ IsFiniteSet(sharers)
        /\ Cardinality(sharers \ {c}) = Cardinality(sharers) - 1
    BY ONLY <2>1 DEF SoundCounter, sharers, n, r
  <2>3. n # 0 /\ IsFiniteSet(sharers \ {c})
    <3>1. sharers # {}
      BY <2>2
    <3>2. Cardinality(sharers) # 0
      BY ONLY <2>2, <3>1, FS_EmptySet
    <3> QED
      BY <1>1, <1>5, <2>2, <3>2, OneRemoved
  <2>4. CASE n = 1
    <3>1. g.released[p] = 1 /\ g.counter[r].freed = 1
      BY <1>1, <1>5, <2>4 DEF Dropped
    <3>2. Cardinality(sharers \ {c}) = 0
      BY <1>1, <1>5, <2>2, <2>4
    <3>3. sharers \ {c} = {}
      BY ONLY <2>3, <3>2, FS_EmptySet
    <3> QED
      BY <1>1, <1>3, <1>5, <3>1, <3>3 DEF DroppedHolder
  <2>5. CASE n > 1
    <3>1. /\ g.released[p] = 0 /\ g.counter[r].freed = 0
          /\ g.counter[r].count = n - 1
      BY <1>1, <1>5, <2>5 DEF Dropped
    <3>2. n - 1 = Cardinality(sharers \ {c})
      BY <1>1, <1>5, <2>2
    <3>3. g.counter[r].count = Cardinality(Share(g, M, r))
      BY ONLY <1>3, <3>1, <3>2
    <3>4. Hold(g, M, p) = Share(g, M, r)
      BY ONLY <1>1, <1>3, <1>5
    <3> HIDE DEF M, n, sharers
    <3> QED
      BY <1>5, <3>1, <3>3, <3>4 DEF DroppedHolder, M
  <2> QED
    BY <2>2, <2>3, <2>4, <2>5
<1> QED
  BY <1>4, <1>5

LEMMA DropExact ==
  ASSUME NEW h, NEW L, NEW S, NEW e, HeapInv(h, L, S, e), NEW c \in L,
         Uncounted(h, c, e), NEW g, Dropped(h, g, c),
         NEW k \in (1 .. Len(h.released)) \ S
  PROVE  PayloadExact(g, L \ {c}, k, e)
<1> DEFINE r == h.cell[c].refs
           p == h.cell[c].payload
           M == L \ {c}
<1>1. /\ OtherCells(h, g, c) /\ OtherCounters(h, g, r) /\ OtherPayloads(h, g, p)
      /\ Shape(h, L) /\ SoundHeap(h) /\ L \subseteq Cells
  BY InvHeap DEF Dropped
<1>2. PayloadExact(h, L, k, e)
  BY DEF HeapInv
<1>3. CASE k # p
  <2>1. g.released[k] = h.released[k] /\ Hold(g, M, k) = Hold(h, L, k)
    <3>1. g.released[k] = h.released[k]
      BY <1>1, <1>3 DEF OtherPayloads
    <3> QED
      BY ONLY <1>1, <1>3, <3>1, OthersHold DEF M, p
  <2>2. \A d \in Hold(h, L, k) :
          /\ d \in L /\ g.cell[d] = h.cell[d]
          /\ h.cell[d].refs # 0 => h.cell[d].refs # r
    <3> TAKE d \in Hold(h, L, k)
    <3>1. d \in L /\ d \in Cells /\ h.cell[d].payload = k /\ d # c
      BY <1>1, <1>3 DEF Hold
    <3>2. g.cell[d] = h.cell[d]
      BY <1>1, <3>1 DEF OtherCells
    <3>3. h.cell[d].refs # 0 => h.cell[d].refs # r
      BY <1>1, <1>3, <3>1 DEF Shape, OnePayload
    <3> QED
      BY <3>1, <3>2, <3>3
  <2>3. \A d \in Hold(h, L, k) : h.cell[d].refs # 0 =>
          /\ g.counter[h.cell[d].refs] = h.counter[h.cell[d].refs]
          /\ Share(g, M, h.cell[d].refs) = Share(h, L, h.cell[d].refs)
    <3> SUFFICES ASSUME NEW d \in Hold(h, L, k), NEW s, s = h.cell[d].refs, s # 0
                 PROVE  /\ g.counter[s] = h.counter[s]
                        /\ Share(g, M, s) = Share(h, L, s)
      OBVIOUS
    <3>1. s # r /\ s \in 1 .. Len(h.counter)
      BY <2>2, InvCells, InvHeap
    <3>2. g.counter[s] = h.counter[s]
      BY <1>1, <3>1 DEF OtherCounters
    <3> QED
      BY ONLY <1>1, <3>1, <3>2, OthersShare DEF M, r
  <2>4. OneCounter(g, M, k)
    BY ONLY <1>2, <2>1, <2>2 DEF PayloadExact, OneCounter
  <2>5. ReleasedOnce(g, M, k)
    BY ONLY <1>2, <2>1 DEF PayloadExact, ReleasedOnce
  <2>6. \A d \in Hold(g, M, k) : ExactCount(g, M, g.cell[d].refs, e)
    <3> SUFFICES ASSUME NEW d \in Hold(h, L, k) PROVE ExactCount(g, M, g.cell[d].refs, e)
      BY <2>1
    <3> DEFINE s == h.cell[d].refs
    <3>1. ExactCount(h, L, s, e) /\ g.cell[d].refs = s
      BY <1>2, <2>2 DEF PayloadExact
    <3>2. s # 0 => g.counter[s] = h.counter[s] /\ Share(g, M, s) = Share(h, L, s)
      BY <2>3
    <3> HIDE DEF s, M
    <3> QED
      BY ONLY <3>1, <3>2 DEF ExactCount
  <2> QED
    BY ONLY <2>4, <2>5, <2>6 DEF PayloadExact, M
<1>4. CASE k = p
  <2>1. DroppedHolder(h, g, L, c, k)
    BY <1>4, InvHeap, DropHolder
  <2>2. CASE g.released[k] = 1 /\ Hold(g, M, k) = {}
    <3>1. ReleasedOnce(g, M, k)
      <4>1. g.released[k] <= 1
        BY ONLY <2>2
      <4> QED
        BY <2>2, <4>1, Zenon DEF ReleasedOnce
    <3> QED
      BY ONLY <2>2, <3>1 DEF PayloadExact, OneCounter, M
  <2>3. CASE /\ g.released[k] = 0 /\ r # 0
             /\ Hold(g, M, k) = Share(g, M, r)
             /\ g.counter[r].freed = 0
             /\ g.counter[r].count = Cardinality(Share(g, M, r))
    <3>1. \A d \in Hold(g, M, k) : g.cell[d].refs = r
      BY ONLY <2>3 DEF Share
    <3>2. Extra(r, e) = 0 /\ Cardinality(Share(g, M, r)) \in Nat
      <4>1. SoundCounter(h, L, c, e)
        BY <2>3, CounterOf
      <4>2. /\ Extra(r, e) = 0 /\ c \in Share(h, L, r)
            /\ IsFiniteSet(Share(h, L, r))
        BY ONLY <4>1 DEF SoundCounter, r
      <4>3. Share(g, M, r) = Share(h, L, r) \ {c}
        BY ONLY <1>1, SharesWithout DEF M
      <4> QED
        BY ONLY <4>2, <4>3, OneRemoved
    <3>3. g.counter[r].count = Cardinality(Share(g, M, r)) + Extra(r, e)
      BY ONLY <2>3, <3>2
    <3>4. ExactCount(g, M, r, e)
      BY ONLY <2>3, <3>3 DEF ExactCount
    <3>5. OneCounter(g, M, k)
      BY ONLY <2>3, <3>1 DEF OneCounter
    <3>6. ReleasedOnce(g, M, k)
      BY ONLY <2>3 DEF ReleasedOnce
    <3> QED
      BY ONLY <3>1, <3>4, <3>5, <3>6 DEF PayloadExact, M
  <2> QED
    BY ONLY <2>1, <2>2, <2>3 DEF DroppedHolder, M, r
<1> QED
  BY <1>3, <1>4

LEMMA DropSound ==
  ASSUME NEW h, NEW L, NEW S, NEW e, HeapInv(h, L, S, e), NEW c \in L,
         Uncounted(h, c, e), NEW g, Dropped(h, g, c), S = {}
  PROVE  /\ g.fault = FALSE
         /\ \A k \in 1 .. Len(h.counter) : CounterExact(g, L \ {c}, k)
<1> DEFINE r == h.cell[c].refs
           p == h.cell[c].payload
           M == L \ {c}
<1>1. /\ h.fault = FALSE
      /\ \A k \in 1 .. Len(h.counter) : CounterExact(h, L, k)
  BY DEF HeapInv
<1>2. OtherCells(h, g, c) /\ OtherCounters(h, g, r) /\ Shape(h, L)
  BY InvHeap DEF Dropped
<1>3. r # 0 => p # 0
  BY InvCells
<1>4. g.fault = FALSE
  <2>1. CASE r = 0
    BY <1>1, <2>1 DEF Dropped
  <2>2. CASE r # 0
    <3>1. h.counter[r].freed = 0
      BY <1>3, <2>2, ExactHolder
    <3> QED
      BY <1>1, <2>2, <3>1 DEF Dropped
  <2> QED
    BY <2>1, <2>2
<1>5. ASSUME NEW k \in 1 .. Len(h.counter) PROVE CounterExact(g, M, k)
  <2>1. CASE k # r
    <3>1. g.counter[k] = h.counter[k]
      BY <1>2, <2>1 DEF OtherCounters
    <3>2. Share(g, M, k) = Share(h, L, k)
      BY ONLY <1>2, <2>1, OthersShare DEF M, r
    <3>3. CounterExact(h, L, k)
      BY <1>1
    <3> QED
      BY ONLY <3>1, <3>2, <3>3 DEF CounterExact
  <2>2. CASE k = r
    <3>1. r # 0
      BY <2>2, InvHeap
    <3>2. DroppedHolder(h, g, L, c, p)
      BY <1>3, <3>1, DropHolder
    <3>3. \/ g.counter[k].freed = 1 /\ Share(g, M, k) = {}
          \/ g.counter[k].freed = 0
      BY ONLY <2>2, <3>1, <3>2 DEF DroppedHolder, M, r
    <3>4. g.counter[k].freed <= 1
      BY ONLY <3>3
    <3>5. g.counter[k].freed = 1 => Share(g, M, k) = {}
      <4>1. 0 # 1
        OBVIOUS
      <4> QED
        BY ONLY <3>3, <4>1, Zenon
    <3> QED
      BY <3>4, <3>5 DEF CounterExact, M
  <2> QED
    BY <2>1, <2>2
<1> QED
  BY <1>4, <1>5

(* A struct in use lets go what it holds.                                  *)
LEMMA UnrefKeeps ==
  ASSUME NEW h, NEW L, NEW S, NEW e, HeapInv(h, L, S, e), NEW c \in L,
         Uncounted(h, c, e)
  PROVE  HeapInv(Unref(h, c), L \ {c}, S, e)
<1> DEFINE g == Unref(h, c)
<1>1. Dropped(h, g, c)
  BY InvHeap, UnrefIs
<1> HIDE DEF g
<1>2. SameSizes(h, g)
  BY <1>1 DEF Dropped
<1>3. Shape(g, L \ {c})
  BY <1>1, DropShape
<1>4. \A k \in 1 .. Len(h.counter) : CounterKept(g, L \ {c}, k, e)
  BY <1>1, DropCounter
<1>5. \A k \in 1 .. Len(h.released) : PayloadKept(g, L \ {c}, k)
  BY <1>1, DropPayload
<1>6. \A k \in (1 .. Len(h.released)) \ S : PayloadExact(g, L \ {c}, k, e)
  BY <1>1, DropExact
<1>7. S = {} => /\ g.fault = FALSE
                /\ \A k \in 1 .. Len(h.counter) : CounterExact(g, L \ {c}, k)
  BY <1>1, DropSound
<1> QED
  BY <1>2, <1>3, <1>4, <1>5, <1>6, <1>7 DEF HeapInv, SameSizes, g

-----------------------------------------------------------------------------
(* A struct that is not in use is filled.                                  *)
Placed(h, g, c, v) ==
  /\ g \in Heap /\ OtherCells(h, g, c) /\ g.cell[c] = v
  /\ g.counter = h.counter /\ g.released = h.released /\ g.fault = h.fault

LEMMA PlaceIs ==
  ASSUME NEW h \in Heap, NEW c \in Cells, NEW v \in Cell
  PROVE  Placed(h, [h EXCEPT !.cell[c] = v], c, v)
<1> DEFINE cell == [h.cell EXCEPT ![c] = v]
           g == [h EXCEPT !.cell[c] = v]
<1>1. h.cell \in [Cells -> Cell]
  BY HeapParts
<1>2. /\ cell \in [Cells -> Cell] /\ cell[c] = v
      /\ \A d \in Cells : d # c => cell[d] = h.cell[d]
  BY <1>1
<1>3. g = [h EXCEPT !.cell = cell]
  BY DEF Heap
<1> HIDE DEF cell
<1>4. /\ g \in Heap /\ g.cell = cell /\ g.counter = h.counter
      /\ g.released = h.released /\ g.fault = h.fault
  BY <1>2, <1>3 DEF Heap
<1> HIDE DEF g
<1>5. Placed(h, g, c, v)
  BY ONLY <1>2, <1>4 DEF Placed, OtherCells
<1> QED
  BY <1>5 DEF g

LEMMA CopyPlaces ==
  ASSUME NEW h \in Heap, NEW c \in Cells, NEW d \in Cells
  PROVE  Placed(h, Copy(h, c, d), c, h.cell[d])
<1>1. h.cell[d] \in Cell
  BY HeapParts
<1> QED
  BY <1>1, PlaceIs DEF Copy

Joins(S, T, c) == T = S \cup {c}

LEMMA SharesWith ==
  ASSUME NEW h, NEW g, NEW L, Shape(h, L), NEW c, c \notin L, NEW v,
         Placed(h, g, c, v)
  PROVE  Joins(Share(h, L, v.refs), Share(g, L \cup {c}, v.refs), c)
<1>1. \A d \in L : g.cell[d] = h.cell[d]
  BY DEF Shape, Placed, OtherCells
<1>2. g.cell[c] = v
  BY DEF Placed
<1> QED
  BY <1>1, <1>2 DEF Joins, Share

LEMMA SharesStill ==
  ASSUME NEW h, NEW g, NEW L, Shape(h, L), NEW c, c \notin L, NEW v,
         Placed(h, g, c, v), NEW r, v.refs # r
  PROVE  Share(g, L \cup {c}, r) = Share(h, L, r)
<1>1. \A d \in L : g.cell[d] = h.cell[d]
  BY DEF Shape, Placed, OtherCells
<1>2. g.cell[c] = v
  BY DEF Placed
<1> QED
  BY <1>1, <1>2 DEF Share

LEMMA HoldWith ==
  ASSUME NEW h, NEW g, NEW L, Shape(h, L), NEW c, c \notin L, NEW v,
         Placed(h, g, c, v)
  PROVE  Joins(Hold(h, L, v.payload), Hold(g, L \cup {c}, v.payload), c)
<1>1. \A d \in L : g.cell[d] = h.cell[d]
  BY DEF Shape, Placed, OtherCells
<1>2. g.cell[c] = v
  BY DEF Placed
<1> QED
  BY <1>1, <1>2 DEF Joins, Hold

LEMMA HoldStill ==
  ASSUME NEW h, NEW g, NEW L, Shape(h, L), NEW c, c \notin L, NEW v,
         Placed(h, g, c, v), NEW r, v.payload # r
  PROVE  Hold(g, L \cup {c}, r) = Hold(h, L, r)
<1>1. \A d \in L : g.cell[d] = h.cell[d]
  BY DEF Shape, Placed, OtherCells
<1>2. g.cell[c] = v
  BY DEF Placed
<1> QED
  BY <1>1, <1>2 DEF Hold

LEMMA OneMore ==
  ASSUME NEW S, IsFiniteSet(S), NEW x, x \notin S
  PROVE  /\ IsFiniteSet(S \cup {x})
         /\ Cardinality(S) \in Nat
         /\ Cardinality(S \cup {x}) = Cardinality(S) + 1
BY FS_AddElement, FS_CardinalityType

(* The struct that is filled fits the others.                              *)
Fits(h, L, v) ==
  /\ v \in Cell
  /\ v.refs \in 0 .. Len(h.counter) /\ v.payload \in 0 .. Len(h.released)
  /\ Formed(v)
  /\ \A d \in L : OnePayload(h.cell[d], v)

LEMMA PlaceShape ==
  ASSUME NEW h, NEW L, Shape(h, L), NEW c \in Cells, c \notin L,
         NEW v, Fits(h, L, v), NEW g, Placed(h, g, c, v)
  PROVE  Shape(g, L \cup {c})
<1> DEFINE M == L \cup {c}
<1>1. /\ SoundHeap(h) /\ L \subseteq Cells /\ IsFiniteSet(L)
  BY DEF Shape
<1>2. \A d \in Cells : d # c => g.cell[d] = h.cell[d]
  BY DEF Placed, OtherCells
<1>3. g.cell[c] = v /\ g.counter = h.counter /\ g.released = h.released /\ g \in Heap
  BY DEF Placed
<1>4. SoundHeap(g)
  <2>1. \A d \in Cells : /\ g.cell[d].refs \in 0 .. Len(h.counter)
                         /\ g.cell[d].payload \in 0 .. Len(h.released)
    BY <1>1, <1>2, <1>3 DEF SoundHeap, Fits
  <2> QED
    BY <1>3, <2>1 DEF SoundHeap
<1>5. M \subseteq Cells /\ IsFiniteSet(M)
  BY <1>1, OneMore
<1>6. \A d \in M : \/ d \in L /\ g.cell[d] = h.cell[d]
                   \/ d = c /\ g.cell[d] = v
  <2>1. \A d \in L : d # c /\ d \in Cells
    BY <1>1
  <2>2. \A d \in L : g.cell[d] = h.cell[d]
    BY ONLY <1>2, <2>1
  <2>3. \A d \in M : d \in L \/ d = c
    OBVIOUS
  <2> HIDE DEF M
  <2> TAKE d \in M
  <2>4. CASE d \in L
    BY <2>2, <2>4
  <2>5. CASE d = c
    BY <1>3, <2>5
  <2> QED
    BY <2>3, <2>4, <2>5
<1> HIDE DEF M
<1>7. \A d \in M : Formed(g.cell[d])
  BY <1>6 DEF Shape, Fits
<1>8. \A d, b \in M : OnePayload(g.cell[d], g.cell[b])
  <2>1. \A d, b \in L : OnePayload(h.cell[d], h.cell[b])
    BY DEF Shape
  <2>2. \A d \in L : OnePayload(h.cell[d], v) /\ OnePayload(v, h.cell[d])
    BY DEF Fits, OnePayload
  <2>3. OnePayload(v, v)
    BY DEF OnePayload
  <2> QED
    BY ONLY <1>6, <2>1, <2>2, <2>3
<1>9. Shape(g, M)
  BY ONLY <1>4, <1>5, <1>7, <1>8 DEF Shape
<1> QED
  BY <1>9 DEF M

(* A counter, or a payload, that a step does not concern.                  *)
SameCounter(h, g, L, M, r, e, f) ==
  /\ g.counter[r] = h.counter[r] /\ Extra(r, f) = Extra(r, e)
  /\ Share(g, M, r) = Share(h, L, r)
  /\ \A d \in Share(h, L, r) :
       /\ g.cell[d].payload = h.cell[d].payload
       /\ g.released[h.cell[d].payload] = h.released[h.cell[d].payload]

SamePayload(h, g, L, M, p) ==
  /\ g.released[p] = h.released[p]
  /\ Hold(g, M, p) = Hold(h, L, p)
  /\ \A d \in Hold(h, L, p) : g.cell[d] = h.cell[d]

LEMMA SameCounterKept ==
  ASSUME NEW h, NEW g, NEW L, NEW M, NEW r, NEW e, NEW f,
         SameCounter(h, g, L, M, r, e, f), CounterKept(h, L, r, e)
  PROVE  CounterKept(g, M, r, f)
<1>1. g.counter[r].freed = 0 =>
        /\ g.counter[r].count >= 1
        /\ g.counter[r].count <= Cardinality(Share(g, M, r)) + Extra(r, f)
  BY DEF SameCounter, CounterKept
<1>2. g.counter[r].freed # 0 =>
        \A d \in Share(g, M, r) : g.released[g.cell[d].payload] > 0
  BY DEF SameCounter, CounterKept
<1> QED
  BY ONLY <1>1, <1>2 DEF CounterKept

LEMMA SameCounterExact ==
  ASSUME NEW h, NEW g, NEW L, NEW M, NEW r, NEW e, NEW f,
         SameCounter(h, g, L, M, r, e, f)
  PROVE  /\ CounterExact(h, L, r) => CounterExact(g, M, r)
         /\ ExactCount(h, L, r, e) => ExactCount(g, M, r, f)
BY DEF SameCounter, CounterExact, ExactCount

LEMMA SamePayloadExact ==
  ASSUME NEW h, NEW g, NEW L, NEW M, NEW p, NEW e, NEW f,
         SamePayload(h, g, L, M, p), PayloadExact(h, L, p, e),
         \A d \in Hold(h, L, p) :
           h.cell[d].refs # 0 => SameCounter(h, g, L, M, h.cell[d].refs, e, f)
  PROVE  PayloadExact(g, M, p, f)
<1>1. ReleasedOnce(g, M, p)
  BY DEF SamePayload, PayloadExact, ReleasedOnce
<1>2. OneCounter(g, M, p)
  BY DEF SamePayload, PayloadExact, OneCounter
<1>3. \A d \in Hold(g, M, p) : ExactCount(g, M, g.cell[d].refs, f)
  <2> SUFFICES ASSUME NEW d \in Hold(h, L, p) PROVE ExactCount(g, M, g.cell[d].refs, f)
    BY DEF SamePayload
  <2> DEFINE r == h.cell[d].refs
  <2>1. ExactCount(h, L, r, e) /\ g.cell[d].refs = r
    BY DEF SamePayload, PayloadExact
  <2>2. CASE r = 0
    BY <2>1, <2>2 DEF ExactCount
  <2>3. CASE r # 0
    BY <2>1, <2>3, SameCounterExact
  <2> QED
    BY <2>2, <2>3
<1> QED
  BY <1>1, <1>2, <1>3 DEF PayloadExact

LEMMA SamePayloadKept ==
  ASSUME NEW h, NEW g, NEW L, NEW M, NEW p,
         SamePayload(h, g, L, M, p), PayloadKept(h, L, p)
  PROVE  PayloadKept(g, M, p)
BY DEF SamePayload, PayloadKept

(* Who is counted in advance matters to that counter only.                 *)
LEMMA ExtraOfOther == ASSUME NEW r, NEW e, r # e PROVE Extra(r, e) = 0
BY DEF Extra

(* A struct is filled with plain data, or with the copy of a value that    *)
(* has no counter and whose payload is in S.                               *)
LEMMA PlaceKeeps ==
  ASSUME NEW h, NEW L, NEW S, NEW e, HeapInv(h, L, S, e),
         NEW c \in Cells, c \notin L, NEW v, Fits(h, L, v), v.refs = 0,
         v.payload = 0 \/ v.payload \in S, NEW g, Placed(h, g, c, v)
  PROVE  HeapInv(g, L \cup {c}, S, e)
<1> DEFINE M == L \cup {c}
<1>1. Shape(h, L) /\ L \subseteq Cells /\ SoundHeap(h)
  BY InvHeap
<1>2. /\ g.counter = h.counter /\ g.released = h.released /\ g.fault = h.fault
      /\ \A d \in L : g.cell[d] = h.cell[d]
  <2>1. \A d \in L : d \in Cells /\ d # c
    BY <1>1
  <2> QED
    BY <2>1 DEF Placed, OtherCells
<1>3. Shape(g, M)
  BY <1>1, PlaceShape
<1>4. ASSUME NEW r \in 1 .. Len(h.counter) PROVE SameCounter(h, g, L, M, r, e, e)
  <2>1. v.refs # r
    BY InvHeap
  <2>2. Share(g, M, r) = Share(h, L, r)
    BY ONLY <1>1, <2>1, SharesStill, c \notin L, Placed(h, g, c, v) DEF M
  <2>3. Share(h, L, r) \subseteq L
    BY DEF Share
  <2> QED
    BY <1>2, <2>2, <2>3 DEF SameCounter
<1>5. ASSUME NEW p \in 1 .. Len(h.released), p # v.payload
      PROVE  SamePayload(h, g, L, M, p)
  <2>1. Hold(g, M, p) = Hold(h, L, p)
    BY ONLY <1>1, <1>5, HoldStill, c \notin L, Placed(h, g, c, v) DEF M
  <2>2. Hold(h, L, p) \subseteq L
    BY DEF Hold
  <2> QED
    BY <1>2, <2>1, <2>2 DEF SamePayload
<1> HIDE DEF M
<1>6. \A r \in 1 .. Len(h.counter) : CounterKept(g, M, r, e)
  BY <1>4, SameCounterKept DEF HeapInv
<1>7. ASSUME NEW p \in 1 .. Len(h.released) PROVE PayloadKept(g, M, p)
  <2>1. PayloadKept(h, L, p)
    BY DEF HeapInv
  <2>2. CASE p # v.payload
    BY <1>5, <2>1, <2>2, SamePayloadKept
  <2>3. CASE p = v.payload
    <3>1. c \in Hold(g, M, p)
      BY <2>3 DEF Hold, Placed, M
    <3> QED
      BY <3>1 DEF PayloadKept
  <2> QED
    BY <2>2, <2>3
<1>8. ASSUME NEW p \in (1 .. Len(h.released)) \ S PROVE PayloadExact(g, M, p, e)
  <2>1. p # v.payload
    BY InvHeap
  <2>2. SamePayload(h, g, L, M, p) /\ PayloadExact(h, L, p, e)
    BY <1>5, <2>1 DEF HeapInv
  <2>3. \A d \in Hold(h, L, p) :
          h.cell[d].refs # 0 => SameCounter(h, g, L, M, h.cell[d].refs, e, e)
    <3> SUFFICES ASSUME NEW d \in L, h.cell[d].refs # 0
                 PROVE  SameCounter(h, g, L, M, h.cell[d].refs, e, e)
      BY DEF Hold
    <3>1. h.cell[d].refs \in 1 .. Len(h.counter)
      BY InvCells, InvHeap
    <3> QED
      BY <1>4, <3>1
  <2> QED
    BY ONLY <2>2, <2>3, SamePayloadExact
<1>9. S = {} => /\ g.fault = FALSE
                /\ \A r \in 1 .. Len(h.counter) : CounterExact(g, M, r)
  BY <1>2, <1>4, SameCounterExact DEF HeapInv
<1>10. HeapInv(g, M, S, e)
  BY <1>2, <1>3, <1>6, <1>7, <1>8, <1>9 DEF HeapInv
<1> QED
  BY <1>10 DEF M

LEMMA Weaken ==
  ASSUME NEW h, NEW L, NEW S, NEW e, HeapInv(h, L, S, e), NEW T
  PROVE  HeapInv(h, L, S \cup T, e)
BY DEF HeapInv

(* A struct becomes one more sharer of the counter r of d: the counter     *)
(* counts it now (n = 1), or has counted it in advance (n = 0).            *)
LEMMA SameShape ==
  ASSUME NEW h, NEW L, Shape(h, L), NEW g \in Heap, SameSizes(h, g), g.cell = h.cell
  PROVE  Shape(g, L)
BY DEF Shape, SoundHeap, SameSizes

Joined(h, g, c, d, n) ==
  LET r == h.cell[d].refs
  IN  /\ g \in Heap /\ SameSizes(h, g)
      /\ OtherCells(h, g, c) /\ g.cell[c] = h.cell[d]
      /\ OtherCounters(h, g, r)
      /\ g.counter[r].freed = h.counter[r].freed
      /\ g.counter[r].count = h.counter[r].count + n
      /\ g.released = h.released
      /\ h.counter[r].freed = 0 => g.fault = h.fault

(* n is what the counter of d lacks.                                       *)
Counted(h, d, e, n) ==
  \/ e = 0 /\ n = 1
  \/ e = h.cell[d].refs /\ n = 0

Grown(h, g, L, c, v) ==
  LET M == L \cup {c}
  IN  /\ Shape(g, M)
      /\ \A x \in L : g.cell[x] = h.cell[x]
      /\ g.cell[c] = v
      /\ Joins(Share(h, L, v.refs), Share(g, M, v.refs), c)
      /\ \A r : r # v.refs => Share(g, M, r) = Share(h, L, r)
      /\ Joins(Hold(h, L, v.payload), Hold(g, M, v.payload), c)
      /\ \A p : p # v.payload => Hold(g, M, p) = Hold(h, L, p)

LEMMA JoinShape ==
  ASSUME NEW h, NEW L, Shape(h, L), NEW d \in L, NEW c \in Cells, c \notin L,
         NEW g, NEW n, Joined(h, g, c, d, n)
  PROVE  Grown(h, g, L, c, h.cell[d])
<1> DEFINE k == Copy(h, c, d)
           v == h.cell[d]
           M == L \cup {c}
<1>1. /\ h \in Heap /\ L \subseteq Cells /\ d \in Cells /\ SoundHeap(h)
  BY DEF Shape, SoundHeap
<1>2. Placed(h, k, c, v)
  BY <1>1, CopyPlaces
<1>3. Fits(h, L, v)
  <2>1. v \in Cell
    BY <1>1, HeapParts
  <2>2. v.refs \in 0 .. Len(h.counter) /\ v.payload \in 0 .. Len(h.released)
    BY <1>1 DEF SoundHeap
  <2>3. Formed(v) /\ \A x \in L : OnePayload(h.cell[x], v)
    BY DEF Shape
  <2> QED
    BY <2>1, <2>2, <2>3 DEF Fits
<1> HIDE DEF k, v
<1>4. Shape(k, M)
  BY <1>2, <1>3, PlaceShape
<1>5. k.cell = g.cell
  <2>1. k \in Heap /\ g \in Heap
    BY <1>2 DEF Placed, Joined
  <2>2. k.cell \in [Cells -> Cell] /\ g.cell \in [Cells -> Cell]
    BY <2>1, HeapParts
  <2>3. \A x \in Cells : k.cell[x] = g.cell[x]
    BY <1>2 DEF Placed, Joined, OtherCells, v
  <2> QED
    BY ONLY <2>2, <2>3
<1>6. g \in Heap /\ SameSizes(k, g)
  BY <1>2 DEF Placed, Joined, SameSizes
<1>7. Shape(g, M)
  BY ONLY <1>4, <1>5, <1>6, SameShape
<1>8. (\A x \in L : g.cell[x] = h.cell[x]) /\ g.cell[c] = v
  BY <1>1 DEF Joined, OtherCells, v
<1>9. \A r : Share(g, M, r) = Share(k, M, r)
  BY <1>5 DEF Share
<1>10. \A p : Hold(g, M, p) = Hold(k, M, p)
  BY <1>5 DEF Hold
<1>11. Joins(Share(h, L, v.refs), Share(g, M, v.refs), c)
  <2>1. Joins(Share(h, L, v.refs), Share(k, M, v.refs), c)
    BY ONLY <1>2, SharesWith, Shape(h, L), c \notin L DEF M
  <2> QED
    BY <1>9, <2>1
<1>12. ASSUME NEW r, r # v.refs PROVE Share(g, M, r) = Share(h, L, r)
  <2>1. Share(k, M, r) = Share(h, L, r)
    BY ONLY <1>2, <1>12, SharesStill, Shape(h, L), c \notin L DEF M
  <2> QED
    BY <1>9, <2>1
<1>13. Joins(Hold(h, L, v.payload), Hold(g, M, v.payload), c)
  <2>1. Joins(Hold(h, L, v.payload), Hold(k, M, v.payload), c)
    BY ONLY <1>2, HoldWith, Shape(h, L), c \notin L DEF M
  <2> QED
    BY <1>10, <2>1
<1>14. ASSUME NEW p, p # v.payload PROVE Hold(g, M, p) = Hold(h, L, p)
  <2>1. Hold(k, M, p) = Hold(h, L, p)
    BY ONLY <1>2, <1>14, HoldStill, Shape(h, L), c \notin L DEF M
  <2> QED
    BY <1>10, <2>1
<1>15. Grown(h, g, L, c, v)
  BY ONLY <1>7, <1>8, <1>11, <1>12, <1>13, <1>14 DEF Grown, M
<1> QED
  BY <1>15 DEF v

LEMMA JoinKeeps ==
  ASSUME NEW h, NEW L, NEW S, NEW e, HeapInv(h, L, S, e),
         NEW d \in L, h.cell[d].refs # 0, NEW c \in Cells, c \notin L,
         NEW n, Counted(h, d, e, n), NEW g, Joined(h, g, c, d, n)
  PROVE  HeapInv(g, L \cup {c}, S, 0)
<1> DEFINE v == h.cell[d]
           r == v.refs
           p == v.payload
           M == L \cup {c}
<1>1. Shape(h, L) /\ L \subseteq Cells /\ SoundHeap(h) /\ IsFiniteSet(L)
  BY InvHeap
<1>2. /\ r \in 1 .. Len(h.counter) /\ p \in 1 .. Len(h.released)
      /\ h.counter[r].count \in Nat /\ h.counter[r].freed \in Nat
      /\ d \in Share(h, L, r) /\ d \in Hold(h, L, p)
  BY InvCells, InvHeap, InvNumbers DEF Share, Hold
<1>3. Grown(h, g, L, c, v)
  BY ONLY <1>1, JoinShape, d \in L, c \in Cells, c \notin L, Joined(h, g, c, d, n) DEF v
<1>4. /\ SameSizes(h, g) /\ OtherCounters(h, g, r) /\ g.released = h.released
      /\ g.counter[r].freed = h.counter[r].freed
      /\ g.counter[r].count = h.counter[r].count + n
      /\ h.counter[r].freed = 0 => g.fault = h.fault
  BY DEF Joined
<1>5. /\ Extra(r, 0) = 0
      /\ (Extra(r, e) = 0 /\ n = 1) \/ (Extra(r, e) = 1 /\ n = 0)
      /\ \A s \in 1 .. Len(h.counter) : s # r => Extra(s, e) = Extra(s, 0)
  BY <1>2, InvHeap DEF Counted, Extra
<1>6. /\ Shape(g, M) /\ g.cell[c] = v
      /\ \A x \in L : g.cell[x] = h.cell[x]
      /\ Share(g, M, r) = Share(h, L, r) \cup {c}
      /\ Hold(g, M, p) = Hold(h, L, p) \cup {c}
  BY <1>3 DEF Grown, Joins
<1>7. /\ Cardinality(Share(h, L, r)) \in Nat
      /\ Cardinality(Share(g, M, r)) = Cardinality(Share(h, L, r)) + 1
  <2>1. IsFiniteSet(Share(h, L, r))
    BY <1>1, SharesFinite
  <2>2. c \notin Share(h, L, r)
    BY DEF Share
  <2> QED
    BY ONLY <1>6, <2>1, <2>2, OneMore
<1>8. ASSUME NEW s \in 1 .. Len(h.counter), s # r
      PROVE  SameCounter(h, g, L, M, s, e, 0)
  <2>1. Share(g, M, s) = Share(h, L, s) /\ Share(h, L, s) \subseteq L
    BY <1>3, <1>8 DEF Grown, Share
  <2>2. g.counter[s] = h.counter[s] /\ Extra(s, 0) = Extra(s, e)
    BY <1>4, <1>5, <1>8 DEF OtherCounters
  <2>3. \A x \in Share(h, L, s) : g.cell[x] = h.cell[x]
    BY <1>6, <2>1
  <2> HIDE DEF M
  <2> QED
    BY ONLY <1>4, <2>1, <2>2, <2>3 DEF SameCounter
<1>9. ASSUME NEW s \in 1 .. Len(h.counter) PROVE CounterKept(g, M, s, 0)
  <2>1. CounterKept(h, L, s, e)
    BY DEF HeapInv
  <2>2. CASE s # r
    BY ONLY <1>8, <2>1, <2>2, SameCounterKept, s \in 1 .. Len(h.counter)
  <2>3. CASE s = r
    <3> DEFINE a == h.counter[r].count
               m == Cardinality(Share(h, L, r))
    <3>1. /\ h.counter[r].freed = 0 => a >= 1 /\ a <= m + Extra(r, e)
          /\ h.counter[r].freed # 0 =>
               \A x \in Share(h, L, r) : h.released[h.cell[x].payload] > 0
      BY <2>1, <2>3 DEF CounterKept
    <3>2. a \in Nat /\ m \in Nat
      BY <1>2, <1>7
    <3>3. g.counter[r].freed = 0 =>
            /\ g.counter[r].count >= 1
            /\ g.counter[r].count <= Cardinality(Share(g, M, r)) + Extra(r, 0)
      <4>1. g.counter[r].count = a + n /\ g.counter[r].freed = h.counter[r].freed
            /\ Cardinality(Share(g, M, r)) = m + 1
        BY <1>4, <1>7
      <4> HIDE DEF a, m
      <4> QED
        BY ONLY <1>5, <3>1, <3>2, <4>1
    <3>4. g.counter[r].freed # 0 =>
            \A x \in Share(g, M, r) : g.released[g.cell[x].payload] > 0
      <4> SUFFICES ASSUME g.counter[r].freed # 0, NEW x \in Share(g, M, r)
                   PROVE  g.released[g.cell[x].payload] > 0
        OBVIOUS
      <4>1. CASE x \in Share(h, L, r)
        <5>1. x \in L /\ h.released[h.cell[x].payload] > 0
          BY <1>4, <3>1, <4>1 DEF Share
        <5> QED
          BY <1>4, <1>6, <5>1
      <4>2. CASE x = c
        <5>1. h.released[p] > 0
          BY <1>2, <1>4, <3>1
        <5> QED
          BY <1>4, <1>6, <4>2, <5>1
      <4> QED
        BY <1>6, <4>1, <4>2
    <3> QED
      BY ONLY <2>3, <3>3, <3>4 DEF CounterKept
  <2> QED
    BY <2>2, <2>3
<1>10. ASSUME NEW q \in 1 .. Len(h.released), q # p
       PROVE  SamePayload(h, g, L, M, q)
  <2>1. Hold(g, M, q) = Hold(h, L, q) /\ Hold(h, L, q) \subseteq L
    BY <1>3, <1>10 DEF Grown, Hold
  <2> HIDE DEF M
  <2> QED
    BY ONLY <1>4, <1>6, <2>1 DEF SamePayload
<1>11. ASSUME NEW q \in 1 .. Len(h.released) PROVE PayloadKept(g, M, q)
  <2>1. PayloadKept(h, L, q)
    BY DEF HeapInv
  <2>2. CASE q # p
    BY ONLY <1>10, <2>1, <2>2, SamePayloadKept, q \in 1 .. Len(h.released)
  <2>3. CASE q = p
    <3>1. c \in Hold(g, M, p)
      BY <1>6
    <3> QED
      BY <2>3, <3>1 DEF PayloadKept
  <2> QED
    BY <2>2, <2>3
<1> HIDE DEF M
<1>12. ASSUME NEW q \in (1 .. Len(h.released)) \ S PROVE PayloadExact(g, M, q, 0)
  <2>1. PayloadExact(h, L, q, e)
    BY DEF HeapInv
  <2>2. CASE q # p
    <3>1. SamePayload(h, g, L, M, q)
      BY <1>10, <2>2
    <3>2. \A x \in Hold(h, L, q) :
            h.cell[x].refs # 0 => SameCounter(h, g, L, M, h.cell[x].refs, e, 0)
      <4> SUFFICES ASSUME NEW x \in Hold(h, L, q), h.cell[x].refs # 0
                   PROVE  SameCounter(h, g, L, M, h.cell[x].refs, e, 0)
        OBVIOUS
      <4>1. x \in L /\ h.cell[x].payload = q
        BY DEF Hold
      <4>2. h.cell[x].refs # r
        BY <1>1, <2>2, <4>1 DEF Shape, OnePayload
      <4>3. h.cell[x].refs \in 1 .. Len(h.counter)
        BY <4>1, InvCells, InvHeap
      <4> QED
        BY <1>8, <4>2, <4>3
    <3> QED
      BY ONLY <2>1, <3>1, <3>2, SamePayloadExact
  <2>3. CASE q = p
    <3>1. ReleasedOnce(g, M, p)
      <4>1. h.released[p] <= 1 /\ h.released[p] # 1
        BY <1>2, <2>1, <2>3 DEF PayloadExact, ReleasedOnce
      <4> QED
        BY <1>4, <4>1 DEF ReleasedOnce
    <3>2. \A x \in Hold(g, M, p) : g.cell[x].refs = r
      <4> TAKE x \in Hold(g, M, p)
      <4>1. CASE x = c
        BY <1>6, <4>1
      <4>2. CASE x \in Hold(h, L, p)
        <5>1. h.cell[x].refs = r
          BY <1>2, <2>1, <2>3, <4>2 DEF PayloadExact, OneCounter
        <5> QED
          BY <1>6, <4>2, <5>1 DEF Hold
      <4> QED
        BY <1>6, <4>1, <4>2
    <3>3. OneCounter(g, M, p)
      BY <1>2, <3>2 DEF OneCounter
    <3>4. ExactCount(g, M, r, 0)
      <4>1. h.counter[r].freed = 0
            /\ h.counter[r].count = Cardinality(Share(h, L, r)) + Extra(r, e)
        BY <1>2, <2>1, <2>3 DEF PayloadExact, ExactCount
      <4>2. g.counter[r].count = Cardinality(Share(g, M, r)) + Extra(r, 0)
        BY ONLY <1>4, <1>5, <1>7, <4>1
      <4> QED
        BY ONLY <1>4, <4>1, <4>2 DEF ExactCount
    <3> QED
      BY ONLY <2>3, <3>1, <3>2, <3>3, <3>4 DEF PayloadExact
  <2> QED
    BY <2>2, <2>3
<1>13. ASSUME S = {}
       PROVE  /\ g.fault = FALSE
              /\ \A s \in 1 .. Len(h.counter) : CounterExact(g, M, s)
  <2>1. h.fault = FALSE /\ \A s \in 1 .. Len(h.counter) : CounterExact(h, L, s)
    BY <1>13 DEF HeapInv
  <2>2. h.counter[r].freed = 0
    <3>1. PayloadExact(h, L, p, e)
      BY <1>2, <1>13 DEF HeapInv
    <3> QED
      BY <1>2, <3>1 DEF PayloadExact, ExactCount
  <2>3. g.fault = FALSE
    BY <1>4, <2>1, <2>2
  <2>4. ASSUME NEW s \in 1 .. Len(h.counter) PROVE CounterExact(g, M, s)
    <3>1. CASE s # r
      BY <1>8, <2>1, <3>1, SameCounterExact
    <3>2. CASE s = r
      <4>1. g.counter[s].freed = 0
        BY <1>4, <2>2, <3>2
      <4>2. g.counter[s].freed <= 1 /\ g.counter[s].freed # 1
        BY ONLY <4>1
      <4> QED
        BY ONLY <4>2 DEF CounterExact
    <3> QED
      BY <3>1, <3>2
  <2> QED
    BY <2>3, <2>4
<1>14. HeapInv(g, M, S, 0)
  <2>1. Shape(g, M)
    BY <1>6
  <2> QED
    BY ONLY <1>4, <1>9, <1>11, <1>12, <1>13, <2>1 DEF HeapInv, SameSizes
<1> QED
  BY <1>14 DEF M

(* g_new(gint): the struct d gets the counter Len(h.counter) + 1.          *)
Given(h, g, d, n) ==
  LET w == Len(h.counter) + 1
  IN  /\ g \in Heap /\ Len(g.counter) = w
      /\ \A s \in 1 .. Len(h.counter) : g.counter[s] = h.counter[s]
      /\ g.counter[w].count = n /\ g.counter[w].freed = 0
      /\ g.released = h.released /\ g.fault = h.fault
      /\ OtherCells(h, g, d)
      /\ g.cell[d].refs = w /\ g.cell[d].type = h.cell[d].type
      /\ g.cell[d].payload = h.cell[d].payload

LEMMA NewCounterIs ==
  ASSUME NEW h \in Heap, NEW d \in Cells, NEW n \in Nat
  PROVE  Given(h, NewCounter(h, d, n), d, n)
<1> DEFINE g == NewCounter(h, d, n)
           w == Len(h.counter) + 1
           one == [count |-> n, freed |-> 0]
           counter == Append(h.counter, one)
           cell == [h.cell EXCEPT ![d] = [h.cell[d] EXCEPT !.refs = w]]
<1>1. /\ h.counter \in Seq(Counter) /\ Len(h.counter) \in Nat /\ w \in Nat
      /\ h.cell \in [Cells -> Cell] /\ h.cell[d] \in Cell
  BY HeapParts
<1>2. one \in Counter /\ one.count = n /\ one.freed = 0
  BY DEF Counter
<1>3. /\ counter \in Seq(Counter) /\ Len(counter) = w /\ counter[w] = one
      /\ \A s \in 1 .. Len(h.counter) : counter[s] = h.counter[s]
  <2> HIDE DEF one
  <2> QED
    BY <1>1, <1>2, AppendProperties
<1>4. /\ cell \in [Cells -> Cell]
      /\ \A x \in Cells : x # d => cell[x] = h.cell[x]
      /\ cell[d].refs = w /\ cell[d].type = h.cell[d].type
      /\ cell[d].payload = h.cell[d].payload
  <2> HIDE DEF w
  <2> QED
    BY <1>1 DEF Cell
<1>5. g = [h EXCEPT !.counter = counter, !.cell = cell]
  BY DEF NewCounter, Heap
<1> HIDE DEF counter, cell
<1>6. /\ g \in Heap /\ g.cell = cell /\ g.counter = counter
      /\ g.released = h.released /\ g.fault = h.fault
  <2> HIDE DEF g
  <2> QED
    BY <1>3, <1>4, <1>5 DEF Heap
<1> HIDE DEF g, one
<1>7. Given(h, g, d, n)
  BY ONLY <1>2, <1>3, <1>4, <1>6 DEF Given, OtherCells, w
<1> QED
  BY <1>7 DEF g

LEMMA NewCounterKeeps ==
  ASSUME NEW h, NEW L, NEW S, HeapInv(h, L, S, 0),
         NEW d \in L, h.cell[d].refs = 0, h.cell[d].payload # 0,
         NEW e, e = 0 \/ e = Len(h.counter) + 1,
         NEW g, NEW n, n = 1 + Extra(Len(h.counter) + 1, e), Given(h, g, d, n)
  PROVE  HeapInv(g, L, S, e)
<1> DEFINE w == Len(h.counter) + 1
           p == h.cell[d].payload
<1>1. /\ Shape(h, L) /\ L \subseteq Cells /\ SoundHeap(h)
      /\ Len(h.counter) \in Nat /\ w \in Nat /\ w # 0 /\ w \notin 1 .. Len(h.counter)
      /\ d \in Cells /\ IsFiniteSet(L)
  BY InvHeap
<1>2. /\ g \in Heap /\ Len(g.counter) = w
      /\ \A s \in 1 .. Len(h.counter) : g.counter[s] = h.counter[s]
      /\ g.counter[w].count = n /\ g.counter[w].freed = 0
      /\ g.released = h.released /\ g.fault = h.fault
      /\ \A x \in Cells : x # d => g.cell[x] = h.cell[x]
      /\ g.cell[d].refs = w /\ g.cell[d].type = h.cell[d].type
      /\ g.cell[d].payload = p
  BY DEF Given, OtherCells
<1>3. /\ \A x \in L : x # d => g.cell[x] = h.cell[x]
      /\ \A x \in Cells : g.cell[x].payload = h.cell[x].payload
      /\ \A x \in L : g.cell[x].payload = h.cell[x].payload
  BY <1>1, <1>2
<1>4. \A x \in L : h.cell[x].refs # w /\ h.cell[x].refs \in 0 .. Len(h.counter)
  BY <1>1, InvCells
<1>5. Shape(g, L)
  <2>1. \A x \in Cells : g.cell[x].refs \in 0 .. w
    BY <1>1, <1>2 DEF SoundHeap
  <2>2. SoundHeap(g)
    BY <1>1, <1>2, <1>3, <2>1 DEF SoundHeap
  <2>3. Formed(g.cell[d])
    BY <1>1, <1>2 DEF Shape, Formed
  <2>4. \A x \in L : Formed(g.cell[x])
    BY <1>1, <1>3, <2>3 DEF Shape
  <2>5. ASSUME NEW x \in L, NEW y \in L PROVE OnePayload(g.cell[x], g.cell[y])
    <3>1. CASE x # d /\ y # d
      BY <1>1, <1>3, <3>1 DEF Shape
    <3>2. CASE x = d /\ y # d
      BY <1>2, <1>3, <1>4, <3>2 DEF OnePayload
    <3>3. CASE x # d /\ y = d
      BY <1>2, <1>3, <1>4, <3>3 DEF OnePayload
    <3>4. CASE x = d /\ y = d
      BY <3>4 DEF OnePayload
    <3> QED
      BY <3>1, <3>2, <3>3, <3>4
  <2> QED
    BY ONLY <1>1, <2>2, <2>4, <2>5 DEF Shape
<1>6. Share(g, L, w) = {d}
  BY <1>2, <1>3, <1>4 DEF Share
<1>7. \A q : Hold(g, L, q) = Hold(h, L, q)
  BY <1>3 DEF Hold
<1>8. ASSUME NEW s \in 1 .. Len(h.counter) PROVE SameCounter(h, g, L, L, s, 0, e)
  <2>1. s # 0 /\ s # w
    BY <1>1
  <2>2. Share(g, L, s) = Share(h, L, s)
    BY <1>2, <1>3, <2>1 DEF Share
  <2>3. Extra(s, e) = Extra(s, 0)
    BY <2>1 DEF Extra
  <2>4. \A x \in Share(h, L, s) : g.cell[x].payload = h.cell[x].payload
    BY <1>3 DEF Share
  <2> QED
    BY <1>2, <2>2, <2>3, <2>4 DEF SameCounter
<1>9. n \in Nat /\ n >= 1 /\ n = Cardinality(Share(g, L, w)) + Extra(w, e)
  <2>1. Cardinality(Share(g, L, w)) = 1
    BY <1>6, FS_Singleton
  <2>2. Extra(w, e) \in Nat
    BY DEF Extra
  <2> QED
    BY <2>1, <2>2
<1>10. ASSUME NEW s \in 1 .. w PROVE CounterKept(g, L, s, e)
  <2>1. CASE s # w
    <3>1. s \in 1 .. Len(h.counter)
      BY <1>1, <2>1
    <3> QED
      BY <1>8, <3>1, SameCounterKept DEF HeapInv
  <2>2. CASE s = w
    <3>1. g.counter[w].count >= 1
          /\ g.counter[w].count <= Cardinality(Share(g, L, w)) + Extra(w, e)
      <4>1. n <= Cardinality(Share(g, L, w)) + Extra(w, e)
        BY ONLY <1>9
      <4> QED
        BY ONLY <1>2, <1>9, <4>1
    <3> QED
      BY ONLY <1>2, <2>2, <3>1 DEF CounterKept
  <2> QED
    BY <2>1, <2>2
<1>11. \A q \in 1 .. Len(h.released) : PayloadKept(g, L, q)
  BY <1>2, <1>7 DEF HeapInv, PayloadKept
<1>12. ASSUME NEW q \in (1 .. Len(h.released)) \ S PROVE PayloadExact(g, L, q, e)
  <2>1. PayloadExact(h, L, q, 0)
    BY DEF HeapInv
  <2>2. CASE q # p
    <3>1. SamePayload(h, g, L, L, q)
      <4>1. \A x \in Hold(h, L, q) : x \in L /\ x # d
        BY <2>2 DEF Hold
      <4> QED
        BY ONLY <1>2, <1>3, <1>7, <4>1 DEF SamePayload
    <3>2. \A x \in Hold(h, L, q) :
            h.cell[x].refs # 0 => SameCounter(h, g, L, L, h.cell[x].refs, 0, e)
      BY <1>4, <1>8, InvHeap DEF Hold
    <3> QED
      BY ONLY <2>1, <3>1, <3>2, SamePayloadExact
  <2>3. CASE q = p
    <3>1. d \in Hold(h, L, p) /\ \A x \in Hold(h, L, p) : x = d
      BY <2>1, <2>3 DEF Hold, PayloadExact, OneCounter
    <3>2. ReleasedOnce(g, L, p)
      BY <1>2, <1>7, <2>1, <2>3 DEF PayloadExact, ReleasedOnce
    <3>3. OneCounter(g, L, p)
      BY <1>7, <3>1 DEF OneCounter
    <3>4. ExactCount(g, L, w, e)
      BY ONLY <1>2, <1>9 DEF ExactCount
    <3> QED
      BY ONLY <1>2, <1>7, <2>3, <3>1, <3>2, <3>3, <3>4 DEF PayloadExact
  <2> QED
    BY <2>2, <2>3
<1>13. ASSUME S = {}
       PROVE  g.fault = FALSE /\ \A s \in 1 .. w : CounterExact(g, L, s)
  <2>1. h.fault = FALSE /\ \A s \in 1 .. Len(h.counter) : CounterExact(h, L, s)
    BY <1>13 DEF HeapInv
  <2>2. ASSUME NEW s \in 1 .. w PROVE CounterExact(g, L, s)
    <3>1. CASE s # w
      <4>1. s \in 1 .. Len(h.counter)
        BY <1>1, <3>1
      <4> QED
        BY <1>8, <2>1, <4>1, SameCounterExact
    <3>2. CASE s = w
      <4>1. g.counter[s].freed = 0
        BY <1>2, <3>2
      <4>2. g.counter[s].freed <= 1 /\ g.counter[s].freed # 1
        BY ONLY <4>1
      <4> QED
        BY ONLY <4>2 DEF CounterExact
    <3> QED
      BY <3>1, <3>2
  <2> QED
    BY <1>2, <2>1, <2>2
<1> HIDE DEF w
<1> QED
  BY ONLY <1>2, <1>5, <1>10, <1>11, <1>12, <1>13 DEF HeapInv

(* A struct is filled with a payload that was just made.                   *)
Made(h, g, c) ==
  LET p == Len(h.released) + 1
  IN  /\ g \in Heap /\ OtherCells(h, g, c)
      /\ g.cell[c].refs = 0 /\ g.cell[c].payload = p /\ g.cell[c].type = "POINTER"
      /\ g.counter = h.counter /\ g.fault = h.fault
      /\ Len(g.released) = p /\ g.released[p] = 0
      /\ \A q \in 1 .. Len(h.released) : g.released[q] = h.released[q]

LEMMA MadeIs ==
  ASSUME NEW h \in Heap, NEW c \in Cells,
         NEW g, g = [h EXCEPT !.cell[c] = [type |-> "POINTER", refs |-> 0,
                                           payload |-> Len(h.released) + 1],
                              !.released = Append(@, 0)]
  PROVE  Made(h, g, c)
<1> DEFINE p == Len(h.released) + 1
           v == [type |-> "POINTER", refs |-> 0, payload |-> p]
           cell == [h.cell EXCEPT ![c] = v]
           released == Append(h.released, 0)
<1>1. /\ h.released \in Seq(Nat) /\ Len(h.released) \in Nat /\ p \in Nat
      /\ h.cell \in [Cells -> Cell]
  BY HeapParts
<1>2. v \in Cell /\ v.type = "POINTER" /\ v.refs = 0 /\ v.payload = p
  BY <1>1 DEF Cell, Types
<1>3. /\ released \in Seq(Nat) /\ Len(released) = p /\ released[p] = 0
      /\ \A q \in 1 .. Len(h.released) : released[q] = h.released[q]
  <2>1. 0 \in Nat
    OBVIOUS
  <2> QED
    BY <1>1, <2>1, AppendProperties
<1> HIDE DEF v, p
<1>4. /\ cell \in [Cells -> Cell] /\ cell[c] = v
      /\ \A x \in Cells : x # c => cell[x] = h.cell[x]
  BY <1>1, <1>2
<1>5. g = [h EXCEPT !.cell = cell, !.released = released]
  BY DEF Heap, v, p
<1> HIDE DEF cell, released
<1>6. /\ g \in Heap /\ g.cell = cell /\ g.counter = h.counter
      /\ g.released = released /\ g.fault = h.fault
  BY <1>3, <1>4, <1>5 DEF Heap
<1> QED
  BY ONLY <1>2, <1>3, <1>4, <1>6 DEF Made, OtherCells, p

LEMMA PlaceNewKeeps ==
  ASSUME NEW h, NEW L, NEW S, NEW e, HeapInv(h, L, S, e),
         NEW c \in Cells, c \notin L, NEW g, Made(h, g, c)
  PROVE  HeapInv(g, L \cup {c}, S, e)
<1> DEFINE M == L \cup {c}
           p == Len(h.released) + 1
<1>1. /\ Shape(h, L) /\ L \subseteq Cells /\ SoundHeap(h) /\ IsFiniteSet(L)
      /\ Len(h.released) \in Nat /\ p \in Nat /\ p # 0
      /\ p \notin 1 .. Len(h.released) /\ Len(h.counter) \in Nat
  BY InvHeap
<1>2. /\ g \in Heap /\ g.cell[c].refs = 0 /\ g.cell[c].payload = p
      /\ g.cell[c].type # "NULL"
      /\ g.counter = h.counter /\ g.fault = h.fault
      /\ Len(g.released) = p /\ g.released[p] = 0
      /\ \A q \in 1 .. Len(h.released) : g.released[q] = h.released[q]
      /\ \A x \in Cells : x # c => g.cell[x] = h.cell[x]
  BY DEF Made, OtherCells
<1>3. \A x \in L : x # c /\ g.cell[x] = h.cell[x]
  BY <1>1, <1>2
<1>4. \A x \in L : h.cell[x].payload \in 0 .. Len(h.released) /\ h.cell[x].payload # p
  BY <1>1, InvCells
<1>5. Shape(g, M)
  <2>1. \A x \in Cells : /\ g.cell[x].refs \in 0 .. Len(h.counter)
                         /\ g.cell[x].payload \in 0 .. p
    BY <1>1, <1>2 DEF SoundHeap
  <2>2. SoundHeap(g)
    BY <1>2, <2>1 DEF SoundHeap
  <2>3. Formed(g.cell[c])
    BY <1>1, <1>2 DEF Formed
  <2>4. \A x \in M : Formed(g.cell[x])
    BY <1>1, <1>3, <2>3 DEF Shape
  <2>5. ASSUME NEW x \in M, NEW y \in M PROVE OnePayload(g.cell[x], g.cell[y])
    <3>1. CASE x # c /\ y # c
      BY <1>1, <1>3, <3>1 DEF Shape
    <3>2. CASE x = c \/ y = c
      BY <1>2, <3>2 DEF OnePayload
    <3> QED
      BY <3>1, <3>2
  <2>6. M \subseteq Cells /\ IsFiniteSet(M)
    BY <1>1, OneMore
  <2> HIDE DEF M
  <2> QED
    BY ONLY <2>2, <2>4, <2>5, <2>6 DEF Shape
<1>6. ASSUME NEW s \in 1 .. Len(h.counter) PROVE SameCounter(h, g, L, M, s, e, e)
  <2>1. s # 0
    BY <1>1
  <2>2. Share(g, M, s) = Share(h, L, s)
    BY <1>2, <1>3, <2>1 DEF Share
  <2>3. ASSUME NEW x \in Share(h, L, s)
        PROVE  /\ g.cell[x].payload = h.cell[x].payload
               /\ g.released[h.cell[x].payload] = h.released[h.cell[x].payload]
    <3>1. x \in L /\ h.cell[x].refs # 0
      BY <2>1 DEF Share
    <3>2. h.cell[x].payload \in 1 .. Len(h.released)
      BY <3>1, InvCells, InvHeap
    <3> QED
      BY <1>2, <1>3, <3>1, <3>2
  <2> HIDE DEF M
  <2> QED
    BY <1>2, <2>2, <2>3 DEF SameCounter
<1>7. ASSUME NEW q \in 1 .. Len(h.released) PROVE SamePayload(h, g, L, M, q)
  <2>1. Hold(g, M, q) = Hold(h, L, q)
    <3>1. g.cell[c].payload # q
      BY <1>1, <1>2
    <3> QED
      BY <1>3, <3>1 DEF Hold
  <2>2. \A x \in Hold(h, L, q) : g.cell[x] = h.cell[x]
    BY <1>3 DEF Hold
  <2> QED
    BY <1>2, <2>1, <2>2 DEF SamePayload
<1>8. Hold(g, M, p) = {c}
  BY <1>2, <1>3, <1>4 DEF Hold
<1> HIDE DEF M
<1>9. \A s \in 1 .. Len(h.counter) : CounterKept(g, M, s, e)
  BY <1>6, SameCounterKept DEF HeapInv
<1>10. ASSUME NEW q \in 1 .. p PROVE PayloadKept(g, M, q)
  <2>1. CASE q # p
    <3>1. q \in 1 .. Len(h.released)
      BY <1>1, <2>1
    <3> QED
      BY <1>7, <3>1, SamePayloadKept DEF HeapInv
  <2>2. CASE q = p
    <3>1. Hold(g, M, p) # {}
      BY <1>8
    <3> QED
      BY ONLY <2>2, <3>1 DEF PayloadKept
  <2> QED
    BY <2>1, <2>2
<1>11. ASSUME NEW q \in (1 .. p) \ S PROVE PayloadExact(g, M, q, e)
  <2>1. CASE q # p
    <3>1. q \in (1 .. Len(h.released)) \ S
      BY <1>1, <2>1
    <3>2. PayloadExact(h, L, q, e) /\ SamePayload(h, g, L, M, q)
      BY <1>7, <3>1 DEF HeapInv
    <3>3. \A x \in Hold(h, L, q) :
            h.cell[x].refs # 0 => SameCounter(h, g, L, M, h.cell[x].refs, e, e)
      <4> SUFFICES ASSUME NEW x \in L, h.cell[x].refs # 0
                   PROVE  SameCounter(h, g, L, M, h.cell[x].refs, e, e)
        BY DEF Hold
      <4>1. h.cell[x].refs \in 1 .. Len(h.counter)
        BY InvCells, InvHeap
      <4> QED
        BY <1>6, <4>1
    <3> QED
      BY ONLY <3>2, <3>3, SamePayloadExact
  <2>2. CASE q = p
    <3>1. ReleasedOnce(g, M, p)
      <4>1. g.released[p] <= 1 /\ g.released[p] # 1
        BY <1>2
      <4> QED
        BY ONLY <4>1 DEF ReleasedOnce
    <3>2. OneCounter(g, M, p)
      BY <1>8 DEF OneCounter
    <3>3. \A x \in Hold(g, M, p) : ExactCount(g, M, g.cell[x].refs, e)
      BY <1>2, <1>8 DEF ExactCount
    <3> QED
      BY ONLY <2>2, <3>1, <3>2, <3>3 DEF PayloadExact
  <2> QED
    BY <2>1, <2>2
<1>12. S = {} => /\ g.fault = FALSE
                 /\ \A s \in 1 .. Len(h.counter) : CounterExact(g, M, s)
  BY <1>2, <1>6, SameCounterExact DEF HeapInv
<1> HIDE DEF p
<1>13. HeapInv(g, M, S, e)
  BY ONLY <1>2, <1>5, <1>9, <1>10, <1>11, <1>12 DEF HeapInv
<1> QED
  BY <1>13 DEF M

(* A struct moves from one place to another.                               *)
LEMMA MoveKeeps ==
  ASSUME NEW h, NEW L, NEW S, NEW e, HeapInv(h, L, S, e),
         NEW b \in L, NEW c \in Cells, c \notin L, NEW g, Placed(h, g, c, h.cell[b])
  PROVE  HeapInv(g, (L \ {b}) \cup {c}, S, e)
<1> DEFINE M == (L \ {b}) \cup {c}
<1>1. /\ Shape(h, L) /\ L \subseteq Cells /\ SoundHeap(h) /\ IsFiniteSet(L)
  BY InvHeap
<1>2. /\ g \in Heap /\ g.cell[c] = h.cell[b]
      /\ g.counter = h.counter /\ g.fault = h.fault /\ g.released = h.released
      /\ \A x \in Cells : x # c => g.cell[x] = h.cell[x]
  BY DEF Placed, OtherCells
<1>3. \A x \in L : x # c /\ g.cell[x] = h.cell[x]
  BY <1>1, <1>2
<1>4. \A x \in M : \/ x = c /\ g.cell[x] = h.cell[b]
                   \/ x \in L /\ x # b /\ x # c /\ g.cell[x] = h.cell[x]
  BY <1>2, <1>3
<1>5. \A x \in L : \/ x = b
                   \/ x \in M /\ x # c /\ x # b /\ g.cell[x] = h.cell[x]
  BY <1>3
<1>6. c \in M /\ M \subseteq Cells
  BY <1>1
<1>7. IsFiniteSet(M)
  <2>1. IsFiniteSet(L \ {b})
    BY <1>1, OneRemoved
  <2>2. c \notin L \ {b}
    OBVIOUS
  <2> QED
    BY ONLY <2>1, <2>2, OneMore DEF M
<1> HIDE DEF M
<1>8. Shape(g, M)
  <2>1. SoundHeap(g)
    BY <1>1, <1>2 DEF SoundHeap
  <2>2. \A x \in M : Formed(g.cell[x])
    BY <1>1, <1>4 DEF Shape
  <2>3. \A x, y \in M : OnePayload(g.cell[x], g.cell[y])
    BY <1>1, <1>4 DEF Shape
  <2> QED
    BY ONLY <1>6, <1>7, <2>1, <2>2, <2>3 DEF Shape
<1>9. ASSUME NEW s
      PROVE  /\ Cardinality(Share(g, M, s)) = Cardinality(Share(h, L, s))
             /\ Share(h, L, s) = {} => Share(g, M, s) = {}
  <2> DEFINE A == Share(h, L, s)
             B == Share(g, M, s)
  <2>1. IsFiniteSet(A)
    BY <1>1, SharesFinite
  <2>2. CASE h.cell[b].refs # s
    <3>1. A = B
      BY <1>2, <1>4, <1>5, <2>2 DEF Share
    <3> QED
      BY <3>1
  <2>3. CASE h.cell[b].refs = s
    <3>1. b \in A /\ c \notin A
      BY <2>3 DEF Share
    <3>2. B = (A \ {b}) \cup {c}
      BY <1>2, <1>4, <1>5, <1>6, <2>3 DEF Share
    <3>3. /\ IsFiniteSet(A \ {b}) /\ Cardinality(A) \in Nat
          /\ Cardinality(A) = Cardinality(A \ {b}) + 1
      BY ONLY <2>1, <3>1, OneRemoved
    <3>4. c \notin A \ {b}
      BY <3>1
    <3>5. Cardinality(B) = Cardinality(A \ {b}) + 1
      BY ONLY <3>2, <3>3, <3>4, OneMore
    <3> QED
      BY ONLY <3>1, <3>3, <3>5
  <2> QED
    BY <2>2, <2>3
<1>10. ASSUME NEW s \in 1 .. Len(h.counter)
       PROVE  CounterKept(g, M, s, e) /\ (S = {} => CounterExact(g, M, s))
  <2>1. CounterKept(h, L, s, e) /\ (S = {} => CounterExact(h, L, s))
    BY DEF HeapInv
  <2>2. g.counter[s].freed = 0 =>
          /\ g.counter[s].count >= 1
          /\ g.counter[s].count <= Cardinality(Share(g, M, s)) + Extra(s, e)
    BY ONLY <1>2, <1>9, <2>1 DEF CounterKept
  <2>3. g.counter[s].freed # 0 =>
          \A x \in Share(g, M, s) : g.released[g.cell[x].payload] > 0
    <3> SUFFICES ASSUME g.counter[s].freed # 0, NEW x \in Share(g, M, s)
                 PROVE  g.released[g.cell[x].payload] > 0
      OBVIOUS
    <3>1. PICK y \in L : g.cell[x] = h.cell[y]
      BY <1>4 DEF Share
    <3>2. y \in Share(h, L, s)
      BY <3>1 DEF Share
    <3> QED
      BY <1>2, <2>1, <3>1, <3>2 DEF CounterKept
  <2>4. S = {} => CounterExact(g, M, s)
    BY ONLY <1>2, <1>9, <2>1 DEF CounterExact
  <2> QED
    BY ONLY <2>2, <2>3, <2>4 DEF CounterKept
<1>11. ASSUME NEW q, Hold(h, L, q) # {} PROVE Hold(g, M, q) # {}
  <2>1. PICK x \in L : h.cell[x].payload = q
    BY <1>11 DEF Hold
  <2>2. CASE x = b
    BY <1>2, <1>6, <2>1, <2>2 DEF Hold
  <2>3. CASE x # b
    BY <1>5, <2>1, <2>3 DEF Hold
  <2> QED
    BY <2>2, <2>3
<1>12. ASSUME NEW q, Hold(h, L, q) = {} PROVE Hold(g, M, q) = {}
  BY <1>4, <1>12 DEF Hold
<1>13. \A q \in 1 .. Len(h.released) : PayloadKept(g, M, q)
  BY <1>2, <1>11 DEF HeapInv, PayloadKept
<1>14. ASSUME NEW q \in (1 .. Len(h.released)) \ S PROVE PayloadExact(g, M, q, e)
  <2>1. PayloadExact(h, L, q, e)
    BY DEF HeapInv
  <2>2. ReleasedOnce(g, M, q)
    BY ONLY <1>2, <1>12, <2>1 DEF PayloadExact, ReleasedOnce
  <2>3. OneCounter(g, M, q)
    <3> SUFFICES ASSUME NEW x \in Hold(g, M, q), NEW y \in Hold(g, M, q), x # y
                 PROVE  g.cell[x].refs = g.cell[y].refs /\ g.cell[x].refs # 0
      BY DEF OneCounter
    <3> DEFINE old(z) == IF z = c THEN b ELSE z
    <3>1. /\ old(x) \in Hold(h, L, q) /\ g.cell[x] = h.cell[old(x)]
          /\ old(y) \in Hold(h, L, q) /\ g.cell[y] = h.cell[old(y)]
      BY <1>4 DEF Hold
    <3>2. old(x) # old(y)
      BY <1>4 DEF Hold
    <3> HIDE DEF old
    <3> QED
      BY <2>1, <3>1, <3>2 DEF PayloadExact, OneCounter
  <2>4. ASSUME NEW x \in Hold(g, M, q) PROVE ExactCount(g, M, g.cell[x].refs, e)
    <3>1. PICK y \in Hold(h, L, q) : g.cell[x] = h.cell[y]
      BY <1>4 DEF Hold
    <3>2. ExactCount(h, L, h.cell[y].refs, e)
      BY <2>1 DEF PayloadExact
    <3> QED
      BY ONLY <1>2, <1>9, <3>1, <3>2 DEF ExactCount
  <2> QED
    BY ONLY <2>2, <2>3, <2>4 DEF PayloadExact
<1>15. S = {} => g.fault = FALSE
  BY <1>2 DEF HeapInv
<1>16. HeapInv(g, M, S, e)
  BY ONLY <1>2, <1>8, <1>10, <1>13, <1>14, <1>15 DEF HeapInv
<1> QED
  BY <1>16 DEF M

-----------------------------------------------------------------------------
(* The operations.                                                         *)
LEMMA CopyJoins ==
  ASSUME NEW h, SoundHeap(h), NEW c \in Cells, NEW d \in Cells,
         h.cell[d].refs # 0
  PROVE  /\ Joined(h, Copy(h, c, d), c, d, 0)
         /\ Joined(h, AddTo(Copy(h, c, d), h.cell[d].refs, 1), c, d, 1)
<1> DEFINE k == Copy(h, c, d)
           r == h.cell[d].refs
           g == AddTo(k, r, 1)
<1>1. h \in Heap /\ r \in 1 .. Len(h.counter) /\ h.counter[r].count \in Nat
  BY HeapParts DEF SoundHeap
<1>2. Placed(h, k, c, h.cell[d])
  BY <1>1, CopyPlaces
<1> HIDE DEF k, r
<1>3. /\ k \in Heap /\ k.counter = h.counter /\ k.released = h.released
      /\ k.fault = h.fault /\ OtherCells(h, k, c) /\ k.cell[c] = h.cell[d]
  BY <1>2 DEF Placed
<1>4. Joined(h, k, c, d, 0)
  BY <1>1, <1>3 DEF Joined, SameSizes, OtherCounters, r
<1>5. Recounted(k, g, r, h.counter[r].count + 1)
  <2>1. r \in 1 .. Len(k.counter) /\ h.counter[r].count + 1 \in Nat
    BY <1>1, <1>3
  <2>2. Uses(k, r).counter = h.counter
    BY <1>3, <2>1, UsesIs
  <2>3. g = [Uses(k, r) EXCEPT !.counter[r].count = h.counter[r].count + 1]
    BY <2>2 DEF AddTo
  <2> HIDE DEF g
  <2> QED
    BY <1>3, <2>1, <2>3, RecountIs
<1> HIDE DEF g
<1>6. Joined(h, g, c, d, 1)
  <2>1. SameSizes(h, g) /\ OtherCells(h, g, c) /\ OtherCounters(h, g, r)
    BY ONLY <1>3, <1>5 DEF Recounted, SameSizes, OtherCells, OtherCounters
  <2>2. /\ g \in Heap /\ g.cell[c] = h.cell[d] /\ g.released = h.released
        /\ g.counter[r].count = h.counter[r].count + 1
        /\ g.counter[r].freed = h.counter[r].freed
        /\ h.counter[r].freed = 0 => g.fault = h.fault
    BY ONLY <1>3, <1>5 DEF Recounted
  <2> QED
    BY ONLY <2>1, <2>2 DEF Joined, r
<1> QED
  BY ONLY <1>4, <1>6 DEF k, g, r

(* What Unref of one struct leaves alone.                                  *)
LEMMA UnrefOthers ==
  ASSUME NEW h, NEW L, NEW S, NEW e, HeapInv(h, L, S, e), NEW c \in L
  PROVE  SameSizes(h, Unref(h, c)) /\ OtherCells(h, Unref(h, c), c)
<1>1. Dropped(h, Unref(h, c), c)
  BY InvHeap, UnrefIs
<1> QED
  BY <1>1 DEF Dropped

(* A struct in use fits the others.                                        *)
LEMMA FitsItself ==
  ASSUME NEW h, NEW L, NEW S, NEW e, HeapInv(h, L, S, e), NEW d \in L
  PROVE  Fits(h, L, h.cell[d])
<1>1. Shape(h, L) /\ d \in Cells /\ h \in Heap
  BY InvHeap
<1>2. h.cell[d] \in Cell
  BY <1>1, HeapParts
<1> QED
  BY <1>1, <1>2, InvCells DEF Fits, Shape

LEMMA PlainFits ==
  ASSUME NEW h, NEW L, NEW S, NEW e, HeapInv(h, L, S, e), NEW type \in Types
  PROVE  Fits(h, L, [type |-> type, refs |-> 0, payload |-> 0])
<1> DEFINE v == [type |-> type, refs |-> 0, payload |-> 0]
<1>1. v \in Cell /\ v.refs = 0 /\ v.payload = 0
  BY DEF Cell
<1>2. Len(h.counter) \in Nat /\ Len(h.released) \in Nat
  BY InvHeap
<1> HIDE DEF v
<1>3. Fits(h, L, v)
  BY <1>1, <1>2 DEF Fits, Formed, OnePayload
<1> QED
  BY <1>3 DEF v

(* A struct that is not in use becomes a plain value.                      *)
LEMMA PlainKeeps ==
  ASSUME NEW h, NEW L, NEW S, NEW e, HeapInv(h, L, S, e),
         NEW c \in Cells, c \notin L, NEW type \in Types
  PROVE  HeapInv([h EXCEPT !.cell[c] = [type |-> type, refs |-> 0, payload |-> 0]],
                 L \cup {c}, S, e)
<1> DEFINE v == [type |-> type, refs |-> 0, payload |-> 0]
           g == [h EXCEPT !.cell[c] = v]
<1>1. v \in Cell /\ v.refs = 0 /\ v.payload = 0
  BY DEF Cell
<1>2. Fits(h, L, v)
  BY PlainFits
<1> HIDE DEF v
<1>3. Placed(h, g, c, v)
  BY <1>1, InvHeap, PlaceIs
<1> HIDE DEF g
<1>4. HeapInv(g, L \cup {c}, S, e)
  BY <1>1, <1>2, <1>3, PlaceKeeps
<1> QED
  BY <1>4 DEF g, v

LEMMA SetPlainKeeps ==
  ASSUME NEW h, NEW L, NEW S, HeapInv(h, L, S, 0), NEW c \in L
  PROVE  HeapInv(SetTo(h, c, "PLAIN", 0), L, S, 0)
<1> DEFINE k == Unref(h, c)
<1>1. HeapInv(k, L \ {c}, S, 0)
  BY UnrefKeeps DEF Uncounted
<1>2. c \in Cells /\ c \notin L \ {c} /\ "PLAIN" \in Types
  BY InvHeap DEF Types
<1>3. SetTo(h, c, "PLAIN", 0)
        = [k EXCEPT !.cell[c] = [type |-> "PLAIN", refs |-> 0, payload |-> 0]]
  BY DEF SetTo
<1>4. (L \ {c}) \cup {c} = L
  OBVIOUS
<1> HIDE DEF k
<1>5. HeapInv([k EXCEPT !.cell[c] = [type |-> "PLAIN", refs |-> 0, payload |-> 0]],
              (L \ {c}) \cup {c}, S, 0)
  BY ONLY <1>1, <1>2, PlainKeeps
<1> QED
  BY ONLY <1>3, <1>4, <1>5

LEMMA SetPayloadKeeps ==
  ASSUME NEW h, NEW L, NEW S, HeapInv(h, L, S, 0), NEW c \in L
  PROVE  HeapInv([SetTo(h, c, "POINTER", Len(h.released) + 1)
                    EXCEPT !.released = Append(@, 0)], L, S, 0)
<1> DEFINE k == Unref(h, c)
           p == Len(h.released) + 1
           v == [type |-> "POINTER", refs |-> 0, payload |-> p]
           s == SetTo(h, c, "POINTER", p)
           g == [s EXCEPT !.released = Append(@, 0)]
           m == [k EXCEPT !.cell[c] = v, !.released = Append(@, 0)]
<1>1. HeapInv(k, L \ {c}, S, 0)
  BY UnrefKeeps DEF Uncounted
<1>2. c \in Cells /\ c \notin L \ {c}
  BY InvHeap
<1>3. Len(k.released) = Len(h.released)
  BY UnrefOthers DEF SameSizes
<1>4. s = [k EXCEPT !.cell[c] = v]
  BY DEF SetTo
<1> HIDE DEF k, s
<1>5. k \in Heap
  BY <1>1, InvHeap
<1> HIDE DEF v
<1>6. g = m
  BY <1>4, <1>5 DEF Heap
<1>7. Made(k, m, c)
  <2>1. m = [k EXCEPT !.cell[c] = [type |-> "POINTER", refs |-> 0,
                                   payload |-> Len(k.released) + 1],
                      !.released = Append(@, 0)]
    BY <1>3 DEF v
  <2> HIDE DEF m
  <2> QED
    BY <1>2, <1>5, <2>1, MadeIs
<1> HIDE DEF m
<1>8. HeapInv(m, (L \ {c}) \cup {c}, S, 0)
  BY ONLY <1>1, <1>2, <1>7, PlaceNewKeeps
<1>9. (L \ {c}) \cup {c} = L
  OBVIOUS
<1> HIDE DEF g
<1>10. HeapInv(g, L, S, 0)
  BY ONLY <1>6, <1>8, <1>9
<1> QED
  BY <1>10 DEF g, s, p

(* A copy without a counter: of plain data, or of a payload in S.          *)
LEMMA CopyKeeps ==
  ASSUME NEW h, NEW L, NEW S, NEW e, HeapInv(h, L, S, e), NEW d \in L,
         h.cell[d].refs = 0, h.cell[d].payload = 0 \/ h.cell[d].payload \in S,
         NEW c \in Cells, c \notin L
  PROVE  HeapInv(Copy(h, c, d), L \cup {c}, S, e)
<1> DEFINE v == h.cell[d]
           g == Copy(h, c, d)
<1>1. Fits(h, L, v)
  BY FitsItself
<1>2. Placed(h, g, c, v)
  <2>1. h \in Heap /\ d \in Cells
    BY InvHeap
  <2> QED
    BY <2>1, CopyPlaces
<1> HIDE DEF g
<1>3. HeapInv(g, L \cup {c}, S, e)
  BY ONLY <1>1, <1>2, PlaceKeeps, HeapInv(h, L, S, e), c \in Cells, c \notin L,
     h.cell[d].refs = 0, h.cell[d].payload = 0 \/ h.cell[d].payload \in S DEF v
<1> QED
  BY <1>3 DEF g

(* A copy of a value that has a counter, with one more reference.          *)
LEMMA ShareKeeps ==
  ASSUME NEW h, NEW L, NEW S, HeapInv(h, L, S, 0), NEW d \in L,
         h.cell[d].refs # 0, NEW c \in Cells, c \notin L
  PROVE  HeapInv(AddTo(Copy(h, c, d), h.cell[d].refs, 1), L \cup {c}, S, 0)
<1> DEFINE g == AddTo(Copy(h, c, d), h.cell[d].refs, 1)
<1>1. SoundHeap(h) /\ d \in Cells
  BY InvHeap
<1>2. Joined(h, g, c, d, 1)
  BY <1>1, CopyJoins
<1>3. Counted(h, d, 0, 1)
  BY DEF Counted
<1> HIDE DEF g
<1>4. HeapInv(g, L \cup {c}, S, 0)
  BY <1>2, <1>3, JoinKeeps
<1> QED
  BY <1>4 DEF g

(* A copy that its counter has counted in advance.                         *)
LEMMA CountedKeeps ==
  ASSUME NEW h, NEW L, NEW S, NEW e, HeapInv(h, L, S, e), NEW d \in L,
         h.cell[d].refs = e, e # 0, NEW c \in Cells, c \notin L
  PROVE  HeapInv(Copy(h, c, d), L \cup {c}, S, 0)
<1> DEFINE g == Copy(h, c, d)
<1>1. SoundHeap(h) /\ d \in Cells
  BY InvHeap
<1>2. Joined(h, g, c, d, 0)
  BY <1>1, CopyJoins
<1>3. Counted(h, d, e, 0)
  BY DEF Counted
<1> HIDE DEF g
<1>4. HeapInv(g, L \cup {c}, S, 0)
  BY <1>2, <1>3, JoinKeeps
<1> QED
  BY <1>4 DEF g

LEMMA AssignKeeps ==
  ASSUME NEW h, NEW L, NEW S, HeapInv(h, L, S, 0), NEW c \in L, NEW d \in L, c # d
  PROVE  HeapInv(Assign(h, c, d), L, S, 0)
<1> DEFINE v == h.cell[d]
           k == Unref(h, c)
           M == L \ {c}
<1>1. HeapInv(k, M, S, 0)
  BY UnrefKeeps DEF Uncounted
<1>2. k.cell[d] = v
  <2>1. OtherCells(h, k, c) /\ d \in Cells
    BY UnrefOthers, InvHeap
  <2> QED
    BY <2>1 DEF OtherCells
<1>3. c \in Cells /\ c \notin M /\ d \in M /\ M \cup {c} = L
  BY InvHeap
<1> HIDE DEF k, M
<1>4. CASE v.payload = 0
  <2>1. Assign(h, c, d) = Copy(k, c, d)
    BY <1>4 DEF Assign, k
  <2>2. k.cell[d].refs = 0 /\ k.cell[d].payload = 0
    BY <1>2, <1>4, InvCells
  <2>3. HeapInv(Copy(k, c, d), M \cup {c}, S, 0)
    BY ONLY <1>1, <1>3, <2>2, CopyKeeps
  <2> QED
    BY ONLY <1>3, <2>1, <2>3
<1>5. CASE v.payload # 0 /\ v.refs = 0
  <2> DEFINE w == Len(h.counter) + 1
             m == NewCounter(h, d, 2)
             n == Unref(m, c)
  <2>1. Assign(h, c, d) = Copy(n, c, d)
    BY <1>5 DEF Assign
  <2>2. /\ h \in Heap /\ d \in Cells /\ 2 \in Nat /\ w \in Nat /\ w # 0
        /\ 2 = 1 + Extra(w, w)
    BY InvHeap DEF Extra
  <2>3. Given(h, m, d, 2)
    BY <2>2, NewCounterIs
  <2> HIDE DEF m
  <2>4. HeapInv(m, L, S, w)
    BY <1>5, <2>2, <2>3, NewCounterKeeps
  <2>5. m.cell[d].refs = w /\ m.cell[c] = h.cell[c]
    BY <1>3, <2>3 DEF Given, OtherCells
  <2>6. Uncounted(m, c, w)
    <3>1. h.cell[c].refs \in 0 .. Len(h.counter) /\ Len(h.counter) \in Nat
      BY InvCells, InvHeap
    <3> QED
      BY <2>5, <3>1 DEF Uncounted
  <2> HIDE DEF w
  <2>7. HeapInv(n, M, S, w)
    BY ONLY <2>4, <2>6, UnrefKeeps, c \in L DEF M, n
  <2>8. n.cell[d].refs = w
    <3>1. OtherCells(m, n, c)
      BY <2>4, UnrefOthers
    <3> QED
      BY <2>2, <2>5, <3>1 DEF OtherCells
  <2> HIDE DEF n
  <2>9. HeapInv(Copy(n, c, d), M \cup {c}, S, 0)
    BY ONLY <1>3, <2>2, <2>7, <2>8, CountedKeeps
  <2> QED
    BY ONLY <1>3, <2>1, <2>9
<1>6. CASE v.payload # 0 /\ v.refs # 0
  <2>1. Assign(h, c, d) = AddTo(Copy(k, c, d), k.cell[d].refs, 1)
    <3>1. Assign(h, c, d) = AddTo(Copy(k, c, d), v.refs, 1)
      BY <1>6 DEF Assign, k
    <3> QED
      BY ONLY <1>2, <3>1
  <2>2. k.cell[d].refs # 0
    BY <1>2, <1>6
  <2>3. HeapInv(AddTo(Copy(k, c, d), k.cell[d].refs, 1), M \cup {c}, S, 0)
    BY ONLY <1>1, <1>3, <2>2, ShareKeeps
  <2> QED
    BY ONLY <1>3, <2>1, <2>3
<1> QED
  BY <1>4, <1>5, <1>6

(* The payloads that a write of the struct c gives one reference for two   *)
(* holders.                                                                *)
Lone(h, c) == IF NeedsCounter(h, c) THEN {h.cell[c].payload} ELSE {}

LEMMA LoneCopyKeeps ==
  ASSUME NEW h, NEW L, NEW S, HeapInv(h, L, S, 0), NEW d \in L,
         NeedsCounter(h, d), NEW c \in Cells, c \notin L
  PROVE  HeapInv(Copy(h, c, d), L \cup {c}, S \cup Lone(h, d), 0)
<1> DEFINE T == S \cup Lone(h, d)
<1>1. HeapInv(h, L, T, 0)
  BY Weaken
<1>2. h.cell[d].refs = 0 /\ h.cell[d].payload \in T
  BY DEF NeedsCounter, Lone
<1> HIDE DEF T
<1>3. HeapInv(Copy(h, c, d), L \cup {c}, T, 0)
  BY <1>1, <1>2, CopyKeeps
<1> QED
  BY <1>3 DEF T

(* The first g_value_ref of a struct gives it a counter, for itself alone. *)
LEMMA RefAloneKeeps ==
  ASSUME NEW h, NEW L, NEW S, HeapInv(h, L, S, 0), NEW d \in L, h.cell[d].refs = 0
  PROVE  HeapInv(Ref(h, d), L, S, 0)
<1> DEFINE g == NewCounter(h, d, 1)
           w == Len(h.counter) + 1
<1>1. CASE h.cell[d].payload # 0
  <2>1. Ref(h, d) = g
    BY <1>1 DEF Ref
  <2>2. /\ h \in Heap /\ d \in Cells /\ 1 \in Nat /\ 1 = 1 + Extra(w, 0)
    <3>1. h \in Heap /\ d \in Cells /\ Len(h.counter) \in Nat
      BY InvHeap
    <3> QED
      BY <3>1 DEF Extra
  <2>3. Given(h, g, d, 1)
    BY <2>2, NewCounterIs
  <2> HIDE DEF g
  <2>4. HeapInv(g, L, S, 0)
    BY <1>1, <2>2, <2>3, NewCounterKeeps
  <2> QED
    BY ONLY <2>1, <2>4
<1>2. CASE h.cell[d].payload = 0
  BY <1>2 DEF Ref
<1> QED
  BY <1>1, <1>2

LEMMA WriteCopyKeeps ==
  ASSUME NEW h, NEW L, NEW S, HeapInv(h, L, S, 0), NEW d \in L,
         NEW c \in Cells, c \notin L
  PROVE  HeapInv(WriteCopy(h, c, d), L \cup {c}, S \cup Lone(h, d), 0)
<1> DEFINE k == Copy(h, c, d)
           M == L \cup {c}
           T == S \cup Lone(h, d)
<1>1. k.cell[d] = h.cell[d]
  <2>1. h \in Heap /\ d \in Cells /\ d # c
    BY InvHeap
  <2>2. Placed(h, k, c, h.cell[d])
    BY <2>1, CopyPlaces
  <2> QED
    BY <2>1, <2>2 DEF Placed, OtherCells
<1>2. WriteCopy(h, c, d) = Ref(k, d)
  BY DEF WriteCopy
<1> HIDE DEF k, T
<1>3. CASE h.cell[d].refs # 0
  <2>1. Ref(k, d) = AddTo(k, h.cell[d].refs, 1)
    BY <1>1, <1>3 DEF Ref
  <2>2. HeapInv(AddTo(Copy(h, c, d), h.cell[d].refs, 1), M, S, 0)
    BY <1>3, ShareKeeps
  <2>3. Lone(h, d) = {} /\ T = S
    BY <1>3 DEF Lone, NeedsCounter, T
  <2> QED
    BY ONLY <1>2, <2>1, <2>2, <2>3 DEF k, T
<1>4. CASE h.cell[d].refs = 0 /\ h.cell[d].payload # 0
  <2>1. NeedsCounter(h, d)
    BY <1>4 DEF NeedsCounter
  <2>2. HeapInv(k, M, T, 0)
    BY <2>1, LoneCopyKeeps DEF k, T
  <2>3. d \in M /\ k.cell[d].refs = 0
    BY <1>1, <1>4
  <2> HIDE DEF M
  <2>4. HeapInv(Ref(k, d), M, T, 0)
    BY ONLY <2>2, <2>3, RefAloneKeeps
  <2> QED
    BY ONLY <1>2, <2>4 DEF M, T
<1>5. CASE h.cell[d].refs = 0 /\ h.cell[d].payload = 0
  <2>1. Ref(k, d) = k
    BY <1>1, <1>5 DEF Ref
  <2>2. HeapInv(Copy(h, c, d), M, S, 0)
    BY <1>5, CopyKeeps
  <2>3. Lone(h, d) = {} /\ T = S
    BY <1>5 DEF Lone, NeedsCounter, T
  <2> QED
    BY ONLY <1>2, <2>1, <2>2, <2>3 DEF k, T
<1> QED
  BY <1>3, <1>4, <1>5

(* g_channel_error: its value is queued, counted or not, and let go.       *)
LEMMA NewErrorKeeps ==
  ASSUME NEW h, NEW L, NEW S, HeapInv(h, L, S, 0), NEW c \in Cells, c \notin L
  PROVE  /\ HeapInv(NewError(h, c), L \cup {c}, S, 0)
         /\ NewError(h, c).cell[c].refs = 0
         /\ Lone(NewError(h, c), c) = {Len(h.released) + 1}
         /\ NeedsCounter(NewError(h, c), c)
<1> DEFINE k == NewError(h, c)
<1>1. h \in Heap /\ Len(h.released) + 1 # 0
  BY InvHeap
<1>2. Made(h, k, c)
  BY <1>1, MadeIs, Zenon DEF NewError
<1> HIDE DEF k
<1>3. HeapInv(k, L \cup {c}, S, 0)
  BY <1>2, PlaceNewKeeps
<1>4. k.cell[c].refs = 0 /\ k.cell[c].payload = Len(h.released) + 1
  BY <1>2 DEF Made
<1>5. NeedsCounter(k, c) /\ Lone(k, c) = {Len(h.released) + 1}
  BY <1>1, <1>4 DEF Lone, NeedsCounter
<1> QED
  BY <1>3, <1>4, <1>5 DEF k

LEMMA WriteErrorKeeps ==
  ASSUME NEW h, NEW L, NEW S, HeapInv(h, L, S, 0), NEW c \in Cells, c \notin L,
         NEW q \in Cells, q \notin L, q # c,
         NEW g, \/ g = WriteCopy(NewError(h, c), q, c)
                \/ g = Copy(NewError(h, c), q, c)
  PROVE  HeapInv(Unref(g, c), L \cup {q}, S \cup {Len(h.released) + 1}, 0)
<1> DEFINE k == NewError(h, c)
           M == L \cup {c}
           N == M \cup {q}
           T == S \cup {Len(h.released) + 1}
<1>1. /\ HeapInv(k, M, S, 0) /\ Lone(k, c) = {Len(h.released) + 1}
      /\ NeedsCounter(k, c)
  BY NewErrorKeeps
<1>2. c \in M /\ q \notin M /\ c \in N /\ N \ {c} = L \cup {q}
  OBVIOUS
<1> HIDE DEF k, M
<1>3. HeapInv(g, N, S \cup Lone(k, c), 0)
  <2>1. g = WriteCopy(k, q, c) \/ g = Copy(k, q, c)
    BY DEF k
  <2> QED
    BY ONLY <1>1, <1>2, <2>1, q \in Cells, WriteCopyKeeps, LoneCopyKeeps
<1> HIDE DEF N
<1>4. HeapInv(g, N, T, 0)
  BY ONLY <1>1, <1>3 DEF T
<1> HIDE DEF T
<1>5. HeapInv(Unref(g, c), N \ {c}, T, 0)
  <2>1. Uncounted(g, c, 0)
    BY DEF Uncounted
  <2> QED
    BY ONLY <1>2, <1>4, <2>1, UnrefKeeps
<1> QED
  BY ONLY <1>2, <1>5 DEF T

LEMMA LoseErrorKeeps ==
  ASSUME NEW h, NEW L, NEW S, HeapInv(h, L, S, 0), NEW c \in Cells, c \notin L,
         NEW g, g = Ref(NewError(h, c), c) \/ g = NewError(h, c)
  PROVE  HeapInv(Unref(g, c), L, S, 0)
<1> DEFINE k == NewError(h, c)
           M == L \cup {c}
<1>1. HeapInv(k, M, S, 0) /\ k.cell[c].refs = 0
  BY NewErrorKeeps
<1>2. c \in M /\ M \ {c} = L
  OBVIOUS
<1>3. g = Ref(k, c) \/ g = k
  OBVIOUS
<1> HIDE DEF k, M
<1>4. HeapInv(g, M, S, 0)
  BY ONLY <1>1, <1>2, <1>3, RefAloneKeeps
<1>5. HeapInv(Unref(g, c), M \ {c}, S, 0)
  <2>1. Uncounted(g, c, 0)
    BY DEF Uncounted
  <2> QED
    BY ONLY <1>2, <1>4, <2>1, UnrefKeeps
<1> QED
  BY ONLY <1>2, <1>5

LEMMA ReadKeeps ==
  ASSUME NEW h, NEW L, NEW S, HeapInv(h, L, S, 0), NEW c \in L, NEW q \in L, c # q
  PROVE  HeapInv(ReadCopy(h, c, q), L \ {q}, S, 0)
<1> DEFINE k == Unref(h, c)
           M == L \ {c}
           g == Copy(k, c, q)
<1>1. HeapInv(k, M, S, 0)
  BY UnrefKeeps DEF Uncounted
<1>2. ReadCopy(h, c, q) = g
  BY DEF ReadCopy
<1>3. c \in Cells /\ q \in Cells /\ q \in M /\ c \notin M
      /\ (M \ {q}) \cup {c} = L \ {q}
  BY InvHeap
<1> HIDE DEF k, M
<1>4. Placed(k, g, c, k.cell[q])
  BY <1>1, <1>3, InvHeap, CopyPlaces
<1> HIDE DEF g
<1>5. HeapInv(g, (M \ {q}) \cup {c}, S, 0)
  BY ONLY <1>1, <1>3, <1>4, MoveKeeps
<1> QED
  BY ONLY <1>2, <1>3, <1>5

-----------------------------------------------------------------------------
(* g_channel_free: FoldLeft lets the queued structs go one after another.  *)
Heaps == {h \in Heap : SoundHeap(h)}

LEMMA UnrefSound ==
  ASSUME NEW h \in Heaps, NEW c \in Cells
  PROVE  Unref(h, c) \in Heaps
<1> DEFINE g == Unref(h, c)
<1>1. SoundHeap(h)
  BY DEF Heaps
<1>2. Dropped(h, g, c)
  BY <1>1, UnrefIs
<1> HIDE DEF g
<1>3. /\ g \in Heap /\ SameSizes(h, g) /\ OtherCells(h, g, c)
      /\ g.cell[c].refs = h.cell[c].refs /\ g.cell[c].payload = h.cell[c].payload
  BY <1>2 DEF Dropped
<1>4. SoundHeap(g)
  BY ONLY <1>1, <1>3 DEF SoundHeap, SameSizes, OtherCells
<1> QED
  BY <1>3, <1>4 DEF Heaps, g

LetGo(h, s) == FoldLeft(Unref, h, s)
IsStages(stage, h, s) ==
  /\ stage[{}] = h
  /\ \A k \in 1 .. Len(s) : stage[1 .. k] = Unref(stage[1 .. k - 1], s[k])
  /\ LetGo(h, s) = stage[1 .. Len(s)]

LEMMA StagesExist ==
  ASSUME NEW h \in Heaps, NEW s \in Seq(Cells)
  PROVE  \E stage : IsStages(stage, h, s)
<1> DEFINE n == Len(s)
           step == [p \in Heaps \X (1 .. n) |-> Unref(p[1], s[p[2]])]
           IsIter(iter) ==
             iter = [x \in SUBSET DOMAIN s |->
                       IF x = {} THEN h ELSE Unref(iter[x \ {Max(x)}], s[Max(x)])]
           stage == CHOOSE iter : IsIter(iter)
<1>1. /\ DOMAIN s = 1 .. n /\ n \in Nat /\ \A i \in 1 .. n : s[i] \in Cells
  BY LenProperties, ElementOfSeq
<1>2. step \in [Heaps \X (1 .. n) -> Heaps]
  BY <1>1, UnrefSound
<1>3. \A k \in Heaps, i \in 1 .. n : step[<<k, i>>] = Unref(k, s[i])
  OBVIOUS
<1>4. \A x \in SUBSET (1 .. n) : x # {} => Max(x) \in x
  BY <1>1, LargestOf
<1> HIDE DEF step
<1>5. PICK iter \in [SUBSET (1 .. n) -> Heaps] :
        /\ iter[{}] = h
        /\ \A x \in SUBSET (1 .. n) : x # {} =>
             iter[x] = step[<<iter[x \ {Max(x)}], Max(x)>>]
  <2>1. \E iter \in [SUBSET (1 .. n) -> Heaps] : IsOrderedFold(iter, n, h, step)
    BY ONLY <1>1, <1>2, OrderedFoldExists, h \in Heaps
  <2> QED
    BY <2>1 DEF IsOrderedFold
<1>6. IsIter(iter)
  <2>1. iter = [x \in SUBSET (1 .. n) |-> iter[x]]
    BY <1>5
  <2>2. \A x \in SUBSET (1 .. n) :
          iter[x] = IF x = {} THEN h ELSE Unref(iter[x \ {Max(x)}], s[Max(x)])
    <3> SUFFICES ASSUME NEW x \in SUBSET (1 .. n), x # {}
                 PROVE  iter[x] = Unref(iter[x \ {Max(x)}], s[Max(x)])
      BY <1>5
    <3>1. Max(x) \in 1 .. n
      BY <1>4
    <3>2. iter[x \ {Max(x)}] \in Heaps
      BY <1>5
    <3> QED
      BY <1>3, <1>5, <3>1, <3>2
  <2> QED
    BY <1>1, <2>1, <2>2
<1>7. IsIter(stage)
  BY <1>6
<1>8. LetGo(h, s) = stage[1 .. n]
  BY <1>1 DEF LetGo, FoldLeft, MapThenFoldSet
<1>9. \A x \in SUBSET (1 .. n) :
        stage[x] = IF x = {} THEN h ELSE Unref(stage[x \ {Max(x)}], s[Max(x)])
  <2> HIDE DEF stage
  <2> QED
    BY <1>1, <1>7
<1> HIDE DEF stage
<1>10. stage[{}] = h
  <2>1. {} \in SUBSET (1 .. n)
    OBVIOUS
  <2> QED
    BY <1>9, <2>1
<1>11. ASSUME NEW k \in 1 .. n PROVE stage[1 .. k] = Unref(stage[1 .. k - 1], s[k])
  <2>1. /\ Max(1 .. k) = k /\ (1 .. k) \ {k} = 1 .. k - 1
        /\ 1 .. k \in SUBSET (1 .. n) /\ 1 .. k # {}
    BY <1>1, LargestOfFirst
  <2> QED
    BY <1>9, <2>1
<1> QED
  BY <1>8, <1>10, <1>11 DEF IsStages

Served(s, k) == {s[i] : i \in 1 .. k}

LEMMA LetGoKeeps ==
  ASSUME NEW h, NEW L, NEW S, HeapInv(h, L, S, 0),
         NEW s \in Seq(L), IsInjective(s)
  PROVE  HeapInv(LetGo(h, s), L \ ToSet(s), S, 0)
<1> DEFINE n == Len(s)
<1>1. /\ DOMAIN s = 1 .. n /\ n \in Nat /\ \A i \in 1 .. n : s[i] \in L
  BY LenProperties, ElementOfSeq
<1>2. \E stage : IsStages(stage, h, s)
  <2>1. h \in Heaps /\ L \subseteq Cells
    BY InvHeap DEF Heaps
  <2>2. s \in Seq(Cells)
    BY <2>1
  <2> QED
    BY <2>1, <2>2, StagesExist
<1>3. PICK stage : IsStages(stage, h, s)
  BY <1>2
<1>4. /\ stage[{}] = h /\ LetGo(h, s) = stage[1 .. n]
      /\ \A k \in 1 .. n : stage[1 .. k] = Unref(stage[1 .. k - 1], s[k])
  BY <1>3 DEF IsStages
<1> DEFINE P == {k \in Nat : k <= n => HeapInv(stage[1 .. k], L \ Served(s, k), S, 0)}
<1>5. 0 \in P
  <2>1. 1 .. 0 = {} /\ Served(s, 0) = {} /\ L \ {} = L
    BY DEF Served
  <2>2. HeapInv(stage[1 .. 0], L \ Served(s, 0), S, 0)
    BY ONLY <1>4, <2>1, HeapInv(h, L, S, 0)
  <2> QED
    BY <2>2
<1>6. ASSUME NEW k \in Nat, k \in P PROVE k + 1 \in P
  <2> SUFFICES ASSUME k + 1 <= n
               PROVE  HeapInv(stage[1 .. k + 1], L \ Served(s, k + 1), S, 0)
    OBVIOUS
  <2>1. k <= n /\ k + 1 \in 1 .. n /\ (k + 1) - 1 = k
    BY <1>1
  <2>2. HeapInv(stage[1 .. k], L \ Served(s, k), S, 0)
    BY <1>6, <2>1
  <2>3. stage[1 .. k + 1] = Unref(stage[1 .. k], s[k + 1])
    BY <1>4, <2>1
  <2>4. s[k + 1] \in L \ Served(s, k)
    <3>1. \A i \in 1 .. k : i \in 1 .. n /\ i # k + 1
      BY <1>1, <2>1
    <3>2. \A i \in 1 .. k : s[i] # s[k + 1]
      BY <1>1, <2>1, <3>1 DEF IsInjective
    <3> QED
      BY <1>1, <2>1, <3>2 DEF Served
  <2>5. (L \ Served(s, k)) \ {s[k + 1]} = L \ Served(s, k + 1)
    <3>1. Served(s, k + 1) = Served(s, k) \cup {s[k + 1]}
      <4>1. 1 .. k + 1 = (1 .. k) \cup {k + 1}
        OBVIOUS
      <4> QED
        BY <4>1 DEF Served
    <3> QED
      BY <3>1
  <2>6. HeapInv(Unref(stage[1 .. k], s[k + 1]), (L \ Served(s, k)) \ {s[k + 1]}, S, 0)
    <3>1. Uncounted(stage[1 .. k], s[k + 1], 0)
      BY DEF Uncounted
    <3> QED
      BY ONLY <2>2, <2>4, <3>1, UnrefKeeps
  <2> QED
    BY ONLY <2>3, <2>5, <2>6
<1> HIDE DEF P
<1>7. n \in P
  BY <1>1, <1>5, <1>6, NaturalInduction
<1>8. Served(s, n) = ToSet(s)
  BY <1>1 DEF Served, ToSet
<1>9. HeapInv(stage[1 .. n], L \ Served(s, n), S, 0)
  BY <1>1, <1>7 DEF P
<1> QED
  BY ONLY <1>4, <1>8, <1>9

-----------------------------------------------------------------------------
(* The queue holds the slots in use, each once, except those that stand    *)
(* for lost copies.                                                        *)
QueueInv ==
  /\ queue \in Seq(Slots) /\ IsInjective(queue)
  /\ ToSet(queue) = (live \cap Slots) \ lost
  /\ lost \subseteq live \cap Slots
  /\ ~open => queue = <<>>

ValuesInv == HeapInv(heap, live, sole, 0) /\ QueueInv

LEMMA QueueParts ==
  ASSUME NEW s \in Seq(Slots)
  PROVE  /\ Len(s) \in Nat /\ DOMAIN s = 1 .. Len(s)
         /\ \A i \in 1 .. Len(s) : s[i] \in Slots
         /\ ToSet(s) = {s[i] : i \in 1 .. Len(s)}
BY LenProperties, ElementOfSeq DEF ToSet

LEMMA Enqueued ==
  ASSUME QueueInv, NEW q, Enqueue(q)
  PROVE  /\ QueueInv'
         /\ q \in Slots \ live /\ q \in Cells /\ live' = live \cup {q}
<1>1. /\ open /\ q \in Slots /\ q \notin live
      /\ queue' = Append(queue, q) /\ live' = live \cup {q} /\ open' = open
      /\ lost' = lost
  BY DEF Enqueue
<1>2. /\ Len(queue) \in Nat /\ DOMAIN queue = 1 .. Len(queue)
      /\ ToSet(queue) = {queue[i] : i \in 1 .. Len(queue)}
      /\ queue \in Seq(Slots)
  BY QueueParts DEF QueueInv
<1> DEFINE n == Len(queue)
<1>3. /\ Append(queue, q) \in Seq(Slots) /\ Len(Append(queue, q)) = n + 1
      /\ \A i \in 1 .. n : Append(queue, q)[i] = queue[i]
      /\ Append(queue, q)[n + 1] = q
  BY <1>1, <1>2, AppendProperties
<1>4. /\ DOMAIN queue' = 1 .. n + 1 /\ ToSet(queue') = {queue'[i] : i \in 1 .. n + 1}
      /\ \A i \in 1 .. n : queue'[i] = queue[i] /\ queue'[i] \in ToSet(queue)
      /\ queue'[n + 1] = q
  <2>1. \A s \in Seq(Slots) : DOMAIN s = 1 .. Len(s)
                              /\ ToSet(s) = {s[i] : i \in 1 .. Len(s)}
    BY QueueParts
  <2> QED
    BY <1>1, <1>2, <1>3, <2>1
<1> HIDE DEF n
<1>5. n \in Nat
  BY <1>2 DEF n
<1>6. ToSet(queue') = ToSet(queue) \cup {q}
  <2>1. 1 .. n + 1 = (1 .. n) \cup {n + 1}
    BY <1>5
  <2> QED
    BY ONLY <1>2, <1>4, <2>1 DEF n
<1>7. q \notin ToSet(queue)
  BY <1>1 DEF QueueInv
<1>8. IsInjective(queue')
  <2>1. \A i \in 1 .. n + 1 : i \in 1 .. n \/ i = n + 1
    BY <1>5
  <2> QED
    BY <1>2, <1>4, <1>7, <2>1 DEF QueueInv, IsInjective, n
<1>9. /\ ToSet(queue') = (live' \cap Slots) \ lost'
      /\ lost' \subseteq live' \cap Slots
  BY <1>1, <1>6 DEF QueueInv
<1>10. queue' \in Seq(Slots)
  BY <1>1, <1>3
<1>11. QueueInv'
  BY ONLY <1>1, <1>8, <1>9, <1>10 DEF QueueInv
<1>12. q \in Cells
  BY <1>1, ChannelValuesAssumption
<1> QED
  BY <1>1, <1>11, <1>12

LEMMA Dequeued ==
  ASSUME QueueInv, queue # <<>>, open, queue' = Tail(queue),
         live' = live \ {Head(queue)}, open' = open, lost' = lost
  PROVE  QueueInv' /\ Head(queue) \in live \cap Slots
<1> DEFINE n == Len(queue)
<1>1. /\ n \in Nat /\ DOMAIN queue = 1 .. n
      /\ ToSet(queue) = {queue[i] : i \in 1 .. n}
      /\ queue \in Seq(Slots) /\ \A i \in 1 .. n : queue[i] \in Slots
  BY QueueParts DEF QueueInv
<1>2. n # 0
  BY EmptySeq, <1>1
<1>3. Head(queue) = queue[1] /\ 1 \in 1 .. n
  BY <1>1, <1>2, HeadTailProperties
<1>4. /\ Tail(queue) \in Seq(Slots) /\ Len(Tail(queue)) = n - 1
      /\ \A i \in 1 .. n - 1 : Tail(queue)[i] = queue[i + 1]
  BY <1>1, <1>2, HeadTailProperties
<1>5. /\ queue' \in Seq(Slots) /\ DOMAIN queue' = 1 .. n - 1
      /\ ToSet(queue') = {queue'[i] : i \in 1 .. n - 1}
      /\ \A i \in 1 .. n - 1 : queue'[i] = queue[i + 1]
  <2>1. \A s \in Seq(Slots) : DOMAIN s = 1 .. Len(s)
                              /\ ToSet(s) = {s[i] : i \in 1 .. Len(s)}
    BY QueueParts
  <2> QED
    BY <1>4, <2>1
<1> HIDE DEF n
<1>6. IsInjective(queue')
  <2>1. \A i \in 1 .. n - 1 : i + 1 \in 1 .. n
    BY <1>1
  <2>2. ASSUME NEW i \in 1 .. n - 1, NEW j \in 1 .. n - 1, queue'[i] = queue'[j]
        PROVE  i = j
    <3>1. i + 1 \in 1 .. n /\ j + 1 \in 1 .. n /\ queue[i + 1] = queue[j + 1]
      BY <1>5, <2>1, <2>2
    <3>2. i + 1 = j + 1
      BY <1>1, <3>1 DEF QueueInv, IsInjective
    <3> QED
      BY <3>2
  <2> QED
    BY <1>5, <2>2 DEF IsInjective
<1>7. ToSet(queue') = ToSet(queue) \ {queue[1]}
  <2>1. ASSUME NEW x \in ToSet(queue') PROVE x \in ToSet(queue) \ {queue[1]}
    <3>1. PICK i \in 1 .. n - 1 : x = queue[i + 1]
      BY <1>5
    <3>2. i + 1 \in 1 .. n /\ i + 1 # 1
      BY <1>1
    <3> QED
      BY <1>1, <1>3, <3>1, <3>2 DEF QueueInv, IsInjective
  <2>2. ASSUME NEW x \in ToSet(queue) \ {queue[1]} PROVE x \in ToSet(queue')
    <3>1. PICK i \in 1 .. n : x = queue[i]
      BY <1>1
    <3>2. i - 1 \in 1 .. n - 1 /\ (i - 1) + 1 = i
      BY <1>1, <3>1
    <3> QED
      BY <1>5, <3>1, <3>2
  <2> QED
    BY <2>1, <2>2
<1>8. queue[1] \in ToSet(queue)
  BY <1>1, <1>3
<1>9. /\ ToSet(queue') = (live' \cap Slots) \ lost'
      /\ lost' \subseteq live' \cap Slots
  BY <1>3, <1>7, <1>8 DEF QueueInv
<1>10. QueueInv'
  BY ONLY <1>5, <1>6, <1>9, open, open' = open DEF QueueInv
<1> QED
  BY <1>3, <1>8, <1>10 DEF QueueInv

(* A step of the clients that takes or leaves none of the slots.           *)
LEMMA QueueStays ==
  ASSUME QueueInv, UNCHANGED <<queue, open, lost>>,
         NEW c, c \notin Slots,
         live' = live \/ live' = live \cup {c} \/ live' = live \ {c}
  PROVE  QueueInv'
BY DEF QueueInv

LEMMA ValuesInit == ASSUME CInit PROVE ValuesInv
<1>1. /\ heap = [cell |-> [c \in Cells |-> Fresh], counter |-> <<>>,
                 released |-> <<>>, fault |-> FALSE]
      /\ live = {} /\ queue = <<>> /\ open /\ sole = {} /\ lost = {}
  BY DEF CInit, Init
<1>2. /\ heap.cell = [c \in Cells |-> Fresh]
      /\ heap.counter = <<>> /\ heap.released = <<>> /\ heap.fault = FALSE
      /\ Len(heap.counter) = 0 /\ Len(heap.released) = 0
  BY <1>1
<1>3. Fresh \in Cell /\ Fresh.refs = 0 /\ Fresh.payload = 0
  BY DEF Fresh, Cell, Types
<1>4. heap.counter \in Seq(Counter) /\ heap.released \in Seq(Nat)
  BY <1>2
<1>5. heap.cell \in [Cells -> Cell]
  BY <1>2, <1>3
<1>6. heap \in Heap
  BY <1>1, <1>2, <1>4, <1>5 DEF Heap
<1>7. SoundHeap(heap)
  BY <1>2, <1>3, <1>6 DEF SoundHeap
<1>8. Shape(heap, live)
  BY <1>1, <1>7, FS_EmptySet DEF Shape
<1>9. HeapInv(heap, live, sole, 0)
  BY <1>2, <1>8 DEF HeapInv
<1>10. QueueInv
  BY <1>1 DEF QueueInv, IsInjective, ToSet
<1> QED
  BY <1>9, <1>10 DEF ValuesInv

LEMMA ClientKeeps ==
  ASSUME ValuesInv, NEW c \in Clients, ClientStep(c)
  PROVE  ValuesInv'
<1>1. HeapInv(heap, live, sole, 0) /\ QueueInv
  BY DEF ValuesInv
<1>2. c \in Cells /\ c \notin Slots /\ UNCHANGED <<queue, open, sole, lost>>
  BY DEF Clients, ClientStep
<1>3. CASE New(c)
  <2>1. c \notin live /\ live' = live \cup {c} /\ "NULL" \in Types
    BY <1>3 DEF New, Types
  <2>2. heap' = [heap EXCEPT !.cell[c] = [type |-> "NULL", refs |-> 0, payload |-> 0]]
    BY <1>3 DEF New, Fresh
  <2>3. HeapInv([heap EXCEPT !.cell[c] = [type |-> "NULL", refs |-> 0, payload |-> 0]],
                live \cup {c}, sole, 0)
    BY ONLY <1>1, <1>2, <2>1, PlainKeeps
  <2>4. HeapInv(heap, live, sole, 0)'
    BY ONLY <1>2, <2>1, <2>2, <2>3
  <2>5. QueueInv'
    BY <1>1, <1>2, <2>1, QueueStays
  <2> QED
    BY <2>4, <2>5 DEF ValuesInv
<1>4. CASE SetPlain(c)
  <2>1. c \in live /\ live' = live /\ heap' = SetTo(heap, c, "PLAIN", 0)
    BY <1>4 DEF SetPlain
  <2>2. HeapInv(SetTo(heap, c, "PLAIN", 0), live, sole, 0)
    BY ONLY <1>1, <2>1, SetPlainKeeps
  <2>3. HeapInv(heap, live, sole, 0)'
    BY ONLY <1>2, <2>1, <2>2
  <2>4. QueueInv'
    BY <1>1, <1>2, <2>1, QueueStays
  <2> QED
    BY <2>3, <2>4 DEF ValuesInv
<1>5. CASE SetPayload(c)
  <2>1. /\ c \in live /\ live' = live
        /\ heap' = [SetTo(heap, c, "POINTER", Len(heap.released) + 1)
                      EXCEPT !.released = Append(@, 0)]
    BY <1>5 DEF SetPayload
  <2>2. HeapInv([SetTo(heap, c, "POINTER", Len(heap.released) + 1)
                   EXCEPT !.released = Append(@, 0)], live, sole, 0)
    BY ONLY <1>1, <2>1, SetPayloadKeeps
  <2>3. HeapInv(heap, live, sole, 0)'
    BY ONLY <1>2, <2>1, <2>2
  <2>4. QueueInv'
    BY <1>1, <1>2, <2>1, QueueStays
  <2> QED
    BY <2>3, <2>4 DEF ValuesInv
<1>6. CASE \E d \in Clients : AssignFrom(c, d)
  <2>1. PICK d \in Clients : AssignFrom(c, d)
    BY <1>6
  <2>2. /\ c \in live /\ d \in live /\ c # d /\ live' = live
        /\ heap' = Assign(heap, c, d) \/ heap' = heap
    BY <2>1 DEF AssignFrom
  <2>3. HeapInv(Assign(heap, c, d), live, sole, 0)
    BY ONLY <1>1, <2>2, AssignKeeps
  <2>4. HeapInv(heap, live, sole, 0)'
    BY ONLY <1>1, <1>2, <2>2, <2>3
  <2>5. QueueInv'
    BY <1>1, <1>2, <2>2, QueueStays
  <2> QED
    BY <2>4, <2>5 DEF ValuesInv
<1>7. CASE Free(c)
  <2>1. c \in live /\ live' = live \ {c} /\ heap' = Unref(heap, c)
    BY <1>7 DEF Free
  <2>2. HeapInv(Unref(heap, c), live \ {c}, sole, 0)
    BY <1>1, <2>1, UnrefKeeps DEF Uncounted
  <2>3. HeapInv(heap, live, sole, 0)'
    BY ONLY <1>2, <2>1, <2>2
  <2>4. QueueInv'
    BY <1>1, <1>2, <2>1, QueueStays
  <2> QED
    BY <2>3, <2>4 DEF ValuesInv
<1> QED
  BY <1>3, <1>4, <1>5, <1>6, <1>7 DEF ClientStep

LEMMA WriteKeeps ==
  ASSUME ValuesInv, NEW c \in Clients, NEW q \in Slots, WriteValue(c, q)
  PROVE  ValuesInv'
<1>1. HeapInv(heap, live, sole, 0) /\ QueueInv
  BY DEF ValuesInv
<1>2. c \in live /\ Enqueue(q)
  BY DEF WriteValue
<1>3. QueueInv' /\ q \notin live /\ q \in Cells /\ live' = live \cup {q}
  BY <1>1, <1>2, Enqueued
<1>4. sole' = sole \cup Lone(heap, c)
  BY DEF WriteValue, Lone
<1>5. \/ heap' = WriteCopy(heap, q, c)
      \/ NeedsCounter(heap, c) /\ heap' = Copy(heap, q, c)
  BY DEF WriteValue
<1>6. HeapInv(heap', live \cup {q}, sole \cup Lone(heap, c), 0)
  <2>1. CASE heap' = WriteCopy(heap, q, c)
    BY ONLY <1>1, <1>2, <1>3, <2>1, WriteCopyKeeps
  <2>2. CASE NeedsCounter(heap, c) /\ heap' = Copy(heap, q, c)
    BY ONLY <1>1, <1>2, <1>3, <2>2, LoneCopyKeeps
  <2> QED
    BY <1>5, <2>1, <2>2
<1>7. HeapInv(heap, live, sole, 0)'
  BY ONLY <1>3, <1>4, <1>6
<1> QED
  BY <1>3, <1>7 DEF ValuesInv

(* A copy that is lost: its counter counts it for ever, or has nothing to  *)
(* count it by.                                                            *)
LEMMA CountedLostKeeps ==
  ASSUME ValuesInv, NEW c \in Clients, NEW q \in Slots, LoseCounted(c, q)
  PROVE  ValuesInv'
<1>1. HeapInv(heap, live, sole, 0) /\ QueueInv
  BY DEF ValuesInv
<1>2. /\ c \in live /\ heap.cell[c].refs # 0 /\ q \notin live
      /\ heap' = WriteCopy(heap, q, c) /\ live' = live \cup {q}
      /\ lost' = lost \cup {q} /\ queue' = queue /\ open' = open /\ sole' = sole
  BY DEF LoseCounted, NotAdded
<1>3. q \in Cells
  BY ChannelValuesAssumption
<1>4. sole \cup Lone(heap, c) = sole
  BY <1>2 DEF Lone, NeedsCounter
<1>5. HeapInv(WriteCopy(heap, q, c), live \cup {q}, sole \cup Lone(heap, c), 0)
  BY ONLY <1>1, <1>2, <1>3, WriteCopyKeeps
<1>6. HeapInv(heap, live, sole, 0)'
  BY ONLY <1>2, <1>4, <1>5
<1>7. QueueInv'
  BY <1>1, <1>2 DEF QueueInv
<1> QED
  BY <1>6, <1>7 DEF ValuesInv

LEMMA UncountedLostKeeps ==
  ASSUME ValuesInv, NEW c \in Clients, LoseUncounted(c)
  PROVE  ValuesInv'
<1>1. HeapInv(heap, live, sole, 0) /\ QueueInv
  BY DEF ValuesInv
<1>2. /\ c \in live /\ heap.cell[c].refs = 0 /\ live' = live /\ lost' = lost
      /\ queue' = queue /\ open' = open /\ sole' = sole
      /\ heap' = Ref(heap, c) \/ heap' = heap
  BY DEF LoseUncounted, NotAdded
<1>3. HeapInv(Ref(heap, c), live, sole, 0)
  BY ONLY <1>1, <1>2, RefAloneKeeps
<1>4. HeapInv(heap, live, sole, 0)'
  BY ONLY <1>1, <1>2, <1>3
<1>5. QueueInv'
  BY <1>1, <1>2 DEF QueueInv
<1> QED
  BY <1>4, <1>5 DEF ValuesInv

LEMMA ErrorKeeps ==
  ASSUME ValuesInv, NEW c \in Clients, NEW q \in Slots, WriteError(c, q)
  PROVE  ValuesInv'
<1> DEFINE made == NewError(heap, c)
<1>1. HeapInv(heap, live, sole, 0) /\ QueueInv
  BY DEF ValuesInv
<1>2. c \notin live /\ c \in Cells /\ c # q /\ Enqueue(q)
  BY DEF WriteError, MayFailWith, Clients
<1>3. QueueInv' /\ q \notin live /\ q \in Cells /\ live' = live \cup {q}
  BY <1>1, <1>2, Enqueued
<1>4. /\ sole' = sole \cup {Len(heap.released) + 1}
      /\ \/ heap' = Unref(WriteCopy(made, q, c), c)
         \/ heap' = Unref(Copy(made, q, c), c)
  BY DEF WriteError
<1>5. \A g : g = WriteCopy(made, q, c) \/ g = Copy(made, q, c) =>
              HeapInv(Unref(g, c), live \cup {q},
                      sole \cup {Len(heap.released) + 1}, 0)
  BY ONLY <1>1, <1>2, <1>3, WriteErrorKeeps
<1> HIDE DEF made
<1>6. HeapInv(heap, live, sole, 0)'
  BY ONLY <1>3, <1>4, <1>5
<1> QED
  BY <1>3, <1>6 DEF ValuesInv

LEMMA ErrorLostKeeps ==
  ASSUME ValuesInv, NEW c \in Clients, LoseError(c)
  PROVE  ValuesInv'
<1> DEFINE made == NewError(heap, c)
<1>1. HeapInv(heap, live, sole, 0) /\ QueueInv
  BY DEF ValuesInv
<1>2. /\ c \notin live /\ c \in Cells /\ live' = live /\ lost' = lost
      /\ queue' = queue /\ open' = open /\ sole' = sole
      /\ heap' = Unref(Ref(made, c), c) \/ heap' = Unref(made, c)
  BY DEF LoseError, MayFailWith, NotAdded, Clients
<1>3. \A g : g = Ref(made, c) \/ g = made => HeapInv(Unref(g, c), live, sole, 0)
  BY ONLY <1>1, <1>2, LoseErrorKeeps
<1> HIDE DEF made
<1>4. HeapInv(heap, live, sole, 0)'
  BY ONLY <1>2, <1>3
<1>5. QueueInv'
  BY <1>1, <1>2 DEF QueueInv
<1> QED
  BY <1>4, <1>5 DEF ValuesInv

LEMMA MarkerKeeps ==
  ASSUME ValuesInv, NEW q \in Slots, WriteMarker(q)
  PROVE  ValuesInv'
<1> DEFINE g == [heap EXCEPT !.cell[q] = [type |-> "PLAIN", refs |-> 0, payload |-> 0]]
<1>1. HeapInv(heap, live, sole, 0) /\ QueueInv
  BY DEF ValuesInv
<1>2. Enqueue(q) /\ sole' = sole /\ "PLAIN" \in Types
  BY DEF WriteMarker, Types
<1>3. QueueInv' /\ q \notin live /\ q \in Cells /\ live' = live \cup {q}
  BY <1>1, <1>2, Enqueued
<1>4. heap' = g
  BY DEF WriteMarker, Fresh
<1>5. HeapInv(g, live \cup {q}, sole, 0)
  BY ONLY <1>1, <1>2, <1>3, PlainKeeps DEF g
<1> HIDE DEF g
<1>6. HeapInv(heap, live, sole, 0)'
  BY ONLY <1>2, <1>3, <1>4, <1>5
<1> QED
  BY <1>3, <1>6 DEF ValuesInv

LEMMA MarkerLostKeeps == ASSUME ValuesInv, LoseMarker PROVE ValuesInv'
<1>1. /\ heap' = heap /\ live' = live /\ queue' = queue /\ open' = open
      /\ sole' = sole /\ lost' = lost
  BY DEF LoseMarker, NotAdded
<1> QED
  BY ONLY <1>1, ValuesInv DEF ValuesInv, QueueInv

LEMMA ReadStepKeeps ==
  ASSUME ValuesInv, NEW c \in Clients, ReadValue(c)
  PROVE  ValuesInv'
<1> DEFINE q == Head(queue)
<1>1. HeapInv(heap, live, sole, 0) /\ QueueInv
  BY DEF ValuesInv
<1>2. /\ open /\ queue # <<>> /\ c \in live /\ c \notin Slots
      /\ heap' = ReadCopy(heap, c, q) /\ queue' = Tail(queue)
      /\ live' = live \ {q} /\ open' = open /\ sole' = sole /\ lost' = lost
  BY DEF ReadValue, Clients
<1>3. QueueInv' /\ q \in live \cap Slots
  BY <1>1, <1>2, Dequeued
<1> HIDE DEF q
<1>4. q \in live /\ c # q
  BY <1>2, <1>3
<1>5. HeapInv(ReadCopy(heap, c, q), live \ {q}, sole, 0)
  BY ONLY <1>1, <1>2, <1>4, ReadKeeps
<1>6. HeapInv(heap, live, sole, 0)'
  BY ONLY <1>2, <1>5
<1> QED
  BY <1>3, <1>6 DEF ValuesInv

LEMMA FreeChannelKeeps == ASSUME ValuesInv, FreeChannel PROVE ValuesInv'
<1>1. HeapInv(heap, live, sole, 0) /\ QueueInv
  BY DEF ValuesInv
<1>2. /\ open' = FALSE /\ heap' = LetGo(heap, queue) /\ queue' = <<>>
      /\ live' = live \ ToSet(queue) /\ sole' = sole /\ lost' = lost
  BY DEF FreeChannel, ReleaseQueue, LetGo
<1>3. /\ queue \in Seq(Slots) /\ IsInjective(queue)
      /\ ToSet(queue) = (live \cap Slots) \ lost
      /\ lost \subseteq live \cap Slots
  BY <1>1 DEF QueueInv
<1>4. queue \in Seq(live)
  <2>1. /\ Len(queue) \in Nat /\ DOMAIN queue = 1 .. Len(queue)
        /\ \A i \in 1 .. Len(queue) : queue[i] \in ToSet(queue)
    BY <1>3, QueueParts
  <2>2. queue \in [1 .. Len(queue) -> live]
    <3>1. queue \in [1 .. Len(queue) -> Slots]
      BY <1>3, LenProperties
    <3> QED
      BY <1>3, <2>1, <3>1
  <2> QED
    BY <2>1, <2>2, SeqDef
<1>5. HeapInv(LetGo(heap, queue), live \ ToSet(queue), sole, 0)
  BY ONLY <1>1, <1>3, <1>4, LetGoKeeps
<1>6. HeapInv(heap, live, sole, 0)'
  BY ONLY <1>2, <1>5
<1>7. QueueInv'
  <2>1. live' \cap Slots = lost'
    BY <1>2, <1>3
  <2> QED
    BY <1>2, <2>1 DEF QueueInv, IsInjective, ToSet
<1> QED
  BY <1>6, <1>7 DEF ValuesInv

LEMMA ValuesStep == ASSUME ValuesInv, [CNext]_cvars PROVE ValuesInv'
<1>1. CASE UNCHANGED cvars
  <2>1. /\ heap' = heap /\ live' = live /\ queue' = queue /\ open' = open
        /\ sole' = sole /\ lost' = lost
    BY <1>1 DEF cvars
  <2> QED
    BY ONLY <2>1, ValuesInv DEF ValuesInv, QueueInv
<1>2. CASE CNext
  BY <1>2, ClientKeeps, WriteKeeps, CountedLostKeeps, UncountedLostKeeps,
     ErrorKeeps, ErrorLostKeeps, MarkerKeeps, MarkerLostKeeps, ReadStepKeeps,
     FreeChannelKeeps
  DEF CNext
<1> QED
  BY <1>1, <1>2

LEMMA ValuesAlways == CSpec => []ValuesInv
BY ValuesInit, ValuesStep, PTL DEF CSpec

(* What the invariant says of the sets by which the properties are stated. *)
LEMMA HoldersAre ==
  ASSUME ValuesInv
  PROVE  /\ \A p \in 1 .. Len(heap.released) : Holders(p) = Hold(heap, live, p)
         /\ \A r \in 1 .. Len(heap.counter) : Sharers(r) = Share(heap, live, r)
         /\ DOMAIN heap.released = 1 .. Len(heap.released)
         /\ DOMAIN heap.counter = 1 .. Len(heap.counter)
         /\ Len(heap.counter) \in Nat /\ Len(heap.released) \in Nat
<1>1. HeapInv(heap, live, sole, 0)
  BY DEF ValuesInv
<1>2. Shape(heap, live) /\ heap \in Heap
  BY <1>1, InvHeap
<1>3. \A c \in live : /\ heap.cell[c].payload # 0 => heap.cell[c].type # "NULL"
                      /\ heap.cell[c].payload = 0 => heap.cell[c].refs = 0
  BY <1>2 DEF Shape, Formed
<1>4. /\ DOMAIN heap.released = 1 .. Len(heap.released)
      /\ DOMAIN heap.counter = 1 .. Len(heap.counter)
      /\ Len(heap.counter) \in Nat /\ Len(heap.released) \in Nat
  BY <1>2, HeapParts
<1>5. ASSUME NEW p \in 1 .. Len(heap.released) PROVE Holders(p) = Hold(heap, live, p)
  <2>1. p # 0
    BY <1>4
  <2> QED
    BY <1>3, <2>1 DEF Holders, Hold
<1>6. ASSUME NEW r \in 1 .. Len(heap.counter) PROVE Sharers(r) = Share(heap, live, r)
  <2>1. r # 0
    BY <1>4
  <2> QED
    BY <1>3, <2>1 DEF Sharers, Share
<1> QED
  BY <1>4, <1>5, <1>6

LEMMA ReleasedWithHolder ==
  ASSUME ValuesInv, NEW p \in (1 .. Len(heap.released)) \ sole
  PROVE  /\ heap.released[p] \in Nat /\ heap.released[p] <= 1
         /\ heap.released[p] = 0 => Hold(heap, live, p) # {}
         /\ heap.released[p] = 1 => Hold(heap, live, p) = {}
<1>1. HeapInv(heap, live, sole, 0)
  BY DEF ValuesInv
<1>2. heap.released[p] \in Nat
  BY <1>1, InvNumbers
<1>3. PayloadExact(heap, live, p, 0) /\ PayloadKept(heap, live, p)
  BY <1>1 DEF HeapInv
<1> QED
  BY <1>2, <1>3 DEF PayloadExact, ReleasedOnce, PayloadKept

LEMMA CounterWithSharers ==
  ASSUME ValuesInv, sole = {}, NEW r \in 1 .. Len(heap.counter)
  PROVE  \/ /\ heap.counter[r].freed = 0 /\ Share(heap, live, r) # {}
            /\ heap.counter[r].count = Cardinality(Share(heap, live, r))
         \/ heap.counter[r].freed = 1 /\ Share(heap, live, r) = {}
<1> DEFINE S == Share(heap, live, r)
<1>1. HeapInv(heap, live, sole, 0) /\ Shape(heap, live)
  BY InvHeap DEF ValuesInv
<1>2. CounterExact(heap, live, r) /\ CounterKept(heap, live, r, 0)
  BY <1>1 DEF HeapInv
<1>3. /\ heap.counter[r].freed \in Nat /\ heap.counter[r].count \in Nat
      /\ r # 0 /\ Extra(r, 0) = 0 /\ Cardinality(S) \in Nat
  <2>1. r # 0
    BY <1>1, InvHeap
  <2>2. Cardinality(S) \in Nat
    BY <1>1, SharesFinite
  <2> QED
    BY <1>1, <2>1, <2>2, InvNumbers DEF Extra
<1>4. CASE heap.counter[r].freed = 0
  <2>1. Cardinality(S) # 0
    <3>1. /\ heap.counter[r].count >= 1
          /\ heap.counter[r].count <= Cardinality(S) + Extra(r, 0)
      BY ONLY <1>2, <1>4 DEF CounterKept, S
    <3> DEFINE a == heap.counter[r].count
               m == Cardinality(S)
    <3>2. a \in Nat /\ m \in Nat /\ a >= 1 /\ a <= m
      BY <1>3, <3>1
    <3> HIDE DEF a, m
    <3>3. m # 0
      BY ONLY <3>2
    <3> QED
      BY ONLY <3>3 DEF m
  <2>2. S # {}
    BY ONLY <2>1, FS_EmptySet
  <2>3. PICK c \in S : TRUE
    BY <2>2
  <2>4. /\ c \in live /\ heap.cell[c].refs = r
        /\ heap.cell[c].payload \in 1 .. Len(heap.released)
    <3>1. c \in live /\ heap.cell[c].refs = r
      BY <2>3 DEF Share
    <3> QED
      BY <1>1, <1>3, <3>1, InvCells, InvHeap
  <2>5. PayloadExact(heap, live, heap.cell[c].payload, 0)
    BY <1>1, <2>4 DEF HeapInv
  <2>6. ExactCount(heap, live, r, 0)
    BY <2>4, <2>5 DEF PayloadExact, Hold
  <2>7. heap.counter[r].count = Cardinality(S)
    BY <1>3, <2>6 DEF ExactCount
  <2> QED
    BY <1>4, <2>2, <2>7
<1>5. CASE heap.counter[r].freed # 0
  <2>1. heap.counter[r].freed = 1
    BY <1>2, <1>3, <1>5 DEF CounterExact
  <2> QED
    BY <1>2, <2>1 DEF CounterExact
<1> QED
  BY <1>4, <1>5

(* A payload that was not written by its only holder is released once,     *)
(* when the last value that holds it lets it go, be it queued or a         *)
(* client's; while all payloads are such, every counter is exact and goes  *)
(* with its last sharer.                                                   *)
THEOREM ValuesTravelSafely == CSpec => []SharedTravelsSafely
<1>1. ASSUME ValuesInv, NEW p \in DOMAIN heap.released \ sole
      PROVE  /\ heap.released[p] <= 1
             /\ (heap.released[p] = 0) <=> (Holders(p) # {})
  <2>1. p \in (1 .. Len(heap.released)) \ sole /\ Holders(p) = Hold(heap, live, p)
    BY <1>1, HoldersAre
  <2>2. /\ heap.released[p] \in Nat /\ heap.released[p] <= 1
        /\ heap.released[p] = 0 => Hold(heap, live, p) # {}
        /\ heap.released[p] = 1 => Hold(heap, live, p) = {}
    BY <1>1, <2>1, ReleasedWithHolder
  <2>3. heap.released[p] = 0 \/ heap.released[p] = 1
    BY ONLY <2>2
  <2> QED
    BY <2>1, <2>2, <2>3
<1>2. ASSUME ValuesInv, sole = {} PROVE ReleasedWithLastHolder
  <2>1. ~heap.fault
    BY <1>2 DEF ValuesInv, HeapInv
  <2>2. ASSUME NEW p \in DOMAIN heap.released
        PROVE  heap.released[p] = IF Holders(p) = {} THEN 1 ELSE 0
    <3>1. p \in (1 .. Len(heap.released)) \ sole /\ Holders(p) = Hold(heap, live, p)
      BY <1>2, HoldersAre
    <3>2. /\ heap.released[p] \in Nat /\ heap.released[p] <= 1
          /\ heap.released[p] = 0 => Hold(heap, live, p) # {}
          /\ heap.released[p] = 1 => Hold(heap, live, p) = {}
      BY <1>2, <3>1, ReleasedWithHolder
    <3>3. heap.released[p] = 0 \/ heap.released[p] = 1
      BY ONLY <3>2
    <3> QED
      BY <3>1, <3>2, <3>3
  <2>3. ASSUME NEW r \in DOMAIN heap.counter
        PROVE  heap.counter[r].freed = IF Sharers(r) = {} THEN 1 ELSE 0
    <3>1. r \in 1 .. Len(heap.counter) /\ Sharers(r) = Share(heap, live, r)
      BY <1>2, HoldersAre
    <3> QED
      BY <1>2, <3>1, CounterWithSharers
  <2> QED
    BY <2>1, <2>2, <2>3 DEF ReleasedWithLastHolder
<1>3. ASSUME ValuesInv, sole = {} PROVE CountIsSharers
  <2>1. ASSUME NEW r \in DOMAIN heap.counter
        PROVE  IF heap.counter[r].freed = 0
               THEN heap.counter[r].count = Cardinality(Sharers(r)) /\ Sharers(r) # {}
               ELSE Sharers(r) = {}
    <3>1. r \in 1 .. Len(heap.counter) /\ Sharers(r) = Share(heap, live, r)
      BY <1>3, HoldersAre
    <3> QED
      BY <1>3, <3>1, CounterWithSharers
  <2>2. ASSUME NEW c \in live, NEW d \in live, c # d,
               heap.cell[c].payload # 0, heap.cell[c].payload = heap.cell[d].payload
        PROVE  heap.cell[c].refs = heap.cell[d].refs /\ heap.cell[c].refs # 0
    <3> DEFINE p == heap.cell[c].payload
    <3>1. HeapInv(heap, live, sole, 0)
      BY <1>3 DEF ValuesInv
    <3>2. p \in (1 .. Len(heap.released)) \ sole
      BY <1>3, <2>2, <3>1, InvCells, InvHeap
    <3>3. OneCounter(heap, live, p)
      BY <3>1, <3>2 DEF HeapInv, PayloadExact
    <3> QED
      BY <2>2, <3>3 DEF OneCounter, Hold
  <2> QED
    BY <2>1, <2>2 DEF CountIsSharers
<1>4. ValuesInv => SharedTravelsSafely
  BY <1>1, <1>2, <1>3 DEF SharedTravelsSafely
<1> QED
  BY <1>4, ValuesAlways, PTL

(* When the channel and all values are gone no payload is left of which no *)
(* counted copy was lost, not even one that was written by its only        *)
(* holder.                                                                 *)
THEOREM NothingStaysBehind == CSpec => []NothingLeaked
<1>1. ASSUME ValuesInv, live \subseteq lost, NEW p \in DOMAIN heap.released
      PROVE  heap.released[p] >= 1 \/ \E q \in lost : heap.cell[q].payload = p
  <2>1. HeapInv(heap, live, sole, 0) /\ p \in 1 .. Len(heap.released)
    BY <1>1, HoldersAre DEF ValuesInv
  <2>2. PayloadKept(heap, live, p) /\ heap.released[p] \in Nat
    BY <2>1, InvNumbers DEF HeapInv
  <2>3. CASE heap.released[p] = 0
    <3>1. PICK q \in Hold(heap, live, p) : TRUE
      BY <2>2, <2>3 DEF PayloadKept
    <3> QED
      BY <1>1, <3>1 DEF Hold
  <2>4. CASE heap.released[p] # 0
    BY <2>2, <2>4
  <2> QED
    BY <2>3, <2>4
<1>2. ValuesInv => NothingLeaked
  BY <1>1 DEF NothingLeaked
<1> QED
  BY <1>2, ValuesAlways, PTL
=============================================================================
