------------------------- MODULE Collections_proofs -------------------------
(***************************************************************************)
(* Proofs about the clients in Collections, whichever calls fail: a GMap   *)
(* is a finite function, for any keys and any number of calls; a           *)
(* GMemoryStream is a file and a GString a prefix of what was put in it,   *)
(* for any bytes, capacities and lengths; a GArray, a GPtrArray and a      *)
(* GList are lists, for any items and sizes.                               *)
(***************************************************************************)
EXTENDS Collections, DataTheorems

LEMMA Assumptions == Keys \subseteq Nat \ {0} /\ MaxSets \in Nat
BY CollectionsAssumption DEF Map!MapAssumption

-----------------------------------------------------------------------------
(* g_map_lookup halves a range of places until it is empty or its middle   *)
(* has the key.                                                            *)
Sorted ==
  /\ data \in Seq(Map!Entry)
  /\ \A i, j \in 1 .. Len(data) : i < j => data[i].key < data[j].key

Pairs == (0 .. Len(data)) \X (-1 .. Len(data) - 1)
Middle(at) == (at[1] + at[2]) \div 2
LookAt(f, key, at) ==
  LET l == at[1]
      r == at[2]
      m == (l + r) \div 2
      k == data[m + 1].key
  IN  IF l > r THEN <<r, l>>
      ELSE IF key = k THEN <<m, m>>
      ELSE f[IF key < k THEN <<l, m - 1>> ELSE <<m + 1, r>>]
IsSearch(f, key) == f = [at \in Pairs |-> LookAt(f, key, at)]
Searches(key) == CHOOSE f : IsSearch(f, key)
PairsUpto(n) == {at \in Pairs : at[2] - at[1] + 1 <= n}

LEMMA LookupIs ==
  ASSUME NEW key, data # <<>>
  PROVE  Map!Lookup(key) = Searches(key)[<<0, Len(data) - 1>>]
BY DEF Map!Lookup, Searches, IsSearch, LookAt, Pairs

LEMMA EntryTypes ==
  ASSUME Sorted
  PROVE  /\ Len(data) \in Nat /\ DOMAIN data = 1 .. Len(data)
         /\ \A i \in 1 .. Len(data) : data[i] \in Map!Entry /\ data[i].key \in Nat
<1>1. Len(data) \in Nat /\ DOMAIN data = 1 .. Len(data)
  BY LenProperties DEF Sorted
<1>2. ASSUME NEW i \in 1 .. Len(data) PROVE data[i] \in Map!Entry /\ data[i].key \in Nat
  <2>1. data[i] \in Map!Entry
    BY <1>1, ElementOfSeq DEF Sorted
  <2> QED
    BY <2>1, Assumptions DEF Map!Entry
<1> QED
  BY <1>1, <1>2

LEMMA MiddleOf ==
  ASSUME Sorted, NEW at \in Pairs, at[1] <= at[2]
  PROVE  /\ at[1] \in Nat /\ at[2] \in Nat /\ at[2] < Len(data)
         /\ Middle(at) \in Nat /\ at[1] <= Middle(at) /\ Middle(at) <= at[2]
         /\ Middle(at) + 1 \in 1 .. Len(data)
         /\ <<at[1], Middle(at) - 1>> \in Pairs
         /\ <<Middle(at) + 1, at[2]>> \in Pairs
<1>1. Len(data) \in Nat
  BY EntryTypes
<1> DEFINE l == at[1]
           r == at[2]
<1>2. l \in 0 .. Len(data) /\ r \in -1 .. Len(data) - 1 /\ l <= r
  BY DEF Pairs
<1> HIDE DEF l, r
<1>3. (l + r) \div 2 \in Nat /\ l <= (l + r) \div 2 /\ (l + r) \div 2 <= r
  BY <1>1, <1>2
<1> DEFINE m == (l + r) \div 2
<1>4. Middle(at) = m
  BY DEF Middle, l, r
<1> HIDE DEF m
<1>5. m \in Nat /\ l <= m /\ m <= r
  BY <1>3 DEF m
<1>6. /\ l \in Nat /\ r \in Nat /\ r < Len(data) /\ m + 1 \in 1 .. Len(data)
      /\ m - 1 \in -1 .. Len(data) - 1 /\ m + 1 \in 0 .. Len(data)
  BY <1>1, <1>2, <1>5
<1>7. <<l, m - 1>> \in Pairs /\ <<m + 1, r>> \in Pairs
  BY <1>2, <1>6 DEF Pairs
<1> QED
  BY <1>4, <1>5, <1>6, <1>7 DEF l, r

LEMMA LookAtIs ==
  ASSUME Sorted, NEW f, NEW key \in Nat, NEW at \in Pairs
  PROVE  /\ at[1] > at[2] => LookAt(f, key, at) = <<at[2], at[1]>>
         /\ at[1] <= at[2] /\ key = data[Middle(at) + 1].key =>
              LookAt(f, key, at) = <<Middle(at), Middle(at)>>
         /\ at[1] <= at[2] /\ key < data[Middle(at) + 1].key =>
              LookAt(f, key, at) = f[<<at[1], Middle(at) - 1>>]
         /\ at[1] <= at[2] /\ key > data[Middle(at) + 1].key =>
              LookAt(f, key, at) = f[<<Middle(at) + 1, at[2]>>]
<1>1. Len(data) \in Nat
  BY EntryTypes
<1>2. at[1] \in Int /\ at[2] \in Int
  BY <1>1 DEF Pairs
<1>3. CASE at[1] > at[2]
  BY <1>2, <1>3 DEF LookAt
<1>4. CASE at[1] <= at[2]
  <2>1. Middle(at) + 1 \in 1 .. Len(data)
    BY <1>4, MiddleOf
  <2> DEFINE k == data[Middle(at) + 1].key
  <2>2. k \in Nat
    BY <2>1, EntryTypes
  <2>3. LookAt(f, key, at) =
          IF key = k THEN <<Middle(at), Middle(at)>>
          ELSE f[IF key < k THEN <<at[1], Middle(at) - 1>> ELSE <<Middle(at) + 1, at[2]>>]
    BY <1>2, <1>4 DEF LookAt, Middle
  <2> HIDE DEF k
  <2>5. ASSUME key = k PROVE LookAt(f, key, at) = <<Middle(at), Middle(at)>>
    BY <2>3, <2>5
  <2>6. ASSUME key < k PROVE LookAt(f, key, at) = f[<<at[1], Middle(at) - 1>>]
    <3>1. key # k
      BY <2>2, <2>6
    <3> QED
      BY <2>3, <2>6, <3>1
  <2>7. ASSUME key > k PROVE LookAt(f, key, at) = f[<<Middle(at) + 1, at[2]>>]
    <3>1. key # k /\ ~(key < k)
      BY <2>2, <2>7
    <3> QED
      BY <2>3, <3>1
  <2>8. ~(at[1] > at[2])
    BY <1>2, <1>4
  <2> QED
    BY <2>5, <2>6, <2>7, <2>8 DEF k
<1> QED
  BY <1>2, <1>3, <1>4

(* What the search finds in a range depends on smaller ranges only.        *)
LEMMA LookAtSame ==
  ASSUME Sorted, NEW f, NEW g, NEW key \in Nat, NEW n \in Nat,
         NEW at \in PairsUpto(n + 1),
         \A p \in PairsUpto(n) : f[p] = g[p]
  PROVE  LookAt(f, key, at) = LookAt(g, key, at)
<1>1. Len(data) \in Nat /\ at \in Pairs /\ at[1] \in Int /\ at[2] \in Int
  BY EntryTypes DEF Pairs, PairsUpto
<1>2. CASE at[1] > at[2]
  BY <1>1, <1>2, LookAtIs
<1>3. CASE at[1] <= at[2]
  <2>1. /\ <<at[1], Middle(at) - 1>> \in Pairs /\ <<Middle(at) + 1, at[2]>> \in Pairs
        /\ Middle(at) \in Nat /\ at[1] <= Middle(at) /\ Middle(at) <= at[2]
        /\ data[Middle(at) + 1].key \in Nat
    BY <1>1, <1>3, MiddleOf, EntryTypes
  <2>2. /\ (Middle(at) - 1) - at[1] + 1 <= n
        /\ at[2] - (Middle(at) + 1) + 1 <= n
    <3> DEFINE l == at[1]
               r == at[2]
               m == Middle(at)
    <3>1. r - l + 1 <= n + 1
      BY DEF PairsUpto
    <3>2. l \in Int /\ r \in Int /\ m \in Nat /\ l <= m /\ m <= r
      BY <1>1, <2>1
    <3> HIDE DEF l, r, m
    <3>3. (m - 1) - l + 1 <= n /\ r - (m + 1) + 1 <= n
      BY ONLY <3>1, <3>2, n \in Nat
    <3> QED
      BY <3>3 DEF l, r, m
  <2>3. <<at[1], Middle(at) - 1>> \in PairsUpto(n) /\ <<Middle(at) + 1, at[2]>> \in PairsUpto(n)
    BY <2>1, <2>2 DEF PairsUpto
  <2>4. /\ f[<<at[1], Middle(at) - 1>>] = g[<<at[1], Middle(at) - 1>>]
        /\ f[<<Middle(at) + 1, at[2]>>] = g[<<Middle(at) + 1, at[2]>>]
    BY <2>3
  <2>5. CASE key = data[Middle(at) + 1].key
    <3>1. /\ LookAt(f, key, at) = <<Middle(at), Middle(at)>>
          /\ LookAt(g, key, at) = <<Middle(at), Middle(at)>>
      BY <1>1, <1>3, <2>5, LookAtIs
    <3> QED
      BY <3>1
  <2>6. CASE key < data[Middle(at) + 1].key
    BY <1>1, <1>3, <2>4, <2>6, LookAtIs
  <2>7. CASE key > data[Middle(at) + 1].key
    BY <1>1, <1>3, <2>4, <2>7, LookAtIs
  <2> QED
    BY <2>1, <2>5, <2>6, <2>7
<1> QED
  BY <1>1, <1>2, <1>3

LEMMA SearchExists == ASSUME Sorted, NEW key \in Nat PROVE IsSearch(Searches(key), key)
<1> DEFINE IsPart(n, f) == f = [at \in PairsUpto(n) |-> LookAt(f, key, at)]
           P == {n \in Nat : \E f : IsPart(n, f)}
<1>1. Len(data) \in Nat
  BY EntryTypes
<1>2. 0 \in P
  <2> DEFINE none == [at \in PairsUpto(0) |-> <<at[2], at[1]>>]
  <2>1. ASSUME NEW at \in PairsUpto(0) PROVE none[at] = LookAt(none, key, at)
    <3>1. at \in Pairs /\ at[1] > at[2]
      BY <1>1 DEF Pairs, PairsUpto
    <3> QED
      BY <3>1, LookAtIs
  <2>2. IsPart(0, none)
    BY <2>1
  <2> QED
    BY <2>2
<1>3. ASSUME NEW n \in Nat, n \in P PROVE n + 1 \in P
  <2>1. PICK f : IsPart(n, f)
    BY <1>3
  <2> DEFINE more == [at \in PairsUpto(n + 1) |-> LookAt(f, key, at)]
  <2>2. \A at \in PairsUpto(n) : at \in PairsUpto(n + 1)
    BY <1>1 DEF PairsUpto, Pairs
  <2>3. \A at \in PairsUpto(n) : f[at] = more[at]
    BY <2>1, <2>2
  <2>4. more = [at \in PairsUpto(n + 1) |-> more[at]]
    OBVIOUS
  <2>5. \A at \in PairsUpto(n + 1) : more[at] = LookAt(f, key, at)
    OBVIOUS
  <2> HIDE DEF more
  <2>6. \A at \in PairsUpto(n + 1) : more[at] = LookAt(more, key, at)
    BY <2>3, <2>5, LookAtSame
  <2>7. IsPart(n + 1, more)
    BY <2>4, <2>6
  <2> HIDE DEF IsPart
  <2>8. n + 1 \in Nat
    OBVIOUS
  <2> QED
    BY <2>7, <2>8
<1> HIDE DEF P
<1>4. Len(data) \in P
  BY <1>1, <1>2, <1>3, NaturalInduction
<1>5. PairsUpto(Len(data)) = Pairs
  BY <1>1 DEF PairsUpto, Pairs
<1>6. \E f : IsSearch(f, key)
  BY <1>4, <1>5 DEF P, IsSearch
<1> QED
  BY <1>6 DEF Searches

(* The search ends on the key, or to the left of the first larger one.     *)
Located(p, key) ==
  \/ /\ p[1] = p[2] /\ p[1] \in 0 .. Len(data) - 1
     /\ data[p[1] + 1].key = key
  \/ /\ p[2] \in 0 .. Len(data) /\ p[1] = p[2] - 1
     /\ \A i \in 1 .. Len(data) : IF i <= p[2] THEN data[i].key < key ELSE data[i].key > key
(* What is left and right of the range has smaller and larger keys.        *)
Around(at, key) ==
  /\ at[1] <= at[2] + 1
  /\ \A i \in 1 .. Len(data) : i <= at[1] => data[i].key < key
  /\ \A i \in 1 .. Len(data) : i > at[2] + 1 => data[i].key > key

LEMMA LookAtLocates ==
  ASSUME Sorted, NEW f, NEW key \in Nat, NEW n \in Nat,
         NEW at \in PairsUpto(n + 1), Around(at, key),
         \A p \in PairsUpto(n) : Around(p, key) => Located(f[p], key)
  PROVE  Located(LookAt(f, key, at), key)
<1>1. Len(data) \in Nat /\ at \in Pairs /\ at[1] \in Nat /\ at[2] \in Int
      /\ at[1] <= Len(data)
  BY EntryTypes DEF Pairs, PairsUpto
<1>2. CASE at[1] > at[2]
  <2>1. LookAt(f, key, at) = <<at[2], at[1]>>
    BY <1>1, <1>2, LookAtIs
  <2>2. at[2] = at[1] - 1 /\ at[1] \in 0 .. Len(data)
    BY <1>1, <1>2 DEF Around
  <2>3. \A i \in 1 .. Len(data) : IF i <= at[1] THEN data[i].key < key ELSE data[i].key > key
    BY <1>1, <2>2 DEF Around
  <2> QED
    BY <2>1, <2>2, <2>3 DEF Located
<1>3. CASE at[1] <= at[2]
  <2> DEFINE m == Middle(at)
  <2>1. /\ <<at[1], m - 1>> \in Pairs /\ <<m + 1, at[2]>> \in Pairs
        /\ m \in Nat /\ at[1] <= m /\ m <= at[2]
        /\ m + 1 \in 1 .. Len(data)
    BY <1>1, <1>3, MiddleOf
  <2> HIDE DEF m
  <2>2. (m - 1) - at[1] + 1 <= n /\ at[2] - (m + 1) + 1 <= n
    BY <1>1, <2>1 DEF PairsUpto
  <2>3. <<at[1], m - 1>> \in PairsUpto(n) /\ <<m + 1, at[2]>> \in PairsUpto(n)
    BY <2>1, <2>2 DEF PairsUpto
  <2>4. \A i \in 1 .. Len(data) : data[i].key \in Nat
    BY EntryTypes
  <2>5. CASE key = data[m + 1].key
    <3>1. LookAt(f, key, at) = <<m, m>>
      BY <1>1, <1>3, <2>5, LookAtIs DEF m
    <3>2. m \in 0 .. Len(data) - 1
      BY <1>1, <2>1
    <3> QED
      BY <2>5, <3>1, <3>2 DEF Located
  <2>6. CASE key < data[m + 1].key
    <3>1. LookAt(f, key, at) = f[<<at[1], m - 1>>]
      BY <1>1, <1>3, <2>6, LookAtIs DEF m
    <3>2. ASSUME NEW i \in 1 .. Len(data), i > m
          PROVE  data[i].key > key
      <4>1. i = m + 1 \/ data[m + 1].key < data[i].key
        BY <1>1, <2>1, <3>2 DEF Sorted
      <4> QED
        BY <2>1, <2>4, <2>6, <4>1
    <3>3. Around(<<at[1], m - 1>>, key)
      BY <1>1, <2>1, <3>2 DEF Around
    <3> QED
      BY <2>3, <3>1, <3>3
  <2>7. CASE key > data[m + 1].key
    <3>1. LookAt(f, key, at) = f[<<m + 1, at[2]>>]
      BY <1>1, <1>3, <2>7, LookAtIs DEF m
    <3>2. ASSUME NEW i \in 1 .. Len(data), i <= m + 1
          PROVE  data[i].key < key
      <4>1. i = m + 1 \/ data[i].key < data[m + 1].key
        BY <1>1, <2>1, <3>2 DEF Sorted
      <4> QED
        BY <2>1, <2>4, <2>7, <4>1
    <3>3. Around(<<m + 1, at[2]>>, key)
      BY <1>1, <2>1, <3>2 DEF Around
    <3> QED
      BY <2>3, <3>1, <3>3
  <2> QED
    BY <2>1, <2>4, <2>5, <2>6, <2>7
<1> QED
  BY <1>1, <1>2, <1>3

LEMMA SearchLocates ==
  ASSUME Sorted, NEW key \in Nat, data # <<>>
  PROVE  Located(Map!Lookup(key), key)
<1> DEFINE f == Searches(key)
           P == {n \in Nat : \A p \in PairsUpto(n) : Around(p, key) => Located(f[p], key)}
<1>1. Len(data) \in Nat
  BY EntryTypes
<1>2. IsSearch(f, key)
  BY SearchExists
<1> HIDE DEF f
<1>3. \A at \in Pairs : f[at] = LookAt(f, key, at)
  BY <1>2 DEF IsSearch
<1>4. 0 \in P
  <2> SUFFICES ASSUME NEW p \in PairsUpto(0), Around(p, key) PROVE Located(f[p], key)
    OBVIOUS
  <2>1. p \in Pairs /\ p[1] \in Nat /\ p[2] \in Int /\ p[1] > p[2] /\ p[1] <= Len(data)
    BY <1>1 DEF Pairs, PairsUpto
  <2>2. f[p] = <<p[2], p[1]>>
    BY <1>3, <2>1, LookAtIs
  <2>3. p[2] = p[1] - 1 /\ p[1] \in 0 .. Len(data)
    BY <1>1, <2>1 DEF Around
  <2>4. \A i \in 1 .. Len(data) : IF i <= p[1] THEN data[i].key < key ELSE data[i].key > key
    BY <1>1, <2>1, <2>3 DEF Around
  <2> QED
    BY <2>2, <2>3, <2>4 DEF Located
<1>5. ASSUME NEW n \in Nat, n \in P PROVE n + 1 \in P
  <2> SUFFICES ASSUME NEW p \in PairsUpto(n + 1), Around(p, key) PROVE Located(f[p], key)
    OBVIOUS
  <2>1. Located(LookAt(f, key, p), key)
    BY <1>5, LookAtLocates
  <2> QED
    BY <1>3, <2>1 DEF PairsUpto
<1> HIDE DEF P
<1>6. Len(data) \in P
  BY <1>1, <1>4, <1>5, NaturalInduction
<1> DEFINE all == <<0, Len(data) - 1>>
<1>7. Len(data) >= 1
  BY <1>1, EmptySeq DEF Sorted
<1>8. all \in PairsUpto(Len(data))
  BY <1>1, <1>7 DEF PairsUpto, Pairs
<1>9. Around(all, key)
  BY <1>1, <1>7 DEF Around
<1>10. Map!Lookup(key) = f[all]
  BY LookupIs DEF f
<1> QED
  BY <1>6, <1>8, <1>9, <1>10 DEF P

LEMMA IndexFinds ==
  ASSUME Sorted, NEW key \in Keys
  PROVE  /\ Map!Index(key) \in 0 .. Len(data)
         /\ Map!Index(key) # 0 => data[Map!Index(key)].key = key
         /\ Map!Index(key) = 0 => \A i \in 1 .. Len(data) : data[i].key # key
         /\ Map!Index(key) = 0 =>
              /\ Map!InsertPosition(key) \in 0 .. Len(data)
              /\ \A i \in 1 .. Len(data) :
                   IF i <= Map!InsertPosition(key) THEN data[i].key < key
                                                   ELSE data[i].key > key
<1>1. Len(data) \in Nat /\ key \in Nat /\ \A i \in 1 .. Len(data) : data[i].key \in Nat
  BY EntryTypes, Assumptions
<1>2. CASE data = <<>>
  <2>1. Map!Lookup(key) = <<-1, -1>>
    BY <1>2 DEF Map!Lookup
  <2>2. Map!Index(key) = 0
    BY <2>1 DEF Map!Index
  <2>3. Map!InsertPosition(key) = 0 /\ Len(data) = 0
    BY <1>2, EmptySeq DEF Map!InsertPosition
  <2> QED
    BY <1>1, <2>2, <2>3
<1>3. CASE data # <<>>
  <2> DEFINE p == Map!Lookup(key)
  <2>1. Located(p, key)
    BY <1>1, <1>3, SearchLocates
  <2>2. Map!Index(key) = (IF p[1] = p[2] THEN p[1] + 1 ELSE 0) /\ Map!InsertPosition(key) = p[2]
    BY <1>3 DEF Map!Index, Map!InsertPosition
  <2> HIDE DEF p
  <2>3. CASE p[1] = p[2] /\ p[1] \in 0 .. Len(data) - 1 /\ data[p[1] + 1].key = key
    <3>1. Map!Index(key) = p[1] + 1
      BY <2>2, <2>3
    <3>2. p[1] + 1 \in 0 .. Len(data) /\ p[1] + 1 # 0
      BY <1>1, <2>3
    <3> QED
      BY <2>3, <3>1, <3>2
  <2>4. CASE /\ p[2] \in 0 .. Len(data) /\ p[1] = p[2] - 1
             /\ \A i \in 1 .. Len(data) : IF i <= p[2] THEN data[i].key < key ELSE data[i].key > key
    <3>1. p[1] # p[2]
      BY <1>1, <2>4
    <3>2. Map!Index(key) = 0
      BY <2>2, <3>1
    <3>3. \A i \in 1 .. Len(data) : data[i].key # key
      BY <1>1, <2>4
    <3> QED
      BY <1>1, <2>2, <2>4, <3>2, <3>3
  <2> QED
    BY <2>1, <2>3, <2>4 DEF Located
<1> QED
  BY <1>2, <1>3

-----------------------------------------------------------------------------
(* Three changes keep an array sorted.                                     *)
SortedSeq(d) ==
  /\ d \in Seq(Map!Entry)
  /\ \A i, j \in 1 .. Len(d) : i < j => d[i].key < d[j].key

LEMMA SortedIs == Sorted <=> SortedSeq(data)
BY DEF Sorted, SortedSeq

LEMMA ReplaceKeepsSorted ==
  ASSUME Sorted, NEW i \in 1 .. Len(data), NEW e \in Map!Entry, e.key = data[i].key
  PROVE  /\ SortedSeq([data EXCEPT ![i] = e]) /\ Len([data EXCEPT ![i] = e]) = Len(data)
         /\ \A j \in 1 .. Len(data) :
              [data EXCEPT ![i] = e][j] = IF j = i THEN e ELSE data[j]
<1>1. data \in Seq(Map!Entry) /\ DOMAIN data = 1 .. Len(data)
  BY EntryTypes DEF Sorted
<1> DEFINE d == [data EXCEPT ![i] = e]
<1>2. d \in Seq(Map!Entry) /\ Len(d) = Len(data)
  BY <1>1, ExceptSeq
<1>3. \A j \in 1 .. Len(data) : d[j] = IF j = i THEN e ELSE data[j]
  BY <1>1
<1> HIDE DEF d
<1>4. \A j \in 1 .. Len(data) : d[j].key = data[j].key
  BY <1>3
<1>5. SortedSeq(d)
  BY <1>2, <1>4 DEF Sorted, SortedSeq
<1> QED
  BY <1>2, <1>3, <1>5 DEF d

LEMMA InsertKeepsSorted ==
  ASSUME Sorted, NEW p \in 0 .. Len(data), NEW e \in Map!Entry,
         \A i \in 1 .. Len(data) :
           IF i <= p THEN data[i].key < e.key ELSE data[i].key > e.key
  PROVE  /\ SortedSeq(Map!InsertAt(data, p + 1, e))
         /\ Len(Map!InsertAt(data, p + 1, e)) = Len(data) + 1
         /\ \A j \in 1 .. Len(data) + 1 :
              Map!InsertAt(data, p + 1, e)[j] = IF j < p + 1 THEN data[j]
                                                ELSE IF j = p + 1 THEN e ELSE data[j - 1]
<1> DEFINE d == Map!InsertAt(data, p + 1, e)
<1>1. Len(data) \in Nat /\ \A i \in 1 .. Len(data) : data[i].key \in Nat
  BY EntryTypes
<1> DEFINE k == p + 1
<1>2. d = InsertAt(data, k, e)
  BY DEF InsertAt, Map!InsertAt
<1>3. k \in 1 .. Len(data) + 1 /\ k = p + 1 /\ data \in Seq(Map!Entry)
  BY <1>1 DEF Sorted
<1> HIDE DEF d, k
<1>4. /\ d \in Seq(Map!Entry) /\ Len(d) = Len(data) + 1
      /\ \A j \in 1 .. Len(data) + 1 :
           d[j] = IF j < p + 1 THEN data[j] ELSE IF j = p + 1 THEN e ELSE data[j - 1]
  <2>1. /\ InsertAt(data, k, e) \in Seq(Map!Entry)
        /\ Len(InsertAt(data, k, e)) = Len(data) + 1
        /\ \A j \in 1 .. Len(data) + 1 :
             InsertAt(data, k, e)[j] = IF j < k THEN data[j]
                                       ELSE IF j = k THEN e ELSE data[j - 1]
    BY <1>3, InsertAtProperties
  <2> QED
    BY <1>2, <1>3, <2>1
<1>5. e.key \in Nat
  BY Assumptions DEF Map!Entry
<1>6. ASSUME NEW i \in 1 .. Len(d), NEW j \in 1 .. Len(d), i < j
      PROVE  d[i].key < d[j].key
  <2>1. i \in 1 .. Len(data) + 1 /\ j \in 1 .. Len(data) + 1
    BY <1>4
  <2>2. CASE j < p + 1
    <3>1. i \in 1 .. Len(data) /\ j \in 1 .. Len(data) /\ i < p + 1
      BY <1>1, <1>3, <1>6, <2>1, <2>2
    <3> QED
      BY <1>4, <1>6, <2>1, <2>2, <3>1 DEF Sorted
  <2>3. CASE j = p + 1
    <3>1. i \in 1 .. Len(data) /\ i <= p /\ i < p + 1
      BY <1>1, <1>3, <1>6, <2>1, <2>3
    <3>2. d[i] = data[i] /\ d[j] = e
      BY <1>3, <1>4, <2>1, <2>3, <3>1
    <3> QED
      BY <3>1, <3>2
  <2>4. CASE i < p + 1 /\ j > p + 1
    <3>1. i \in 1 .. Len(data) /\ j - 1 \in 1 .. Len(data) /\ i <= p /\ ~(j - 1 <= p)
          /\ ~(j < p + 1) /\ j # p + 1
      BY <1>1, <1>3, <2>1, <2>4
    <3>2. d[i] = data[i] /\ d[j] = data[j - 1]
      BY <1>4, <2>1, <2>4, <3>1
    <3> QED
      BY <1>1, <1>5, <3>1, <3>2
  <2>5. CASE i = p + 1
    <3>1. j - 1 \in 1 .. Len(data) /\ ~(j - 1 <= p) /\ ~(j < p + 1) /\ j # p + 1
      BY <1>1, <1>3, <1>6, <2>1, <2>5
    <3>2. d[i] = e /\ d[j] = data[j - 1]
      BY <1>3, <1>4, <2>1, <2>5, <3>1
    <3> QED
      BY <1>1, <1>5, <3>1, <3>2
  <2>6. CASE i > p + 1
    <3>1. /\ i - 1 \in 1 .. Len(data) /\ j - 1 \in 1 .. Len(data) /\ i - 1 < j - 1
          /\ ~(i < p + 1) /\ i # p + 1 /\ ~(j < p + 1) /\ j # p + 1
      BY <1>1, <1>3, <1>6, <2>1, <2>6
    <3>2. d[i] = data[i - 1] /\ d[j] = data[j - 1]
      BY <1>4, <2>1, <3>1
    <3> QED
      BY <3>1, <3>2 DEF Sorted
  <2>7. \/ j < p + 1 \/ j = p + 1 \/ (i < p + 1 /\ j > p + 1) \/ i = p + 1 \/ i > p + 1
    BY <1>1, <1>3, <2>1
  <2> QED
    BY ONLY <2>2, <2>3, <2>4, <2>5, <2>6, <2>7
<1>7. SortedSeq(d)
  BY <1>4, <1>6 DEF SortedSeq
<1> QED
  BY <1>4, <1>7 DEF d

LEMMA RemoveKeepsSorted ==
  ASSUME Sorted, NEW p \in 1 .. Len(data)
  PROVE  /\ SortedSeq(Map!RemoveAt(data, p))
         /\ Len(Map!RemoveAt(data, p)) = Len(data) - 1
         /\ \A j \in 1 .. Len(data) - 1 :
              Map!RemoveAt(data, p)[j] = IF j < p THEN data[j] ELSE data[j + 1]
<1> DEFINE d == Map!RemoveAt(data, p)
<1>1. Len(data) \in Nat
  BY EntryTypes
<1>2. d = RemoveAt(data, p)
  BY DEF RemoveAt, Map!RemoveAt
<1>3. data \in Seq(Map!Entry)
  BY DEF Sorted
<1> HIDE DEF d
<1>4. /\ d \in Seq(Map!Entry) /\ Len(d) = Len(data) - 1
      /\ \A j \in 1 .. Len(data) - 1 : d[j] = IF j < p THEN data[j] ELSE data[j + 1]
  BY <1>2, <1>3, RemoveAtProperties
<1>5. ASSUME NEW i \in 1 .. Len(d), NEW j \in 1 .. Len(d), i < j
      PROVE  d[i].key < d[j].key
  <2> DEFINE at(k) == IF k < p THEN k ELSE k + 1
  <2>1. i \in 1 .. Len(data) - 1 /\ j \in 1 .. Len(data) - 1
    BY <1>4
  <2>2. at(i) \in 1 .. Len(data) /\ at(j) \in 1 .. Len(data) /\ at(i) < at(j)
    BY <1>1, <1>5, <2>1
  <2>3. d[i] = data[at(i)] /\ d[j] = data[at(j)]
    BY <1>4, <2>1
  <2> HIDE DEF at
  <2> QED
    BY <2>2, <2>3 DEF Sorted
<1>6. SortedSeq(d)
  BY <1>4, <1>5 DEF SortedSeq
<1> QED
  BY <1>4, <1>6 DEF d

-----------------------------------------------------------------------------
(* The finite function that a sorted array stands for.                     *)
ItemOf(e) == [value |-> e.token, by |-> Map!ValueCallback(e)]
KeysOf(d) == {d[i].key : i \in 1 .. Len(d)}
ContentOf(d) ==
  [k \in {d[i].key : i \in DOMAIN d} |->
     ItemOf(d[CHOOSE i \in DOMAIN d : d[i].key = k])]

LEMMA ContentIs ==
  ASSUME NEW d, SortedSeq(d)
  PROVE  /\ DOMAIN ContentOf(d) = KeysOf(d)
         /\ ContentOf(d) = [k \in KeysOf(d) |-> ContentOf(d)[k]]
         /\ \A i \in 1 .. Len(d) : ContentOf(d)[d[i].key] = ItemOf(d[i])
<1>1. DOMAIN d = 1 .. Len(d) /\ Len(d) \in Nat
  BY LenProperties DEF SortedSeq
<1>2. ContentOf(d) = [k \in KeysOf(d) |->
                        ItemOf(d[CHOOSE i \in 1 .. Len(d) : d[i].key = k])]
  BY <1>1 DEF ContentOf, KeysOf
<1>3. \A i \in 1 .. Len(d) : d[i].key \in Nat
  <2>1. \A i \in 1 .. Len(d) : d[i] \in Map!Entry
    BY ElementOfSeq DEF SortedSeq
  <2> QED
    BY <2>1, Assumptions DEF Map!Entry
<1>4. ASSUME NEW i \in 1 .. Len(d) PROVE ContentOf(d)[d[i].key] = ItemOf(d[i])
  <2> DEFINE c == CHOOSE j \in 1 .. Len(d) : d[j].key = d[i].key
  <2>1. c \in 1 .. Len(d) /\ d[c].key = d[i].key
    OBVIOUS
  <2>2. ContentOf(d)[d[i].key] = ItemOf(d[c])
    BY <1>2 DEF KeysOf
  <2> HIDE DEF c
  <2>3. c = i
    <3>1. ~(c < i) /\ ~(i < c)
      BY <1>3, <2>1 DEF SortedSeq
    <3> QED
      BY <2>1, <3>1
  <2> QED
    BY <2>2, <2>3
<1> QED
  BY <1>2, <1>4

LEMMA ContentUnique ==
  ASSUME NEW d, SortedSeq(d), NEW c, DOMAIN c = KeysOf(d), c = [k \in DOMAIN c |-> c[k]],
         \A i \in 1 .. Len(d) : c[d[i].key] = ItemOf(d[i])
  PROVE  ContentOf(d) = c
<1> DEFINE f == ContentOf(d)
<1>1. /\ f = [k \in KeysOf(d) |-> f[k]]
      /\ \A i \in 1 .. Len(d) : f[d[i].key] = ItemOf(d[i])
  BY ContentIs
<1> HIDE DEF f
<1>2. \A k \in KeysOf(d) : f[k] = c[k]
  BY <1>1 DEF KeysOf
<1>3. f = c
  BY <1>1, <1>2
<1> QED
  BY <1>3 DEF f

LEMMA ContentOfNone == ContentOf(<<>>) = <<>>
<1> DEFINE none == <<>>
<1>1. /\ SortedSeq(none) /\ DOMAIN none = KeysOf(none)
      /\ none = [k \in DOMAIN none |-> none[k]]
      /\ Len(none) = 0
  BY DEF SortedSeq, KeysOf
<1>2. \A i \in 1 .. Len(none) : none[none[i].key] = ItemOf(none[i])
  BY <1>1
<1>3. none = <<>>
  OBVIOUS
<1> HIDE DEF none
<1>4. ContentOf(none) = none
  BY <1>1, <1>2, ContentUnique
<1> QED
  BY <1>3, <1>4

LEMMA ContentNow == Map!Content = ContentOf(data)
BY DEF Map!Content, ContentOf, ItemOf

LEMMA ContentNext == own_values' = own_values => Map!Content' = ContentOf(data')
BY DEF Map!Content, ContentOf, ItemOf, Map!ValueCallback

(* What the map's callbacks did with values, as the abstract map sees it.  *)
Releases == [token: 1 .. MaxSets, by: Map!Callbacks]
OutOf(s) ==
  {[value |-> e.token, by |-> e.by] : e \in {x \in ToSet(s) : x.by # "key"}}

LEMMA OutIs == Map!ValuesOut = OutOf(released) /\ Map!ValuesOut' = OutOf(released')
BY DEF Map!ValuesOut, OutOf, ToSet, Map!ToSet

LEMMA OutOfConcat ==
  ASSUME NEW s \in Seq(Releases), NEW u \in Seq(Releases)
  PROVE  OutOf(s \o u) = OutOf(s) \cup OutOf(u)
<1>1. \A x : x \in ToSet(s \o u) <=> x \in ToSet(s) \/ x \in ToSet(u)
  BY ToSetOfConcat
<1> QED
  BY <1>1 DEF OutOf

LEMMA OutOfKeyRelease ==
  ASSUME NEW n \in 1 .. MaxSets
  PROVE  /\ Map!KeyRelease(n) \in Seq(Releases) /\ OutOf(Map!KeyRelease(n)) = {}
         /\ \A x \in ToSet(Map!KeyRelease(n)) : x.by = "key"
<1>1. [token |-> n, by |-> "key"] \in Releases
  BY DEF Releases, Map!Callbacks
<1>2. Map!KeyRelease(n) \in Seq(Releases)
  BY <1>1 DEF Map!KeyRelease
<1>3. \A x \in ToSet(Map!KeyRelease(n)) : x.by = "key"
  BY DEF Map!KeyRelease, ToSet
<1> QED
  BY <1>2, <1>3 DEF OutOf

LEMMA OutOfEntry ==
  ASSUME NEW e \in Map!Entry
  PROVE  /\ Map!FreeKeyValue(e) \in Seq(Releases)
         /\ OutOf(Map!FreeKeyValue(e)) = Map!Map!Released({ItemOf(e)})
         /\ ItemOf(e) \in Map!Map!Item
<1>1. e.token \in 1 .. MaxSets /\ Map!ValueCallback(e) \in Map!Callbacks \ {"key"}
  BY DEF Map!Entry, Map!ValueCallback, Map!Callbacks
<1> DEFINE by == Map!ValueCallback(e)
           rest == IF by = "none" THEN <<>> ELSE <<[token |-> e.token, by |-> by]>>
<1>2. Map!FreeKeyValue(e) = Map!KeyRelease(e.token) \o rest
  BY DEF Map!FreeKeyValue
<1> HIDE DEF by
<1>3. by \in Map!Callbacks /\ by # "key" /\ ItemOf(e) = [value |-> e.token, by |-> by]
  BY <1>1 DEF by, ItemOf
<1>4. [token |-> e.token, by |-> by] \in Releases
  BY <1>1, <1>3 DEF Releases
<1>5. rest \in Seq(Releases)
  BY <1>4
<1>6. OutOf(rest) = IF by = "none" THEN {} ELSE {ItemOf(e)}
  <2>1. CASE by = "none"
    BY <2>1 DEF OutOf, ToSet
  <2>2. CASE by # "none"
    <3>1. ToSet(rest) = {[token |-> e.token, by |-> by]}
      BY <2>2 DEF ToSet
    <3> QED
      BY <1>3, <2>2, <3>1 DEF OutOf
  <2> QED
    BY <2>1, <2>2
<1> HIDE DEF rest
<1>7. /\ Map!KeyRelease(e.token) \in Seq(Releases)
      /\ OutOf(Map!KeyRelease(e.token)) = {}
  BY <1>1, OutOfKeyRelease
<1>8. OutOf(Map!FreeKeyValue(e)) = OutOf(rest)
  <2>1. OutOf(Map!KeyRelease(e.token) \o rest) = OutOf(Map!KeyRelease(e.token)) \cup OutOf(rest)
    BY <1>5, <1>7, OutOfConcat
  <2> QED
    BY <1>2, <1>7, <2>1
<1>9. Map!Map!Released({ItemOf(e)}) = IF by = "none" THEN {} ELSE {ItemOf(e)}
  BY <1>3 DEF Map!Map!Released
<1>10. Map!FreeKeyValue(e) \in Seq(Releases)
  BY <1>2, <1>5, <1>7, ConcatProperties
<1>11. ItemOf(e) \in Map!Map!Item
  BY <1>1, <1>3 DEF Map!Map!Item
<1> QED
  BY <1>6, <1>8, <1>9, <1>10, <1>11

(* g_map_remove_all releases entry after entry.                            *)
LEMMA OutOfAll ==
  ASSUME Sorted
  PROVE  LET all == Map!FlattenSeq([i \in DOMAIN data |-> Map!FreeKeyValue(data[i])])
         IN  /\ all \in Seq(Releases)
             /\ OutOf(all) = Map!Map!Released({ItemOf(data[i]) : i \in 1 .. Len(data)})
<1> DEFINE seqs == [i \in DOMAIN data |-> Map!FreeKeyValue(data[i])]
           n == Len(data)
<1>1. n \in Nat /\ DOMAIN data = 1 .. n /\ \A i \in 1 .. n : data[i] \in Map!Entry
  BY EntryTypes
<1>2. \A i \in 1 .. n : /\ seqs[i] = Map!FreeKeyValue(data[i])
                        /\ seqs[i] \in Seq(Releases)
                        /\ OutOf(seqs[i]) = Map!Map!Released({ItemOf(data[i])})
  BY <1>1, OutOfEntry
<1>3. Len(seqs) = n /\ (n = 0 => seqs = <<>>)
  BY <1>1
<1> HIDE DEF seqs, n
<1>4. Map!FlattenSeq(seqs) = FlattenSeq(seqs)
  BY DEF FlattenSeq, Map!FlattenSeq
<1>5. /\ FlattenSeq(seqs) \in Seq(Releases)
      /\ \A x : x \in ToSet(FlattenSeq(seqs)) <=> \E i \in 1 .. n : x \in ToSet(seqs[i])
  BY <1>1, <1>2, <1>3, FlattenSeqProperties
<1>6. \A x : x \in OutOf(FlattenSeq(seqs)) <=> \E i \in 1 .. n : x \in OutOf(seqs[i])
  BY <1>5 DEF OutOf
<1>7. \A x : x \in OutOf(FlattenSeq(seqs)) <=>
              \E i \in 1 .. n : x \in Map!Map!Released({ItemOf(data[i])})
  BY <1>2, <1>6
<1>8. OutOf(FlattenSeq(seqs)) = Map!Map!Released({ItemOf(data[i]) : i \in 1 .. n})
  BY <1>7 DEF Map!Map!Released
<1> QED
  BY <1>4, <1>5, <1>8 DEF seqs, n

-----------------------------------------------------------------------------
(* The invariant: the entries are sorted, and neither they nor the memory  *)
(* for them are more than the calls of g_map_set so far.                   *)
MapInv ==
  /\ Map!TypeOK
  /\ alloc <= token

LEMMA MapInvIs ==
  ASSUME MapInv
  PROVE  /\ Sorted /\ Len(data) \in Nat /\ Len(data) <= alloc
         /\ alloc \in Nat /\ token \in Nat /\ alloc <= token /\ token <= MaxSets
         /\ own_keys \in BOOLEAN /\ own_values \in BOOLEAN /\ has_data \in BOOLEAN
         /\ ~has_data => alloc = 0
         /\ released \in Seq(Releases)
         /\ held \subseteq 1 .. token /\ copied \subseteq 1 .. token
         /\ open \in BOOLEAN
<1>1. data \in Seq(Map!Entry)
  BY DEF MapInv, Map!TypeOK
<1>2. Len(data) \in Nat /\ DOMAIN data = 1 .. Len(data)
  BY <1>1, LenProperties
<1> QED
  BY <1>1, <1>2, Assumptions DEF MapInv, Map!TypeOK, Sorted, Releases

LEMMA MapInvNext ==
  ASSUME SortedSeq(data'), Len(data') <= alloc', alloc' <= token', alloc' \in Nat,
         token' \in 0 .. MaxSets,
         own_keys' \in BOOLEAN, own_values' \in BOOLEAN, has_data' \in BOOLEAN,
         ~has_data' => alloc' = 0,
         released' \in Seq(Releases),
         held' \subseteq 1 .. token', copied' \subseteq 1 .. token',
         open' \in BOOLEAN
  PROVE  MapInv'
<1>1. data' \in Seq(Map!Entry) /\ DOMAIN data' = 1 .. Len(data') /\ Len(data') \in Nat
  BY LenProperties DEF SortedSeq
<1>2. alloc' \in 0 .. MaxSets
  BY Assumptions
<1>3. \A i, j \in DOMAIN data' : i < j => data'[i].key < data'[j].key
  BY <1>1 DEF SortedSeq
<1>4. released' \in Seq([token: 1 .. MaxSets, by: Map!Callbacks])
  BY DEF Releases
<1>5. Map!TypeOK'
  BY <1>1, <1>2, <1>3, <1>4 DEF Map!TypeOK
<1> QED
  BY <1>5 DEF MapInv

LEMMA MapInit == ASSUME Map!Init PROVE MapInv /\ Map!Map!Init
<1>1. data = <<>> /\ released = <<>> /\ alloc = 0 /\ token = 0 /\ held = {} /\ copied = {}
  BY DEF Map!Init
<1>2. Map!TypeOK
  <2>1. <<>> \in Seq(Map!Entry) /\ Len(<<>>) = 0 /\ DOMAIN <<>> = {}
    OBVIOUS
  <2>2. <<>> \in Seq([token: 1 .. MaxSets, by: Map!Callbacks])
    OBVIOUS
  <2>3. 0 \in 0 .. MaxSets
    BY Assumptions
  <2> QED
    BY <1>1, <2>1, <2>2, <2>3 DEF Map!TypeOK, Map!Init
<1>3. Map!Content = <<>>
  BY <1>1, ContentOfNone, ContentNow
<1>4. Map!ValuesOut = {}
  BY <1>1, OutIs DEF OutOf, ToSet
<1>5. open = TRUE /\ answer = Map!Map!Answer("new", 0, 0)
  BY DEF Map!Init, Map!Answer, Map!Map!Answer
<1>6. Map!Map!Init
  BY <1>3, <1>4, <1>5 DEF Map!Map!Init
<1> QED
  BY <1>1, <1>2, <1>6 DEF MapInv

LEMMA AnswersAgree ==
  \A how, key, result : Map!Answer(how, key, result) = Map!Map!Answer(how, key, result)
BY DEF Map!Answer, Map!Map!Answer

LEMMA MaxOfNaturals ==
  ASSUME NEW m \in Nat, NEW n \in Nat
  PROVE  Map!Max({m, n}) = IF m >= n THEN m ELSE n
<1> DEFINE top == IF m >= n THEN m ELSE n
<1>1. top \in {m, n} /\ \A y \in {m, n} : top >= y
  OBVIOUS
<1>2. \A x \in {m, n} : (\A y \in {m, n} : x >= y) => x = top
  OBVIOUS
<1> HIDE DEF top
<1>3. Map!Max({m, n}) = top
  BY <1>1, <1>2 DEF Map!Max
<1> QED
  BY <1>3 DEF top

(* What leaves the abstract map at a key.                                  *)
LEMMA AtKey ==
  ASSUME Sorted, NEW key \in Keys
  PROVE  /\ Map!Index(key) # 0 =>
              /\ Map!Index(key) \in 1 .. Len(data)
              /\ key \in KeysOf(data)
              /\ Map!Content[key] = ItemOf(data[Map!Index(key)])
              /\ Map!Map!At(key) = {ItemOf(data[Map!Index(key)])}
         /\ Map!Index(key) = 0 => key \notin KeysOf(data) /\ Map!Map!At(key) = {}
<1> DEFINE c == Map!Content
<1>1. DOMAIN c = KeysOf(data) /\ \A i \in 1 .. Len(data) : c[data[i].key] = ItemOf(data[i])
  BY ContentIs, ContentNow, SortedIs
<1>2. Map!Map!At(key) = {c[j] : j \in DOMAIN c \cap {key}}
  BY DEF Map!Map!At
<1>3. Len(data) \in Nat
  BY EntryTypes
<1> HIDE DEF c
<1>4. CASE Map!Index(key) = 0
  <2>1. key \notin KeysOf(data)
    BY <1>4, IndexFinds DEF KeysOf
  <2> QED
    BY <1>1, <1>2, <1>4, <2>1
<1>5. CASE Map!Index(key) # 0
  <2>1. Map!Index(key) \in 1 .. Len(data) /\ data[Map!Index(key)].key = key
    BY <1>3, <1>5, IndexFinds
  <2>2. key \in KeysOf(data) /\ c[key] = ItemOf(data[Map!Index(key)])
    BY <1>1, <2>1 DEF KeysOf
  <2>3. Map!Map!At(key) = {c[key]}
    BY <1>1, <1>2, <2>2
  <2> QED
    BY <1>5, <2>1, <2>2, <2>3 DEF c
<1> QED
  BY <1>4, <1>5

-----------------------------------------------------------------------------
(* Each call of the map keeps the invariant and is a call of the function. *)
MapFrame == UNCHANGED Map!options /\ UNCHANGED open /\ open

LEMMA SetReplaces ==
  ASSUME MapInv, NEW key \in Keys, NEW custom \in BOOLEAN,
         token < MaxSets, token' = token + 1, MapFrame, Map!Index(key) # 0,
         Map!Replace(Map!Index(key), [key |-> key, token |-> token + 1, custom |-> custom]),
         held' \subseteq held \cup {token + 1}, copied' \subseteq copied \cup {token + 1},
         answer' = Map!Answer("set", key, 1)
  PROVE  MapInv' /\ Map!Map!Next
<1> DEFINE e == [key |-> key, token |-> token + 1, custom |-> custom]
           i == Map!Index(key)
<1>1. /\ Sorted /\ Len(data) \in Nat /\ Len(data) <= alloc
      /\ alloc \in Nat /\ token \in Nat /\ alloc <= token /\ MaxSets \in Nat
      /\ released \in Seq(Releases)
      /\ held \subseteq 1 .. token /\ copied \subseteq 1 .. token
  BY MapInvIs, Assumptions
<1>2. /\ own_keys' = own_keys /\ own_values' = own_values /\ has_data' = has_data
      /\ open' = open /\ open
  BY DEF MapFrame, Map!options
<1>3. e \in Map!Entry /\ e.key = key /\ e.token = token + 1
  BY <1>1 DEF Map!Entry
<1>4. /\ i \in 1 .. Len(data) /\ key \in KeysOf(data) /\ data[i].key = key
      /\ Map!Map!At(key) = {ItemOf(data[i])}
  BY <1>1, AtKey, IndexFinds
<1>5. /\ released' = released \o Map!FreeKeyValue(data[i])
      /\ data' = [data EXCEPT ![i] = e] /\ alloc' = alloc
  BY DEF Map!Replace
<1> HIDE DEF e, i
<1>6. /\ SortedSeq(data') /\ Len(data') = Len(data)
      /\ \A j \in 1 .. Len(data) : data'[j] = IF j = i THEN e ELSE data[j]
  <2>1. /\ SortedSeq([data EXCEPT ![i] = e]) /\ Len([data EXCEPT ![i] = e]) = Len(data)
        /\ \A j \in 1 .. Len(data) :
             [data EXCEPT ![i] = e][j] = IF j = i THEN e ELSE data[j]
    BY <1>1, <1>3, <1>4, ReplaceKeepsSorted
  <2> QED
    BY <1>5, <2>1
<1>7. data[i] \in Map!Entry
  BY <1>1, <1>4, EntryTypes
<1>8. /\ Map!FreeKeyValue(data[i]) \in Seq(Releases)
      /\ OutOf(Map!FreeKeyValue(data[i])) = Map!Map!Released({ItemOf(data[i])})
  BY <1>7, OutOfEntry
<1>9. MapInv'
  <2>1. released' \in Seq(Releases)
    BY <1>1, <1>5, <1>8, ConcatProperties
  <2>2. held' \subseteq 1 .. token' /\ copied' \subseteq 1 .. token' /\ token' \in 0 .. MaxSets
    BY <1>1
  <2>3. Len(data') <= alloc' /\ alloc' <= token' /\ alloc' \in Nat
    BY <1>1, <1>5, <1>6
  <2> QED
    BY <1>2, <1>5, <1>6, <2>1, <2>2, <2>3, MapInvIs, MapInvNext
<1>10. Map!Content' = [j \in DOMAIN Map!Content \cup {key} |->
                         IF j = key THEN ItemOf(e) ELSE Map!Content[j]]
  <2> DEFINE c == Map!Content
             d == [j \in DOMAIN c \cup {key} |-> IF j = key THEN ItemOf(e) ELSE c[j]]
  <2>1. DOMAIN c = KeysOf(data) /\ \A j \in 1 .. Len(data) : c[data[j].key] = ItemOf(data[j])
    BY <1>1, ContentIs, ContentNow, SortedIs
  <2> HIDE DEF c
  <2>2. KeysOf(data') = KeysOf(data)
    <3>1. \A j \in 1 .. Len(data) : data'[j].key = data[j].key
      BY <1>3, <1>4, <1>6
    <3> QED
      BY <1>6, <3>1 DEF KeysOf
  <2>3. DOMAIN d = KeysOf(data') /\ d = [j \in DOMAIN d |-> d[j]]
    BY <1>4, <2>1, <2>2
  <2>4. ASSUME NEW j \in 1 .. Len(data') PROVE d[data'[j].key] = ItemOf(data'[j])
    <3>1. j \in 1 .. Len(data) /\ data[j].key \in KeysOf(data)
      BY <1>6 DEF KeysOf
    <3>2. CASE j = i
      BY <1>3, <1>6, <3>1, <3>2
    <3>3. CASE j # i
      <4>1. data'[j] = data[j]
        BY <1>6, <3>1, <3>3
      <4>2. data[j].key # key
        <5>1. i < j => data[i].key < data[j].key
          BY <1>1, <1>4, <3>1 DEF Sorted
        <5>2. j < i => data[j].key < data[i].key
          BY <1>1, <1>4, <3>1 DEF Sorted
        <5>3. data[i].key \in Nat /\ data[j].key \in Nat
          BY <1>1, <1>4, <3>1, EntryTypes
        <5> QED
          BY <1>4, <3>1, <3>3, <5>1, <5>2, <5>3
      <4> QED
        BY <2>1, <3>1, <4>1, <4>2
    <3> QED
      BY <3>2, <3>3
  <2> HIDE DEF d
  <2>5. ContentOf(data') = d
    BY <1>6, <2>3, <2>4, ContentUnique
  <2> QED
    BY <1>2, <2>5, ContentNext DEF d, c
<1>11. Map!ValuesOut' = Map!ValuesOut \cup Map!Map!Released(Map!Map!At(key))
  BY <1>1, <1>4, <1>5, <1>8, OutOfConcat, OutIs
<1>12. ItemOf(e) \in Map!Map!Item
  BY <1>3, OutOfEntry
<1>13. Map!Map!Set(key, ItemOf(e))
  BY <1>2, <1>10, <1>11, AnswersAgree DEF Map!Map!Set
<1> QED
  BY <1>2, <1>9, <1>12, <1>13 DEF Map!Map!Next

LEMMA SetInserts ==
  ASSUME MapInv, NEW key \in Keys, NEW custom \in BOOLEAN,
         token < MaxSets, token' = token + 1, MapFrame, Map!Index(key) = 0,
         Map!InsertEntry([key |-> key, token |-> token + 1, custom |-> custom]),
         held' \subseteq held \cup {token + 1}, copied' \subseteq copied \cup {token + 1},
         answer' = Map!Answer("set", key, 1)
  PROVE  MapInv' /\ Map!Map!Next
<1> DEFINE e == [key |-> key, token |-> token + 1, custom |-> custom]
           p == Map!InsertPosition(key)
<1>1. /\ Sorted /\ Len(data) \in Nat /\ Len(data) <= alloc
      /\ alloc \in Nat /\ token \in Nat /\ alloc <= token /\ MaxSets \in Nat
      /\ released \in Seq(Releases)
      /\ held \subseteq 1 .. token /\ copied \subseteq 1 .. token
  BY MapInvIs, Assumptions
<1>2. /\ own_keys' = own_keys /\ own_values' = own_values /\ has_data' = has_data
      /\ open' = open /\ open
  BY DEF MapFrame, Map!options
<1>3. e \in Map!Entry /\ e.key = key /\ e.token = token + 1
  BY <1>1 DEF Map!Entry
<1>4. /\ p \in 0 .. Len(data)
      /\ \A i \in 1 .. Len(data) :
           IF i <= p THEN data[i].key < key ELSE data[i].key > key
      /\ key \notin KeysOf(data) /\ Map!Map!At(key) = {}
  BY <1>1, AtKey, IndexFinds
<1>5. /\ data' = Map!InsertAt(data, p + 1, e) /\ released' = released /\ has_data
      /\ alloc' = Map!Max({alloc, Len(data) + 1})
  <2>1. Map!InsertEntry(e)
    OBVIOUS
  <2> HIDE DEF e
  <2> QED
    BY <1>3, <2>1 DEF Map!InsertEntry
<1> HIDE DEF e, p
<1>6. /\ SortedSeq(data') /\ Len(data') = Len(data) + 1
      /\ \A j \in 1 .. Len(data) + 1 :
           data'[j] = IF j < p + 1 THEN data[j] ELSE IF j = p + 1 THEN e ELSE data[j - 1]
  <2>1. /\ SortedSeq(Map!InsertAt(data, p + 1, e))
        /\ Len(Map!InsertAt(data, p + 1, e)) = Len(data) + 1
        /\ \A j \in 1 .. Len(data) + 1 :
             Map!InsertAt(data, p + 1, e)[j] = IF j < p + 1 THEN data[j]
                                               ELSE IF j = p + 1 THEN e ELSE data[j - 1]
    BY <1>1, <1>3, <1>4, InsertKeepsSorted
  <2> QED
    BY <1>5, <2>1
<1>7. alloc' = IF alloc >= Len(data) + 1 THEN alloc ELSE Len(data) + 1
  BY <1>1, <1>5, MaxOfNaturals
<1>8. MapInv'
  <2>1. held' \subseteq 1 .. token' /\ copied' \subseteq 1 .. token' /\ token' \in 0 .. MaxSets
    BY <1>1
  <2>2. Len(data') <= alloc' /\ alloc' <= token' /\ alloc' \in Nat
    BY <1>1, <1>6, <1>7
  <2>3. ~has_data' => alloc' = 0
    BY <1>2, <1>5
  <2> QED
    BY <1>1, <1>2, <1>5, <1>6, <2>1, <2>2, <2>3, MapInvIs, MapInvNext
<1>9. Map!Content' = [j \in DOMAIN Map!Content \cup {key} |->
                        IF j = key THEN ItemOf(e) ELSE Map!Content[j]]
  <2> DEFINE c == Map!Content
             d == [j \in DOMAIN c \cup {key} |-> IF j = key THEN ItemOf(e) ELSE c[j]]
  <2>1. DOMAIN c = KeysOf(data) /\ \A j \in 1 .. Len(data) : c[data[j].key] = ItemOf(data[j])
    BY <1>1, ContentIs, ContentNow, SortedIs
  <2> HIDE DEF c
  <2> DEFINE from(j) == IF j < p + 1 THEN j ELSE j - 1
             to(i) == IF i <= p THEN i ELSE i + 1
  <2>2. \A j \in 1 .. Len(data') : j # p + 1 => from(j) \in 1 .. Len(data) /\ data'[j] = data[from(j)]
    BY <1>1, <1>4, <1>6
  <2>3. p + 1 \in 1 .. Len(data') /\ data'[p + 1] = e
    BY <1>1, <1>4, <1>6
  <2>4. \A i \in 1 .. Len(data) : to(i) \in 1 .. Len(data') /\ to(i) # p + 1 /\ from(to(i)) = i
    BY <1>1, <1>4, <1>6
  <2> HIDE DEF from, to
  <2>5. KeysOf(data') = KeysOf(data) \cup {key}
    <3>1. \A i \in 1 .. Len(data) : data'[to(i)].key = data[i].key
      BY <2>2, <2>4
    <3>2. KeysOf(data) \subseteq KeysOf(data')
      BY <2>4, <3>1 DEF KeysOf
    <3>3. key \in KeysOf(data')
      BY <1>3, <2>3 DEF KeysOf
    <3>4. KeysOf(data') \subseteq KeysOf(data) \cup {key}
      BY <1>3, <2>2, <2>3 DEF KeysOf
    <3> QED
      BY <3>2, <3>3, <3>4
  <2>6. DOMAIN d = KeysOf(data') /\ d = [j \in DOMAIN d |-> d[j]]
    BY <2>1, <2>5
  <2>7. ASSUME NEW j \in 1 .. Len(data') PROVE d[data'[j].key] = ItemOf(data'[j])
    <3>1. CASE j = p + 1
      BY <1>3, <2>3, <3>1
    <3>2. CASE j # p + 1
      <4>1. from(j) \in 1 .. Len(data) /\ data'[j] = data[from(j)]
        BY <2>2, <3>2
      <4>2. data[from(j)].key \in KeysOf(data)
        BY <4>1 DEF KeysOf
      <4>3. data[from(j)].key # key
        BY <1>4, <4>2
      <4> QED
        BY <2>1, <4>1, <4>2, <4>3
    <3> QED
      BY <3>1, <3>2
  <2> HIDE DEF d
  <2>8. ContentOf(data') = d
    BY <1>6, <2>6, <2>7, ContentUnique
  <2> QED
    BY <1>2, <2>8, ContentNext DEF d, c
<1>10. Map!ValuesOut' = Map!ValuesOut \cup Map!Map!Released(Map!Map!At(key))
  BY <1>4, <1>5, OutIs DEF Map!Map!Released
<1>11. ItemOf(e) \in Map!Map!Item
  BY <1>3, OutOfEntry
<1>12. Map!Map!Set(key, ItemOf(e))
  BY <1>2, <1>9, <1>10, AnswersAgree DEF Map!Map!Set
<1> QED
  BY <1>2, <1>8, <1>11, <1>12 DEF Map!Map!Next

LEMMA SetFails ==
  ASSUME MapInv, NEW key \in Keys,
         token < MaxSets, token' = token + 1, MapFrame, UNCHANGED <<data, alloc>>,
         NEW releases \in Seq(Releases), released' = released \o releases, OutOf(releases) = {},
         held' = held, copied' \subseteq copied \cup {token + 1},
         answer' = Map!Answer("set", key, 0)
  PROVE  MapInv' /\ Map!Map!Next
<1>1. /\ Sorted /\ Len(data) \in Nat /\ Len(data) <= alloc
      /\ alloc \in Nat /\ token \in Nat /\ alloc <= token /\ MaxSets \in Nat
      /\ released \in Seq(Releases)
      /\ held \subseteq 1 .. token /\ copied \subseteq 1 .. token
  BY MapInvIs, Assumptions
<1>2. /\ own_keys' = own_keys /\ own_values' = own_values /\ has_data' = has_data
      /\ open' = open /\ open /\ data' = data /\ alloc' = alloc
  BY DEF MapFrame, Map!options
<1>3. MapInv'
  <2>1. held' \subseteq 1 .. token' /\ copied' \subseteq 1 .. token' /\ token' \in 0 .. MaxSets
    BY <1>1
  <2>2. alloc' <= token'
    BY <1>1, <1>2
  <2>3. released' \in Seq(Releases)
    BY <1>1, ConcatProperties
  <2>4. SortedSeq(data')
    BY <1>1, <1>2, SortedIs
  <2> QED
    BY <1>1, <1>2, <2>1, <2>2, <2>3, <2>4, MapInvIs, MapInvNext
<1>4. Map!Content' = Map!Content
  BY <1>2, ContentNow, ContentNext
<1>5. Map!ValuesOut' = Map!ValuesOut
  <2>1. OutOf(released \o releases) = OutOf(released) \cup OutOf(releases)
    BY <1>1, OutOfConcat
  <2> QED
    BY <2>1, OutIs
<1>6. Map!Map!SetFails(key)
  BY <1>2, <1>4, <1>5, AnswersAgree DEF Map!Map!SetFails
<1> QED
  BY <1>2, <1>3, <1>6 DEF Map!Map!Next

LEMMA GetStep ==
  ASSUME MapInv, NEW key \in Keys, Map!Get(key) PROVE MapInv' /\ Map!Map!Next
<1>1. Sorted /\ token \in Nat
  BY MapInvIs
<1>2. /\ own_keys' = own_keys /\ own_values' = own_values /\ has_data' = has_data
      /\ data' = data /\ alloc' = alloc /\ token' = token /\ released' = released
      /\ held' = held /\ copied' = copied /\ open' = open /\ open
  BY DEF Map!Get, Map!options
<1>3. MapInv'
  BY <1>2 DEF MapInv, Map!TypeOK
<1>4. Map!Content' = Map!Content /\ Map!ValuesOut' = Map!ValuesOut
  BY <1>2, ContentNow, ContentNext, OutIs
<1>5. DOMAIN Map!Content = KeysOf(data)
  BY <1>1, ContentIs, ContentNow, SortedIs
<1>6. (IF Map!Index(key) = 0 THEN 0 ELSE data[Map!Index(key)].token)
        = IF key \in DOMAIN Map!Content THEN Map!Content[key].value ELSE 0
  <2>1. CASE Map!Index(key) = 0
    <3>1. key \notin KeysOf(data)
      BY <1>1, <2>1, AtKey
    <3> QED
      BY <1>5, <2>1, <3>1
  <2>2. CASE Map!Index(key) # 0
    <3>1. key \in KeysOf(data) /\ Map!Content[key] = ItemOf(data[Map!Index(key)])
      BY <1>1, <2>2, AtKey
    <3>2. Map!Content[key].value = data[Map!Index(key)].token
      BY <3>1 DEF ItemOf
    <3> QED
      BY <1>5, <2>2, <3>1, <3>2
  <2> QED
    BY <2>1, <2>2
<1>7. Map!Map!Get(key)
  BY <1>2, <1>4, <1>6, AnswersAgree DEF Map!Get, Map!Map!Get
<1> QED
  BY <1>2, <1>3, <1>7 DEF Map!Map!Next

LEMMA RemoveStep ==
  ASSUME MapInv, NEW key \in Keys, Map!RemoveKey(key) PROVE MapInv' /\ Map!Map!Next
<1>1. /\ Sorted /\ Len(data) \in Nat /\ Len(data) <= alloc
      /\ alloc \in Nat /\ token \in Nat /\ alloc <= token /\ MaxSets \in Nat
      /\ token <= MaxSets
      /\ released \in Seq(Releases)
      /\ held \subseteq 1 .. token /\ copied \subseteq 1 .. token
  BY MapInvIs, Assumptions
<1>2. /\ own_keys' = own_keys /\ own_values' = own_values /\ has_data' = has_data
      /\ alloc' = alloc /\ token' = token
      /\ held' = held /\ copied' = copied /\ open' = open /\ open
      /\ answer' = Map!Answer("remove", key, 0)
  BY DEF Map!RemoveKey, Map!options
<1> DEFINE i == Map!Index(key)
           c == Map!Content
<1>3. DOMAIN c = KeysOf(data) /\ \A j \in 1 .. Len(data) : c[data[j].key] = ItemOf(data[j])
  BY <1>1, ContentIs, ContentNow, SortedIs
<1>4. c = [j \in KeysOf(data) |-> c[j]]
  BY <1>1, ContentIs, ContentNow, SortedIs
<1>5. CASE i = 0
  <2>1. data' = data /\ released' = released
    BY <1>5 DEF Map!RemoveKey
  <2>2. key \notin KeysOf(data) /\ Map!Map!At(key) = {}
    BY <1>1, <1>5, AtKey
  <2>3. MapInv'
    BY <1>2, <2>1 DEF MapInv, Map!TypeOK
  <2>4. c' = c /\ Map!ValuesOut' = Map!ValuesOut
    BY <1>2, <2>1, ContentNow, ContentNext, OutIs
  <2> HIDE DEF c
  <2>5. c' = [j \in DOMAIN c \ {key} |-> c[j]]
    BY <1>3, <1>4, <2>2, <2>4
  <2>6. Map!ValuesOut' = Map!ValuesOut \cup Map!Map!Released(Map!Map!At(key))
    BY <2>2, <2>4 DEF Map!Map!Released
  <2>7. Map!Map!Remove(key)
    BY <1>2, <2>5, <2>6, AnswersAgree DEF Map!Map!Remove, c
  <2> QED
    BY <1>2, <2>3, <2>7 DEF Map!Map!Next
<1>6. CASE i # 0
  <2>1. data' = Map!RemoveAt(data, i) /\ released' = released \o Map!FreeKeyValue(data[i])
    BY <1>6 DEF Map!RemoveKey
  <2>2. /\ i \in 1 .. Len(data) /\ data[i].key = key
        /\ Map!Map!At(key) = {ItemOf(data[i])}
    BY <1>1, <1>6, AtKey, IndexFinds
  <2> HIDE DEF i, c
  <2>3. data[i] \in Map!Entry
    BY <1>1, <2>2, EntryTypes
  <2>4. /\ Map!FreeKeyValue(data[i]) \in Seq(Releases)
        /\ OutOf(Map!FreeKeyValue(data[i])) = Map!Map!Released({ItemOf(data[i])})
    BY <2>3, OutOfEntry
  <2>5. /\ SortedSeq(data') /\ Len(data') = Len(data) - 1
        /\ \A j \in 1 .. Len(data) - 1 : data'[j] = IF j < i THEN data[j] ELSE data[j + 1]
    <3>1. /\ SortedSeq(Map!RemoveAt(data, i)) /\ Len(Map!RemoveAt(data, i)) = Len(data) - 1
          /\ \A j \in 1 .. Len(data) - 1 :
               Map!RemoveAt(data, i)[j] = IF j < i THEN data[j] ELSE data[j + 1]
      BY <1>1, <2>2, RemoveKeepsSorted
    <3> QED
      BY <2>1, <3>1
  <2>6. MapInv'
    <3>1. released' \in Seq(Releases)
      BY <1>1, <2>1, <2>4, ConcatProperties
    <3>2. Len(data') <= alloc' /\ alloc' <= token' /\ alloc' \in Nat /\ token' \in 0 .. MaxSets
      BY <1>1, <1>2, <2>5
    <3> QED
      BY <1>1, <1>2, <2>5, <3>1, <3>2, MapInvIs, MapInvNext
  <2>7. c' = [j \in DOMAIN c \ {key} |-> c[j]]
    <3> DEFINE d == [j \in DOMAIN c \ {key} |-> c[j]]
               from(j) == IF j < i THEN j ELSE j + 1
               to(j) == IF j < i THEN j ELSE j - 1
    <3>1. \A j \in 1 .. Len(data') :
            from(j) \in 1 .. Len(data) /\ from(j) # i /\ data'[j] = data[from(j)]
      BY <1>1, <2>2, <2>5
    <3>2. \A j \in 1 .. Len(data) : j # i => to(j) \in 1 .. Len(data') /\ from(to(j)) = j
      BY <1>1, <2>2, <2>5
    <3> HIDE DEF from, to
    <3>3. \A j \in 1 .. Len(data) : j # i => data[j].key # key
      <4> SUFFICES ASSUME NEW j \in 1 .. Len(data), j # i PROVE data[j].key # key
        OBVIOUS
      <4>1. i < j => data[i].key < data[j].key
        BY <1>1, <2>2 DEF Sorted
      <4>2. j < i => data[j].key < data[i].key
        BY <1>1, <2>2 DEF Sorted
      <4>3. data[i].key \in Nat /\ data[j].key \in Nat
        BY <1>1, <2>2, EntryTypes
      <4> QED
        BY <2>2, <4>1, <4>2, <4>3
    <3>4. KeysOf(data') = KeysOf(data) \ {key}
      <4>1. \A j \in 1 .. Len(data') : data'[j].key \in KeysOf(data) \ {key}
        BY <3>1, <3>3 DEF KeysOf
      <4>2. \A j \in 1 .. Len(data) : j # i => data'[to(j)].key = data[j].key
        BY <3>1, <3>2
      <4>3. \A j \in 1 .. Len(data) : j # i => data[j].key \in KeysOf(data')
        BY <3>2, <4>2 DEF KeysOf
      <4>4. KeysOf(data') \subseteq KeysOf(data) \ {key}
        BY <4>1 DEF KeysOf
      <4>5. KeysOf(data) \ {key} \subseteq KeysOf(data')
        BY <2>2, <4>3 DEF KeysOf
      <4> QED
        BY <4>4, <4>5
    <3>5. DOMAIN d = KeysOf(data') /\ d = [j \in DOMAIN d |-> d[j]]
      BY <1>3, <3>4
    <3>6. ASSUME NEW j \in 1 .. Len(data') PROVE d[data'[j].key] = ItemOf(data'[j])
      <4>1. data'[j].key \in KeysOf(data) \ {key}
        BY <3>4 DEF KeysOf
      <4>2. from(j) \in 1 .. Len(data) /\ data'[j] = data[from(j)]
        BY <3>1
      <4>3. d[data'[j].key] = c[data[from(j)].key]
        BY <1>3, <4>1, <4>2
      <4> QED
        BY <1>3, <4>2, <4>3
    <3> HIDE DEF d
    <3>7. ContentOf(data') = d
      BY <2>5, <3>5, <3>6, ContentUnique
    <3> QED
      BY <1>2, <3>7, ContentNext DEF d, c
  <2>8. Map!ValuesOut' = Map!ValuesOut \cup Map!Map!Released(Map!Map!At(key))
    <3>1. OutOf(released \o Map!FreeKeyValue(data[i]))
            = OutOf(released) \cup OutOf(Map!FreeKeyValue(data[i]))
      BY <1>1, <2>4, OutOfConcat
    <3> QED
      BY <2>1, <2>2, <2>4, <3>1, OutIs
  <2>9. Map!Map!Remove(key)
    BY <1>2, <2>7, <2>8, AnswersAgree DEF Map!Map!Remove, c
  <2> QED
    BY <1>2, <2>6, <2>9 DEF Map!Map!Next
<1> QED
  BY <1>5, <1>6

LEMMA RemoveAllStep ==
  ASSUME MapInv, NEW how \in {"remove_all", "free"}, Map!RemoveAll(how)
  PROVE  MapInv' /\ Map!Map!Next
<1>1. /\ Sorted /\ Len(data) \in Nat
      /\ alloc \in Nat /\ token \in Nat /\ alloc <= token /\ MaxSets \in Nat
      /\ token <= MaxSets
      /\ released \in Seq(Releases)
      /\ held \subseteq 1 .. token /\ copied \subseteq 1 .. token
  BY MapInvIs, Assumptions
<1> DEFINE all == Map!FlattenSeq([i \in DOMAIN data |-> Map!FreeKeyValue(data[i])])
           c == Map!Content
<1>2. /\ own_keys' = own_keys /\ own_values' = own_values /\ has_data' = has_data
      /\ alloc' = alloc /\ token' = token
      /\ held' = held /\ copied' = copied /\ open' = (how # "free") /\ open
      /\ answer' = Map!Answer(how, 0, 0)
      /\ data' = <<>> /\ released' = released \o all
  BY DEF Map!RemoveAll, Map!options
<1>3. /\ all \in Seq(Releases)
      /\ OutOf(all) = Map!Map!Released({ItemOf(data[i]) : i \in 1 .. Len(data)})
  BY <1>1, OutOfAll
<1>4. DOMAIN c = KeysOf(data) /\ \A j \in 1 .. Len(data) : c[data[j].key] = ItemOf(data[j])
  BY <1>1, ContentIs, ContentNow, SortedIs
<1> HIDE DEF all, c
<1>5. SortedSeq(<<>>) /\ Len(<<>>) = 0
  BY DEF SortedSeq
<1>6. MapInv'
  <2>1. released' \in Seq(Releases)
    BY <1>1, <1>2, <1>3, ConcatProperties
  <2>2. /\ Len(data') <= alloc' /\ alloc' <= token' /\ alloc' \in Nat
        /\ token' \in 0 .. MaxSets /\ SortedSeq(data')
    BY <1>1, <1>2, <1>5
  <2>3. open' \in BOOLEAN
    BY <1>2
  <2> QED
    BY <1>1, <1>2, <2>1, <2>2, <2>3, MapInvIs, MapInvNext
<1>7. Map!Content' = <<>>
  BY <1>2, ContentNext, ContentOfNone
<1>8. {c[j] : j \in DOMAIN c} = {ItemOf(data[i]) : i \in 1 .. Len(data)}
  BY <1>4 DEF KeysOf
<1>9. Map!ValuesOut' = Map!ValuesOut \cup Map!Map!Released({c[j] : j \in DOMAIN c})
  <2>1. OutOf(released \o all) = OutOf(released) \cup OutOf(all)
    BY <1>1, <1>3, OutOfConcat
  <2> QED
    BY <1>2, <1>3, <1>8, <2>1, OutIs
<1>10. Map!Map!Clear(how)
  BY <1>2, <1>7, <1>9, AnswersAgree DEF Map!Map!Clear, c
<1> QED
  BY <1>2, <1>6, <1>10 DEF Map!Map!Next

LEMMA SetStep ==
  ASSUME MapInv, NEW key \in Keys, NEW custom \in BOOLEAN, Map!SetWith(key, custom)
  PROVE  MapInv' /\ Map!Map!Next
<1> DEFINE e == [key |-> key, token |-> token + 1, custom |-> custom]
           works == held' = held \cup {token + 1} /\ answer' = Map!Answer("set", key, 1)
           fails == held' = held /\ answer' = Map!Answer("set", key, 0)
<1>1. token < MaxSets /\ token' = token + 1 /\ MapFrame
  BY DEF Map!SetWith, MapFrame
<1>2. \/ /\ copied' = (IF own_keys THEN copied \cup {token + 1} ELSE copied)
         /\ \/ Map!Index(key) # 0 /\ Map!Replace(Map!Index(key), e) /\ works
            \/ Map!Index(key) = 0 /\ Map!InsertEntry(e) /\ works
            \/ Map!Index(key) = 0 /\ Map!InsertFails(token + 1) /\ fails
      \/ /\ fails
         /\ UNCHANGED <<data, alloc, released, copied>>
  BY DEF Map!SetWith
<1>3. token + 1 \in 1 .. MaxSets /\ released \in Seq(Releases)
  BY <1>1, MapInvIs, Assumptions
<1>4. ASSUME copied' = (IF own_keys THEN copied \cup {token + 1} ELSE copied),
             Map!Index(key) # 0, Map!Replace(Map!Index(key), e), works
      PROVE  MapInv' /\ Map!Map!Next
  <2>1. copied' \subseteq copied \cup {token + 1} /\ held' \subseteq held \cup {token + 1}
    BY <1>4
  <2> QED
    BY <1>1, <1>4, <2>1, SetReplaces
<1>5. ASSUME copied' = (IF own_keys THEN copied \cup {token + 1} ELSE copied),
             Map!Index(key) = 0, Map!InsertEntry(e), works
      PROVE  MapInv' /\ Map!Map!Next
  <2>1. copied' \subseteq copied \cup {token + 1} /\ held' \subseteq held \cup {token + 1}
    BY <1>5
  <2> QED
    BY <1>1, <1>5, <2>1, SetInserts
<1>6. ASSUME copied' = (IF own_keys THEN copied \cup {token + 1} ELSE copied),
             Map!InsertFails(token + 1), fails
      PROVE  MapInv' /\ Map!Map!Next
  <2>1. copied' \subseteq copied \cup {token + 1} /\ held' = held
    BY <1>6
  <2>2. UNCHANGED <<data, alloc>> /\ released' = released \o Map!KeyRelease(token + 1)
    BY <1>6 DEF Map!InsertFails
  <2>3. Map!KeyRelease(token + 1) \in Seq(Releases) /\ OutOf(Map!KeyRelease(token + 1)) = {}
    BY <1>3, OutOfKeyRelease
  <2> QED
    BY <1>1, <1>6, <2>1, <2>2, <2>3, SetFails
<1>7. ASSUME fails, UNCHANGED <<data, alloc, released, copied>>
      PROVE  MapInv' /\ Map!Map!Next
  <2>1. <<>> \in Seq(Releases) /\ OutOf(<<>>) = {}
    BY DEF OutOf, ToSet
  <2>2. released' = released \o <<>>
    BY <1>3, <1>7, ConcatEmptySeq
  <2>3. copied' \subseteq copied \cup {token + 1}
    BY <1>7
  <2> QED
    BY <1>1, <1>7, <2>1, <2>2, <2>3, SetFails
<1> QED
  BY <1>2, <1>4, <1>5, <1>6, <1>7

-----------------------------------------------------------------------------
LEMMA MapStepKeeps ==
  ASSUME MapInv, [Next]_vars
  PROVE  MapInv' /\ (Map!Map!Next \/ UNCHANGED Map!Map!vars)
<1>1. CASE Map!Next
  BY <1>1, SetStep, GetStep, RemoveStep, RemoveAllStep DEF Map!Next
<1>2. CASE UNCHANGED mapVars
  <2>1. MapInv'
    BY <1>2 DEF MapInv, Map!TypeOK, mapVars
  <2>2. Map!Content' = Map!Content /\ Map!ValuesOut' = Map!ValuesOut
    BY <1>2, ContentNow, ContentNext, OutIs DEF mapVars
  <2>3. answer' = answer /\ open' = open
    BY <1>2 DEF mapVars
  <2> QED
    BY <2>1, <2>2, <2>3 DEF Map!Map!vars
<1> QED
  BY <1>1, <1>2 DEF Next, MapStep, ContainerStep, BufferStep, vars

LEMMA MapAlways == Spec => []MapInv
<1>1. Init => MapInv
  BY MapInit DEF Init, MapIdle
<1>2. MapInv /\ [Next]_vars => MapInv'
  BY MapStepKeeps
<1> QED
  BY <1>1, <1>2, PTL DEF Spec

(* ImplementsMap: whatever a client sets, replaces and removes, in         *)
(* whatever order and whichever calls fail, a GMap answers and releases    *)
(* values like a finite function.                                          *)
THEOREM MapIsFunction == Spec => ImplementsMap
<1>1. Init => Map!Map!Init
  BY MapInit DEF Init, MapIdle
<1>2. MapInv /\ [Next]_vars => [Map!Map!Next]_(Map!Map!vars)
  BY MapStepKeeps
<1> QED
  BY <1>1, <1>2, MapAlways, PTL
     DEF Spec, ImplementsMap, Map!ImplementsMap, Map!Map!Spec

-----------------------------------------------------------------------------
(* NothingLost.  A release is marked with its token and with whether it is *)
(* of a key or of a value: no mark is twice among the releases, and which  *)
(* marks are there is told by what was copied, held, and is in the map.    *)
Outs == [token: 1 .. MaxSets, by: {"key", "default", "custom"}]
Part(by) == IF by = "key" THEN "key" ELSE "value"
Mark == [x \in Outs |-> <<x.token, Part(x.by)>>]
Marks(r) == {Mark[x] : x \in ToSet(r)}
Once(r) == r \in Seq(Outs) /\ OneToOne(r, Mark)
TokensOf(d) == {d[i].token : i \in 1 .. Len(d)}
Alone(d) == \A i, j \in 1 .. Len(d) : d[i].token = d[j].token => i = j
Accounted(r, inside, h, c) ==
  \A n :
    /\ <<n, "key">> \in Marks(r) <=> n \in c \ inside
    /\ <<n, "value">> \in Marks(r) => n \in h \ inside
    /\ own_values /\ n \in h \ inside => <<n, "value">> \in Marks(r)
Ledger ==
  /\ Once(released) /\ Alone(data)
  /\ TokensOf(data) \subseteq held
  /\ own_keys => TokensOf(data) \subseteq copied
  /\ ~own_keys => copied = {}
  /\ Accounted(released, TokensOf(data), held, copied)

LEMMA MarksOfConcat ==
  ASSUME NEW r \in Seq(Outs), NEW s \in Seq(Outs)
  PROVE  Marks(r \o s) = Marks(r) \cup Marks(s)
<1>1. \A x : x \in ToSet(r \o s) <=> x \in ToSet(r) \/ x \in ToSet(s)
  BY ToSetOfConcat
<1> QED
  BY <1>1 DEF Marks

LEMMA InMarks ==
  ASSUME NEW r \in Seq(Outs), NEW x \in ToSet(r)
  PROVE  x \in Outs /\ Mark[x] \in Marks(r)
BY DEF Marks, ToSet

LEMMA OnceConcat ==
  ASSUME NEW r, NEW s, Once(r), Once(s), Marks(r) \cap Marks(s) = {}
  PROVE  Once(r \o s) /\ Marks(r \o s) = Marks(r) \cup Marks(s)
<1>1. r \in Seq(Outs) /\ s \in Seq(Outs) /\ OneToOne(r, Mark) /\ OneToOne(s, Mark)
  BY DEF Once
<1>2. \A x \in ToSet(r), y \in ToSet(s) : Mark[x] # Mark[y]
  BY <1>1, InMarks
<1>3. OneToOne(r \o s, Mark)
  BY <1>1, <1>2, ConcatOneToOne
<1> QED
  BY <1>1, <1>3, ConcatProperties, MarksOfConcat DEF Once

LEMMA OnceEmpty == Once(<<>>) /\ Marks(<<>>) = {}
BY DEF Once, OneToOne, Marks, ToSet

LEMMA OnceSingle ==
  ASSUME NEW n \in 1 .. MaxSets, NEW b \in {"key", "default", "custom"}
  PROVE  /\ Once(<<[token |-> n, by |-> b]>>)
         /\ Marks(<<[token |-> n, by |-> b]>>) = {<<n, Part(b)>>}
<1> DEFINE x == [token |-> n, by |-> b]
<1>1. x \in Outs /\ Mark[x] = <<n, Part(b)>>
  BY DEF Outs, Mark
<1> HIDE DEF x
<1>2. <<x>> \in Seq(Outs) /\ ToSet(<<x>>) = {x} /\ OneToOne(<<x>>, Mark)
  BY <1>1 DEF ToSet, OneToOne
<1> QED
  BY <1>1, <1>2 DEF Once, Marks, x

LEMMA KeyReleaseMarks ==
  ASSUME NEW n \in 1 .. MaxSets
  PROVE  /\ Once(Map!KeyRelease(n))
         /\ Marks(Map!KeyRelease(n)) = IF own_keys THEN {<<n, "key">>} ELSE {}
<1>1. CASE own_keys
  BY <1>1, OnceSingle DEF Map!KeyRelease, Part
<1>2. CASE ~own_keys
  BY <1>2, OnceEmpty DEF Map!KeyRelease
<1> QED
  BY <1>1, <1>2

(* g_map_free_key_value marks the token of its entry only.                 *)
LEMMA EntryMarks ==
  ASSUME NEW e \in Map!Entry
  PROVE  /\ Once(Map!FreeKeyValue(e))
         /\ Marks(Map!FreeKeyValue(e)) \subseteq {<<e.token, "key">>, <<e.token, "value">>}
         /\ <<e.token, "key">> \in Marks(Map!FreeKeyValue(e)) <=> own_keys
         /\ own_values => <<e.token, "value">> \in Marks(Map!FreeKeyValue(e))
<1> DEFINE by == Map!ValueCallback(e)
           rest == IF by = "none" THEN <<>> ELSE <<[token |-> e.token, by |-> by]>>
           first == Map!KeyRelease(e.token)
<1>1. /\ e.token \in 1 .. MaxSets /\ by \in {"none", "default", "custom"}
      /\ own_values => by # "none"
  BY DEF Map!Entry, Map!ValueCallback
<1>2. Map!FreeKeyValue(e) = first \o rest
  BY DEF Map!FreeKeyValue
<1> HIDE DEF by
<1>3. Once(first) /\ Marks(first) = IF own_keys THEN {<<e.token, "key">>} ELSE {}
  BY <1>1, KeyReleaseMarks
<1>4. Once(rest) /\ Marks(rest) = IF by = "none" THEN {} ELSE {<<e.token, "value">>}
  <2>1. CASE by = "none"
    BY <2>1, OnceEmpty
  <2>2. CASE by # "none"
    <3>1. by \in {"key", "default", "custom"} /\ Part(by) = "value"
      BY <1>1, <2>2 DEF Part
    <3>2. /\ Once(<<[token |-> e.token, by |-> by]>>)
          /\ Marks(<<[token |-> e.token, by |-> by]>>) = {<<e.token, "value">>}
      BY <1>1, <3>1, OnceSingle
    <3> QED
      BY <2>2, <3>2
  <2> QED
    BY <2>1, <2>2
<1> HIDE DEF first, rest
<1>5. <<e.token, "key">> # <<e.token, "value">>
  OBVIOUS
<1>6. Marks(first) \cap Marks(rest) = {}
  BY <1>3, <1>4, <1>5
<1>7. /\ Once(Map!FreeKeyValue(e))
      /\ Marks(Map!FreeKeyValue(e)) = Marks(first) \cup Marks(rest)
  BY <1>2, <1>3, <1>4, <1>6, OnceConcat
<1> QED
  BY <1>1, <1>3, <1>4, <1>5, <1>7

(* g_map_remove_all marks the tokens of all entries.                       *)
LEMMA AllMarks ==
  ASSUME Sorted, Alone(data)
  PROVE  LET all == Map!FlattenSeq([i \in DOMAIN data |-> Map!FreeKeyValue(data[i])])
         IN  /\ Once(all)
             /\ \A n : <<n, "key">> \in Marks(all) <=> own_keys /\ n \in TokensOf(data)
             /\ \A n : <<n, "value">> \in Marks(all) => n \in TokensOf(data)
             /\ own_values => \A n \in TokensOf(data) : <<n, "value">> \in Marks(all)
<1> DEFINE seqs == [i \in DOMAIN data |-> Map!FreeKeyValue(data[i])]
           n == Len(data)
<1>1. n \in Nat /\ DOMAIN data = 1 .. n /\ \A i \in 1 .. n : data[i] \in Map!Entry
  BY EntryTypes
<1>2. ASSUME NEW i \in 1 .. n
      PROVE  /\ Once(seqs[i])
             /\ Marks(seqs[i]) \subseteq {<<data[i].token, "key">>, <<data[i].token, "value">>}
             /\ <<data[i].token, "key">> \in Marks(seqs[i]) <=> own_keys
             /\ own_values => <<data[i].token, "value">> \in Marks(seqs[i])
  <2>1. data[i] \in Map!Entry /\ seqs[i] = Map!FreeKeyValue(data[i])
    BY <1>1
  <2> HIDE DEF seqs
  <2> QED
    BY <2>1, EntryMarks
<1>3. Len(seqs) = n /\ (n = 0 => seqs = <<>>)
  BY <1>1
<1>4. \A i, j \in 1 .. n : data[i].token = data[j].token => i = j
  BY DEF Alone
<1>5. TokensOf(data) = {data[i].token : i \in 1 .. n}
  BY DEF TokensOf
<1> HIDE DEF seqs, n
<1>6. \A i \in 1 .. n : seqs[i] \in Seq(Outs) /\ OneToOne(seqs[i], Mark)
  BY <1>2 DEF Once
<1>7. ASSUME NEW i \in 1 .. n, NEW j \in 1 .. n, i # j,
             NEW x \in ToSet(seqs[i]), NEW y \in ToSet(seqs[j])
      PROVE  Mark[x] # Mark[y]
  <2>1. Mark[x] \in Marks(seqs[i]) /\ Mark[y] \in Marks(seqs[j])
    BY DEF Marks
  <2>2. data[i].token # data[j].token
    BY <1>4, <1>7
  <2>3. Mark[x] \in {<<data[i].token, "key">>, <<data[i].token, "value">>}
    BY <1>2, <2>1
  <2>4. Mark[y] \in {<<data[j].token, "key">>, <<data[j].token, "value">>}
    BY <1>2, <2>1
  <2> QED
    BY <2>2, <2>3, <2>4
<1> DEFINE all == FlattenSeq(seqs)
<1>8. OneToOne(all, Mark)
  <2>1. AreSequences(seqs, n, Outs)
    BY <1>3, <1>6 DEF AreSequences
  <2> HIDE DEF all
  <2> QED
    BY <1>1, <1>6, <1>7, <2>1, FlattenOneToOne DEF all
<1>9. all \in Seq(Outs) /\ \A x : x \in ToSet(all) <=> \E i \in 1 .. n : x \in ToSet(seqs[i])
  BY <1>1, <1>3, <1>6, FlattenSeqProperties
<1> HIDE DEF all
<1>10. \A m : m \in Marks(all) <=> \E i \in 1 .. n : m \in Marks(seqs[i])
  BY <1>9 DEF Marks
<1>11. ASSUME NEW k
       PROVE  /\ <<k, "key">> \in Marks(all) <=> own_keys /\ k \in TokensOf(data)
              /\ <<k, "value">> \in Marks(all) => k \in TokensOf(data)
              /\ own_values /\ k \in TokensOf(data) => <<k, "value">> \in Marks(all)
  <2>1. ASSUME <<k, "key">> \in Marks(all) PROVE own_keys /\ k \in TokensOf(data)
    <3>1. PICK i \in 1 .. n : <<k, "key">> \in Marks(seqs[i])
      BY <1>10, <2>1
    <3>2. <<k, "key">> \in {<<data[i].token, "key">>, <<data[i].token, "value">>}
      BY <1>2, <3>1
    <3>3. k = data[i].token
      BY <3>2
    <3> QED
      BY <1>2, <1>5, <3>1, <3>3
  <2>2. ASSUME <<k, "value">> \in Marks(all) PROVE k \in TokensOf(data)
    <3>1. PICK i \in 1 .. n : <<k, "value">> \in Marks(seqs[i])
      BY <1>10, <2>2
    <3>2. <<k, "value">> \in {<<data[i].token, "key">>, <<data[i].token, "value">>}
      BY <1>2, <3>1
    <3>3. k = data[i].token
      BY <3>2
    <3> QED
      BY <1>5, <3>3
  <2>3. ASSUME k \in TokensOf(data)
        PROVE  /\ own_keys => <<k, "key">> \in Marks(all)
               /\ own_values => <<k, "value">> \in Marks(all)
    <3>1. PICK i \in 1 .. n : k = data[i].token
      BY <1>5, <2>3
    <3> QED
      BY <1>2, <1>10, <3>1
  <2> QED
    BY <2>1, <2>2, <2>3
<1>12. Map!FlattenSeq(seqs) = all
  BY DEF FlattenSeq, Map!FlattenSeq, all
<1>13. Once(all)
  BY <1>8, <1>9 DEF Once
<1> QED
  BY <1>11, <1>12, <1>13 DEF seqs

(* What a call does to the tokens in the map.                              *)
ReplacedAt(d, f, i, e) ==
  Len(f) = Len(d) /\ \A j \in 1 .. Len(d) : f[j] = IF j = i THEN e ELSE d[j]
InsertedAt(d, f, p, e) ==
  /\ Len(f) = Len(d) + 1
  /\ \A j \in 1 .. Len(d) + 1 :
       f[j] = IF j < p THEN d[j] ELSE IF j = p THEN e ELSE d[j - 1]
RemovedAt(d, f, p) ==
  /\ Len(f) = Len(d) - 1
  /\ \A j \in 1 .. Len(d) - 1 : f[j] = IF j < p THEN d[j] ELSE d[j + 1]

LEMMA TokensReplaced ==
  ASSUME NEW d, NEW f, NEW i \in 1 .. Len(d), NEW e, ReplacedAt(d, f, i, e), Alone(d),
         e.token \notin TokensOf(d)
  PROVE  /\ Alone(f)
         /\ TokensOf(f) = (TokensOf(d) \ {d[i].token}) \cup {e.token}
         /\ d[i].token \in TokensOf(d)
<1>0. Len(f) = Len(d) /\ \A j \in 1 .. Len(d) : f[j] = IF j = i THEN e ELSE d[j]
  BY DEF ReplacedAt
<1>1. \A j \in 1 .. Len(d) : d[j].token \in TokensOf(d) /\ d[j].token # e.token
  BY DEF TokensOf
<1>2. \A j \in 1 .. Len(d) : j # i => d[j].token # d[i].token
  BY DEF Alone
<1>3. \A j \in 1 .. Len(d) : f[j].token = IF j = i THEN e.token ELSE d[j].token
  BY <1>0
<1>4. ASSUME NEW j \in 1 .. Len(d), NEW k \in 1 .. Len(d), f[j].token = f[k].token
      PROVE  j = k
  BY <1>1, <1>3, <1>4 DEF Alone
<1>5. \A k : k \in TokensOf(f) <=> k \in (TokensOf(d) \ {d[i].token}) \cup {e.token}
  <2>1. \A j \in 1 .. Len(d) : f[j].token \in (TokensOf(d) \ {d[i].token}) \cup {e.token}
    BY <1>1, <1>2, <1>3
  <2>2. \A j \in 1 .. Len(d) : j # i => d[j].token \in TokensOf(f)
    <3>1. \A j \in 1 .. Len(d) : f[j].token \in TokensOf(f)
      BY <1>0 DEF TokensOf
    <3> QED
      BY <1>3, <3>1
  <2>3. e.token \in TokensOf(f)
    BY <1>0, <1>3 DEF TokensOf
  <2>4. \A k \in TokensOf(f) : \E j \in 1 .. Len(d) : k = f[j].token
    BY <1>0 DEF TokensOf
  <2>5. \A k \in TokensOf(d) : \E j \in 1 .. Len(d) : k = d[j].token
    BY DEF TokensOf
  <2> QED
    BY <2>1, <2>2, <2>3, <2>4, <2>5
<1> QED
  BY <1>0, <1>1, <1>4, <1>5 DEF Alone

LEMMA TokensInserted ==
  ASSUME NEW d, NEW f, Len(d) \in Nat, NEW p \in 1 .. Len(d) + 1, NEW e, InsertedAt(d, f, p, e),
         Alone(d), e.token \notin TokensOf(d)
  PROVE  Alone(f) /\ TokensOf(f) = TokensOf(d) \cup {e.token}
<1> DEFINE from(j) == IF j < p THEN j ELSE j - 1
           to(j) == IF j < p THEN j ELSE j + 1
<1>0. /\ Len(f) = Len(d) + 1
      /\ \A j \in 1 .. Len(d) + 1 :
           f[j] = IF j < p THEN d[j] ELSE IF j = p THEN e ELSE d[j - 1]
  BY DEF InsertedAt
<1>1. \A j \in 1 .. Len(d) + 1 : j # p => from(j) \in 1 .. Len(d) /\ f[j] = d[from(j)]
  BY <1>0
<1>2. \A j \in 1 .. Len(d) : to(j) \in 1 .. Len(d) + 1 /\ to(j) # p /\ from(to(j)) = j
  OBVIOUS
<1>3. \A j, k \in 1 .. Len(d) + 1 : j # p /\ k # p /\ from(j) = from(k) => j = k
  OBVIOUS
<1>4. f[p] = e
  BY <1>0
<1> HIDE DEF from, to
<1>5. \A j \in 1 .. Len(d) : d[j].token \in TokensOf(d) /\ d[j].token # e.token
  BY DEF TokensOf
<1>6. ASSUME NEW j \in 1 .. Len(d) + 1, NEW k \in 1 .. Len(d) + 1, f[j].token = f[k].token
      PROVE  j = k
  <2>1. CASE j # p /\ k # p
    BY <1>1, <1>3, <1>6, <2>1 DEF Alone
  <2>2. CASE j = p \/ k = p
    BY <1>1, <1>4, <1>5, <1>6, <2>2
  <2> QED
    BY <2>1, <2>2
<1>7. \A j \in 1 .. Len(d) + 1 : f[j].token \in TokensOf(d) \cup {e.token}
  BY <1>1, <1>4, <1>5
<1>8. \A j \in 1 .. Len(d) + 1 : f[j].token \in TokensOf(f)
  BY <1>0 DEF TokensOf
<1>9. \A j \in 1 .. Len(d) : d[j].token \in TokensOf(f)
  BY <1>1, <1>2, <1>8
<1>10. \A k \in TokensOf(f) : \E j \in 1 .. Len(d) + 1 : k = f[j].token
  BY <1>0 DEF TokensOf
<1>11. \A k \in TokensOf(d) : \E j \in 1 .. Len(d) : k = d[j].token
  BY DEF TokensOf
<1>12. e.token \in TokensOf(f)
  BY <1>4, <1>8
<1>13. \A k : k \in TokensOf(f) <=> k \in TokensOf(d) \cup {e.token}
  BY <1>7, <1>9, <1>10, <1>11, <1>12
<1> QED
  BY <1>0, <1>6, <1>13 DEF Alone

LEMMA TokensRemoved ==
  ASSUME NEW d, NEW f, Len(d) \in Nat, NEW p \in 1 .. Len(d), RemovedAt(d, f, p),
         Alone(d)
  PROVE  /\ Alone(f) /\ TokensOf(f) = TokensOf(d) \ {d[p].token}
         /\ d[p].token \in TokensOf(d)
<1> DEFINE from(j) == IF j < p THEN j ELSE j + 1
           to(j) == IF j < p THEN j ELSE j - 1
<1>0. /\ Len(f) = Len(d) - 1
      /\ \A j \in 1 .. Len(d) - 1 : f[j] = IF j < p THEN d[j] ELSE d[j + 1]
  BY DEF RemovedAt
<1>1. \A j \in 1 .. Len(d) - 1 : from(j) \in 1 .. Len(d) /\ from(j) # p /\ f[j] = d[from(j)]
  BY <1>0
<1>2. \A j \in 1 .. Len(d) : j # p => to(j) \in 1 .. Len(d) - 1 /\ from(to(j)) = j
  OBVIOUS
<1>3. \A j, k \in 1 .. Len(d) - 1 : from(j) = from(k) => j = k
  OBVIOUS
<1> HIDE DEF from, to
<1>4. ASSUME NEW j \in 1 .. Len(d) - 1, NEW k \in 1 .. Len(d) - 1, f[j].token = f[k].token
      PROVE  j = k
  BY <1>1, <1>3, <1>4 DEF Alone
<1>5. \A j \in 1 .. Len(d) : d[j].token \in TokensOf(d)
  BY DEF TokensOf
<1>6. \A j \in 1 .. Len(d) - 1 : f[j].token \in TokensOf(d) \ {d[p].token}
  BY <1>1, <1>5 DEF Alone
<1>7. \A j \in 1 .. Len(d) - 1 : f[j].token \in TokensOf(f)
  BY <1>0 DEF TokensOf
<1>8. \A j \in 1 .. Len(d) : j # p => d[j].token \in TokensOf(f)
  BY <1>1, <1>2, <1>7
<1>9. \A k \in TokensOf(f) : \E j \in 1 .. Len(d) - 1 : k = f[j].token
  BY <1>0 DEF TokensOf
<1>10. \A k \in TokensOf(d) : \E j \in 1 .. Len(d) : k = d[j].token
  BY DEF TokensOf
<1>11. \A k : k \in TokensOf(f) <=> k \in TokensOf(d) \ {d[p].token}
  BY <1>6, <1>8, <1>9, <1>10
<1> QED
  BY <1>0, <1>4, <1>5, <1>11 DEF Alone

-----------------------------------------------------------------------------
(* A call keeps the ledger if what it releases is what leaves the map, and *)
(* the copy of the key when there is no memory for its entry.              *)
Releasing(r, before, after, c, d) ==
  /\ Once(r)
  /\ \A n :
       /\ <<n, "key">> \in Marks(r) <=> n \in d \ after /\ (n \in before \/ n \notin c)
       /\ <<n, "value">> \in Marks(r) => n \in before \ after
       /\ own_values /\ n \in before \ after => <<n, "value">> \in Marks(r)

LEMMA MarksAre ==
  ASSUME NEW r, Once(r), NEW m \in Marks(r)
  PROVE  \E n : m = <<n, "key">> \/ m = <<n, "value">>
<1>1. PICK x \in ToSet(r) : m = Mark[x]
  BY DEF Marks
<1>2. x \in Outs
  BY InMarks DEF Once
<1> QED
  BY <1>1, <1>2 DEF Mark, Outs, Part

LEMMA LedgerMoves ==
  ASSUME Ledger, NEW r, released' = released \o r,
         own_keys' = own_keys, own_values' = own_values, Alone(data'),
         Releasing(r, TokensOf(data), TokensOf(data'), copied, copied'),
         held' = held \cup (TokensOf(data') \ TokensOf(data)),
         copied \subseteq copied',
         own_keys => TokensOf(data') \subseteq copied', ~own_keys => copied' = {},
         \A n \in TokensOf(data') \ TokensOf(data) : n \notin held /\ n \notin copied
  PROVE  Ledger'
<1> DEFINE before == TokensOf(data)
           after == TokensOf(data')
<1>1. /\ Once(released) /\ before \subseteq held
      /\ Accounted(released, before, held, copied)
  BY DEF Ledger
<1>2. /\ Once(r)
      /\ \A n :
           /\ <<n, "key">> \in Marks(r) <=>
                n \in copied' \ after /\ (n \in before \/ n \notin copied)
           /\ <<n, "value">> \in Marks(r) => n \in before \ after
           /\ own_values /\ n \in before \ after => <<n, "value">> \in Marks(r)
  BY DEF Releasing
<1>3. /\ held' = held \cup (after \ before) /\ copied \subseteq copied'
      /\ \A n \in after \ before : n \notin held /\ n \notin copied
  OBVIOUS
<1> HIDE DEF before, after
<1>4. Marks(released) \cap Marks(r) = {}
  <2> SUFFICES ASSUME NEW m \in Marks(released), m \in Marks(r) PROVE FALSE
    OBVIOUS
  <2>1. PICK n : m = <<n, "key">> \/ m = <<n, "value">>
    BY <1>1, MarksAre
  <2>2. CASE m = <<n, "key">>
    BY <1>1, <1>2, <2>2 DEF Accounted
  <2>3. CASE m = <<n, "value">>
    BY <1>1, <1>2, <2>3 DEF Accounted
  <2> QED
    BY <2>1, <2>2, <2>3
<1>5. Once(released') /\ Marks(released') = Marks(released) \cup Marks(r)
  BY <1>1, <1>2, <1>4, OnceConcat
<1>6. ASSUME NEW n
      PROVE  /\ <<n, "key">> \in Marks(released') <=> n \in copied' \ after
             /\ <<n, "value">> \in Marks(released') => n \in held' \ after
             /\ own_values /\ n \in held' \ after => <<n, "value">> \in Marks(released')
  <2>1. /\ <<n, "key">> \in Marks(released) <=> n \in copied \ before
        /\ <<n, "value">> \in Marks(released) => n \in held \ before
        /\ own_values /\ n \in held \ before => <<n, "value">> \in Marks(released)
    BY <1>1 DEF Accounted
  <2>2. <<n, "key">> \in Marks(released') <=> n \in copied' \ after
    BY <1>2, <1>3, <1>5, <2>1
  <2>3. <<n, "value">> \in Marks(released') => n \in held' \ after
    BY <1>1, <1>2, <1>3, <1>5, <2>1
  <2>4. own_values /\ n \in held' \ after => <<n, "value">> \in Marks(released')
    BY <1>2, <1>3, <1>5, <2>1
  <2> QED
    BY <2>2, <2>3, <2>4
<1>7. Accounted(released, TokensOf(data), held, copied)'
  BY <1>6 DEF Accounted, after, TokensOf, Marks, Mark, ToSet
<1>8. after \subseteq held'
  BY <1>1, <1>3
<1> QED
  BY <1>5, <1>7, <1>8 DEF Ledger, after

LEMMA LedgerStays ==
  ASSUME Ledger, data' = data, released' = released, held' = held, copied' = copied,
         own_keys' = own_keys, own_values' = own_values
  PROVE  Ledger'
BY DEF Ledger, Accounted

(* The token of the next call is fresh.                                    *)
LEMMA FreshToken ==
  ASSUME MapInv, Ledger
  PROVE  /\ token + 1 \notin held /\ token + 1 \notin copied
         /\ token + 1 \notin TokensOf(data)
<1>1. held \subseteq 1 .. token /\ copied \subseteq 1 .. token /\ token \in Nat
  BY MapInvIs
<1>2. token + 1 \notin 1 .. token
  BY <1>1
<1> QED
  BY <1>1, <1>2 DEF Ledger

LEMMA LedgerReplaces ==
  ASSUME MapInv, Ledger, NEW key \in Keys, NEW custom \in BOOLEAN,
         token < MaxSets, MapFrame, Map!Index(key) # 0,
         Map!Replace(Map!Index(key), [key |-> key, token |-> token + 1, custom |-> custom]),
         held' = held \cup {token + 1},
         copied' = IF own_keys THEN copied \cup {token + 1} ELSE copied
  PROVE  Ledger'
<1> DEFINE e == [key |-> key, token |-> token + 1, custom |-> custom]
           i == Map!Index(key)
           n == token + 1
           r == Map!FreeKeyValue(data[i])
<1>1. Sorted /\ Len(data) \in Nat /\ MaxSets \in Nat /\ token \in Nat
  BY MapInvIs, Assumptions
<1>2. own_keys' = own_keys /\ own_values' = own_values
  BY DEF MapFrame, Map!options
<1>3. e \in Map!Entry /\ e.key = key /\ e.token = n
  BY <1>1 DEF Map!Entry
<1>4. i \in 1 .. Len(data) /\ data[i].key = key
  BY <1>1, AtKey, IndexFinds
<1>5. released' = released \o r /\ data' = [data EXCEPT ![i] = e]
  BY DEF Map!Replace
<1>6. n \notin held /\ n \notin copied /\ n \notin TokensOf(data)
  BY FreshToken
<1>7. Alone(data) /\ (own_keys => TokensOf(data) \subseteq copied)
      /\ (~own_keys => copied = {})
  BY DEF Ledger
<1> HIDE DEF e, i, n
<1>8. /\ Len(data') = Len(data)
      /\ \A j \in 1 .. Len(data) : data'[j] = IF j = i THEN e ELSE data[j]
  <2>1. /\ Len([data EXCEPT ![i] = e]) = Len(data)
        /\ \A j \in 1 .. Len(data) :
             [data EXCEPT ![i] = e][j] = IF j = i THEN e ELSE data[j]
    BY <1>1, <1>3, <1>4, ReplaceKeepsSorted
  <2> QED
    BY <1>5, <2>1
<1>9. /\ Alone(data')
      /\ TokensOf(data') = (TokensOf(data) \ {data[i].token}) \cup {n}
      /\ data[i].token \in TokensOf(data)
  <2> DEFINE f == data'
  <2>1. ReplacedAt(data, f, i, e) /\ e.token \notin TokensOf(data)
    BY <1>3, <1>6, <1>8 DEF ReplacedAt
  <2> HIDE DEF f
  <2>2. Alone(f) /\ TokensOf(f) = (TokensOf(data) \ {data[i].token}) \cup {e.token}
        /\ data[i].token \in TokensOf(data)
    BY <1>3, <1>4, <1>6, <1>7, <2>1, TokensReplaced
  <2> QED
    BY <1>3, <2>2 DEF f
<1>10. /\ Once(r)
       /\ Marks(r) \subseteq {<<data[i].token, "key">>, <<data[i].token, "value">>}
       /\ <<data[i].token, "key">> \in Marks(r) <=> own_keys
       /\ own_values => <<data[i].token, "value">> \in Marks(r)
  <2>1. data[i] \in Map!Entry
    BY <1>1, <1>4, EntryTypes
  <2> QED
    BY <2>1, EntryMarks
<1> HIDE DEF r
<1>11. n # data[i].token
  BY <1>6, <1>9
<1>12. copied' = IF own_keys THEN copied \cup {n} ELSE copied
  BY DEF n
<1>13. held' = held \cup {n}
  BY DEF n
<1>14. Releasing(r, TokensOf(data), TokensOf(data'), copied, copied')
  <2> DEFINE k == data[i].token
             before == TokensOf(data)
             after == TokensOf(data')
  <2>1. after = (before \ {k}) \cup {n} /\ k \in before /\ n # k
    BY <1>9, <1>11
  <2>2. /\ Marks(r) \subseteq {<<k, "key">>, <<k, "value">>}
        /\ <<k, "key">> \in Marks(r) <=> own_keys
        /\ own_values => <<k, "value">> \in Marks(r)
    BY <1>10
  <2> HIDE DEF k, before, after
  <2>3. own_keys => before \subseteq copied
    BY <1>7 DEF before
  <2>4. ASSUME NEW t
        PROVE  /\ <<t, "key">> \in Marks(r) <=>
                    t \in copied' \ after /\ (t \in before \/ t \notin copied)
               /\ <<t, "value">> \in Marks(r) => t \in before \ after
               /\ own_values /\ t \in before \ after => <<t, "value">> \in Marks(r)
    <3>1. /\ <<t, "key">> \in Marks(r) => t = k
          /\ <<t, "value">> \in Marks(r) => t = k
      BY <2>2
    <3>2. t \in before \ after <=> t = k
      BY <1>6, <2>1 DEF before
    <3>3. t \in copied' \ after /\ (t \in before \/ t \notin copied) <=> own_keys /\ t = k
      BY <1>7, <1>12, <2>1, <2>3, <3>2
    <3>4. <<t, "key">> \in Marks(r) <=> own_keys /\ t = k
      BY <2>2, <3>1
    <3> QED
      BY <2>2, <3>1, <3>2, <3>3, <3>4
  <2> QED
    BY <1>10, <2>4 DEF Releasing, before, after
<1>15. /\ held' = held \cup (TokensOf(data') \ TokensOf(data)) /\ copied \subseteq copied'
       /\ (own_keys => TokensOf(data') \subseteq copied')
       /\ (~own_keys => copied' = {})
       /\ \A t \in TokensOf(data') \ TokensOf(data) : t \notin held /\ t \notin copied
  BY <1>6, <1>7, <1>9, <1>12, <1>13
<1> QED
  BY <1>2, <1>5, <1>9, <1>14, <1>15, LedgerMoves

LEMMA LedgerInserts ==
  ASSUME MapInv, Ledger, NEW key \in Keys, NEW custom \in BOOLEAN,
         token < MaxSets, MapFrame, Map!Index(key) = 0,
         Map!InsertEntry([key |-> key, token |-> token + 1, custom |-> custom]),
         held' = held \cup {token + 1},
         copied' = IF own_keys THEN copied \cup {token + 1} ELSE copied
  PROVE  Ledger'
<1> DEFINE e == [key |-> key, token |-> token + 1, custom |-> custom]
           p == Map!InsertPosition(key)
           n == token + 1
           none == <<>>
<1>1. /\ Sorted /\ Len(data) \in Nat /\ MaxSets \in Nat /\ token \in Nat
      /\ released \in Seq(Releases)
  BY MapInvIs, Assumptions
<1>2. own_keys' = own_keys /\ own_values' = own_values
  BY DEF MapFrame, Map!options
<1>3. e \in Map!Entry /\ e.key = key /\ e.token = n
  BY <1>1 DEF Map!Entry
<1>4. /\ p \in 0 .. Len(data)
      /\ \A i \in 1 .. Len(data) : IF i <= p THEN data[i].key < key ELSE data[i].key > key
  BY <1>1, AtKey, IndexFinds
<1>5. released' = released /\ data' = Map!InsertAt(data, p + 1, e)
  <2>1. Map!InsertEntry(e)
    OBVIOUS
  <2> HIDE DEF e
  <2> QED
    BY <1>3, <2>1 DEF Map!InsertEntry
<1>6. n \notin held /\ n \notin copied /\ n \notin TokensOf(data)
  BY FreshToken
<1>7. Alone(data) /\ (own_keys => TokensOf(data) \subseteq copied)
      /\ (~own_keys => copied = {})
  BY DEF Ledger
<1>8. copied' = (IF own_keys THEN copied \cup {n} ELSE copied) /\ held' = held \cup {n}
  OBVIOUS
<1> HIDE DEF e, p, n, none
<1>9. /\ Len(data') = Len(data) + 1
      /\ \A j \in 1 .. Len(data) + 1 :
           data'[j] = IF j < p + 1 THEN data[j] ELSE IF j = p + 1 THEN e ELSE data[j - 1]
  <2>1. /\ Len(Map!InsertAt(data, p + 1, e)) = Len(data) + 1
        /\ \A j \in 1 .. Len(data) + 1 :
             Map!InsertAt(data, p + 1, e)[j] = IF j < p + 1 THEN data[j]
                                               ELSE IF j = p + 1 THEN e ELSE data[j - 1]
    <3>1. \A i \in 1 .. Len(data) :
            IF i <= p THEN data[i].key < e.key ELSE data[i].key > e.key
      BY <1>3, <1>4
    <3> QED
      BY ONLY <1>1, <1>3, <1>4, <3>1, InsertKeepsSorted
  <2> QED
    BY <1>5, <2>1
<1>10. Alone(data') /\ TokensOf(data') = TokensOf(data) \cup {n}
  <2> DEFINE f == data'
             q == p + 1
  <2>1. /\ InsertedAt(data, f, q, e) /\ e.token \notin TokensOf(data)
        /\ q \in 1 .. Len(data) + 1
    BY <1>1, <1>3, <1>4, <1>6, <1>9 DEF InsertedAt
  <2> HIDE DEF f, q
  <2>2. Alone(f) /\ TokensOf(f) = TokensOf(data) \cup {e.token}
    BY <1>1, <1>7, <2>1, TokensInserted
  <2> QED
    BY <1>3, <2>2 DEF f
<1>11. released' = released \o none
  BY <1>1, <1>5, ConcatEmptySeq DEF none
<1>12. Releasing(none, TokensOf(data), TokensOf(data'), copied, copied')
  <2>1. Once(none) /\ Marks(none) = {}
    BY OnceEmpty DEF none
  <2> QED
    BY <1>8, <1>10, <2>1 DEF Releasing
<1>13. /\ held' = held \cup (TokensOf(data') \ TokensOf(data)) /\ copied \subseteq copied'
       /\ (own_keys => TokensOf(data') \subseteq copied')
       /\ (~own_keys => copied' = {})
       /\ \A t \in TokensOf(data') \ TokensOf(data) : t \notin held /\ t \notin copied
  BY <1>6, <1>7, <1>8, <1>10
<1> QED
  BY <1>2, <1>10, <1>11, <1>12, <1>13, LedgerMoves

(* The copy of the key is given back.                                      *)
LEMMA LedgerFails ==
  ASSUME MapInv, Ledger, token < MaxSets, MapFrame, Map!InsertFails(token + 1),
         held' = held, copied' = IF own_keys THEN copied \cup {token + 1} ELSE copied
  PROVE  Ledger'
<1> DEFINE n == token + 1
           r == Map!KeyRelease(n)
<1>1. own_keys' = own_keys /\ own_values' = own_values
  BY DEF MapFrame, Map!options
<1>2. released' = released \o r /\ data' = data
  BY DEF Map!InsertFails
<1>3. n \notin copied /\ n \notin TokensOf(data)
  BY FreshToken
<1>4. Alone(data) /\ (own_keys => TokensOf(data) \subseteq copied)
      /\ (~own_keys => copied = {})
  BY DEF Ledger
<1>5. Once(r) /\ Marks(r) = IF own_keys THEN {<<n, "key">>} ELSE {}
  <2>1. n \in 1 .. MaxSets
    BY MapInvIs, Assumptions
  <2> QED
    BY <2>1, KeyReleaseMarks
<1>6. copied' = (IF own_keys THEN copied \cup {n} ELSE copied)
  OBVIOUS
<1> HIDE DEF n, r
<1>7. Alone(data') /\ TokensOf(data') = TokensOf(data)
  BY <1>2, <1>4
<1>8. Releasing(r, TokensOf(data), TokensOf(data'), copied, copied')
  <2> DEFINE before == TokensOf(data)
             after == TokensOf(data')
  <2>1. after = before
    BY <1>7
  <2> HIDE DEF before, after
  <2>2. ASSUME NEW t
        PROVE  /\ <<t, "key">> \in Marks(r) <=>
                    t \in copied' \ after /\ (t \in before \/ t \notin copied)
               /\ <<t, "value">> \notin Marks(r)
    <3>1. <<t, "value">> # <<n, "key">> /\ (<<t, "key">> = <<n, "key">> <=> t = n)
      OBVIOUS
    <3>2. <<t, "key">> \in Marks(r) <=> own_keys /\ t = n
      BY <1>5, <3>1
    <3>3. t \in copied' \ after /\ (t \in before \/ t \notin copied) <=> own_keys /\ t = n
      BY <1>3, <1>6, <2>1 DEF before
    <3> QED
      BY <1>5, <3>1, <3>2, <3>3
  <2> QED
    BY <1>5, <2>1, <2>2 DEF Releasing, before, after
<1>9. /\ held' = held \cup (TokensOf(data') \ TokensOf(data)) /\ copied \subseteq copied'
      /\ (own_keys => TokensOf(data') \subseteq copied')
      /\ (~own_keys => copied' = {})
      /\ \A t \in TokensOf(data') \ TokensOf(data) : t \notin held /\ t \notin copied
  BY <1>4, <1>6, <1>7
<1> QED
  BY <1>1, <1>2, <1>7, <1>8, <1>9, LedgerMoves

LEMMA LedgerRemoves ==
  ASSUME MapInv, Ledger, NEW key \in Keys, Map!RemoveKey(key) PROVE Ledger'
<1> DEFINE i == Map!Index(key)
           r == Map!FreeKeyValue(data[i])
<1>1. Sorted /\ Len(data) \in Nat
  BY MapInvIs
<1>2. /\ own_keys' = own_keys /\ own_values' = own_values
      /\ held' = held /\ copied' = copied
  BY DEF Map!RemoveKey, Map!options
<1>3. CASE i = 0
  <2>1. data' = data /\ released' = released
    BY <1>3 DEF Map!RemoveKey
  <2> QED
    BY <1>2, <2>1, LedgerStays
<1>4. CASE i # 0
  <2>1. data' = Map!RemoveAt(data, i) /\ released' = released \o r
    BY <1>4 DEF Map!RemoveKey
  <2>2. i \in 1 .. Len(data)
    BY <1>1, <1>4, AtKey
  <2> HIDE DEF i
  <2>3. /\ Alone(data) /\ TokensOf(data) \subseteq held
        /\ own_keys => TokensOf(data) \subseteq copied
        /\ ~own_keys => copied = {}
    BY DEF Ledger
  <2>4. /\ Alone(data') /\ TokensOf(data') = TokensOf(data) \ {data[i].token}
        /\ data[i].token \in TokensOf(data)
    <3> DEFINE f == data'
    <3>1. RemovedAt(data, f, i)
      <4>1. /\ Len(Map!RemoveAt(data, i)) = Len(data) - 1
            /\ \A j \in 1 .. Len(data) - 1 :
                 Map!RemoveAt(data, i)[j] = IF j < i THEN data[j] ELSE data[j + 1]
        BY <1>1, <2>2, RemoveKeepsSorted
      <4> QED
        BY <2>1, <4>1 DEF RemovedAt
    <3> HIDE DEF f
    <3>2. /\ Alone(f) /\ TokensOf(f) = TokensOf(data) \ {data[i].token}
          /\ data[i].token \in TokensOf(data)
      BY <1>1, <2>2, <2>3, <3>1, TokensRemoved
    <3> QED
      BY <3>2 DEF f
  <2>5. /\ Once(r)
        /\ Marks(r) \subseteq {<<data[i].token, "key">>, <<data[i].token, "value">>}
        /\ <<data[i].token, "key">> \in Marks(r) <=> own_keys
        /\ own_values => <<data[i].token, "value">> \in Marks(r)
    <3>1. data[i] \in Map!Entry
      BY <1>1, <2>2, EntryTypes
    <3> QED
      BY <3>1, EntryMarks
  <2> HIDE DEF r
  <2>6. Releasing(r, TokensOf(data), TokensOf(data'), copied, copied')
    <3> DEFINE k == data[i].token
               before == TokensOf(data)
               after == TokensOf(data')
    <3>1. after = before \ {k} /\ k \in before
      BY <2>4
    <3>2. /\ Marks(r) \subseteq {<<k, "key">>, <<k, "value">>}
          /\ <<k, "key">> \in Marks(r) <=> own_keys
          /\ own_values => <<k, "value">> \in Marks(r)
      BY <2>5
    <3>3. (own_keys => before \subseteq copied) /\ (~own_keys => copied = {})
      BY <2>3
    <3> HIDE DEF k, before, after
    <3>4. ASSUME NEW t
          PROVE  /\ <<t, "key">> \in Marks(r) <=>
                      t \in copied' \ after /\ (t \in before \/ t \notin copied)
                 /\ <<t, "value">> \in Marks(r) => t \in before \ after
                 /\ own_values /\ t \in before \ after => <<t, "value">> \in Marks(r)
      <4>1. /\ <<t, "key">> \in Marks(r) => t = k
            /\ <<t, "value">> \in Marks(r) => t = k
        BY <3>2
      <4>2. t \in before \ after <=> t = k
        BY <3>1
      <4>3. t \in copied' \ after /\ (t \in before \/ t \notin copied) <=> own_keys /\ t = k
        BY <1>2, <3>1, <3>3, <4>2
      <4>4. <<t, "key">> \in Marks(r) <=> own_keys /\ t = k
        BY <3>2, <4>1
      <4> QED
        BY <3>2, <4>1, <4>2, <4>3, <4>4
    <3> QED
      BY <2>5, <3>4 DEF Releasing, before, after
  <2>7. /\ held' = held \cup (TokensOf(data') \ TokensOf(data)) /\ copied \subseteq copied'
        /\ (own_keys => TokensOf(data') \subseteq copied')
        /\ (~own_keys => copied' = {})
        /\ \A t \in TokensOf(data') \ TokensOf(data) : t \notin held /\ t \notin copied
    BY <1>2, <2>3, <2>4
  <2> QED
    BY <1>2, <2>1, <2>4, <2>6, <2>7, LedgerMoves
<1> QED
  BY <1>3, <1>4

LEMMA LedgerRemovesAll ==
  ASSUME MapInv, Ledger, NEW how \in {"remove_all", "free"}, Map!RemoveAll(how)
  PROVE  Ledger'
<1> DEFINE r == Map!FlattenSeq([i \in DOMAIN data |-> Map!FreeKeyValue(data[i])])
<1>1. Sorted
  BY MapInvIs
<1>2. /\ own_keys' = own_keys /\ own_values' = own_values
      /\ held' = held /\ copied' = copied
      /\ data' = <<>> /\ released' = released \o r
  BY DEF Map!RemoveAll, Map!options
<1>3. /\ Alone(data)
      /\ own_keys => TokensOf(data) \subseteq copied
      /\ ~own_keys => copied = {}
  BY DEF Ledger
<1>4. /\ Once(r)
      /\ \A n : <<n, "key">> \in Marks(r) <=> own_keys /\ n \in TokensOf(data)
      /\ \A n : <<n, "value">> \in Marks(r) => n \in TokensOf(data)
      /\ own_values => \A n \in TokensOf(data) : <<n, "value">> \in Marks(r)
  BY <1>1, <1>3, AllMarks
<1> HIDE DEF r
<1>5. Alone(<<>>) /\ TokensOf(<<>>) = {}
  BY DEF Alone, TokensOf
<1>6. Alone(data') /\ TokensOf(data') = {}
  BY <1>2, <1>5
<1>7. Releasing(r, TokensOf(data), TokensOf(data'), copied, copied')
  <2> DEFINE before == TokensOf(data)
             after == TokensOf(data')
  <2>1. after = {}
    BY <1>6
  <2>2. /\ \A n : <<n, "key">> \in Marks(r) <=> own_keys /\ n \in before
        /\ \A n : <<n, "value">> \in Marks(r) => n \in before
        /\ own_values => \A n \in before : <<n, "value">> \in Marks(r)
        /\ own_keys => before \subseteq copied
    BY <1>3, <1>4
  <2> HIDE DEF before, after
  <2>3. \A n : n \in copied' \ after /\ (n \in before \/ n \notin copied)
                 <=> own_keys /\ n \in before
    BY <1>2, <1>3, <2>1, <2>2
  <2> QED
    BY <1>4, <2>1, <2>2, <2>3 DEF Releasing, before, after
<1>8. /\ held' = held \cup (TokensOf(data') \ TokensOf(data)) /\ copied \subseteq copied'
      /\ (own_keys => TokensOf(data') \subseteq copied')
      /\ (~own_keys => copied' = {})
      /\ \A t \in TokensOf(data') \ TokensOf(data) : t \notin held /\ t \notin copied
  BY <1>2, <1>3, <1>6
<1> QED
  BY <1>2, <1>6, <1>7, <1>8, LedgerMoves

LEMMA LedgerSets ==
  ASSUME MapInv, Ledger, NEW key \in Keys, NEW custom \in BOOLEAN, Map!SetWith(key, custom)
  PROVE  Ledger'
<1> DEFINE e == [key |-> key, token |-> token + 1, custom |-> custom]
           copies == copied' = IF own_keys THEN copied \cup {token + 1} ELSE copied
<1>1. token < MaxSets /\ MapFrame
  BY DEF Map!SetWith, MapFrame
<1>2. \/ /\ copies
         /\ \/ /\ Map!Index(key) # 0 /\ Map!Replace(Map!Index(key), e)
               /\ held' = held \cup {token + 1}
            \/ /\ Map!Index(key) = 0 /\ Map!InsertEntry(e)
               /\ held' = held \cup {token + 1}
            \/ Map!InsertFails(token + 1) /\ held' = held
      \/ held' = held /\ UNCHANGED <<data, alloc, released, copied>>
  BY DEF Map!SetWith
<1>3. ASSUME copies, Map!Index(key) # 0, Map!Replace(Map!Index(key), e),
             held' = held \cup {token + 1}
      PROVE  Ledger'
  BY <1>1, <1>3, LedgerReplaces
<1>4. ASSUME copies, Map!Index(key) = 0, Map!InsertEntry(e), held' = held \cup {token + 1}
      PROVE  Ledger'
  BY <1>1, <1>4, LedgerInserts
<1>5. ASSUME copies, Map!InsertFails(token + 1), held' = held
      PROVE  Ledger'
  BY <1>1, <1>5, LedgerFails
<1>6. ASSUME held' = held, UNCHANGED <<data, alloc, released, copied>>
      PROVE  Ledger'
  BY <1>1, <1>6, LedgerStays DEF MapFrame, Map!options
<1> QED
  BY <1>2, <1>3, <1>4, <1>5, <1>6

LEMMA LedgerStepKeeps == ASSUME MapInv, Ledger, [Next]_vars PROVE Ledger'
<1>1. ASSUME NEW key \in Keys, Map!Get(key) PROVE Ledger'
  BY <1>1, LedgerStays DEF Map!Get, Map!options
<1>2. CASE Map!Next
  BY <1>1, <1>2, LedgerSets, LedgerRemoves, LedgerRemovesAll DEF Map!Next
<1>3. CASE UNCHANGED mapVars
  BY <1>3, LedgerStays DEF mapVars
<1> QED
  BY <1>2, <1>3 DEF Next, MapStep, ContainerStep, BufferStep, vars

LEMMA LedgerInit == ASSUME Map!Init PROVE Ledger
<1>1. data = <<>> /\ released = <<>> /\ held = {} /\ copied = {}
  BY DEF Map!Init
<1>2. Once(<<>>) /\ Marks(<<>>) = {}
  BY OnceEmpty
<1>3. Alone(<<>>) /\ TokensOf(<<>>) = {}
  BY DEF Alone, TokensOf
<1> QED
  BY <1>1, <1>2, <1>3 DEF Ledger, Accounted

LEMMA LedgerAlways == Spec => []Ledger
<1>1. Init => Ledger
  BY LedgerInit DEF Init, MapIdle
<1>2. MapInv /\ Ledger /\ [Next]_vars => Ledger'
  BY LedgerStepKeeps
<1> QED
  BY <1>1, <1>2, MapAlways, PTL DEF Spec

(* A mark that is among the releases at all is the mark of one of them.    *)
LEMMA MarkCount ==
  ASSUME NEW r, Once(r), NEW m
  PROVE  Cardinality({i \in DOMAIN r : Mark[r[i]] = m}) = IF m \in Marks(r) THEN 1 ELSE 0
<1> DEFINE places == {i \in DOMAIN r : Mark[r[i]] = m}
<1>1. DOMAIN r = 1 .. Len(r)
  BY LenProperties DEF Once
<1>2. CASE m \in Marks(r)
  <2>1. PICK i \in DOMAIN r : Mark[r[i]] = m
    BY <1>2 DEF Marks, ToSet
  <2>2. places = {i}
    BY <1>1, <2>1 DEF Once, OneToOne
  <2> HIDE DEF places
  <2>3. Cardinality(places) = 1
    BY <2>2, FS_Singleton
  <2> QED
    BY <1>2, <2>3 DEF places
<1>3. CASE m \notin Marks(r)
  <2>1. places = {}
    BY <1>3 DEF Marks, ToSet
  <2> HIDE DEF places
  <2>2. Cardinality(places) = 0
    BY <2>1, FS_EmptySet
  <2> QED
    BY <1>3, <2>2 DEF places
<1> QED
  BY <1>2, <1>3

LEMMA CountIs ==
  ASSUME Once(released), NEW n
  PROVE  /\ Map!Count(n, {"key"}) = IF <<n, "key">> \in Marks(released) THEN 1 ELSE 0
         /\ Map!Count(n, {"default", "custom"})
              = IF <<n, "value">> \in Marks(released) THEN 1 ELSE 0
<1>1. ASSUME NEW i \in DOMAIN released
      PROVE  /\ released[i].token = n /\ released[i].by \in {"key"}
                  <=> Mark[released[i]] = <<n, "key">>
             /\ released[i].token = n /\ released[i].by \in {"default", "custom"}
                  <=> Mark[released[i]] = <<n, "value">>
  <2>1. released[i] \in Outs
    BY ElementOfSeq, LenProperties DEF Once
  <2>2. /\ released[i].by \in {"key", "default", "custom"}
        /\ Mark[released[i]] = <<released[i].token, Part(released[i].by)>>
    BY <2>1 DEF Outs, Mark
  <2> QED
    BY <2>2 DEF Part
<1>2. {i \in DOMAIN released : released[i].token = n /\ released[i].by \in {"key"}}
        = {i \in DOMAIN released : Mark[released[i]] = <<n, "key">>}
  BY <1>1
<1>3. {i \in DOMAIN released : released[i].token = n
                                /\ released[i].by \in {"default", "custom"}}
        = {i \in DOMAIN released : Mark[released[i]] = <<n, "value">>}
  BY <1>1
<1>4. Map!Count(n, {"key"})
        = Cardinality({i \in DOMAIN released : Mark[released[i]] = <<n, "key">>})
  BY <1>2 DEF Map!Count, Map!Cardinality, Cardinality
<1>5. Map!Count(n, {"default", "custom"})
        = Cardinality({i \in DOMAIN released : Mark[released[i]] = <<n, "value">>})
  BY <1>3 DEF Map!Count, Map!Cardinality, Cardinality
<1> QED
  BY <1>4, <1>5, MarkCount

LEMMA LedgerCounts == ASSUME MapInv, Ledger PROVE Map!NothingLost
<1>1. /\ Once(released)
      /\ Accounted(released, TokensOf(data), held, copied)
      /\ TokensOf(data) \subseteq held
  BY DEF Ledger
<1>2. \A n : Map!InMap(n) <=> n \in TokensOf(data)
  <2>1. DOMAIN data = 1 .. Len(data)
    BY MapInvIs, EntryTypes
  <2> QED
    BY <2>1 DEF Map!InMap, TokensOf
<1>3. ASSUME NEW n
      PROVE  /\ Map!Count(n, {"key"}) = IF n \in copied /\ ~Map!InMap(n) THEN 1 ELSE 0
             /\ Map!Count(n, {"default", "custom"}) <= 1
             /\ n \notin held \/ Map!InMap(n) => Map!Count(n, {"default", "custom"}) = 0
             /\ n \in held /\ ~Map!InMap(n) /\ own_values =>
                  Map!Count(n, {"default", "custom"}) = 1
  <2>1. /\ Map!Count(n, {"key"}) = IF <<n, "key">> \in Marks(released) THEN 1 ELSE 0
        /\ Map!Count(n, {"default", "custom"})
             = IF <<n, "value">> \in Marks(released) THEN 1 ELSE 0
    BY <1>1, CountIs
  <2>2. /\ <<n, "key">> \in Marks(released) <=> n \in copied \ TokensOf(data)
        /\ <<n, "value">> \in Marks(released) => n \in held \ TokensOf(data)
        /\ own_values /\ n \in held \ TokensOf(data) => <<n, "value">> \in Marks(released)
    BY <1>1 DEF Accounted
  <2>3. Map!Count(n, {"default", "custom"}) <= 1
    BY <2>1
  <2> QED
    BY <1>2, <2>1, <2>2, <2>3
<1> QED
  BY <1>3 DEF Map!NothingLost

-----------------------------------------------------------------------------
(* The client of a GMemoryStream or a GString.                             *)
Bytes == Chars \cup {Garbage, Nul}

(* The file lies in the block and is never longer than a client asked for; *)
(* while the client kept its position inside, nothing outside was copied.  *)
StreamInv ==
  /\ stream \in [buffer: Seq(Bytes), length: Nat, position: Int]
  /\ moved \in Seq(Bytes)
  /\ stream.length <= Len(stream.buffer) /\ stream.length <= MaxBytes
  /\ crashed \in BOOLEAN /\ strayed \in BOOLEAN
  /\ ~strayed => ~crashed
  /\ ~strayed => stream.position \in 0 .. stream.length

-----------------------------------------------------------------------------
LEMMA BufferConstants ==
  /\ DoubleUpTo \in Nat /\ ChunkSize \in Nat \ {0, 1}
  /\ MaxBytes \in Nat \ {0} /\ MaxWrite \in Nat
BY CollectionsAssumption DEF CollectionsAssumption, Buffer!BuffersAssumption

LEMMA MaxOfTwo ==
  ASSUME NEW m \in Int, NEW n \in Int
  PROVE  Buffer!Max({m, n}) = IF m >= n THEN m ELSE n
<1> DEFINE top == IF m >= n THEN m ELSE n
<1>1. top \in {m, n} /\ \A y \in {m, n} : top >= y
  OBVIOUS
<1>2. \A x \in {m, n} : (\A y \in {m, n} : x >= y) => x = top
  OBVIOUS
<1> HIDE DEF top
<1>3. Buffer!Max({m, n}) = top
  BY <1>1, <1>2 DEF Buffer!Max
<1> QED
  BY <1>3 DEF top

LEMMA MinOfTwo ==
  ASSUME NEW m \in Int, NEW n \in Int
  PROVE  Buffer!Min({m, n}) = IF m <= n THEN m ELSE n
<1> DEFINE low == IF m <= n THEN m ELSE n
<1>1. low \in {m, n} /\ \A y \in {m, n} : low <= y
  OBVIOUS
<1>2. \A x \in {m, n} : (\A y \in {m, n} : x <= y) => x = low
  OBVIOUS
<1> HIDE DEF low
<1>3. Buffer!Min({m, n}) = low
  BY <1>1, <1>2 DEF Buffer!Min
<1> QED
  BY <1>3 DEF low

LEMMA TextsAreBytes ==
  ASSUME NEW bytes \in Buffer!Texts
  PROVE  /\ bytes \in Seq(Chars) /\ bytes \in Seq(Bytes)
         /\ Len(bytes) \in 1 .. MaxWrite /\ DOMAIN bytes = 1 .. Len(bytes)
         /\ bytes # <<>>
<1>1. PICK n \in 1 .. MaxWrite : bytes \in [1 .. n -> Chars]
  BY DEF Buffer!Texts
<1>2. bytes \in Seq(Chars) /\ Len(bytes) = n /\ n \in Nat
  BY <1>1
<1>3. bytes \in Seq(Bytes)
  BY <1>2, SeqMonotonic DEF Bytes
<1>4. bytes # <<>>
  BY <1>1, <1>2, EmptySeq
<1> QED
  BY <1>1, <1>2, <1>3, <1>4

(* g_realloc keeps what both sizes have.                                   *)
LEMMA ReallocProperties ==
  ASSUME NEW block \in Seq(Bytes), NEW n \in Nat
  PROVE  /\ Buffer!Realloc(block, n) \in Seq(Bytes)
         /\ Len(Buffer!Realloc(block, n)) = n
         /\ \A i \in 1 .. n :
              i <= Len(block) => Buffer!Realloc(block, n)[i] = block[i]
<1>1. \A i \in 1 .. n : i <= Len(block) => block[i] \in Bytes
  BY ElementOfSeq, LenProperties
<1>2. \A i \in 1 .. n : (IF i <= Len(block) THEN block[i] ELSE Garbage) \in Bytes
  BY <1>1 DEF Bytes
<1>3. Buffer!Realloc(block, n) \in [1 .. n -> Bytes]
  BY <1>2 DEF Buffer!Realloc
<1> QED
  BY <1>3 DEF Buffer!Realloc

(* What is in the file, as a sequence of its own.                          *)
LEMMA BytesOf ==
  ASSUME NEW block \in Seq(Bytes), NEW n \in Nat, n <= Len(block)
  PROVE  /\ SubSeq(block, 1, n) \in Seq(Bytes)
         /\ Len(SubSeq(block, 1, n)) = n
         /\ DOMAIN SubSeq(block, 1, n) = 1 .. n
         /\ \A i \in 1 .. n : SubSeq(block, 1, n)[i] = block[i]
<1>1. \A i \in 1 .. n : block[i] \in Bytes
  BY ElementOfSeq, LenProperties
<1>2. /\ SubSeq(block, 1, n) \in Seq(Bytes)
      /\ Len(SubSeq(block, 1, n)) = IF 1 <= n THEN n - 1 + 1 ELSE 0
      /\ \A i \in 1 .. n - 1 + 1 : SubSeq(block, 1, n)[i] = block[1 + i - 1]
  BY <1>1, SubSeqProperties
<1> HIDE DEF Bytes
<1>3. n - 1 + 1 = n /\ \A i \in 1 .. n : 1 + i - 1 = i
  OBVIOUS
<1>4. Len(SubSeq(block, 1, n)) = n
  BY <1>2
<1>5. \A i \in 1 .. n : SubSeq(block, 1, n)[i] = block[i]
  BY <1>2, <1>3
<1> QED
  BY <1>2, <1>4, <1>5, LenProperties

LEMMA SetCapacityProperties ==
  ASSUME NEW s \in [buffer: Seq(Bytes), length: Nat, position: Int],
         s.length <= Len(s.buffer), NEW n \in Nat
  PROVE  LET t == Buffer!SetCapacity(s, n)
         IN  /\ t \in [buffer: Seq(Bytes), length: Nat, position: Int]
             /\ t.length = s.length /\ t.position = s.position
             /\ t.length <= Len(t.buffer)
             /\ \A i \in 1 .. s.length : t.buffer[i] = s.buffer[i]
             /\ n >= Len(s.buffer) => Len(t.buffer) = n
             /\ \A i \in 1 .. Len(s.buffer) :
                  i <= Len(t.buffer) => t.buffer[i] = s.buffer[i]
<1>1. CASE n <= s.length
  <2>1. Len(s.buffer) \in Nat
    OBVIOUS
  <2> QED
    BY <1>1, <2>1 DEF Buffer!SetCapacity
<1>2. CASE ~(n <= s.length)
  <2> DEFINE block == Buffer!Realloc(s.buffer, n)
  <2>1. Buffer!SetCapacity(s, n) = [s EXCEPT !.buffer = block]
    BY <1>2 DEF Buffer!SetCapacity
  <2>2. /\ block \in Seq(Bytes) /\ Len(block) = n
        /\ \A i \in 1 .. n : i <= Len(s.buffer) => block[i] = s.buffer[i]
    BY ReallocProperties
  <2> HIDE DEF block
  <2>3. Len(s.buffer) \in Nat
    OBVIOUS
  <2> QED
    BY <1>2, <2>1, <2>2, <2>3
<1> QED
  BY <1>1, <1>2

-----------------------------------------------------------------------------
Streams == [buffer: Seq(Bytes), length: Nat, position: Int]

LEMMA BecomesInv ==
  ASSUME StreamInv, NEW s \in Streams, s.length <= Len(s.buffer),
         s.length <= MaxBytes, moved' \in Seq(Bytes), crashed' = crashed,
         Buffer!Becomes(s)
  PROVE  StreamInv'
<1>1. stream' = s /\ strayed' = (strayed \/ ~(s.position \in 0 .. s.length))
  BY DEF Buffer!Becomes, Buffer!InFile
<1>2. crashed' \in BOOLEAN /\ strayed' \in BOOLEAN
  BY <1>1 DEF StreamInv
<1>3. ~strayed' => ~strayed /\ s.position \in 0 .. s.length
  BY <1>1
<1>4. ~strayed' => ~crashed'
  BY <1>3 DEF StreamInv
<1> QED
  BY <1>1, <1>2, <1>3, <1>4 DEF StreamInv, Streams

(* What the file shows of a stream: the abstract variables.                *)
Content(s) == SubSeq(s.buffer, 1, s.length)

LEMMA StreamContent ==
  ASSUME NEW s \in Streams, s.length <= Len(s.buffer)
  PROVE  /\ Content(s) \in Seq(Bytes) /\ Len(Content(s)) = s.length
         /\ DOMAIN Content(s) = 1 .. s.length
         /\ \A i \in 1 .. s.length : Content(s)[i] = s.buffer[i]
BY BytesOf DEF Streams, Content

LEMMA StreamIn ==
  ASSUME StreamInv
  PROVE  /\ stream \in Streams
         /\ stream.length \in Nat /\ stream.position \in Int
         /\ stream.buffer \in Seq(Bytes) /\ Len(stream.buffer) \in Nat
         /\ stream.length <= Len(stream.buffer) /\ stream.length <= MaxBytes
         /\ Content(stream) \in Seq(Bytes)
         /\ Len(Content(stream)) = stream.length
         /\ DOMAIN Content(stream) = 1 .. stream.length
         /\ \A i \in 1 .. stream.length : Content(stream)[i] = stream.buffer[i]
<1>1. stream \in Streams /\ stream.length <= Len(stream.buffer)
      /\ stream.length <= MaxBytes
  BY DEF StreamInv, Streams
<1>2. stream.buffer \in Seq(Bytes) /\ stream.length \in Nat /\ stream.position \in Int
  BY <1>1 DEF Streams
<1>3. Len(stream.buffer) \in Nat
  BY <1>2, LenProperties
<1> QED
  BY <1>1, <1>2, <1>3, StreamContent

(* A step of the stream is one of the file, or shows nothing.              *)
FileStep == [Buffer!File!Next]_(Buffer!File!vars)

LEMMA FileStutters ==
  ASSUME stream' = stream, moved' = moved PROVE FileStep
BY DEF FileStep, Buffer!File!vars

(* An extended block holds what is to be written, if there was memory.     *)
LEMMA ExtendedProperties ==
  ASSUME StreamInv, NEW n \in Nat
  PROVE  LET t == Buffer!Extended(stream, n)
         IN  /\ t \in Streams
             /\ t.length = stream.length /\ t.position = stream.position
             /\ t.length <= Len(t.buffer)
             /\ stream.position + n <= Len(t.buffer)
             /\ \A i \in 1 .. stream.length : t.buffer[i] = stream.buffer[i]
<1>1. /\ stream \in Streams /\ stream.length <= Len(stream.buffer)
      /\ stream.length \in Nat /\ stream.position \in Int
      /\ Len(stream.buffer) \in Nat /\ DoubleUpTo \in Nat
  BY StreamIn, BufferConstants
<1>2. CASE stream.position + n > Len(stream.buffer)
  <2> DEFINE size == Buffer!CapacityFor(stream, n)
  <2>1. Buffer!Extended(stream, n) = Buffer!SetCapacity(stream, size)
    BY <1>2 DEF Buffer!Extended, Buffer!Capacity
  <2>2. size \in Int /\ size >= stream.position + n
    <3> DEFINE a == stream.position + n
               b == IF Len(stream.buffer) <= DoubleUpTo
                    THEN 2 * Len(stream.buffer) ELSE Len(stream.buffer)
    <3>1. a \in Int /\ b \in Int
      BY <1>1
    <3>2. size = Buffer!Max({a, b})
      BY DEF Buffer!CapacityFor, Buffer!Capacity
    <3> HIDE DEF a, b, size
    <3>3. size = IF a >= b THEN a ELSE b
      BY <3>1, <3>2, MaxOfTwo
    <3>4. size \in Int /\ size >= a
      BY <3>1, <3>3
    <3> QED
      BY <3>4 DEF a
  <2> HIDE DEF size
  <2>3. size \in Nat /\ size >= Len(stream.buffer)
    BY <1>1, <1>2, <2>2
  <2> DEFINE t == Buffer!SetCapacity(stream, size)
  <2>4. /\ t \in Streams
        /\ t.length = stream.length /\ t.position = stream.position
        /\ t.length <= Len(t.buffer)
        /\ \A i \in 1 .. stream.length : t.buffer[i] = stream.buffer[i]
        /\ size >= Len(stream.buffer) => Len(t.buffer) = size
    BY <1>1, <2>3, SetCapacityProperties DEF Streams
  <2> HIDE DEF t
  <2>5. stream.position + n <= Len(t.buffer)
    BY <2>2, <2>3, <2>4
  <2> QED
    BY <2>1, <2>4, <2>5 DEF t
<1>3. CASE ~(stream.position + n > Len(stream.buffer))
  <2>1. Buffer!Extended(stream, n) = stream
    BY <1>3 DEF Buffer!Extended, Buffer!Capacity
  <2> QED
    BY <1>1, <1>3, <2>1
<1> QED
  BY <1>2, <1>3

LEMMA PutProperties ==
  ASSUME NEW s \in Streams, s.length <= Len(s.buffer), NEW bytes \in Seq(Bytes),
         s.position >= 0, s.position + Len(bytes) <= Len(s.buffer)
  PROVE  LET t == Buffer!Put(s, bytes)
             end == s.position + Len(bytes)
         IN  /\ t \in Streams /\ t.position = end
             /\ t.length = IF s.length >= end THEN s.length ELSE end
             /\ t.length <= Len(t.buffer)
             /\ \A i \in 1 .. t.length :
                  t.buffer[i] = IF i > s.position /\ i <= end
                                THEN bytes[i - s.position] ELSE s.buffer[i]
<1> DEFINE end == s.position + Len(bytes)
           block == [i \in DOMAIN s.buffer |->
                       IF i > s.position /\ i <= end
                       THEN bytes[i - s.position] ELSE s.buffer[i]]
<1>1. /\ s.buffer \in Seq(Bytes) /\ Len(s.buffer) \in Nat
      /\ DOMAIN s.buffer = 1 .. Len(s.buffer)
      /\ s.position \in Nat /\ s.length \in Nat /\ Len(bytes) \in Nat
  <2>1. s.buffer \in Seq(Bytes) /\ s.position \in Nat /\ s.length \in Nat
    BY DEF Streams
  <2> QED
    BY <2>1, LenProperties
<1>2. end \in Nat /\ end <= Len(s.buffer)
  BY <1>1
<1>3. Buffer!Max({s.length, end}) = IF s.length >= end THEN s.length ELSE end
  BY <1>1, <1>2, MaxOfTwo
<1>4. \A i \in 1 .. Len(s.buffer) :
        (IF i > s.position /\ i <= end THEN bytes[i - s.position] ELSE s.buffer[i])
          \in Bytes
  <2>1. \A i \in 1 .. Len(s.buffer) : s.buffer[i] \in Bytes
    BY <1>1, ElementOfSeq
  <2>2. \A i \in 1 .. Len(s.buffer) :
          i > s.position /\ i <= end => i - s.position \in 1 .. Len(bytes)
    BY <1>1
  <2>3. \A j \in 1 .. Len(bytes) : bytes[j] \in Bytes
    BY ElementOfSeq
  <2> QED
    BY <2>1, <2>2, <2>3
<1>5. block \in [1 .. Len(s.buffer) -> Bytes]
  BY <1>1, <1>4
<1>6. block \in Seq(Bytes) /\ Len(block) = Len(s.buffer)
  BY <1>1, <1>5
<1>7. \A i \in 1 .. Len(s.buffer) :
        block[i] = IF i > s.position /\ i <= end
                   THEN bytes[i - s.position] ELSE s.buffer[i]
  BY <1>1
<1> DEFINE longer == IF s.length >= end THEN s.length ELSE end
           t == Buffer!Put(s, bytes)
<1>8. t = [buffer |-> block, length |-> longer, position |-> end]
  BY <1>3 DEF Buffer!Put
<1>9. longer \in Nat /\ longer <= Len(s.buffer)
  BY <1>1, <1>2
<1> HIDE DEF block, end, longer, t
<1>10. /\ t \in Streams /\ t.position = end /\ t.length = longer /\ t.buffer = block
  BY <1>2, <1>6, <1>8, <1>9 DEF Streams
<1>11. \A i \in 1 .. longer :
         block[i] = IF i > s.position /\ i <= end
                    THEN bytes[i - s.position] ELSE s.buffer[i]
  BY <1>1, <1>7, <1>9
<1>12. /\ t \in Streams /\ t.position = end /\ t.length = longer
       /\ t.length <= Len(t.buffer)
       /\ \A i \in 1 .. t.length :
            t.buffer[i] = IF i > s.position /\ i <= end
                          THEN bytes[i - s.position] ELSE s.buffer[i]
  BY <1>6, <1>9, <1>10, <1>11
<1> QED
  BY <1>12, Zenon DEF end, longer, t

LEMMA WriteSound ==
  ASSUME StreamInv, ~crashed, Buffer!Write PROVE StreamInv' /\ FileStep
<1>1. PICK bytes \in Buffer!Texts :
        /\ stream.position + Len(bytes) <= MaxBytes
        /\ LET s == Buffer!Extended(stream, Len(bytes))
           IN  IF Buffer!Outside(s) \/ s.position + Len(bytes) > Buffer!Capacity(s)
               THEN Buffer!Crash
               ELSE /\ \/ Buffer!Becomes(Buffer!Put(s, bytes)) /\ moved' = bytes
                       \/ s # stream /\ Buffer!Becomes(stream) /\ UNCHANGED moved
                    /\ UNCHANGED crashed
  BY DEF Buffer!Write
<1> DEFINE s == Buffer!Extended(stream, Len(bytes))
           t == Buffer!Put(s, bytes)
<1>2. /\ bytes \in Seq(Bytes) /\ Len(bytes) \in Nat /\ bytes # <<>>
      /\ stream \in Streams /\ stream.length <= Len(stream.buffer)
      /\ stream.length \in Nat /\ stream.position \in Int
      /\ stream.length <= MaxBytes /\ MaxBytes \in Nat
      /\ moved \in Seq(Bytes)
  BY TextsAreBytes, StreamIn, BufferConstants DEF StreamInv
<1>3. /\ s \in Streams
      /\ s.length = stream.length /\ s.position = stream.position
      /\ s.length <= Len(s.buffer)
      /\ s.position + Len(bytes) <= Len(s.buffer)
      /\ \A i \in 1 .. stream.length : s.buffer[i] = stream.buffer[i]
  BY <1>2, ExtendedProperties
<1> HIDE DEF s
<1>4. ~(s.position + Len(bytes) > Buffer!Capacity(s))
  <2>1. Len(s.buffer) \in Nat
    BY <1>3, LenProperties DEF Streams
  <2> QED
    BY <1>2, <1>3, <2>1 DEF Buffer!Capacity
<1>5. CASE s.position < 0
  <2>1. Buffer!Crash
    BY <1>1, <1>5 DEF Buffer!Outside, s
  <2>2. strayed = TRUE
    BY <1>2, <1>3, <1>5 DEF StreamInv
  <2>3. StreamInv'
    <3>1. crashed' \in BOOLEAN /\ strayed' = TRUE /\ stream' = stream /\ moved' = moved
      BY <2>1, <2>2 DEF Buffer!Crash
    <3> QED
      BY <3>1 DEF StreamInv
  <2>4. FileStep
    BY <2>1, FileStutters DEF Buffer!Crash
  <2> QED
    BY <2>3, <2>4
<1>6. CASE ~(s.position < 0) /\ Buffer!Becomes(stream) /\ UNCHANGED <<moved, crashed>>
  <2>1. StreamInv'
    BY <1>2, <1>6, BecomesInv
  <2>2. FileStep
    BY <1>6, FileStutters DEF Buffer!Becomes
  <2> QED
    BY <2>1, <2>2
<1>7. CASE ~(s.position < 0) /\ Buffer!Becomes(t) /\ moved' = bytes /\ crashed' = crashed
  <2> DEFINE end == s.position + Len(bytes)
  <2>1. /\ t \in Streams /\ t.position = end
        /\ t.length = IF s.length >= end THEN s.length ELSE end
        /\ t.length <= Len(t.buffer)
        /\ \A i \in 1 .. t.length :
             t.buffer[i] = IF i > s.position /\ i <= end
                           THEN bytes[i - s.position] ELSE s.buffer[i]
    <3>1. /\ s \in Streams /\ s.length <= Len(s.buffer) /\ bytes \in Seq(Bytes)
          /\ 0 <= s.position /\ s.position + Len(bytes) <= Len(s.buffer)
      BY <1>2, <1>3, <1>7 DEF Streams
    <3>2. t = Buffer!Put(s, bytes)
      OBVIOUS
    <3> HIDE DEF t
    <3> QED
      BY ONLY <3>1, <3>2, PutProperties
  <2> HIDE DEF t
  <2>2. t.length <= MaxBytes
    BY <1>1, <1>2, <1>3, <2>1
  <2>3. StreamInv'
    BY <1>2, <1>7, <2>1, <2>2, BecomesInv
  <2>4. stream' = t
    BY <1>7 DEF Buffer!Becomes
  <2>5. /\ DOMAIN Content(t) = 1 .. t.length /\ Len(Content(t)) = t.length
        /\ \A i \in 1 .. t.length : Content(t)[i] = t.buffer[i]
    BY <2>1, StreamContent
  <2>6. /\ DOMAIN Content(stream) = 1 .. stream.length
        /\ Len(Content(stream)) = stream.length
        /\ \A i \in 1 .. stream.length : Content(stream)[i] = stream.buffer[i]
    BY StreamIn
  <2>7. \A i \in DOMAIN Content(t) :
          /\ i > stream.position /\ i <= t.position =>
               Content(t)[i] = bytes[i - stream.position]
          /\ i \in DOMAIN Content(stream)
             /\ (i <= stream.position \/ i > t.position) =>
               Content(t)[i] = Content(stream)[i]
    <3> SUFFICES ASSUME NEW i \in 1 .. t.length
                 PROVE  /\ i > stream.position /\ i <= t.position =>
                             Content(t)[i] = bytes[i - stream.position]
                        /\ i \in 1 .. stream.length
                           /\ (i <= stream.position \/ i > t.position) =>
                             Content(t)[i] = Content(stream)[i]
      BY <2>5, <2>6
    <3>1. Content(t)[i] = IF i > stream.position /\ i <= end
                          THEN bytes[i - stream.position] ELSE s.buffer[i]
      BY <1>3, <2>1, <2>5
    <3>2. i \in 1 .. stream.length => s.buffer[i] = Content(stream)[i]
      BY <1>3, <2>6
    <3>3. t.position = end /\ end \in Int
      BY <1>2, <1>3, <2>1
    <3> HIDE DEF end
    <3> QED
      BY <1>2, <3>1, <3>2, <3>3
  <2>8. Buffer!File!Write
    <3>1. stream.position >= 0 /\ moved' # <<>>
      BY <1>2, <1>3, <1>7
    <3>2. t.position = stream.position + Len(moved')
      BY <1>3, <1>7, <2>1
    <3>3. Len(Content(t)) = Buffer!File!Greater(Len(Content(stream)), t.position)
      <4>1. /\ Len(Content(t)) = t.length /\ Len(Content(stream)) = stream.length
            /\ t.position = end
        BY <2>1, <2>5, <2>6
      <4>2. t.length = IF stream.length >= end THEN stream.length ELSE end
        BY <1>3, <2>1
      <4>3. stream.length \in Nat /\ end \in Int
        BY <1>2, <1>3
      <4> HIDE DEF end
      <4>4. t.length = Buffer!File!Greater(stream.length, end)
        BY ONLY <4>2, <4>3 DEF Buffer!File!Greater
      <4> QED
        BY ONLY <4>1, <4>4
    <3> QED
      BY <1>7, <2>4, <2>7, <3>1, <3>2, <3>3 DEF Buffer!File!Write, Content
  <2> QED
    BY <2>3, <2>8 DEF FileStep, Buffer!File!Next
<1> QED
  BY <1>1, <1>4, <1>5, <1>6, <1>7 DEF Buffer!Outside, s, t

LEMMA ReadSound ==
  ASSUME StreamInv, ~crashed, Buffer!Read PROVE StreamInv' /\ FileStep
<1>1. PICK n \in 0 .. MaxWrite :
        LET available == stream.length - stream.position
            size == Buffer!Min({n, available})
        IN  IF size < 0 \/ (Buffer!Outside(stream) /\ size > 0) THEN Buffer!Crash
            ELSE /\ moved' = SubSeq(stream.buffer, stream.position + 1,
                                    stream.position + size)
                 /\ Buffer!Becomes([stream EXCEPT !.position = @ + size])
                 /\ UNCHANGED crashed
  BY DEF Buffer!Read
<1> DEFINE available == stream.length - stream.position
           size == Buffer!Min({n, available})
           s == [stream EXCEPT !.position = @ + size]
<1>2. /\ stream \in Streams /\ stream.length <= Len(stream.buffer)
      /\ stream.length \in Nat /\ stream.position \in Int
      /\ stream.buffer \in Seq(Bytes) /\ Len(stream.buffer) \in Nat
      /\ stream.length <= MaxBytes /\ MaxBytes \in Nat /\ n \in Nat
      /\ Len(Content(stream)) = stream.length
      /\ \A i \in 1 .. stream.length : Content(stream)[i] = stream.buffer[i]
  BY StreamIn, BufferConstants
<1>3. size = IF n <= available THEN n ELSE available
  BY <1>2, MinOfTwo
<1>4. size \in Int /\ size <= n /\ stream.position + size <= stream.length
  BY <1>2, <1>3
<1> HIDE DEF size
<1>5. CASE size < 0 \/ (stream.position < 0 /\ size > 0)
  <2>1. Buffer!Crash
    BY <1>1, <1>5 DEF Buffer!Outside, size
  <2>2. strayed = TRUE
    BY <1>2, <1>3, <1>5 DEF StreamInv
  <2>3. StreamInv'
    <3>1. crashed' \in BOOLEAN /\ strayed' = TRUE /\ stream' = stream /\ moved' = moved
      BY <2>1, <2>2 DEF Buffer!Crash
    <3> QED
      BY <3>1 DEF StreamInv
  <2>4. FileStep
    BY <2>1, FileStutters DEF Buffer!Crash
  <2> QED
    BY <2>3, <2>4
<1>6. CASE ~(size < 0 \/ (stream.position < 0 /\ size > 0))
  <2>1. /\ moved' = SubSeq(stream.buffer, stream.position + 1, stream.position + size)
        /\ Buffer!Becomes(s) /\ crashed' = crashed
    BY <1>1, <1>6 DEF Buffer!Outside, size
  <2>2. /\ s \in Streams /\ s.position = stream.position + size
        /\ s.length = stream.length /\ s.buffer = stream.buffer
    BY <1>2, <1>4 DEF Streams
  <2> HIDE DEF s
  <2>3. \A i \in stream.position + 1 .. stream.position + size :
          stream.buffer[i] \in Bytes
    <3> SUFFICES ASSUME NEW i \in stream.position + 1 .. stream.position + size
                 PROVE  i \in 1 .. Len(stream.buffer)
      BY <1>2, ElementOfSeq
    <3> QED
      BY <1>2, <1>4, <1>6
  <2>4. /\ moved' \in Seq(Bytes) /\ Len(moved') = size
        /\ \A i \in 1 .. size : moved'[i] = stream.buffer[stream.position + i]
    <3> DEFINE m == stream.position + 1
               k == stream.position + size
    <3>1. m \in Int /\ k \in Int /\ k - m + 1 = size /\ (m <= k <=> size > 0)
          /\ \A i \in 1 .. size : m + i - 1 = stream.position + i
      BY <1>2, <1>4
    <3>2. \A i \in m .. k : stream.buffer[i] \in Bytes
      BY <2>3
    <3>3. moved' = SubSeq(stream.buffer, m, k)
      BY <2>1
    <3> HIDE DEF m, k
    <3>4. /\ SubSeq(stream.buffer, m, k) \in Seq(Bytes)
          /\ Len(SubSeq(stream.buffer, m, k)) = IF m <= k THEN k - m + 1 ELSE 0
          /\ \A i \in 1 .. k - m + 1 :
               SubSeq(stream.buffer, m, k)[i] = stream.buffer[m + i - 1]
      BY <3>1, <3>2, SubSeqProperties
    <3>5. size >= 0
      BY <1>4, <1>6
    <3> QED
      BY <1>4, <3>1, <3>3, <3>4, <3>5
  <2>5. StreamInv'
    BY <1>2, <2>1, <2>2, <2>4, BecomesInv
  <2>6. stream' = s /\ Content(stream') = Content(stream)
    BY <2>1, <2>2 DEF Buffer!Becomes, Content
  <2>7. CASE size = 0
    <3>1. moved' = <<>>
      BY <2>4, <2>7, EmptySeq
    <3>2. s.position = stream.position + Len(moved')
      BY <2>2, <2>4
    <3>3. Buffer!File!Read(0)
      BY <2>6, <3>1, <3>2 DEF Buffer!File!Read, Content
    <3> QED
      BY <1>2, <2>5, <3>3 DEF FileStep, Buffer!File!Next
  <2>8. CASE size # 0
    <3>1. size \in 0 .. MaxBytes /\ stream.position >= 0 /\ size > 0
      BY <1>2, <1>4, <1>6, <2>8
    <3>2. Buffer!File!Lesser(stream.position + size, Len(Content(stream)))
            = stream.position + size
      BY <1>2, <1>4 DEF Buffer!File!Lesser
    <3>3. SubSeq(Content(stream), stream.position + 1, stream.position + size)
            = SubSeq(stream.buffer, stream.position + 1, stream.position + size)
      <4>1. \A i \in 1 .. size : stream.position + i \in 1 .. stream.length
        BY <1>2, <1>4, <3>1
      <4>2. \A i \in 1 .. size :
              Content(stream)[stream.position + i] = stream.buffer[stream.position + i]
        BY <1>2, <4>1
      <4> DEFINE m == stream.position + 1
                 k == stream.position + size
      <4>3. m \in Int /\ k \in Int
        BY <1>2, <1>4
      <4>4. \A i \in m .. k : i \in 1 .. stream.length
        BY <1>2, <1>4, <3>1
      <4>5. \A i \in m .. k : Content(stream)[i] = stream.buffer[i]
                               /\ stream.buffer[i] \in Bytes
        BY <1>2, <2>3, <4>4
      <4> HIDE DEF m, k
      <4>6. /\ SubSeq(stream.buffer, m, k) \in Seq(Bytes)
            /\ Len(SubSeq(stream.buffer, m, k)) = IF m <= k THEN k - m + 1 ELSE 0
            /\ \A i \in 1 .. k - m + 1 :
                 SubSeq(stream.buffer, m, k)[i] = stream.buffer[m + i - 1]
        BY <4>3, <4>5, SubSeqProperties
      <4>7. /\ SubSeq(Content(stream), m, k) \in Seq(Bytes)
            /\ Len(SubSeq(Content(stream), m, k)) = IF m <= k THEN k - m + 1 ELSE 0
            /\ \A i \in 1 .. k - m + 1 :
                 SubSeq(Content(stream), m, k)[i] = Content(stream)[m + i - 1]
        BY <4>3, <4>5, SubSeqProperties
      <4>8. \A i \in 1 .. k - m + 1 : m + i - 1 \in m .. k
        BY <4>3
      <4>9. \A i \in 1 .. Len(SubSeq(stream.buffer, m, k)) : i \in 1 .. k - m + 1
        BY <4>3, <4>6
      <4>10. SubSeq(Content(stream), m, k) = SubSeq(stream.buffer, m, k)
        BY <4>5, <4>6, <4>7, <4>8, <4>9, SeqEqual
      <4> QED
        BY <4>10 DEF m, k
    <3>4. s.position = stream.position + Len(moved')
      BY <2>2, <2>4
    <3>5. Buffer!File!Read(size)
      <4>1. moved' = SubSeq(Content(stream), stream.position + 1,
                            Buffer!File!Lesser(stream.position + size,
                                               Len(Content(stream))))
        BY <2>1, <3>2, <3>3
      <4>2. size # 0 /\ stream'.position = stream.position + Len(moved')
        BY <2>6, <3>1, <3>4
      <4> QED
        BY <2>6, <3>1, <4>1, <4>2 DEF Buffer!File!Read, Content
    <3> QED
      BY <2>5, <3>1, <3>5 DEF FileStep, Buffer!File!Next
  <2> QED
    BY <2>7, <2>8
<1> QED
  BY <1>5, <1>6

LEMMA SeekSound ==
  ASSUME StreamInv, Buffer!Seek PROVE StreamInv' /\ FileStep
<1>1. PICK p \in -1 .. MaxBytes :
        Buffer!Becomes([stream EXCEPT !.position = p]) /\ UNCHANGED <<moved, crashed>>
  BY DEF Buffer!Seek
<1> DEFINE s == [stream EXCEPT !.position = p]
<1>2. p \in Int
  BY BufferConstants
<1>3. /\ s \in Streams /\ s.length = stream.length /\ s.buffer = stream.buffer
      /\ stream.length <= Len(stream.buffer) /\ stream.length <= MaxBytes
  BY <1>2, StreamIn DEF Streams
<1>4. Buffer!Becomes(s) /\ stream' = s /\ moved' = moved /\ crashed' = crashed
  BY <1>1 DEF Buffer!Becomes
<1> HIDE DEF s
<1>5. StreamInv'
  <2>1. moved' \in Seq(Bytes)
    BY <1>4 DEF StreamInv
  <2> QED
    BY <1>3, <1>4, <2>1, BecomesInv
<1>6. Buffer!File!Seek
  BY <1>3, <1>4 DEF Buffer!File!Seek
<1> QED
  BY <1>5, <1>6 DEF FileStep, Buffer!File!Next

(* Another block for the stream that keeps what is in the file, and        *)
(* another length.                                                         *)
LEMMA ResizeSound ==
  ASSUME StreamInv, NEW s \in Streams,
         s.length <= Len(s.buffer), s.length <= MaxBytes,
         s.position = stream.position,
         \A i \in 1 .. stream.length : i <= s.length => s.buffer[i] = stream.buffer[i],
         Buffer!Becomes(s), UNCHANGED <<moved, crashed>>
  PROVE  StreamInv' /\ FileStep
<1>1. stream' = s /\ moved' = moved /\ crashed' = crashed
  BY DEF Buffer!Becomes
<1>2. StreamInv'
  <2>1. moved' \in Seq(Bytes)
    BY <1>1 DEF StreamInv
  <2> QED
    BY <1>1, <2>1, BecomesInv
<1>3. \A i \in DOMAIN Content(stream) \cap DOMAIN Content(s) :
        Content(s)[i] = Content(stream)[i]
  <2>1. /\ DOMAIN Content(s) = 1 .. s.length
        /\ \A i \in 1 .. s.length : Content(s)[i] = s.buffer[i]
    BY StreamContent
  <2>2. /\ DOMAIN Content(stream) = 1 .. stream.length
        /\ \A i \in 1 .. stream.length : Content(stream)[i] = stream.buffer[i]
    BY StreamIn
  <2>3. s.length \in Nat
    BY DEF Streams
  <2> QED
    BY <2>1, <2>2, <2>3
<1>4. Buffer!File!Resize
  BY <1>1, <1>3 DEF Buffer!File!Resize, Content
<1> QED
  BY <1>2, <1>4 DEF FileStep, Buffer!File!Next

LEMMA SetLengthSound ==
  ASSUME StreamInv, Buffer!SetLength PROVE StreamInv' /\ FileStep
<1>1. PICK n \in 0 .. MaxBytes :
        /\ \/ n <= Len(stream.buffer) /\ Buffer!Becomes([stream EXCEPT !.length = n])
           \/ /\ n > Len(stream.buffer)
              /\ Buffer!Becomes([Buffer!SetCapacity(stream, n) EXCEPT !.length = n])
           \/ n > Len(stream.buffer) /\ Buffer!Becomes(stream)
        /\ UNCHANGED <<moved, crashed>>
  BY DEF Buffer!SetLength, Buffer!Capacity
<1>2. /\ stream \in Streams /\ stream.length <= Len(stream.buffer)
      /\ stream.length \in Nat /\ stream.length <= MaxBytes
      /\ Len(stream.buffer) \in Nat
      /\ n \in Nat /\ n <= MaxBytes
  BY StreamIn, BufferConstants
<1>3. CASE n <= Len(stream.buffer) /\ Buffer!Becomes([stream EXCEPT !.length = n])
  <2> DEFINE s == [stream EXCEPT !.length = n]
  <2>1. /\ s \in Streams /\ s.length = n /\ s.buffer = stream.buffer
        /\ s.position = stream.position
    BY <1>2 DEF Streams
  <2>2. Buffer!Becomes(s)
    BY <1>3
  <2> HIDE DEF s
  <2> QED
    BY <1>1, <1>2, <1>3, <2>1, <2>2, ResizeSound
<1>4. CASE /\ n > Len(stream.buffer)
           /\ Buffer!Becomes([Buffer!SetCapacity(stream, n) EXCEPT !.length = n])
  <2> DEFINE t == Buffer!SetCapacity(stream, n)
             s == [t EXCEPT !.length = n]
  <2>1. /\ t \in Streams /\ t.position = stream.position
        /\ n >= Len(stream.buffer) => Len(t.buffer) = n
        /\ \A i \in 1 .. stream.length : t.buffer[i] = stream.buffer[i]
    BY <1>2, SetCapacityProperties DEF Streams
  <2> HIDE DEF t
  <2>2. /\ s \in Streams /\ s.length = n /\ s.buffer = t.buffer
        /\ s.position = stream.position
    BY <1>2, <2>1 DEF Streams
  <2>3. Buffer!Becomes(s)
    BY <1>4 DEF t
  <2> HIDE DEF s
  <2>4. s.length <= Len(s.buffer)
    BY <1>2, <1>4, <2>1, <2>2
  <2> QED
    BY <1>1, <1>2, <2>1, <2>2, <2>3, <2>4, ResizeSound
<1>5. CASE n > Len(stream.buffer) /\ Buffer!Becomes(stream)
  BY <1>1, <1>2, <1>5, ResizeSound
<1> QED
  BY <1>1, <1>3, <1>4, <1>5

LEMMA ReserveSound ==
  ASSUME StreamInv, Buffer!Reserve PROVE StreamInv' /\ FileStep
<1>1. PICK n \in 0 .. MaxBytes :
        Buffer!Becomes(Buffer!SetCapacity(stream, n)) /\ UNCHANGED <<moved, crashed>>
  BY DEF Buffer!Reserve
<1> DEFINE s == Buffer!SetCapacity(stream, n)
<1>2. /\ stream \in Streams /\ stream.length <= Len(stream.buffer)
      /\ stream.length <= MaxBytes /\ n \in Nat
  BY StreamIn, BufferConstants
<1>3. /\ s \in Streams /\ s.length = stream.length /\ s.position = stream.position
      /\ s.length <= Len(s.buffer)
      /\ \A i \in 1 .. stream.length : s.buffer[i] = stream.buffer[i]
  BY <1>2, SetCapacityProperties DEF Streams
<1>4. Buffer!Becomes(s)
  BY <1>1
<1> HIDE DEF s
<1> QED
  BY <1>1, <1>2, <1>3, <1>4, ResizeSound

LEMMA ReadAllSound ==
  ASSUME StreamInv, Buffer!ReadAll PROVE StreamInv' /\ FileStep
<1> DEFINE s == [stream EXCEPT !.position = stream.length]
<1>1. /\ moved' = Content(stream) /\ Buffer!Becomes(s) /\ crashed' = crashed
  BY DEF Buffer!ReadAll, Content
<1>2. /\ s \in Streams /\ s.length = stream.length /\ s.buffer = stream.buffer
      /\ s.position = stream.length
      /\ stream.length <= Len(stream.buffer) /\ stream.length <= MaxBytes
      /\ Content(stream) \in Seq(Bytes) /\ Len(Content(stream)) = stream.length
  BY StreamIn DEF Streams
<1> HIDE DEF s
<1>3. StreamInv'
  BY <1>1, <1>2, BecomesInv
<1>4. Buffer!File!ReadAll
  BY <1>1, <1>2 DEF Buffer!File!ReadAll, Buffer!Becomes, Content
<1> QED
  BY <1>3, <1>4 DEF FileStep, Buffer!File!Next

-----------------------------------------------------------------------------
LEMMA StreamInit == Init => StreamInv /\ Buffer!File!Init
<1> SUFFICES ASSUME Init PROVE StreamInv /\ Buffer!File!Init
  OBVIOUS
<1>1. /\ stream = [buffer |-> <<>>, length |-> 0, position |-> 0]
      /\ moved = <<>> /\ crashed = FALSE /\ strayed = FALSE
  BY DEF Init, BufferIdle, Buffer!Init, Buffer!NewStream
<1>2. <<>> \in Seq(Bytes) /\ Len(<<>>) = 0
  BY EmptySeq
<1>3. StreamInv
  <2>1. stream \in [buffer: Seq(Bytes), length: Nat, position: Int]
    BY <1>1, <1>2
  <2>2. stream.length <= Len(stream.buffer) /\ stream.length <= MaxBytes
        /\ stream.position \in 0 .. stream.length
    BY <1>1, <1>2, BufferConstants
  <2>3. crashed \in BOOLEAN /\ strayed \in BOOLEAN /\ ~crashed
    BY <1>1
  <2> QED
    BY <1>1, <1>2, <2>1, <2>2, <2>3 DEF StreamInv
<1>4. SubSeq(stream.buffer, 1, stream.length) = <<>>
  BY <1>1, SubSeqEmpty
<1> QED
  BY <1>1, <1>3, <1>4 DEF Buffer!File!Init

LEMMA StreamStep == StreamInv /\ [Next]_vars => StreamInv' /\ FileStep
<1> SUFFICES ASSUME StreamInv, [Next]_vars PROVE StreamInv' /\ FileStep
  OBVIOUS
<1>1. CASE UNCHANGED <<stream, moved, crashed, strayed>>
  BY <1>1, FileStutters DEF StreamInv
<1>2. CASE BufferStep /\ Buffer!StreamStep
  <2>1. ~crashed /\ (\/ Buffer!Write \/ Buffer!Read \/ Buffer!Seek
                     \/ Buffer!SetLength \/ Buffer!Reserve \/ Buffer!ReadAll)
    BY <1>2 DEF Buffer!StreamStep
  <2> QED
    BY <2>1, WriteSound, ReadSound, SeekSound, SetLengthSound, ReserveSound,
       ReadAllSound
<1>3. BufferStep => Buffer!StreamStep \/ UNCHANGED <<stream, moved, crashed, strayed>>
  BY DEF BufferStep, Buffer!Next, Buffer!StringStep
<1>4. ~BufferStep => UNCHANGED <<stream, moved, crashed, strayed>>
  BY DEF Next, ContainerStep, MapStep, vars, bufferVars
<1> QED
  BY <1>1, <1>2, <1>3, <1>4

THEOREM StreamAlways == Spec => []StreamInv
BY StreamInit, StreamStep, PTL DEF Spec

(* A GMemoryStream is a file: every call, seeks behind the end and calls   *)
(* that fail for lack of memory included, writes, reads, keeps and skips   *)
(* what the call on a file does, for any bytes, lengths and capacities.    *)
THEOREM StreamIsFile == Spec => ImplementsFile
<1>1. Init => Buffer!File!Init
  BY StreamInit
<1>2. StreamInv /\ [Next]_vars => [Buffer!File!Next]_(Buffer!File!vars)
  BY StreamStep DEF FileStep
<1> QED
  BY <1>1, <1>2, StreamAlways, PTL
     DEF Spec, ImplementsFile, Buffer!ImplementsFile, Buffer!File!Spec

-----------------------------------------------------------------------------
(* A string after s was put in it since it was empty: its characters are   *)
(* the first of s, and all of them unless it can take no more.  The room   *)
(* for the terminating zero is there, or there is no block at all; a block *)
(* of one byte, which would not know that it is full, is never made.       *)
Strings == [value: Seq(Bytes), len: Nat, max_len: Int]

Holds(s, chars) ==
  /\ Len(s.value) # 1
  /\ s.len < Len(s.value) \/ (Len(s.value) = 0 /\ s.len = 0)
  /\ s.len <= Len(chars)
  /\ \A i \in 1 .. s.len : s.value[i] = chars[i]
  /\ s.len = Len(chars) \/ (s.max_len # 0 /\ s.len + 1 >= Len(s.value))

Terminated(s) == Len(s.value) > 0 => s.value[s.len + 1] = Nul

StringInv ==
  /\ string \in Strings /\ text \in Seq(Bytes)
  /\ Holds(string, text) /\ Terminated(string)

(* A character is stored behind the others in a block that has room.       *)
LEMMA StoreProperties ==
  ASSUME NEW s \in Strings, NEW c \in Bytes
  PROVE  LET t == [s EXCEPT !.value[s.len + 1] = c, !.len = @ + 1]
         IN  /\ t \in Strings /\ t.len = s.len + 1 /\ t.max_len = s.max_len
             /\ Len(t.value) = Len(s.value)
             /\ \A i \in 1 .. Len(s.value) :
                  t.value[i] = IF i = s.len + 1 THEN c ELSE s.value[i]
<1> DEFINE block == [s.value EXCEPT ![s.len + 1] = c]
           t == [s EXCEPT !.value[s.len + 1] = c, !.len = @ + 1]
<1>1. s.value \in Seq(Bytes) /\ s.len \in Nat /\ s.max_len \in Int
  BY DEF Strings
<1>2. s.value \in [1 .. Len(s.value) -> Bytes] /\ Len(s.value) \in Nat
  BY <1>1, LenProperties
<1>3. /\ block \in [1 .. Len(s.value) -> Bytes]
      /\ \A i \in 1 .. Len(s.value) :
           block[i] = IF i = s.len + 1 THEN c ELSE s.value[i]
  BY <1>2
<1>4. block \in Seq(Bytes) /\ Len(block) = Len(s.value)
  BY <1>2, <1>3
<1>5. /\ block = [s.value EXCEPT ![s.len + 1] = c]
      /\ t = [s EXCEPT !.value[s.len + 1] = c, !.len = @ + 1]
  OBVIOUS
<1> HIDE DEF block, t
<1>6. t = [value |-> block, len |-> s.len + 1, max_len |-> s.max_len]
  BY <1>4, <1>5 DEF Strings
<1>7. s.len + 1 \in Nat
  BY <1>1
<1>8. t \in Strings
  BY <1>1, <1>4, <1>6, <1>7 DEF Strings
<1> QED
  BY <1>3, <1>4, <1>6, <1>8 DEF t

LEMMA PutCharHolds ==
  ASSUME NEW s \in Strings, NEW c \in Bytes, NEW can
  PROVE  /\ Buffer!PutChar(s, c, can) \in Strings
         /\ \A chars \in Seq(Bytes) :
              Holds(s, chars) => Holds(Buffer!PutChar(s, c, can), Append(chars, c))
<1> DEFINE t == Buffer!PutChar(s, c, can)
           storing(u) == [u EXCEPT !.value[u.len + 1] = c, !.len = @ + 1]
<1>1. /\ s.value \in Seq(Bytes) /\ Len(s.value) \in Nat
      /\ s.len \in Nat /\ s.max_len \in Int /\ ChunkSize \in Nat /\ ChunkSize > 1
  <2>1. s.value \in Seq(Bytes) /\ s.len \in Nat /\ s.max_len \in Int
    BY DEF Strings
  <2> QED
    BY <2>1, LenProperties, BufferConstants
<1>2. \A chars \in Seq(Bytes) :
        /\ Len(chars) \in Nat /\ Len(Append(chars, c)) = Len(chars) + 1
        /\ \A i \in 1 .. Len(chars) : Append(chars, c)[i] = chars[i]
        /\ Append(chars, c)[Len(chars) + 1] = c
  BY AppendProperties, LenProperties
<1>3. CASE s.len + 1 < Len(s.value)
  <2>1. t = storing(s)
    BY <1>3 DEF Buffer!PutChar, Buffer!Alloc
  <2>2. /\ t \in Strings /\ t.len = s.len + 1 /\ t.max_len = s.max_len
        /\ Len(t.value) = Len(s.value)
        /\ \A i \in 1 .. Len(s.value) :
             t.value[i] = IF i = s.len + 1 THEN c ELSE s.value[i]
    <3> HIDE DEF t
    <3> QED
      BY <2>1, StoreProperties
  <2> HIDE DEF t
  <2>3. ASSUME NEW chars \in Seq(Bytes), Holds(s, chars)
        PROVE  Holds(t, Append(chars, c))
    <3>1. s.len = Len(chars) /\ Len(s.value) # 1
          /\ \A i \in 1 .. s.len : s.value[i] = chars[i]
      BY <1>1, <1>3, <2>3 DEF Holds
    <3>2. \A i \in 1 .. t.len : t.value[i] = Append(chars, c)[i]
      BY <1>1, <1>2, <1>3, <2>2, <3>1
    <3> QED
      BY <1>1, <1>2, <1>3, <2>2, <3>1, <3>2 DEF Holds
  <2> QED
    BY <2>2, <2>3 DEF t
<1>4. CASE ~(s.len + 1 < Len(s.value)) /\ s.max_len # 0
  <2>1. t = s
    BY <1>4 DEF Buffer!PutChar, Buffer!Alloc
  <2>2. ASSUME NEW chars \in Seq(Bytes), Holds(s, chars)
        PROVE  Holds(s, Append(chars, c))
    <3>1. \A i \in 1 .. s.len : s.value[i] = Append(chars, c)[i]
      BY <1>1, <1>2, <2>2 DEF Holds
    <3> QED
      BY <1>1, <1>2, <1>4, <2>2, <3>1 DEF Holds
  <2> QED
    BY <2>1, <2>2
<1>5. CASE ~(s.len + 1 < Len(s.value)) /\ s.max_len = 0 /\ can
  <2> DEFINE block == Buffer!Realloc(s.value, Len(s.value) + ChunkSize)
             u == [s EXCEPT !.value = block]
  <2>1. t = storing(u)
    BY <1>5 DEF Buffer!PutChar, Buffer!Alloc
  <2>2. /\ block \in Seq(Bytes) /\ Len(block) = Len(s.value) + ChunkSize
        /\ \A i \in 1 .. Len(s.value) : block[i] = s.value[i]
    <3> DEFINE n == Len(s.value) + ChunkSize
    <3>1. n \in Nat /\ \A i \in 1 .. Len(s.value) : i \in 1 .. n /\ i <= Len(s.value)
      BY <1>1
    <3>2. block = Buffer!Realloc(s.value, n)
      OBVIOUS
    <3> HIDE DEF block, n
    <3>3. /\ block \in Seq(Bytes) /\ Len(block) = n
          /\ \A i \in 1 .. n : i <= Len(s.value) => block[i] = s.value[i]
      BY <1>1, <3>1, <3>2, ReallocProperties
    <3> QED
      BY <3>1, <3>3 DEF n
  <2> HIDE DEF block
  <2>3. u \in Strings /\ u.value = block /\ u.len = s.len /\ u.max_len = s.max_len
    BY <2>2 DEF Strings
  <2> HIDE DEF u
  <2>4. /\ t \in Strings /\ t.len = s.len + 1 /\ t.max_len = 0
        /\ Len(t.value) = Len(s.value) + ChunkSize
        /\ \A i \in 1 .. Len(s.value) + ChunkSize :
             t.value[i] = IF i = s.len + 1 THEN c ELSE block[i]
    <3> HIDE DEF t
    <3>1. /\ t \in Strings /\ t.len = u.len + 1 /\ t.max_len = u.max_len
          /\ Len(t.value) = Len(u.value)
          /\ \A i \in 1 .. Len(u.value) :
               t.value[i] = IF i = u.len + 1 THEN c ELSE u.value[i]
      BY <2>1, <2>3, StoreProperties
    <3> QED
      BY <1>5, <2>2, <2>3, <3>1
  <2> HIDE DEF t
  <2>5. ASSUME NEW chars \in Seq(Bytes), Holds(s, chars)
        PROVE  Holds(t, Append(chars, c))
    <3>1. /\ s.len = Len(chars) /\ s.len <= Len(s.value)
          /\ \A i \in 1 .. s.len : s.value[i] = chars[i]
      BY <1>1, <1>5, <2>5 DEF Holds
    <3>2. \A i \in 1 .. t.len : t.value[i] = Append(chars, c)[i]
      <4>1. /\ Append(chars, c)[s.len + 1] = c
            /\ \A i \in 1 .. s.len : Append(chars, c)[i] = chars[i]
        <5>1. chars \in Seq(Bytes) /\ c \in Bytes /\ s.len = Len(chars)
          BY <2>5, <3>1
        <5> QED
          BY ONLY <5>1, AppendProperties
      <4>2. \A i \in 1 .. s.len : t.value[i] = chars[i]
        <5>1. \A i \in 1 .. s.len :
                i \in 1 .. Len(s.value) /\ i \in 1 .. Len(s.value) + ChunkSize
                /\ i # s.len + 1
          BY <1>1, <1>2, <3>1
        <5>2. \A i \in 1 .. Len(s.value) : block[i] = s.value[i]
          BY <2>2
        <5>3. \A i \in 1 .. Len(s.value) + ChunkSize :
                t.value[i] = IF i = s.len + 1 THEN c ELSE block[i]
          BY <2>4
        <5>4. \A i \in 1 .. s.len : s.value[i] = chars[i]
          BY <3>1
        <5> QED
          BY ONLY <5>1, <5>2, <5>3, <5>4
      <4>3. t.value[s.len + 1] = c
        BY <1>1, <1>2, <2>4, <3>1
      <4>4. \A i \in 1 .. t.len : i \in 1 .. s.len \/ i = s.len + 1
        BY <1>1, <2>4
      <4> QED
        BY ONLY <4>1, <4>2, <4>3, <4>4
    <3>3. /\ Len(t.value) # 1 /\ t.len < Len(t.value)
          /\ t.len = Len(Append(chars, c))
      BY <1>1, <1>2, <2>4, <3>1
    <3>4. t.len \in Nat
      BY <1>1, <2>4
    <3> QED
      BY <3>2, <3>3, <3>4 DEF Holds
  <2> QED
    BY <2>4, <2>5 DEF t
<1>6. CASE ~(s.len + 1 < Len(s.value)) /\ s.max_len = 0 /\ ~can
  <2> DEFINE max == IF Len(s.value) = 0 THEN -1 ELSE Len(s.value) - 1
  <2>1. t = [s EXCEPT !.max_len = max]
    BY <1>6 DEF Buffer!PutChar, Buffer!Alloc
  <2>2. max \in Int /\ (Len(s.value) # 1 => max # 0)
    BY <1>1
  <2> HIDE DEF max
  <2>3. t \in Strings /\ t.value = s.value /\ t.len = s.len /\ t.max_len = max
    BY <2>1, <2>2 DEF Strings
  <2> HIDE DEF t
  <2>4. ASSUME NEW chars \in Seq(Bytes), Holds(s, chars)
        PROVE  Holds(t, Append(chars, c))
    <3>1. \A i \in 1 .. s.len : s.value[i] = Append(chars, c)[i]
      BY <1>1, <1>2, <2>4 DEF Holds
    <3> QED
      BY <1>1, <1>2, <1>6, <2>2, <2>3, <2>4, <3>1 DEF Holds
  <2> QED
    BY <2>3, <2>4 DEF t
<1> QED
  BY <1>3, <1>4, <1>5, <1>6

LEMMA TerminateHolds ==
  ASSUME NEW s \in Strings, NEW chars \in Seq(Bytes), Holds(s, chars)
  PROVE  /\ Buffer!Terminate(s) \in Strings
         /\ Holds(Buffer!Terminate(s), chars)
         /\ Terminated(Buffer!Terminate(s))
<1> DEFINE t == Buffer!Terminate(s)
           block == [s.value EXCEPT ![s.len + 1] = Nul]
<1>1. /\ s.value \in Seq(Bytes) /\ s.value \in [1 .. Len(s.value) -> Bytes]
      /\ Len(s.value) \in Nat /\ s.len \in Nat /\ Len(chars) \in Nat
  <2>1. s.value \in Seq(Bytes) /\ s.len \in Nat
    BY DEF Strings
  <2> QED
    BY <2>1, LenProperties
<1>2. CASE s.len < Len(s.value)
  <2>1. Nul \in Bytes /\ s.len + 1 \in 1 .. Len(s.value)
    BY <1>1, <1>2 DEF Bytes
  <2>2. /\ block \in Seq(Bytes) /\ Len(block) = Len(s.value)
        /\ block[s.len + 1] = Nul
        /\ \A i \in 1 .. s.len : block[i] = s.value[i]
    BY <1>1, <2>1, ExceptSeq
  <2>3. t = [s EXCEPT !.value = block]
    BY <1>2 DEF Buffer!Terminate, Buffer!Alloc
  <2> HIDE DEF block
  <2>4. t \in Strings /\ t.value = block /\ t.len = s.len /\ t.max_len = s.max_len
    BY <2>2, <2>3 DEF Strings
  <2> HIDE DEF t
  <2> QED
    BY <1>1, <1>2, <2>2, <2>4 DEF Holds, Terminated, t
<1>3. CASE ~(s.len < Len(s.value))
  <2>1. t = s /\ Len(s.value) = 0
    BY <1>1, <1>3 DEF Buffer!Terminate, Buffer!Alloc, Holds
  <2> QED
    BY <2>1 DEF Terminated
<1> QED
  BY <1>2, <1>3

LEMMA FirstAndNext ==
  ASSUME NEW S, NEW w \in Seq(S), NEW m \in 0 .. Len(w) - 1
  PROVE  /\ SubSeq(w, 1, m) \in Seq(S)
         /\ Append(SubSeq(w, 1, m), w[m + 1]) = SubSeq(w, 1, m + 1)
<1>1. Len(w) \in Nat /\ m \in Nat /\ m + 1 \in 1 .. Len(w) /\ 1 \in 1 .. Len(w)
      /\ m + 1 \in 1 .. Len(w) /\ (m + 1) - 1 = m
  BY LenProperties
<1>2. \A i \in 1 .. m : w[i] \in S
  BY <1>1, ElementOfSeq
<1>3. SubSeq(w, 1, m) \in Seq(S)
  BY <1>1, <1>2, SubSeqProperties
<1>4. w[m + 1] \in S
  BY <1>1, ElementOfSeq
<1>5. SubSeq(w, 1, m + 1) = SubSeq(w, 1, (m + 1) - 1) \o <<w[m + 1]>>
  BY <1>1, SubSeqRecursiveSecond
<1>6. Append(SubSeq(w, 1, m), w[m + 1]) = SubSeq(w, 1, m) \o <<w[m + 1]>>
  BY <1>3, <1>4, AppendIsConcat
<1> QED
  BY <1>1, <1>3, <1>5, <1>6

PutAll(base, chars, can) ==
  Buffer!FoldLeft(LAMBDA s, i : Buffer!PutChar(s, chars[i], can[i]),
                  base, [i \in DOMAIN chars |-> i])

LEMMA PutAllHolds ==
  ASSUME NEW base \in Strings, NEW txt \in Seq(Bytes), Holds(base, txt),
         NEW chars \in Buffer!Texts, NEW can
  PROVE  /\ PutAll(base, chars, can) \in Strings
         /\ Holds(PutAll(base, chars, can), txt \o chars)
<1> DEFINE n == Len(chars)
           seq == [i \in DOMAIN chars |-> i]
           w == txt \o chars
<1>1. /\ chars \in Seq(Bytes) /\ DOMAIN chars = 1 .. n /\ n \in Nat
      /\ Len(txt) \in Nat
  BY TextsAreBytes, LenProperties
<1>2. /\ DOMAIN seq = 1 .. n /\ \A i \in 1 .. n : seq[i] = i
  BY <1>1
<1>3. /\ w \in Seq(Bytes) /\ Len(w) = Len(txt) + n
      /\ \A i \in 1 .. n : w[Len(txt) + i] = chars[i]
  <2>1. /\ txt \o chars \in Seq(Bytes)
        /\ Len(txt \o chars) = Len(txt) + Len(chars)
        /\ \A i \in 1 .. Len(txt) + Len(chars) : (txt \o chars)[i] =
             IF i <= Len(txt) THEN txt[i] ELSE chars[i - Len(txt)]
    BY <1>1, ConcatProperties
  <2>2. \A i \in 1 .. n : /\ Len(txt) + i \in 1 .. Len(txt) + Len(chars)
                          /\ ~(Len(txt) + i <= Len(txt))
                          /\ (Len(txt) + i) - Len(txt) = i
    BY <1>1
  <2> HIDE DEF n
  <2> QED
    BY <2>1, <2>2 DEF n
<1> HIDE DEF n, w
<1> DEFINE after(s, x) == Buffer!PutChar(s, chars[x], can[x])
           step == [p \in Strings \X (1 .. n) |-> after(p[1], p[2])]
           IsIter(iter) ==
             iter = [s \in SUBSET DOMAIN seq |->
                       IF s = {} THEN base
                       ELSE after(iter[s \ {Buffer!Max(s)}], seq[Buffer!Max(s)])]
           stage == CHOOSE iter : IsIter(iter)
<1>4. \A i \in 1 .. n : chars[i] \in Bytes
  BY <1>1, ElementOfSeq DEF n
<1>5. step \in [Strings \X (1 .. n) -> Strings]
  BY <1>4, PutCharHolds
<1>6. \A s \in Strings, x \in 1 .. n : step[<<s, x>>] = after(s, x)
  OBVIOUS
<1>7. \A s \in SUBSET (1 .. n) : s # {} => Max(s) = Buffer!Max(s) /\ Max(s) \in s
  <2>1. \A s : Max(s) = Buffer!Max(s)
    BY DEF Max, Buffer!Max
  <2> QED
    BY <1>1, <2>1, LargestOf
<1> HIDE DEF step, after, seq
<1>8. PICK iter \in [SUBSET (1 .. n) -> Strings] :
        /\ iter[{}] = base
        /\ \A s \in SUBSET (1 .. n) : s # {} =>
             iter[s] = step[<<iter[s \ {Max(s)}], Max(s)>>]
  <2>1. n \in Nat /\ base \in Strings /\ step \in [Strings \X (1 .. n) -> Strings]
    BY <1>1, <1>5
  <2>2. \E iter \in [SUBSET (1 .. n) -> Strings] : IsOrderedFold(iter, n, base, step)
    BY ONLY <2>1, OrderedFoldExists
  <2> QED
    BY <2>2 DEF IsOrderedFold
<1>9. IsIter(iter)
  <2>1. iter = [s \in SUBSET (1 .. n) |-> iter[s]]
    BY <1>8
  <2>2. \A s \in SUBSET (1 .. n) :
          iter[s] = IF s = {} THEN base
                    ELSE after(iter[s \ {Buffer!Max(s)}], seq[Buffer!Max(s)])
    <3> SUFFICES ASSUME NEW s \in SUBSET (1 .. n), s # {}
                 PROVE  iter[s] = after(iter[s \ {Buffer!Max(s)}], seq[Buffer!Max(s)])
      BY <1>8
    <3>1. Max(s) = Buffer!Max(s) /\ Max(s) \in 1 .. n
      BY <1>7
    <3>2. iter[s \ {Max(s)}] \in Strings
      BY <1>8
    <3>3. iter[s] = after(iter[s \ {Max(s)}], Max(s))
      BY <1>6, <1>8, <3>1, <3>2
    <3> QED
      BY <1>2, <3>1, <3>3
  <2> QED
    BY <1>2, <2>1, <2>2
<1>10. IsIter(stage)
  BY <1>9
<1>11. PutAll(base, chars, can) = stage[1 .. n]
  BY <1>2 DEF PutAll, Buffer!FoldLeft, Buffer!MapThenFoldSet, after, seq
<1>12. /\ stage[{}] = base
       /\ \A k \in 1 .. n : stage[1 .. k] = after(stage[1 .. k - 1], k)
  <2>1. \A s \in SUBSET (1 .. n) :
          stage[s] = IF s = {} THEN base
                     ELSE after(stage[s \ {Buffer!Max(s)}], seq[Buffer!Max(s)])
    <3> HIDE DEF stage
    <3> QED
      BY <1>2, <1>10
  <2> HIDE DEF stage
  <2>2. {} \in SUBSET (1 .. n)
    OBVIOUS
  <2>3. ASSUME NEW k \in 1 .. n PROVE stage[1 .. k] = after(stage[1 .. k - 1], k)
    <3>1. /\ Max(1 .. k) = k /\ (1 .. k) \ {k} = 1 .. k - 1
          /\ 1 .. k \in SUBSET (1 .. n) /\ 1 .. k # {}
      BY <1>1, LargestOfFirst
    <3>2. Buffer!Max(1 .. k) = k /\ seq[k] = k
      BY <1>2, <1>7, <3>1
    <3> QED
      BY <2>1, <3>1, <3>2
  <2> QED
    BY <2>1, <2>2, <2>3
<1> HIDE DEF stage
<1> DEFINE P == {k \in Nat : k <= n =>
                   /\ stage[1 .. k] \in Strings
                   /\ Holds(stage[1 .. k], SubSeq(w, 1, Len(txt) + k))}
<1>13. 0 \in P
  <2>1. 1 .. 0 = {}
    OBVIOUS
  <2>2. SubSeq(w, 1, Len(txt)) = txt
    <3>1. \A i \in 1 .. Len(txt) : w[i] = txt[i] /\ txt[i] \in Bytes
      BY <1>1, ConcatProperties, ElementOfSeq DEF w
    <3>2. /\ SubSeq(w, 1, Len(txt)) \in Seq(Bytes)
          /\ Len(SubSeq(w, 1, Len(txt))) = Len(txt)
          /\ \A i \in 1 .. Len(txt) : SubSeq(w, 1, Len(txt))[i] = w[i]
      BY <1>1, <1>3, BytesOf
    <3> QED
      BY <3>1, <3>2, SeqEqual
  <2>3. Len(txt) + 0 = Len(txt)
    BY <1>1
  <2> QED
    BY <1>12, <2>1, <2>2, <2>3
<1>14. ASSUME NEW k \in Nat, k \in P PROVE k + 1 \in P
  <2> SUFFICES ASSUME k + 1 <= n
               PROVE  /\ stage[1 .. k + 1] \in Strings
                      /\ Holds(stage[1 .. k + 1], SubSeq(w, 1, Len(txt) + (k + 1)))
    OBVIOUS
  <2>1. k <= n /\ k + 1 \in 1 .. n /\ (k + 1) - 1 = k
    BY <1>1
  <2>2. /\ stage[1 .. k] \in Strings
        /\ Holds(stage[1 .. k], SubSeq(w, 1, Len(txt) + k))
    BY <1>14, <2>1
  <2>3. stage[1 .. k + 1] = after(stage[1 .. k], k + 1)
    BY <1>12, <2>1
  <2> DEFINE m == Len(txt) + k
  <2>4. m \in 0 .. Len(w) - 1 /\ m + 1 = Len(txt) + (k + 1)
    BY <1>1, <1>3, <2>1
  <2>5. w[m + 1] = chars[k + 1]
    BY <1>3, <2>1, <2>4
  <2> HIDE DEF m
  <2>6. /\ SubSeq(w, 1, m) \in Seq(Bytes)
        /\ Append(SubSeq(w, 1, m), chars[k + 1]) = SubSeq(w, 1, m + 1)
    BY <1>3, <2>4, <2>5, FirstAndNext
  <2>7. /\ after(stage[1 .. k], k + 1) \in Strings
        /\ Holds(after(stage[1 .. k], k + 1), Append(SubSeq(w, 1, m), chars[k + 1]))
    <3>1. Holds(stage[1 .. k], SubSeq(w, 1, m)) /\ chars[k + 1] \in Bytes
      BY <1>4, <2>1, <2>2 DEF m
    <3> QED
      BY <2>2, <2>6, <3>1, PutCharHolds DEF after
  <2> QED
    BY <2>3, <2>4, <2>6, <2>7
<1> HIDE DEF P
<1>15. n \in P
  BY <1>1, <1>13, <1>14, NaturalInduction
<1>16. SubSeq(w, 1, Len(txt) + n) = w
  BY <1>3, SubSeqFull
<1> QED
  <2>1. n \in Nat /\ n <= n
    BY <1>1
  <2>2. stage[1 .. n] \in Strings /\ Holds(stage[1 .. n], SubSeq(w, 1, Len(txt) + n))
    BY <1>15, <2>1 DEF P
  <2>3. stage[1 .. n] \in Strings /\ Holds(stage[1 .. n], w)
    BY <1>16, <2>2
  <2> QED
    BY <1>11, <2>3 DEF w

LEMMA StringInit == Init => StringInv
<1> SUFFICES ASSUME Init PROVE StringInv
  OBVIOUS
<1>1. /\ text = <<>>
      /\ string = Buffer!NewString(0) \/ string = Buffer!NewString(MaxBytes - 1)
  BY DEF Init, BufferIdle, Buffer!Init
<1>2. <<>> \in Seq(Bytes) /\ Len(<<>>) = 0
  BY EmptySeq
<1>3. CASE string = [value |-> <<>>, len |-> 0, max_len |-> 0]
  <2>1. string \in Strings
    BY <1>2, <1>3 DEF Strings
  <2>2. Len(string.value) = 0 /\ string.len = 0 /\ Len(text) = 0
    BY <1>1, <1>2, <1>3
  <2>3. Holds(string, text) /\ Terminated(string)
    BY <2>2 DEF Holds, Terminated
  <2> QED
    BY <1>1, <1>2, <2>1, <2>3 DEF StringInv
<1>4. CASE /\ MaxBytes - 1 # 0
           /\ string = [value |-> <<Nul>> \o Buffer!Garbages(MaxBytes - 1),
                        len |-> 0, max_len |-> MaxBytes - 1]
  <2> DEFINE m == MaxBytes - 1
             rest == Buffer!Garbages(m)
  <2>1. m \in Nat /\ m # 0
    BY <1>4, BufferConstants
  <2> HIDE DEF m
  <2>2. rest \in Seq(Bytes) /\ Len(rest) = m
    <3>1. rest \in [1 .. m -> Bytes]
      BY DEF Buffer!Garbages, Bytes
    <3> QED
      BY <2>1, <3>1
  <2>3. <<Nul>> \in Seq(Bytes) /\ Len(<<Nul>>) = 1 /\ <<Nul>>[1] = Nul
    BY DEF Bytes
  <2> HIDE DEF rest
  <2> DEFINE block == <<Nul>> \o rest
  <2>4. /\ block \in Seq(Bytes) /\ Len(block) = Len(<<Nul>>) + Len(rest)
        /\ \A i \in 1 .. Len(<<Nul>>) + Len(rest) : block[i] =
             IF i <= Len(<<Nul>>) THEN <<Nul>>[i] ELSE rest[i - Len(<<Nul>>)]
    BY <2>2, <2>3, ConcatProperties
  <2>5. string = [value |-> block, len |-> 0, max_len |-> m]
    BY <1>4 DEF m, rest
  <2> HIDE DEF block
  <2>6. Len(block) = 1 + m /\ block[1] = Nul
    BY <2>1, <2>2, <2>3, <2>4
  <2>7. string \in Strings
    BY <2>1, <2>4, <2>5 DEF Strings
  <2>8. string.value = block /\ string.len = 0 /\ Len(text) = 0
    BY <1>1, <1>2, <2>5
  <2>9. Holds(string, text) /\ Terminated(string)
    BY <2>1, <2>6, <2>8 DEF Holds, Terminated
  <2> QED
    BY <1>1, <1>2, <2>7, <2>9 DEF StringInv
<1> QED
  BY <1>1, <1>3, <1>4 DEF Buffer!NewString

LEMMA StringStep == StringInv /\ [Next]_vars => StringInv'
<1> SUFFICES ASSUME StringInv, [Next]_vars PROVE StringInv'
  OBVIOUS
<1>1. CASE UNCHANGED <<string, text>>
  BY <1>1 DEF StringInv
<1>2. ASSUME NEW chars \in Buffer!Texts, NEW can, Buffer!AppendText(chars, can)
      PROVE  StringInv'
  <2> DEFINE t == PutAll(string, chars, can)
  <2>1. t \in Strings /\ Holds(t, text \o chars)
    <3>1. string \in Strings /\ text \in Seq(Bytes) /\ Holds(string, text)
      BY DEF StringInv
    <3> QED
      BY <3>1, PutAllHolds
  <2>2. string' = Buffer!Terminate(t) /\ text' = text \o chars
    BY <1>2, Zenon DEF Buffer!AppendText, PutAll
  <2> HIDE DEF t
  <2>3. text \o chars \in Seq(Bytes)
    <3>1. text \in Seq(Bytes) /\ chars \in Seq(Bytes)
      BY TextsAreBytes DEF StringInv
    <3> QED
      BY <3>1, ConcatProperties
  <2> QED
    BY <2>1, <2>2, <2>3, TerminateHolds DEF StringInv
<1>3. CASE Buffer!Reset
  <2> DEFINE block == [string.value EXCEPT ![1] = Nul]
  <2>1. /\ string \in Strings /\ string.value \in Seq(Bytes)
        /\ string.value \in [1 .. Len(string.value) -> Bytes]
        /\ Len(string.value) \in Nat /\ Len(string.value) > 0
        /\ string.max_len \in Int
        /\ Len(string.value) # 1
    <3>1. string \in Strings /\ string.value \in Seq(Bytes) /\ string.max_len \in Int
      BY DEF StringInv, Strings
    <3>2. Len(string.value) \in Nat /\ string.value \in [1 .. Len(string.value) -> Bytes]
      BY <3>1, LenProperties
    <3> QED
      BY <1>3, <3>1, <3>2 DEF StringInv, Holds, Buffer!Reset, Buffer!Alloc
  <2>2. Nul \in Bytes /\ 1 \in 1 .. Len(string.value)
    BY <2>1 DEF Bytes
  <2>3. block \in Seq(Bytes) /\ Len(block) = Len(string.value) /\ block[1] = Nul
    BY <2>1, <2>2, ExceptSeq
  <2>4. /\ block = [string.value EXCEPT ![1] = Nul]
        /\ string' = [string EXCEPT !.len = 0, !.value[1] = Nul] /\ text' = <<>>
    BY <1>3 DEF Buffer!Reset
  <2> HIDE DEF block
  <2>5. string' = [value |-> block, len |-> 0, max_len |-> string.max_len]
    BY <2>1, <2>4 DEF Strings
  <2>6. string' \in Strings
    BY <2>1, <2>3, <2>5 DEF Strings
  <2>7. string'.value = block /\ string'.len = 0
    BY <2>5
  <2>8. <<>> \in Seq(Bytes) /\ Len(<<>>) = 0
    BY EmptySeq
  <2>9. Holds(string', text') /\ Terminated(string')
    BY <2>1, <2>3, <2>4, <2>7, <2>8 DEF Holds, Terminated
  <2> QED
    BY <2>4, <2>6, <2>8, <2>9 DEF StringInv
<1>4. BufferStep => Buffer!StreamStep \/ Buffer!StringStep
  BY DEF BufferStep, Buffer!Next
<1>5. Buffer!StreamStep => UNCHANGED <<string, text>>
  BY DEF Buffer!StreamStep, Buffer!stringVars
<1>6. Buffer!StringStep =>
        Buffer!Reset \/ \E chars \in Buffer!Texts, can \in [1 .. MaxWrite -> BOOLEAN] :
                          Buffer!AppendText(chars, can)
  BY DEF Buffer!StringStep
<1>7. ~BufferStep => UNCHANGED <<string, text>>
  BY DEF Next, ContainerStep, MapStep, vars, bufferVars
<1> QED
  BY <1>1, <1>2, <1>3, <1>4, <1>5, <1>6, <1>7

THEOREM StringAlways == Spec => []StringInv
BY StringInit, StringStep, PTL DEF Spec

(* A client that keeps its position inside a GMemoryStream never makes it  *)
(* copy outside its block, and a GString that memory or a limit cut short  *)
(* stays cut: its characters are the first of those put in it, without a   *)
(* hole, with the terminating zero behind them in the block.               *)
THEOREM BuffersAlwaysSound == Spec => []BuffersSound
<1>1. StreamInv => Buffer!CopiesStayInside
  BY DEF StreamInv, Buffer!CopiesStayInside, Buffer!Capacity
<1>2. StringInv => Buffer!StringIsPrefix
  <2> SUFFICES ASSUME StringInv PROVE Buffer!StringIsPrefix
    OBVIOUS
  <2>1. /\ string.value \in Seq(Bytes) /\ Len(string.value) \in Nat
        /\ string.len \in Nat /\ text \in Seq(Bytes) /\ Len(text) \in Nat
        /\ string.len <= Len(string.value) /\ string.len <= Len(text)
        /\ \A i \in 1 .. string.len : string.value[i] = text[i]
    <3>1. string.value \in Seq(Bytes) /\ string.len \in Nat /\ text \in Seq(Bytes)
      BY DEF StringInv, Strings
    <3>2. Len(string.value) \in Nat /\ Len(text) \in Nat
      BY <3>1, LenProperties
    <3> QED
      BY <3>1, <3>2 DEF StringInv, Holds
  <2> DEFINE chars == SubSeq(string.value, 1, string.len)
  <2>2. /\ chars \in Seq(Bytes) /\ Len(chars) = string.len
        /\ \A i \in 1 .. string.len : chars[i] = string.value[i]
    BY <2>1, BytesOf
  <2>3. /\ SubSeq(text, 1, string.len) \in Seq(Bytes)
        /\ Len(SubSeq(text, 1, string.len)) = string.len
        /\ \A i \in 1 .. string.len : SubSeq(text, 1, string.len)[i] = text[i]
    BY <2>1, BytesOf
  <2> HIDE DEF chars
  <2>4. chars = SubSeq(text, 1, string.len)
    BY <2>1, <2>2, <2>3, SeqEqual
  <2>5. SubSeq(chars, 1, Len(chars)) = chars
    BY <2>2, SubSeqFull
  <2>6. Buffer!IsPrefix(chars, text)
    BY <2>1, <2>2, <2>4, <2>5 DEF Buffer!IsPrefix
  <2>7. string.max_len = 0 => chars = text
    <3>1. string.max_len = 0 => string.len = Len(text)
      BY DEF StringInv, Holds
    <3>2. SubSeq(text, 1, Len(text)) = text
      BY <2>1, SubSeqFull
    <3> QED
      BY <2>4, <3>1, <3>2
  <2>8. Len(string.value) > 0 =>
          string.len < Len(string.value) /\ string.value[string.len + 1] = Nul
    BY <2>1 DEF StringInv, Holds, Terminated
  <2> QED
    BY <2>6, <2>7, <2>8 DEF Buffer!StringIsPrefix, Buffer!Alloc, chars
<1> QED
  BY <1>1, <1>2, StreamAlways, StringAlways, PTL DEF BuffersSound

-----------------------------------------------------------------------------
(* The client of a GArray, GPtrArray or GList.                             *)
LEMMA ContainerConstants ==
  /\ ItemLen \in Nat \ {0} /\ Width \in Nat \ {0}
  /\ MaxSize \in Nat /\ MaxNodes \in Nat /\ MaxBatch \in Nat
  /\ MaxSize * ItemLen < Width
BY CollectionsAssumption DEF Container!ContainersAssumption, Container!ArrayAssumption

-----------------------------------------------------------------------------
(* The lengths of a GArray are multiples of item_len.                      *)
LenOf(n) == ItemLen * n

LEMMA Times ==
  ASSUME NEW m \in Nat, NEW n \in Nat
  PROVE  /\ LenOf(n) \in Nat /\ n * ItemLen = LenOf(n)
         /\ LenOf(m) + LenOf(n) = LenOf(m + n)
         /\ LenOf(m) <= LenOf(n) <=> m <= n
<1>1. ItemLen \in Nat /\ ItemLen > 0
  BY ContainerConstants
<1>2. ItemLen * n \in Nat /\ n * ItemLen = ItemLen * n
  BY <1>1
<1>3. ItemLen * m + ItemLen * n = ItemLen * (m + n)
  BY <1>1
<1>4. m <= n => ItemLen * m <= ItemLen * n
  BY <1>1
<1>5. n < m => ItemLen * n < ItemLen * m
  BY <1>1
<1>6. ItemLen * m \in Nat
  BY <1>1
<1> QED
  BY <1>2, <1>3, <1>4, <1>5, <1>6 DEF LenOf

LEMMA LenSum ==
  ASSUME NEW m \in Nat, NEW n \in Nat
  PROVE  LenOf(m) + LenOf(n) = LenOf(m + n)
BY Times

LEMMA Quotient ==
  ASSUME NEW n \in Nat
  PROVE  LenOf(n) \div ItemLen = n /\ LenOf(n) % ItemLen = 0
<1>1. ItemLen \in Nat /\ ItemLen > 0
  BY ContainerConstants
<1> QED
  BY <1>1 DEF LenOf

LEMMA NoWrap ==
  ASSUME NEW n \in Nat, n <= MaxSize
  PROVE  Container!Wrap(LenOf(n)) = LenOf(n) /\ LenOf(n) \in 0 .. Width - 1
<1>1. MaxSize \in Nat /\ Width \in Nat /\ LenOf(MaxSize) < Width
  <2>1. MaxSize * ItemLen = LenOf(MaxSize)
    BY ContainerConstants, Times
  <2> QED
    BY ContainerConstants, <2>1
<1>2. LenOf(n) <= LenOf(MaxSize) /\ LenOf(n) \in Nat /\ LenOf(MaxSize) \in Nat
  BY <1>1, Times
<1>3. LenOf(n) \in Nat /\ LenOf(n) < Width
  BY <1>1, <1>2
<1>4. LenOf(n) % Width = LenOf(n)
  BY <1>1, <1>3
<1> QED
  BY <1>1, <1>3, <1>4 DEF Container!Wrap

-----------------------------------------------------------------------------
(* A client sees xs in a block d when xs is what d begins with.  What each *)
(* call does to the first slots of the block, slot by slot, is what it     *)
(* does to the sequence.                                                   *)
Begins(d, xs) == Len(xs) <= Len(d) /\ \A j \in 1 .. Len(xs) : d[j] = xs[j]

LEMMA BeginsIs ==
  ASSUME NEW S, NEW d \in Seq(S), NEW xs \in Seq(S), Begins(d, xs)
  PROVE  SubSeq(d, 1, Len(xs)) = xs
<1>1. Len(d) \in Nat /\ Len(xs) \in Nat /\ \A j \in 1 .. Len(xs) : d[j] \in S
  BY LenProperties, ElementOfSeq DEF Begins
<1>2. /\ SubSeq(d, 1, Len(xs)) \in Seq(S)
      /\ Len(SubSeq(d, 1, Len(xs))) = IF 1 <= Len(xs) THEN Len(xs) - 1 + 1 ELSE 0
      /\ \A j \in 1 .. Len(xs) - 1 + 1 : SubSeq(d, 1, Len(xs))[j] = d[1 + j - 1]
  BY <1>1, SubSeqProperties
<1> DEFINE f == SubSeq(d, 1, Len(xs))
<1> HIDE DEF f
<1>3. f \in Seq(S) /\ Len(f) = Len(xs) /\ \A j \in 1 .. Len(f) : f[j] = xs[j]
  BY <1>1, <1>2 DEF f, Begins
<1>4. f = xs
  BY <1>3, SeqEqual
<1> QED
  BY <1>4 DEF f

LEMMA BeginsInsert ==
  ASSUME NEW S, NEW d, NEW xs \in Seq(S), Begins(d, xs), NEW k \in 1 .. Len(xs) + 1,
         NEW x \in S, NEW e, Len(e) \in Nat, Len(xs) + 1 <= Len(e),
         \A j \in 1 .. Len(xs) + 1 :
           e[j] = IF j < k THEN d[j] ELSE IF j = k THEN x ELSE d[j - 1]
  PROVE  /\ InsertAt(xs, k, x) \in Seq(S) /\ Len(InsertAt(xs, k, x)) = Len(xs) + 1
         /\ Begins(e, InsertAt(xs, k, x))
<1> DEFINE g == InsertAt(xs, k, x)
           n == Len(xs)
<1>1. /\ InsertAt(xs, k, x) \in Seq(S)
      /\ Len(InsertAt(xs, k, x)) = Len(xs) + 1
      /\ \A j \in 1 .. Len(xs) + 1 :
           InsertAt(xs, k, x)[j] = IF j < k THEN xs[j] ELSE IF j = k THEN x ELSE xs[j - 1]
  BY InsertAtProperties
<1>2. n \in Nat /\ \A j \in 1 .. n : d[j] = xs[j]
  BY LenProperties DEF Begins
<1> HIDE DEF g
<1>3. ASSUME NEW j \in 1 .. n + 1 PROVE e[j] = g[j]
  <2>1. CASE j < k
    <3>1. j \in 1 .. n
      BY <1>2, <2>1
    <3> QED
      BY <1>1, <1>2, <2>1, <3>1 DEF g
  <2>2. CASE j = k
    BY <1>1, <1>2, <2>2 DEF g
  <2>3. CASE j > k
    <3>1. j - 1 \in 1 .. n /\ ~(j < k) /\ j # k
      BY <1>2, <2>3
    <3>2. e[j] = d[j - 1] /\ g[j] = xs[j - 1]
      BY <1>1, <3>1 DEF g
    <3> QED
      BY <1>2, <3>1, <3>2
  <2>4. j < k \/ j = k \/ j > k
    BY <1>2
  <2> QED
    BY ONLY <2>1, <2>2, <2>3, <2>4
<1> QED
  BY <1>1, <1>3 DEF Begins, g

LEMMA BeginsRemove ==
  ASSUME NEW S, NEW d, NEW xs \in Seq(S), Begins(d, xs), NEW k \in 1 .. Len(xs),
         NEW e, Len(e) \in Nat, Len(xs) - 1 <= Len(e),
         \A j \in 1 .. Len(xs) - 1 : e[j] = IF j < k THEN d[j] ELSE d[j + 1]
  PROVE  /\ RemoveAt(xs, k) \in Seq(S) /\ Len(RemoveAt(xs, k)) = Len(xs) - 1
         /\ Begins(e, RemoveAt(xs, k))
<1> DEFINE g == RemoveAt(xs, k)
           n == Len(xs)
<1>1. /\ RemoveAt(xs, k) \in Seq(S)
      /\ Len(RemoveAt(xs, k)) = Len(xs) - 1
      /\ \A j \in 1 .. Len(xs) - 1 : RemoveAt(xs, k)[j] = IF j < k THEN xs[j] ELSE xs[j + 1]
  BY RemoveAtProperties
<1>2. n \in Nat /\ \A j \in 1 .. n : d[j] = xs[j]
  BY LenProperties DEF Begins
<1> HIDE DEF g
<1>3. ASSUME NEW j \in 1 .. n - 1 PROVE e[j] = g[j]
  <2>1. j \in 1 .. n /\ j + 1 \in 1 .. n
    BY <1>2
  <2>2. d[j] = xs[j] /\ d[j + 1] = xs[j + 1]
    BY <1>2, <2>1
  <2> QED
    BY <1>1, <2>2 DEF g
<1> QED
  BY <1>1, <1>3 DEF Begins, g

LEMMA BeginsAppend ==
  ASSUME NEW S, NEW d, NEW xs \in Seq(S), Begins(d, xs), NEW ys \in Seq(S),
         NEW e, Len(e) \in Nat, Len(xs) + Len(ys) <= Len(e),
         \A j \in 1 .. Len(xs) + Len(ys) :
           e[j] = IF j <= Len(xs) THEN d[j] ELSE ys[j - Len(xs)]
  PROVE  /\ xs \o ys \in Seq(S) /\ Len(xs \o ys) = Len(xs) + Len(ys)
         /\ Begins(e, xs \o ys)
<1>1. /\ xs \o ys \in Seq(S)
      /\ Len(xs \o ys) = Len(xs) + Len(ys)
      /\ \A j \in 1 .. Len(xs) + Len(ys) :
           (xs \o ys)[j] = IF j <= Len(xs) THEN xs[j] ELSE ys[j - Len(xs)]
  BY ConcatProperties
<1>2. Len(xs) \in Nat /\ Len(ys) \in Nat
  BY LenProperties
<1>3. ASSUME NEW j \in 1 .. Len(xs) + Len(ys) PROVE e[j] = (xs \o ys)[j]
  <2>1. j <= Len(xs) => d[j] = xs[j]
    BY <1>2 DEF Begins
  <2> QED
    BY <1>1, <2>1
<1> QED
  BY <1>1, <1>3 DEF Begins

LEMMA BeginsPrepend ==
  ASSUME NEW S, NEW d, NEW xs \in Seq(S), Begins(d, xs), NEW ys \in Seq(S),
         NEW e, Len(e) \in Nat, Len(ys) + Len(xs) <= Len(e),
         \A j \in 1 .. Len(ys) + Len(xs) :
           e[j] = IF j <= Len(ys) THEN ys[j] ELSE d[j - Len(ys)]
  PROVE  /\ ys \o xs \in Seq(S) /\ Len(ys \o xs) = Len(ys) + Len(xs)
         /\ Begins(e, ys \o xs)
<1>1. /\ ys \o xs \in Seq(S)
      /\ Len(ys \o xs) = Len(ys) + Len(xs)
      /\ \A j \in 1 .. Len(ys) + Len(xs) :
           (ys \o xs)[j] = IF j <= Len(ys) THEN ys[j] ELSE xs[j - Len(ys)]
  BY ConcatProperties
<1>2. Len(xs) \in Nat /\ Len(ys) \in Nat
  BY LenProperties
<1>3. ASSUME NEW j \in 1 .. Len(ys) + Len(xs) PROVE e[j] = (ys \o xs)[j]
  <2>1. ASSUME ~(j <= Len(ys)) PROVE d[j - Len(ys)] = xs[j - Len(ys)]
    <3>1. j - Len(ys) \in 1 .. Len(xs)
      BY <1>2, <2>1
    <3> QED
      BY <3>1 DEF Begins
  <2> QED
    BY <1>1, <2>1
<1> QED
  BY <1>1, <1>3 DEF Begins

LEMMA BeginsSet ==
  ASSUME NEW S, NEW d, NEW xs \in Seq(S), Begins(d, xs), NEW k \in 1 .. Len(xs),
         NEW x \in S, NEW e, Len(e) \in Nat, Len(xs) <= Len(e),
         \A j \in 1 .. Len(xs) : e[j] = IF j = k THEN x ELSE d[j]
  PROVE  /\ [xs EXCEPT ![k] = x] \in Seq(S) /\ Len([xs EXCEPT ![k] = x]) = Len(xs)
         /\ Begins(e, [xs EXCEPT ![k] = x])
<1>1. /\ [xs EXCEPT ![k] = x] \in Seq(S)
      /\ Len([xs EXCEPT ![k] = x]) = Len(xs)
      /\ \A j \in 1 .. Len(xs) : [xs EXCEPT ![k] = x][j] = IF j = k THEN x ELSE xs[j]
  BY ExceptSeq
<1> QED
  BY <1>1 DEF Begins

-----------------------------------------------------------------------------
(* GArray: what a client sees are the first len / item_len slots.          *)
Slots == Things \cup {Zero}
Block(n, d) == [len |-> LenOf(n), alloc |-> LenOf(Len(d)), data |-> d]

ArrayHas(a, xs) ==
  /\ xs \in Seq(Slots)
  /\ \E d \in Seq(Slots) : a = Block(Len(xs), d) /\ Len(d) <= MaxSize /\ Begins(d, xs)

LEMMA BlockFields ==
  ASSUME NEW n, NEW d
  PROVE  /\ Block(n, d).len = LenOf(n) /\ Block(n, d).alloc = LenOf(Len(d))
         /\ Block(n, d).data = d
BY DEF Block

(* The updates of the struct, field by field.                             *)
Grown(n, d, e, m) == [Block(n, d) EXCEPT !.alloc = m, !.data = e]
Changed(n, d, e, m) == [Block(n, d) EXCEPT !.data = e, !.len = m]
Written(n, d, e) == [Block(n, d) EXCEPT !.data = e]
Sized(n, d, m) == [Block(n, d) EXCEPT !.len = m]

LEMMA BlockGrown ==
  ASSUME NEW n, NEW d, NEW e, NEW m
  PROVE  Grown(n, d, e, m) = [len |-> LenOf(n), alloc |-> m, data |-> e]
<1> DEFINE r == Grown(n, d, e, m)
<1>1. r = [x \in {"len", "alloc", "data"} |-> r[x]]
  BY DEF Block, Grown
<1>2. r.len = LenOf(n) /\ r.alloc = m /\ r.data = e
  BY DEF Block, Grown
<1> HIDE DEF r
<1>3. r = [len |-> r.len, alloc |-> r.alloc, data |-> r.data]
  BY <1>1
<1> QED
  BY <1>2, <1>3 DEF r

LEMMA BlockChanged ==
  ASSUME NEW n, NEW d, NEW e, NEW m
  PROVE  Changed(n, d, e, m) = [len |-> m, alloc |-> LenOf(Len(d)), data |-> e]
<1> DEFINE r == Changed(n, d, e, m)
<1>1. r = [x \in {"len", "alloc", "data"} |-> r[x]]
  BY DEF Block, Changed
<1>2. r.len = m /\ r.alloc = LenOf(Len(d)) /\ r.data = e
  BY DEF Block, Changed
<1> HIDE DEF r
<1>3. r = [len |-> r.len, alloc |-> r.alloc, data |-> r.data]
  BY <1>1
<1> QED
  BY <1>2, <1>3 DEF r

LEMMA BlockWritten ==
  ASSUME NEW n, NEW d, NEW e, NEW m
  PROVE  Written(n, d, e) = [len |-> LenOf(n), alloc |-> LenOf(Len(d)), data |-> e]
<1> DEFINE r == Written(n, d, e)
<1>1. r = [x \in {"len", "alloc", "data"} |-> r[x]]
  BY DEF Block, Written
<1>2. r.len = LenOf(n) /\ r.alloc = LenOf(Len(d)) /\ r.data = e
  BY DEF Block, Written
<1> HIDE DEF r
<1>3. r = [len |-> r.len, alloc |-> r.alloc, data |-> r.data]
  BY <1>1
<1> QED
  BY <1>2, <1>3 DEF r

LEMMA BlockSized ==
  ASSUME NEW n, NEW d, NEW e, NEW m
  PROVE  Sized(n, d, m) = [len |-> m, alloc |-> LenOf(Len(d)), data |-> d]
<1> DEFINE r == Sized(n, d, m)
<1>1. r = [x \in {"len", "alloc", "data"} |-> r[x]]
  BY DEF Block, Sized
<1>2. r.len = m /\ r.alloc = LenOf(Len(d)) /\ r.data = d
  BY DEF Block, Sized
<1> HIDE DEF r
<1>3. r = [len |-> r.len, alloc |-> r.alloc, data |-> r.data]
  BY <1>1
<1> QED
  BY <1>2, <1>3 DEF r

LEMMA ArraySizeIs ==
  ASSUME NEW n \in Nat, NEW d
  PROVE  Container!ArraySize(Block(n, d)) = n
BY Quotient, BlockFields DEF Container!ArraySize

LEMMA ArrayReads ==
  ASSUME NEW a, NEW xs, ArrayHas(a, xs)
  PROVE  Container!ArrayItems(a) = xs /\ Len(xs) \in Nat /\ Len(xs) <= MaxSize
<1>1. PICK d \in Seq(Slots) : a = Block(Len(xs), d) /\ Len(d) <= MaxSize /\ Begins(d, xs)
  BY DEF ArrayHas
<1>2. Len(xs) \in Nat /\ Len(d) \in Nat /\ xs \in Seq(Slots) /\ MaxSize \in Nat
  BY LenProperties, ContainerConstants DEF ArrayHas
<1>3. Container!ArraySize(a) = Len(xs) /\ a.data = d
  BY <1>1, <1>2, ArraySizeIs, BlockFields
<1>4. SubSeq(d, 1, Len(xs)) = xs
  BY <1>1, <1>2, BeginsIs
<1>5. Len(xs) <= MaxSize
  BY <1>1, <1>2 DEF Begins
<1> QED
  BY <1>2, <1>3, <1>4, <1>5 DEF Container!ArrayItems

(* g_array_maybe_expand: the block is grown to what is asked for or left   *)
(* alone; the length, and what lay in the block, stay.                     *)
LEMMA ZerosAdded ==
  ASSUME NEW d \in Seq(Slots), NEW k \in Nat
  PROVE  LET e == d \o [i \in 1 .. k |-> Zero]
         IN  e \in Seq(Slots) /\ Len(e) = Len(d) + k /\ \A j \in 1 .. Len(d) : e[j] = d[j]
<1> DEFINE z == [i \in 1 .. k |-> Zero]
<1>1. z \in Seq(Slots) /\ Len(z) = k
  BY DEF Slots
<1>2. Len(d) \in Nat
  BY LenProperties
<1> HIDE DEF z
<1>3. /\ d \o z \in Seq(Slots)
      /\ Len(d \o z) = Len(d) + Len(z)
      /\ \A j \in 1 .. Len(d) + Len(z) : (d \o z)[j] = IF j <= Len(d) THEN d[j] ELSE z[j - Len(d)]
  BY <1>1, ConcatProperties
<1> QED
  BY <1>1, <1>2, <1>3 DEF z

LEMMA Expands ==
  ASSUME NEW n \in Nat, NEW d \in Seq(Slots), Len(d) <= MaxSize,
         NEW m \in Nat, m <= MaxSize,
         NEW bytes, Container!Wrap(LenOf(n) + bytes) = LenOf(m)
  PROVE  \E e \in Seq(Slots) :
           /\ Container!Expand(Block(n, d), bytes) = Block(n, e)
           /\ Len(e) = IF m > Len(d) THEN m ELSE Len(d)
           /\ \A j \in 1 .. Len(d) : e[j] = d[j]
<1> DEFINE a == Block(n, d)
<1>1. Len(d) \in Nat
  BY LenProperties
<1>2. a.len = LenOf(n) /\ a.alloc = LenOf(Len(d)) /\ a.data = d
  BY BlockFields
<1>3. LenOf(m) <= LenOf(Len(d)) <=> m <= Len(d)
  BY <1>1, Times
<1>4. LenOf(m) \in Nat /\ LenOf(Len(d)) \in Nat
  BY <1>1, Times
<1>5. CASE m <= Len(d)
  <2>1. ~Container!NeedsMemory(a, bytes)
    BY <1>2, <1>3, <1>4, <1>5 DEF Container!NeedsMemory
  <2>2. Container!Expand(a, bytes) = a
    BY <2>1 DEF Container!Expand
  <2> QED
    BY <1>1, <1>5, <2>2
<1>6. CASE ~(m <= Len(d))
  <2> DEFINE k == m - Len(d)
             e == d \o [i \in 1 .. k |-> Zero]
  <2>1. Container!NeedsMemory(a, bytes)
    BY <1>2, <1>3, <1>4, <1>6 DEF Container!NeedsMemory
  <2>2. k \in Nat /\ Len(d) + k = m
    BY <1>1, <1>6
  <2>3. (LenOf(m) - LenOf(Len(d))) \div ItemLen = k
    <3>1. LenOf(Len(d)) + LenOf(k) = LenOf(m) /\ LenOf(k) \in Nat
      <4> HIDE DEF k
      <4> QED
        BY ONLY <1>1, <2>2, Times
    <3>2. LenOf(m) - LenOf(Len(d)) = LenOf(k)
      <4> HIDE DEF k
      <4> QED
        BY ONLY <1>4, <3>1
    <3> QED
      BY <2>2, <3>2, Quotient
  <2>4. Container!Expand(a, bytes)
          = [a EXCEPT !.alloc = LenOf(m), !.data = d \o [i \in 1 .. k |-> Zero]]
    <3>1. Container!Wrap(a.len + bytes) = LenOf(m)
      BY <1>2
    <3> HIDE DEF a, k
    <3> QED
      BY <1>2, <2>1, <2>3, <3>1 DEF Container!Expand
  <2>5. e \in Seq(Slots) /\ Len(e) = Len(d) + k /\ \A j \in 1 .. Len(d) : e[j] = d[j]
    BY <2>2, ZerosAdded
  <2>6. Container!Expand(a, bytes) = Block(n, e)
    <3> DEFINE b == LenOf(m)
    <3> HIDE DEF b, e
    <3>1. Grown(n, d, e, b) = [len |-> LenOf(n), alloc |-> b, data |-> e]
      BY BlockGrown
    <3>2. Block(n, e) = [len |-> LenOf(n), alloc |-> b, data |-> e]
      BY <2>2, <2>5 DEF Block, b
    <3>3. Container!Expand(a, bytes) = Grown(n, d, e, b)
      BY <2>4 DEF b, e, Grown
    <3> QED
      BY <3>1, <3>2, <3>3
  <2>7. Len(e) = IF m > Len(d) THEN m ELSE Len(d)
    BY <1>1, <1>6, <2>2, <2>5
  <2> HIDE DEF e
  <2> QED
    BY <2>5, <2>6, <2>7
<1> QED
  BY <1>5, <1>6

(* g_memmove and memcpy inside the block.                                  *)
LEMMA Writes ==
  ASSUME NEW S, NEW d \in Seq(S), NEW to \in Nat, NEW ys \in Seq(S)
  PROVE  LET e == Container!Write(d, to, ys)
         IN  /\ e \in Seq(S) /\ Len(e) = Len(d)
             /\ \A j \in 1 .. Len(d) :
                  e[j] = IF to < j /\ j <= to + Len(ys) THEN ys[j - to] ELSE d[j]
<1> DEFINE e == Container!Write(d, to, ys)
<1>1. Len(d) \in Nat /\ DOMAIN d = 1 .. Len(d) /\ Len(ys) \in Nat
  BY LenProperties
<1>2. e = [j \in 1 .. Len(d) |-> IF to < j /\ j <= to + Len(ys) THEN ys[j - to] ELSE d[j]]
  BY <1>1 DEF Container!Write
<1> HIDE DEF e
<1>3. ASSUME NEW j \in 1 .. Len(d) PROVE e[j] \in S
  <2>1. CASE to < j /\ j <= to + Len(ys)
    <3>1. j - to \in 1 .. Len(ys)
      BY <1>1, <2>1
    <3> QED
      BY <1>2, <2>1, <3>1, ElementOfSeq
  <2>2. CASE ~(to < j /\ j <= to + Len(ys))
    BY <1>1, <1>2, <2>2, ElementOfSeq
  <2> QED
    BY <2>1, <2>2
<1>4. e \in Seq(S) /\ Len(e) = Len(d)
  BY <1>1, <1>2, <1>3
<1> QED
  BY <1>2, <1>4 DEF e

LEMMA Moves ==
  ASSUME NEW S, NEW d \in Seq(S), NEW to \in Nat, NEW from \in Nat, NEW n \in Nat,
         from + n <= Len(d)
  PROVE  LET e == Container!Move(d, to, from, n)
         IN  /\ e \in Seq(S) /\ Len(e) = Len(d)
             /\ \A j \in 1 .. Len(d) :
                  e[j] = IF to < j /\ j <= to + n THEN d[j - to + from] ELSE d[j]
<1> DEFINE e == Container!Move(d, to, from, n)
<1>1. Len(d) \in Nat /\ DOMAIN d = 1 .. Len(d)
  BY LenProperties
<1>2. e = [j \in 1 .. Len(d) |-> IF to < j /\ j <= to + n THEN d[j - to + from] ELSE d[j]]
  BY <1>1 DEF Container!Move
<1> HIDE DEF e
<1>3. ASSUME NEW j \in 1 .. Len(d) PROVE e[j] \in S
  <2>1. CASE to < j /\ j <= to + n
    <3>1. j - to + from \in 1 .. Len(d)
      BY <1>1, <2>1
    <3> QED
      BY <1>2, <2>1, <3>1, ElementOfSeq
  <2>2. CASE ~(to < j /\ j <= to + n)
    BY <1>1, <1>2, <2>2, ElementOfSeq
  <2> QED
    BY <2>1, <2>2
<1>4. e \in Seq(S) /\ Len(e) = Len(d)
  BY <1>1, <1>2, <1>3
<1> QED
  BY <1>2, <1>4 DEF e

LEMMA ChangedIs ==
  ASSUME NEW n, NEW d, NEW e, Len(e) = Len(d), NEW k
  PROVE  Changed(n, d, e, LenOf(k)) = Block(k, e)
<1> DEFINE m == LenOf(k)
<1>1. Changed(n, d, e, m) = [len |-> m, alloc |-> LenOf(Len(d)), data |-> e]
  BY BlockChanged
<1> QED
  BY <1>1 DEF Block

LEMMA WrittenIs ==
  ASSUME NEW n, NEW d, NEW e, Len(e) = Len(d)
  PROVE  Written(n, d, e) = Block(n, e)
BY BlockWritten DEF Block

LEMMA SizedIs ==
  ASSUME NEW n, NEW d, NEW k
  PROVE  Sized(n, d, LenOf(k)) = Block(k, d)
<1> DEFINE m == LenOf(k)
<1>1. Sized(n, d, m) = [len |-> m, alloc |-> LenOf(Len(d)), data |-> d]
  BY BlockSized
<1> QED
  BY <1>1 DEF Block

(* Room for k more items behind those of the client.                       *)
LEMMA Room ==
  ASSUME NEW a, NEW xs, ArrayHas(a, xs), NEW k \in Nat, Len(xs) + k <= MaxSize
  PROVE  \E e \in Seq(Slots) :
           /\ Container!Expand(a, LenOf(k)) = Block(Len(xs), e)
           /\ Len(xs) + k <= Len(e) /\ Len(e) <= MaxSize
           /\ Begins(e, xs)
<1>1. PICK d \in Seq(Slots) : a = Block(Len(xs), d) /\ Len(d) <= MaxSize /\ Begins(d, xs)
  BY DEF ArrayHas
<1> DEFINE n == Len(xs)
<1>2. n \in Nat /\ n <= MaxSize /\ Len(d) \in Nat /\ MaxSize \in Nat /\ n <= Len(d)
  BY <1>1, ArrayReads, LenProperties, ContainerConstants DEF Begins
<1>3. Container!Wrap(LenOf(n) + LenOf(k)) = LenOf(n + k)
  <2>1. LenOf(n) + LenOf(k) = LenOf(n + k)
    BY <1>2, LenSum
  <2>2. n + k \in Nat
    BY <1>2
  <2> QED
    BY <1>2, <2>1, <2>2, NoWrap
<1> DEFINE m == n + k
           bytes == LenOf(k)
<1>4. m \in Nat /\ m <= MaxSize /\ Container!Wrap(LenOf(n) + bytes) = LenOf(m)
  BY <1>2, <1>3
<1> HIDE DEF m, bytes
<1>5. PICK e \in Seq(Slots) :
        /\ Container!Expand(Block(n, d), bytes) = Block(n, e)
        /\ Len(e) = IF m > Len(d) THEN m ELSE Len(d)
        /\ \A j \in 1 .. Len(d) : e[j] = d[j]
  BY <1>1, <1>2, <1>4, Expands
<1>6. Len(d) <= Len(e) /\ m <= Len(e) /\ Len(e) <= MaxSize
  BY <1>1, <1>2, <1>4, <1>5
<1>7. Begins(e, xs)
  <2>1. \A j \in 1 .. n : j \in 1 .. Len(d)
    BY <1>2
  <2> QED
    BY <1>1, <1>2, <1>5, <1>6, <2>1 DEF Begins
<1> QED
  BY <1>1, <1>5, <1>6, <1>7 DEF m, bytes

LEMMA ArrayAppends ==
  ASSUME NEW a, NEW xs, ArrayHas(a, xs), NEW ys \in Seq(Slots), Len(xs) + Len(ys) <= MaxSize
  PROVE  ArrayHas(Container!ArrayAppend(a, ys), xs \o ys)
<1> DEFINE n == Len(xs)
           k == Len(ys)
<1>1. n \in Nat /\ k \in Nat /\ xs \in Seq(Slots)
  BY LenProperties DEF ArrayHas
<1>2. PICK e \in Seq(Slots) :
        /\ Container!Expand(a, LenOf(k)) = Block(n, e)
        /\ n + k <= Len(e) /\ Len(e) <= MaxSize
        /\ Begins(e, xs)
  BY <1>1, Room
<1> DEFINE f == Container!Write(e, n, ys)
<1>3. /\ f \in Seq(Slots) /\ Len(f) = Len(e)
      /\ \A j \in 1 .. Len(e) : f[j] = IF n < j /\ j <= n + k THEN ys[j - n] ELSE e[j]
  BY <1>1, Writes
<1> HIDE DEF f
<1>4. Container!ArrayAppend(a, ys) = Block(n + k, f)
  <2>1. Container!ArraySize(a) = n
    BY <1>1, ArraySizeIs DEF ArrayHas
  <2>2. Container!ArrayAppend(a, ys) = Changed(n, e, f, LenOf(n) + LenOf(k))
    <3> DEFINE b == Container!Expand(a, ItemLen * Len(ys))
    <3>1. b = Block(n, e)
      BY <1>2 DEF LenOf
    <3>2. b.data = e /\ b.len = LenOf(n) /\ ItemLen * Len(ys) = LenOf(k)
      BY <3>1, BlockFields DEF LenOf
    <3>3. Container!ArrayAppend(a, ys)
            = [b EXCEPT !.data = Container!Write(b.data, Container!ArraySize(a), ys),
                        !.len = b.len + ItemLen * Len(ys)]
      BY DEF Container!ArrayAppend
    <3> HIDE DEF b
    <3> QED
      BY <2>1, <3>1, <3>2, <3>3 DEF Changed, f
  <2>3. LenOf(n) + LenOf(k) = LenOf(n + k)
    BY <1>1, LenSum
  <2>4. Changed(n, e, f, LenOf(n + k)) = Block(n + k, f)
    BY <1>3, ChangedIs
  <2> QED
    BY <2>2, <2>3, <2>4
<1>5. \A j \in 1 .. n + k : f[j] = IF j <= n THEN e[j] ELSE ys[j - n]
  <2>1. Len(e) \in Nat
    BY LenProperties
  <2>2. \A j \in 1 .. n + k : j \in 1 .. Len(e)
    BY <1>1, <1>2, <2>1
  <2> QED
    BY <1>1, <1>3, <2>2
<1>6. Len(f) \in Nat /\ n + k <= Len(f) /\ Len(f) <= MaxSize
  BY <1>2, <1>3, LenProperties
<1>7. /\ xs \o ys \in Seq(Slots) /\ Len(xs \o ys) = n + k
      /\ Begins(f, xs \o ys)
  BY <1>1, <1>2, <1>5, <1>6, BeginsAppend
<1> QED
  BY <1>3, <1>4, <1>6, <1>7 DEF ArrayHas

LEMMA ArrayPrepends ==
  ASSUME NEW a, NEW xs, ArrayHas(a, xs), NEW ys \in Seq(Slots), Len(xs) + Len(ys) <= MaxSize
  PROVE  ArrayHas(Container!ArrayPrepend(a, ys), ys \o xs)
<1> DEFINE n == Len(xs)
           k == Len(ys)
<1>1. n \in Nat /\ k \in Nat /\ xs \in Seq(Slots)
  BY LenProperties DEF ArrayHas
<1>2. PICK e \in Seq(Slots) :
        /\ Container!Expand(a, LenOf(k)) = Block(n, e)
        /\ n + k <= Len(e) /\ Len(e) <= MaxSize
        /\ Begins(e, xs)
  BY <1>1, Room
<1> DEFINE g == Container!Move(e, k, 0, n)
           f == Container!Write(g, 0, ys)
<1>a. Len(e) \in Nat /\ 0 + n <= Len(e)
  BY <1>1, <1>2, LenProperties
<1>b. /\ g \in Seq(Slots) /\ Len(g) = Len(e)
      /\ \A j \in 1 .. Len(e) : g[j] = IF k < j /\ j <= k + n THEN e[j - k + 0] ELSE e[j]
  BY <1>1, <1>a, Moves
<1> HIDE DEF g
<1>3. /\ f \in Seq(Slots) /\ Len(f) = Len(g)
      /\ \A j \in 1 .. Len(g) : f[j] = IF 0 < j /\ j <= 0 + k THEN ys[j - 0] ELSE g[j]
  BY <1>b, Writes
<1> HIDE DEF f
<1>4. Container!ArrayPrepend(a, ys) = Block(k + n, f)
  <2>1. Container!ArraySize(a) = n
    BY <1>1, ArraySizeIs DEF ArrayHas
  <2>2. Container!ArrayPrepend(a, ys) = Changed(n, e, f, LenOf(n) + LenOf(k))
    <3> DEFINE b == Container!Expand(a, ItemLen * Len(ys))
    <3>1. b = Block(n, e)
      BY <1>2 DEF LenOf
    <3>2. b.data = e /\ b.len = LenOf(n) /\ ItemLen * Len(ys) = LenOf(k)
      BY <3>1, BlockFields DEF LenOf
    <3>3. Container!ArrayPrepend(a, ys)
            = [b EXCEPT
                 !.data = Container!Write(Container!Move(b.data, Len(ys), 0, Container!ArraySize(a)), 0, ys),
                 !.len = b.len + ItemLen * Len(ys)]
      BY DEF Container!ArrayPrepend
    <3> HIDE DEF b
    <3> QED
      BY <2>1, <3>1, <3>2, <3>3 DEF Changed, f, g
  <2>3. LenOf(n) + LenOf(k) = LenOf(k + n)
    <3>1. n + k = k + n
      BY <1>1
    <3> QED
      BY <1>1, <3>1, LenSum
  <2>4. Changed(n, e, f, LenOf(k + n)) = Block(k + n, f)
    BY <1>3, <1>b, ChangedIs
  <2> QED
    BY <2>2, <2>3, <2>4
<1>5. ASSUME NEW j \in 1 .. k + n PROVE f[j] = IF j <= k THEN ys[j] ELSE e[j - k]
  <2>1. j \in 1 .. Len(e) /\ 0 < j /\ 0 + k = k /\ j - 0 = j
    BY <1>1, <1>2, <1>a
  <2>2. f[j] = IF j <= k THEN ys[j] ELSE g[j]
    BY <1>3, <1>b, <2>1
  <2>3. CASE j <= k
    BY <2>2, <2>3
  <2>4. CASE ~(j <= k)
    <3>1. k < j /\ j <= k + n /\ j - k + 0 = j - k
      BY <1>1, <2>4
    <3>2. g[j] = e[j - k]
      BY <1>b, <2>1, <3>1
    <3> QED
      BY <2>2, <2>4, <3>2
  <2> QED
    BY <2>3, <2>4
<1>6. Len(f) \in Nat /\ k + n <= Len(f) /\ Len(f) <= MaxSize
  BY <1>1, <1>2, <1>3, <1>a, <1>b
<1>7. /\ ys \o xs \in Seq(Slots) /\ Len(ys \o xs) = k + n
      /\ Begins(f, ys \o xs)
  BY <1>1, <1>2, <1>5, <1>6, BeginsPrepend
<1> QED
  BY <1>3, <1>4, <1>6, <1>7 DEF ArrayHas

LEMMA ArrayInserts ==
  ASSUME NEW a, NEW xs, ArrayHas(a, xs), NEW i \in 0 .. Len(xs), NEW x \in Slots,
         Len(xs) + 1 <= MaxSize
  PROVE  ArrayHas(Container!ArrayInsert(a, i, x), InsertAt(xs, i + 1, x))
<1> DEFINE n == Len(xs)
           p == i + 1
<1>1. n \in Nat /\ xs \in Seq(Slots) /\ p \in 1 .. n + 1 /\ i \in Nat /\ i <= n
  BY LenProperties DEF ArrayHas
<1>2. PICK e \in Seq(Slots) :
        /\ Container!Expand(a, LenOf(1)) = Block(n, e)
        /\ n + 1 <= Len(e) /\ Len(e) <= MaxSize
        /\ Begins(e, xs)
  BY <1>1, Room
<1> DEFINE g == IF i < n THEN Container!Move(e, p, i, n - i) ELSE e
           f == Container!Write(g, i, <<x>>)
<1>3. Len(e) \in Nat
  BY LenProperties
<1>4. /\ g \in Seq(Slots) /\ Len(g) = Len(e)
      /\ \A j \in 1 .. Len(e) : g[j] = IF p < j /\ j <= n + 1 THEN e[j - 1] ELSE e[j]
  <2>1. CASE i < n
    <3> DEFINE k == n - i
    <3>1. k \in Nat /\ p \in Nat /\ i + k <= Len(e)
      BY <1>1, <1>2, <1>3, <2>1
    <3>2. g = Container!Move(e, p, i, k)
      BY <2>1
    <3>3. \A j \in 1 .. Len(e) : j - p + i = j - 1
      BY <1>1
    <3>4. p + k = n + 1
      BY <1>1
    <3> HIDE DEF k, g, p
    <3>5. /\ g \in Seq(Slots) /\ Len(g) = Len(e)
          /\ \A j \in 1 .. Len(e) : g[j] = IF p < j /\ j <= p + k THEN e[j - p + i] ELSE e[j]
      BY <1>1, <3>1, <3>2, Moves
    <3> QED
      BY <3>3, <3>4, <3>5
  <2>2. CASE ~(i < n)
    <3>1. g = e /\ ~\E j \in 1 .. Len(e) : p < j /\ j <= n + 1
      BY <1>1, <2>2
    <3> QED
      BY <3>1
  <2> QED
    BY <2>1, <2>2
<1>5. <<x>> \in Seq(Slots) /\ Len(<<x>>) = 1 /\ <<x>>[1] = x
  OBVIOUS
<1> DEFINE y == <<x>>
<1> HIDE DEF y
<1>6. /\ f \in Seq(Slots) /\ Len(f) = Len(g)
      /\ \A j \in 1 .. Len(g) : f[j] = IF i < j /\ j <= i + 1 THEN x ELSE g[j]
  <2> HIDE DEF g
  <2>1. /\ Container!Write(g, i, y) \in Seq(Slots) /\ Len(Container!Write(g, i, y)) = Len(g)
        /\ \A j \in 1 .. Len(g) :
             Container!Write(g, i, y)[j] = IF i < j /\ j <= i + Len(y) THEN y[j - i] ELSE g[j]
    <3>1. g \in Seq(Slots) /\ i \in Nat /\ y \in Seq(Slots)
      BY <1>1, <1>4, <1>5 DEF y
    <3> QED
      BY ONLY <3>1, Writes
  <2>2. \A j \in 1 .. Len(g) : i < j /\ j <= i + 1 => j - i = 1
    BY <1>1
  <2> QED
    BY <1>5, <2>1, <2>2 DEF y
<1> HIDE DEF f, g
<1>7. Container!ArrayInsert(a, i, x) = Block(n + 1, f)
  <2>1. Container!ArraySize(a) = n
    BY <1>1, ArraySizeIs DEF ArrayHas
  <2> DEFINE b == Container!Expand(a, ItemLen)
  <2>2. LenOf(1) = ItemLen
    BY ContainerConstants DEF LenOf
  <2>3. b = Block(n, e) /\ b.data = e /\ b.len = LenOf(n)
    BY <1>2, <2>2, BlockFields
  <2> DEFINE s == n + 1
  <2>4. (i < s - 1 <=> i < n) /\ s - (1 + i) = n - i
    BY <1>1
  <2>5. Container!ArrayInsert(a, i, x)
          = [b EXCEPT
               !.data = Container!Write(IF i < s - 1 THEN Container!Move(b.data, i + 1, i, s - (1 + i))
                                        ELSE b.data, i, <<x>>),
               !.len = b.len + ItemLen]
    BY <2>1 DEF Container!ArrayInsert
  <2> HIDE DEF b, s
  <2>6. (IF i < s - 1 THEN Container!Move(b.data, i + 1, i, s - (1 + i)) ELSE b.data) = g
    BY <2>3, <2>4 DEF g
  <2>7. Container!ArrayInsert(a, i, x) = Changed(n, e, f, LenOf(n) + ItemLen)
    BY <2>3, <2>5, <2>6 DEF f, Changed
  <2>8. LenOf(n) + ItemLen = LenOf(n + 1)
    BY <1>1, <2>2, LenSum
  <2>9. Changed(n, e, f, LenOf(n + 1)) = Block(n + 1, f)
    BY <1>4, <1>6, ChangedIs
  <2> QED
    BY <2>7, <2>8, <2>9
<1>8. ASSUME NEW j \in 1 .. n + 1
      PROVE  f[j] = IF j < p THEN e[j] ELSE IF j = p THEN x ELSE e[j - 1]
  <2>1. j \in 1 .. Len(e)
    BY <1>1, <1>2, <1>3
  <2>2. /\ f[j] = IF i < j /\ j <= i + 1 THEN x ELSE g[j]
        /\ g[j] = IF p < j /\ j <= n + 1 THEN e[j - 1] ELSE e[j]
    BY <1>4, <1>6, <2>1
  <2>3. CASE j < p
    <3>1. ~(i < j) /\ ~(p < j)
      BY <1>1, <2>3
    <3> QED
      BY <2>2, <2>3, <3>1
  <2>4. CASE j = p
    <3>1. i < j /\ j <= i + 1 /\ ~(j < p)
      BY <1>1, <2>4
    <3> QED
      BY <2>2, <2>4, <3>1
  <2>5. CASE j > p
    <3>1. ~(j <= i + 1) /\ p < j /\ j <= n + 1 /\ ~(j < p) /\ j # p
      BY <1>1, <2>5
    <3> QED
      BY <2>2, <3>1
  <2>6. j < p \/ j = p \/ j > p
    BY <1>1
  <2> QED
    BY ONLY <2>3, <2>4, <2>5, <2>6
<1>9. Len(f) \in Nat /\ n + 1 <= Len(f) /\ Len(f) <= MaxSize
  BY <1>2, <1>3, <1>4, <1>6
<1> HIDE DEF p
<1>10. /\ InsertAt(xs, p, x) \in Seq(Slots) /\ Len(InsertAt(xs, p, x)) = n + 1
       /\ Begins(f, InsertAt(xs, p, x))
  BY <1>1, <1>2, <1>8, <1>9, BeginsInsert
<1>11. ArrayHas(Container!ArrayInsert(a, i, x), InsertAt(xs, p, x))
  BY <1>6, <1>4, <1>7, <1>9, <1>10 DEF ArrayHas
<1> QED
  BY <1>11 DEF p

LEMMA ArrayRemoves ==
  ASSUME NEW a, NEW xs, ArrayHas(a, xs), NEW i \in 0 .. Len(xs) - 1
  PROVE  ArrayHas(Container!ArrayRemove(a, i), RemoveAt(xs, i + 1))
<1> DEFINE n == Len(xs)
           p == i + 1
<1>1. n \in Nat /\ xs \in Seq(Slots) /\ p \in 1 .. n /\ i \in Nat /\ i + 1 <= n /\ n - 1 \in Nat
  BY LenProperties DEF ArrayHas
<1>2. PICK d \in Seq(Slots) : a = Block(n, d) /\ Len(d) <= MaxSize /\ Begins(d, xs)
  BY DEF ArrayHas
<1>3. Len(d) \in Nat /\ n <= Len(d)
  BY <1>2, LenProperties DEF Begins
<1> DEFINE f == IF i < n - 1 THEN Container!Move(d, i, p, n - p) ELSE d
<1>4. /\ f \in Seq(Slots) /\ Len(f) = Len(d)
      /\ \A j \in 1 .. n - 1 : f[j] = IF j < p THEN d[j] ELSE d[j + 1]
  <2>1. CASE i < n - 1
    <3> DEFINE k == n - p
    <3>1. k \in Nat /\ p \in Nat /\ p + k <= Len(d) /\ i + k = n - 1
      BY <1>1, <1>3, <2>1
    <3>2. f = Container!Move(d, i, p, k)
      BY <2>1
    <3>3. \A j \in 1 .. n - 1 : j \in 1 .. Len(d) /\ j - i + p = j + 1 /\ j <= i + k /\ (i < j <=> ~(j < p))
      BY <1>1, <1>3
    <3> HIDE DEF k, f, p
    <3>4. /\ f \in Seq(Slots) /\ Len(f) = Len(d)
          /\ \A j \in 1 .. Len(d) : f[j] = IF i < j /\ j <= i + k THEN d[j - i + p] ELSE d[j]
      BY <1>1, <3>1, <3>2, Moves
    <3> QED
      BY <3>3, <3>4
  <2>2. CASE ~(i < n - 1)
    <3>1. f = d /\ \A j \in 1 .. n - 1 : j < p
      BY <1>1, <2>2
    <3> QED
      BY <3>1
  <2> QED
    BY <2>1, <2>2
<1> HIDE DEF f
<1>5. Container!ArrayRemove(a, i) = Block(n - 1, f)
  <2>1. Container!ArraySize(a) = n /\ a.data = d /\ a.len = LenOf(n)
    BY <1>1, <1>2, ArraySizeIs, BlockFields
  <2>2. n - (1 + i) = n - p
    BY <1>1
  <2>3. (IF i < n - 1 THEN Container!Move(a.data, i, i + 1, n - (1 + i)) ELSE a.data) = f
    BY <2>1, <2>2 DEF f
  <2>4. Container!ArrayRemove(a, i)
          = [a EXCEPT !.data = (IF i < n - 1 THEN Container!Move(a.data, i, i + 1, n - (1 + i))
                                ELSE a.data),
                      !.len = a.len - ItemLen]
    BY <2>1 DEF Container!ArrayRemove
  <2>5. Container!ArrayRemove(a, i) = Changed(n, d, f, LenOf(n) - ItemLen)
    BY <1>2, <2>1, <2>3, <2>4 DEF Changed
  <2>6. LenOf(n) - ItemLen = LenOf(n - 1)
    <3>1. LenOf(n - 1) + LenOf(1) = LenOf(n - 1 + 1) /\ n - 1 + 1 = n
      BY <1>1, LenSum
    <3>2. LenOf(1) = ItemLen /\ LenOf(n - 1) \in Nat /\ ItemLen \in Nat
      <4>1. LenOf(n - 1) \in Nat
        BY <1>1, Times
      <4> QED
        BY <4>1, ContainerConstants DEF LenOf
    <3> QED
      BY <3>1, <3>2
  <2>7. Changed(n, d, f, LenOf(n - 1)) = Block(n - 1, f)
    BY <1>4, ChangedIs
  <2> QED
    BY <2>5, <2>6, <2>7
<1>6. Len(f) \in Nat /\ n - 1 <= Len(f) /\ Len(f) <= MaxSize
  BY <1>1, <1>2, <1>3, <1>4
<1> HIDE DEF p
<1>7. /\ RemoveAt(xs, p) \in Seq(Slots) /\ Len(RemoveAt(xs, p)) = n - 1
      /\ Begins(f, RemoveAt(xs, p))
  BY <1>1, <1>2, <1>4, <1>6, BeginsRemove
<1>8. ArrayHas(Container!ArrayRemove(a, i), RemoveAt(xs, p))
  BY <1>4, <1>5, <1>6, <1>7 DEF ArrayHas
<1> QED
  BY <1>8 DEF p

LEMMA ArraySets ==
  ASSUME NEW a, NEW xs, ArrayHas(a, xs), NEW i \in 0 .. Len(xs) - 1, NEW x \in Slots
  PROVE  ArrayHas(Container!ArraySet(a, i, x), [xs EXCEPT ![i + 1] = x])
<1> DEFINE n == Len(xs)
           p == i + 1
           y == <<x>>
<1>1. n \in Nat /\ xs \in Seq(Slots) /\ p \in 1 .. n /\ i \in Nat
  BY LenProperties DEF ArrayHas
<1>2. PICK d \in Seq(Slots) : a = Block(n, d) /\ Len(d) <= MaxSize /\ Begins(d, xs)
  BY DEF ArrayHas
<1>3. Len(d) \in Nat /\ n <= Len(d)
  BY <1>2, LenProperties DEF Begins
<1>4. y \in Seq(Slots) /\ Len(y) = 1 /\ y[1] = x
  OBVIOUS
<1> DEFINE f == Container!Write(d, i, y)
<1> HIDE DEF y
<1>5. /\ f \in Seq(Slots) /\ Len(f) = Len(d)
      /\ \A j \in 1 .. Len(d) : f[j] = IF i < j /\ j <= i + Len(y) THEN y[j - i] ELSE d[j]
  <2>1. d \in Seq(Slots) /\ i \in Nat /\ y \in Seq(Slots)
    BY <1>1, <1>4
  <2> QED
    BY ONLY <2>1, Writes
<1>6. Container!ArraySet(a, i, x) = Block(n, f)
  <2>1. a.data = d
    BY <1>2, BlockFields
  <2>2. Container!ArraySet(a, i, x) = [a EXCEPT !.data = Container!Write(a.data, i, y)]
    BY DEF Container!ArraySet, y
  <2>3. Container!ArraySet(a, i, x) = Written(n, d, f)
    BY <1>2, <2>1, <2>2 DEF Written
  <2> HIDE DEF f
  <2> QED
    BY <1>5, <2>3, WrittenIs
<1> HIDE DEF f
<1>7. \A j \in 1 .. n : f[j] = IF j = p THEN x ELSE d[j]
  <2>1. \A j \in 1 .. n : j \in 1 .. Len(d) /\ (i < j /\ j <= i + 1 <=> j = p)
    BY <1>1, <1>3
  <2>2. p - i = 1
    BY <1>1
  <2> QED
    BY <1>4, <1>5, <2>1, <2>2
<1>8. Len(f) \in Nat /\ n <= Len(f) /\ Len(f) <= MaxSize
  BY <1>1, <1>2, <1>3, <1>5
<1> HIDE DEF p
<1>9. /\ [xs EXCEPT ![p] = x] \in Seq(Slots) /\ Len([xs EXCEPT ![p] = x]) = Len(xs)
      /\ Begins(f, [xs EXCEPT ![p] = x])
  BY <1>1, <1>2, <1>7, <1>8, BeginsSet
<1>10. ArrayHas(Container!ArraySet(a, i, x), [xs EXCEPT ![p] = x])
  BY <1>5, <1>6, <1>8, <1>9 DEF ArrayHas
<1> QED
  BY <1>10 DEF p

(* g_array_set_size: also where the difference wraps, the sum in           *)
(* g_array_maybe_expand is the new length.                                 *)
LEMMA WrapBack ==
  ASSUME NEW m \in 0 .. Width - 1, NEW n \in 0 .. Width - 1
  PROVE  Container!Wrap(m + Container!Wrap(n - m)) = n
<1>1. Width \in Nat /\ Width > 0 /\ m \in Int /\ n \in Int
  BY ContainerConstants
<1>2. CASE n >= m
  <2>1. (n - m) % Width = n - m
    BY <1>1, <1>2
  <2>2. m + (n - m) = n /\ n % Width = n
    BY <1>1
  <2> QED
    BY <2>1, <2>2 DEF Container!Wrap
<1>3. CASE n < m
  <2> DEFINE k == n - m + Width
  <2>1. k \in 0 .. Width - 1 /\ n - m = k - Width
    BY <1>1, <1>3
  <2> HIDE DEF k
  <2>2. (k - Width) % Width = k
    <3>1. k % Width = k
      BY <1>1, <2>1
    <3>2. (k - Width) % Width = k % Width
      BY <1>1, <2>1
    <3> QED
      BY <3>1, <3>2
  <2>3. m + k = n + Width
    BY <1>1, <2>1
  <2>4. (n + Width) % Width = n
    <3>1. n % Width = n
      BY <1>1
    <3>2. (n + Width) % Width = n % Width
      BY <1>1
    <3> QED
      BY <3>1, <3>2
  <2> QED
    BY <2>1, <2>2, <2>3, <2>4 DEF Container!Wrap
<1> QED
  BY <1>1, <1>2, <1>3

LEMMA ArrayResizes ==
  ASSUME NEW a, NEW xs, ArrayHas(a, xs), NEW n \in 0 .. MaxSize
  PROVE  \E ys : /\ ArrayHas(Container!ArraySetSize(a, n), ys)
                 /\ Len(ys) = n
                 /\ \A i \in DOMAIN xs \cap DOMAIN ys : ys[i] = xs[i]
<1> DEFINE m == Len(xs)
<1>1. PICK d \in Seq(Slots) : a = Block(m, d) /\ Len(d) <= MaxSize /\ Begins(d, xs)
  BY DEF ArrayHas
<1>2. /\ m \in Nat /\ n \in Nat /\ n <= MaxSize /\ MaxSize \in Nat
      /\ m <= MaxSize /\ Len(d) \in Nat /\ m <= Len(d)
  BY <1>1, ArrayReads, LenProperties, ContainerConstants DEF Begins
<1> DEFINE bytes == Container!SizeDifference(a, n)
<1>3. n * ItemLen = LenOf(n) /\ a.len = LenOf(m)
  BY <1>1, <1>2, Times, BlockFields
<1>4. Container!Wrap(LenOf(m) + bytes) = LenOf(n)
  <2>1. LenOf(n) \in 0 .. Width - 1 /\ LenOf(m) \in 0 .. Width - 1
    BY <1>2, NoWrap
  <2> QED
    BY <1>3, <2>1, WrapBack DEF Container!SizeDifference
<1> HIDE DEF bytes
<1>5. PICK e \in Seq(Slots) :
        /\ Container!Expand(Block(m, d), bytes) = Block(m, e)
        /\ Len(e) = IF n > Len(d) THEN n ELSE Len(d)
        /\ \A j \in 1 .. Len(d) : e[j] = d[j]
  BY <1>1, <1>2, <1>4, Expands
<1>6. n <= Len(e) /\ Len(e) <= MaxSize /\ Len(e) \in Nat
  BY <1>1, <1>2, <1>5
<1>7. Container!ArraySetSize(a, n) = Block(n, e)
  <2>1. Container!Wrap(n * ItemLen) = LenOf(n)
    BY <1>2, <1>3, NoWrap
  <2>2. Container!ArraySetSize(a, n)
          = [Container!Expand(a, bytes) EXCEPT !.len = Container!Wrap(n * ItemLen)]
    BY DEF Container!ArraySetSize, bytes
  <2>3. Container!ArraySetSize(a, n) = Sized(m, e, LenOf(n))
    BY <1>1, <1>5, <2>1, <2>2 DEF Sized
  <2> QED
    BY <2>3, SizedIs
<1> DEFINE ys == SubSeq(e, 1, n)
<1>8. ys \in Seq(Slots) /\ Len(ys) = n /\ \A j \in 1 .. n : ys[j] = e[j]
  <2>1. \A j \in 1 .. n : e[j] \in Slots
    BY <1>2, <1>6, ElementOfSeq
  <2>2. /\ SubSeq(e, 1, n) \in Seq(Slots)
        /\ Len(SubSeq(e, 1, n)) = IF 1 <= n THEN n - 1 + 1 ELSE 0
        /\ \A j \in 1 .. n - 1 + 1 : SubSeq(e, 1, n)[j] = e[1 + j - 1]
    BY <1>2, <2>1, SubSeqProperties
  <2> HIDE DEF ys
  <2> QED
    BY <1>2, <2>2 DEF ys
<1> HIDE DEF ys
<1>9. ArrayHas(Container!ArraySetSize(a, n), ys)
  <2>1. Begins(e, ys)
    BY <1>6, <1>8 DEF Begins
  <2> QED
    BY <1>6, <1>7, <1>8, <2>1 DEF ArrayHas
<1>10. \A i \in DOMAIN xs \cap DOMAIN ys : ys[i] = xs[i]
  <2>1. DOMAIN xs = 1 .. m /\ DOMAIN ys = 1 .. n
    BY <1>8, LenProperties DEF ArrayHas
  <2>2. \A i \in 1 .. m : i \in 1 .. Len(d) /\ d[i] = xs[i]
    BY <1>1, <1>2 DEF Begins
  <2> QED
    BY <1>5, <1>8, <2>1, <2>2
<1> QED
  BY <1>8, <1>9, <1>10

LEMMA ArrayReserves ==
  ASSUME NEW a, NEW xs, ArrayHas(a, xs), NEW n \in 0 .. MaxSize
  PROVE  ArrayHas(Container!ArraySetCapacity(a, n), xs)
<1> DEFINE m == Len(xs)
<1>1. /\ m \in Nat /\ n \in Nat /\ n <= MaxSize /\ MaxSize \in Nat
  BY ArrayReads, ContainerConstants
<1>2. n * ItemLen = LenOf(n) /\ a.len = LenOf(m)
  <2>1. n * ItemLen = LenOf(n)
    BY <1>1, Times
  <2>2. PICK d \in Seq(Slots) : a = Block(m, d)
    BY DEF ArrayHas
  <2> QED
    BY <2>1, <2>2, BlockFields
<1>3. CASE ~(n * ItemLen > a.len)
  BY <1>3 DEF Container!ArraySetCapacity
<1>4. CASE n * ItemLen > a.len
  <2> DEFINE k == n - m
  <2>1. n > m
    <3>1. LenOf(n) <= LenOf(m) <=> n <= m
      BY <1>1, Times
    <3>2. LenOf(n) \in Nat /\ LenOf(m) \in Nat
      BY <1>1, Times
    <3> QED
      BY <1>1, <1>2, <1>4, <3>1, <3>2
  <2>2. k \in Nat /\ m + k = n
    BY <1>1, <2>1
  <2>3. n * ItemLen - a.len = LenOf(k)
    <3>1. LenOf(m) + LenOf(k) = LenOf(m + k)
      BY <1>1, <2>2, LenSum
    <3>2. LenOf(m) \in Nat /\ LenOf(k) \in Nat
      BY <1>1, <2>2, Times
    <3> QED
      BY <1>2, <2>2, <3>1, <3>2
  <2> HIDE DEF k
  <2>4. m + k <= MaxSize
    BY <1>1, <2>2
  <2>5. PICK e \in Seq(Slots) :
          /\ Container!Expand(a, LenOf(k)) = Block(m, e)
          /\ m + k <= Len(e) /\ Len(e) <= MaxSize
          /\ Begins(e, xs)
    BY <2>2, <2>4, Room
  <2>6. Container!ArraySetCapacity(a, n) = Block(m, e)
    BY <1>4, <2>3, <2>5 DEF Container!ArraySetCapacity
  <2> QED
    BY <2>5, <2>6 DEF ArrayHas
<1> QED
  BY <1>3, <1>4

LEMMA ArrayNew == ArrayHas(Container!NewArray, <<>>)
<1>1. LenOf(0) = 0
  BY ContainerConstants DEF LenOf
<1>2. <<>> \in Seq(Slots) /\ Len(<<>>) = 0
  OBVIOUS
<1>3. Container!NewArray = Block(0, <<>>)
  BY <1>1, <1>2 DEF Container!NewArray, Block
<1>4. Begins(<<>>, <<>>)
  BY <1>2 DEF Begins
<1>5. 0 <= MaxSize
  BY ContainerConstants
<1> DEFINE none == <<>>
<1>6. none \in Seq(Slots) /\ Len(none) = 0 /\ Len(none) <= MaxSize
  BY <1>2, <1>5
<1>7. Container!NewArray = Block(Len(none), none) /\ Begins(none, none)
  BY <1>3, <1>4, <1>6
<1> HIDE DEF none
<1>8. ArrayHas(Container!NewArray, none)
  BY <1>6, <1>7 DEF ArrayHas
<1> QED
  BY <1>8 DEF none

LEMMA ArrayTyped ==
  ASSUME NEW a, NEW xs, ArrayHas(a, xs)
  PROVE  /\ a.len \in 0 .. a.alloc /\ a.alloc \in 0 .. Width - 1
         /\ a.len % ItemLen = 0 /\ a.alloc = ItemLen * Len(a.data)
         /\ a.data \in Seq(Things \cup {Zero})
<1>1. PICK d \in Seq(Slots) : a = Block(Len(xs), d) /\ Len(d) <= MaxSize /\ Begins(d, xs)
  BY DEF ArrayHas
<1>2. a.len = LenOf(Len(xs)) /\ a.alloc = LenOf(Len(d)) /\ a.data = d
  BY <1>1, BlockFields
<1>3. Len(xs) \in Nat /\ Len(d) \in Nat /\ Len(xs) <= Len(d)
  BY <1>1, ArrayReads, LenProperties DEF Begins
<1>4. LenOf(Len(xs)) \in Nat /\ LenOf(Len(d)) \in Nat /\ LenOf(Len(xs)) <= LenOf(Len(d))
  BY <1>3, Times
<1>5. LenOf(Len(d)) \in 0 .. Width - 1
  BY <1>1, <1>3, NoWrap
<1>6. LenOf(Len(xs)) % ItemLen = 0
  BY <1>3, Quotient
<1> QED
  BY <1>2, <1>4, <1>5, <1>6 DEF LenOf, Slots

-----------------------------------------------------------------------------
(* GPtrArray: what a client sees are the first size slots.                 *)
Pointers == Things \cup {Nil, Garbage}
PtrBlock(n, d) == [size |-> n, alloc |-> Len(d), data |-> d]
PtrChanged(n, d, e, m) == [PtrBlock(n, d) EXCEPT !.data = e, !.size = m]
PtrSized(n, d, m) == [PtrBlock(n, d) EXCEPT !.size = m]
PtrGrown(n, d, m, e) == [PtrBlock(n, d) EXCEPT !.alloc = m, !.data = e]

PtrHas(a, xs) ==
  /\ xs \in Seq(Pointers)
  /\ \E d \in Seq(Pointers) : a = PtrBlock(Len(xs), d) /\ Begins(d, xs)

LEMMA PtrFields ==
  ASSUME NEW n, NEW d
  PROVE  PtrBlock(n, d).size = n /\ PtrBlock(n, d).alloc = Len(d) /\ PtrBlock(n, d).data = d
BY DEF PtrBlock

LEMMA PtrChangedIs ==
  ASSUME NEW n, NEW d, NEW e, Len(e) = Len(d), NEW m
  PROVE  PtrChanged(n, d, e, m) = PtrBlock(m, e)
<1> DEFINE r == PtrChanged(n, d, e, m)
<1>1. r = [x \in {"size", "alloc", "data"} |-> r[x]]
  BY DEF PtrBlock, PtrChanged
<1>2. r.size = m /\ r.alloc = Len(d) /\ r.data = e
  BY DEF PtrBlock, PtrChanged
<1> HIDE DEF r
<1>3. r = [size |-> r.size, alloc |-> r.alloc, data |-> r.data]
  BY <1>1
<1>4. r = [size |-> m, alloc |-> Len(d), data |-> e]
  BY <1>2, <1>3
<1> QED
  BY <1>4 DEF r, PtrBlock

LEMMA PtrSizedIs ==
  ASSUME NEW n, NEW d, NEW m
  PROVE  PtrSized(n, d, m) = PtrBlock(m, d)
<1> DEFINE r == PtrSized(n, d, m)
<1>1. r = [x \in {"size", "alloc", "data"} |-> r[x]]
  BY DEF PtrBlock, PtrSized
<1>2. r.size = m /\ r.alloc = Len(d) /\ r.data = d
  BY DEF PtrBlock, PtrSized
<1> HIDE DEF r
<1>3. r = [size |-> r.size, alloc |-> r.alloc, data |-> r.data]
  BY <1>1
<1>4. r = [size |-> m, alloc |-> Len(d), data |-> d]
  BY <1>2, <1>3
<1> QED
  BY <1>4 DEF r, PtrBlock

LEMMA PtrGrownIs ==
  ASSUME NEW n, NEW d, NEW m, NEW e, Len(e) = m
  PROVE  PtrGrown(n, d, m, e) = PtrBlock(n, e)
<1> DEFINE r == PtrGrown(n, d, m, e)
<1>1. r = [x \in {"size", "alloc", "data"} |-> r[x]]
  BY DEF PtrBlock, PtrGrown
<1>2. r.size = n /\ r.alloc = m /\ r.data = e
  BY DEF PtrBlock, PtrGrown
<1> HIDE DEF r
<1>3. r = [size |-> r.size, alloc |-> r.alloc, data |-> r.data]
  BY <1>1
<1>4. r = [size |-> n, alloc |-> m, data |-> e]
  BY <1>2, <1>3
<1> QED
  BY <1>4 DEF r, PtrBlock

LEMMA PtrReads ==
  ASSUME NEW a, NEW xs, PtrHas(a, xs)
  PROVE  Container!PtrItems(a) = xs /\ a.size = Len(xs) /\ Len(xs) \in Nat
<1>1. PICK d \in Seq(Pointers) : a = PtrBlock(Len(xs), d) /\ Begins(d, xs)
  BY DEF PtrHas
<1>2. Len(xs) \in Nat /\ xs \in Seq(Pointers)
  BY LenProperties DEF PtrHas
<1>3. a.size = Len(xs) /\ a.data = d
  BY <1>1, PtrFields
<1>4. SubSeq(d, 1, Len(xs)) = xs
  BY <1>1, <1>2, BeginsIs
<1> QED
  BY <1>2, <1>3, <1>4 DEF Container!PtrItems

(* g_ptr_array_maybe_expand: room for k more; a first block is zeroed.     *)
LEMMA PtrRoom ==
  ASSUME NEW a, NEW xs, PtrHas(a, xs), NEW k \in Nat
  PROVE  \E e \in Seq(Pointers) :
           /\ Container!PtrExpand(a, k) = PtrBlock(Len(xs), e)
           /\ Len(xs) + k <= Len(e)
           /\ Begins(e, xs)
           /\ a.alloc = 0 => \A j \in 1 .. Len(e) : e[j] = Nil
<1>1. PICK d \in Seq(Pointers) : a = PtrBlock(Len(xs), d) /\ Begins(d, xs)
  BY DEF PtrHas
<1> DEFINE n == Len(xs)
<1>2. n \in Nat /\ Len(d) \in Nat /\ n <= Len(d)
  BY <1>1, LenProperties DEF Begins, PtrHas
<1>3. a.size = n /\ a.alloc = Len(d) /\ a.data = d
  BY <1>1, PtrFields
<1>4. CASE n + k <= Len(d)
  <2>1. Container!PtrExpand(a, k) = a
    BY <1>2, <1>3, <1>4 DEF Container!PtrExpand, Container!PtrNeedsMemory
  <2> QED
    BY <1>1, <1>2, <1>3, <1>4, <2>1
<1>5. CASE ~(n + k <= Len(d))
  <2> DEFINE more == n + k - Len(d)
             z == Container!NewSlots(a, more)
             e == d \o z
  <2>1. more \in Nat /\ Len(d) + more = n + k
    BY <1>2, <1>5
  <2>2. z \in Seq(Pointers) /\ Len(z) = more /\ (a.alloc = 0 => \A j \in 1 .. more : z[j] = Nil)
    <3> HIDE DEF more
    <3>1. z = [j \in 1 .. more |-> IF a.alloc = 0 \/ j <= more \div PointerSize THEN Nil ELSE Garbage]
      BY DEF Container!NewSlots
    <3> HIDE DEF z
    <3>2. \A j \in 1 .. more : z[j] \in Pointers
      BY <3>1 DEF Pointers
    <3>3. z \in Seq(Pointers) /\ Len(z) = more
      BY <2>1, <3>1, <3>2
    <3>4. a.alloc = 0 => \A j \in 1 .. more : z[j] = Nil
      BY <3>1
    <3> QED
      BY <3>3, <3>4
  <2> HIDE DEF z
  <2>3. /\ d \o z \in Seq(Pointers)
        /\ Len(d \o z) = Len(d) + Len(z)
        /\ \A j \in 1 .. Len(d) + Len(z) :
             (d \o z)[j] = IF j <= Len(d) THEN d[j] ELSE z[j - Len(d)]
    BY <2>2, ConcatProperties
  <2>4. Container!PtrNeedsMemory(a, k)
    BY <1>2, <1>3, <1>5 DEF Container!PtrNeedsMemory
  <2>5. Container!PtrExpand(a, k) = PtrGrown(n, d, n + k, e)
    BY <1>1, <1>3, <2>4 DEF Container!PtrExpand, PtrGrown, z
  <2>6. Len(e) = n + k /\ e \in Seq(Pointers)
    BY <2>1, <2>2, <2>3
  <2> HIDE DEF more, e
  <2>7. PtrGrown(n, d, n + k, e) = PtrBlock(n, e)
    <3> DEFINE m == n + k
    <3> HIDE DEF m
    <3>1. PtrGrown(n, d, m, e) = PtrBlock(n, e)
      BY <2>6, PtrGrownIs DEF m
    <3> QED
      BY <3>1 DEF m
  <2>8. Begins(e, xs)
    <3>1. \A j \in 1 .. n : j \in 1 .. Len(d) + Len(z) /\ j <= Len(d)
      BY <1>2, <2>1, <2>2
    <3>2. \A j \in 1 .. n : e[j] = xs[j]
      BY <1>1, <2>3, <3>1 DEF Begins, e
    <3> QED
      BY <1>2, <2>6, <3>2 DEF Begins
  <2>9. ASSUME a.alloc = 0, NEW j \in 1 .. Len(e) PROVE e[j] = Nil
    <3>1. Len(d) = 0 /\ j \in 1 .. Len(d) + Len(z) /\ ~(j <= Len(d)) /\ j - Len(d) \in 1 .. more
      BY <1>2, <1>3, <2>1, <2>2, <2>6, <2>9
    <3>2. e[j] = z[j - Len(d)]
      BY <2>3, <3>1 DEF e
    <3> QED
      BY <2>2, <2>9, <3>1, <3>2
  <2>10. n + k <= Len(e)
    BY <1>2, <2>6
  <2> QED
    BY <2>5, <2>6, <2>7, <2>8, <2>9, <2>10
<1> QED
  BY <1>4, <1>5

LEMMA PtrInserts ==
  ASSUME NEW a, NEW xs, PtrHas(a, xs), NEW i \in 0 .. Len(xs), NEW x \in Pointers
  PROVE  PtrHas(Container!PtrInsert(a, i, x), InsertAt(xs, i + 1, x))
<1> DEFINE n == Len(xs)
           p == i + 1
           m == n + 1
<1>1. n \in Nat /\ xs \in Seq(Pointers) /\ p \in 1 .. m /\ a.size = n /\ m \in Nat
  <2>1. n \in Nat /\ a.size = n
    BY PtrReads
  <2>2. p \in 1 .. m /\ m \in Nat
    BY <2>1
  <2> QED
    BY <2>1, <2>2 DEF PtrHas
<1>2. PICK e \in Seq(Pointers) :
        /\ Container!PtrExpand(a, 1) = PtrBlock(n, e)
        /\ m <= Len(e)
        /\ Begins(e, xs)
  BY PtrRoom
<1>3. Len(e) \in Nat /\ DOMAIN e = 1 .. Len(e)
  BY LenProperties
<1> DEFINE f == [j \in 1 .. Len(e) |-> CASE j = p -> x
                                         [] p < j /\ j <= m -> e[j - 1]
                                         [] OTHER -> e[j]]
<1> HIDE DEF f, p, m
<1>4. ASSUME NEW j \in 1 .. Len(e)
      PROVE  f[j] = IF j = p THEN x ELSE IF p < j /\ j <= m THEN e[j - 1] ELSE e[j]
  <2>1. f[j] = CASE j = p -> x [] p < j /\ j <= m -> e[j - 1] [] OTHER -> e[j]
    BY DEF f
  <2>2. ~(j = p /\ p < j)
    BY <1>1
  <2> QED
    BY <2>1, <2>2
<1>5. ASSUME NEW j \in 1 .. Len(e) PROVE f[j] \in Pointers
  <2>1. CASE j = p
    BY <1>4, <2>1
  <2>2. CASE j # p /\ p < j /\ j <= m
    <3>1. j - 1 \in 1 .. Len(e)
      BY <1>1, <1>2, <1>3, <2>2
    <3> QED
      BY <1>4, <2>2, <3>1, ElementOfSeq
  <2>3. CASE j # p /\ ~(p < j /\ j <= m)
    BY <1>4, <2>3, ElementOfSeq
  <2> QED
    BY <2>1, <2>2, <2>3
<1>6. f \in Seq(Pointers) /\ Len(f) = Len(e)
  BY <1>3, <1>5 DEF f
<1>7. Container!PtrInsert(a, i, x) = PtrBlock(m, f)
  <2> DEFINE q == Container!PtrExpand(a, 1)
  <2>1. q = PtrBlock(n, e) /\ q.data = e /\ q.size = n
    BY <1>2, PtrFields
  <2>2. Container!PtrInsert(a, i, x)
          = [q EXCEPT !.data = [j \in DOMAIN q.data |->
                                  CASE j = i + 1 -> x
                                    [] i + 1 < j /\ j <= a.size + 1 -> q.data[j - 1]
                                    [] OTHER -> q.data[j]],
                      !.size = q.size + 1]
    BY DEF Container!PtrInsert
  <2> HIDE DEF q
  <2>3. [j \in DOMAIN q.data |-> CASE j = i + 1 -> x
                                   [] i + 1 < j /\ j <= a.size + 1 -> q.data[j - 1]
                                   [] OTHER -> q.data[j]] = f
    BY <1>1, <1>3, <2>1 DEF f, p, m
  <2>4. Container!PtrInsert(a, i, x) = PtrChanged(n, e, f, m)
    BY <2>1, <2>2, <2>3 DEF PtrChanged, m
  <2>5. PtrChanged(n, e, f, m) = PtrBlock(m, f)
    BY <1>6, PtrChangedIs
  <2> QED
    BY <2>4, <2>5
<1>8. ASSUME NEW j \in 1 .. m
      PROVE  f[j] = IF j < p THEN e[j] ELSE IF j = p THEN x ELSE e[j - 1]
  <2>1. j \in 1 .. Len(e)
    BY <1>1, <1>2, <1>3
  <2>2. j < p => j # p /\ ~(p < j)
    BY <1>1
  <2>3. ~(j < p) /\ j # p => p < j /\ j <= m
    BY <1>1
  <2> QED
    BY <1>4, <2>1, <2>2, <2>3
<1>9. Len(f) \in Nat /\ n + 1 <= Len(f)
  BY <1>2, <1>3, <1>6 DEF m
<1>10. p \in 1 .. n + 1
  BY <1>1 DEF m
<1>11. /\ InsertAt(xs, p, x) \in Seq(Pointers) /\ Len(InsertAt(xs, p, x)) = m
       /\ Begins(f, InsertAt(xs, p, x))
  BY <1>1, <1>2, <1>8, <1>9, <1>10, BeginsInsert DEF m
<1>12. PtrHas(Container!PtrInsert(a, i, x), InsertAt(xs, p, x))
  BY <1>6, <1>7, <1>11 DEF PtrHas
<1> QED
  BY <1>12 DEF p

LEMMA PtrRemoves ==
  ASSUME NEW a, NEW xs, PtrHas(a, xs), NEW i \in 0 .. Len(xs) - 1
  PROVE  PtrHas(Container!PtrRemove(a, i), RemoveAt(xs, i + 1))
<1> DEFINE n == Len(xs)
           p == i + 1
           m == n - 1
<1>1. n \in Nat /\ xs \in Seq(Pointers) /\ p \in 1 .. n /\ a.size = n /\ m \in Nat /\ i \in Nat
  <2>1. n \in Nat /\ a.size = n
    BY PtrReads
  <2>2. p \in 1 .. n /\ m \in Nat /\ i \in Nat
    BY <2>1
  <2> QED
    BY <2>1, <2>2 DEF PtrHas
<1>2. PICK d \in Seq(Pointers) : a = PtrBlock(n, d) /\ Begins(d, xs)
  BY DEF PtrHas
<1>3. Len(d) \in Nat /\ DOMAIN d = 1 .. Len(d) /\ n <= Len(d)
  BY <1>2, LenProperties DEF Begins
<1> DEFINE f == [j \in 1 .. Len(d) |-> CASE i < j /\ j < n -> d[j + 1]
                                         [] j = n -> Nil
                                         [] OTHER -> d[j]]
<1> HIDE DEF f, p, m
<1>4. ASSUME NEW j \in 1 .. Len(d)
      PROVE  f[j] = IF i < j /\ j < n THEN d[j + 1] ELSE IF j = n THEN Nil ELSE d[j]
  <2>1. f[j] = CASE i < j /\ j < n -> d[j + 1] [] j = n -> Nil [] OTHER -> d[j]
    BY DEF f
  <2>2. ~(j = n /\ j < n)
    BY <1>1
  <2> QED
    BY <2>1, <2>2
<1>5. ASSUME NEW j \in 1 .. Len(d) PROVE f[j] \in Pointers
  <2>1. CASE i < j /\ j < n
    <3>1. j + 1 \in 1 .. Len(d)
      BY <1>1, <1>3, <2>1
    <3> QED
      BY <1>4, <2>1, <3>1, ElementOfSeq
  <2>2. CASE ~(i < j /\ j < n)
    BY <1>4, <2>2, ElementOfSeq DEF Pointers
  <2> QED
    BY <2>1, <2>2
<1>6. f \in Seq(Pointers) /\ Len(f) = Len(d)
  BY <1>3, <1>5 DEF f
<1>7. Container!PtrRemove(a, i) = PtrBlock(m, f)
  <2>1. a.data = d
    BY <1>2, PtrFields
  <2>2. Container!PtrRemove(a, i)
          = [a EXCEPT !.data = [j \in DOMAIN a.data |->
                                  CASE i < j /\ j < a.size -> a.data[j + 1]
                                    [] j = a.size -> Nil
                                    [] OTHER -> a.data[j]],
                      !.size = a.size - 1]
    BY DEF Container!PtrRemove
  <2>3. [j \in DOMAIN a.data |-> CASE i < j /\ j < a.size -> a.data[j + 1]
                                   [] j = a.size -> Nil
                                   [] OTHER -> a.data[j]] = f
    BY <1>1, <1>3, <2>1 DEF f
  <2>4. Container!PtrRemove(a, i) = PtrChanged(n, d, f, m)
    BY <1>1, <1>2, <2>2, <2>3 DEF PtrChanged, m
  <2>5. PtrChanged(n, d, f, m) = PtrBlock(m, f)
    BY <1>6, PtrChangedIs
  <2> QED
    BY <2>4, <2>5
<1>8. ASSUME NEW j \in 1 .. n - 1
      PROVE  f[j] = IF j < p THEN d[j] ELSE d[j + 1]
  <2>1. j \in 1 .. Len(d) /\ j < n /\ j # n
    BY <1>1, <1>3
  <2>2. i < j <=> ~(j < p)
    BY <1>1 DEF p
  <2> QED
    BY <1>4, <2>1, <2>2
<1>9. Len(f) \in Nat /\ n - 1 <= Len(f)
  BY <1>1, <1>3, <1>6
<1>10. /\ RemoveAt(xs, p) \in Seq(Pointers) /\ Len(RemoveAt(xs, p)) = m
       /\ Begins(f, RemoveAt(xs, p))
  BY <1>1, <1>2, <1>8, <1>9, BeginsRemove DEF m
<1>11. PtrHas(Container!PtrRemove(a, i), RemoveAt(xs, p))
  BY <1>6, <1>7, <1>10 DEF PtrHas
<1> QED
  BY <1>11 DEF p

LEMMA PtrSets ==
  ASSUME NEW a, NEW xs, PtrHas(a, xs), NEW i \in 0 .. Len(xs) - 1, NEW x \in Pointers
  PROVE  PtrHas(Container!PtrSet(a, i, x), [xs EXCEPT ![i + 1] = x])
<1> DEFINE n == Len(xs)
           p == i + 1
<1>1. n \in Nat /\ xs \in Seq(Pointers) /\ p \in 1 .. n
  BY PtrReads DEF PtrHas
<1>2. PICK d \in Seq(Pointers) : a = PtrBlock(n, d) /\ Begins(d, xs)
  BY DEF PtrHas
<1>3. Len(d) \in Nat /\ n <= Len(d) /\ p \in 1 .. Len(d)
  BY <1>1, <1>2, LenProperties DEF Begins
<1> DEFINE f == [d EXCEPT ![p] = x]
<1> HIDE DEF p
<1>4. /\ f \in Seq(Pointers)
      /\ Len(f) = Len(d)
      /\ \A j \in 1 .. Len(d) : f[j] = IF j = p THEN x ELSE d[j]
  BY <1>3, ExceptSeq
<1> HIDE DEF f
<1>5. Container!PtrSet(a, i, x) = PtrBlock(n, f)
  <2>1. a.data = d
    BY <1>2, PtrFields
  <2>2. Container!PtrSet(a, i, x) = [a EXCEPT !.data = [a.data EXCEPT ![p] = x]]
    BY DEF Container!PtrSet, p
  <2>3. [PtrBlock(n, d) EXCEPT !.data = f] = PtrBlock(n, f)
    BY <1>4 DEF PtrBlock
  <2> QED
    BY <1>2, <2>1, <2>2, <2>3 DEF f
<1>6. \A j \in 1 .. n : f[j] = IF j = p THEN x ELSE d[j]
  BY <1>1, <1>3, <1>4
<1>7. Len(f) \in Nat /\ n <= Len(f)
  BY <1>3, <1>4
<1>8. /\ [xs EXCEPT ![p] = x] \in Seq(Pointers) /\ Len([xs EXCEPT ![p] = x]) = n
      /\ Begins(f, [xs EXCEPT ![p] = x])
  BY <1>1, <1>2, <1>6, <1>7, BeginsSet
<1>9. PtrHas(Container!PtrSet(a, i, x), [xs EXCEPT ![p] = x])
  BY <1>4, <1>5, <1>8 DEF PtrHas
<1> QED
  BY <1>9 DEF p

LEMMA PtrAppends ==
  ASSUME NEW a, NEW xs, PtrHas(a, xs), NEW ys \in Seq(Pointers)
  PROVE  PtrHas(Container!PtrAppend(a, ys), xs \o ys)
<1> DEFINE n == Len(xs)
           k == Len(ys)
<1>1. n \in Nat /\ xs \in Seq(Pointers) /\ k \in Nat /\ a.size = n
  BY PtrReads, LenProperties DEF PtrHas
<1>2. PICK e \in Seq(Pointers) :
        /\ Container!PtrExpand(a, k) = PtrBlock(n, e)
        /\ n + k <= Len(e)
        /\ Begins(e, xs)
  BY <1>1, PtrRoom
<1>3. Len(e) \in Nat /\ DOMAIN e = 1 .. Len(e)
  BY LenProperties
<1> DEFINE f == [j \in 1 .. Len(e) |-> IF n < j /\ j <= n + k THEN ys[j - n] ELSE e[j]]
<1> HIDE DEF f
<1>4. \A j \in 1 .. Len(e) : f[j] = IF n < j /\ j <= n + k THEN ys[j - n] ELSE e[j]
  BY DEF f
<1>5. ASSUME NEW j \in 1 .. Len(e) PROVE f[j] \in Pointers
  <2>1. CASE n < j /\ j <= n + k
    <3>1. j - n \in 1 .. k
      BY <1>1, <2>1
    <3> QED
      BY <1>4, <2>1, <3>1, ElementOfSeq
  <2>2. CASE ~(n < j /\ j <= n + k)
    BY <1>4, <2>2, ElementOfSeq
  <2> QED
    BY <2>1, <2>2
<1>6. f \in Seq(Pointers) /\ Len(f) = Len(e)
  BY <1>3, <1>5 DEF f
<1>7. Container!PtrAppend(a, ys) = PtrBlock(n + k, f)
  <2> DEFINE q == Container!PtrExpand(a, Len(ys))
  <2>1. q = PtrBlock(n, e) /\ q.data = e /\ q.size = n
    BY <1>2, PtrFields
  <2>2. Container!PtrAppend(a, ys)
          = [q EXCEPT !.data = [j \in DOMAIN q.data |->
                                  IF a.size < j /\ j <= a.size + Len(ys)
                                  THEN ys[j - a.size] ELSE q.data[j]],
                      !.size = q.size + Len(ys)]
    BY DEF Container!PtrAppend
  <2> HIDE DEF q
  <2>3. [j \in DOMAIN q.data |-> IF a.size < j /\ j <= a.size + Len(ys)
                                 THEN ys[j - a.size] ELSE q.data[j]] = f
    BY <1>1, <1>3, <2>1 DEF f
  <2> DEFINE m == n + k
  <2>4. Container!PtrAppend(a, ys) = PtrChanged(n, e, f, m)
    BY <2>1, <2>2, <2>3 DEF PtrChanged
  <2> HIDE DEF m
  <2>5. PtrChanged(n, e, f, m) = PtrBlock(m, f)
    BY <1>6, PtrChangedIs
  <2> QED
    BY <2>4, <2>5 DEF m
<1>8. \A j \in 1 .. n + k : f[j] = IF j <= n THEN e[j] ELSE ys[j - n]
  <2>1. \A j \in 1 .. n + k : j \in 1 .. Len(e) /\ (n < j <=> ~(j <= n)) /\ j <= n + k
    BY <1>1, <1>2, <1>3
  <2> QED
    BY <1>4, <2>1
<1>9. Len(f) \in Nat /\ n + k <= Len(f)
  BY <1>2, <1>3, <1>6
<1>10. /\ xs \o ys \in Seq(Pointers) /\ Len(xs \o ys) = n + k
       /\ Begins(f, xs \o ys)
  BY <1>1, <1>2, <1>8, <1>9, BeginsAppend
<1> QED
  BY <1>6, <1>7, <1>10 DEF PtrHas

LEMMA PtrPrepends ==
  ASSUME NEW a, NEW xs, PtrHas(a, xs), NEW ys \in Seq(Pointers)
  PROVE  PtrHas(Container!PtrPrepend(a, ys), ys \o xs)
<1> DEFINE n == Len(xs)
           k == Len(ys)
<1>1. n \in Nat /\ xs \in Seq(Pointers) /\ k \in Nat /\ a.size = n
  BY PtrReads, LenProperties DEF PtrHas
<1>2. PICK e \in Seq(Pointers) :
        /\ Container!PtrExpand(a, k) = PtrBlock(n, e)
        /\ n + k <= Len(e)
        /\ Begins(e, xs)
  BY <1>1, PtrRoom
<1>3. Len(e) \in Nat /\ DOMAIN e = 1 .. Len(e)
  BY LenProperties
<1> DEFINE f == [j \in 1 .. Len(e) |-> CASE j <= k -> ys[j]
                                         [] k < j /\ j <= k + n -> e[j - k]
                                         [] OTHER -> e[j]]
<1> HIDE DEF f
<1>4. ASSUME NEW j \in 1 .. Len(e)
      PROVE  f[j] = IF j <= k THEN ys[j] ELSE IF j <= k + n THEN e[j - k] ELSE e[j]
  <2>1. f[j] = CASE j <= k -> ys[j] [] k < j /\ j <= k + n -> e[j - k] [] OTHER -> e[j]
    BY DEF f
  <2>2. k < j <=> ~(j <= k)
    BY <1>1
  <2> QED
    BY <2>1, <2>2
<1>5. ASSUME NEW j \in 1 .. Len(e) PROVE f[j] \in Pointers
  <2>1. CASE j <= k
    <3>1. j \in 1 .. k
      BY <1>1, <2>1
    <3> QED
      BY <1>4, <2>1, <3>1, ElementOfSeq
  <2>2. CASE ~(j <= k) /\ j <= k + n
    <3>1. j - k \in 1 .. Len(e)
      BY <1>1, <1>3, <2>2
    <3> QED
      BY <1>4, <2>2, <3>1, ElementOfSeq
  <2>3. CASE ~(j <= k) /\ ~(j <= k + n)
    BY <1>4, <2>3, ElementOfSeq
  <2> QED
    BY <2>1, <2>2, <2>3
<1>6. f \in Seq(Pointers) /\ Len(f) = Len(e)
  BY <1>3, <1>5 DEF f
<1>7. Container!PtrPrepend(a, ys) = PtrBlock(k + n, f)
  <2> DEFINE q == Container!PtrExpand(a, Len(ys))
  <2>1. q = PtrBlock(n, e) /\ q.data = e /\ q.size = n
    BY <1>2, PtrFields
  <2>2. Container!PtrPrepend(a, ys)
          = [q EXCEPT !.data = [j \in DOMAIN q.data |->
                                  CASE j <= Len(ys) -> ys[j]
                                    [] Len(ys) < j /\ j <= Len(ys) + a.size -> q.data[j - Len(ys)]
                                    [] OTHER -> q.data[j]],
                      !.size = q.size + Len(ys)]
    BY DEF Container!PtrPrepend
  <2> HIDE DEF q
  <2>3. [j \in DOMAIN q.data |-> CASE j <= Len(ys) -> ys[j]
                                   [] Len(ys) < j /\ j <= Len(ys) + a.size -> q.data[j - Len(ys)]
                                   [] OTHER -> q.data[j]] = f
    BY <1>1, <1>3, <2>1 DEF f
  <2> DEFINE m == n + k
  <2>4. Container!PtrPrepend(a, ys) = PtrChanged(n, e, f, m)
    BY <2>1, <2>2, <2>3 DEF PtrChanged
  <2>5. m = k + n
    BY <1>1
  <2> HIDE DEF m
  <2>6. PtrChanged(n, e, f, m) = PtrBlock(m, f)
    BY <1>6, PtrChangedIs
  <2> QED
    BY <2>4, <2>5, <2>6
<1>8. \A j \in 1 .. k + n : f[j] = IF j <= k THEN ys[j] ELSE e[j - k]
  <2>1. \A j \in 1 .. k + n : j \in 1 .. Len(e) /\ j <= k + n
    BY <1>1, <1>2, <1>3
  <2> QED
    BY <1>4, <2>1
<1>9. Len(f) \in Nat /\ k + n <= Len(f)
  BY <1>1, <1>2, <1>3, <1>6
<1>10. /\ ys \o xs \in Seq(Pointers) /\ Len(ys \o xs) = k + n
       /\ Begins(f, ys \o xs)
  BY <1>1, <1>2, <1>8, <1>9, BeginsPrepend
<1> QED
  BY <1>6, <1>7, <1>10 DEF PtrHas

LEMMA PtrReserves ==
  ASSUME NEW a, NEW xs, PtrHas(a, xs), NEW n \in Nat
  PROVE  PtrHas(Container!PtrSetCapacity(a, n), xs)
<1>1. a.size = Len(xs) /\ Len(xs) \in Nat
  BY PtrReads
<1>2. CASE n > a.size
  <2> DEFINE k == n - a.size
  <2>1. k \in Nat
    BY <1>1, <1>2
  <2> HIDE DEF k
  <2>2. PICK e \in Seq(Pointers) : Container!PtrExpand(a, k) = PtrBlock(Len(xs), e) /\ Begins(e, xs)
    BY <2>1, PtrRoom
  <2>3. Container!PtrSetCapacity(a, n) = PtrBlock(Len(xs), e)
    BY <1>2, <2>2 DEF Container!PtrSetCapacity, k
  <2> QED
    BY <2>2, <2>3 DEF PtrHas
<1>3. CASE ~(n > a.size)
  BY <1>3 DEF Container!PtrSetCapacity
<1> QED
  BY <1>2, <1>3

(* A first allocation is cleared, and a shorter array shows no new slots.  *)
NothingNew(a, xs, ys) ==
  a.alloc = 0 \/ Len(ys) <= Len(xs) =>
    \A i \in 1 .. Len(ys) : ys[i] = Nil \/ \E j \in 1 .. Len(xs) : ys[i] = xs[j]

LEMMA PtrResizes ==
  ASSUME NEW a, NEW xs, PtrHas(a, xs), NEW n \in Nat
  PROVE  \E ys : /\ PtrHas(Container!PtrSetSize(a, n), ys)
                 /\ Len(ys) = n
                 /\ \A i \in DOMAIN xs \cap DOMAIN ys : ys[i] = xs[i]
                 /\ NothingNew(a, xs, ys)
<1> DEFINE m == Len(xs)
<1>1. a.size = m /\ m \in Nat /\ xs \in Seq(Pointers) /\ DOMAIN xs = 1 .. m
  BY PtrReads, LenProperties DEF PtrHas
<1>2. \E e \in Seq(Pointers) :
        /\ Container!PtrSetCapacity(a, n) = PtrBlock(m, e)
        /\ n <= Len(e) /\ Begins(e, xs)
        /\ a.alloc = 0 /\ n > m => \A j \in 1 .. Len(e) : e[j] = Nil
  <2>1. CASE n > m
    <3> DEFINE k == n - m
    <3>1. k \in Nat /\ m + k = n
      BY <1>1, <2>1
    <3> HIDE DEF k
    <3>2. PICK e \in Seq(Pointers) :
            /\ Container!PtrExpand(a, k) = PtrBlock(m, e)
            /\ m + k <= Len(e)
            /\ Begins(e, xs)
            /\ a.alloc = 0 => \A j \in 1 .. Len(e) : e[j] = Nil
      BY <3>1, PtrRoom
    <3>3. Container!PtrSetCapacity(a, n) = PtrBlock(m, e)
      BY <1>1, <2>1, <3>2 DEF Container!PtrSetCapacity, k
    <3> QED
      BY <3>1, <3>2, <3>3
  <2>2. CASE ~(n > m)
    <3>1. PICK d \in Seq(Pointers) : a = PtrBlock(m, d) /\ Begins(d, xs)
      BY DEF PtrHas
    <3>2. Container!PtrSetCapacity(a, n) = a
      BY <1>1, <2>2 DEF Container!PtrSetCapacity
    <3>3. n <= Len(d)
      BY <1>1, <2>2, <3>1, LenProperties DEF Begins
    <3> QED
      BY <2>2, <3>1, <3>2, <3>3
  <2> QED
    BY <2>1, <2>2
<1>3. PICK e \in Seq(Pointers) :
        /\ Container!PtrSetCapacity(a, n) = PtrBlock(m, e)
        /\ n <= Len(e) /\ Begins(e, xs)
        /\ a.alloc = 0 /\ n > m => \A j \in 1 .. Len(e) : e[j] = Nil
  BY <1>2
<1>4. Len(e) \in Nat /\ \A j \in 1 .. m : j \in 1 .. Len(e) /\ e[j] = xs[j]
  BY <1>1, <1>3, LenProperties DEF Begins
<1>5. Container!PtrSetSize(a, n) = PtrBlock(n, e)
  <2>1. Container!PtrSetSize(a, n) = PtrSized(m, e, n)
    BY <1>3 DEF Container!PtrSetSize, PtrSized
  <2> QED
    BY <2>1, PtrSizedIs
<1> DEFINE ys == SubSeq(e, 1, n)
<1>6. ys \in Seq(Pointers) /\ Len(ys) = n /\ \A j \in 1 .. n : ys[j] = e[j]
  <2>1. \A j \in 1 .. n : e[j] \in Pointers
    BY <1>3, <1>4, ElementOfSeq
  <2>2. /\ SubSeq(e, 1, n) \in Seq(Pointers)
        /\ Len(SubSeq(e, 1, n)) = IF 1 <= n THEN n - 1 + 1 ELSE 0
        /\ \A j \in 1 .. n - 1 + 1 : SubSeq(e, 1, n)[j] = e[1 + j - 1]
    BY <2>1, SubSeqProperties
  <2> HIDE DEF ys
  <2> QED
    BY <2>2 DEF ys
<1> HIDE DEF ys
<1>7. PtrHas(Container!PtrSetSize(a, n), ys)
  <2>1. Begins(e, ys)
    BY <1>3, <1>6 DEF Begins
  <2> QED
    BY <1>5, <1>6, <2>1 DEF PtrHas
<1>8. \A i \in DOMAIN xs \cap DOMAIN ys : ys[i] = xs[i]
  <2>1. DOMAIN ys = 1 .. n
    BY <1>6, LenProperties
  <2> QED
    BY <1>1, <1>4, <1>6, <2>1
<1>9. ASSUME a.alloc = 0 \/ n <= m, NEW i \in 1 .. n
      PROVE  ys[i] = Nil \/ \E j \in 1 .. m : ys[i] = xs[j]
  <2>1. CASE n <= m
    <3>1. i \in 1 .. m
      BY <1>1, <2>1
    <3> QED
      BY <1>4, <1>6, <3>1
  <2>2. CASE ~(n <= m)
    <3>1. a.alloc = 0 /\ n > m /\ i \in 1 .. Len(e)
      BY <1>1, <1>3, <1>4, <1>9, <2>2
    <3> QED
      BY <1>3, <1>6, <3>1
  <2> QED
    BY <2>1, <2>2
<1>10. NothingNew(a, xs, ys)
  BY <1>6, <1>9 DEF NothingNew
<1> QED
  BY <1>6, <1>7, <1>8, <1>10

LEMMA PtrNew == PtrHas(Container!NewPtrArray, <<>>)
<1> DEFINE none == <<>>
<1>1. none \in Seq(Pointers) /\ Len(none) = 0
  OBVIOUS
<1>2. Container!NewPtrArray = PtrBlock(Len(none), none)
  BY <1>1 DEF Container!NewPtrArray, PtrBlock
<1>3. Begins(none, none)
  BY <1>1 DEF Begins
<1> HIDE DEF none
<1>4. PtrHas(Container!NewPtrArray, none)
  BY <1>1, <1>2, <1>3 DEF PtrHas
<1> QED
  BY <1>4 DEF none

LEMMA PtrTyped ==
  ASSUME NEW a, NEW xs, PtrHas(a, xs)
  PROVE  /\ a.size \in 0 .. a.alloc /\ a.alloc = Len(a.data)
         /\ a.data \in Seq(Things \cup {Nil, Garbage})
<1>1. PICK d \in Seq(Pointers) : a = PtrBlock(Len(xs), d) /\ Begins(d, xs)
  BY DEF PtrHas
<1>2. a.size = Len(xs) /\ a.alloc = Len(d) /\ a.data = d
  BY <1>1, PtrFields
<1>3. Len(xs) \in Nat /\ Len(d) \in Nat /\ Len(xs) <= Len(d)
  BY <1>1, PtrReads, LenProperties DEF Begins
<1>4. a.size \in 0 .. a.alloc
  BY <1>2, <1>3
<1> QED
  BY <1>2, <1>4 DEF Pointers

-----------------------------------------------------------------------------
(* GList: the chain from the head on goes through the nodes w, each once,  *)
(* and the nodes that are not on it were freed once.                       *)
Nodes == [data: Things, next: Nat, freed: Nat]
Linked(h, s) == [head |-> h, node |-> s]
OnChain(w, n) == \E k \in 1 .. Len(w) : w[k] = n
OnList(s, w) == [k \in 1 .. Len(w) |-> s[w[k]].data]

Chain(h, s, w) ==
  /\ s \in Seq(Nodes)
  /\ w \in Seq(1 .. Len(s))
  /\ \A j, k \in 1 .. Len(w) : w[j] = w[k] => j = k
  /\ h = IF Len(w) = 0 THEN 0 ELSE w[1]
  /\ \A k \in 1 .. Len(w) : s[w[k]].next = IF k < Len(w) THEN w[k + 1] ELSE 0
  /\ \A n \in 1 .. Len(s) : s[n].next <= Len(s)
  /\ \A n \in 1 .. Len(s) : s[n].freed = IF OnChain(w, n) THEN 0 ELSE 1

LEMMA ChainIs ==
  ASSUME NEW h, NEW s, NEW w, Chain(h, s, w)
  PROVE  /\ Len(s) \in Nat /\ Len(w) \in Nat /\ Len(w) <= Len(s)
         /\ DOMAIN w = 1 .. Len(w) /\ DOMAIN s = 1 .. Len(s)
         /\ \A k \in 1 .. Len(w) : w[k] \in 1 .. Len(s)
         /\ h \in 0 .. Len(s) /\ (h = 0 <=> Len(w) = 0)
<1>1. /\ Len(s) \in Nat /\ Len(w) \in Nat
      /\ DOMAIN w = 1 .. Len(w) /\ DOMAIN s = 1 .. Len(s)
      /\ \A k \in 1 .. Len(w) : w[k] \in 1 .. Len(s)
      /\ w \in [1 .. Len(w) -> 1 .. Len(s)]
  BY LenProperties, ElementOfSeq DEF Chain
<1>2. Len(w) <= Len(s)
  <2>1. w \in Injection(1 .. Len(w), 1 .. Len(s))
    BY <1>1 DEF Injection, IsInjective, Chain
  <2>2. ASSUME NEW n \in Nat PROVE IsFiniteSet(1 .. n) /\ Cardinality(1 .. n) = n
    <3>1. IsFiniteSet(1 .. n) /\ Cardinality(1 .. n) = IF 1 > n THEN 0 ELSE n - 1 + 1
      BY FS_Interval
    <3> QED
      BY <3>1
  <2>3. Cardinality(1 .. Len(w)) <= Cardinality(1 .. Len(s))
    BY <1>1, <2>1, <2>2, FS_Injection
  <2> QED
    BY <1>1, <2>2, <2>3
<1>3. h \in 0 .. Len(s) /\ (h = 0 <=> Len(w) = 0)
  <2>1. CASE Len(w) = 0
    BY <1>1, <2>1 DEF Chain
  <2>2. CASE Len(w) # 0
    <3>1. 1 \in 1 .. Len(w) /\ h = w[1]
      BY <1>1, <2>2 DEF Chain
    <3> QED
      BY <1>1, <2>2, <3>1
  <2> QED
    BY <2>1, <2>2
<1> QED
  BY <1>1, <1>2, <1>3

(* Following next from the head meets the nodes of the chain.              *)
IsWalk(f, h, s) ==
  f = [k \in 1 .. Len(s) + 1 |-> IF k = 1 THEN h
                                 ELSE IF f[k - 1] = 0 THEN 0 ELSE s[f[k - 1]].next]
Follow(h, s) == CHOOSE f : IsWalk(f, h, s)

LEMMA FollowIs ==
  ASSUME NEW h, NEW s, NEW w, Chain(h, s, w)
  PROVE  Follow(h, s) = [k \in 1 .. Len(s) + 1 |-> IF k <= Len(w) THEN w[k] ELSE 0]
<1> DEFINE at == [k \in 1 .. Len(s) + 1 |-> IF k <= Len(w) THEN w[k] ELSE 0]
           m == Len(w)
           Step(f, k) == IF k = 1 THEN h ELSE IF f[k - 1] = 0 THEN 0 ELSE s[f[k - 1]].next
<1>1. /\ Len(s) \in Nat /\ m \in Nat /\ m <= Len(s)
      /\ \A k \in 1 .. m : w[k] \in 1 .. Len(s)
  BY ChainIs
<1>2. ASSUME NEW k \in 1 .. Len(s) + 1 PROVE at[k] = Step(at, k)
  <2>1. CASE k = 1
    BY <1>1, <2>1, ChainIs DEF Chain
  <2>2. CASE k # 1
    <3>1. k - 1 \in 1 .. Len(s) + 1 /\ k - 1 \in Nat /\ k - 1 >= 1
      BY <1>1, <2>2
    <3>2. CASE k - 1 <= m
      <4>1. k - 1 \in 1 .. m /\ (k - 1 < m <=> k <= m) /\ k - 1 + 1 = k
        BY <1>1, <3>1, <3>2
      <4>2. at[k - 1] = w[k - 1] /\ at[k - 1] # 0
        BY <1>1, <3>1, <3>2, <4>1
      <4>3. s[w[k - 1]].next = IF k <= m THEN w[k] ELSE 0
        BY <4>1 DEF Chain
      <4> QED
        BY <2>2, <4>2, <4>3
    <3>3. CASE ~(k - 1 <= m)
      <4>1. ~(k <= m)
        BY <1>1, <3>3
      <4> QED
        BY <2>2, <3>1, <3>3, <4>1
    <3> QED
      BY <3>2, <3>3
  <2> QED
    BY <2>1, <2>2
<1>3. IsWalk(at, h, s)
  <2>1. at = [k \in 1 .. Len(s) + 1 |-> at[k]]
    OBVIOUS
  <2> HIDE DEF at
  <2> QED
    BY <1>2, <2>1 DEF IsWalk
<1>4. ASSUME NEW f, IsWalk(f, h, s) PROVE f = at
  <2>1. \A k \in 1 .. Len(s) + 1 : f[k] = Step(f, k)
    BY <1>4 DEF IsWalk
  <2>2. f = [k \in 1 .. Len(s) + 1 |-> f[k]]
    BY <1>4 DEF IsWalk
  <2> DEFINE P == {n \in Nat : n \in 1 .. Len(s) + 1 => f[n] = at[n]}
  <2>3. 0 \in P
    OBVIOUS
  <2>4. ASSUME NEW n \in Nat, n \in P PROVE n + 1 \in P
    <3> SUFFICES ASSUME n + 1 \in 1 .. Len(s) + 1 PROVE f[n + 1] = at[n + 1]
      OBVIOUS
    <3> DEFINE k == n + 1
    <3>0. k - 1 = n /\ (k # 1 => n \in 1 .. Len(s) + 1)
      BY <1>1
    <3> HIDE DEF k, at
    <3>1. k \in 1 .. Len(s) + 1
      BY DEF k
    <3>2. k # 1 => f[k - 1] = at[k - 1]
      BY <2>4, <3>0
    <3>3. Step(f, k) = Step(at, k)
      BY <3>2
    <3>4. f[k] = at[k]
      BY <1>2, <2>1, <3>1, <3>3
    <3> QED
      BY <3>4 DEF k
  <2> HIDE DEF P
  <2>5. \A n \in Nat : n \in P
    BY <2>3, <2>4, NaturalInduction
  <2>6. \A k \in 1 .. Len(s) + 1 : f[k] = at[k]
    <3>1. \A k \in 1 .. Len(s) + 1 : k \in Nat
      BY <1>1
    <3> QED
      BY <2>5, <3>1 DEF P
  <2>7. at = [k \in 1 .. Len(s) + 1 |-> at[k]]
    OBVIOUS
  <2> HIDE DEF at
  <2> QED
    BY <2>2, <2>6, <2>7
<1> HIDE DEF at
<1>5. Follow(h, s) = at
  BY <1>3, <1>4 DEF Follow
<1> QED
  BY <1>5 DEF at

LEMMA WalkIs ==
  ASSUME NEW h, NEW s, NEW w, Chain(h, s, w)
  PROVE  Container!Walk(Linked(h, s)) = w
<1> DEFINE at == Follow(h, s)
<1>1. Container!Walk(Linked(h, s)) = [k \in {j \in DOMAIN at : at[j] # 0} |-> at[k]]
  BY DEF Container!Walk, Linked, Follow, IsWalk
<1>2. at = [k \in 1 .. Len(s) + 1 |-> IF k <= Len(w) THEN w[k] ELSE 0]
  BY FollowIs
<1>3. /\ Len(s) \in Nat /\ Len(w) \in Nat /\ Len(w) <= Len(s)
      /\ \A k \in 1 .. Len(w) : w[k] \in 1 .. Len(s)
      /\ w = [k \in 1 .. Len(w) |-> w[k]]
  <2>1. w = [k \in 1 .. Len(w) |-> w[k]]
    BY LenProperties DEF Chain
  <2> QED
    BY <2>1, ChainIs
<1> HIDE DEF at
<1>4. DOMAIN at = 1 .. Len(s) + 1
  BY <1>2
<1>5. {j \in DOMAIN at : at[j] # 0} = 1 .. Len(w)
  <2>1. ASSUME NEW j \in 1 .. Len(w) PROVE j \in DOMAIN at /\ at[j] # 0
    BY <1>2, <1>3, <1>4
  <2>2. ASSUME NEW j \in DOMAIN at, at[j] # 0 PROVE j \in 1 .. Len(w)
    BY <1>2, <1>3, <1>4, <2>2
  <2> QED
    BY <2>1, <2>2
<1>6. \A k \in 1 .. Len(w) : at[k] = w[k]
  BY <1>2, <1>3
<1> QED
  BY <1>1, <1>3, <1>5, <1>6

ListHas(l, xs) == \E h, s, w : l = Linked(h, s) /\ Chain(h, s, w) /\ xs = OnList(s, w)

LEMMA LinkedFields ==
  ASSUME NEW h, NEW s
  PROVE  /\ Linked(h, s).head = h /\ Linked(h, s).node = s
         /\ \A n : [Linked(h, s) EXCEPT !.head = n] = Linked(n, s)
         /\ \A e : [Linked(h, s) EXCEPT !.node = e] = Linked(h, e)
BY DEF Linked

LEMMA OnListIs ==
  ASSUME NEW h, NEW s, NEW w, Chain(h, s, w)
  PROVE  /\ OnList(s, w) \in Seq(Things) /\ Len(OnList(s, w)) = Len(w)
         /\ \A k \in 1 .. Len(w) : OnList(s, w)[k] = s[w[k]].data
<1> DEFINE f == OnList(s, w)
<1>1. f = [k \in 1 .. Len(w) |-> s[w[k]].data]
  BY DEF OnList
<1>2. \A k \in 1 .. Len(w) : s[w[k]] \in Nodes
  BY ChainIs, ElementOfSeq DEF Chain
<1>3. \A k \in 1 .. Len(w) : s[w[k]].data \in Things
  BY <1>2 DEF Nodes
<1> HIDE DEF f
<1>4. f \in Seq(Things) /\ Len(f) = Len(w)
  BY <1>1, <1>3, ChainIs
<1> QED
  BY <1>1, <1>4 DEF f

LEMMA ListReads ==
  ASSUME NEW l, NEW xs, ListHas(l, xs)
  PROVE  Container!ListItems(l) = xs /\ xs \in Seq(Things) /\ Len(xs) \in Nat
<1>1. PICK h, s, w : l = Linked(h, s) /\ Chain(h, s, w) /\ xs = OnList(s, w)
  BY DEF ListHas
<1>2. Container!Walk(l) = w /\ DOMAIN w = 1 .. Len(w) /\ l.node = s
  BY <1>1, WalkIs, ChainIs, LinkedFields
<1>3. Container!ListItems(l) = xs
  BY <1>1, <1>2 DEF Container!ListItems, OnList
<1>4. xs \in Seq(Things)
  BY <1>1, OnListIs
<1> QED
  BY <1>3, <1>4, LenProperties

(* A new node goes behind the last one or before the first one.            *)
NewNode(x, next) == [data |-> x, next |-> next, freed |-> 0]

LEMMA NewNodeIs ==
  ASSUME NEW h, NEW s \in Seq(Nodes), NEW x \in Things, NEW next \in Nat
  PROVE  /\ Container!NodeNew(Linked(h, s), x, next) = Linked(h, Append(s, NewNode(x, next)))
         /\ NewNode(x, next) \in Nodes
         /\ NewNode(x, next).data = x /\ NewNode(x, next).next = next /\ NewNode(x, next).freed = 0
         /\ Append(s, NewNode(x, next)) \in Seq(Nodes)
         /\ Len(Append(s, NewNode(x, next))) = Len(s) + 1
         /\ \A j \in 1 .. Len(s) : Append(s, NewNode(x, next))[j] = s[j]
         /\ Append(s, NewNode(x, next))[Len(s) + 1] = NewNode(x, next)
<1> DEFINE r == NewNode(x, next)
<1>1. r \in Nodes /\ r.data = x /\ r.next = next /\ r.freed = 0
  BY DEF NewNode, Nodes
<1> HIDE DEF r
<1>2. /\ Append(s, r) \in Seq(Nodes)
      /\ Len(Append(s, r)) = Len(s) + 1
      /\ \A j \in 1 .. Len(s) : Append(s, r)[j] = s[j]
      /\ Append(s, r)[Len(s) + 1] = r
  BY <1>1, AppendProperties
<1>3. Container!NodeNew(Linked(h, s), x, next) = Linked(h, Append(s, r))
  <2> DEFINE l == Linked(h, s)
  <2>1. Container!NodeNew(l, x, next) = [l EXCEPT !.node = Append(l.node, r)]
    BY DEF Container!NodeNew, r, NewNode
  <2> DEFINE e == Append(s, r)
  <2>2. l.node = s
    BY LinkedFields
  <2>3. Container!NodeNew(l, x, next) = [l EXCEPT !.node = e]
    <3> HIDE DEF l
    <3> QED
      BY <2>1, <2>2
  <2> HIDE DEF e
  <2>4. [l EXCEPT !.node = e] = Linked(h, e)
    BY DEF Linked
  <2> HIDE DEF l
  <2>5. Container!NodeNew(l, x, next) = Linked(h, e)
    BY <2>3, <2>4
  <2> QED
    BY <2>5 DEF e, l
<1> QED
  BY <1>1, <1>2, <1>3 DEF r

LEMMA ChainAppends ==
  ASSUME NEW h, NEW s, NEW w, Chain(h, s, w), NEW x \in Things,
         NEW n, n = Len(s) + 1,
         NEW e \in Seq(Nodes), Len(e) = n,
         e[n].data = x, e[n].next = 0, e[n].freed = 0,
         \A j \in 1 .. Len(s) :
           /\ e[j].data = s[j].data /\ e[j].freed = s[j].freed
           /\ e[j].next = IF Len(w) > 0 /\ j = w[Len(w)] THEN n ELSE s[j].next,
         NEW g, g = IF Len(w) = 0 THEN n ELSE h
  PROVE  /\ Chain(g, e, Append(w, n))
         /\ OnList(e, Append(w, n)) = OnList(s, w) \o <<x>>
<1> DEFINE m == Len(w)
           v == Append(w, n)
<1>1. /\ Len(s) \in Nat /\ m \in Nat /\ DOMAIN w = 1 .. m
      /\ \A k \in 1 .. m : w[k] \in 1 .. Len(s)
      /\ h \in 0 .. Len(s) /\ (h = 0 <=> m = 0) /\ n \in Nat
  BY ChainIs
<1>2. \A k \in 1 .. m : w[k] # n /\ w[k] \in 1 .. n
  BY <1>1
<1>3. w \in Seq(1 .. n)
  <2>1. w = [k \in 1 .. m |-> w[k]]
    BY LenProperties DEF Chain
  <2> QED
    BY <1>1, <1>2, <2>1
<1>4. n \in 1 .. n
  BY <1>1
<1>5. /\ Append(w, n) \in Seq(1 .. n)
      /\ Len(Append(w, n)) = Len(w) + 1
      /\ \A k \in 1 .. Len(w) : Append(w, n)[k] = w[k]
      /\ Append(w, n)[Len(w) + 1] = n
  BY <1>3, <1>4, AppendProperties
<1> HIDE DEF v
<1>6. /\ v \in Seq(1 .. n) /\ Len(v) = m + 1 /\ v[m + 1] = n
      /\ \A k \in 1 .. m : v[k] = w[k]
  BY <1>5 DEF v
<1>7. \A k \in 1 .. m + 1 : k \in 1 .. m \/ k = m + 1
  BY <1>1
<1>8. \A j, k \in 1 .. Len(v) : v[j] = v[k] => j = k
  <2>1. \A j, k \in 1 .. m : w[j] = w[k] => j = k
    BY DEF Chain
  <2> SUFFICES ASSUME NEW j \in 1 .. Len(v), NEW k \in 1 .. Len(v), v[j] = v[k]
               PROVE  j = k
    OBVIOUS
  <2>2. (j \in 1 .. m \/ j = m + 1) /\ (k \in 1 .. m \/ k = m + 1)
    BY <1>6, <1>7
  <2>3. CASE j \in 1 .. m /\ k \in 1 .. m
    BY <1>6, <2>1, <2>3
  <2>4. CASE j \in 1 .. m /\ k = m + 1
    BY <1>2, <1>6, <2>4
  <2>5. CASE j = m + 1 /\ k \in 1 .. m
    BY <1>2, <1>6, <2>5
  <2> QED
    BY <2>2, <2>3, <2>4, <2>5
<1>9. g = IF Len(v) = 0 THEN 0 ELSE v[1]
  <2>1. CASE m = 0
    BY <1>6, <2>1
  <2>2. CASE m # 0
    <3>1. 1 \in 1 .. m /\ Len(v) # 0
      BY <1>1, <1>6, <2>2
    <3>2. h = w[1]
      BY <2>2 DEF Chain
    <3> QED
      BY <1>6, <2>2, <3>1, <3>2
  <2> QED
    BY <2>1, <2>2
<1>10. ASSUME NEW k \in 1 .. Len(v) PROVE e[v[k]].next = IF k < Len(v) THEN v[k + 1] ELSE 0
  <2>1. CASE k = m + 1
    BY <1>1, <1>6, <2>1
  <2>2. CASE k = m /\ m \in 1 .. m
    <3>1. w[m] \in 1 .. Len(s) /\ m > 0 /\ k < Len(v) /\ v[k + 1] = n /\ v[k] = w[m]
      BY <1>1, <1>6, <2>2
    <3>2. e[w[m]].next = n
      BY <3>1
    <3> QED
      BY <3>1, <3>2
  <2>3. CASE k # m /\ k \in 1 .. m
    <3> HIDE DEF m
    <3>0. k < m /\ k + 1 \in 1 .. m /\ m \in 1 .. m /\ k < m + 1
      BY <1>1, <2>3
    <3>1. k < m /\ k + 1 \in 1 .. m /\ m \in 1 .. m /\ k < Len(v)
      BY <1>6, <3>0
    <3>2. w[k] # w[m] /\ s[w[k]].next = w[k + 1]
      BY <2>3, <3>1 DEF Chain, m
    <3>3. w[k] \in 1 .. Len(s)
      BY <1>1, <2>3
    <3>6. ~(Len(w) > 0 /\ w[k] = w[Len(w)])
      BY <3>2 DEF m
    <3>4. e[w[k]].next = s[w[k]].next
      BY <3>3, <3>6
    <3>5. e[w[k]].next = w[k + 1]
      BY <3>2, <3>4
    <3> QED
      BY <1>6, <2>3, <3>1, <3>5
  <2> QED
    BY <1>6, <1>7, <2>1, <2>2, <2>3
<1>11. ASSUME NEW j \in 1 .. Len(e) PROVE e[j].next <= Len(e)
  <2>1. CASE j = n
    BY <1>1, <2>1
  <2>2. CASE j # n
    <3>1. j \in 1 .. Len(s)
      BY <1>1, <2>2
    <3>2. s[j].next <= Len(s) /\ s[j].next \in Nat
      <4>1. s[j] \in Nodes
        BY <3>1, ElementOfSeq DEF Chain
      <4> QED
        BY <3>1, <4>1 DEF Chain, Nodes
    <3>3. e[j].next = n \/ e[j].next = s[j].next
      BY <3>1
    <3> QED
      BY <1>1, <3>2, <3>3
  <2> QED
    BY <2>1, <2>2
<1>12. ASSUME NEW j \in 1 .. Len(e) PROVE e[j].freed = IF OnChain(v, j) THEN 0 ELSE 1
  <2>1. CASE j = n
    <3>1. m + 1 \in 1 .. Len(v)
      BY <1>1, <1>6
    <3>2. OnChain(v, j)
      BY <1>6, <2>1, <3>1 DEF OnChain
    <3> QED
      BY <2>1, <3>2
  <2>2. CASE j # n
    <3>1. j \in 1 .. Len(s)
      BY <1>1, <2>2
    <3>2. OnChain(v, j) <=> OnChain(w, j)
      <4>1. \A k \in 1 .. m : k \in 1 .. m + 1 /\ v[k] = w[k]
        BY <1>1, <1>6
      <4>2. v[m + 1] # j /\ Len(v) = m + 1 /\ Len(w) = m
        BY <1>6, <2>2
      <4>3. ASSUME OnChain(v, j) PROVE OnChain(w, j)
        BY ONLY <1>7, <4>1, <4>2, <4>3 DEF OnChain
      <4>4. ASSUME OnChain(w, j) PROVE OnChain(v, j)
        BY ONLY <4>1, <4>2, <4>4 DEF OnChain
      <4> QED
        BY ONLY <4>3, <4>4
    <3>3. e[j].freed = s[j].freed
      BY <3>1
    <3> QED
      BY <3>1, <3>2, <3>3 DEF Chain
  <2> QED
    BY <2>1, <2>2
<1>13. Chain(g, e, v)
  BY <1>6, <1>8, <1>9, <1>10, <1>11, <1>12 DEF Chain
<1>14. OnList(e, v) = OnList(s, w) \o <<x>>
  <2> DEFINE a == OnList(s, w)
             b == OnList(e, v)
             y == <<x>>
  <2>1. a \in Seq(Things) /\ Len(a) = m /\ \A k \in 1 .. m : a[k] = s[w[k]].data
    BY OnListIs
  <2>2. b \in Seq(Things) /\ Len(b) = m + 1 /\ \A k \in 1 .. m + 1 : b[k] = e[v[k]].data
    BY <1>6, <1>13, OnListIs
  <2>3. y \in Seq(Things) /\ Len(y) = 1 /\ y[1] = x
    OBVIOUS
  <2> HIDE DEF a, b, y
  <2>0. a \in Seq(Things) /\ y \in Seq(Things)
    BY <2>1, <2>3
  <2>4. /\ a \o y \in Seq(Things)
        /\ Len(a \o y) = Len(a) + Len(y)
        /\ \A k \in 1 .. Len(a) + Len(y) : (a \o y)[k] = IF k <= Len(a) THEN a[k] ELSE y[k - Len(a)]
    BY ONLY <2>0, ConcatProperties
  <2>5. ASSUME NEW k \in 1 .. Len(b) PROVE b[k] = (a \o y)[k]
    <3>1. CASE k \in 1 .. m
      <4>1. k <= Len(a) /\ k \in 1 .. Len(a) + Len(y)
        BY <1>1, <2>1, <2>3, <3>1
      <4>2. b[k] = s[w[k]].data
        <5>1. k \in 1 .. m + 1 /\ v[k] = w[k]
          BY <1>1, <1>6, <3>1
        <5>2. w[k] \in 1 .. Len(s)
          BY <3>1, ElementOfSeq DEF Chain
        <5>3. b[k] = e[w[k]].data
          BY ONLY <2>2, <5>1
        <5>4. e[w[k]].data = s[w[k]].data
          BY <5>2
        <5> QED
          BY ONLY <5>3, <5>4
      <4> QED
        BY <2>1, <2>4, <3>1, <4>1, <4>2
    <3>2. CASE k = m + 1
      <4>1. ~(k <= Len(a)) /\ k \in 1 .. Len(a) + Len(y) /\ k - Len(a) = 1
        BY <1>1, <2>1, <2>3, <3>2
      <4>2. b[k] = x
        BY <1>6, <2>2, <3>2
      <4> QED
        BY <2>3, <2>4, <4>1, <4>2
    <3> QED
      BY <1>7, <2>2, <3>1, <3>2
  <2>6. Len(b) = Len(a \o y)
    BY <2>1, <2>2, <2>3, <2>4
  <2>7. b = a \o y
    BY <2>2, <2>4, <2>5, <2>6, SeqEqual
  <2> QED
    BY <2>7 DEF a, b, y
<1> QED
  BY <1>13, <1>14 DEF v

LEMMA ListAppends ==
  ASSUME NEW l, NEW xs, ListHas(l, xs), NEW x \in Things
  PROVE  ListHas(Container!ListAppend(l, x), xs \o <<x>>)
<1>1. PICK h, s, w : l = Linked(h, s) /\ Chain(h, s, w) /\ xs = OnList(s, w)
  BY DEF ListHas
<1> DEFINE n == Len(s) + 1
           c == Append(s, NewNode(x, 0))
<1>2. /\ Len(s) \in Nat /\ Len(w) \in Nat
      /\ \A k \in 1 .. Len(w) : w[k] \in 1 .. Len(s)
      /\ h = 0 <=> Len(w) = 0
      /\ s \in Seq(Nodes) /\ Container!Walk(l) = w
  BY <1>1, ChainIs, WalkIs DEF Chain
<1>3. /\ Container!NodeNew(l, x, 0) = Linked(h, c)
      /\ c \in Seq(Nodes) /\ Len(c) = n
      /\ \A j \in 1 .. Len(s) : c[j] = s[j]
      /\ c[n].data = x /\ c[n].next = 0 /\ c[n].freed = 0
  <2>1. 0 \in Nat
    OBVIOUS
  <2> QED
    BY <1>1, <1>2, <2>1, NewNodeIs
<1>4. l.head = h /\ l.node = s
  BY <1>1, LinkedFields
<1> HIDE DEF c
<1>5. CASE h = 0
  <2>1. Container!ListAppend(l, x) = Linked(n, c)
    BY <1>3, <1>4, <1>5, LinkedFields DEF Container!ListAppend
  <2> HIDE DEF n
  <2>2. /\ n = Len(s) + 1 /\ Len(w) = 0
        /\ \A j \in 1 .. Len(s) :
             /\ c[j].data = s[j].data /\ c[j].freed = s[j].freed
             /\ c[j].next = IF Len(w) > 0 /\ j = w[Len(w)] THEN n ELSE s[j].next
        /\ n = IF Len(w) = 0 THEN n ELSE h
    BY <1>2, <1>3, <1>5 DEF n
  <2>4. Chain(h, s, w) /\ x \in Things
    BY <1>1
  <2>5. c \in Seq(Nodes) /\ Len(c) = n /\ c[n].data = x /\ c[n].next = 0 /\ c[n].freed = 0
    BY <1>3
  <2>3. PICK g : g = n
    OBVIOUS
  <2>6. g = IF Len(w) = 0 THEN n ELSE h
    BY <2>2, <2>3
  <2>8. ASSUME NEW j \in 1 .. Len(s)
        PROVE  /\ c[j].data = s[j].data /\ c[j].freed = s[j].freed
               /\ c[j].next = IF Len(w) > 0 /\ j = w[Len(w)] THEN n ELSE s[j].next
    BY <2>2
  <2>9. n = Len(s) + 1
    BY <2>2
  <2>7. Chain(g, c, Append(w, n)) /\ OnList(c, Append(w, n)) = OnList(s, w) \o <<x>>
    BY <2>4, <2>5, <2>6, <2>8, <2>9, ChainAppends
  <2> QED
    BY <1>1, <2>1, <2>3, <2>7 DEF ListHas
<1>6. CASE h # 0
  <2> DEFINE last == w[Len(w)]
             r == [c[last] EXCEPT !.next = n]
             e == [c EXCEPT ![last] = r]
  <2>1. Len(w) \in 1 .. Len(w) /\ last \in 1 .. Len(s) /\ last \in 1 .. Len(c) /\ last # n /\ n \in Nat
    BY <1>2, <1>3, <1>6
  <2>2. c[last] \in Nodes
    BY <1>3, <2>1, ElementOfSeq
  <2>3. r \in Nodes /\ r.next = n /\ r.data = c[last].data /\ r.freed = c[last].freed
    BY <2>1, <2>2 DEF Nodes
  <2> HIDE DEF r, last
  <2>4. /\ e \in Seq(Nodes)
        /\ Len(e) = Len(c)
        /\ \A j \in 1 .. Len(c) : e[j] = IF j = last THEN r ELSE c[j]
    BY <1>3, <2>1, <2>3, ExceptSeq
  <2>5. Container!ListAppend(l, x) = Linked(h, e)
    <3>1. Container!ListAppend(l, x) = [Linked(h, c) EXCEPT !.node[last].next = n]
      BY <1>2, <1>3, <1>4, <1>6 DEF Container!ListAppend, last
    <3>2. [Linked(h, c) EXCEPT !.node[last].next = n] = Linked(h, e)
      BY DEF Linked, r
    <3> QED
      BY <3>1, <3>2
  <2> HIDE DEF e
  <2>6. ASSUME NEW j \in 1 .. Len(s)
        PROVE  /\ e[j].data = s[j].data /\ e[j].freed = s[j].freed
               /\ e[j].next = IF Len(w) > 0 /\ j = w[Len(w)] THEN n ELSE s[j].next
    <3>1. j \in 1 .. Len(c) /\ c[j] = s[j] /\ Len(w) > 0
      BY <1>2, <1>3, <2>1
    <3>2. CASE j = last
      BY <2>3, <2>4, <3>1, <3>2 DEF last
    <3>3. CASE j # last
      BY <2>4, <3>1, <3>3 DEF last
    <3> QED
      BY <3>2, <3>3
  <2>7. Len(e) = n /\ e[n].data = x /\ e[n].next = 0 /\ e[n].freed = 0
    <3>1. n \in 1 .. Len(c)
      BY <1>2, <1>3
    <3> QED
      BY <1>3, <2>1, <2>4, <3>1
  <2>8. n = Len(s) + 1 /\ h = IF Len(w) = 0 THEN n ELSE h
    BY <1>2, <1>6
  <2> HIDE DEF n
  <2>9. Chain(h, e, Append(w, n)) /\ OnList(e, Append(w, n)) = OnList(s, w) \o <<x>>
    BY <1>1, <2>4, <2>6, <2>7, <2>8, ChainAppends
  <2> QED
    BY <1>1, <2>5, <2>9 DEF ListHas
<1> QED
  BY <1>5, <1>6

LEMMA ConcatOne ==
  ASSUME NEW S, NEW n \in S, NEW w \in Seq(S)
  PROVE  /\ <<n>> \o w \in Seq(S) /\ Len(<<n>> \o w) = Len(w) + 1 /\ Len(w) \in Nat
         /\ (<<n>> \o w)[1] = n
         /\ \A k \in 1 .. Len(w) : (<<n>> \o w)[k + 1] = w[k]
<1> DEFINE y == <<n>>
<1>1. y \in Seq(S) /\ Len(y) = 1 /\ y[1] = n
  OBVIOUS
<1>2. Len(w) \in Nat
  BY LenProperties
<1> HIDE DEF y
<1>3. y \in Seq(S) /\ w \in Seq(S)
  BY <1>1
<1>4. /\ y \o w \in Seq(S)
      /\ Len(y \o w) = Len(y) + Len(w)
      /\ \A i \in 1 .. Len(y) + Len(w) : (y \o w)[i] = IF i <= Len(y) THEN y[i] ELSE w[i - Len(y)]
  BY ONLY <1>3, ConcatProperties
<1>5. Len(y \o w) = Len(w) + 1 /\ (y \o w)[1] = n
  <2>1. 1 \in 1 .. Len(y) + Len(w) /\ 1 <= Len(y)
    BY <1>1, <1>2
  <2> QED
    BY <1>1, <1>2, <1>4, <2>1
<1>6. ASSUME NEW k \in 1 .. Len(w) PROVE (y \o w)[k + 1] = w[k]
  <2>1. k + 1 \in 1 .. Len(y) + Len(w) /\ ~(k + 1 <= Len(y)) /\ k + 1 - Len(y) = k
    BY <1>1, <1>2
  <2> QED
    BY <1>4, <2>1
<1> QED
  BY <1>2, <1>4, <1>5, <1>6 DEF y

NodeBefore(h, s, x, e) ==
  /\ e \in Seq(Nodes) /\ Len(e) = Len(s) + 1
  /\ e[Len(e)].data = x /\ e[Len(e)].next = h /\ e[Len(e)].freed = 0
  /\ \A j \in 1 .. Len(s) : e[j] = s[j]

LEMMA ChainPrepends ==
  ASSUME NEW h, NEW s, NEW w, Chain(h, s, w), NEW x \in Things,
         NEW e, NodeBefore(h, s, x, e)
  PROVE  /\ Chain(Len(e), e, <<Len(e)>> \o w)
         /\ OnList(e, <<Len(e)>> \o w) = <<x>> \o OnList(s, w)
<1> DEFINE m == Len(w)
           n == Len(e)
           v == <<n>> \o w
<1> USE DEF NodeBefore
<1>1. /\ Len(s) \in Nat /\ m \in Nat /\ n \in Nat
      /\ \A k \in 1 .. m : w[k] \in 1 .. Len(s)
      /\ h \in 0 .. Len(s)
  BY ChainIs
<1>2. \A k \in 1 .. m : w[k] # n /\ w[k] \in 1 .. n
  BY <1>1
<1>3. w \in Seq(1 .. n) /\ n \in 1 .. n
  <2>1. w = [k \in 1 .. m |-> w[k]]
    BY LenProperties DEF Chain
  <2> QED
    BY <1>1, <1>2, <2>1
<1>4. /\ v \in Seq(1 .. n) /\ Len(v) = m + 1 /\ v[1] = n
      /\ \A k \in 1 .. m : v[k + 1] = w[k]
  BY <1>3, ConcatOne
<1> HIDE DEF v
<1>5. \A k \in 1 .. Len(v) : k = 1 \/ (k - 1 \in 1 .. m /\ v[k] = w[k - 1] /\ k # 1)
  <2> SUFFICES ASSUME NEW k \in 1 .. Len(v), k # 1 PROVE k - 1 \in 1 .. m /\ v[k] = w[k - 1]
    OBVIOUS
  <2>1. k - 1 \in 1 .. m /\ k - 1 + 1 = k
    BY <1>1, <1>4
  <2>2. v[k - 1 + 1] = w[k - 1]
    BY <1>4, <2>1
  <2> QED
    BY <2>1, <2>2
<1>6. \A j, k \in 1 .. Len(v) : v[j] = v[k] => j = k
  <2>1. \A j, k \in 1 .. m : w[j] = w[k] => j = k
    BY DEF Chain
  <2> SUFFICES ASSUME NEW j \in 1 .. Len(v), NEW k \in 1 .. Len(v), v[j] = v[k]
               PROVE  j = k
    OBVIOUS
  <2>3. CASE j = 1 /\ k = 1
    BY <2>3
  <2>0. ASSUME NEW i \in 1 .. Len(v), i # 1 PROVE v[i] # n
    <3>1. i - 1 \in 1 .. m /\ v[i] = w[i - 1]
      BY <1>5, <2>0
    <3> QED
      BY <1>2, <3>1
  <2>4. CASE j = 1 /\ k # 1
    BY <1>4, <2>0, <2>4
  <2>5. CASE j # 1 /\ k = 1
    BY <1>4, <2>0, <2>5
  <2>6. CASE j # 1 /\ k # 1
    <3>1. j - 1 = k - 1
      BY <1>5, <2>1, <2>6
    <3> QED
      BY <1>4, <3>1
  <2> QED
    BY <2>3, <2>4, <2>5, <2>6
<1>7. n = IF Len(v) = 0 THEN 0 ELSE v[1]
  BY <1>1, <1>4
<1>8. ASSUME NEW k \in 1 .. Len(v) PROVE e[v[k]].next = IF k < Len(v) THEN v[k + 1] ELSE 0
  <2>1. CASE k = 1
    <3>1. CASE m = 0
      BY <1>4, <2>1, <3>1 DEF Chain
    <3>2. CASE m # 0
      <4>1. 1 \in 1 .. m /\ 1 < Len(v)
        BY <1>1, <1>4, <3>2
      <4>2. v[1 + 1] = w[1]
        BY <1>4, <4>1
      <4>3. h = w[1]
        BY <3>2 DEF Chain
      <4> QED
        BY <1>4, <2>1, <4>1, <4>2, <4>3
    <3> QED
      BY <3>1, <3>2
  <2>2. CASE k # 1
    <3>1. k - 1 \in 1 .. m /\ v[k] = w[k - 1]
      BY <1>5, <2>2
    <3>2. s[w[k - 1]].next = IF k - 1 < m THEN w[k - 1 + 1] ELSE 0
      BY <3>1 DEF Chain
    <3>3. e[v[k]] = s[w[k - 1]] /\ k - 1 + 1 = k
      BY <1>1, <3>1
    <3>4. k - 1 < m <=> k < Len(v)
      BY <1>1, <1>4, <3>1
    <3>5. ASSUME k < Len(v) PROVE v[k + 1] = w[k]
      <4>1. k \in 1 .. m
        BY <1>1, <1>4, <3>5
      <4> QED
        BY <1>4, <4>1
    <3> QED
      BY <3>2, <3>3, <3>4, <3>5
  <2> QED
    BY <2>1, <2>2
<1>9. ASSUME NEW j \in 1 .. Len(e) PROVE e[j].next <= Len(e)
  <2>1. CASE j = n
    BY <1>1, <2>1
  <2>2. CASE j # n
    <3>1. j \in 1 .. Len(s)
      BY <1>1, <2>2
    <3>2. s[j].next <= Len(s) /\ s[j].next \in Nat
      <4>1. s[j] \in Nodes
        BY <3>1, ElementOfSeq DEF Chain
      <4> QED
        BY <3>1, <4>1 DEF Chain, Nodes
    <3> QED
      BY <1>1, <3>1, <3>2
  <2> QED
    BY <2>1, <2>2
<1>10. ASSUME NEW j \in 1 .. Len(e) PROVE e[j].freed = IF OnChain(v, j) THEN 0 ELSE 1
  <2>1. CASE j = n
    <3>1. 1 \in 1 .. Len(v)
      BY <1>1, <1>4
    <3>2. OnChain(v, j)
      BY <1>4, <2>1, <3>1 DEF OnChain
    <3> QED
      BY <2>1, <3>2
  <2>2. CASE j # n
    <3>1. j \in 1 .. Len(s)
      BY <1>1, <2>2
    <3>2. ASSUME OnChain(v, j) PROVE OnChain(w, j)
      BY <1>4, <1>5, <2>2, <3>2 DEF OnChain
    <3>3. ASSUME OnChain(w, j) PROVE OnChain(v, j)
      <4>1. PICK k \in 1 .. m : w[k] = j
        BY <3>3 DEF OnChain
      <4>2. k + 1 \in 1 .. Len(v) /\ v[k + 1] = j
        BY <1>1, <1>4, <4>1
      <4> QED
        BY <4>2 DEF OnChain
    <3>4. s[j].freed = IF OnChain(w, j) THEN 0 ELSE 1
      BY <3>1 DEF Chain
    <3> QED
      BY <3>1, <3>2, <3>3, <3>4
  <2> QED
    BY <2>1, <2>2
<1>11. Chain(n, e, v)
  BY <1>4, <1>6, <1>7, <1>8, <1>9, <1>10 DEF Chain
<1>12. OnList(e, v) = <<x>> \o OnList(s, w)
  <2> DEFINE a == OnList(s, w)
             b == OnList(e, v)
             c == <<x>> \o a
  <2>1. a \in Seq(Things) /\ Len(a) = m /\ \A k \in 1 .. m : a[k] = s[w[k]].data
    BY OnListIs
  <2>2. b \in Seq(Things) /\ Len(b) = Len(v) /\ \A k \in 1 .. Len(v) : b[k] = e[v[k]].data
    BY <1>11, OnListIs
  <2>3. c \in Seq(Things) /\ Len(c) = m + 1 /\ c[1] = x /\ \A k \in 1 .. m : c[k + 1] = a[k]
    <3> HIDE DEF a
    <3> QED
      BY <2>1, ConcatOne
  <2> HIDE DEF a, b, c
  <2>4. ASSUME NEW k \in 1 .. Len(b) PROVE b[k] = c[k]
    <3>1. CASE k = 1
      BY <1>4, <2>2, <2>3, <3>1
    <3>2. CASE k # 1
      <4>1. k - 1 \in 1 .. m /\ v[k] = w[k - 1] /\ k - 1 + 1 = k
        BY <1>4, <1>5, <2>2, <3>2
      <4>2. b[k] = s[w[k - 1]].data
        BY <1>1, <2>2, <4>1
      <4>3. c[k - 1 + 1] = a[k - 1]
        BY <2>3, <4>1
      <4> QED
        BY <2>1, <4>1, <4>2, <4>3
    <3> QED
      BY <3>1, <3>2
  <2>5. b = c
    BY <1>4, <2>2, <2>3, <2>4, SeqEqual
  <2> QED
    BY <2>5 DEF a, b, c
<1> QED
  BY <1>11, <1>12 DEF v

LEMMA ListPrepends ==
  ASSUME NEW l, NEW xs, ListHas(l, xs), NEW x \in Things
  PROVE  ListHas(Container!ListPrepend(l, x), <<x>> \o xs)
<1>1. PICK h, s, w : l = Linked(h, s) /\ Chain(h, s, w) /\ xs = OnList(s, w)
  BY DEF ListHas
<1> DEFINE n == Len(s) + 1
           c == Append(s, NewNode(x, h))
<1>2. s \in Seq(Nodes) /\ h \in Nat /\ Len(s) \in Nat
  BY <1>1, ChainIs DEF Chain
<1>3. /\ Container!NodeNew(l, x, h) = Linked(h, c)
      /\ c \in Seq(Nodes) /\ Len(c) = n
      /\ \A j \in 1 .. Len(s) : c[j] = s[j]
      /\ c[n].data = x /\ c[n].next = h /\ c[n].freed = 0
  BY <1>1, <1>2, NewNodeIs
<1>4. l.head = h /\ l.node = s
  BY <1>1, LinkedFields
<1> HIDE DEF c
<1>5. Container!ListPrepend(l, x) = Linked(n, c)
  BY <1>3, <1>4, LinkedFields DEF Container!ListPrepend
<1> HIDE DEF n
<1>6. n = Len(s) + 1
  BY DEF n
<1>7. ASSUME NEW j \in 1 .. Len(s) PROVE c[j] = s[j]
  BY <1>3
<1>8. c \in Seq(Nodes) /\ Len(c) = n /\ c[n].data = x /\ c[n].next = h /\ c[n].freed = 0
  BY <1>3
<1>10. Chain(h, s, w) /\ x \in Things
  BY <1>1
<1>11. Len(c) = Len(s) + 1 /\ c[Len(c)].data = x /\ c[Len(c)].next = h /\ c[Len(c)].freed = 0
  BY <1>6, <1>8
<1>12. /\ Chain(Len(c), c, <<Len(c)>> \o w)
       /\ OnList(c, <<Len(c)>> \o w) = <<x>> \o OnList(s, w)
  <2>1. NodeBefore(h, s, x, c)
    BY <1>7, <1>8, <1>11 DEF NodeBefore
  <2> QED
    BY <1>10, <2>1, ChainPrepends
<1>9. Chain(n, c, <<n>> \o w) /\ OnList(c, <<n>> \o w) = <<x>> \o OnList(s, w)
  BY <1>8, <1>12
<1> QED
  BY <1>1, <1>5, <1>9 DEF ListHas

(* Node w[k] is unlinked and released.                                     *)
NodeRemoved(s, w, k, e) ==
  /\ e \in Seq(Nodes) /\ Len(e) = Len(s)
  /\ \A j \in 1 .. Len(s) :
       /\ e[j].data = s[j].data
       /\ e[j].freed = IF j = w[k] THEN 1 ELSE s[j].freed
       /\ e[j].next = IF j = w[k] THEN 0
                      ELSE IF k > 1 /\ j = w[k - 1] THEN s[w[k]].next ELSE s[j].next

LEMMA ChainRemoves ==
  ASSUME NEW h, NEW s, NEW w, Chain(h, s, w), NEW k \in 1 .. Len(w),
         NEW e, NodeRemoved(s, w, k, e)
  PROVE  /\ Chain(IF k = 1 THEN s[w[k]].next ELSE h, e, RemoveAt(w, k))
         /\ OnList(e, RemoveAt(w, k)) = RemoveAt(OnList(s, w), k)
<1> DEFINE m == Len(w)
           v == RemoveAt(w, k)
           g == IF k = 1 THEN s[w[k]].next ELSE h
<1>1. /\ Len(s) \in Nat /\ m \in Nat
      /\ \A j \in 1 .. m : w[j] \in 1 .. Len(s)
  BY ChainIs
<1>2. w \in Seq(1 .. Len(s))
  BY DEF Chain
<1>3. /\ v \in Seq(1 .. Len(s)) /\ Len(v) = m - 1
      /\ \A j \in 1 .. m - 1 : v[j] = IF j < k THEN w[j] ELSE w[j + 1]
  BY <1>2, RemoveAtProperties
<1> HIDE DEF v
<1>4. \A i, j \in 1 .. m : w[i] = w[j] => i = j
  BY DEF Chain
<1>5. \A j \in 1 .. m : s[w[j]].next = IF j < m THEN w[j + 1] ELSE 0
  BY DEF Chain
<1>6. e \in Seq(Nodes) /\ Len(e) = Len(s)
  BY DEF NodeRemoved
<1>7. \A j \in 1 .. m : j # k => e[w[j]].next = IF k > 1 /\ j = k - 1 THEN s[w[k]].next ELSE s[w[j]].next
  <2> SUFFICES ASSUME NEW j \in 1 .. m, j # k
               PROVE  e[w[j]].next = IF k > 1 /\ j = k - 1 THEN s[w[k]].next ELSE s[w[j]].next
    OBVIOUS
  <2>1. w[j] # w[k] /\ w[j] \in 1 .. Len(s)
    BY <1>1, <1>4
  <2>2. e[w[j]].next = IF k > 1 /\ w[j] = w[k - 1] THEN s[w[k]].next ELSE s[w[j]].next
    BY <2>1 DEF NodeRemoved
  <2>3. CASE k > 1
    <3>1. k - 1 \in 1 .. m
      BY <1>1, <2>3
    <3>2. w[j] = w[k - 1] <=> j = k - 1
      BY <1>4, <3>1
    <3> QED
      BY <2>2, <2>3, <3>2
  <2>4. CASE ~(k > 1)
    BY <2>2, <2>4
  <2> QED
    BY <2>3, <2>4
<1>8. ASSUME NEW j \in 1 .. m - 1
      PROVE  IF j < k THEN j \in 1 .. m /\ j # k /\ v[j] = w[j]
             ELSE j + 1 \in 1 .. m /\ j + 1 # k /\ v[j] = w[j + 1]
  BY <1>1, <1>3
<1>9. \A i, j \in 1 .. Len(v) : v[i] = v[j] => i = j
  <2> SUFFICES ASSUME NEW i \in 1 .. m - 1, NEW j \in 1 .. m - 1, v[i] = v[j]
               PROVE  i = j
    BY <1>3
  <2> DEFINE a == IF i < k THEN i ELSE i + 1
             b == IF j < k THEN j ELSE j + 1
  <2>1. a \in 1 .. m /\ b \in 1 .. m /\ v[i] = w[a] /\ v[j] = w[b]
    BY <1>8
  <2>2. a = b
    <3> HIDE DEF a, b
    <3> QED
      BY <1>4, <2>1
  <2> QED
    BY <1>1, <2>2
<1>10. g = IF Len(v) = 0 THEN 0 ELSE v[1]
  <2>1. CASE k = 1
    <3>1. g = IF 1 < m THEN w[1 + 1] ELSE 0
      BY <1>5, <2>1
    <3>2. CASE m = 1
      BY <1>3, <3>1, <3>2
    <3>3. CASE m # 1
      <4>1. 1 \in 1 .. m - 1 /\ 1 < m /\ Len(v) # 0
        BY <1>1, <1>3, <2>1, <3>3
      <4>2. v[1] = w[1 + 1]
        BY <1>8, <2>1, <4>1
      <4> QED
        BY <3>1, <4>1, <4>2
    <3> QED
      BY <3>2, <3>3
  <2>2. CASE k # 1
    <3>0. 1 \in 1 .. m - 1 /\ 1 < k /\ m - 1 # 0 /\ m # 0
      <4> HIDE DEF m
      <4>1. k \in 1 .. m
        BY DEF m
      <4> QED
        BY <1>1, <2>2, <4>1
    <3>1. 1 \in 1 .. m - 1 /\ 1 < k /\ Len(v) # 0 /\ m # 0
      BY <1>3, <3>0
    <3>2. v[1] = w[1]
      BY <1>8, <3>1
    <3>3. h = w[1]
      BY <3>1 DEF Chain
    <3> QED
      BY <2>2, <3>1, <3>2, <3>3
  <2> QED
    BY <2>1, <2>2
<1>11. ASSUME NEW j \in 1 .. m - 1
       PROVE  e[v[j]].next = IF j < m - 1 THEN v[j + 1] ELSE 0
  <2>1. CASE j < k /\ j # k - 1
    <3>1. j \in 1 .. m /\ j # k /\ v[j] = w[j] /\ j < m /\ j < m - 1 /\ j + 1 < k /\ j + 1 \in 1 .. m - 1
      BY <1>1, <1>8, <2>1
    <3>2. v[j + 1] = w[j + 1]
      BY <1>8, <3>1
    <3>3. e[w[j]].next = s[w[j]].next
      BY <1>7, <2>1, <3>1
    <3>4. s[w[j]].next = w[j + 1]
      BY <1>5, <3>1
    <3> QED
      BY <3>1, <3>2, <3>3, <3>4
  <2>2. CASE j = k - 1
    <3>1. j < k /\ j \in 1 .. m /\ j # k /\ k > 1 /\ j + 1 = k /\ k \in 1 .. m
      BY <1>1, <2>2
    <3>2. v[j] = w[j]
      BY <1>8, <3>1
    <3>3. e[w[j]].next = s[w[k]].next
      BY <1>7, <2>2, <3>1
    <3>4. s[w[k]].next = IF k < m THEN w[k + 1] ELSE 0
      BY <1>5, <3>1
    <3>5. CASE k < m
      <4>1. k \in 1 .. m - 1 /\ ~(k < k) /\ j < m - 1
        BY <1>1, <3>1, <3>5
      <4>2. v[k] = w[k + 1]
        BY <1>8, <4>1
      <4> QED
        BY <3>1, <3>2, <3>3, <3>4, <3>5, <4>1, <4>2
    <3>6. CASE ~(k < m)
      <4>1. ~(j < m - 1)
        BY <1>1, <3>1, <3>6
      <4> QED
        BY <3>2, <3>3, <3>4, <3>6, <4>1
    <3> QED
      BY <3>5, <3>6
  <2>3. CASE ~(j < k)
    <3>1. j + 1 \in 1 .. m /\ j + 1 # k /\ v[j] = w[j + 1] /\ j + 1 # k - 1
      BY <1>1, <1>8, <2>3
    <3>2. e[w[j + 1]].next = s[w[j + 1]].next
      BY <1>7, <3>1
    <3>3. s[w[j + 1]].next = IF j + 1 < m THEN w[j + 1 + 1] ELSE 0
      BY <1>5, <3>1
    <3>4. CASE j < m - 1
      <4>1. j + 1 \in 1 .. m - 1 /\ ~(j + 1 < k) /\ j + 1 < m
        BY <1>1, <2>3, <3>4
      <4>2. v[j + 1] = w[j + 1 + 1]
        BY <1>8, <4>1
      <4> QED
        BY <3>1, <3>2, <3>3, <3>4, <4>1, <4>2
    <3>5. CASE ~(j < m - 1)
      <4>1. ~(j + 1 < m)
        BY <1>1, <3>5
      <4> QED
        BY <3>1, <3>2, <3>3, <3>5, <4>1
    <3> QED
      BY <3>4, <3>5
  <2>4. (j < k /\ j # k - 1) \/ j = k - 1 \/ ~(j < k)
    OBVIOUS
  <2> QED
    BY ONLY <2>1, <2>2, <2>3, <2>4
<1>12. ASSUME NEW j \in 1 .. Len(e) PROVE e[j].next <= Len(e)
  <2>1. \A i \in 1 .. Len(s) : s[i].next <= Len(s)
    BY DEF Chain
  <2>2. j \in 1 .. Len(s) /\ w[k] \in 1 .. Len(s)
    BY <1>1, <1>6
  <2>3. e[j].next = 0 \/ e[j].next = s[w[k]].next \/ e[j].next = s[j].next
    BY <2>2 DEF NodeRemoved
  <2> QED
    BY <1>1, <1>6, <2>1, <2>2, <2>3
<1>13. ASSUME NEW j \in 1 .. Len(e) PROVE e[j].freed = IF OnChain(v, j) THEN 0 ELSE 1
  <2>1. j \in 1 .. Len(s)
    BY <1>6
  <2>2. s[j].freed = IF OnChain(w, j) THEN 0 ELSE 1
    BY <2>1 DEF Chain
  <2>3. ASSUME OnChain(v, j) PROVE OnChain(w, j) /\ j # w[k]
    <3>1. PICK i \in 1 .. m - 1 : v[i] = j
      BY <1>3, <2>3 DEF OnChain
    <3>2. PICK b \in 1 .. m : b # k /\ j = w[b]
      BY <1>8, <3>1
    <3> QED
      BY <1>4, <3>2 DEF OnChain
  <2>4. ASSUME OnChain(w, j), j # w[k] PROVE OnChain(v, j)
    <3>1. PICK b \in 1 .. m : w[b] = j
      BY <2>4 DEF OnChain
    <3>2. b # k
      BY <2>4, <3>1
    <3>3. CASE b < k
      <4>1. b \in 1 .. m - 1
        BY <1>1, <3>3
      <4>2. v[b] = j
        BY <1>8, <3>1, <3>3, <4>1
      <4> QED
        BY <1>3, <4>1, <4>2 DEF OnChain
    <3>4. CASE ~(b < k)
      <4>1. b - 1 \in 1 .. m - 1 /\ ~(b - 1 < k) /\ b - 1 + 1 = b
        BY <1>1, <3>2, <3>4
      <4>2. v[b - 1] = j
        BY <1>8, <3>1, <4>1
      <4> QED
        BY <1>3, <4>1, <4>2 DEF OnChain
    <3> QED
      BY <3>3, <3>4
  <2>5. e[j].freed = IF j = w[k] THEN 1 ELSE s[j].freed
    BY <2>1 DEF NodeRemoved
  <2> QED
    BY <2>2, <2>3, <2>4, <2>5
<1> HIDE DEF g
<1>14. Chain(g, e, v)
  <2>1. v \in Seq(1 .. Len(e))
    BY <1>3, <1>6
  <2>2. ASSUME NEW j \in 1 .. Len(v) PROVE e[v[j]].next = IF j < Len(v) THEN v[j + 1] ELSE 0
    BY <1>3, <1>11
  <2> QED
    BY <1>6, <1>9, <1>10, <1>12, <1>13, <2>1, <2>2 DEF Chain
<1>15. OnList(e, v) = RemoveAt(OnList(s, w), k)
  <2> DEFINE a == OnList(s, w)
             b == OnList(e, v)
             c == RemoveAt(a, k)
  <2>1. a \in Seq(Things) /\ Len(a) = m /\ \A j \in 1 .. m : a[j] = s[w[j]].data
    BY OnListIs
  <2>2. b \in Seq(Things) /\ Len(b) = Len(v) /\ \A j \in 1 .. Len(v) : b[j] = e[v[j]].data
    BY <1>14, OnListIs
  <2>3. /\ c \in Seq(Things) /\ Len(c) = Len(a) - 1
        /\ \A j \in 1 .. Len(a) - 1 : c[j] = IF j < k THEN a[j] ELSE a[j + 1]
    <3> HIDE DEF a
    <3>1. a \in Seq(Things) /\ k \in 1 .. Len(a)
      BY <2>1
    <3> QED
      BY <3>1, RemoveAtProperties
  <2> HIDE DEF a, b, c
  <2>4. ASSUME NEW j \in 1 .. Len(b) PROVE b[j] = c[j]
    <3>1. j \in 1 .. m - 1 /\ b[j] = e[v[j]].data
      BY <1>3, <2>2
    <3>2. \A i \in 1 .. m : e[w[i]].data = a[i]
      BY <1>1, <2>1 DEF NodeRemoved
    <3>3. CASE j < k
      <4>1. j \in 1 .. m /\ v[j] = w[j]
        BY <1>8, <3>1, <3>3
      <4>2. c[j] = a[j]
        BY <2>1, <2>3, <3>1, <3>3
      <4> QED
        BY <3>1, <3>2, <4>1, <4>2
    <3>4. CASE ~(j < k)
      <4>1. j + 1 \in 1 .. m /\ v[j] = w[j + 1]
        BY <1>8, <3>1, <3>4
      <4>2. c[j] = a[j + 1]
        BY <2>1, <2>3, <3>1, <3>4
      <4> QED
        BY <3>1, <3>2, <4>1, <4>2
    <3> QED
      BY <3>3, <3>4
  <2>5. Len(b) = Len(c)
    BY <1>3, <2>1, <2>2, <2>3
  <2>6. b = c
    BY <2>2, <2>3, <2>4, <2>5, SeqEqual
  <2> QED
    BY <2>6 DEF a, b, c
<1> QED
  BY <1>14, <1>15 DEF v, g

(* Where an item comes first.                                              *)
First(xs, x, k) == k \in 1 .. Len(xs) /\ xs[k] = x /\ \A j \in 1 .. k - 1 : xs[j] # x

LEMMA FirstExists ==
  ASSUME NEW S, NEW xs \in Seq(S), NEW x, NEW i \in 1 .. Len(xs), xs[i] = x
  PROVE  \E k : First(xs, x, k)
<1> DEFINE P == {n \in Nat : \A j \in 1 .. Len(xs) : j <= n /\ xs[j] = x => \E k : First(xs, x, k)}
<1>0. Len(xs) \in Nat
  BY LenProperties
<1>1. 0 \in P
  BY <1>0
<1>2. ASSUME NEW n \in Nat, n \in P PROVE n + 1 \in P
  <2> SUFFICES ASSUME NEW j \in 1 .. Len(xs), j <= n + 1, xs[j] = x
               PROVE  \E k : First(xs, x, k)
    OBVIOUS
  <2>1. CASE \E b \in 1 .. j - 1 : xs[b] = x
    <3>1. PICK b \in 1 .. j - 1 : xs[b] = x
      BY <2>1
    <3>2. b \in 1 .. Len(xs) /\ b <= n
      BY <1>0
    <3> QED
      BY <1>2, <3>1, <3>2
  <2>2. CASE ~ \E b \in 1 .. j - 1 : xs[b] = x
    <3>1. First(xs, x, j)
      BY <2>2 DEF First
    <3> QED
      BY <3>1
  <2> QED
    BY <2>1, <2>2
<1> HIDE DEF P
<1>3. \A n \in Nat : n \in P
  BY <1>1, <1>2, NaturalInduction
<1>4. i \in P /\ i <= i
  BY <1>0, <1>3
<1> QED
  BY <1>4 DEF P

LEMMA RemoveFirstIs ==
  ASSUME NEW S, NEW xs \in Seq(S), NEW x, NEW k, First(xs, x, k)
  PROVE  Container!List!RemoveFirst(xs, x) = RemoveAt(xs, k)
<1> DEFINE I == {i \in 1 .. Len(xs) : xs[i] = x}
<1>0. Len(xs) \in Nat
  BY LenProperties
<1>1. k \in I /\ \A i \in I : k <= i
  BY <1>0 DEF First
<1>2. \A i \in I : (\A j \in I : i <= j) => i = k
  BY <1>0, <1>1
<1>3. Container!List!SelectInSeq(xs, LAMBDA v : v = x) = k
  <2>1. Container!List!SelectInSeq(xs, LAMBDA v : v = x) = Container!List!Min(I)
    BY <1>1 DEF Container!List!SelectInSeq
  <2> HIDE DEF I
  <2>2. Container!List!Min(I) = CHOOSE i \in I : \A j \in I : i <= j
    BY DEF Container!List!Min
  <2> QED
    BY <1>1, <1>2, <2>1, <2>2
<1>4. Container!List!RemoveAt(xs, k) = RemoveAt(xs, k)
  BY DEF Container!List!RemoveAt, RemoveAt
<1> QED
  BY <1>1, <1>3, <1>4 DEF Container!List!RemoveFirst

NodeFreed(q) == [q EXCEPT !.next = 0, !.freed = @ + 1]

LEMMA NodeFreedIs ==
  ASSUME NEW q \in Nodes
  PROVE  /\ NodeFreed(q) \in Nodes /\ NodeFreed(q).data = q.data
         /\ NodeFreed(q).next = 0 /\ NodeFreed(q).freed = q.freed + 1
<1> DEFINE r == NodeFreed(q)
<1>1. q = [f \in {"data", "next", "freed"} |-> q[f]] /\ q.data \in Things /\ q.freed \in Nat
  BY DEF Nodes
<1>2. r = [f \in {"data", "next", "freed"} |-> r[f]]
  BY <1>1 DEF NodeFreed
<1>3. r.data = q.data
  BY <1>1 DEF NodeFreed
<1>4. r.next = 0
  BY <1>1 DEF NodeFreed
<1>5. r.freed = q.freed + 1
  BY <1>1 DEF NodeFreed
<1> HIDE DEF r
<1>6. r = [data |-> r.data, next |-> r.next, freed |-> r.freed]
  BY <1>2
<1>7. r \in Nodes
  BY <1>1, <1>3, <1>4, <1>5, <1>6 DEF Nodes
<1> QED
  BY <1>3, <1>4, <1>5, <1>7 DEF r

(* g_list_remove in parts.                                                 *)
Holding(l, x) ==
  {j \in DOMAIN Container!Walk(l) : l.node[Container!Walk(l)[j]].data = x}
FirstHolding(l, x) == CHOOSE i \in Holding(l, x) : \A j \in Holding(l, x) : i <= j
NodeDropped(l, n) == [l EXCEPT !.node[n].next = 0, !.node[n].freed = @ + 1]

LEMMA ListRemoveIs ==
  ASSUME NEW l, NEW x
  PROVE  Container!ListRemove(l, x) =
           IF Holding(l, x) = {} THEN l
           ELSE LET k == FirstHolding(l, x)
                    n == Container!Walk(l)[k]
                    prev == IF k = 1 THEN 0 ELSE Container!Walk(l)[k - 1]
                IN  NodeDropped(Container!Unlink(l, prev, n), n)
BY DEF Container!ListRemove, Holding, FirstHolding, NodeDropped

LEMMA NodeDroppedIs ==
  ASSUME NEW h, NEW c, NEW n
  PROVE  NodeDropped(Linked(h, c), n) = Linked(h, [c EXCEPT ![n] = NodeFreed(c[n])])
<1> DEFINE r == NodeDropped(Linked(h, c), n)
           e == [c EXCEPT ![n] = NodeFreed(c[n])]
<1>1. r = [f \in {"head", "node"} |-> r[f]]
  BY DEF NodeDropped, Linked
<1>2. r.head = h
  BY DEF NodeDropped, Linked
<1>3. r.node = e
  BY DEF NodeDropped, NodeFreed, Linked
<1> HIDE DEF r, e
<1>4. r = [head |-> r.head, node |-> r.node]
  BY <1>1
<1>5. r = Linked(h, e)
  BY <1>2, <1>3, <1>4 DEF Linked
<1> QED
  BY <1>5 DEF r, e

LEMMA ListRemoves ==
  ASSUME NEW l, NEW xs, ListHas(l, xs), NEW x, NEW k, First(xs, x, k)
  PROVE  ListHas(Container!ListRemove(l, x), RemoveAt(xs, k))
<1>1. PICK h, s, w : l = Linked(h, s) /\ Chain(h, s, w) /\ xs = OnList(s, w)
  BY DEF ListHas
<1> DEFINE n == w[k]
           r == NodeFreed(s[n])
<1>2. /\ Len(s) \in Nat /\ Len(w) \in Nat /\ Container!Walk(l) = w
      /\ DOMAIN w = 1 .. Len(w)
      /\ \A j \in 1 .. Len(w) : w[j] \in 1 .. Len(s)
      /\ l.node = s /\ l.head = h /\ s \in Seq(Nodes)
  BY <1>1, ChainIs, WalkIs, LinkedFields DEF Chain
<1>3. Len(xs) = Len(w) /\ \A j \in 1 .. Len(w) : xs[j] = s[w[j]].data
  BY <1>1, OnListIs
<1>4. k \in 1 .. Len(w) /\ s[w[k]].data = x /\ \A j \in 1 .. k - 1 : s[w[j]].data # x
  <2>1. \A j \in 1 .. k - 1 : j \in 1 .. Len(w)
    BY <1>2, <1>3 DEF First
  <2> QED
    BY <1>3, <2>1 DEF First
<1>5. n \in 1 .. Len(s) /\ s[n] \in Nodes /\ s[n].freed = 0
  <2>1. n \in 1 .. Len(s)
    BY <1>2, <1>4
  <2>2. OnChain(w, n)
    BY <1>4 DEF OnChain
  <2>3. s[n].freed = 0
    BY <1>1, <2>1, <2>2 DEF Chain
  <2>4. s[n] \in Nodes
    BY <1>2, <2>1, ElementOfSeq
  <2> QED
    BY <2>1, <2>3, <2>4
<1>6. r \in Nodes /\ r.data = s[n].data /\ r.next = 0 /\ r.freed = 1
  BY <1>5, NodeFreedIs
<1>7. k \in Holding(l, x) /\ \A j \in Holding(l, x) : j \in Nat /\ k <= j
  BY <1>2, <1>4 DEF Holding
<1>8. FirstHolding(l, x) = k
  <2>1. \A i \in Holding(l, x) : (\A j \in Holding(l, x) : i <= j) => i = k
    BY <1>7
  <2> QED
    BY <1>7, <2>1 DEF FirstHolding
<1> DEFINE prev == IF k = 1 THEN 0 ELSE w[k - 1]
           u == Container!Unlink(l, prev, n)
<1>9. Container!ListRemove(l, x) = NodeDropped(u, n)
  <2>1. Holding(l, x) # {}
    BY <1>7
  <2> QED
    BY <1>2, <1>8, <2>1, ListRemoveIs
<1>10. CASE k = 1
  <2> DEFINE e == [s EXCEPT ![n] = r]
  <2>1. u = Linked(s[n].next, s)
    BY <1>1, <1>2, <1>10, LinkedFields DEF Container!Unlink
  <2>2. Container!ListRemove(l, x) = Linked(s[n].next, e)
    BY <1>9, <2>1, NodeDroppedIs
  <2> HIDE DEF r, n
  <2>3. /\ e \in Seq(Nodes) /\ Len(e) = Len(s)
        /\ \A j \in 1 .. Len(s) : e[j] = IF j = n THEN r ELSE s[j]
    BY <1>2, <1>5, <1>6, ExceptSeq
  <2> HIDE DEF e
  <2>4. NodeRemoved(s, w, k, e)
    BY <1>6, <1>10, <2>3 DEF NodeRemoved, n
  <2>5. /\ Chain(IF k = 1 THEN s[w[k]].next ELSE h, e, RemoveAt(w, k))
        /\ OnList(e, RemoveAt(w, k)) = RemoveAt(OnList(s, w), k)
    BY <1>1, <1>4, <2>4, ChainRemoves
  <2>6. Chain(s[n].next, e, RemoveAt(w, k))
    BY <1>10, <2>5 DEF n
  <2> QED
    BY <1>1, <2>2, <2>5, <2>6 DEF ListHas
<1>11. CASE k # 1
  <2> DEFINE p == w[k - 1]
             t == [s[p] EXCEPT !.next = s[n].next]
             c == [s EXCEPT ![p] = t]
             e == [c EXCEPT ![n] = r]
  <2>1. k - 1 \in 1 .. Len(w) /\ p \in 1 .. Len(s) /\ p # n /\ p # 0 /\ k > 1
    <3>1. k - 1 \in 1 .. Len(w) /\ k - 1 # k /\ k > 1
      BY <1>2, <1>4, <1>11
    <3>2. p # n
      BY <1>1, <1>4, <3>1 DEF Chain
    <3> QED
      BY <1>2, <3>1, <3>2
  <2>2. s[p] \in Nodes
    BY <1>2, <2>1, ElementOfSeq
  <2>3. t \in Nodes /\ t.data = s[p].data /\ t.next = s[n].next /\ t.freed = s[p].freed
    BY <1>5, <2>2 DEF Nodes
  <2>4. u = Linked(h, c)
    <3>1. u = [Linked(h, s) EXCEPT !.node[p].next = s[n].next]
      BY <1>1, <1>2, <1>11, <2>1 DEF Container!Unlink
    <3> HIDE DEF p, n
    <3>2. [Linked(h, s) EXCEPT !.node[p].next = s[n].next] = Linked(h, c)
      BY DEF Linked
    <3> QED
      BY <3>1, <3>2
  <2> HIDE DEF t
  <2>5. /\ c \in Seq(Nodes) /\ Len(c) = Len(s)
        /\ \A j \in 1 .. Len(s) : c[j] = IF j = p THEN t ELSE s[j]
    <3> HIDE DEF p, n
    <3> QED
      BY <1>2, <2>1, <2>3, ExceptSeq
  <2>6. c[n] = s[n]
    BY <1>5, <2>1, <2>5
  <2> HIDE DEF c
  <2>7. Container!ListRemove(l, x) = Linked(h, e)
    BY <1>9, <2>4, <2>6, NodeDroppedIs
  <2> HIDE DEF r, n, p
  <2>8. /\ e \in Seq(Nodes) /\ Len(e) = Len(c)
        /\ \A j \in 1 .. Len(c) : e[j] = IF j = n THEN r ELSE c[j]
    BY <1>5, <1>6, <2>5, ExceptSeq
  <2> HIDE DEF e
  <2>9. NodeRemoved(s, w, k, e)
    <3>1. e \in Seq(Nodes) /\ Len(e) = Len(s)
      BY <2>5, <2>8
    <3>2. ASSUME NEW j \in 1 .. Len(s)
          PROVE  e[j] = IF j = n THEN r ELSE IF j = p THEN t ELSE s[j]
      BY <2>5, <2>8
    <3>3. ASSUME NEW j \in 1 .. Len(s)
          PROVE  /\ e[j].data = s[j].data
                 /\ e[j].freed = IF j = n THEN 1 ELSE s[j].freed
                 /\ e[j].next = IF j = n THEN 0 ELSE IF j = p THEN s[n].next ELSE s[j].next
      BY <1>6, <2>3, <3>2
    <3> QED
      BY <2>1, <3>1, <3>3 DEF NodeRemoved, n, p
  <2>10. /\ Chain(IF k = 1 THEN s[w[k]].next ELSE h, e, RemoveAt(w, k))
         /\ OnList(e, RemoveAt(w, k)) = RemoveAt(OnList(s, w), k)
    BY <1>1, <1>4, <2>9, ChainRemoves
  <2>11. Chain(h, e, RemoveAt(w, k))
    BY <1>11, <2>10
  <2> QED
    BY <1>1, <2>7, <2>10, <2>11 DEF ListHas
<1> QED
  BY <1>10, <1>11

LEMMA ListKeeps ==
  ASSUME NEW l, NEW xs, ListHas(l, xs), NEW x, \A j \in 1 .. Len(xs) : xs[j] # x
  PROVE  Container!ListRemove(l, x) = l
<1>1. PICK h, s, w : l = Linked(h, s) /\ Chain(h, s, w) /\ xs = OnList(s, w)
  BY DEF ListHas
<1>2. /\ Container!Walk(l) = w /\ l.node = s
      /\ DOMAIN w = 1 .. Len(w)
      /\ Len(xs) = Len(w) /\ \A j \in 1 .. Len(w) : xs[j] = s[w[j]].data
  BY <1>1, ChainIs, WalkIs, LinkedFields, OnListIs
<1>3. Holding(l, x) = {}
  BY <1>2 DEF Holding
<1> QED
  BY <1>3, ListRemoveIs

(* g_list_free: the nodes on the chain are released, and none stays.       *)
LEMMA ListFrees ==
  ASSUME NEW l, NEW xs, ListHas(l, xs)
  PROVE  ListHas(Container!ListFree(l), <<>>)
<1>1. PICK h, s, w : l = Linked(h, s) /\ Chain(h, s, w) /\ xs = OnList(s, w)
  BY DEF ListHas
<1> DEFINE Released(q) == [q EXCEPT !.freed = @ + 1]
           e == [n \in 1 .. Len(s) |-> IF OnChain(w, n) THEN Released(s[n]) ELSE s[n]]
           none == <<>>
<1>2. /\ Len(s) \in Nat /\ Container!Walk(l) = w
      /\ DOMAIN w = 1 .. Len(w) /\ DOMAIN s = 1 .. Len(s) /\ l.node = s
  BY <1>1, ChainIs, WalkIs, LinkedFields
<1>3. \A n \in 1 .. Len(s) : s[n] \in Nodes
  BY <1>1, ElementOfSeq DEF Chain
<1>4. ASSUME NEW q \in Nodes
      PROVE  /\ Released(q) \in Nodes /\ Released(q).next = q.next
             /\ Released(q).freed = q.freed + 1
  BY DEF Nodes
<1>5. Container!ListFree(l) = Linked(0, e)
  BY <1>2 DEF Container!ListFree, Linked, OnChain
<1> HIDE DEF Released
<1>6. \A n \in 1 .. Len(s) : e[n] = IF OnChain(w, n) THEN Released(s[n]) ELSE s[n]
  OBVIOUS
<1>7. \A n \in 1 .. Len(s) : e[n] \in Nodes /\ e[n].next = s[n].next
  BY <1>3, <1>4, <1>6
<1>8. \A n \in 1 .. Len(s) : s[n].freed = IF OnChain(w, n) THEN 0 ELSE 1
  BY <1>1 DEF Chain
<1>9. ASSUME NEW n \in 1 .. Len(s) PROVE e[n].freed = 1
  <2>1. CASE OnChain(w, n)
    BY <1>3, <1>4, <1>6, <1>8, <2>1
  <2>2. CASE ~OnChain(w, n)
    BY <1>6, <1>8, <2>2
  <2> QED
    BY <2>1, <2>2
<1>10. e \in Seq(Nodes) /\ Len(e) = Len(s)
  <2>1. e = [n \in 1 .. Len(s) |-> e[n]]
    OBVIOUS
  <2> HIDE DEF e
  <2> QED
    BY <1>2, <1>7, <2>1
<1> HIDE DEF e
<1>11. none \in Seq(1 .. Len(e)) /\ Len(none) = 0
  OBVIOUS
<1>12. OnList(e, none) = none
  BY <1>11 DEF OnList
<1> HIDE DEF none
<1>13. \A n : ~OnChain(none, n)
  BY <1>11 DEF OnChain
<1>14. \A n \in 1 .. Len(s) : s[n].next <= Len(s)
  BY <1>1 DEF Chain
<1>15. Chain(0, e, none)
  BY <1>7, <1>9, <1>10, <1>11, <1>13, <1>14 DEF Chain
<1>16. ListHas(Linked(0, e), none)
  BY <1>12, <1>15 DEF ListHas
<1> QED
  BY <1>5, <1>16 DEF none

LEMMA ListNew == ListHas(Container!NewList, <<>>)
<1> DEFINE none == <<>>
<1>1. none \in Seq(Nodes) /\ none \in Seq(1 .. Len(none)) /\ Len(none) = 0
  OBVIOUS
<1>2. Container!NewList = Linked(0, none)
  BY DEF Container!NewList, Linked
<1>3. OnList(none, none) = none
  BY <1>1 DEF OnList
<1> HIDE DEF none
<1>4. Chain(0, none, none)
  BY <1>1 DEF Chain
<1>5. ListHas(Container!NewList, none)
  BY <1>2, <1>3, <1>4 DEF ListHas
<1> QED
  BY <1>5 DEF none

LEMMA ListTyped ==
  ASSUME NEW l, NEW xs, ListHas(l, xs)
  PROVE  /\ l.head \in 0 .. Len(l.node)
         /\ l.node \in Seq([data: Things, next: 0 .. Len(l.node), freed: Nat])
<1>1. PICK h, s, w : l = Linked(h, s) /\ Chain(h, s, w)
  BY DEF ListHas
<1>2. h \in 0 .. Len(s) /\ Len(s) \in Nat /\ s \in Seq(Nodes)
  BY <1>1, ChainIs DEF Chain
<1>3. \A n \in 1 .. Len(s) : s[n] \in Nodes /\ s[n].next <= Len(s)
  BY <1>1, <1>2, ElementOfSeq DEF Chain
<1>4. \A n \in 1 .. Len(s) : s[n] \in [data: Things, next: 0 .. Len(s), freed: Nat]
  BY <1>2, <1>3 DEF Nodes
<1>5. s = [n \in 1 .. Len(s) |-> s[n]]
  BY <1>2, LenProperties
<1>6. s \in Seq([data: Things, next: 0 .. Len(s), freed: Nat])
  <2> DEFINE R == [data: Things, next: 0 .. Len(s), freed: Nat]
  <2>1. \A n \in 1 .. Len(s) : s[n] \in R
    BY <1>4
  <2> HIDE DEF R
  <2>2. s \in Seq(R)
    BY <1>2, <1>5, <2>1
  <2> QED
    BY <2>2 DEF R
<1> QED
  BY <1>1, <1>2, <1>6, LinkedFields

LEMMA ListAccounts ==
  ASSUME NEW l, NEW xs, ListHas(l, xs)
  PROVE  /\ Container!IsInjective(Container!Walk(l))
         /\ \A n \in DOMAIN l.node :
              l.node[n].freed = IF Container!Contains(Container!Walk(l), n) THEN 0 ELSE 1
<1>1. PICK h, s, w : l = Linked(h, s) /\ Chain(h, s, w)
  BY DEF ListHas
<1>2. Container!Walk(l) = w /\ l.node = s /\ DOMAIN w = 1 .. Len(w) /\ DOMAIN s = 1 .. Len(s)
  BY <1>1, WalkIs, LinkedFields, ChainIs
<1>3. Container!IsInjective(w)
  BY <1>1, <1>2 DEF Container!IsInjective, Chain
<1>4. \A n \in 1 .. Len(s) : s[n].freed = IF OnChain(w, n) THEN 0 ELSE 1
  BY <1>1 DEF Chain
<1>5. \A n : Container!Contains(w, n) <=> OnChain(w, n)
  BY DEF Container!Contains, OnChain
<1> QED
  BY <1>2, <1>3, <1>4, <1>5

-----------------------------------------------------------------------------
(* The steps of the client.  The container holds what its client sees; a   *)
(* GPtrArray that was not made longer by g_ptr_array_set_size shows no     *)
(* slot that was never written.                                            *)
Defined == Things \cup {Nil}
Has(k, a, xs) ==
  \/ k = "GArray" /\ ArrayHas(a, xs)
  \/ k = "GPtrArray" /\ PtrHas(a, xs)
  \/ k = "GList" /\ ListHas(a, xs)

ContainerInv ==
  /\ kind \in Container!Kinds
  /\ done \in BOOLEAN
  /\ sized \in BOOLEAN
  /\ \E xs : /\ Has(kind, store, xs)
             /\ kind = "GPtrArray" /\ ~sized => xs \in Seq(Defined)

ContentsOf(k, a) ==
  IF k = "GArray" THEN Container!ArrayItems(a)
  ELSE IF k = "GPtrArray" THEN Container!PtrItems(a) ELSE Container!ListItems(a)

LEMMA ContentsAre ==
  /\ Container!Contents = ContentsOf(kind, store)
  /\ Container!Contents' = ContentsOf(kind', store')
BY DEF Container!Contents, ContentsOf

LEMMA HasReads ==
  ASSUME NEW k, NEW a, NEW xs, Has(k, a, xs)
  PROVE  ContentsOf(k, a) = xs /\ Len(xs) \in Nat
<1>1. CASE k = "GArray"
  BY <1>1, ArrayReads DEF Has, ContentsOf
<1>2. CASE k = "GPtrArray"
  BY <1>2, PtrReads DEF Has, ContentsOf
<1>3. CASE k = "GList"
  BY <1>3, ListReads DEF Has, ContentsOf
<1> QED
  BY <1>1, <1>2, <1>3 DEF Has

LEMMA ContentsIs ==
  /\ \A xs : Has(kind, store, xs) => Container!Contents = xs
  /\ \A xs : Has(kind', store', xs) => Container!Contents' = xs
BY ContentsAre, HasReads

(* What the abstract client sees of a call, and of one that failed.        *)
LEMMA Fails ==
  ASSUME ~done', Container!Contents' = Container!Contents
  PROVE  Container!List!Next
BY DEF Container!List!Next, Container!List!Keep

LEMMA Inserts ==
  ASSUME NEW i, NEW x, call' = Container!Call("insert", i, <<x>>), done' = TRUE,
         Container!Contents' = InsertAt(Container!Contents, i + 1, x)
  PROVE  Container!List!Next
<1>1. call'.op = "insert" /\ call'.n = i /\ call'.with[1] = x
  BY DEF Container!Call
<1>2. Container!List!Insert
  BY <1>1 DEF Container!List!Insert, Container!List!InsertAt, InsertAt
<1> QED
  BY <1>1, <1>2 DEF Container!List!Next

LEMMA RemovesIndex ==
  ASSUME NEW i, call' = Container!Call("remove", i, <<>>), done' = TRUE,
         Container!Contents' = RemoveAt(Container!Contents, i + 1)
  PROVE  Container!List!Next
<1>1. call'.op = "remove" /\ call'.n = i
  BY DEF Container!Call
<1>2. Container!List!RemoveIndex
  BY <1>1 DEF Container!List!RemoveIndex, Container!List!RemoveAt, RemoveAt
<1> QED
  BY <1>1, <1>2 DEF Container!List!Next

LEMMA Sets ==
  ASSUME NEW i, NEW x, call' = Container!Call("set", i, <<x>>), done' = TRUE,
         Container!Contents' = [Container!Contents EXCEPT ![i + 1] = x]
  PROVE  Container!List!Next
<1>1. call'.op = "set" /\ call'.n = i /\ call'.with[1] = x
  BY DEF Container!Call
<1>2. Container!List!Set
  BY <1>1 DEF Container!List!Set
<1> QED
  BY <1>1, <1>2 DEF Container!List!Next

LEMMA Appends ==
  ASSUME NEW ys, call' = Container!Call("append", 0, ys), done' = TRUE,
         Container!Contents' = Container!Contents \o ys
  PROVE  Container!List!Next
<1>1. call'.op = "append" /\ call'.with = ys
  BY DEF Container!Call
<1>2. Container!List!AppendItems
  BY <1>1 DEF Container!List!AppendItems
<1> QED
  BY <1>1, <1>2 DEF Container!List!Next

LEMMA Prepends ==
  ASSUME NEW ys, call' = Container!Call("prepend", 0, ys), done' = TRUE,
         Container!Contents' = ys \o Container!Contents
  PROVE  Container!List!Next
<1>1. call'.op = "prepend" /\ call'.with = ys
  BY DEF Container!Call
<1>2. Container!List!PrependItems
  BY <1>1 DEF Container!List!PrependItems
<1> QED
  BY <1>1, <1>2 DEF Container!List!Next

LEMMA Resizes ==
  ASSUME NEW n, call' = Container!Call("size", n, <<>>), done' = TRUE,
         Len(Container!Contents') = n,
         \A i \in DOMAIN Container!Contents \cap DOMAIN Container!Contents' :
           Container!Contents'[i] = Container!Contents[i]
  PROVE  Container!List!Next
<1>1. call'.op = "size" /\ call'.n = n
  BY DEF Container!Call
<1>2. Container!List!SetSize
  BY <1>1 DEF Container!List!SetSize
<1> QED
  BY <1>1, <1>2 DEF Container!List!Next

LEMMA Reserves ==
  ASSUME NEW n, call' = Container!Call("capacity", n, <<>>), done' = TRUE,
         Container!Contents' = Container!Contents
  PROVE  Container!List!Next
<1>1. call'.op = "capacity"
  BY DEF Container!Call
<1> QED
  BY <1>1 DEF Container!List!Next, Container!List!Keep

LEMMA Frees ==
  ASSUME call' = Container!Call("free", 0, <<>>), done' = TRUE,
         Container!Contents' = <<>>
  PROVE  Container!List!Next
<1>1. call'.op = "free"
  BY DEF Container!Call
<1> QED
  BY <1>1 DEF Container!List!Next

LEMMA RemovesFirst ==
  ASSUME NEW x, NEW k, NEW S, Container!Contents \in Seq(S),
         First(Container!Contents, x, k),
         call' = Container!Call("remove_item", 0, <<x>>), done' = TRUE,
         Container!Contents' = RemoveAt(Container!Contents, k)
  PROVE  Container!List!Next
<1> DEFINE xs == Container!Contents
<1>1. call'.op = "remove_item" /\ call'.with[1] = x
  BY DEF Container!Call
<1>2. Container!List!Contains(xs, x)
  BY DEF Container!List!Contains, First
<1>3. Container!List!RemoveFirst(xs, x) = RemoveAt(xs, k)
  BY RemoveFirstIs
<1>4. Container!List!RemoveItem
  BY <1>1, <1>2, <1>3 DEF Container!List!RemoveItem
<1> QED
  BY <1>1, <1>4 DEF Container!List!Next

LEMMA RemovesNothing ==
  ASSUME NEW x, \A j \in 1 .. Len(Container!Contents) : Container!Contents[j] # x,
         call' = Container!Call("remove_item", 0, <<x>>), done' = TRUE,
         Container!Contents' = Container!Contents
  PROVE  Container!List!Next
<1>1. call'.op = "remove_item" /\ call'.with[1] = x
  BY DEF Container!Call
<1>2. ~Container!List!Contains(Container!Contents, x)
  BY DEF Container!List!Contains
<1>3. Container!List!RemoveItem
  BY <1>1, <1>2 DEF Container!List!RemoveItem
<1> QED
  BY <1>1, <1>3 DEF Container!List!Next

(* A call is carried out, or has no effect.                                *)
Stepped(xs, ys) ==
  /\ kind' = kind /\ done' \in BOOLEAN
  /\ Has(kind', store', xs) \/ Has(kind', store', ys)
  /\ Container!List!Next

LEMMA CallMade ==
  ASSUME NEW op, NEW n, NEW with, NEW needs, NEW result,
         Container!Calls(op, n, with, needs, result),
         NEW xs, Has(kind, store, xs), NEW ys, Has(kind, result, ys),
         /\ done' = TRUE /\ call' = Container!Call(op, n, with)
         /\ Container!Contents = xs /\ Container!Contents' = ys
         => Container!List!Next
  PROVE  Stepped(xs, ys)
<1>1. kind' = kind /\ call' = Container!Call(op, n, with) /\ done' \in BOOLEAN
  BY DEF Container!Calls
<1>2. (done' /\ store' = result) \/ (~done' /\ store' = store)
  BY DEF Container!Calls
<1>3. Container!Contents = xs
  BY ContentsIs
<1>4. CASE done' /\ store' = result
  <2>1. Has(kind', store', ys)
    BY <1>1, <1>4
  <2>2. Container!Contents' = ys
    BY <2>1, ContentsIs
  <2>3. done' = TRUE
    BY <1>1, <1>4
  <2>4. Container!List!Next
    BY <1>1, <1>3, <2>2, <2>3
  <2> QED
    BY <1>1, <2>1, <2>4 DEF Stepped
<1>5. CASE ~done' /\ store' = store
  <2>1. Has(kind', store', xs)
    BY <1>1, <1>5
  <2>2. Container!Contents' = xs
    BY <2>1, ContentsIs
  <2>3. ~done' /\ Container!Contents' = Container!Contents
    BY <1>3, <1>5, <2>2
  <2>4. Container!List!Next
    BY <2>3, Fails
  <2> QED
    BY <1>1, <2>1, <2>4 DEF Stepped
<1> QED
  BY ONLY <1>2, <1>4, <1>5

LEMMA BatchIs ==
  ASSUME NEW ys \in Container!Batches
  PROVE  ys \in Seq(Things) /\ Len(ys) \in Nat
<1>1. PICK n \in 1 .. MaxBatch : ys \in [1 .. n -> Things]
  BY DEF Container!Batches
<1>2. n \in Nat
  BY ContainerConstants
<1>3. ys \in Seq(Things)
  BY <1>1, <1>2
<1> QED
  BY <1>3, LenProperties

LEMMA ArrayStep ==
  ASSUME Container!ArrayCalls, NEW xs, Has(kind, store, xs)
  PROVE  (\E ys : Stepped(xs, ys)) /\ kind = "GArray" /\ sized' = sized
<1>0. kind = "GArray" /\ sized' = sized /\ ArrayHas(store, xs)
  BY DEF Container!ArrayCalls, Has
<1>1. Container!Contents = xs /\ Container!Size = Len(xs) /\ Len(xs) \in Nat
  BY ContentsIs, HasReads DEF Container!Size
<1>2. \A a, ys : ArrayHas(a, ys) => Has(kind, a, ys)
  BY <1>0 DEF Has
<1>3. ASSUME NEW i \in 0 .. Len(xs), NEW x \in Things, Len(xs) + 1 <= MaxSize,
             Container!Calls("insert", i, <<x>>, Container!NeedsMemory(store, ItemLen),
                             Container!ArrayInsert(store, i, x))
      PROVE  \E ys : Stepped(xs, ys)
  <2> DEFINE ys == InsertAt(xs, i + 1, x)
  <2>1. Has(kind, Container!ArrayInsert(store, i, x), ys)
    BY <1>0, <1>2, <1>3, ArrayInserts DEF Slots
  <2>2. /\ done' = TRUE /\ call' = Container!Call("insert", i, <<x>>)
        /\ Container!Contents = xs /\ Container!Contents' = ys
        => Container!List!Next
    BY Inserts
  <2> HIDE DEF ys
  <2> QED
    BY <1>3, <2>1, <2>2, CallMade
<1>4. ASSUME NEW i \in 0 .. Len(xs) - 1,
             Container!Calls("remove", i, <<>>, FALSE, Container!ArrayRemove(store, i))
      PROVE  \E ys : Stepped(xs, ys)
  <2> DEFINE ys == RemoveAt(xs, i + 1)
  <2>1. Has(kind, Container!ArrayRemove(store, i), ys)
    BY <1>0, <1>2, ArrayRemoves
  <2>2. /\ done' = TRUE /\ call' = Container!Call("remove", i, <<>>)
        /\ Container!Contents = xs /\ Container!Contents' = ys
        => Container!List!Next
    BY RemovesIndex
  <2> HIDE DEF ys
  <2> QED
    BY <1>4, <2>1, <2>2, CallMade
<1>5. ASSUME NEW i \in 0 .. Len(xs) - 1, NEW x \in Things,
             Container!Calls("set", i, <<x>>, FALSE, Container!ArraySet(store, i, x))
      PROVE  \E ys : Stepped(xs, ys)
  <2> DEFINE ys == [xs EXCEPT ![i + 1] = x]
  <2>1. Has(kind, Container!ArraySet(store, i, x), ys)
    BY <1>0, <1>2, ArraySets DEF Slots
  <2>2. /\ done' = TRUE /\ call' = Container!Call("set", i, <<x>>)
        /\ Container!Contents = xs /\ Container!Contents' = ys
        => Container!List!Next
    BY Sets
  <2> HIDE DEF ys
  <2> QED
    BY <1>5, <2>1, <2>2, CallMade
<1>6. ASSUME NEW zs \in Container!Batches, Len(xs) + Len(zs) <= MaxSize, NEW needs,
             Container!Calls("append", 0, zs, needs, Container!ArrayAppend(store, zs))
      PROVE  \E ys : Stepped(xs, ys)
  <2> DEFINE ys == xs \o zs
  <2>0. zs \in Seq(Slots)
    BY BatchIs DEF Slots
  <2>1. Has(kind, Container!ArrayAppend(store, zs), ys)
    BY <1>0, <1>2, <1>6, <2>0, ArrayAppends
  <2>2. /\ done' = TRUE /\ call' = Container!Call("append", 0, zs)
        /\ Container!Contents = xs /\ Container!Contents' = ys
        => Container!List!Next
    BY Appends
  <2> HIDE DEF ys
  <2> QED
    BY <1>6, <2>1, <2>2, CallMade
<1>7. ASSUME NEW zs \in Container!Batches, Len(xs) + Len(zs) <= MaxSize, NEW needs,
             Container!Calls("prepend", 0, zs, needs, Container!ArrayPrepend(store, zs))
      PROVE  \E ys : Stepped(xs, ys)
  <2> DEFINE ys == zs \o xs
  <2>0. zs \in Seq(Slots)
    BY BatchIs DEF Slots
  <2>1. Has(kind, Container!ArrayPrepend(store, zs), ys)
    BY <1>0, <1>2, <1>7, <2>0, ArrayPrepends
  <2>2. /\ done' = TRUE /\ call' = Container!Call("prepend", 0, zs)
        /\ Container!Contents = xs /\ Container!Contents' = ys
        => Container!List!Next
    BY Prepends
  <2> HIDE DEF ys
  <2> QED
    BY <1>7, <2>1, <2>2, CallMade
<1>8. ASSUME NEW n \in 0 .. MaxSize, NEW needs,
             Container!Calls("size", n, <<>>, needs, Container!ArraySetSize(store, n))
      PROVE  \E ys : Stepped(xs, ys)
  <2>1. PICK ys : /\ ArrayHas(Container!ArraySetSize(store, n), ys)
                  /\ Len(ys) = n
                  /\ \A i \in DOMAIN xs \cap DOMAIN ys : ys[i] = xs[i]
    BY <1>0, ArrayResizes
  <2>2. /\ done' = TRUE /\ call' = Container!Call("size", n, <<>>)
        /\ Container!Contents = xs /\ Container!Contents' = ys
        => Container!List!Next
    BY <2>1, Resizes
  <2>3. Has(kind, Container!ArraySetSize(store, n), ys)
    BY <1>2, <2>1
  <2> QED
    BY <1>8, <2>2, <2>3, CallMade
<1>9. ASSUME NEW n \in 0 .. MaxSize, NEW needs,
             Container!Calls("capacity", n, <<>>, needs, Container!ArraySetCapacity(store, n))
      PROVE  \E ys : Stepped(xs, ys)
  <2>1. Has(kind, Container!ArraySetCapacity(store, n), xs)
    BY <1>0, <1>2, ArrayReserves
  <2>2. /\ done' = TRUE /\ call' = Container!Call("capacity", n, <<>>)
        /\ Container!Contents = xs /\ Container!Contents' = xs
        => Container!List!Next
    BY Reserves
  <2> QED
    BY <1>9, <2>1, <2>2, CallMade
<1>10. \E ys : Stepped(xs, ys)
  <2>1. CASE \E i \in 0 .. Len(xs), x \in Things :
               /\ Len(xs) + 1 <= MaxSize
               /\ Container!Calls("insert", i, <<x>>, Container!NeedsMemory(store, ItemLen),
                                  Container!ArrayInsert(store, i, x))
    BY <1>3, <2>1
  <2>2. CASE \E i \in 0 .. Len(xs) - 1 :
               Container!Calls("remove", i, <<>>, FALSE, Container!ArrayRemove(store, i))
    BY <1>4, <2>2
  <2>3. CASE \E i \in 0 .. Len(xs) - 1, x \in Things :
               Container!Calls("set", i, <<x>>, FALSE, Container!ArraySet(store, i, x))
    BY <1>5, <2>3
  <2>4. CASE \E zs \in Container!Batches :
               /\ Len(xs) + Len(zs) <= MaxSize
               /\ \/ Container!Calls("append", 0, zs,
                                     Container!NeedsMemory(store, ItemLen * Len(zs)),
                                     Container!ArrayAppend(store, zs))
                  \/ Container!Calls("prepend", 0, zs,
                                     Container!NeedsMemory(store, ItemLen * Len(zs)),
                                     Container!ArrayPrepend(store, zs))
    BY <1>6, <1>7, <2>4
  <2>5. CASE \E n \in 0 .. MaxSize :
               \/ Container!Calls("size", n, <<>>,
                                  Container!NeedsMemory(store, Container!SizeDifference(store, n)),
                                  Container!ArraySetSize(store, n))
               \/ Container!Calls("capacity", n, <<>>, n * ItemLen > store.alloc,
                                  Container!ArraySetCapacity(store, n))
    BY <1>8, <1>9, <2>5
  <2> QED
    BY <1>1, <2>1, <2>2, <2>3, <2>4, <2>5 DEF Container!ArrayCalls, Container!Fits
<1> QED
  BY <1>0, <1>10

PtrStepped(xs, ys) == Stepped(xs, ys) /\ (xs \in Seq(Defined) => ys \in Seq(Defined))

LEMMA PtrArrayStep ==
  ASSUME Container!PtrArrayCalls, sized \in BOOLEAN, NEW xs, Has(kind, store, xs)
  PROVE  /\ kind = "GPtrArray" /\ sized' \in BOOLEAN
         /\ \E ys : /\ Stepped(xs, ys)
                    /\ ~sized' => ~sized /\ (xs \in Seq(Defined) => ys \in Seq(Defined))
<1>0. kind = "GPtrArray" /\ PtrHas(store, xs)
  BY DEF Container!PtrArrayCalls, Has
<1>1. Container!Contents = xs /\ Container!Size = Len(xs) /\ Len(xs) \in Nat
  BY ContentsIs, HasReads DEF Container!Size
<1>2. \A a, ys : PtrHas(a, ys) => Has(kind, a, ys)
  BY <1>0 DEF Has
<1>3. ASSUME NEW i \in 0 .. Len(xs), NEW x \in Things, NEW needs,
             Container!Calls("insert", i, <<x>>, needs, Container!PtrInsert(store, i, x))
      PROVE  \E ys : PtrStepped(xs, ys)
  <2> DEFINE ys == InsertAt(xs, i + 1, x)
  <2>1. Has(kind, Container!PtrInsert(store, i, x), ys)
    BY <1>0, <1>2, PtrInserts DEF Pointers
  <2>2. /\ done' = TRUE /\ call' = Container!Call("insert", i, <<x>>)
        /\ Container!Contents = xs /\ Container!Contents' = ys
        => Container!List!Next
    BY Inserts
  <2>3. ASSUME xs \in Seq(Defined) PROVE ys \in Seq(Defined)
    <3>1. i + 1 \in 1 .. Len(xs) + 1 /\ x \in Defined
      BY <1>1 DEF Defined
    <3> QED
      BY <2>3, <3>1, InsertAtProperties
  <2> HIDE DEF ys
  <2>4. Stepped(xs, ys)
    BY <1>3, <2>1, <2>2, CallMade
  <2> QED
    BY <2>3, <2>4 DEF PtrStepped
<1>4. ASSUME NEW i \in 0 .. Len(xs) - 1,
             Container!Calls("remove", i, <<>>, FALSE, Container!PtrRemove(store, i))
      PROVE  \E ys : PtrStepped(xs, ys)
  <2> DEFINE ys == RemoveAt(xs, i + 1)
  <2>1. Has(kind, Container!PtrRemove(store, i), ys)
    BY <1>0, <1>2, PtrRemoves
  <2>2. /\ done' = TRUE /\ call' = Container!Call("remove", i, <<>>)
        /\ Container!Contents = xs /\ Container!Contents' = ys
        => Container!List!Next
    BY RemovesIndex
  <2>3. ASSUME xs \in Seq(Defined) PROVE ys \in Seq(Defined)
    <3>1. i + 1 \in 1 .. Len(xs)
      BY <1>1
    <3> QED
      BY <2>3, <3>1, RemoveAtProperties
  <2> HIDE DEF ys
  <2>4. Stepped(xs, ys)
    BY <1>4, <2>1, <2>2, CallMade
  <2> QED
    BY <2>3, <2>4 DEF PtrStepped
<1>5. ASSUME NEW i \in 0 .. Len(xs) - 1, NEW x \in Things,
             Container!Calls("set", i, <<x>>, FALSE, Container!PtrSet(store, i, x))
      PROVE  \E ys : PtrStepped(xs, ys)
  <2> DEFINE ys == [xs EXCEPT ![i + 1] = x]
  <2>1. Has(kind, Container!PtrSet(store, i, x), ys)
    BY <1>0, <1>2, PtrSets DEF Pointers
  <2>2. /\ done' = TRUE /\ call' = Container!Call("set", i, <<x>>)
        /\ Container!Contents = xs /\ Container!Contents' = ys
        => Container!List!Next
    BY Sets
  <2>3. ASSUME xs \in Seq(Defined) PROVE ys \in Seq(Defined)
    <3>1. i + 1 \in 1 .. Len(xs) /\ x \in Defined
      BY <1>1 DEF Defined
    <3> QED
      BY <2>3, <3>1, ExceptSeq
  <2> HIDE DEF ys
  <2>4. Stepped(xs, ys)
    BY <1>5, <2>1, <2>2, CallMade
  <2> QED
    BY <2>3, <2>4 DEF PtrStepped
<1>6. ASSUME NEW zs \in Container!Batches, NEW needs,
             Container!Calls("append", 0, zs, needs, Container!PtrAppend(store, zs))
      PROVE  \E ys : PtrStepped(xs, ys)
  <2> DEFINE ys == xs \o zs
  <2>0. zs \in Seq(Pointers) /\ zs \in Seq(Defined)
    BY BatchIs DEF Pointers, Defined
  <2>1. Has(kind, Container!PtrAppend(store, zs), ys)
    BY <1>0, <1>2, <2>0, PtrAppends
  <2>2. /\ done' = TRUE /\ call' = Container!Call("append", 0, zs)
        /\ Container!Contents = xs /\ Container!Contents' = ys
        => Container!List!Next
    BY Appends
  <2>3. ASSUME xs \in Seq(Defined) PROVE ys \in Seq(Defined)
    BY <2>0, <2>3, ConcatProperties
  <2> HIDE DEF ys
  <2>4. Stepped(xs, ys)
    BY <1>6, <2>1, <2>2, CallMade
  <2> QED
    BY <2>3, <2>4 DEF PtrStepped
<1>7. ASSUME NEW zs \in Container!Batches, NEW needs,
             Container!Calls("prepend", 0, zs, needs, Container!PtrPrepend(store, zs))
      PROVE  \E ys : PtrStepped(xs, ys)
  <2> DEFINE ys == zs \o xs
  <2>0. zs \in Seq(Pointers) /\ zs \in Seq(Defined)
    BY BatchIs DEF Pointers, Defined
  <2>1. Has(kind, Container!PtrPrepend(store, zs), ys)
    BY <1>0, <1>2, <2>0, PtrPrepends
  <2>2. /\ done' = TRUE /\ call' = Container!Call("prepend", 0, zs)
        /\ Container!Contents = xs /\ Container!Contents' = ys
        => Container!List!Next
    BY Prepends
  <2>3. ASSUME xs \in Seq(Defined) PROVE ys \in Seq(Defined)
    BY <2>0, <2>3, ConcatProperties
  <2> HIDE DEF ys
  <2>4. Stepped(xs, ys)
    BY <1>7, <2>1, <2>2, CallMade
  <2> QED
    BY <2>3, <2>4 DEF PtrStepped
<1>8. ASSUME NEW n \in 0 .. MaxSize, NEW needs,
             Container!Calls("capacity", n, <<>>, needs, Container!PtrSetCapacity(store, n))
      PROVE  \E ys : PtrStepped(xs, ys)
  <2>0. n \in Nat
    BY ContainerConstants
  <2>1. Has(kind, Container!PtrSetCapacity(store, n), xs)
    BY <1>0, <1>2, <2>0, PtrReserves
  <2>2. /\ done' = TRUE /\ call' = Container!Call("capacity", n, <<>>)
        /\ Container!Contents = xs /\ Container!Contents' = xs
        => Container!List!Next
    BY Reserves
  <2>4. Stepped(xs, xs)
    BY <1>8, <2>1, <2>2, CallMade
  <2> QED
    BY <2>4 DEF PtrStepped
<1>9. ASSUME NEW n \in 0 .. MaxSize, NEW needs,
             Container!Calls("size", n, <<>>, needs, Container!PtrSetSize(store, n)),
             sized' = (sized \/ (store.alloc > 0 /\ n > Len(xs)))
      PROVE  \E ys : /\ Stepped(xs, ys)
                     /\ ~sized' => ~sized /\ (xs \in Seq(Defined) => ys \in Seq(Defined))
  <2>0. n \in Nat
    BY ContainerConstants
  <2>1. PICK ys : /\ PtrHas(Container!PtrSetSize(store, n), ys)
                  /\ Len(ys) = n
                  /\ \A i \in DOMAIN xs \cap DOMAIN ys : ys[i] = xs[i]
                  /\ NothingNew(store, xs, ys)
    BY <1>0, <2>0, PtrResizes
  <2>2. /\ done' = TRUE /\ call' = Container!Call("size", n, <<>>)
        /\ Container!Contents = xs /\ Container!Contents' = ys
        => Container!List!Next
    BY <2>1, Resizes
  <2>3. Has(kind, Container!PtrSetSize(store, n), ys)
    BY <1>2, <2>1
  <2>4. Stepped(xs, ys)
    BY <1>9, <2>2, <2>3, CallMade
  <2>5. ~sized' => ~sized /\ ~(store.alloc > 0 /\ n > Len(xs))
    BY ONLY <1>9
  <2>6. ASSUME ~(store.alloc > 0 /\ n > Len(xs)), xs \in Seq(Defined)
        PROVE  ys \in Seq(Defined)
    <3>1. store.alloc \in Nat
      <4>1. store.size \in 0 .. store.alloc /\ store.alloc = Len(store.data)
            /\ store.data \in Seq(Pointers)
        BY <1>0, PtrTyped DEF Pointers
      <4> QED
        BY <4>1, LenProperties
    <3>2. store.alloc = 0 \/ n <= Len(xs)
      BY <1>1, <2>0, <2>6, <3>1
    <3>3. \A i \in 1 .. Len(xs) : xs[i] \in Defined
      BY <2>6, ElementOfSeq
    <3>4. \A i \in 1 .. n : ys[i] \in Defined
      BY <2>1, <3>2, <3>3 DEF Defined, NothingNew
    <3>5. ys \in Seq(Pointers)
      BY <2>1 DEF PtrHas
    <3>6. ys = [i \in 1 .. n |-> ys[i]]
      BY <2>1, <3>5, LenProperties
    <3> QED
      BY <2>0, <3>4, <3>6
  <2> QED
    BY ONLY <2>4, <2>5, <2>6
<1>10. CASE sized' = sized /\ \E ys : PtrStepped(xs, ys)
  BY <1>0, <1>10 DEF PtrStepped
<1>11. CASE \E n \in 0 .. MaxSize :
              /\ Container!Calls("size", n, <<>>, n > store.alloc, Container!PtrSetSize(store, n))
              /\ sized' = (sized \/ (store.alloc > 0 /\ n > Len(xs)))
  <2>1. sized' \in BOOLEAN
    BY <1>11
  <2>2. PICK n \in 0 .. MaxSize :
              /\ Container!Calls("size", n, <<>>, n > store.alloc, Container!PtrSetSize(store, n))
              /\ sized' = (sized \/ (store.alloc > 0 /\ n > Len(xs)))
    BY <1>11
  <2> QED
    BY <1>0, <1>9, <2>1, <2>2
<1>12. CASE
       /\ \/ \E i \in 0 .. Len(xs), x \in Things :
               Container!Calls("insert", i, <<x>>, Container!PtrNeedsMemory(store, 1),
                               Container!PtrInsert(store, i, x))
          \/ \E i \in 0 .. Len(xs) - 1 :
               Container!Calls("remove", i, <<>>, FALSE, Container!PtrRemove(store, i))
          \/ \E i \in 0 .. Len(xs) - 1, x \in Things :
               Container!Calls("set", i, <<x>>, FALSE, Container!PtrSet(store, i, x))
          \/ \E zs \in Container!Batches :
               \/ Container!Calls("append", 0, zs, Container!PtrNeedsMemory(store, Len(zs)),
                                  Container!PtrAppend(store, zs))
               \/ Container!Calls("prepend", 0, zs, Container!PtrNeedsMemory(store, Len(zs)),
                                  Container!PtrPrepend(store, zs))
          \/ \E n \in 0 .. MaxSize :
               Container!Calls("capacity", n, <<>>, n > store.alloc,
                               Container!PtrSetCapacity(store, n))
       /\ sized' = sized
  <2>1. \E ys : PtrStepped(xs, ys)
    BY <1>3, <1>4, <1>5, <1>6, <1>7, <1>8, <1>12
  <2> QED
    BY <1>10, <1>12, <2>1
<1> QED
  BY <1>1, <1>11, <1>12 DEF Container!PtrArrayCalls, Container!Fits

LEMMA ListStep ==
  ASSUME Container!ListCalls, NEW xs, Has(kind, store, xs)
  PROVE  (\E ys : Stepped(xs, ys)) /\ kind = "GList" /\ sized' = sized
<1>0. kind = "GList" /\ sized' = sized /\ ListHas(store, xs)
  BY DEF Container!ListCalls, Has
<1>1. Container!Contents = xs /\ xs \in Seq(Things)
  BY <1>0, ContentsIs, ListReads
<1>2. \A a, ys : ListHas(a, ys) => Has(kind, a, ys)
  BY <1>0 DEF Has
<1>3. ASSUME NEW x \in Things,
             Container!Calls("append", 0, <<x>>, TRUE, Container!ListAppend(store, x))
      PROVE  \E ys : Stepped(xs, ys)
  <2> DEFINE ys == xs \o <<x>>
  <2>1. Has(kind, Container!ListAppend(store, x), ys)
    BY <1>0, <1>2, ListAppends
  <2>2. /\ done' = TRUE /\ call' = Container!Call("append", 0, <<x>>)
        /\ Container!Contents = xs /\ Container!Contents' = ys
        => Container!List!Next
    <3> DEFINE one == <<x>>
    <3> HIDE DEF one
    <3>1. /\ done' = TRUE /\ call' = Container!Call("append", 0, one)
          /\ Container!Contents = xs /\ Container!Contents' = xs \o one
          => Container!List!Next
      BY Appends
    <3> QED
      BY <3>1 DEF one
  <2> HIDE DEF ys
  <2> QED
    BY <1>3, <2>1, <2>2, CallMade
<1>4. ASSUME NEW x \in Things,
             Container!Calls("prepend", 0, <<x>>, FALSE, Container!ListPrepend(store, x))
      PROVE  \E ys : Stepped(xs, ys)
  <2> DEFINE ys == <<x>> \o xs
  <2>1. Has(kind, Container!ListPrepend(store, x), ys)
    BY <1>0, <1>2, ListPrepends
  <2>2. /\ done' = TRUE /\ call' = Container!Call("prepend", 0, <<x>>)
        /\ Container!Contents = xs /\ Container!Contents' = ys
        => Container!List!Next
    <3> DEFINE one == <<x>>
    <3> HIDE DEF one
    <3>1. /\ done' = TRUE /\ call' = Container!Call("prepend", 0, one)
          /\ Container!Contents = xs /\ Container!Contents' = one \o xs
          => Container!List!Next
      BY Prepends
    <3> QED
      BY <3>1 DEF one
  <2> HIDE DEF ys
  <2> QED
    BY <1>4, <2>1, <2>2, CallMade
<1>5. ASSUME NEW x \in Things,
             Container!Calls("remove_item", 0, <<x>>, FALSE, Container!ListRemove(store, x))
      PROVE  \E ys : Stepped(xs, ys)
  <2>1. CASE \E j \in 1 .. Len(xs) : xs[j] = x
    <3>1. PICK k : First(xs, x, k)
      BY <1>1, <2>1, FirstExists
    <3> DEFINE ys == RemoveAt(xs, k)
    <3>2. Has(kind, Container!ListRemove(store, x), ys)
      BY <1>0, <1>2, <3>1, ListRemoves
    <3>3. /\ done' = TRUE /\ call' = Container!Call("remove_item", 0, <<x>>)
          /\ Container!Contents = xs /\ Container!Contents' = ys
          => Container!List!Next
      BY <1>1, <3>1, RemovesFirst
    <3> HIDE DEF ys
    <3> QED
      BY <1>5, <3>2, <3>3, CallMade
  <2>2. CASE ~ \E j \in 1 .. Len(xs) : xs[j] = x
    <3>1. Has(kind, Container!ListRemove(store, x), xs)
      BY <1>0, <1>2, <2>2, ListKeeps
    <3>2. /\ done' = TRUE /\ call' = Container!Call("remove_item", 0, <<x>>)
          /\ Container!Contents = xs /\ Container!Contents' = xs
          => Container!List!Next
      BY <2>2, RemovesNothing
    <3> QED
      BY <1>5, <3>1, <3>2, CallMade
  <2> QED
    BY <2>1, <2>2
<1>6. \E ys : Stepped(xs, ys)
  BY <1>3, <1>4, <1>5 DEF Container!ListCalls
<1> QED
  BY <1>0, <1>6

LEMMA NewHas == ASSUME NEW k \in Container!Kinds PROVE Has(k, Container!New(k), <<>>)
BY ArrayNew, PtrNew, ListNew DEF Container!Kinds, Container!New, Has

LEMMA FreeStep ==
  ASSUME Container!Free, kind \in Container!Kinds, NEW xs, Has(kind, store, xs)
  PROVE  Stepped(xs, <<>>) /\ sized' = sized
<1> DEFINE none == <<>>
           result == IF kind = "GList" THEN Container!ListFree(store) ELSE Container!New(kind)
<1>1. Container!Calls("free", 0, <<>>, FALSE, result) /\ sized' = sized
  BY DEF Container!Free
<1>2. Has(kind, result, none)
  <2>1. CASE kind = "GList"
    BY <2>1, ListFrees DEF Has
  <2>2. CASE kind # "GList"
    BY <2>2, NewHas
  <2> QED
    BY <2>1, <2>2
<1>3. /\ done' = TRUE /\ call' = Container!Call("free", 0, <<>>)
      /\ Container!Contents = xs /\ Container!Contents' = none
      => Container!List!Next
  BY Frees
<1> HIDE DEF result
<1>4. Stepped(xs, none)
  <2> HIDE DEF none
  <2> QED
    BY <1>1, <1>2, <1>3, CallMade
<1> QED
  BY <1>1, <1>4

-----------------------------------------------------------------------------
LEMMA ContainerInit ==
  ASSUME Container!Init
  PROVE  ContainerInv /\ Container!List!Init
<1> DEFINE none == <<>>
<1>1. /\ kind \in Container!Kinds /\ store = Container!New(kind)
      /\ call = Container!Call("new", 0, <<>>) /\ done = TRUE /\ sized = FALSE
  BY DEF Container!Init
<1>2. Has(kind, store, none)
  BY <1>1, NewHas
<1>3. none \in Seq(Defined)
  OBVIOUS
<1> HIDE DEF none
<1>4. Container!Contents = none
  BY <1>2, ContentsIs
<1>5. ContainerInv
  BY <1>1, <1>2, <1>3 DEF ContainerInv
<1>6. Container!List!Init
  BY <1>1, <1>4 DEF Container!List!Init, Container!Call, none
<1> QED
  BY <1>5, <1>6

LEMMA ContainerStepKeeps ==
  ASSUME ContainerInv, [Next]_vars
  PROVE  ContainerInv' /\ (Container!List!Next \/ UNCHANGED Container!List!vars)
<1>1. PICK xs : /\ Has(kind, store, xs)
                /\ kind = "GPtrArray" /\ ~sized => xs \in Seq(Defined)
  BY DEF ContainerInv
<1>2. kind \in Container!Kinds /\ done \in BOOLEAN /\ sized \in BOOLEAN
  BY DEF ContainerInv
<1>3. ASSUME NEW ys, Stepped(xs, ys), sized' \in BOOLEAN,
             kind = "GPtrArray" /\ ~sized' => ~sized /\ (xs \in Seq(Defined) => ys \in Seq(Defined))
      PROVE  ContainerInv' /\ Container!List!Next
  <2>1. kind' \in Container!Kinds /\ kind' = kind /\ done' \in BOOLEAN /\ Container!List!Next
    BY <1>2, <1>3 DEF Stepped, Container!Kinds
  <2>2. Has(kind', store', xs) \/ Has(kind', store', ys)
    BY <1>3 DEF Stepped
  <2>3. ASSUME kind' = "GPtrArray", ~sized' PROVE xs \in Seq(Defined) /\ ys \in Seq(Defined)
    BY <1>1, <1>3, <2>1, <2>3
  <2>4. \E zs : /\ Has(kind', store', zs)
                /\ kind' = "GPtrArray" /\ ~sized' => zs \in Seq(Defined)
    BY <2>2, <2>3
  <2> QED
    BY <1>3, <2>1, <2>4 DEF ContainerInv, Container!Kinds
<1>4. CASE Container!Next
  <2>1. CASE Container!ArrayCalls
    <3>1. (\E ys : Stepped(xs, ys)) /\ kind = "GArray" /\ sized' = sized
      BY <1>1, <2>1, ArrayStep
    <3> QED
      BY <1>2, <1>3, <3>1
  <2>2. CASE Container!PtrArrayCalls
    <3>1. /\ kind = "GPtrArray" /\ sized' \in BOOLEAN
          /\ \E ys : /\ Stepped(xs, ys)
                     /\ ~sized' => ~sized /\ (xs \in Seq(Defined) => ys \in Seq(Defined))
      BY <1>1, <1>2, <2>2, PtrArrayStep
    <3> QED
      BY <1>3, <3>1
  <2>3. CASE Container!ListCalls
    <3>1. (\E ys : Stepped(xs, ys)) /\ kind = "GList" /\ sized' = sized
      BY <1>1, <2>3, ListStep
    <3> QED
      BY <1>2, <1>3, <3>1
  <2>4. CASE Container!Free
    <3> DEFINE none == <<>>
    <3>1. Stepped(xs, none) /\ sized' = sized
      BY <1>1, <1>2, <2>4, FreeStep
    <3>2. none \in Seq(Defined)
      OBVIOUS
    <3> HIDE DEF none
    <3> QED
      BY <1>2, <1>3, <3>1, <3>2
  <2> QED
    BY <1>4, <2>1, <2>2, <2>3, <2>4 DEF Container!Next
<1>5. CASE UNCHANGED containerVars
  <2>1. kind' = kind /\ store' = store /\ call' = call /\ done' = done /\ sized' = sized
    BY <1>5 DEF containerVars
  <2>2. Container!Contents' = Container!Contents
    BY <2>1, ContentsAre
  <2>3. ContainerInv'
    BY <2>1 DEF ContainerInv, Container!Kinds
  <2> QED
    BY <2>1, <2>2, <2>3 DEF Container!List!vars
<1> QED
  BY <1>4, <1>5 DEF Next, MapStep, ContainerStep, BufferStep, vars

LEMMA ContainerAlways == Spec => []ContainerInv
<1>1. Init => ContainerInv
  BY ContainerInit DEF Init, ContainerIdle
<1>2. ContainerInv /\ [Next]_vars => ContainerInv'
  BY ContainerStepKeeps
<1> QED
  BY <1>1, <1>2, PTL DEF Spec

(* ImplementsList: whatever calls are made, in whatever order and          *)
(* whichever fail, what a client sees of a GArray, GPtrArray or GList is   *)
(* a sequence on which each call does what its name says.                  *)
THEOREM ContainersAreLists == Spec => ImplementsList
<1>1. Init => Container!List!Init
  BY ContainerInit DEF Init, ContainerIdle
<1>2. ContainerInv /\ [Next]_vars => [Container!List!Next]_(Container!List!vars)
  BY ContainerStepKeeps
<1> QED
  BY <1>1, <1>2, ContainerAlways, PTL
     DEF Spec, ImplementsList, Container!ImplementsList, Container!List!Spec

LEMMA ContainerTyped == ASSUME ContainerInv PROVE Container!TypeOK
<1>1. PICK xs : Has(kind, store, xs)
  BY DEF ContainerInv
<1>2. kind = "GArray" =>
        /\ store.len \in 0 .. store.alloc /\ store.alloc \in 0 .. Width - 1
        /\ store.len % ItemLen = 0 /\ store.alloc = ItemLen * Len(store.data)
        /\ store.data \in Seq(Things \cup {Zero})
  BY <1>1, ArrayTyped DEF Has
<1>3. kind = "GPtrArray" =>
        /\ store.size \in 0 .. store.alloc /\ store.alloc = Len(store.data)
        /\ store.data \in Seq(Things \cup {Nil, Garbage})
  BY <1>1, PtrTyped DEF Has
<1>4. kind = "GList" =>
        /\ store.head \in 0 .. Len(store.node)
        /\ store.node \in Seq([data: Things, next: 0 .. Len(store.node), freed: Nat])
  BY <1>1, ListTyped DEF Has
<1>5. kind \in Container!Kinds /\ done \in BOOLEAN /\ sized \in BOOLEAN
  BY DEF ContainerInv
<1> QED
  BY ONLY <1>2, <1>3, <1>4, <1>5 DEF Container!TypeOK

(* TypeOK: the bytes in use always lie inside the block of a GArray and a  *)
(* GPtrArray, the nodes of a GList link to nodes of it, and the entries of *)
(* a GMap are sorted by key and inside its array.                          *)
THEOREM CollectionsTyped == Spec => []TypeOK
<1>1. ContainerInv /\ MapInv => TypeOK
  BY ContainerTyped DEF MapInv, TypeOK
<1> QED
  BY <1>1, ContainerAlways, MapAlways, PTL

(* What ContainerInv says of a GPtrArray and of a GList.                   *)
LEMMA ContainerSound ==
  ASSUME ContainerInv PROVE Container!NothingUndefined /\ Container!NodesAccounted
<1>1. PICK xs : /\ Has(kind, store, xs)
                /\ kind = "GPtrArray" /\ ~sized => xs \in Seq(Defined)
  BY DEF ContainerInv
<1>2. Container!Contents = xs
  BY <1>1, ContentsIs
<1>3. ASSUME kind = "GPtrArray", ~sized PROVE ~Container!Contains(xs, Garbage)
  <2>1. Garbage \notin Defined
    BY CollectionsAssumption DEF Container!ContainersAssumption, Defined
  <2>2. xs \in Seq(Defined)
    BY <1>1, <1>3
  <2> QED
    BY <2>1, <2>2, ElementOfSeq, LenProperties DEF Container!Contains
<1>4. ASSUME kind = "GList"
      PROVE  /\ Container!IsInjective(Container!Walk(store))
             /\ \A n \in DOMAIN store.node :
                  store.node[n].freed = IF Container!Contains(Container!Walk(store), n)
                                        THEN 0 ELSE 1
  <2>1. ListHas(store, xs)
    BY <1>1, <1>4 DEF Has
  <2> QED
    BY <2>1, ListAccounts
<1> QED
  BY <1>2, <1>3, <1>4 DEF Container!NothingUndefined, Container!NodesAccounted

(* NothingLost: every node of a GList is on its chain or was freed once,   *)
(* every key copy and value given to a GMap is in an entry or was released *)
(* once, and no stale slot of a GPtrArray comes to light.                  *)
THEOREM NothingIsLost == Spec => []NothingLost
<1>1. ContainerInv /\ MapInv /\ Ledger => NothingLost
  BY ContainerSound, LedgerCounts DEF NothingLost
<1> QED
  BY <1>1, ContainerAlways, MapAlways, LedgerAlways, PTL
=============================================================================
