---------------------------- MODULE DataTheorems ----------------------------
(***************************************************************************)
(* What the other proofs need about data: induction over the natural       *)
(* numbers and over finite sets, for a property given as the set of what   *)
(* has it; insertion into, removal from and flattening of sequences; that  *)
(* the recursion behind the folds of the community modules has a solution; *)
(* and the sum of a function, which SumFunction takes in an order that     *)
(* CHOOSE makes up.                                                        *)
(***************************************************************************)
EXTENDS Integers, FiniteSetsExt, SequencesExt, FiniteSetTheorems,
        SequenceTheorems, WellFoundedInduction, TLAPS

LEMMA NaturalInduction ==
  ASSUME NEW P, 0 \in P, \A n \in Nat : n \in P => n + 1 \in P
  PROVE  \A n \in Nat : n \in P
<1> SUFFICES ASSUME Nat \ P # {} PROVE FALSE
  OBVIOUS
<1>1. PICK m \in Nat \ P : \A y \in Nat \ P : <<y, m>> \notin OpToRel(<, Nat)
  BY WFMin, NatLessThanWellFounded
<1>2. m \in Nat /\ m \notin P
  BY ONLY <1>1
<1>3. m - 1 \in Nat /\ (m - 1) + 1 = m /\ m - 1 < m
  <2>1. m # 0
    BY <1>2
  <2> QED
    BY ONLY <1>2, <2>1
<1>4. <<m - 1, m>> \in OpToRel(<, Nat)
  BY <1>2, <1>3 DEF OpToRel
<1>5. m - 1 \in P
  BY <1>1, <1>3, <1>4
<1> QED
  BY <1>2, <1>3, <1>5

LEMMA OneRemoved ==
  ASSUME NEW S, IsFiniteSet(S), NEW x \in S
  PROVE  /\ IsFiniteSet(S \ {x})
         /\ Cardinality(S) \in Nat /\ Cardinality(S \ {x}) \in Nat
         /\ Cardinality(S) = Cardinality(S \ {x}) + 1
<1>1. IsFiniteSet(S \ {x}) /\ Cardinality(S \ {x}) = Cardinality(S) - 1
  BY FS_RemoveElement
<1>2. Cardinality(S) \in Nat /\ Cardinality(S \ {x}) \in Nat
  BY <1>1, FS_CardinalityType
<1> QED
  BY <1>1, <1>2

LEMMA FiniteInduction ==
  ASSUME NEW S, IsFiniteSet(S), NEW P, {} \in P,
         \A T \in SUBSET S : T # {} /\ (\A x \in T : T \ {x} \in P) => T \in P
  PROVE  \A T \in SUBSET S : T \in P
<1> DEFINE Q == {n \in Nat : \A T \in SUBSET S : Cardinality(T) = n => T \in P}
<1>1. \A T \in SUBSET S : IsFiniteSet(T) /\ Cardinality(T) \in Nat
  BY FS_Subset, FS_CardinalityType
<1>2. 0 \in Q
  BY <1>1, FS_EmptySet
<1>3. ASSUME NEW n \in Nat, n \in Q PROVE n + 1 \in Q
  <2> SUFFICES ASSUME NEW T \in SUBSET S, Cardinality(T) = n + 1 PROVE T \in P
    OBVIOUS
  <2>1. T # {}
    <3>1. Cardinality({}) = 0 /\ n + 1 # 0
      BY FS_EmptySet
    <3> QED
      BY <3>1
  <2>2. ASSUME NEW x \in T PROVE T \ {x} \in P
    <3>1. Cardinality(T) = Cardinality(T \ {x}) + 1 /\ Cardinality(T \ {x}) \in Nat
      BY <1>1, OneRemoved
    <3>2. Cardinality(T \ {x}) = n
      BY <3>1
    <3> QED
      BY <1>3, <3>2
  <2> QED
    BY <2>1, <2>2
<1> HIDE DEF Q
<1>4. \A n \in Nat : n \in Q
  BY <1>2, <1>3, NaturalInduction
<1> QED
  BY <1>1, <1>4 DEF Q

LEMMA LargestExists ==
  ASSUME NEW S \in SUBSET Int, IsFiniteSet(S), S # {}
  PROVE  \E x \in S : \A y \in S : x >= y
<1> DEFINE P == {T \in SUBSET S : T = {} \/ \E x \in T : \A y \in T : x >= y}
<1>1. {} \in P
  OBVIOUS
<1>2. ASSUME NEW T \in SUBSET S, T # {}, \A x \in T : T \ {x} \in P PROVE T \in P
  <2>1. PICK x \in T : TRUE
    BY <1>2
  <2>2. CASE T \ {x} = {}
    BY <2>1, <2>2
  <2>3. CASE T \ {x} # {}
    <3>1. PICK z \in T \ {x} : \A y \in T \ {x} : z >= y
      BY <1>2, <2>1, <2>3
    <3>2. CASE x >= z
      <4>1. \A y \in T : x >= y
        BY <2>1, <3>1, <3>2
      <4> QED
        BY <2>1, <4>1
    <3>3. CASE ~(x >= z)
      <4>1. \A y \in T : z >= y
        BY <2>1, <3>1, <3>3
      <4> QED
        BY <3>1, <4>1
    <3> QED
      BY <3>2, <3>3
  <2> QED
    BY <2>2, <2>3
<1> HIDE DEF P
<1>3. \A T \in SUBSET S : T \in P
  BY <1>1, <1>2, FiniteInduction
<1> QED
  BY <1>3 DEF P

-----------------------------------------------------------------------------
(* Sequences.                                                              *)
LEMMA RemoveAtProperties ==
  ASSUME NEW S, NEW s \in Seq(S), NEW k \in 1 .. Len(s)
  PROVE  /\ RemoveAt(s, k) \in Seq(S)
         /\ Len(RemoveAt(s, k)) = Len(s) - 1
         /\ \A j \in 1 .. Len(s) - 1 :
              RemoveAt(s, k)[j] = IF j < k THEN s[j] ELSE s[j + 1]
<1> DEFINE front == SubSeq(s, 1, k - 1)
           back == SubSeq(s, k + 1, Len(s))
<1>1. Len(s) \in Nat /\ k \in Nat
  OBVIOUS
<1>2. /\ front \in Seq(S) /\ Len(front) = k - 1
      /\ \A j \in 1 .. k - 1 : front[j] = s[j]
  <2>1. \A j \in 1 .. k - 1 : s[j] \in S
    BY <1>1, ElementOfSeq
  <2> QED
    BY <1>1, <2>1, SubSeqProperties
<1>3. /\ back \in Seq(S) /\ Len(back) = Len(s) - k
      /\ \A j \in 1 .. Len(s) - k : back[j] = s[k + j]
  <2>1. \A j \in k + 1 .. Len(s) : s[j] \in S
    BY <1>1, ElementOfSeq
  <2> QED
    BY <1>1, <2>1, SubSeqProperties
<1> HIDE DEF front, back
<1>4. RemoveAt(s, k) = front \o back
  BY DEF RemoveAt, front, back
<1>5. /\ front \o back \in Seq(S) /\ Len(front \o back) = Len(s) - 1
      /\ \A j \in 1 .. Len(s) - 1 :
           (front \o back)[j] = IF j < k THEN front[j] ELSE back[j - (k - 1)]
  <2>1. /\ front \o back \in Seq(S)
        /\ Len(front \o back) = Len(front) + Len(back)
        /\ \A j \in 1 .. Len(front) + Len(back) :
             (front \o back)[j] = IF j <= Len(front) THEN front[j]
                                                    ELSE back[j - Len(front)]
    BY <1>2, <1>3, ConcatProperties
  <2>2. Len(front) + Len(back) = Len(s) - 1
    BY <1>1, <1>2, <1>3
  <2>3. \A j \in 1 .. Len(s) - 1 : j <= Len(front) <=> j < k
    BY <1>1, <1>2
  <2> QED
    BY <1>2, <2>1, <2>2, <2>3
<1>6. ASSUME NEW j \in 1 .. Len(s) - 1
      PROVE  (front \o back)[j] = IF j < k THEN s[j] ELSE s[j + 1]
  <2>1. CASE j < k
    BY <1>1, <1>2, <1>5, <2>1
  <2>2. CASE ~(j < k)
    <3>1. j - (k - 1) \in 1 .. Len(s) - k /\ k + (j - (k - 1)) = j + 1
      BY <1>1, <2>2
    <3> QED
      BY <1>3, <1>5, <2>2, <3>1
  <2> QED
    BY <2>1, <2>2
<1> QED
  BY <1>4, <1>5, <1>6

LEMMA InsertAtProperties ==
  ASSUME NEW S, NEW s \in Seq(S), NEW k \in 1 .. Len(s) + 1, NEW e \in S
  PROVE  /\ InsertAt(s, k, e) \in Seq(S)
         /\ Len(InsertAt(s, k, e)) = Len(s) + 1
         /\ \A j \in 1 .. Len(s) + 1 :
              InsertAt(s, k, e)[j] = IF j < k THEN s[j]
                                     ELSE IF j = k THEN e ELSE s[j - 1]
<1> DEFINE front == SubSeq(s, 1, k - 1)
           back == SubSeq(s, k, Len(s))
           more == front \o <<e>>
<1>1. Len(s) \in Nat /\ k \in Nat /\ k >= 1
  BY LenProperties
<1>2. /\ front \in Seq(S) /\ Len(front) = k - 1
      /\ \A j \in 1 .. k - 1 : front[j] = s[j]
  <2>1. \A j \in 1 .. k - 1 : s[j] \in S
    BY <1>1, ElementOfSeq
  <2> QED
    BY <1>1, <2>1, SubSeqProperties
<1>3. /\ back \in Seq(S) /\ Len(back) = Len(s) - k + 1
      /\ \A j \in 1 .. Len(s) - k + 1 : back[j] = s[k + j - 1]
  <2>1. \A j \in k .. Len(s) : s[j] \in S
    BY <1>1, ElementOfSeq
  <2> QED
    BY <1>1, <2>1, SubSeqProperties
<1> HIDE DEF front, back
<1>4. <<e>> \in Seq(S) /\ Len(<<e>>) = 1 /\ <<e>>[1] = e
  OBVIOUS
<1>5. /\ more \in Seq(S) /\ Len(more) = k
      /\ \A j \in 1 .. k - 1 : more[j] = front[j]
      /\ more[k] = e
  <2>1. /\ more \in Seq(S) /\ Len(more) = Len(front) + Len(<<e>>)
        /\ \A j \in 1 .. Len(front) + Len(<<e>>) :
             more[j] = IF j <= Len(front) THEN front[j] ELSE <<e>>[j - Len(front)]
    BY <1>2, <1>4, ConcatProperties
  <2> HIDE DEF more
  <2>2. Len(front) + Len(<<e>>) = k /\ k - Len(front) = 1 /\ ~(k <= Len(front))
        /\ k \in 1 .. k
    BY <1>1, <1>2, <1>4
  <2>3. more \in Seq(S) /\ Len(more) = k
    BY <2>1, <2>2
  <2>4. more[k] = <<e>>[1]
    BY <2>1, <2>2
  <2>5. ASSUME NEW j \in 1 .. k - 1 PROVE more[j] = front[j]
    <3>1. j \in 1 .. Len(front) + Len(<<e>>) /\ j <= Len(front)
      BY <1>1, <1>2, <1>4
    <3> QED
      BY <2>1, <3>1
  <2> QED
    BY <1>4, <2>3, <2>4, <2>5
<1> HIDE DEF more
<1>6. InsertAt(s, k, e) = more \o back
  BY DEF InsertAt, more, front, back
<1>7. /\ more \o back \in Seq(S) /\ Len(more \o back) = Len(s) + 1
      /\ \A j \in 1 .. Len(s) + 1 :
           (more \o back)[j] = IF j <= k THEN more[j] ELSE back[j - k]
  <2>1. /\ more \o back \in Seq(S) /\ Len(more \o back) = Len(more) + Len(back)
        /\ \A j \in 1 .. Len(more) + Len(back) :
             (more \o back)[j] = IF j <= Len(more) THEN more[j] ELSE back[j - Len(more)]
    BY <1>3, <1>5, ConcatProperties
  <2>2. Len(more) + Len(back) = Len(s) + 1
    BY <1>1, <1>3, <1>5
  <2> QED
    BY <1>5, <2>1, <2>2
<1>8. ASSUME NEW j \in 1 .. Len(s) + 1
      PROVE  (more \o back)[j] = IF j < k THEN s[j] ELSE IF j = k THEN e ELSE s[j - 1]
  <2>1. CASE j < k
    BY <1>1, <1>2, <1>5, <1>7, <2>1
  <2>2. CASE j = k
    BY <1>1, <1>5, <1>7, <2>2
  <2>3. CASE j > k
    <3>1. j - k \in 1 .. Len(s) - k + 1 /\ k + (j - k) - 1 = j - 1 /\ ~(j <= k)
          /\ ~(j < k) /\ j # k
      BY <1>1, <2>3
    <3> QED
      BY <1>3, <1>7, <3>1
  <2>4. j < k \/ j = k \/ j > k
    BY <1>1
  <2> QED
    BY ONLY <2>1, <2>2, <2>3, <2>4
<1> QED
  BY <1>6, <1>7, <1>8

LEMMA ToSetOfConcat ==
  ASSUME NEW S, NEW s \in Seq(S), NEW t \in Seq(S)
  PROVE  \A x : x \in ToSet(s \o t) <=> x \in ToSet(s) \/ x \in ToSet(t)
<1>1. /\ Len(s) \in Nat /\ Len(t) \in Nat
      /\ DOMAIN s = 1 .. Len(s) /\ DOMAIN t = 1 .. Len(t)
  BY LenProperties
<1>2. /\ s \o t \in Seq(S) /\ Len(s \o t) = Len(s) + Len(t)
      /\ \A i \in 1 .. Len(s) + Len(t) :
           (s \o t)[i] = IF i <= Len(s) THEN s[i] ELSE t[i - Len(s)]
  BY ConcatProperties
<1>3. DOMAIN (s \o t) = 1 .. Len(s) + Len(t)
  BY <1>2, LenProperties
<1>4. ASSUME NEW x, x \in ToSet(s) \/ x \in ToSet(t) PROVE x \in ToSet(s \o t)
  <2>1. ASSUME NEW i \in 1 .. Len(s), x = s[i] PROVE x \in ToSet(s \o t)
    <3>1. i \in 1 .. Len(s) + Len(t) /\ i <= Len(s)
      BY <1>1
    <3> QED
      BY <1>2, <1>3, <2>1, <3>1 DEF ToSet
  <2>2. ASSUME NEW i \in 1 .. Len(t), x = t[i] PROVE x \in ToSet(s \o t)
    <3>1. /\ Len(s) + i \in 1 .. Len(s) + Len(t) /\ ~(Len(s) + i <= Len(s))
          /\ (Len(s) + i) - Len(s) = i
      BY <1>1
    <3> QED
      BY <1>2, <1>3, <2>2, <3>1 DEF ToSet
  <2> QED
    BY <1>1, <1>4, <2>1, <2>2 DEF ToSet
<1>5. ASSUME NEW x, x \in ToSet(s \o t) PROVE x \in ToSet(s) \/ x \in ToSet(t)
  <2>1. PICK i \in 1 .. Len(s) + Len(t) : x = (s \o t)[i]
    BY <1>3, <1>5 DEF ToSet
  <2>2. CASE i <= Len(s)
    <3>1. i \in 1 .. Len(s)
      BY <1>1, <2>2
    <3> QED
      BY <1>1, <1>2, <2>1, <2>2, <3>1 DEF ToSet
  <2>3. CASE ~(i <= Len(s))
    <3>1. i - Len(s) \in 1 .. Len(t)
      BY <1>1, <2>3
    <3> QED
      BY <1>1, <1>2, <2>1, <2>3, <3>1 DEF ToSet
  <2> QED
    BY <2>2, <2>3
<1> QED
  BY <1>4, <1>5

(* FlattenSeq is defined by recursion on the number of sequences.          *)
IsFlatten(f, seqs, n) ==
  f = [i \in 1 .. n |-> IF i = 1 THEN seqs[i] ELSE f[i - 1] \o seqs[i]]
Flatten(seqs, n) == CHOOSE f : IsFlatten(f, seqs, n)

AreSequences(seqs, n, S) ==
  Len(seqs) = n /\ (n = 0 => seqs = <<>>) /\ \A i \in 1 .. n : seqs[i] \in Seq(S)

LEMMA FlattenSeqIs ==
  ASSUME NEW S, NEW seqs, NEW n \in Nat, AreSequences(seqs, n, S)
  PROVE  /\ n = 0 => FlattenSeq(seqs) = <<>>
         /\ n # 0 => FlattenSeq(seqs) = Flatten(seqs, n)[n]
         /\ \A i \in 1 .. n : Flatten(seqs, n)[i] =
              IF i = 1 THEN seqs[i] ELSE Flatten(seqs, n)[i - 1] \o seqs[i]
<1> DEFINE Upto(f, k) ==
             /\ f \in [1 .. k -> Seq(S)]
             /\ \A i \in 1 .. k : f[i] = IF i = 1 THEN seqs[i] ELSE f[i - 1] \o seqs[i]
           P == {k \in Nat : k <= n => \E f : Upto(f, k)}
<1>0. Len(seqs) = n /\ (n = 0 => seqs = <<>>) /\ \A i \in 1 .. n : seqs[i] \in Seq(S)
  BY DEF AreSequences
<1>1. 0 \in P
  <2>1. Upto([i \in 1 .. 0 |-> <<>>], 0)
    OBVIOUS
  <2> QED
    BY <2>1
<1>2. ASSUME NEW k \in Nat, k \in P PROVE k + 1 \in P
  <2> SUFFICES ASSUME k + 1 <= n PROVE \E f : Upto(f, k + 1)
    <3> HIDE DEF Upto
    <3> QED
      OBVIOUS
  <2>1. PICK f : Upto(f, k)
    <3>1. k <= n
      OBVIOUS
    <3> HIDE DEF Upto
    <3> QED
      BY <1>2, <3>1
  <2> DEFINE new == IF k = 0 THEN seqs[1] ELSE f[k] \o seqs[k + 1]
             g == [i \in 1 .. k + 1 |-> IF i <= k THEN f[i] ELSE new]
  <2>2. k + 1 \in 1 .. n /\ 1 \in 1 .. n
    OBVIOUS
  <2>3. new \in Seq(S)
    <3>1. CASE k = 0
      BY <1>0, <2>2, <3>1
    <3>2. CASE k # 0
      <4>1. f[k] \in Seq(S) /\ seqs[k + 1] \in Seq(S)
        BY <1>0, <2>1, <2>2, <3>2
      <4> QED
        BY <3>2, <4>1, ConcatProperties
    <3> QED
      BY <3>1, <3>2
  <2>4. g \in [1 .. k + 1 -> Seq(S)]
    <3> HIDE DEF new
    <3>1. \A i \in 1 .. k + 1 : i <= k => f[i] \in Seq(S)
      BY <2>1
    <3> QED
      BY <2>3, <3>1
  <2>5. \A i \in 1 .. k : g[i] = f[i] /\ (i # 1 => i - 1 \in 1 .. k)
    OBVIOUS
  <2>6. g[k + 1] = new
    OBVIOUS
  <2>7. k # 0 => g[k] = f[k]
    OBVIOUS
  <2> HIDE DEF g
  <2>8. ASSUME NEW i \in 1 .. k + 1
        PROVE  g[i] = IF i = 1 THEN seqs[i] ELSE g[i - 1] \o seqs[i]
    <3>1. CASE i <= k
      <4>1. i \in 1 .. k
        BY <3>1
      <4>2. g[i] = f[i] /\ (i # 1 => g[i - 1] = f[i - 1])
        BY <2>5, <4>1
      <4>3. f[i] = IF i = 1 THEN seqs[i] ELSE f[i - 1] \o seqs[i]
        BY <2>1, <4>1
      <4> QED
        BY <4>2, <4>3
    <3>2. CASE i = k + 1
      <4>1. i - 1 = k /\ (i = 1 <=> k = 0)
        BY <3>2
      <4> QED
        BY <2>6, <2>7, <3>2, <4>1
    <3> QED
      BY <3>1, <3>2
  <2> QED
    BY <2>4, <2>8
<1> HIDE DEF P
<1>3. n \in P
  BY <1>1, <1>2, NaturalInduction
<1>4. PICK f : Upto(f, n)
  <2> HIDE DEF Upto
  <2>1. n <= n
    OBVIOUS
  <2> QED
    BY <1>3, <2>1 DEF P
<1>5. IsFlatten(f, seqs, n)
  BY <1>4 DEF IsFlatten
<1>6. IsFlatten(Flatten(seqs, n), seqs, n)
  BY <1>5 DEF Flatten
<1>7. \A i \in 1 .. n : Flatten(seqs, n)[i] =
        IF i = 1 THEN seqs[i] ELSE Flatten(seqs, n)[i - 1] \o seqs[i]
  <2> DEFINE g == Flatten(seqs, n)
  <2>1. g = [i \in 1 .. n |-> IF i = 1 THEN seqs[i] ELSE g[i - 1] \o seqs[i]]
    BY <1>6 DEF IsFlatten
  <2> HIDE DEF g
  <2>2. \A i \in 1 .. n : g[i] = IF i = 1 THEN seqs[i] ELSE g[i - 1] \o seqs[i]
    BY <2>1
  <2> QED
    BY <2>2 DEF g
<1>8. n # 0 => FlattenSeq(seqs) = Flatten(seqs, n)[n]
  BY <1>0 DEF FlattenSeq, Flatten, IsFlatten
<1>9. n = 0 => FlattenSeq(seqs) = <<>>
  BY <1>0 DEF FlattenSeq
<1> QED
  BY <1>7, <1>8, <1>9

LEMMA FlattenSeqProperties ==
  ASSUME NEW S, NEW seqs, NEW n \in Nat, Len(seqs) = n,
         n = 0 => seqs = <<>>, \A i \in 1 .. n : seqs[i] \in Seq(S)
  PROVE  /\ FlattenSeq(seqs) \in Seq(S)
         /\ \A x : x \in ToSet(FlattenSeq(seqs)) <=>
                     \E i \in 1 .. n : x \in ToSet(seqs[i])
<1> DEFINE flatten == Flatten(seqs, n)
           Q == {k \in Nat : k >= 1 /\ k <= n =>
                   /\ flatten[k] \in Seq(S)
                   /\ \A x : x \in ToSet(flatten[k]) <=>
                               \E i \in 1 .. k : x \in ToSet(seqs[i])}
<1>7. /\ \A i \in 1 .. n :
           flatten[i] = IF i = 1 THEN seqs[i] ELSE flatten[i - 1] \o seqs[i]
      /\ n = 0 => FlattenSeq(seqs) = <<>>
      /\ n # 0 => FlattenSeq(seqs) = flatten[n]
  <2>1. AreSequences(seqs, n, S)
    BY DEF AreSequences
  <2> HIDE DEF flatten
  <2> QED
    BY <2>1, FlattenSeqIs DEF flatten
<1> HIDE DEF flatten
<1>8. 0 \in Q
  OBVIOUS
<1>9. ASSUME NEW k \in Nat, k \in Q PROVE k + 1 \in Q
  <2> SUFFICES ASSUME k + 1 <= n
               PROVE  /\ flatten[k + 1] \in Seq(S)
                      /\ \A x : x \in ToSet(flatten[k + 1]) <=>
                                  \E i \in 1 .. k + 1 : x \in ToSet(seqs[i])
    OBVIOUS
  <2>1. k + 1 \in 1 .. n /\ (k + 1) - 1 = k /\ seqs[k + 1] \in Seq(S)
    OBVIOUS
  <2>2. CASE k = 0
    <3>1. flatten[k + 1] = seqs[k + 1]
      BY <1>7, <2>1, <2>2
    <3>2. \A i : i \in 1 .. k + 1 <=> i = k + 1
      BY <2>2
    <3> QED
      BY ONLY <2>1, <3>1, <3>2
  <2>3. CASE k # 0
    <3>0. k >= 1 /\ k <= n /\ k + 1 # 1
      BY <2>3
    <3>1. /\ flatten[k + 1] = flatten[k] \o seqs[k + 1]
          /\ flatten[k] \in Seq(S)
          /\ \A x : x \in ToSet(flatten[k]) <=> \E i \in 1 .. k : x \in ToSet(seqs[i])
      <4>1. flatten[k + 1] = flatten[k] \o seqs[k + 1]
        BY <1>7, <2>1, <3>0
      <4> QED
        BY ONLY <1>9, <3>0, <4>1 DEF Q
    <3>2. \A i : i \in 1 .. k + 1 <=> i \in 1 .. k \/ i = k + 1
      OBVIOUS
    <3>3. \A x : x \in ToSet(flatten[k] \o seqs[k + 1]) <=>
                   x \in ToSet(flatten[k]) \/ x \in ToSet(seqs[k + 1])
      BY <2>1, <3>1, ToSetOfConcat
    <3>4. flatten[k] \o seqs[k + 1] \in Seq(S)
      BY <2>1, <3>1, ConcatProperties
    <3> QED
      BY <3>1, <3>2, <3>3, <3>4
  <2> QED
    BY <2>2, <2>3
<1> HIDE DEF Q
<1>10. n \in Q
  BY <1>8, <1>9, NaturalInduction
<1>11. CASE n = 0
  <2>1. FlattenSeq(seqs) = <<>>
    BY <1>7, <1>11
  <2> QED
    BY <1>11, <2>1 DEF ToSet
<1>12. CASE n # 0
  <2>1. FlattenSeq(seqs) = flatten[n]
    BY <1>7, <1>12
  <2> QED
    BY <1>10, <1>12, <2>1 DEF Q
<1> QED
  BY <1>11, <1>12

(* Sequences in which no two items have the same mark, put together.       *)
OneToOne(s, mark) ==
  \A i, j \in 1 .. Len(s) : mark[s[i]] = mark[s[j]] => i = j

LEMMA ConcatOneToOne ==
  ASSUME NEW S, NEW s \in Seq(S), NEW t \in Seq(S), NEW mark,
         OneToOne(s, mark), OneToOne(t, mark),
         \A x \in ToSet(s), y \in ToSet(t) : mark[x] # mark[y]
  PROVE  OneToOne(s \o t, mark)
<1>1. /\ Len(s) \in Nat /\ Len(t) \in Nat
      /\ DOMAIN s = 1 .. Len(s) /\ DOMAIN t = 1 .. Len(t)
  BY LenProperties
<1> DEFINE u == s \o t
<1>2. /\ Len(u) = Len(s) + Len(t)
      /\ \A i \in 1 .. Len(s) + Len(t) : u[i] = IF i <= Len(s) THEN s[i] ELSE t[i - Len(s)]
  BY ConcatProperties
<1> HIDE DEF u
<1>3. ASSUME NEW i \in 1 .. Len(u), NEW j \in 1 .. Len(u), mark[u[i]] = mark[u[j]]
      PROVE  i = j
  <2>1. i \in 1 .. Len(s) + Len(t) /\ j \in 1 .. Len(s) + Len(t)
    BY <1>2
  <2>2. CASE i <= Len(s) /\ j <= Len(s)
    <3>1. i \in 1 .. Len(s) /\ j \in 1 .. Len(s) /\ u[i] = s[i] /\ u[j] = s[j]
      BY <1>1, <1>2, <2>1, <2>2
    <3> QED
      BY <1>3, <3>1 DEF OneToOne
  <2>3. CASE ~(i <= Len(s)) /\ ~(j <= Len(s))
    <3>1. /\ i - Len(s) \in 1 .. Len(t) /\ j - Len(s) \in 1 .. Len(t)
          /\ u[i] = t[i - Len(s)] /\ u[j] = t[j - Len(s)]
      BY <1>1, <1>2, <2>1, <2>3
    <3>2. i - Len(s) = j - Len(s)
      BY <1>3, <3>1 DEF OneToOne
    <3> QED
      BY <1>1, <2>1, <3>2
  <2>4. CASE i <= Len(s) /\ ~(j <= Len(s))
    <3>1. /\ i \in 1 .. Len(s) /\ j - Len(s) \in 1 .. Len(t)
          /\ u[i] = s[i] /\ u[j] = t[j - Len(s)]
      BY <1>1, <1>2, <2>1, <2>4
    <3>2. s[i] \in ToSet(s) /\ t[j - Len(s)] \in ToSet(t)
      BY <1>1, <3>1 DEF ToSet
    <3> QED
      BY <1>3, <3>1, <3>2
  <2>5. CASE ~(i <= Len(s)) /\ j <= Len(s)
    <3>1. /\ j \in 1 .. Len(s) /\ i - Len(s) \in 1 .. Len(t)
          /\ u[j] = s[j] /\ u[i] = t[i - Len(s)]
      BY <1>1, <1>2, <2>1, <2>5
    <3>2. s[j] \in ToSet(s) /\ t[i - Len(s)] \in ToSet(t)
      BY <1>1, <3>1 DEF ToSet
    <3> QED
      BY <1>3, <3>1, <3>2
  <2> QED
    BY ONLY <2>2, <2>3, <2>4, <2>5
<1> QED
  BY <1>3 DEF OneToOne, u

LEMMA FlattenOneToOne ==
  ASSUME NEW S, NEW seqs, NEW n \in Nat, AreSequences(seqs, n, S),
         NEW mark, \A i \in 1 .. n : OneToOne(seqs[i], mark),
         \A i, j \in 1 .. n : i # j =>
           \A x \in ToSet(seqs[i]), y \in ToSet(seqs[j]) : mark[x] # mark[y]
  PROVE  OneToOne(FlattenSeq(seqs), mark)
<1> DEFINE flatten == Flatten(seqs, n)
           Q == {k \in Nat : k >= 1 /\ k <= n =>
                   /\ flatten[k] \in Seq(S) /\ OneToOne(flatten[k], mark)
                   /\ \A x \in ToSet(flatten[k]) : \E i \in 1 .. k : x \in ToSet(seqs[i])}
<1>1. /\ \A i \in 1 .. n :
           flatten[i] = IF i = 1 THEN seqs[i] ELSE flatten[i - 1] \o seqs[i]
      /\ n = 0 => FlattenSeq(seqs) = <<>>
      /\ n # 0 => FlattenSeq(seqs) = flatten[n]
  <2> HIDE DEF flatten
  <2> QED
    BY FlattenSeqIs DEF flatten
<1> HIDE DEF flatten
<1>2. 0 \in Q
  OBVIOUS
<1>3. ASSUME NEW k \in Nat, k \in Q, k + 1 <= n
      PROVE  /\ flatten[k + 1] \in Seq(S) /\ OneToOne(flatten[k + 1], mark)
             /\ \A x \in ToSet(flatten[k + 1]) : \E i \in 1 .. k + 1 : x \in ToSet(seqs[i])
  <2>1. k + 1 \in 1 .. n /\ (k + 1) - 1 = k /\ (k + 1 = 1 <=> k = 0)
    BY <1>3
  <2>2. seqs[k + 1] \in Seq(S) /\ OneToOne(seqs[k + 1], mark)
    BY <2>1 DEF AreSequences
  <2>3. CASE k = 0
    <3>1. flatten[k + 1] = seqs[k + 1] /\ k + 1 \in 1 .. k + 1
      BY <1>1, <2>1, <2>3
    <3> QED
      BY ONLY <2>2, <3>1
  <2>4. CASE k # 0
    <3>1. /\ flatten[k + 1] = flatten[k] \o seqs[k + 1]
          /\ flatten[k] \in Seq(S) /\ OneToOne(flatten[k], mark)
          /\ \A x \in ToSet(flatten[k]) : \E i \in 1 .. k : x \in ToSet(seqs[i])
      <4>1. k >= 1 /\ k <= n
        BY <1>3, <2>4
      <4>2. flatten[k + 1] = flatten[k] \o seqs[k + 1]
        BY <1>1, <2>1, <2>4
      <4> QED
        BY ONLY <1>3, <4>1, <4>2
    <3>2. \A i \in 1 .. k : i \in 1 .. n /\ i # k + 1 /\ i \in 1 .. k + 1
      BY <2>1
    <3>3. \A x \in ToSet(flatten[k]), y \in ToSet(seqs[k + 1]) : mark[x] # mark[y]
      BY <2>1, <3>1, <3>2
    <3>4. OneToOne(flatten[k] \o seqs[k + 1], mark)
      BY <2>2, <3>1, <3>3, ConcatOneToOne
    <3>5. flatten[k] \o seqs[k + 1] \in Seq(S)
      BY <2>2, <3>1, ConcatProperties
    <3>6. \A x : x \in ToSet(flatten[k] \o seqs[k + 1]) =>
                   x \in ToSet(flatten[k]) \/ x \in ToSet(seqs[k + 1])
      BY <2>2, <3>1, ToSetOfConcat
    <3>7. k + 1 \in 1 .. k + 1
      OBVIOUS
    <3> QED
      BY ONLY <3>1, <3>2, <3>4, <3>5, <3>6, <3>7
  <2> QED
    BY ONLY <2>3, <2>4
<1>4. ASSUME NEW k \in Nat, k \in Q PROVE k + 1 \in Q
  <2> HIDE DEF Q
  <2>1. k + 1 <= n =>
          /\ flatten[k + 1] \in Seq(S) /\ OneToOne(flatten[k + 1], mark)
          /\ \A x \in ToSet(flatten[k + 1]) : \E i \in 1 .. k + 1 : x \in ToSet(seqs[i])
    BY <1>3, <1>4
  <2>2. k + 1 \in Nat
    OBVIOUS
  <2> QED
    BY ONLY <2>1, <2>2 DEF Q
<1> HIDE DEF Q
<1>5. n \in Q
  BY <1>2, <1>4, NaturalInduction
<1>6. CASE n = 0
  BY <1>1, <1>6 DEF OneToOne
<1>7. CASE n # 0
  BY <1>1, <1>5, <1>7 DEF Q
<1> QED
  BY <1>6, <1>7

-----------------------------------------------------------------------------
(* MapThenFoldSet recurs on the subsets of a set, from each to the one     *)
(* without the element it picks: there is a function that does.            *)
IsFold(iter, D, base, pick, step) ==
  /\ iter[{}] = base
  /\ \A s \in SUBSET D : s # {} =>
       iter[s] = step[<<iter[s \ {pick[s]}], pick[s]>>]

LEMMA FoldExists ==
  ASSUME NEW D, IsFiniteSet(D), NEW A, NEW base \in A,
         NEW pick, \A s \in SUBSET D : s # {} => pick[s] \in s,
         NEW step \in [A \X D -> A]
  PROVE  \E iter \in [SUBSET D -> A] : IsFold(iter, D, base, pick, step)
<1> DEFINE Upto(n) == {s \in SUBSET D : Cardinality(s) <= n}
           IsPart(n, iter) ==
             /\ iter \in [Upto(n) -> A]
             /\ iter[{}] = base
             /\ \A s \in Upto(n) : s # {} =>
                  iter[s] = step[<<iter[s \ {pick[s]}], pick[s]>>]
           Q == {n \in Nat : \E iter : IsPart(n, iter)}
<1>1. \A s \in SUBSET D : IsFiniteSet(s) /\ Cardinality(s) \in Nat
  BY FS_Subset, FS_CardinalityType
<1>2. ASSUME NEW n \in Nat, NEW s \in Upto(n + 1), s # {}
      PROVE  s \ {pick[s]} \in Upto(n) /\ pick[s] \in D
  <2>1. pick[s] \in s
    BY <1>2
  <2>2. Cardinality(s) = Cardinality(s \ {pick[s]}) + 1 /\ Cardinality(s \ {pick[s]}) \in Nat
    BY <1>1, <2>1, OneRemoved
  <2> QED
    BY <2>1, <2>2
<1>3. 0 \in Q
  <2>1. \A s \in Upto(0) : s = {}
    BY <1>1, FS_EmptySet
  <2>2. {} \in Upto(0)
    BY FS_EmptySet
  <2> DEFINE none == [s \in Upto(0) |-> base]
  <2>3. none \in [Upto(0) -> A] /\ none[{}] = base
    BY <2>2
  <2>4. IsPart(0, none)
    BY <2>1, <2>3
  <2> QED
    BY <2>4
<1>4. ASSUME NEW n \in Nat, n \in Q PROVE n + 1 \in Q
  <2>1. PICK iter : IsPart(n, iter)
    BY <1>4
  <2> DEFINE next(s) == step[<<iter[s \ {pick[s]}], pick[s]>>]
             more == [s \in Upto(n + 1) |-> IF s = {} THEN base ELSE next(s)]
  <2>2. \A s \in Upto(n) : s \in Upto(n + 1)
    BY <1>1
  <2>3. \A s \in Upto(n + 1) : s # {} => next(s) \in A
    <3> SUFFICES ASSUME NEW s \in Upto(n + 1), s # {} PROVE next(s) \in A
      OBVIOUS
    <3>1. iter[s \ {pick[s]}] \in A /\ pick[s] \in D
      BY <1>2, <2>1
    <3> QED
      BY <3>1
  <2>4. more \in [Upto(n + 1) -> A]
    BY <2>3
  <2>5. {} \in Upto(n)
    BY <1>1, FS_EmptySet
  <2>6. \A s \in Upto(n) : more[s] = iter[s]
    BY <2>1, <2>2
  <2>7. \A s \in Upto(n + 1) : s # {} => more[s] = next(s)
    OBVIOUS
  <2>8. more[{}] = base
    BY <2>2, <2>5
  <2> HIDE DEF more
  <2>9. \A s \in Upto(n + 1) : s # {} =>
          more[s] = step[<<more[s \ {pick[s]}], pick[s]>>]
    BY <1>2, <2>6, <2>7
  <2>10. IsPart(n + 1, more)
    BY <2>4, <2>8, <2>9
  <2> HIDE DEF IsPart
  <2> QED
    BY <2>10
<1>5. Cardinality(D) \in Q
  <2> HIDE DEF Q
  <2>1. \A n \in Nat : n \in Q
    BY <1>3, <1>4, NaturalInduction
  <2> QED
    BY <1>1, <2>1
<1>6. Upto(Cardinality(D)) = SUBSET D
  BY <1>1, FS_Subset
<1> QED
  BY <1>5, <1>6 DEF IsFold

(* FoldLeft picks the largest index, so that it ends with the last item.   *)
LEMMA LargestOf ==
  ASSUME NEW n \in Nat, NEW s \in SUBSET (1 .. n), s # {}
  PROVE  Max(s) \in s /\ \A y \in s : Max(s) >= y
<1>1. IsFiniteSet(s) /\ s \in SUBSET Int
  <2>1. IsFiniteSet(1 .. n)
    BY FS_Interval
  <2>2. IsFiniteSet(s)
    BY <2>1, FS_Subset
  <2> QED
    BY <2>2
<1>2. \E x \in s : \A y \in s : x >= y
  BY <1>1, LargestExists
<1> QED
  BY <1>2 DEF Max

LEMMA LargestOfFirst ==
  ASSUME NEW n \in Nat, NEW k \in 1 .. n
  PROVE  /\ Max(1 .. k) = k /\ (1 .. k) \ {k} = 1 .. k - 1
         /\ 1 .. k \in SUBSET (1 .. n) /\ 1 .. k # {}
<1>1. 1 .. k \in SUBSET (1 .. n) /\ 1 .. k # {} /\ k \in 1 .. k
  OBVIOUS
<1>2. Max(1 .. k) \in 1 .. k /\ Max(1 .. k) >= k
  BY <1>1, LargestOf
<1>3. Max(1 .. k) = k
  BY <1>2
<1>4. (1 .. k) \ {k} = 1 .. k - 1
  OBVIOUS
<1> QED
  BY <1>1, <1>3, <1>4

IsOrderedFold(iter, n, base, step) ==
  /\ iter[{}] = base
  /\ \A s \in SUBSET (1 .. n) : s # {} =>
       iter[s] = step[<<iter[s \ {Max(s)}], Max(s)>>]

LEMMA OrderedFoldExists ==
  ASSUME NEW n \in Nat, NEW A, NEW base \in A, NEW step \in [A \X (1 .. n) -> A]
  PROVE  \E iter \in [SUBSET (1 .. n) -> A] : IsOrderedFold(iter, n, base, step)
<1> DEFINE D == 1 .. n
           pick == [s \in SUBSET D |-> Max(s)]
<1>1. IsFiniteSet(D)
  BY FS_Interval
<1>2. \A s \in SUBSET D : s # {} => pick[s] \in s
  BY LargestOf
<1>3. \A s \in SUBSET D : pick[s] = Max(s)
  OBVIOUS
<1> HIDE DEF pick, D
<1>4. step \in [A \X D -> A]
  BY DEF D
<1>5. \E iter \in [SUBSET D -> A] : IsFold(iter, D, base, pick, step)
  BY <1>1, <1>2, <1>4, FoldExists
<1> QED
  BY <1>3, <1>5 DEF IsFold, IsOrderedFold, D

-----------------------------------------------------------------------------
(* The sums over the subsets of a set, as the recursion defines them.      *)
AnyOf(s) == CHOOSE x \in s : TRUE
IsSum(f, S, sum) ==
  sum = [s \in SUBSET S |->
           IF s = {} THEN 0 ELSE f[AnyOf(s)] + sum[s \ {AnyOf(s)}]]
Sums(f, S) == CHOOSE sum : IsSum(f, S, sum)

LEMMA SumFunctionIs == ASSUME NEW f PROVE SumFunction(f) = Sums(f, DOMAIN f)[DOMAIN f]
BY DEF SumFunction, SumFunctionOnSet, FoldFunctionOnSet, MapThenFoldSet,
       Sums, IsSum, AnyOf

LEMMA AnyOfMember == ASSUME NEW s, s # {} PROVE AnyOf(s) \in s
BY DEF AnyOf

(* There is such a function: the sums of at most n terms, for every n.     *)
LEMMA SumsExist == ASSUME NEW S, IsFiniteSet(S), NEW f PROVE IsSum(f, S, Sums(f, S))
<1> DEFINE Upto(n) == {s \in SUBSET S : Cardinality(s) <= n}
           IsPart(n, sum) ==
             sum = [s \in Upto(n) |->
                      IF s = {} THEN 0 ELSE f[AnyOf(s)] + sum[s \ {AnyOf(s)}]]
           Q == {n \in Nat : \E sum : IsPart(n, sum)}
<1>1. \A s \in SUBSET S : IsFiniteSet(s) /\ Cardinality(s) \in Nat
  BY FS_Subset, FS_CardinalityType
<1>2. ASSUME NEW n \in Nat, NEW s \in Upto(n + 1), s # {}
      PROVE  s \ {AnyOf(s)} \in Upto(n)
  <2>1. AnyOf(s) \in s
    BY <1>2, AnyOfMember
  <2>2. Cardinality(s) = Cardinality(s \ {AnyOf(s)}) + 1 /\ Cardinality(s \ {AnyOf(s)}) \in Nat
    BY <1>1, <2>1, OneRemoved
  <2> QED
    BY <2>2
<1>3. 0 \in Q
  <2>1. \A s \in Upto(0) : s = {}
    BY <1>1, FS_EmptySet
  <2> DEFINE none == [s \in Upto(0) |-> 0]
  <2>2. IsPart(0, none)
    BY <2>1
  <2> QED
    BY <2>2
<1>4. ASSUME NEW n \in Nat, n \in Q PROVE n + 1 \in Q
  <2>1. PICK sum : IsPart(n, sum)
    BY <1>4
  <2> DEFINE more == [s \in Upto(n + 1) |->
                        IF s = {} THEN 0 ELSE f[AnyOf(s)] + sum[s \ {AnyOf(s)}]]
  <2>2. \A s \in Upto(n) : s \in Upto(n + 1)
    BY <1>1
  <2>3. \A s \in Upto(n) : more[s] = sum[s]
    BY <2>1, <2>2
  <2>4. IsPart(n + 1, more)
    BY <1>2, <2>3
  <2>5. n + 1 \in Nat
    OBVIOUS
  <2> HIDE DEF more, IsPart
  <2> QED
    BY <2>4, <2>5
<1> HIDE DEF Q
<1>5. Cardinality(S) \in Q
  <2>1. \A n \in Nat : n \in Q
    BY <1>3, <1>4, NaturalInduction
  <2> QED
    BY <1>1, <2>1
<1>6. Upto(Cardinality(S)) = SUBSET S
  BY <1>1, FS_Subset
<1>7. \E sum : IsSum(f, S, sum)
  BY <1>5, <1>6 DEF Q, IsSum
<1> QED
  BY <1>7 DEF Sums

LEMMA SumOfSubset ==
  ASSUME NEW S, IsFiniteSet(S), NEW f
  PROVE  /\ Sums(f, S)[{}] = 0
         /\ \A s \in SUBSET S : s # {} =>
              Sums(f, S)[s] = f[AnyOf(s)] + Sums(f, S)[s \ {AnyOf(s)}]
<1>1. IsSum(f, S, Sums(f, S))
  BY SumsExist
<1>2. {} \in SUBSET S
  OBVIOUS
<1> DEFINE sum == Sums(f, S)
<1> HIDE DEF sum
<1>3. /\ sum[{}] = 0
      /\ \A s \in SUBSET S : s # {} => sum[s] = f[AnyOf(s)] + sum[s \ {AnyOf(s)}]
  BY <1>1, <1>2 DEF IsSum, sum
<1> QED
  BY <1>3 DEF sum

LEMMA SumIsNatural ==
  ASSUME NEW S, IsFiniteSet(S), NEW f \in [S -> Nat]
  PROVE  \A s \in SUBSET S : Sums(f, S)[s] \in Nat
<1> DEFINE P == {s \in SUBSET S : Sums(f, S)[s] \in Nat}
<1>1. {} \in P
  BY SumOfSubset
<1>2. ASSUME NEW T \in SUBSET S, T # {}, \A x \in T : T \ {x} \in P PROVE T \in P
  <2>1. AnyOf(T) \in T
    BY <1>2, AnyOfMember
  <2>2. Sums(f, S)[T] = f[AnyOf(T)] + Sums(f, S)[T \ {AnyOf(T)}]
    BY <1>2, SumOfSubset
  <2>3. f[AnyOf(T)] \in Nat /\ Sums(f, S)[T \ {AnyOf(T)}] \in Nat
    BY <1>2, <2>1
  <2> QED
    BY <2>2, <2>3
<1> HIDE DEF P
<1>3. \A s \in SUBSET S : s \in P
  BY <1>1, <1>2, FiniteInduction
<1> QED
  BY <1>3 DEF P

(* The order of the terms does not matter: any of them can be the first.   *)
LEMMA SumWithout ==
  ASSUME NEW S, IsFiniteSet(S), NEW f \in [S -> Nat]
  PROVE  \A s \in SUBSET S : \A x \in s :
           Sums(f, S)[s] = f[x] + Sums(f, S)[s \ {x}]
<1> DEFINE sum == Sums(f, S)
           P == {s \in SUBSET S : \A x \in s : sum[s] = f[x] + sum[s \ {x}]}
<1>1. \A s \in SUBSET S : sum[s] \in Nat
  BY SumIsNatural
<1>2. \A s \in SUBSET S : s # {} => sum[s] = f[AnyOf(s)] + sum[s \ {AnyOf(s)}]
  BY SumOfSubset
<1> HIDE DEF sum
<1>3. {} \in P
  OBVIOUS
<1>4. ASSUME NEW T \in SUBSET S, T # {}, \A x \in T : T \ {x} \in P PROVE T \in P
  <2> SUFFICES ASSUME NEW x \in T PROVE sum[T] = f[x] + sum[T \ {x}]
    OBVIOUS
  <2> DEFINE y == AnyOf(T)
  <2>1. y \in T /\ sum[T] = f[y] + sum[T \ {y}]
    BY <1>2, <1>4, AnyOfMember
  <2> HIDE DEF y
  <2>2. CASE x = y
    BY <2>1, <2>2
  <2>3. CASE x # y
    <3>1. sum[T \ {y}] = f[x] + sum[(T \ {y}) \ {x}]
      BY <1>4, <2>1, <2>3
    <3>2. sum[T \ {x}] = f[y] + sum[(T \ {x}) \ {y}]
      BY <1>4, <2>1, <2>3
    <3>3. (T \ {x}) \ {y} = (T \ {y}) \ {x}
      OBVIOUS
    <3>4. f[x] \in Nat /\ f[y] \in Nat /\ sum[(T \ {y}) \ {x}] \in Nat
      BY <1>1, <2>1
    <3> QED
      BY <2>1, <3>1, <3>2, <3>3, <3>4
  <2> QED
    BY <2>2, <2>3
<1> HIDE DEF P
<1>5. \A s \in SUBSET S : s \in P
  BY <1>3, <1>4, FiniteInduction
<1> QED
  BY <1>5 DEF P, sum

LEMMA SumOfEqual ==
  ASSUME NEW S, IsFiniteSet(S), NEW f, NEW g,
         NEW R \in SUBSET S, \A x \in R : f[x] = g[x]
  PROVE  Sums(f, S)[R] = Sums(g, S)[R]
<1> DEFINE P == {s \in SUBSET R : Sums(f, S)[s] = Sums(g, S)[s]}
<1>1. IsFiniteSet(R)
  BY FS_Subset
<1>2. {} \in P
  BY SumOfSubset
<1>3. ASSUME NEW T \in SUBSET R, T # {}, \A x \in T : T \ {x} \in P PROVE T \in P
  <2>1. AnyOf(T) \in T /\ T \in SUBSET S
    BY <1>3, AnyOfMember
  <2>2. /\ Sums(f, S)[T] = f[AnyOf(T)] + Sums(f, S)[T \ {AnyOf(T)}]
        /\ Sums(g, S)[T] = g[AnyOf(T)] + Sums(g, S)[T \ {AnyOf(T)}]
    <3> HIDE DEF P
    <3> QED
      BY <1>3, <2>1, SumOfSubset
  <2> QED
    BY <1>3, <2>1, <2>2
<1> HIDE DEF P
<1>4. \A s \in SUBSET R : s \in P
  BY <1>1, <1>2, <1>3, FiniteInduction
<1> QED
  BY <1>4 DEF P

-----------------------------------------------------------------------------
LEMMA SumType ==
  ASSUME NEW S, IsFiniteSet(S), NEW f \in [S -> Nat]
  PROVE  SumFunction(f) \in Nat
BY SumFunctionIs, SumIsNatural

(* A function that differs in one place.                                   *)
LEMMA SumUpdate ==
  ASSUME NEW S, IsFiniteSet(S), NEW f \in [S -> Nat], NEW g \in [S -> Nat],
         NEW x \in S, \A y \in S \ {x} : g[y] = f[y]
  PROVE  SumFunction(g) = SumFunction(f) - f[x] + g[x]
<1>1. Sums(f, S)[S \ {x}] = Sums(g, S)[S \ {x}]
  <2>1. S \ {x} \in SUBSET S
    OBVIOUS
  <2> QED
    BY <2>1, SumOfEqual
<1>2. S \in SUBSET S
  OBVIOUS
<1>3. /\ Sums(f, S)[S] = f[x] + Sums(f, S)[S \ {x}]
      /\ Sums(g, S)[S] = g[x] + Sums(g, S)[S \ {x}]
  <2>1. /\ \A s \in SUBSET S : \A z \in s : Sums(f, S)[s] = f[z] + Sums(f, S)[s \ {z}]
        /\ \A s \in SUBSET S : \A z \in s : Sums(g, S)[s] = g[z] + Sums(g, S)[s \ {z}]
    BY SumWithout
  <2> QED
    BY <1>2, <2>1
<1>4. SumFunction(f) = Sums(f, S)[S] /\ SumFunction(g) = Sums(g, S)[S]
  BY SumFunctionIs
<1>5. f[x] \in Nat /\ Sums(f, S)[S \ {x}] \in Nat /\ g[x] \in Nat
  BY SumIsNatural
<1> QED
  BY <1>1, <1>2, <1>3, <1>4, <1>5

LEMMA SumBound ==
  ASSUME NEW S, IsFiniteSet(S), NEW f \in [S -> Nat], NEW x \in S
  PROVE  f[x] <= SumFunction(f)
<1>1. Sums(f, S)[S] = f[x] + Sums(f, S)[S \ {x}]
  BY SumWithout
<1>2. f[x] \in Nat /\ Sums(f, S)[S \ {x}] \in Nat
  BY SumIsNatural
<1> QED
  BY <1>1, <1>2, SumFunctionIs

LEMMA SumOfNothing ==
  ASSUME NEW S, IsFiniteSet(S), NEW f \in [S -> Nat], \A x \in S : f[x] = 0
  PROVE  SumFunction(f) = 0
<1> DEFINE P == {s \in SUBSET S : Sums(f, S)[s] = 0}
<1>1. {} \in P
  BY SumOfSubset
<1>2. ASSUME NEW T \in SUBSET S, T # {}, \A x \in T : T \ {x} \in P PROVE T \in P
  <2>1. AnyOf(T) \in T
    BY <1>2, AnyOfMember
  <2>2. Sums(f, S)[T] = f[AnyOf(T)] + Sums(f, S)[T \ {AnyOf(T)}]
    BY <1>2, SumOfSubset
  <2> QED
    BY <1>2, <2>1, <2>2
<1> HIDE DEF P
<1>3. \A s \in SUBSET S : s \in P
  BY <1>1, <1>2, FiniteInduction
<1> QED
  BY <1>3, SumFunctionIs DEF P
=============================================================================
