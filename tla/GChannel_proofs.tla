-------------------------- MODULE GChannel_proofs --------------------------
(***************************************************************************)
(* Proofs about GChannel, for any capacity, any number of writes, and      *)
(* callbacks that make any calls: its invariants, and that its queue       *)
(* implements BoundedFifo; and about ChannelPipeline, the program of two   *)
(* coroutines joined by a channel.                                         *)
(***************************************************************************)
EXTENDS ChannelPipeline, SequenceTheorems, FiniteSetTheorems, TLAPS

-----------------------------------------------------------------------------
(* The histories number the writes, and split the stored ones between the  *)
(* reader and the queue: the queue is the middle of one sequence.          *)
Numbered == \A k \in DOMAIN accepted : accepted[k].id = k

StoredIsAccepted ==
  /\ \A k \in DOMAIN stored : \E j \in DOMAIN accepted : stored[k] = accepted[j]
  /\ IdOrdered(stored)

QueueIsMiddle ==
  alive =>
    /\ Len(stored) = Len(delivered) + Len(items)
    /\ \A k \in DOMAIN delivered : delivered[k] = stored[k]
    /\ \A k \in DOMAIN items : items[k] = stored[Len(delivered) + k]

(* Memory is never given back while the channel lives: what was accepted   *)
(* behind the cramped writes was accepted with memory for the capacity.    *)
Reserved ==
  /\ cramped \in 0 .. Len(accepted)
  /\ alive /\ cramped < Len(accepted) => alloc >= Capacity

IndInv == TypeOK /\ ClosedIsLast /\ Numbered /\ StoredIsAccepted /\ QueueIsMiddle /\ Reserved

(* The items heard of by one event: ordered, and among those in source.    *)
Heard(heard, source) ==
  /\ IdOrdered(heard)
  /\ \A k \in DOMAIN heard : \E j \in DOMAIN source : heard[k] = source[j]

LEMMA Kinded ==
  ASSUME NEW s \in Seq(Item)
  PROVE  /\ Len(s) \in Nat /\ DOMAIN s = 1 .. Len(s)
         /\ \A k \in DOMAIN s : s[k] \in Item /\ s[k].id \in Nat /\ s[k].kind \in Kinds
<1>1. Len(s) \in Nat /\ DOMAIN s = 1 .. Len(s)
  BY LenProperties
<1>2. \A k \in DOMAIN s : s[k] \in Item
  BY <1>1, ElementOfSeq
<1> QED
  BY <1>1, <1>2 DEF Item

LEMMA AppendItem ==
  ASSUME NEW s \in Seq(Item), NEW x \in Item
  PROVE  /\ Append(s, x) \in Seq(Item) /\ Append(s, x) # <<>>
         /\ Len(s) \in Nat /\ DOMAIN s = 1 .. Len(s)
         /\ Len(Append(s, x)) = Len(s) + 1
         /\ DOMAIN Append(s, x) = 1 .. Len(s) + 1
         /\ \A k \in 1 .. Len(s) : Append(s, x)[k] = s[k]
         /\ Append(s, x)[Len(s) + 1] = x
BY AppendProperties, LenProperties

LEMMA TailItems ==
  ASSUME NEW s \in Seq(Item), s # <<>>
  PROVE  /\ Head(s) \in Item /\ Head(s) = s[1] /\ Tail(s) \in Seq(Item)
         /\ Len(s) \in Nat \ {0} /\ Len(Tail(s)) = Len(s) - 1
         /\ DOMAIN Tail(s) = 1 .. Len(s) - 1
         /\ \A k \in 1 .. Len(s) - 1 : Tail(s)[k] = s[k + 1]
BY HeadTailProperties, LenProperties, EmptySeq

(* An event that is not firing fires in addition to those that are.        *)
LEMMA FireOnce ==
  ASSUME NEW e \in Events, firing \in Seq(Events), ~Firing(e), IsInjective(firing)
  PROVE  IsInjective(Append(firing, e))
<1>1. /\ Len(firing) \in Nat /\ DOMAIN firing = 1 .. Len(firing)
      /\ DOMAIN Append(firing, e) = 1 .. Len(firing) + 1
      /\ \A k \in 1 .. Len(firing) : Append(firing, e)[k] = firing[k]
      /\ Append(firing, e)[Len(firing) + 1] = e
  BY AppendProperties, LenProperties
<1> QED
  BY <1>1 DEF IsInjective, Firing

LEMMA PopType ==
  ASSUME firing \in Seq(Events), firing # <<>>
  PROVE  LET popped == SubSeq(firing, 1, Len(firing) - 1)
         IN  /\ popped \in Seq(Events)
             /\ IsInjective(firing) => IsInjective(popped)
<1> DEFINE n == Len(firing) - 1
<1>1. n \in Nat /\ DOMAIN firing = 1 .. n + 1
  BY LenProperties, EmptySeq
<1>2. \A k \in 1 .. n : firing[k] \in Events
  BY <1>1, ElementOfSeq
<1>3. /\ SubSeq(firing, 1, n) \in Seq(Events)
      /\ Len(SubSeq(firing, 1, n)) = n
      /\ \A k \in 1 .. n : SubSeq(firing, 1, n)[k] = firing[k]
  BY <1>1, <1>2, SubSeqProperties
<1>4. DOMAIN SubSeq(firing, 1, n) = 1 .. n
  BY <1>3, LenProperties
<1> QED
  BY <1>1, <1>3, <1>4 DEF IsInjective
-----------------------------------------------------------------------------
(* What a write appends, and what a read takes.                            *)
NewItem(kind) == [kind |-> kind, id |-> Len(accepted) + 1]

LEMMA WriteFacts ==
  ASSUME TypeOK, NEW kind \in Kinds, WriteItem(kind)
  PROVE  /\ NewItem(kind) \in Item
         /\ ~closed /\ accepted' = Append(accepted, NewItem(kind))
         /\ closed' \in BOOLEAN /\ closed' = (kind = "closed")
         /\ UNCHANGED <<alive, delivered, taken>>
         /\ Fire("on_write", announced, NewItem(kind))
         /\ \/ /\ items' = Append(items, NewItem(kind))
               /\ stored' = Append(stored, NewItem(kind))
               /\ alloc' = IF Len(items) < alloc THEN alloc ELSE Len(items) + 1
            \/ Len(items) >= alloc /\ UNCHANGED <<items, stored, alloc>>
         /\ HasRoom(kind)
         /\ cramped' = IF alloc' >= Capacity THEN cramped ELSE Len(accepted) + 1
         /\ alloc' = alloc \/ alloc' > alloc
<1>1. NewItem(kind) \in Item
  BY LenProperties DEF TypeOK, NewItem, Item
<1>2. closed' = (kind = "closed") /\ closed' \in BOOLEAN
  BY DEF WriteItem, ClosedAfter
<1>3. alloc \in Nat /\ Len(items) \in Nat
  BY LenProperties DEF TypeOK
<1> QED
  BY <1>1, <1>2, <1>3 DEF WriteItem, NewItem, Add

LEMMA WriteTypeOK ==
  ASSUME TypeOK, NEW kind \in Kinds, WriteItem(kind)
  PROVE  TypeOK'
<1> USE WriteFacts
<1>1. /\ accepted' \in Seq(Item) /\ delivered' \in Seq(Item) /\ taken' \in Seq(Item)
      /\ closed' \in BOOLEAN /\ alive' \in BOOLEAN /\ cramped' \in Nat
  <2>1. NewItem(kind) \in Item /\ accepted' = Append(accepted, NewItem(kind))
    OBVIOUS
  <2>2. closed' \in BOOLEAN /\ UNCHANGED <<alive, delivered, taken>>
    OBVIOUS
  <2>3. /\ accepted \in Seq(Item) /\ delivered \in Seq(Item) /\ taken \in Seq(Item)
        /\ alive \in BOOLEAN
    BY ONLY TypeOK DEF TypeOK
  <2>4. accepted' \in Seq(Item)
    BY ONLY <2>1, <2>3, AppendItem
  <2>5. cramped' \in Nat
    <3>1. cramped \in Nat /\ Len(accepted) + 1 \in Nat
      BY <2>3, LenProperties DEF TypeOK
    <3> QED
      BY <3>1
  <2> QED
    BY ONLY <2>2, <2>3, <2>4, <2>5
<1>2. firing' \in Seq(Events) /\ announced' \in Seq(Item)
  <2>1. CASE UNCHANGED <<firing, announced>>
    BY <2>1 DEF TypeOK
  <2>2. CASE firing' = Append(firing, "on_write") /\ announced' = Append(announced, NewItem(kind))
    BY <2>2, AppendItem, AppendProperties DEF TypeOK, Events
  <2> QED
    BY <2>1, <2>2 DEF Fire
<1>3. items' \in Seq(Item) /\ stored' \in Seq(Item) /\ alloc' \in Nat /\ Len(items') <= alloc'
  <2>1. CASE UNCHANGED <<items, stored, alloc>>
    BY <2>1 DEF TypeOK
  <2>2. CASE /\ items' = Append(items, NewItem(kind))
             /\ stored' = Append(stored, NewItem(kind))
             /\ alloc' = IF Len(items) < alloc THEN alloc ELSE Len(items) + 1
    BY <2>2, AppendItem DEF TypeOK
  <2> QED
    BY <2>1, <2>2
<1> QED
  BY <1>1, <1>2, <1>3 DEF TypeOK

LEMMA WriteInv ==
  ASSUME IndInv, alive, NEW kind \in Kinds, WriteItem(kind)
  PROVE  IndInv'
<1> DEFINE x == NewItem(kind)
<1>0. TypeOK
  BY DEF IndInv
<1>1. TypeOK'
  BY <1>0, WriteTypeOK
<1>2. /\ x \in Item /\ ~closed /\ accepted' = Append(accepted, x)
      /\ closed' = (kind = "closed") /\ UNCHANGED <<alive, delivered, taken>>
  BY <1>0, WriteFacts
<1>3. /\ Len(accepted) \in Nat /\ DOMAIN accepted = 1 .. Len(accepted)
      /\ Len(accepted') = Len(accepted) + 1 /\ DOMAIN accepted' = 1 .. Len(accepted) + 1
      /\ \A k \in 1 .. Len(accepted) : accepted'[k] = accepted[k]
      /\ accepted'[Len(accepted) + 1] = x /\ accepted' # <<>>
  BY <1>0, <1>2, AppendItem DEF TypeOK
<1>4. x.kind = kind /\ x.id = Len(accepted) + 1
  BY DEF NewItem
<1>5. ClosedIsLast'
  <2>1. \A k \in DOMAIN accepted : accepted[k].kind # "closed"
    <3> SUFFICES ASSUME NEW k \in DOMAIN accepted, accepted[k].kind = "closed" PROVE FALSE
      OBVIOUS
    <3>1. k = Len(accepted) /\ accepted # <<>>
      BY DEF IndInv, ClosedIsLast
    <3> QED
      BY <1>2, <3>1 DEF IndInv, ClosedIsLast, Last
  <2>2. \A k \in DOMAIN accepted' : accepted'[k].kind = "closed" => k = Len(accepted')
    BY <1>3, <2>1
  <2>3. closed' <=> accepted' # <<>> /\ Last(accepted').kind = "closed"
    BY <1>2, <1>3, <1>4 DEF Last
  <2> QED
    BY <2>2, <2>3 DEF ClosedIsLast
<1>6. Numbered'
  BY <1>3, <1>4 DEF IndInv, Numbered
<1>7. Len(items) \in Nat /\ alloc \in Nat /\ Capacity \in Nat
  BY <1>0, ChannelAssumption, LenProperties DEF TypeOK
<1>8. Reserved'
  <2>1. /\ cramped' = IF alloc' >= Capacity THEN cramped ELSE Len(accepted) + 1
        /\ cramped \in 0 .. Len(accepted)
    BY <1>0, WriteFacts DEF IndInv, Reserved
  <2> QED
    BY <1>3, <2>1 DEF Reserved
<1>9. StoredIsAccepted' /\ QueueIsMiddle'
  <2>1. CASE Len(items) >= alloc /\ UNCHANGED <<items, stored, alloc>>
    <3>1. StoredIsAccepted'
      BY <1>3, <2>1 DEF IndInv, StoredIsAccepted
    <3> QED
      BY <1>2, <2>1, <3>1 DEF IndInv, QueueIsMiddle
  <2>2. CASE /\ items' = Append(items, x)
             /\ stored' = Append(stored, x)
             /\ alloc' = IF Len(items) < alloc THEN alloc ELSE Len(items) + 1
    <3>1. /\ Len(stored) \in Nat /\ DOMAIN stored = 1 .. Len(stored)
          /\ Len(stored') = Len(stored) + 1 /\ DOMAIN stored' = 1 .. Len(stored) + 1
          /\ \A k \in 1 .. Len(stored) : stored'[k] = stored[k]
          /\ stored'[Len(stored) + 1] = x
      BY <1>0, <1>2, <2>2, AppendItem DEF TypeOK
    <3>2. /\ DOMAIN items = 1 .. Len(items)
          /\ Len(items') = Len(items) + 1 /\ DOMAIN items' = 1 .. Len(items) + 1
          /\ \A k \in 1 .. Len(items) : items'[k] = items[k]
          /\ items'[Len(items) + 1] = x
      BY <1>0, <1>2, <2>2, AppendItem DEF TypeOK
    <3>3. StoredIsAccepted'
      <4>1. \A k \in DOMAIN stored' : \E j \in DOMAIN accepted' : stored'[k] = accepted'[j]
        BY <1>3, <3>1 DEF IndInv, StoredIsAccepted
      <4>2. \A k \in DOMAIN stored : stored[k].id <= Len(accepted) /\ stored[k].id \in Nat
        BY <1>3 DEF IndInv, StoredIsAccepted, Numbered
      <4> QED
        BY <1>3, <1>4, <3>1, <4>1, <4>2 DEF IndInv, StoredIsAccepted, IdOrdered
    <3>4. QueueIsMiddle'
      <4>1. Len(delivered) \in Nat /\ DOMAIN delivered = 1 .. Len(delivered)
        BY <1>0, LenProperties DEF TypeOK
      <4>2. /\ Len(stored) = Len(delivered) + Len(items)
            /\ \A k \in DOMAIN delivered : delivered[k] = stored[k]
            /\ \A k \in DOMAIN items : items[k] = stored[Len(delivered) + k]
        BY DEF IndInv, QueueIsMiddle
      <4>3. \A k \in DOMAIN delivered : delivered[k] = stored'[k]
        BY <1>7, <3>1, <4>1, <4>2
      <4>4. \A k \in 1 .. Len(items) : items'[k] = stored'[Len(delivered) + k]
        BY <1>7, <3>1, <3>2, <4>1, <4>2
      <4>5. \A k \in DOMAIN items' : items'[k] = stored'[Len(delivered) + k]
        BY <1>7, <3>1, <3>2, <4>1, <4>2, <4>4
      <4>6. Len(stored') = Len(delivered) + Len(items')
        BY <1>7, <3>1, <3>2, <4>1, <4>2
      <4> QED
        BY <1>2, <4>3, <4>5, <4>6 DEF QueueIsMiddle
    <3> QED
      BY <3>3, <3>4
  <2> QED
    BY <1>0, <2>1, <2>2, WriteFacts
<1> QED
  BY <1>1, <1>5, <1>6, <1>8, <1>9 DEF IndInv

LEMMA ReadFacts ==
  ASSUME IndInv, Read
  PROVE  /\ alive /\ items # <<>> /\ Head(items) \in Item
         /\ Head(items) = stored[Len(delivered) + 1]
         /\ Len(stored) \in Nat /\ Len(delivered) \in Nat /\ Len(delivered) < Len(stored)
         /\ delivered' = Append(delivered, Head(items))
         /\ Fire("on_read", taken, Head(items))
         /\ UNCHANGED <<alloc, closed, alive, accepted, stored, announced, cramped>>
<1>1. alive /\ items # <<>>
  BY DEF Read, MayCall
<1>2. /\ Head(items) \in Item /\ Head(items) = items[1] /\ Len(items) \in Nat \ {0}
      /\ DOMAIN items = 1 .. Len(items)
  BY <1>1, TailItems, LenProperties DEF IndInv, TypeOK
<1>3. Len(stored) \in Nat /\ Len(delivered) \in Nat
  BY LenProperties DEF IndInv, TypeOK
<1>4. Head(items) = stored[Len(delivered) + 1] /\ Len(delivered) < Len(stored)
  BY <1>1, <1>2, <1>3 DEF IndInv, QueueIsMiddle
<1> QED
  BY <1>1, <1>2, <1>3, <1>4 DEF Read

LEMMA ReadInv == IndInv /\ Read => IndInv'
<1> SUFFICES ASSUME IndInv, Read PROVE IndInv'
  OBVIOUS
<1>1. /\ alive /\ items # <<>> /\ Head(items) \in Item
      /\ Head(items) = stored[Len(delivered) + 1]
      /\ Len(stored) \in Nat /\ Len(delivered) \in Nat /\ Len(delivered) < Len(stored)
      /\ delivered' = Append(delivered, Head(items))
      /\ Fire("on_read", taken, Head(items))
      /\ UNCHANGED <<alloc, closed, alive, accepted, stored, announced, cramped>>
  BY ReadFacts
<1>2. /\ items' \in Seq(Item) /\ Len(items) \in Nat \ {0} /\ Len(items') = Len(items) - 1
      /\ DOMAIN items' = 1 .. Len(items) - 1 /\ DOMAIN items = 1 .. Len(items)
      /\ \A k \in 1 .. Len(items) - 1 : items'[k] = items[k + 1]
  BY TailItems, LenProperties DEF Read, IndInv, TypeOK
<1>3. /\ delivered' \in Seq(Item) /\ Len(delivered') = Len(delivered) + 1
      /\ DOMAIN delivered = 1 .. Len(delivered) /\ DOMAIN delivered' = 1 .. Len(delivered) + 1
      /\ \A k \in 1 .. Len(delivered) : delivered'[k] = delivered[k]
      /\ delivered'[Len(delivered) + 1] = Head(items)
  BY <1>1, AppendItem DEF IndInv, TypeOK
<1>4. TypeOK'
  <2>1. firing' \in Seq(Events) /\ taken' \in Seq(Item)
    <3>1. CASE UNCHANGED <<firing, taken>>
      BY <3>1 DEF IndInv, TypeOK
    <3>2. CASE firing' = Append(firing, "on_read") /\ taken' = Append(taken, Head(items))
      BY <1>1, <3>2, AppendItem, AppendProperties DEF IndInv, TypeOK, Events
    <3> QED
      BY <1>1, <3>1, <3>2 DEF Fire
  <2>2. closed' \in BOOLEAN /\ alive' \in BOOLEAN /\ cramped' \in Nat
    BY <1>1 DEF IndInv, TypeOK
  <2> QED
    BY <1>1, <1>2, <1>3, <2>1, <2>2 DEF IndInv, TypeOK
<1>5. ClosedIsLast' /\ Numbered' /\ StoredIsAccepted' /\ Reserved'
  BY <1>1 DEF IndInv, ClosedIsLast, Numbered, StoredIsAccepted, Reserved
<1>6. QueueIsMiddle'
  <2>1. /\ Len(stored) = Len(delivered) + Len(items)
        /\ \A k \in DOMAIN delivered : delivered[k] = stored[k]
        /\ \A k \in DOMAIN items : items[k] = stored[Len(delivered) + k]
    BY <1>1 DEF IndInv, QueueIsMiddle
  <2>2. \A k \in DOMAIN delivered' : delivered'[k] = stored[k]
    BY <1>1, <1>3, <2>1
  <2>3. \A k \in DOMAIN items' : items'[k] = stored[Len(delivered') + k]
    <3> SUFFICES ASSUME NEW k \in DOMAIN items'
                 PROVE  items'[k] = stored[Len(delivered') + k]
      OBVIOUS
    <3>1. k + 1 \in DOMAIN items /\ items'[k] = items[k + 1]
      BY <1>2
    <3>2. items[k + 1] = stored[Len(delivered) + (k + 1)]
      BY <2>1, <3>1
    <3>3. Len(delivered) + (k + 1) = Len(delivered') + k
      BY <1>1, <1>2, <1>3
    <3> QED
      BY <3>1, <3>2, <3>3
  <2>4. Len(stored) = Len(delivered') + Len(items')
    BY <1>1, <1>2, <1>3, <2>1
  <2> QED
    BY <1>1, <2>2, <2>3, <2>4 DEF QueueIsMiddle
<1> QED
  BY <1>4, <1>5, <1>6 DEF IndInv

LEMMA InitInv == Init => IndInv
<1> SUFFICES ASSUME Init PROVE IndInv
  OBVIOUS
<1>1. TypeOK
  <2>1. /\ items \in Seq(Item) /\ Len(items) = 0 /\ accepted \in Seq(Item) /\ stored \in Seq(Item)
        /\ delivered \in Seq(Item) /\ announced \in Seq(Item) /\ taken \in Seq(Item)
        /\ firing \in Seq(Events)
    BY EmptySeq DEF Init
  <2>2. alloc \in Nat /\ Len(items) <= alloc
    BY <2>1, ChannelAssumption DEF Init
  <2>3. closed \in BOOLEAN /\ alive \in BOOLEAN /\ cramped \in Nat
    BY DEF Init
  <2> QED
    BY <2>1, <2>2, <2>3 DEF TypeOK
<1>2. ClosedIsLast /\ Numbered /\ StoredIsAccepted
  BY DEF Init, ClosedIsLast, Numbered, StoredIsAccepted, IdOrdered
<1>3. QueueIsMiddle
  BY EmptySeq DEF Init, QueueIsMiddle
<1>4. Reserved
  BY EmptySeq DEF Init, Reserved
<1> QED
  BY <1>1, <1>2, <1>3, <1>4 DEF IndInv

LEMMA StepInv == IndInv /\ [Next]_vars => IndInv'
<1> SUFFICES ASSUME IndInv, [Next]_vars PROVE IndInv'
  OBVIOUS
<1>1. CASE Write \/ Error \/ Close
  BY <1>1, WriteInv DEF Write, Error, Close, MayCall, Kinds
<1>2. CASE Read
  BY <1>2, ReadInv
<1>3. CASE CallbackReturns
  <2>1. firing' \in Seq(Events)
    BY <1>3, PopType DEF CallbackReturns, IndInv, TypeOK
  <2> QED
    BY <1>3, <2>1 DEF CallbackReturns, IndInv, TypeOK, ClosedIsLast, Numbered,
                      StoredIsAccepted, QueueIsMiddle, Reserved
<1>4. CASE Free
  <2>1. items' \in Seq(Item) /\ Len(items') = 0 /\ alloc' = 0 /\ alive' = FALSE
    BY <1>4, EmptySeq DEF Free
  <2>2. UNCHANGED <<closed, firing, accepted, stored, delivered, announced, taken,
                    cramped>>
    BY <1>4 DEF Free
  <2>3. TypeOK'
    <3>1. alive' \in BOOLEAN
      BY <2>1
    <3> QED
      BY <2>1, <2>2, <3>1 DEF IndInv, TypeOK
  <2> QED
    BY <2>1, <2>2, <2>3 DEF IndInv, ClosedIsLast, Numbered, StoredIsAccepted,
                            QueueIsMiddle, Reserved
<1>5. CASE UNCHANGED vars
  BY <1>5 DEF vars, IndInv, TypeOK, ClosedIsLast, Numbered, StoredIsAccepted,
              QueueIsMiddle, Reserved
<1> QED
  BY <1>1, <1>2, <1>3, <1>4, <1>5 DEF Next

LEMMA Inductive == Spec => []IndInv
<1> QED
  BY InitInv, StepInv, PTL DEF Spec

-----------------------------------------------------------------------------
(* The queue's array always has room for what is in it.                    *)
THEOREM TypeCorrect == Spec => []TypeOK
<1>1. IndInv => TypeOK
  BY DEF IndInv
<1> QED
  BY <1>1, Inductive, PTL

(* Nothing is accepted after the close marker, and g_channel_is_closed     *)
(* says whether it was.                                                    *)
THEOREM NothingAfterClose == Spec => []ClosedIsLast
<1>1. IndInv => ClosedIsLast
  BY DEF IndInv
<1> QED
  BY <1>1, Inductive, PTL

(* A write that the array has memory for the capacity for, and data, is    *)
(* stored.                                                                 *)
LEMMA RoomyIsStored ==
  ASSUME IndInv, NEW kind \in Kinds, WriteItem(kind), kind = "data", Capacity > 0,
         alloc' >= Capacity
  PROVE  stored' = Append(stored, NewItem(kind))
<1>1. alloc \in Nat /\ Len(items) \in Nat /\ Capacity \in Nat
  BY ChannelAssumption, LenProperties DEF IndInv, TypeOK
<1>2. Capacity > Len(items)
  BY WriteFacts DEF IndInv, HasRoom
<1>3. CASE Len(items) >= alloc /\ UNCHANGED <<items, stored, alloc>>
  BY <1>1, <1>2, <1>3
<1> QED
  BY <1>3, WriteFacts DEF IndInv

(* Once the array of a bounded channel has had memory for its capacity,    *)
(* every data item that is accepted is stored, although g_channel_write    *)
(* ignores the result of g_array_add.                                      *)
THEOREM StoresWhatItAccepts == Spec => []DataNeverLost
<1>1. Init => DataNeverLost
  BY DEF Init, DataNeverLost
<1>2. IndInv /\ DataNeverLost /\ [Next]_vars => DataNeverLost'
  <2> SUFFICES ASSUME IndInv, DataNeverLost, [Next]_vars, Capacity > 0,
                      NEW k \in DOMAIN accepted', k > cramped', IsData(accepted'[k])
               PROVE  Contains(stored', accepted'[k])
    BY DEF DataNeverLost
  <2>1. \A j \in DOMAIN accepted :
          j > cramped /\ IsData(accepted[j])
            => \E n \in 1 .. Len(stored) : stored[n] = accepted[j]
    BY DEF DataNeverLost, Contains
  <2>2. CASE UNCHANGED <<accepted, stored, cramped>>
    BY <2>1, <2>2 DEF Contains
  <2>3. ASSUME NEW kind \in Kinds, WriteItem(kind)
        PROVE  Contains(stored', accepted'[k])
    <3> DEFINE y == NewItem(kind)
    <3>1. y \in Item /\ y.kind = kind /\ accepted' = Append(accepted, y)
      BY <2>3, WriteFacts DEF IndInv, NewItem
    <3>2. /\ Len(accepted) \in Nat /\ DOMAIN accepted = 1 .. Len(accepted)
          /\ DOMAIN accepted' = 1 .. Len(accepted) + 1
          /\ \A j \in 1 .. Len(accepted) : accepted'[j] = accepted[j]
          /\ accepted'[Len(accepted) + 1] = y
      BY <3>1, AppendItem DEF IndInv, TypeOK
    <3>3. /\ cramped' = IF alloc' >= Capacity THEN cramped ELSE Len(accepted) + 1
          /\ cramped \in 0 .. Len(accepted)
      BY <2>3, WriteFacts DEF IndInv, Reserved
    <3>4. alloc' >= Capacity /\ cramped' = cramped
      <4>1. k \in 1 .. Len(accepted) + 1 /\ k > cramped'
        BY <3>2
      <4> QED
        BY <3>2, <3>3, <4>1
    <3>5. /\ Len(stored) \in Nat /\ DOMAIN stored = 1 .. Len(stored)
          /\ Len(Append(stored, y)) = Len(stored) + 1
          /\ \A n \in 1 .. Len(stored) : Append(stored, y)[n] = stored[n]
          /\ Append(stored, y)[Len(stored) + 1] = y
      BY <3>1, AppendItem DEF IndInv, TypeOK
    <3>6. CASE k \in 1 .. Len(accepted)
      <4>1. accepted'[k] = accepted[k] /\ k > cramped /\ IsData(accepted[k])
        BY <3>2, <3>4, <3>6
      <4>2. PICK n \in 1 .. Len(stored) : stored[n] = accepted[k]
        BY <2>1, <3>2, <3>6, <4>1
      <4>3. stored' = Append(stored, y) \/ stored' = stored
        BY <2>3, WriteFacts DEF IndInv
      <4>4. n \in 1 .. Len(stored') /\ stored'[n] = accepted'[k]
        BY <3>5, <4>1, <4>2, <4>3
      <4> QED
        BY <4>4 DEF Contains
    <3>7. CASE k = Len(accepted) + 1
      <4>1. accepted'[k] = y /\ kind = "data"
        BY <3>1, <3>2, <3>7 DEF IsData
      <4>2. stored' = Append(stored, y)
        BY <2>3, <3>4, <4>1, RoomyIsStored
      <4>3. Len(stored) + 1 \in 1 .. Len(stored') /\ stored'[Len(stored) + 1] = y
        BY <3>5, <4>2
      <4> QED
        BY <4>1, <4>3 DEF Contains
    <3> QED
      BY <3>2, <3>6, <3>7
  <2>4. CASE Write \/ Error \/ Close
    BY <2>3, <2>4 DEF Write, Error, Close, Kinds
  <2> QED
    BY <2>2, <2>4 DEF Next, vars, Read, CallbackReturns, Free
<1> QED
  BY <1>1, <1>2, Inductive, PTL DEF Spec

(* If the reservation of g_channel_new succeeded, a bounded channel stores *)
(* every data item it ever accepts.                                        *)
NoDataLost ==
  Capacity > 0 =>
    \A k \in DOMAIN accepted : IsData(accepted[k]) => Contains(stored, accepted[k])

THEOREM ReservedLosesNothing ==
  Init /\ alloc = Capacity /\ [][Next]_vars => []NoDataLost
<1> DEFINE Ample == cramped = 0 /\ (alive => alloc >= Capacity)
<1>1. Init /\ alloc = Capacity => Ample
  BY ChannelAssumption DEF Init
<1>2. IndInv /\ Ample /\ [Next]_vars => Ample'
  <2> SUFFICES ASSUME IndInv, Ample, [Next]_vars PROVE Ample'
    OBVIOUS
  <2>1. ASSUME alive, NEW kind \in Kinds, WriteItem(kind) PROVE Ample'
    <3>1. /\ cramped' = IF alloc' >= Capacity THEN cramped ELSE Len(accepted) + 1
          /\ alloc' = alloc \/ alloc' > alloc
          /\ alive' = alive
      BY <2>1, WriteFacts DEF IndInv
    <3>2. alloc \in Nat /\ alloc' \in Nat /\ Capacity \in Nat
      BY <2>1, WriteTypeOK, ChannelAssumption DEF IndInv, TypeOK
    <3> QED
      BY <2>1, <3>1, <3>2
  <2>2. CASE Write \/ Error \/ Close
    BY <2>1, <2>2 DEF Write, Error, Close, MayCall, Kinds
  <2> QED
    BY <2>2 DEF Next, vars, Read, CallbackReturns, Free
<1>3. IndInv /\ Ample /\ DataNeverLost => NoDataLost
  <2> SUFFICES ASSUME IndInv, Ample, DataNeverLost, Capacity > 0,
                      NEW k \in DOMAIN accepted, IsData(accepted[k])
               PROVE  Contains(stored, accepted[k])
    BY DEF NoDataLost
  <2>1. k > cramped
    BY LenProperties DEF IndInv, TypeOK
  <2> QED
    BY <2>1 DEF DataNeverLost
<1> QED
  BY <1>1, <1>2, <1>3, Inductive, StoresWhatItAccepts, PTL DEF Spec

(* Hearing of one more item keeps the order when the item comes after all  *)
(* that the event may have heard of, which source ends with.               *)
LEMMA HearOneMore ==
  ASSUME NEW heard \in Seq(Item), NEW source \in Seq(Item), NEW x \in Item,
         Heard(heard, source),
         \A k \in DOMAIN source : source[k].id < x.id
  PROVE  /\ Heard(Append(heard, x), Append(source, x))
         /\ Heard(heard, Append(source, x))
<1>1. /\ DOMAIN source = 1 .. Len(source) /\ Len(source) \in Nat
      /\ DOMAIN Append(source, x) = 1 .. Len(source) + 1
      /\ \A k \in 1 .. Len(source) : Append(source, x)[k] = source[k]
      /\ Append(source, x)[Len(source) + 1] = x
  BY AppendItem
<1>2. /\ DOMAIN heard = 1 .. Len(heard) /\ Len(heard) \in Nat
      /\ DOMAIN Append(heard, x) = 1 .. Len(heard) + 1
      /\ \A k \in 1 .. Len(heard) : Append(heard, x)[k] = heard[k]
      /\ Append(heard, x)[Len(heard) + 1] = x
  BY AppendItem
<1>3. Heard(heard, Append(source, x))
  BY <1>1 DEF Heard
<1>4. \A k \in DOMAIN heard : heard[k].id < x.id
  BY DEF Heard
<1>5. IdOrdered(Append(heard, x))
  BY <1>2, <1>4 DEF Heard, IdOrdered
<1>6. \A k \in DOMAIN Append(heard, x) :
        \E j \in DOMAIN Append(source, x) : Append(heard, x)[k] = Append(source, x)[j]
  BY <1>1, <1>2 DEF Heard
<1> QED
  BY <1>3, <1>5, <1>6 DEF Heard

(* Each event fires at most once at a time, with accepted items in the     *)
(* order of the writes, or with the items read in the order of reading.    *)
THEOREM FiresInOrder == Spec => []AnnouncedInOrder
<1> DEFINE Inv == /\ IsInjective(firing)
                  /\ Heard(announced, accepted)
                  /\ Heard(taken, delivered)
<1>1. Init => Inv
  BY DEF Init, IsInjective, Heard, IdOrdered
<1>2. IndInv /\ Inv /\ [Next]_vars => Inv'
  <2> SUFFICES ASSUME IndInv, Inv, [Next]_vars PROVE Inv'
    OBVIOUS
  <2>1. ASSUME NEW kind \in Kinds, WriteItem(kind) PROVE Inv'
    <3> DEFINE x == NewItem(kind)
    <3>1. /\ x \in Item /\ accepted' = Append(accepted, x) /\ UNCHANGED <<delivered, taken>>
          /\ Fire("on_write", announced, x)
      BY <2>1, WriteFacts DEF IndInv
    <3>2. \A k \in DOMAIN accepted : accepted[k].id < x.id
      BY Kinded DEF IndInv, TypeOK, Numbered, NewItem
    <3>3. /\ Heard(Append(announced, x), accepted')
          /\ Heard(announced, accepted')
      BY <3>1, <3>2, HearOneMore DEF IndInv, TypeOK
    <3>4. CASE Firing("on_write")
      BY <3>1, <3>3, <3>4 DEF Fire
    <3>5. CASE ~Firing("on_write")
      <4>1. IsInjective(Append(firing, "on_write"))
        BY <3>5, FireOnce DEF IndInv, TypeOK, Events
      <4> QED
        BY <3>1, <3>3, <3>5, <4>1 DEF Fire
    <3> QED
      BY <3>4, <3>5
  <2>2. CASE Read
    <3> DEFINE x == Head(items)
    <3>1. /\ x \in Item /\ delivered' = Append(delivered, x) /\ UNCHANGED <<accepted, announced>>
          /\ Fire("on_read", taken, x)
      BY <2>2, ReadFacts
    <3>2. \A k \in DOMAIN delivered : delivered[k].id < x.id
      <4>1. /\ alive /\ x = stored[Len(delivered) + 1]
            /\ Len(stored) \in Nat /\ Len(delivered) \in Nat /\ Len(delivered) < Len(stored)
        BY <2>2, ReadFacts
      <4>2. DOMAIN stored = 1 .. Len(stored) /\ DOMAIN delivered = 1 .. Len(delivered)
        BY Kinded DEF IndInv, TypeOK
      <4>3. \A k \in DOMAIN delivered : delivered[k] = stored[k]
        BY <4>1 DEF IndInv, QueueIsMiddle
      <4> QED
        BY <4>1, <4>2, <4>3 DEF IndInv, StoredIsAccepted, IdOrdered
    <3>3. /\ Heard(Append(taken, x), delivered')
          /\ Heard(taken, delivered')
      BY <3>1, <3>2, HearOneMore DEF IndInv, TypeOK
    <3>4. CASE Firing("on_read")
      BY <3>1, <3>3, <3>4 DEF Fire
    <3>5. CASE ~Firing("on_read")
      <4>1. IsInjective(Append(firing, "on_read"))
        BY <3>5, FireOnce DEF IndInv, TypeOK, Events
      <4> QED
        BY <3>1, <3>3, <3>5, <4>1 DEF Fire
    <3> QED
      BY <3>4, <3>5
  <2>3. CASE CallbackReturns
    BY <2>3, PopType DEF CallbackReturns, IndInv, TypeOK
  <2>4. CASE Free \/ UNCHANGED vars
    BY <2>4 DEF Free, vars
  <2> QED
    BY <2>1, <2>2, <2>3, <2>4 DEF Next, Write, Error, Close, Kinds
<1>3. Inv => AnnouncedInOrder
  BY DEF AnnouncedInOrder, Heard, ToSet
<1> QED
  BY <1>1, <1>2, <1>3, Inductive, PTL DEF Spec

-----------------------------------------------------------------------------
(* The queue is a bounded FIFO: every step of a channel is a step of       *)
(* BoundedFifo on what its array stored and what was read, or none.        *)
FifoClosed == stored # <<>> /\ Last(stored).kind = "closed"

LEMMA ClosedAgrees == IndInv /\ FifoClosed => closed
<1> SUFFICES ASSUME IndInv, FifoClosed PROVE closed
  OBVIOUS
<1>1. Len(stored) \in DOMAIN stored
  BY EmptySeq, LenProperties DEF IndInv, TypeOK, FifoClosed
<1>2. PICK j \in DOMAIN accepted : stored[Len(stored)] = accepted[j]
  BY <1>1 DEF IndInv, StoredIsAccepted
<1>3. j = Len(accepted) /\ accepted[j].kind = "closed" /\ accepted # <<>>
  BY <1>2 DEF IndInv, ClosedIsLast, FifoClosed, Last
<1> QED
  BY <1>3 DEF IndInv, ClosedIsLast, Last

LEMMA StoreIsPut ==
  ASSUME IndInv, alive, NEW kind \in Kinds, WriteItem(kind),
         stored' = Append(stored, NewItem(kind))
  PROVE  Fifo!Next
<1> DEFINE x == NewItem(kind)
<1>1. x \in Item /\ x.kind = kind /\ UNCHANGED delivered /\ HasRoom(kind) /\ ~closed
  BY WriteFacts DEF IndInv, NewItem
<1>2. Len(stored) \in Nat /\ Len(stored') = Len(stored) + 1 /\ stored' # <<>>
      /\ stored'[Len(stored')] = x
  <2>1. stored \in Seq(Item) /\ stored' = Append(stored, x)
    BY DEF IndInv, TypeOK
  <2>2. /\ Len(stored) \in Nat /\ Len(Append(stored, x)) = Len(stored) + 1
        /\ Append(stored, x) # <<>> /\ Append(stored, x)[Len(stored) + 1] = x
    BY <1>1, <2>1, AppendItem
  <2> QED
    BY <2>1, <2>2
<1>3. kind = "data" /\ Capacity > 0 => Fifo!Pending < Capacity
  <2>1. Len(stored) = Len(delivered) + Len(items)
    BY DEF IndInv, QueueIsMiddle
  <2>2. Len(delivered) \in Nat /\ Len(items) \in Nat /\ Capacity \in Nat
    BY ChannelAssumption, LenProperties DEF IndInv, TypeOK
  <2> QED
    BY <1>1, <2>1, <2>2 DEF HasRoom, Fifo!Pending
<1>4. FifoClosed' = (x.kind = "closed")
  BY <1>2 DEF FifoClosed, Last
<1>5. ~FifoClosed
  BY <1>1, ClosedAgrees
<1>6. Fifo!Put(x)
  BY <1>1, <1>3, <1>4, <1>5 DEF Fifo!Put, FifoClosed
<1> QED
  BY <1>2, <1>6 DEF Fifo!Next

(* The array and its capacity, seen through the callbacks that write and   *)
(* read again from inside a write, are a bounded queue with a close marker *)
(* at its end: every step of the channel is a step of BoundedFifo.         *)
THEOREM QueueIsFifo == Spec => ImplementsFifo
<1>1. Init => Fifo!Init
  BY DEF Init, Fifo!Init
<1>2. IndInv /\ [Next]_vars => [Fifo!Next]_Fifo!vars
  <2> SUFFICES ASSUME IndInv, [Next]_vars PROVE [Fifo!Next]_Fifo!vars
    OBVIOUS
  <2>1. ASSUME UNCHANGED <<stored, delivered>> PROVE [Fifo!Next]_Fifo!vars
    BY <2>1 DEF Fifo!vars
  <2>2. CASE Write \/ Error \/ Close
    <3>1. PICK kind \in Kinds : alive /\ WriteItem(kind)
      BY <2>2 DEF Write, Error, Close, MayCall, Kinds
    <3>2. CASE stored' = Append(stored, NewItem(kind))
      BY <3>1, <3>2, StoreIsPut
    <3>3. CASE UNCHANGED stored
      BY <2>1, <3>1, <3>3, WriteFacts DEF IndInv
    <3> QED
      BY <3>1, <3>2, <3>3, WriteFacts DEF IndInv
  <2>3. CASE Read
    <3>1. /\ Head(items) = stored[Len(delivered) + 1]
          /\ Len(stored) \in Nat /\ Len(delivered) \in Nat /\ Len(delivered) < Len(stored)
          /\ delivered' = Append(delivered, Head(items))
          /\ UNCHANGED stored
      BY <2>3, ReadFacts
    <3> QED
      BY <3>1 DEF Fifo!Next, Fifo!Get, Fifo!Pending
  <2>4. CASE CallbackReturns \/ Free \/ UNCHANGED vars
    BY <2>1, <2>4 DEF CallbackReturns, Free, vars
  <2> QED
    BY <2>2, <2>3, <2>4 DEF Next
<1> QED
  BY <1>1, <1>2, Inductive, PTL DEF Spec, ImplementsFifo, Fifo!Spec
-----------------------------------------------------------------------------
(* The program of ChannelPipeline, for any capacity, number of items,      *)
(* error and sleeps.                                                       *)

(* Where a handler is, or will be when it resumes.                         *)
Handlers == {Sender, Receiver}
Stage(c) ==
  IF running = c THEN at
  ELSE IF Co!is_alive(c) THEN PlaceOf(coroutines[c].case_line)
  ELSE "ended"

(* Everything the sender writes, in order.                                 *)
ScriptLen == error_index + (IF error_index < DataCount THEN 2 ELSE 1)
ScriptKind(k) ==
  IF k <= error_index THEN "data" ELSE IF k = ScriptLen THEN "closed" ELSE "error"
Script(k) == [kind |-> ScriptKind(k), id |-> k]

ContextInv ==
  /\ loop \in [on: BOOLEAN, i: Nat, size: Nat]
  /\ loop.on => loop.size = 2
  /\ running \in {0} \cup Handlers
  /\ running # 0 => loop.on
  /\ freed \in BOOLEAN
  /\ freed => ~loop.on
  /\ ~freed =>
       coroutines \in [Handlers -> [status: {"WAITING", "ENDED"}, case_line: 0 .. 2]]

SenderInv ==
  /\ error_index \in 0 .. DataCount
  /\ i \in 0 .. error_index
  /\ Stage(Sender) \in {"sleep", "block"} => i < DataCount
  /\ Stage(Sender) = "block" => i # error_index
  /\ Len(accepted) = CASE Stage(Sender) \in {"begin", "sleep", "block"} -> i
                       [] Stage(Sender) = "close" -> ScriptLen - 1
                       [] Stage(Sender) \in {"end", "ended"} -> ScriptLen
  /\ accepted \in Seq(Item)
  /\ \A k \in DOMAIN accepted : accepted[k] = Script(k)

ReceiverInv ==
  /\ Stage(Receiver) \in {"begin", "sleep", "block", "end", "ended"}
  /\ Len(delivered) <= error_index + 1
  /\ Stage(Receiver) \in {"end", "ended"} <=> Len(delivered) = error_index + 1

(* What was read begins what was written, and the queue is the rest.       *)
QueueInv ==
  /\ delivered \in Seq(Item) /\ items \in Seq(Item)
  /\ Len(delivered) <= Len(accepted)
  /\ \A k \in DOMAIN delivered : delivered[k] = accepted[k]
  /\ alive => /\ Len(accepted) = Len(delivered) + Len(items)
              /\ \A k \in DOMAIN items : items[k] = accepted[Len(delivered) + k]

SenderPlaced ==
  Stage(Sender) \in {"begin", "sleep", "block", "close", "end", "ended"}
PipeInv ==
  ContextInv /\ (~freed => SenderPlaced /\ SenderInv /\ ReceiverInv /\ QueueInv)

-----------------------------------------------------------------------------
(* Each invariant depends on the stage of one coroutine and on some of the *)
(* variables only.                                                         *)
LEMMA SenderKept ==
  ASSUME SenderPlaced, SenderInv, UNCHANGED <<Stage(Sender), error_index, i, accepted>>
  PROVE  SenderPlaced' /\ SenderInv'
BY DEF SenderPlaced, SenderInv, Script, ScriptKind, ScriptLen

LEMMA ReceiverKept ==
  ASSUME ReceiverInv, UNCHANGED <<Stage(Receiver), error_index, delivered>>
  PROVE  ReceiverInv'
BY DEF ReceiverInv

LEMMA QueueKept ==
  ASSUME QueueInv, UNCHANGED <<accepted, delivered, items, alive>>
  PROVE  QueueInv'
BY DEF QueueInv

LEMMA ContextKept ==
  ASSUME ContextInv, UNCHANGED <<coroutines, loop, running, freed>>
  PROVE  ContextInv'
BY DEF ContextInv

LEMMA StagesKept ==
  ASSUME UNCHANGED <<coroutines, running, at>>
  PROVE  \A c \in Handlers : UNCHANGED Stage(c)
BY DEF Stage, Co!is_alive, PlaceOf, Sleeping, Blocked

(* A handler that goes on moves itself and nobody else.                    *)
LEMMA HandlerMoves ==
  ASSUME NEW c \in Handlers, running = c, UNCHANGED <<coroutines, running>>
  PROVE  /\ Stage(c) = at /\ Stage(c)' = at'
         /\ \A d \in Handlers \ {c} : UNCHANGED Stage(d)
<1>1. running' = c /\ c \in {1, 2} /\ \A d \in Handlers \ {c} : d # c
  BY DEF Handlers, Sender, Receiver
<1>2. ASSUME NEW d \in Handlers \ {c} PROVE UNCHANGED Stage(d)
  <2> DEFINE rests == IF Co!is_alive(d) THEN PlaceOf(coroutines[d].case_line)
                      ELSE "ended"
  <2>1. running # d /\ running' # d
    BY <1>1
  <2>2. Stage(d) = rests /\ Stage(d)' = rests'
    BY <2>1 DEF Stage
  <2>3. rests' = rests
    BY DEF Co!is_alive, PlaceOf, Sleeping, Blocked
  <2> QED
    BY <2>2, <2>3
<1> QED
  BY <1>1, <1>2 DEF Stage

(* And so does one that returns.                                           *)
LEMMA HandlerReturned ==
  ASSUME ContextInv, NEW c \in Handlers, running = c,
         NEW status \in {"WAITING", "ENDED"}, NEW line \in 0 .. 2,
         Co!HandlerReturns(status, line)
  PROVE  /\ ContextInv' /\ ~freed /\ ~freed'
         /\ Stage(c)' = IF status = "ENDED" THEN "ended" ELSE PlaceOf(line)
         /\ \A d \in Handlers \ {c} : UNCHANGED Stage(d)
<1> USE DEF Handlers, Sender, Receiver
<1>1. /\ loop.on /\ running # 0 /\ ~freed /\ freed' = freed /\ running' = 0
      /\ loop' = [loop EXCEPT !.i = @ + 1]
      /\ coroutines \in [Handlers -> [status: {"WAITING", "ENDED"}, case_line: 0 .. 2]]
      /\ coroutines' = [coroutines EXCEPT ![c] = [status |-> status, case_line |-> line]]
  <2>1. /\ running # 0 /\ loop.on
        /\ loop' = [loop EXCEPT !.i = @ + 1] /\ running' = 0 /\ freed' = freed
        /\ coroutines' = [coroutines EXCEPT ![running] =
                            [status |-> status, case_line |-> line]]
    BY DEF Co!HandlerReturns
  <2> QED
    BY <2>1 DEF ContextInv
<1>2. /\ loop' \in [on: BOOLEAN, i: Nat, size: Nat]
      /\ loop'.on = loop.on /\ loop'.size = loop.size
  <2>1. loop \in [on: BOOLEAN, i: Nat, size: Nat]
    BY DEF ContextInv
  <2>2. loop.i \in Nat /\ loop.i + 1 \in Nat
    BY <2>1
  <2> QED
    BY ONLY <1>1, <2>1, <2>2
<1>3. /\ coroutines' \in [Handlers -> [status: {"WAITING", "ENDED"}, case_line: 0 .. 2]]
      /\ coroutines'[c].status = status /\ coroutines'[c].case_line = line
      /\ \A d \in Handlers \ {c} : coroutines'[d] = coroutines[d]
  BY <1>1
<1>4. /\ freed' \in BOOLEAN /\ ~freed'
      /\ loop'.on => loop'.size = 2
  BY <1>1, <1>2 DEF ContextInv
<1>5. ContextInv'
  BY <1>1, <1>2, <1>3, <1>4 DEF ContextInv
<1> QED
  BY <1>1, <1>3, <1>4, <1>5 DEF Stage, Co!is_alive, PlaceOf, Sleeping, Blocked

LEMMA Returned ==
  ASSUME PipeInv, NEW c \in Handlers, Running(c),
         NEW status \in {"WAITING", "ENDED"}, NEW line \in 0 .. 2,
         Return(Co!HandlerReturns(status, line))
  PROVE  /\ ContextInv' /\ ~freed /\ ~freed'
         /\ Stage(c) = at
         /\ Stage(c)' = IF status = "ENDED" THEN "ended" ELSE PlaceOf(line)
         /\ \A d \in Handlers \ {c} : UNCHANGED Stage(d)
         /\ UNCHANGED <<items, accepted, delivered, alive, error_index, i>>
BY HandlerReturned DEF PipeInv, Running, Return, vars, Stage

LEMMA Unmoved ==
  ASSUME PipeInv, ContextInv', UNCHANGED freed, \A c \in Handlers : UNCHANGED Stage(c),
         UNCHANGED <<error_index, i, accepted, delivered, items, alive>>
  PROVE  PipeInv'
<1>1. CASE freed
  BY <1>1 DEF PipeInv
<1>2. CASE ~freed
  <2>1. SenderPlaced' /\ SenderInv'
    BY <1>2, SenderKept DEF PipeInv, Handlers
  <2>2. ReceiverInv'
    BY <1>2, ReceiverKept DEF PipeInv, Handlers
  <2>3. QueueInv'
    BY <1>2, QueueKept DEF PipeInv
  <2> QED
    BY <2>1, <2>2, <2>3 DEF PipeInv
<1> QED
  BY <1>1, <1>2

(* What one more item does to the script and the queue.                    *)
LEMMA ItemWritten ==
  ASSUME ~AllocMayFail, SenderInv, QueueInv, NEW kind \in Kinds, WriteItem(kind), alive,
         kind = ScriptKind(Len(accepted) + 1), UNCHANGED error_index
  PROVE  /\ QueueInv' /\ UNCHANGED <<alive, delivered>>
         /\ accepted' \in Seq(Item) /\ Len(accepted') = Len(accepted) + 1
         /\ \A k \in DOMAIN accepted' : accepted'[k] = Script(k)'
<1> DEFINE x == NewItem(kind)
<1>1. /\ accepted' = Append(accepted, x) /\ items' = Append(items, x)
      /\ UNCHANGED <<alive, delivered>>
  BY DEF WriteItem, Add, NewItem
<1>2. accepted \in Seq(Item) /\ items \in Seq(Item) /\ delivered \in Seq(Item)
  BY DEF SenderInv, QueueInv
<1>3. x \in Item /\ x = Script(Len(accepted) + 1)
  BY <1>2, LenProperties DEF NewItem, Item, Script
<1>4. \A k : Script(k)' = Script(k)
  BY DEF Script, ScriptKind, ScriptLen
<1> HIDE DEF x
<1>5. /\ accepted' \in Seq(Item) /\ Len(accepted) \in Nat
      /\ DOMAIN accepted = 1 .. Len(accepted)
      /\ Len(accepted') = Len(accepted) + 1 /\ DOMAIN accepted' = 1 .. Len(accepted) + 1
      /\ \A k \in 1 .. Len(accepted) : accepted'[k] = accepted[k]
      /\ accepted'[Len(accepted) + 1] = x
  BY <1>1, <1>2, <1>3, AppendItem
<1>6. /\ items' \in Seq(Item) /\ Len(items) \in Nat
      /\ DOMAIN items = 1 .. Len(items)
      /\ Len(items') = Len(items) + 1 /\ DOMAIN items' = 1 .. Len(items) + 1
      /\ \A k \in 1 .. Len(items) : items'[k] = items[k]
      /\ items'[Len(items) + 1] = x
  BY <1>1, <1>2, <1>3, AppendItem
<1>7. \A k \in DOMAIN accepted' : accepted'[k] = Script(k)'
  <2> TAKE k \in DOMAIN accepted'
  <2>1. \A j \in DOMAIN accepted : accepted[j] = Script(j)
    BY DEF SenderInv
  <2>2. k \in 1 .. Len(accepted) \/ k = Len(accepted) + 1
    BY <1>5
  <2>3. accepted'[k] = Script(k)
    BY ONLY <1>3, <1>5, <2>1, <2>2
  <2> QED
    BY <1>4, <2>3
<1>8. Len(delivered) \in Nat /\ DOMAIN delivered = 1 .. Len(delivered)
  BY <1>2, LenProperties
<1>9. /\ Len(accepted) = Len(delivered) + Len(items)
      /\ \A k \in DOMAIN items : items[k] = accepted[Len(delivered) + k]
      /\ \A k \in DOMAIN delivered : delivered[k] = accepted[k]
  BY DEF QueueInv
<1>10. \A k \in DOMAIN delivered : delivered[k] = accepted'[k]
  BY <1>5, <1>6, <1>8, <1>9
<1>11. \A k \in DOMAIN items' : items'[k] = accepted'[Len(delivered) + k]
  <2> TAKE k \in DOMAIN items'
  <2>1. CASE k \in 1 .. Len(items)
    <3>1. Len(delivered) + k \in 1 .. Len(accepted)
      BY <1>5, <1>6, <1>8, <1>9, <2>1
    <3> QED
      BY <1>5, <1>6, <1>9, <2>1, <3>1
  <2>2. CASE k = Len(items) + 1
    <3>1. Len(delivered) + k = Len(accepted) + 1
      BY <1>5, <1>6, <1>8, <1>9, <2>2
    <3> QED
      BY <1>5, <1>6, <2>2, <3>1
  <2> QED
    BY <1>6, <2>1, <2>2
<1>12. QueueInv'
  <2>1. delivered' \in Seq(Item) /\ Len(delivered') = Len(delivered)
        /\ DOMAIN delivered' = DOMAIN delivered
    BY <1>1, <1>2
  <2>2. Len(delivered') <= Len(accepted') /\ Len(accepted') = Len(delivered') + Len(items')
    BY <1>5, <1>6, <1>8, <1>9, <2>1
  <2>3. \A k \in DOMAIN delivered' : delivered'[k] = accepted'[k]
    BY <1>1, <1>10
  <2>4. \A k \in DOMAIN items' : items'[k] = accepted'[Len(delivered') + k]
    BY <1>11, <2>1
  <2> QED
    BY <1>6, <2>1, <2>2, <2>3, <2>4 DEF QueueInv
<1> QED
  BY <1>1, <1>5, <1>7, <1>12

(* And what a read does.                                                   *)
LEMMA ItemRead ==
  ASSUME SenderInv, QueueInv, Read
  PROVE  /\ QueueInv' /\ UNCHANGED accepted
         /\ Len(delivered) \in Nat /\ Len(delivered') = Len(delivered) + 1
         /\ Len(delivered) < Len(accepted)
         /\ Head(items).kind = ScriptKind(Len(delivered) + 1)
<1> DEFINE x == Head(items)
<1>1. /\ delivered' = Append(delivered, x) /\ items' = Tail(items) /\ items # <<>>
      /\ alive /\ UNCHANGED <<alive, accepted>>
  BY DEF Read, MayCall
<1>2. accepted \in Seq(Item) /\ items \in Seq(Item) /\ delivered \in Seq(Item)
  BY DEF SenderInv, QueueInv
<1>3. /\ x \in Item /\ x = items[1] /\ items' \in Seq(Item)
      /\ Len(items) \in Nat \ {0} /\ Len(items') = Len(items) - 1
      /\ DOMAIN items' = 1 .. Len(items) - 1
      /\ \A k \in 1 .. Len(items) - 1 : items'[k] = items[k + 1]
  BY <1>1, <1>2, TailItems
<1> HIDE DEF x
<1>4. /\ delivered' \in Seq(Item) /\ Len(delivered) \in Nat
      /\ DOMAIN delivered = 1 .. Len(delivered)
      /\ Len(delivered') = Len(delivered) + 1 /\ DOMAIN delivered' = 1 .. Len(delivered) + 1
      /\ \A k \in 1 .. Len(delivered) : delivered'[k] = delivered[k]
      /\ delivered'[Len(delivered) + 1] = x
  BY <1>1, <1>2, <1>3, AppendItem
<1>5. /\ Len(accepted) \in Nat /\ DOMAIN accepted = 1 .. Len(accepted)
      /\ DOMAIN items = 1 .. Len(items)
  BY <1>2, LenProperties
<1>6. /\ Len(accepted) = Len(delivered) + Len(items)
      /\ \A k \in DOMAIN items : items[k] = accepted[Len(delivered) + k]
      /\ \A k \in DOMAIN delivered : delivered[k] = accepted[k]
  BY <1>1 DEF QueueInv
<1>7. x = accepted[Len(delivered) + 1]
  BY <1>3, <1>5, <1>6
<1>8. \A k \in DOMAIN delivered' : delivered'[k] = accepted[k]
  BY <1>4, <1>6, <1>7
<1>9. \A k \in DOMAIN items' : items'[k] = accepted[Len(delivered) + 1 + k]
  <2> TAKE k \in DOMAIN items'
  <2>1. k \in 1 .. Len(items) - 1 /\ k + 1 \in DOMAIN items
    BY <1>3, <1>5
  <2>2. items[k + 1] = accepted[Len(delivered) + (k + 1)]
    BY <1>6, <2>1
  <2>3. Len(delivered) + (k + 1) = Len(delivered) + 1 + k
    BY <1>4, <2>1
  <2> QED
    BY <1>3, <2>1, <2>2, <2>3
<1>10. QueueInv'
  BY <1>1, <1>3, <1>4, <1>5, <1>6, <1>8, <1>9 DEF QueueInv
<1>11. Len(delivered) + 1 \in DOMAIN accepted
  BY <1>3, <1>4, <1>5, <1>6
<1>12. x = Script(Len(delivered) + 1)
  BY <1>7, <1>11 DEF SenderInv
<1> QED
  BY <1>1, <1>3, <1>4, <1>5, <1>6, <1>10, <1>12 DEF x, Script

-----------------------------------------------------------------------------
(* The steps of the sender.                                                *)
LEMMA SenderGoesOn ==
  ASSUME PipeInv, running = Sender, UNCHANGED context
  PROVE  /\ ContextInv' /\ ~freed /\ ~freed' /\ SenderInv /\ ReceiverInv /\ QueueInv
         /\ Stage(Sender) = at /\ Stage(Sender)' = at'
         /\ UNCHANGED <<error_index, delivered>> => ReceiverInv'
<1>1. UNCHANGED <<coroutines, loop, running, freed>>
  BY DEF context
<1>2. ContextInv' /\ ~freed
  BY <1>1, ContextKept DEF PipeInv, ContextInv, Sender
<1>3. /\ Stage(Sender) = at /\ Stage(Sender)' = at'
      /\ UNCHANGED Stage(Receiver)
  BY <1>1, HandlerMoves DEF Handlers, Sender, Receiver
<1> QED
  BY <1>1, <1>2, <1>3, ReceiverKept DEF PipeInv

LEMMA SenderStep ==
  ASSUME ~AllocMayFail, PipeInv,
         \/ SenderSleeps \/ SenderIsDone \/ SenderWrites
         \/ SenderFails \/ SenderCloses
  PROVE  PipeInv'
<1>1. /\ running = Sender /\ UNCHANGED context /\ UNCHANGED error_index
  BY DEF SenderSleeps, SenderIsDone, SenderWrites, SenderFails,
         SenderCloses, StartSleep, Running
<1>2. /\ ContextInv' /\ ~freed /\ ~freed' /\ SenderInv /\ ReceiverInv /\ QueueInv
      /\ Stage(Sender) = at /\ Stage(Sender)' = at'
      /\ UNCHANGED delivered => ReceiverInv'
  BY <1>1, SenderGoesOn
<1>3. /\ error_index \in Nat /\ DataCount \in Nat /\ error_index <= DataCount
      /\ i \in Nat /\ i <= error_index
      /\ ScriptLen \in Nat /\ ScriptLen' = ScriptLen
  BY <1>1, <1>2, PipelineAssumption DEF SenderInv, ScriptLen
<1>4. ASSUME NEW kind \in Kinds, WriteItem(kind), alive,
             kind = ScriptKind(Len(accepted) + 1),
             at' \in {"begin", "close", "end"},
             i' \in 0 .. error_index,
             Len(accepted) + 1 = CASE at' = "begin" -> i' [] at' = "close" -> ScriptLen - 1
                                   [] at' = "end" -> ScriptLen
      PROVE  PipeInv'
  <2>1. /\ QueueInv' /\ UNCHANGED <<alive, delivered>>
        /\ accepted' \in Seq(Item) /\ Len(accepted') = Len(accepted) + 1
        /\ \A k \in DOMAIN accepted' : accepted'[k] = Script(k)'
    BY <1>1, <1>2, <1>4, ItemWritten
  <2>2. SenderPlaced'
    BY <1>2, <1>4 DEF SenderPlaced
  <2>3. SenderInv'
    BY <1>1, <1>2, <1>3, <1>4, <2>1 DEF SenderInv
  <2> QED
    BY <1>2, <2>1, <2>2, <2>3 DEF PipeInv
<1>5. ASSUME UNCHANGED <<vars, i>>, at' \in {"sleep", "close"},
             Len(accepted) = IF at' = "sleep" THEN i ELSE ScriptLen - 1,
             at' = "sleep" => i < DataCount
      PROVE  PipeInv'
  <2>1. UNCHANGED <<items, accepted, delivered, alive>>
    BY <1>5 DEF vars
  <2>2. SenderPlaced'
    BY <1>2, <1>5 DEF SenderPlaced
  <2>3. \A k : Script(k)' = Script(k)
    BY <1>1 DEF Script, ScriptKind, ScriptLen
  <2>4. SenderInv'
    BY <1>1, <1>2, <1>3, <1>5, <2>1, <2>3 DEF SenderInv
  <2> QED
    BY <1>2, <2>1, <2>2, <2>4, QueueKept DEF PipeInv
<1>6. CASE SenderSleeps
  <2>1. /\ at = "begin" /\ i < DataCount /\ at' = "sleep" /\ UNCHANGED <<vars, i>>
    BY <1>6 DEF SenderSleeps, StartSleep
  <2>2. Len(accepted) = i
    BY <1>2, <2>1 DEF SenderInv
  <2> QED
    BY <1>5, <2>1, <2>2
<1>7. CASE SenderIsDone
  <2>1. /\ at = "begin" /\ i = DataCount /\ at' = "close" /\ UNCHANGED <<vars, i>>
    BY <1>7 DEF SenderIsDone
  <2>2. Len(accepted) = i /\ ScriptLen - 1 = i
    BY <1>2, <1>3, <2>1 DEF SenderInv, ScriptLen
  <2> QED
    BY <1>5, <2>1, <2>2
<1>8. CASE SenderWrites
  <2>1. /\ AtWrite /\ WriteItem("data") /\ alive /\ i' = i + 1 /\ at' = "begin"
    BY <1>8 DEF SenderWrites, Write, MayCall
  <2>2. at \in {"sleep", "block"} /\ i # error_index /\ Len(accepted) = i
    BY <1>2, <2>1 DEF SenderInv, AtWrite
  <2>3. ScriptKind(Len(accepted) + 1) = "data" /\ i' \in 0 .. error_index
    BY <1>3, <2>1, <2>2 DEF ScriptKind
  <2> QED
    BY <1>4, <2>1, <2>2, <2>3 DEF Kinds
<1>9. CASE SenderFails
  <2>1. /\ at = "sleep" /\ i = error_index /\ WriteItem("error") /\ alive
        /\ i' = i /\ at' = "close"
    BY <1>9 DEF SenderFails, Error, MayCall
  <2>2. i < DataCount /\ Len(accepted) = i
    BY <1>2, <2>1 DEF SenderInv
  <2>3. /\ ScriptLen = error_index + 2 /\ Len(accepted) + 1 = error_index + 1
        /\ Len(accepted) + 1 = ScriptLen - 1 /\ i' \in 0 .. error_index
    BY <1>3, <2>1, <2>2 DEF ScriptLen
  <2>4. ScriptKind(Len(accepted) + 1) = "error"
    BY <1>3, <2>3 DEF ScriptKind
  <2> QED
    BY <1>4, <2>1, <2>3, <2>4 DEF Kinds
<1>10. CASE SenderCloses
  <2>1. /\ at = "close" /\ WriteItem("closed") /\ alive /\ i' = i /\ at' = "end"
    BY <1>10 DEF SenderCloses, Close, MayCall
  <2>2. Len(accepted) = ScriptLen - 1
    BY <1>2, <2>1 DEF SenderInv
  <2>3. /\ Len(accepted) + 1 = ScriptLen /\ ScriptLen > error_index /\ i' \in 0 .. error_index
    BY <1>3, <2>1, <2>2 DEF ScriptLen
  <2>4. ScriptKind(Len(accepted) + 1) = "closed"
    BY <1>3, <2>3 DEF ScriptKind
  <2> QED
    BY <1>4, <2>1, <2>3, <2>4 DEF Kinds
<1> QED
  BY <1>6, <1>7, <1>8, <1>9, <1>10

(* The steps of the receiver.                                              *)
LEMMA ReceiverStep ==
  ASSUME PipeInv, ReceiverSleeps \/ ReceiverReads
  PROVE  PipeInv'
<1>1. /\ running = Receiver /\ UNCHANGED context
      /\ UNCHANGED <<error_index, i, accepted>>
  BY DEF ReceiverSleeps, ReceiverReads, StartSleep, Running,
         vars, Read
<1>2. UNCHANGED <<coroutines, loop, running, freed>>
  BY <1>1 DEF context
<1>3. ContextInv' /\ ~freed /\ ~freed'
  BY <1>1, <1>2, ContextKept DEF PipeInv, ContextInv, Receiver
<1>4. SenderPlaced /\ SenderInv /\ ReceiverInv /\ QueueInv
  BY <1>3 DEF PipeInv
<1>5. /\ Stage(Receiver) = at /\ Stage(Receiver)' = at'
      /\ UNCHANGED Stage(Sender)
  BY <1>1, <1>2, HandlerMoves DEF Handlers, Sender, Receiver
<1>6. SenderPlaced' /\ SenderInv'
  BY <1>1, <1>4, <1>5, SenderKept
<1>7. Len(delivered) \in Nat /\ error_index \in Nat
  BY <1>4, LenProperties DEF SenderInv, QueueInv
<1>8. CASE ReceiverSleeps
  <2>1. at = "begin" /\ at' = "sleep" /\ UNCHANGED <<items, accepted, delivered, alive>>
    BY <1>8 DEF ReceiverSleeps, StartSleep, vars
  <2>2. ReceiverInv'
    BY <1>1, <1>4, <1>5, <2>1 DEF ReceiverInv
  <2> QED
    BY <1>3, <1>4, <1>6, <2>1, <2>2, QueueKept DEF PipeInv
<1>9. CASE ReceiverReads
  <2>1. /\ at \in {"sleep", "block"} /\ Read
        /\ at' = IF Head(items).kind = "data" THEN "begin" ELSE "end"
    BY <1>9 DEF ReceiverReads, AtRead, IsData
  <2>2. /\ QueueInv' /\ Len(delivered') = Len(delivered) + 1
        /\ Head(items).kind = ScriptKind(Len(delivered) + 1)
    BY <1>4, <2>1, ItemRead
  <2>3. Len(delivered) <= error_index
    BY <1>4, <1>5, <1>7, <2>1 DEF ReceiverInv
  <2>4. Head(items).kind = "data" <=> Len(delivered) + 1 <= error_index
    BY <1>7, <2>2 DEF ScriptKind
  <2>5. ReceiverInv'
    BY <1>1, <1>5, <1>7, <2>1, <2>2, <2>3, <2>4 DEF ReceiverInv
  <2> QED
    BY <1>3, <1>6, <2>2, <2>5 DEF PipeInv
<1> QED
  BY <1>8, <1>9

-----------------------------------------------------------------------------
(* The steps that write and read nothing.                                  *)
LEMMA WaitingStep ==
  ASSUME PipeInv,
         \/ \E c \in 1 .. 2 : SleepOn(c) \/ Ends(c)
         \/ SenderBlocks \/ ReceiverBlocks
  PROVE  PipeInv'
<1> USE DEF Handlers, Sender, Receiver
<1>1. ASSUME NEW c \in Handlers, Running(c),
             NEW line \in {Sleeping, Blocked},
             Return(Co!HandlerReturns("WAITING", line)),
             at = PlaceOf(line) \/ (at = "sleep" /\ line = Blocked),
             c = Sender /\ line = Blocked => i # error_index
      PROVE  PipeInv'
  <2>1. /\ line \in 0 .. 2 /\ PlaceOf(Sleeping) = "sleep"
        /\ PlaceOf(Blocked) = "block"
    BY DEF Sleeping, Blocked, PlaceOf
  <2>2. /\ ContextInv' /\ ~freed /\ ~freed' /\ Stage(c) = at
        /\ Stage(c)' = PlaceOf(line)
        /\ \A d \in Handlers \ {c} : UNCHANGED Stage(d)
        /\ UNCHANGED <<items, accepted, delivered, alive, error_index, i>>
    BY <1>1, <2>1, Returned
  <2>3. QueueInv' /\ SenderPlaced /\ SenderInv /\ ReceiverInv
    BY <2>2, QueueKept DEF PipeInv
  <2>4. \A k : Script(k)' = Script(k)
    BY <2>2 DEF Script, ScriptKind, ScriptLen
  <2>5. CASE c = Sender
    <3>1. ReceiverInv'
      BY <2>2, <2>3, <2>5, ReceiverKept
    <3>2. SenderPlaced'
      BY <1>1, <2>1, <2>2, <2>5 DEF SenderPlaced
    <3>3. SenderInv'
      BY <1>1, <2>1, <2>2, <2>3, <2>4, <2>5 DEF SenderInv
    <3> QED
      BY <2>2, <2>3, <3>1, <3>2, <3>3 DEF PipeInv
  <2>6. CASE c = Receiver
    <3>1. SenderPlaced' /\ SenderInv'
      BY <2>2, <2>3, <2>6, SenderKept
    <3>2. ReceiverInv'
      BY <1>1, <2>1, <2>2, <2>3, <2>6 DEF ReceiverInv
    <3> QED
      BY <2>2, <2>3, <3>1, <3>2 DEF PipeInv
  <2> QED
    BY <2>5, <2>6
<1>2. ASSUME NEW c \in Handlers, Ends(c) PROVE PipeInv'
  <2>1. /\ Running(c) /\ at = "end" /\ 0 \in 0 .. 2
        /\ Return(Co!HandlerReturns("ENDED", 0))
    BY <1>2 DEF Ends, Co!Ends
  <2>2. /\ ContextInv' /\ ~freed /\ ~freed' /\ Stage(c) = "end" /\ Stage(c)' = "ended"
        /\ \A d \in Handlers \ {c} : UNCHANGED Stage(d)
        /\ UNCHANGED <<items, accepted, delivered, alive, error_index, i>>
    BY <2>1, Returned
  <2>3. QueueInv' /\ SenderPlaced /\ SenderInv /\ ReceiverInv
    BY <2>2, QueueKept DEF PipeInv
  <2>4. \A k : Script(k)' = Script(k)
    BY <2>2 DEF Script, ScriptKind, ScriptLen
  <2>5. CASE c = Sender
    <3>1. ReceiverInv'
      BY <2>2, <2>3, <2>5, ReceiverKept
    <3>2. SenderPlaced' /\ SenderInv'
      <4>1. Stage(Sender) = "end" /\ Stage(Sender)' = "ended"
        BY <2>2, <2>5
      <4>2. ScriptLen' = ScriptLen
        BY <2>2 DEF ScriptLen
      <4> QED
        BY <2>2, <2>3, <2>4, <4>1, <4>2 DEF SenderPlaced, SenderInv
    <3> QED
      BY <2>2, <2>3, <3>1, <3>2 DEF PipeInv
  <2>6. CASE c = Receiver
    <3>1. SenderPlaced' /\ SenderInv'
      BY <2>2, <2>3, <2>6, SenderKept
    <3>2. ReceiverInv'
      BY <2>2, <2>3, <2>6 DEF ReceiverInv
    <3> QED
      BY <2>2, <2>3, <3>1, <3>2 DEF PipeInv
  <2> QED
    BY <2>5, <2>6
<1>3. ASSUME NEW c \in Handlers, SleepOn(c) PROVE PipeInv'
  <2>1. /\ Running(c) /\ at = "sleep"
        /\ Return(Co!HandlerReturns("WAITING", Sleeping))
    BY <1>3 DEF SleepOn, Co!Waits
  <2>2. PlaceOf(Sleeping) = "sleep" /\ Sleeping # Blocked
    BY DEF PlaceOf, Sleeping, Blocked
  <2> QED
    BY <1>1, <2>1, <2>2
<1>4. CASE SenderBlocks
  <2>1. /\ Running(Sender) /\ AtWrite
        /\ Return(Co!HandlerReturns("WAITING", Blocked))
    BY <1>4 DEF SenderBlocks, Co!Waits
  <2>2. Stage(Sender) = at /\ ~freed
    BY <2>1 DEF Stage, Running, PipeInv, ContextInv
  <2>3. /\ at = PlaceOf(Blocked) \/ at = "sleep"
        /\ i # error_index
    BY <2>1, <2>2 DEF PipeInv, SenderInv, AtWrite, PlaceOf, Sleeping, Blocked
  <2> QED
    BY <1>1, <2>1, <2>3
<1>5. CASE ReceiverBlocks
  <2>1. /\ Running(Receiver) /\ AtRead
        /\ Return(Co!HandlerReturns("WAITING", Blocked))
    BY <1>5 DEF ReceiverBlocks, Co!Waits
  <2>2. at = PlaceOf(Blocked) \/ at = "sleep"
    BY <2>1 DEF AtRead, PlaceOf, Sleeping, Blocked
  <2> QED
    BY <1>1, <2>1, <2>2
<1> QED
  BY <1>2, <1>3, <1>4, <1>5

LEMMA LoopStepSound ==
  ASSUME PipeInv, Resume \/ LoopStep
  PROVE  PipeInv'
<1>1. UNCHANGED <<coroutines, freed, error_index, i, accepted, delivered, items, alive>>
  BY DEF Resume, LoopStep, Co!Resume, Co!LoopBegin, Co!Skip,
         Co!LoopEnd, vars
<1>2. CASE Resume
  <2>1. /\ loop.on /\ running = 0 /\ running' = loop.i + 1 /\ loop' = loop
        /\ loop.i < loop.size /\ Co!is_alive(loop.i + 1)
        /\ at' = PlaceOf(coroutines[loop.i + 1].case_line)
    BY <1>2 DEF Resume, Co!Resume, Co!MoreToRun
  <2>2. loop.i \in Nat /\ loop.size = 2
    BY <2>1 DEF PipeInv, ContextInv
  <2>3. running' \in Handlers
    BY <2>1, <2>2 DEF Handlers, Sender, Receiver
  <2>4. ContextInv'
    BY <1>1, <2>1, <2>3 DEF PipeInv, ContextInv
  <2>5. ASSUME NEW c \in Handlers PROVE UNCHANGED Stage(c)
    <3> DEFINE rests == IF Co!is_alive(c) THEN PlaceOf(coroutines[c].case_line)
                        ELSE "ended"
    <3>1. running # c
      BY <2>1 DEF Handlers, Sender, Receiver
    <3>2. rests' = rests
      BY <1>1 DEF Co!is_alive, PlaceOf, Sleeping, Blocked
    <3>3. Stage(c) = rests /\ Stage(c)' = IF running' = c THEN at' ELSE rests'
      BY <3>1 DEF Stage
    <3>4. running' = c => at' = rests
      BY <2>1
    <3> QED
      BY <3>2, <3>3, <3>4
  <2> QED
    BY <1>1, <2>4, <2>5, Unmoved
<1>3. CASE LoopStep
  <2>1. running' = running /\ at' = at
    BY <1>3 DEF LoopStep, Co!LoopBegin, Co!Skip, Co!LoopEnd
  <2>2. \A c \in Handlers : UNCHANGED Stage(c)
    BY <1>1, <2>1, StagesKept
  <2>3. ContextInv'
    <3>1. CASE Co!LoopBegin
      <4>1. /\ ~freed /\ ~loop.on
            /\ loop' = [on |-> TRUE, i |-> 0, size |-> Len(coroutines)]
        BY <3>1 DEF Co!LoopBegin
      <4>2. coroutines \in [1 .. 2 -> [status: {"WAITING", "ENDED"}, case_line: 0 .. 2]]
        BY <4>1 DEF PipeInv, ContextInv, Handlers, Sender, Receiver
      <4>3. Len(coroutines) = 2
        BY <4>2, LenProperties
      <4> QED
        BY <1>1, <2>1, <4>1, <4>3 DEF PipeInv, ContextInv
    <3>2. CASE Co!Skip
      <4>1. loop.on /\ loop' = [loop EXCEPT !.i = @ + 1]
        BY <3>2 DEF Co!Skip
      <4>2. loop \in [on: BOOLEAN, i: Nat, size: Nat] /\ loop.i + 1 \in Nat
        BY DEF PipeInv, ContextInv
      <4>3. /\ loop' \in [on: BOOLEAN, i: Nat, size: Nat]
            /\ loop'.on = loop.on /\ loop'.size = loop.size
        BY ONLY <4>1, <4>2
      <4> QED
        BY <1>1, <2>1, <4>1, <4>3 DEF PipeInv, ContextInv
    <3>3. CASE Co!LoopEnd
      <4>1. running = 0 /\ loop' = [on |-> FALSE, i |-> 0, size |-> 0]
        BY <3>3 DEF Co!LoopEnd, Co!NoLoop
      <4> QED
        BY <1>1, <2>1, <4>1 DEF PipeInv, ContextInv
    <3> QED
      BY <1>3, <3>1, <3>2, <3>3 DEF LoopStep
  <2> QED
    BY <1>1, <2>2, <2>3, Unmoved
<1> QED
  BY <1>2, <1>3

LEMMA OtherStep ==
  ASSUME PipeInv,
         \/ CallbackEnds \/ Tick \/ FreeChannel \/ FreeContext
         \/ UNCHANGED pvars
  PROVE  PipeInv'
<1>1. CASE CallbackEnds \/ Tick \/ UNCHANGED pvars
  <2>1. /\ UNCHANGED <<coroutines, loop, running, freed, at>>
        /\ UNCHANGED <<error_index, i, accepted, delivered, items, alive>>
    BY <1>1 DEF CallbackEnds, CallbackReturns, Tick, pvars,
                vars, context
  <2> QED
    BY <2>1, ContextKept, StagesKept, Unmoved DEF PipeInv
<1>2. CASE FreeChannel
  <2>1. /\ UNCHANGED <<coroutines, loop, running, freed, at, error_index, i>>
        /\ UNCHANGED <<accepted, delivered>> /\ items' = <<>> /\ alive' = FALSE /\ ~freed
    BY <1>2 DEF FreeChannel, Free, context
  <2>2. ContextInv' /\ \A c \in Handlers : UNCHANGED Stage(c)
    BY <2>1, ContextKept, StagesKept DEF PipeInv
  <2>3. SenderPlaced' /\ SenderInv' /\ ReceiverInv'
    BY <2>1, <2>2, SenderKept, ReceiverKept DEF PipeInv, Handlers
  <2>4. QueueInv'
    BY <2>1, EmptySeq DEF PipeInv, QueueInv
  <2> QED
    BY <2>1, <2>2, <2>3, <2>4 DEF PipeInv
<1>3. CASE FreeContext
  BY <1>3 DEF FreeContext, Co!ContextFree, PipeInv, ContextInv
<1> QED
  BY <1>1, <1>2, <1>3

LEMMA PipeInit ==
  ASSUME PInit
  PROVE  PipeInv
<1>1. /\ items = <<>> /\ accepted = <<>> /\ delivered = <<>>
      /\ coroutines = [c \in 1 .. 2 |-> [status |-> "WAITING", case_line |-> 0]]
      /\ loop = [on |-> FALSE, i |-> 0, size |-> 0] /\ running = 0 /\ freed = FALSE
      /\ error_index \in 0 .. DataCount /\ i = 0 /\ DataCount \in Nat
  BY PipelineAssumption DEF PInit, Init, Co!NoLoop
<1>2. ContextInv
  <2>1. Handlers = 1 .. 2
    BY DEF Handlers, Sender, Receiver
  <2>2. coroutines \in [Handlers -> [status: {"WAITING", "ENDED"}, case_line: 0 .. 2]]
    BY <1>1, <2>1
  <2>3. loop \in [on: BOOLEAN, i: Nat, size: Nat] /\ ~loop.on
    BY <1>1
  <2> QED
    BY <1>1, <2>2, <2>3 DEF ContextInv
<1>3. Stage(Sender) = "begin" /\ Stage(Receiver) = "begin"
  <2>1. \A c \in 1 .. 2 : coroutines[c].status = "WAITING" /\ coroutines[c].case_line = 0
    BY <1>1
  <2>2. PlaceOf(0) = "begin"
    BY DEF PlaceOf, Sleeping, Blocked
  <2>3. \A c \in 1 .. 2 : running # c
    BY <1>1
  <2> QED
    BY <2>1, <2>2, <2>3 DEF Stage, Sender, Receiver, Co!is_alive
<1>4. <<>> \in Seq(Item) /\ Len(<<>>) = 0 /\ \A k \in DOMAIN <<>> : FALSE
  BY EmptySeq
<1>5. SenderPlaced /\ SenderInv
  BY <1>1, <1>3, <1>4 DEF SenderPlaced, SenderInv
<1>6. ReceiverInv
  BY <1>1, <1>3, <1>4 DEF ReceiverInv
<1>7. QueueInv
  BY <1>1, <1>4 DEF QueueInv
<1> QED
  BY <1>2, <1>5, <1>6, <1>7 DEF PipeInv

LEMMA PipeMeans ==
  ASSUME PipeInv
  PROVE  AllTransferred
<1> SUFFICES ASSUME Done, ~freed
             PROVE  /\ Len(delivered) > error_index
                    /\ \A k \in 1 .. error_index :
                         delivered[k] = [kind |-> "data", id |-> k]
                    /\ \A k \in DOMAIN accepted :
                         IsData(accepted[k]) => k <= error_index
                    /\ delivered[error_index + 1].kind =
                         IF error_index < DataCount THEN "error" ELSE "closed"
  BY DEF AllTransferred
<1>1. ContextInv /\ SenderInv /\ ReceiverInv /\ QueueInv
  BY DEF PipeInv
<1>2. ~loop.on /\ running = 0
  BY <1>1 DEF Done, ContextInv
<1>3. \A c \in Handlers : ~Co!is_alive(c)
  <2>1. coroutines \in [1 .. 2 -> [status: {"WAITING", "ENDED"}, case_line: 0 .. 2]]
    BY <1>1 DEF ContextInv, Handlers, Sender, Receiver
  <2>2. Len(coroutines) = 2
    BY <2>1, LenProperties
  <2>3. IsFiniteSet(1 .. 2) /\ Co!Alive \in SUBSET (1 .. 2)
    <3>1. IsFiniteSet(1 .. 2)
      <4>1. 1 \in Int /\ 2 \in Int
        OBVIOUS
      <4> QED
        BY <4>1, FS_Interval, Zenon
    <3>2. Co!Alive \in SUBSET (1 .. 2)
      BY <2>2 DEF Co!Alive, Co!Ids
    <3> QED
      BY <3>1, <3>2
  <2>4. Co!Alive = {}
    <3>1. Co!Cardinality(Co!Alive) = Cardinality(Co!Alive)
      BY DEF Co!Cardinality, Cardinality, Co!IsFiniteSet, IsFiniteSet
    <3>2. Cardinality(Co!Alive) = 0
      BY <3>1 DEF Done, Co!alive_count
    <3>3. IsFiniteSet(Co!Alive)
      BY <2>3, FS_Subset
    <3> QED
      BY <3>2, <3>3, FS_EmptySet
  <2> QED
    BY <2>2, <2>4 DEF Co!Alive, Co!Ids, Handlers, Sender, Receiver
<1>4. \A c \in Handlers : Stage(c) = "ended"
  BY <1>2, <1>3 DEF Stage, Handlers, Sender, Receiver
<1>5. Stage(Sender) = "ended" /\ Stage(Receiver) = "ended"
  BY <1>4 DEF Handlers
<1>6. /\ Len(delivered) = error_index + 1 /\ error_index \in Nat
      /\ Len(accepted) \in Nat /\ DOMAIN accepted = 1 .. Len(accepted)
      /\ DOMAIN delivered = 1 .. Len(delivered)
      /\ Len(delivered) <= Len(accepted)
  BY <1>1, <1>5, LenProperties DEF SenderInv, ReceiverInv, QueueInv
<1>7. /\ \A k \in DOMAIN accepted : accepted[k] = Script(k)
      /\ \A k \in DOMAIN delivered : delivered[k] = accepted[k]
  BY <1>1 DEF SenderInv, QueueInv
<1>8. \A k \in DOMAIN delivered : delivered[k] = Script(k)
  BY <1>6, <1>7
<1>9. \A k \in 1 .. error_index : delivered[k] = [kind |-> "data", id |-> k]
  BY <1>6, <1>8 DEF Script, ScriptKind
<1>10. \A k \in DOMAIN accepted : IsData(accepted[k]) => k <= error_index
  BY <1>6, <1>7 DEF Script, ScriptKind, IsData
<1>11. delivered[error_index + 1] = Script(error_index + 1)
  BY <1>6, <1>8
<1>12. Script(error_index + 1).kind = IF error_index < DataCount THEN "error" ELSE "closed"
  BY <1>1, <1>6 DEF Script, ScriptKind, ScriptLen, SenderInv
<1> QED
  BY <1>6, <1>9, <1>10, <1>11, <1>12

(* When both coroutines of the program have ended, every item before the   *)
(* sender's error, or every item, was written and read, once and in order, *)
(* and no other; behind them the receiver read the error, or else the      *)
(* close marker.                                                           *)
(* The test does not limit the memory: in an unbounded channel an item for *)
(* which there is none is lost.                                            *)
THEOREM PipelineTransfersAll ==
  ASSUME ~AllocMayFail PROVE PSpec => []AllTransferred
<1>1. PInit => PipeInv
  BY PipeInit
<1>2. PipeInv /\ [PNext]_pvars => PipeInv'
  <2> SUFFICES ASSUME PipeInv, [PNext]_pvars PROVE PipeInv'
    OBVIOUS
  <2>1. CASE HandlerStep
    BY <2>1, SenderStep, ReceiverStep, WaitingStep DEF HandlerStep
  <2>2. CASE Resume \/ LoopStep
    BY <2>2, LoopStepSound
  <2>3. CASE \/ CallbackEnds \/ Tick \/ FreeChannel \/ FreeContext
             \/ UNCHANGED pvars
    BY <2>3, OtherStep
  <2> QED
    BY <2>1, <2>2, <2>3 DEF PNext
<1>3. PipeInv => AllTransferred
  BY PipeMeans
<1> QED
  BY <1>1, <1>2, <1>3, PTL DEF PSpec
=============================================================================
