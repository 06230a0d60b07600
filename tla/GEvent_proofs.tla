--------------------------- MODULE GEvent_proofs ---------------------------
(***************************************************************************)
(* Proofs about GEvent, for any number of listeners, fires and callbacks.  *)
(***************************************************************************)
EXTENDS GEvent, SequenceTheorems, TLAPS

-----------------------------------------------------------------------------
(* What the operations do to the slots and to the stack of frames.         *)

LEMMA InsertType ==
  ASSUME NEW s \in Seq(Tokens), NEW n \in 0 .. Len(s), NEW t \in Tokens
  PROVE  /\ Insert(s, n, t) \in Seq(Tokens)
         /\ Len(Insert(s, n, t)) >= Len(s)
         /\ Len(Insert(s, n, t)) >= n + 1
         /\ \A j \in 1 .. n : Insert(s, n, t)[j] = s[j]
         /\ Insert(s, n, t)[n + 1] = t
<1>1. CASE n < Len(s)
  <2>1. n + 1 \in 1 .. Len(s)
    BY <1>1
  <2> QED
    BY <1>1, <2>1, ExceptSeq DEF Insert
<1>2. CASE n = Len(s)
  BY <1>2, AppendProperties DEF Insert
<1> QED
  BY <1>1, <1>2

LEMMA ShiftType ==
  ASSUME NEW s \in Seq(Tokens), NEW n \in 0 .. Len(s), NEW i \in 1 .. n
  PROVE  /\ Shift(s, n, i) \in Seq(Tokens)
         /\ Len(Shift(s, n, i)) = Len(s)
         /\ \A j \in 1 .. Len(s) :
              Shift(s, n, i)[j] = IF i <= j /\ j < n THEN s[j + 1] ELSE s[j]
<1>1. \A j \in 1 .. Len(s) : (IF i <= j /\ j < n THEN s[j + 1] ELSE s[j]) \in Tokens
  OBVIOUS
<1> QED
  BY <1>1 DEF Shift

LEMMA SetTopType ==
  ASSUME frames \in Seq(Frame), ~Idle, NEW f \in Frame
  PROVE  /\ SetTop(f) \in Seq(Frame)
         /\ Len(SetTop(f)) = Len(frames)
         /\ \A k \in 1 .. Len(frames) - 1 : SetTop(f)[k] = frames[k]
         /\ SetTop(f)[Len(frames)] = f
         /\ SetTop(f) # <<>>
<1>1. Len(frames) \in 1 .. Len(frames)
  BY EmptySeq DEF Idle
<1>2. /\ SetTop(f) \in Seq(Frame)
      /\ Len(SetTop(f)) = Len(frames)
      /\ \A k \in 1 .. Len(frames) :
           SetTop(f)[k] = IF k = Len(frames) THEN f ELSE frames[k]
  BY <1>1, ExceptSeq DEF SetTop
<1> QED
  BY <1>1, <1>2

LEMMA PrefixProperties ==
  ASSUME NEW S, NEW s \in Seq(S), NEW n \in 0 .. Len(s)
  PROVE  /\ SubSeq(s, 1, n) \in Seq(S)
         /\ Len(SubSeq(s, 1, n)) = n
         /\ \A k \in 1 .. n : SubSeq(s, 1, n)[k] = s[k]
<1>1. \A k \in 1 .. n : s[k] \in S
  OBVIOUS
<1> QED
  BY <1>1, SubSeqProperties

LEMMA PopType ==
  ASSUME frames \in Seq(Frame), ~Idle
  PROVE  /\ SubSeq(frames, 1, Len(frames) - 1) \in Seq(Frame)
         /\ Len(SubSeq(frames, 1, Len(frames) - 1)) = Len(frames) - 1
         /\ \A k \in 1 .. Len(frames) - 1 :
              SubSeq(frames, 1, Len(frames) - 1)[k] = frames[k]
<1>1. Len(frames) - 1 \in 0 .. Len(frames)
  BY EmptySeq DEF Idle
<1> QED
  BY <1>1, PrefixProperties

LEMMA TopType ==
  ASSUME frames \in Seq(Frame), ~Idle
  PROVE  /\ Top \in Frame /\ Len(frames) \in Nat \ {0}
         /\ DOMAIN frames = 1 .. Len(frames)
BY EmptySeq DEF Idle, Top

-----------------------------------------------------------------------------
(* Every frame but the innermost is inside a callback, and firing_index is *)
(* never below -1: with these two FiringIndexSound is inductive.           *)
OuterFramesInCallback ==
  \A k \in DOMAIN frames : k < Len(frames) => frames[k].in

IndexInv ==
  /\ TypeOK
  /\ FiringIndexSound
  /\ OuterFramesInCallback
  /\ firing_index >= -1

LEMMA IndexInit == Init => IndexInv
<1> SUFFICES ASSUME Init PROVE IndexInv
  OBVIOUS
<1>1. slots \in Seq(Tokens) /\ frames \in Seq(Frame) /\ freed \in Seq(Tokens)
  BY EmptySeq DEF Init
<1>2. size \in 0 .. Len(slots) /\ last_token \in 1 .. MaxToken
  BY EventAssumption, EmptySeq DEF Init
<1>3. firing_index \in Int /\ fires \in 0 .. MaxFires
  BY EventAssumption DEF Init
<1>4. alive \in BOOLEAN /\ disturbed \in BOOLEAN /\ unlisted \subseteq Tokens
  BY Zenon DEF Init
<1>5. TypeOK
  BY <1>1, <1>2, <1>3, <1>4 DEF TypeOK
<1> QED
  BY <1>5 DEF Init, IndexInv, FiringIndexSound, OuterFramesInCallback, Idle

LEMMA IndexAdd == IndexInv /\ AddListener => IndexInv'
<1> SUFFICES ASSUME IndexInv, AddListener PROVE IndexInv'
  OBVIOUS
<1> USE EventAssumption DEF IndexInv
<1>1. last_token + 1 \in Tokens
  BY DEF AddListener, TypeOK, Tokens
<1>2. /\ slots' \in Seq(Tokens) /\ size' \in 0 .. Len(slots')
      /\ Len(slots') >= Len(slots)
  <2>1. CASE slots' = Insert(slots, size, last_token + 1) /\ size' = size + 1
    BY <1>1, <2>1, InsertType DEF TypeOK
  <2>2. CASE UNCHANGED <<slots, size>>
    BY <2>2 DEF TypeOK
  <2> QED
    BY <2>1, <2>2 DEF AddListener
<1>3. UNCHANGED <<firing_index, frames, freed, fires, alive, disturbed>>
  BY DEF AddListener
<1>4. TypeOK'
  <2>1. unlisted' \subseteq Tokens
    BY <1>1 DEF AddListener, TypeOK
  <2> QED
    BY <1>2, <1>3, <2>1 DEF AddListener, TypeOK
<1>5. FiringIndexSound'
  <2>1. \A k \in DOMAIN frames : frames[k].size \in Nat
    <3> SUFFICES ASSUME NEW k \in DOMAIN frames PROVE frames[k].size \in Nat
      OBVIOUS
    <3>1. frames[k] \in Frame
      BY ElementOfSeq, LenProperties DEF TypeOK
    <3> QED
      BY <3>1 DEF Frame
  <2> QED
    BY <1>2, <1>3, <2>1 DEF FiringIndexSound, Idle, Top, TypeOK
<1> QED
  BY <1>3, <1>4, <1>5 DEF OuterFramesInCallback

LEMMA IndexRemove ==
  ASSUME NEW i \in 1 .. size, IndexInv, RemoveListener(i)
  PROVE  IndexInv'
<1> USE EventAssumption DEF IndexInv
<1>1. /\ slots' \in Seq(Tokens) /\ Len(slots') = Len(slots)
      /\ size' \in 0 .. Len(slots')
  BY ShiftType DEF RemoveListener, TypeOK
<1>2. freed' \in Seq(Tokens)
  BY AppendProperties DEF RemoveListener, TypeOK
<1>3. /\ firing_index' \in Int /\ firing_index' >= -1
      /\ firing_index = -1 => firing_index' = -1
  BY DEF RemoveListener, IndexAfterRemoval, TypeOK
<1>4. UNCHANGED <<last_token, frames, fires, alive, unlisted>>
  BY DEF RemoveListener
<1>5. TypeOK'
  <2>1. disturbed' \in BOOLEAN
    BY DEF RemoveListener
  <2> QED
    BY <1>1, <1>2, <1>3, <1>4, <2>1 DEF TypeOK
<1>6. FiringIndexSound'
  <2>1. ~Idle => Top.in
    BY DEF RemoveListener, MayCall
  <2> QED
    BY <1>1, <1>3, <1>4, <2>1 DEF FiringIndexSound, Idle, Top
<1> QED
  BY <1>3, <1>4, <1>5, <1>6 DEF OuterFramesInCallback

LEMMA IndexFireBegin == IndexInv /\ FireBegin => IndexInv'
<1> SUFFICES ASSUME IndexInv, FireBegin PROVE IndexInv'
  OBVIOUS
<1> USE EventAssumption DEF IndexInv
<1> DEFINE f == [size |-> size, in |-> FALSE, start |-> Registered, called |-> <<>>]
<1>1. f \in Frame
  <2>1. Registered \in Seq(Nat)
    BY SubSeqProperties DEF Registered, TypeOK, Tokens
  <2> QED
    BY <2>1 DEF Frame, TypeOK
<1>2. /\ frames' \in Seq(Frame) /\ Len(frames') = Len(frames) + 1
      /\ \A k \in 1 .. Len(frames) : frames'[k] = frames[k]
      /\ frames'[Len(frames) + 1] = f
  BY <1>1, AppendProperties DEF FireBegin, TypeOK
<1>3. Len(frames) \in Nat /\ DOMAIN frames' = 1 .. Len(frames) + 1
      /\ DOMAIN frames = 1 .. Len(frames)
  BY <1>2 DEF TypeOK
<1>4. /\ firing_index' = 0
      /\ UNCHANGED <<slots, size, last_token, freed, alive, disturbed, unlisted>>
  BY DEF FireBegin, history
<1>5. TypeOK'
  BY <1>2, <1>4 DEF TypeOK, FireBegin
<1>6. FiringIndexSound'
  <2>1. \A k \in DOMAIN frames' : frames'[k].size <= Len(slots)
    BY <1>2, <1>3 DEF FiringIndexSound, TypeOK
  <2>2. ~Idle'
    BY <1>2, <1>3 DEF Idle
  <2> QED
    BY <1>4, <2>1, <2>2 DEF FiringIndexSound
<1>7. OuterFramesInCallback'
  <2>1. \A k \in 1 .. Len(frames) : frames[k].in
    <3> SUFFICES ASSUME NEW k \in 1 .. Len(frames) PROVE frames[k].in
      OBVIOUS
    <3>1. CASE k < Len(frames)
      BY <1>3, <3>1 DEF OuterFramesInCallback
    <3>2. CASE k = Len(frames)
      <4>1. ~Idle
        BY <3>2 DEF Idle
      <4>2. Top.in
        BY <4>1 DEF FireBegin, MayCall
      <4> QED
        BY <3>2, <4>2 DEF Top
    <3>3. k < Len(frames) \/ k = Len(frames)
      <4>1. Len(frames) \in Nat
        BY <1>3
      <4> HIDE DEF IndexInv
      <4> QED
        BY <4>1, SMT
    <3> QED
      BY <3>1, <3>2, <3>3
  <2> QED
    BY <1>2, <1>3, <2>1 DEF OuterFramesInCallback
<1> QED
  BY <1>4, <1>5, <1>6, <1>7

LEMMA IndexCallListener == IndexInv /\ CallListener => IndexInv'
<1> SUFFICES ASSUME IndexInv, CallListener PROVE IndexInv'
  OBVIOUS
<1> USE EventAssumption DEF IndexInv
<1>1. ~Idle /\ ~Top.in /\ firing_index < Top.size
  BY DEF CallListener, MoreToCall
<1>2. Top \in Frame /\ Len(frames) \in Nat \ {0} /\ DOMAIN frames = 1 .. Len(frames)
  BY <1>1, TopType DEF TypeOK
<1>3. firing_index >= 0 /\ Top.size <= Len(slots)
  BY <1>1, <1>2 DEF FiringIndexSound, Top
<1> DEFINE f == [Top EXCEPT !.in = TRUE,
                            !.called = Append(@, slots[firing_index + 1])]
<1>4. slots[firing_index + 1] \in Nat
  <2>1. firing_index + 1 \in 1 .. Len(slots)
    BY <1>1, <1>2, <1>3 DEF TypeOK, Frame
  <2>2. slots[firing_index + 1] \in Tokens
    BY <2>1, ElementOfSeq DEF TypeOK
  <2> QED
    BY <2>2 DEF Tokens
<1>5. f \in Frame /\ f.size = Top.size /\ f.in
  <2>1. Append(Top.called, slots[firing_index + 1]) \in Seq(Nat)
    BY <1>2, <1>4, AppendProperties DEF Frame
  <2> QED
    BY <1>2, <2>1 DEF Frame
<1>6. frames' = SetTop(f)
  BY DEF CallListener
<1> HIDE DEF f
<1>7. /\ frames' \in Seq(Frame) /\ Len(frames') = Len(frames)
      /\ \A k \in 1 .. Len(frames) - 1 : frames'[k] = frames[k]
      /\ frames'[Len(frames)] = f
      /\ frames' # <<>> /\ DOMAIN frames' = 1 .. Len(frames)
  <2>1. frames \in Seq(Frame) /\ ~Idle /\ f \in Frame /\ frames' = SetTop(f)
    BY <1>1, <1>5, <1>6 DEF TypeOK
  <2> QED
    BY ONLY <2>1, SetTopType, LenProperties
<1>8. UNCHANGED <<slots, size, last_token, firing_index, freed, fires, alive,
                  disturbed, unlisted>>
  BY DEF CallListener, history
<1>9. TypeOK'
  BY <1>7, <1>8 DEF TypeOK
<1>10. FiringIndexSound'
  <2>1. \A k \in DOMAIN frames' : frames'[k].size <= Len(slots)
    BY <1>2, <1>3, <1>5, <1>7 DEF FiringIndexSound
  <2>2. Top'.in
    <3>1. frames'[Len(frames')] = f
      BY <1>7
    <3> QED
      BY <1>5, <3>1 DEF Top
  <2> QED
    BY <1>7, <1>8, <2>1, <2>2 DEF FiringIndexSound, Idle
<1>11. OuterFramesInCallback'
  <2> SUFFICES ASSUME NEW k \in 1 .. Len(frames), k < Len(frames)
               PROVE  frames'[k].in
    BY <1>7 DEF OuterFramesInCallback
  <2>1. frames'[k] = frames[k]
    BY <1>2, <1>7
  <2> QED
    BY <1>2, <2>1 DEF OuterFramesInCallback
<1> QED
  BY <1>8, <1>9, <1>10, <1>11

LEMMA IndexCallbackReturns == IndexInv /\ CallbackReturns => IndexInv'
<1> SUFFICES ASSUME IndexInv, CallbackReturns PROVE IndexInv'
  OBVIOUS
<1> USE EventAssumption DEF IndexInv
<1>1. ~Idle /\ Top.in
  BY DEF CallbackReturns
<1>2. Top \in Frame /\ Len(frames) \in Nat \ {0} /\ DOMAIN frames = 1 .. Len(frames)
  BY <1>1, TopType DEF TypeOK
<1> DEFINE f == [Top EXCEPT !.in = FALSE]
<1>3. f \in Frame /\ f.size = Top.size
  BY <1>2 DEF Frame
<1>4. frames' = SetTop(f)
  BY DEF CallbackReturns
<1> HIDE DEF f
<1>5. /\ frames' \in Seq(Frame) /\ Len(frames') = Len(frames)
      /\ \A k \in 1 .. Len(frames) - 1 : frames'[k] = frames[k]
      /\ frames'[Len(frames)] = f
      /\ frames' # <<>> /\ DOMAIN frames' = 1 .. Len(frames)
  <2>1. frames \in Seq(Frame) /\ ~Idle /\ f \in Frame /\ frames' = SetTop(f)
    BY <1>1, <1>3, <1>4 DEF TypeOK
  <2> QED
    BY ONLY <2>1, SetTopType, LenProperties
<1>6. /\ firing_index' = firing_index + 1
      /\ UNCHANGED <<slots, size, last_token, freed, fires, alive,
                     disturbed, unlisted>>
  BY DEF CallbackReturns, history
<1>7. TypeOK'
  <2>1. firing_index' \in Int
    BY <1>6 DEF TypeOK
  <2> QED
    BY <1>5, <1>6, <2>1 DEF TypeOK
<1>8. FiringIndexSound'
  <2>1. \A k \in DOMAIN frames' : frames'[k].size <= Len(slots)
    BY <1>2, <1>3, <1>5 DEF FiringIndexSound, Top
  <2>2. firing_index' >= 0
    BY <1>6 DEF TypeOK
  <2> QED
    BY <1>5, <1>6, <2>1, <2>2 DEF FiringIndexSound, Idle
<1>9. OuterFramesInCallback'
  <2> SUFFICES ASSUME NEW k \in 1 .. Len(frames), k < Len(frames)
               PROVE  frames'[k].in
    BY <1>5 DEF OuterFramesInCallback
  <2>1. frames'[k] = frames[k]
    BY <1>2, <1>5
  <2> QED
    BY <1>2, <2>1 DEF OuterFramesInCallback
<1> QED
  BY <1>6, <1>7, <1>8, <1>9 DEF TypeOK

LEMMA IndexFireEnd == IndexInv /\ FireEnd => IndexInv'
<1> SUFFICES ASSUME IndexInv, FireEnd PROVE IndexInv'
  OBVIOUS
<1> USE EventAssumption DEF IndexInv
<1>1. ~Idle /\ frames' = SubSeq(frames, 1, Len(frames) - 1)
  BY DEF FireEnd
<1>2. Len(frames) \in Nat \ {0} /\ DOMAIN frames = 1 .. Len(frames)
  BY <1>1, TopType DEF TypeOK
<1>3. /\ frames' \in Seq(Frame) /\ Len(frames') = Len(frames) - 1
      /\ \A k \in 1 .. Len(frames) - 1 : frames'[k] = frames[k]
      /\ DOMAIN frames' = 1 .. Len(frames) - 1
  BY <1>1, PopType, LenProperties DEF TypeOK
<1>4. /\ firing_index' = -1 /\ disturbed' \in BOOLEAN
      /\ UNCHANGED <<slots, size, last_token, freed, fires, alive, unlisted>>
  BY DEF FireEnd
<1>5. \A k \in DOMAIN frames' : frames'[k].in
  BY <1>2, <1>3 DEF OuterFramesInCallback
<1>6. TypeOK'
  <2>1. firing_index' \in Int
    BY <1>4
  <2> QED
    BY <1>3, <1>4, <2>1 DEF TypeOK
<1>7. FiringIndexSound'
  <2>1. \A k \in DOMAIN frames' : frames'[k].size <= Len(slots)
    BY <1>2, <1>3 DEF FiringIndexSound
  <2>2. ~Idle' => Top'.in
    <3> SUFFICES ASSUME ~Idle' PROVE Top'.in
      OBVIOUS
    <3>1. Len(frames') \in DOMAIN frames'
      BY <1>2, <1>3, EmptySeq DEF Idle
    <3> QED
      BY <1>5, <3>1 DEF Top
  <2> QED
    BY <1>4, <2>1, <2>2 DEF FiringIndexSound
<1> QED
  BY <1>4, <1>5, <1>6, <1>7 DEF OuterFramesInCallback

LEMMA IndexFree == IndexInv /\ Free => IndexInv'
<1> SUFFICES ASSUME IndexInv, Free PROVE IndexInv'
  OBVIOUS
<1> USE DEF IndexInv
<1>1. /\ frames = <<>> /\ frames' = <<>> /\ slots' = <<>> /\ size' = 0
      /\ alive' = FALSE
      /\ UNCHANGED <<last_token, firing_index, fires, disturbed, unlisted>>
      /\ freed' = freed \o Registered
  BY DEF Free, Idle, history
<1>2. Registered \in Seq(Tokens)
  BY SubSeqProperties DEF Registered, TypeOK
<1>3. freed' \in Seq(Tokens)
  BY <1>1, <1>2, ConcatProperties DEF TypeOK
<1>4. TypeOK'
  <2>1. <<>> \in Seq(Tokens) /\ <<>> \in Seq(Frame) /\ Len(<<>>) = 0
    BY EmptySeq
  <2>2. slots' \in Seq(Tokens) /\ frames' \in Seq(Frame) /\ size' \in 0 .. Len(slots')
    BY <1>1, <2>1
  <2> QED
    BY <1>1, <1>3, <2>2 DEF TypeOK
<1> QED
  BY <1>1, <1>4 DEF FiringIndexSound, OuterFramesInCallback, Idle

LEMMA IndexNext == IndexInv /\ [Next]_vars => IndexInv'
<1> SUFFICES ASSUME IndexInv, [Next]_vars PROVE IndexInv'
  OBVIOUS
<1>1. CASE UNCHANGED vars
  BY <1>1 DEF vars, history, IndexInv, TypeOK, FiringIndexSound,
              OuterFramesInCallback, Idle, Top
<1>2. CASE Next
  BY <1>2, IndexAdd, IndexRemove, IndexFireBegin, IndexCallListener,
     IndexCallbackReturns, IndexFireEnd, IndexFree DEF Next, FireStep
<1> QED
  BY <1>1, <1>2

(* The state is always of its type: in particular every slot that a fire   *)
(* reads holds a token some g_event_add_listener handed out.               *)
THEOREM TypeCorrect == Spec => []TypeOK
<1>1. Spec => []IndexInv
  BY IndexInit, IndexNext, PTL DEF Spec
<1>2. IndexInv => TypeOK
  BY DEF IndexInv
<1> QED
  BY <1>1, <1>2, PTL

(* Whatever callbacks add, remove and fire, firing_index stays usable: -1  *)
(* when no fire is in progress, otherwise inside the array's allocation    *)
(* when the loop reads it.                                                 *)
THEOREM IndexCorrect == Spec => []FiringIndexSound
<1>1. Spec => []IndexInv
  BY IndexInit, IndexNext, PTL DEF Spec
<1>2. IndexInv => FiringIndexSound
  BY DEF IndexInv
<1> QED
  BY <1>1, <1>2, PTL

-----------------------------------------------------------------------------
(* Until a callback removes a listener, the frame in progress, if any, is  *)
(* the only one, the listeners it began with are still in the first slots  *)
(* of the n registered ones, s, and it has called the first ones up to the *)
(* index i (one more when the last one has not returned).                  *)
FrameInv(f, n, s, i) ==
  /\ f.size <= n
  /\ Len(f.start) = f.size
  /\ \A j \in 1 .. f.size : f.start[j] = s[j]
  /\ i \in 0 .. f.size
  /\ f.in => Len(f.called) = i + 1
  /\ ~f.in => Len(f.called) = i
  /\ Len(f.called) <= f.size
  /\ \A j \in 1 .. Len(f.called) : f.called[j] = f.start[j]

FireInv ==
  /\ Idle => ~disturbed
  /\ ~disturbed => Len(frames) <= 1
  /\ ~disturbed /\ ~Idle => FrameInv(Top, size, slots, firing_index)

LEMMA FireInit == Init => FireInv
BY DEF Init, FireInv, Idle

LEMMA OnlyFrame ==
  ASSUME TypeOK, FireInv, ~Idle, ~disturbed
  PROVE  /\ Len(frames) = 1
         /\ Top \in Frame
         /\ FrameInv(Top, size, slots, firing_index)
BY TopType DEF TypeOK, FireInv

LEMMA FireAdd == IndexInv /\ FireInv /\ AddListener => FireInv'
<1> SUFFICES ASSUME IndexInv, FireInv, AddListener PROVE FireInv'
  OBVIOUS
<1>1. /\ TypeOK /\ disturbed' = disturbed
      /\ firing_index' = firing_index /\ frames' = frames
  BY DEF AddListener, IndexInv
<1>2. CASE Idle \/ disturbed
  BY <1>1, <1>2 DEF FireInv, Idle
<1>3. CASE ~Idle /\ ~disturbed
  <2>1. Top \in Frame /\ FrameInv(Top, size, slots, firing_index)
    BY <1>1, <1>3, OnlyFrame
  <2>2. last_token + 1 \in Tokens
    BY <1>1, EventAssumption DEF AddListener, TypeOK, Tokens
  <2>3. size \in Nat /\ slots \in Seq(Tokens) /\ size \in 0 .. Len(slots)
    BY <1>1 DEF TypeOK
  <2>4. /\ size' \in Nat /\ size' >= size
        /\ \A j \in 1 .. size : slots'[j] = slots[j]
    <3>1. CASE slots' = Insert(slots, size, last_token + 1) /\ size' = size + 1
      <4>1. size' \in Nat /\ size' >= size
        BY <2>3, <3>1
      <4>2. \A j \in 1 .. size : slots'[j] = slots[j]
        BY <2>2, <2>3, <3>1, InsertType
      <4> QED
        BY <4>1, <4>2
    <3>2. CASE UNCHANGED <<slots, size>>
      BY <2>3, <3>2
    <3> QED
      BY <3>1, <3>2 DEF AddListener
  <2>5. Top.size \in Nat
    BY <2>1 DEF Frame
  <2>6. FrameInv(Top, size', slots', firing_index')
    <3>1. Top.size <= size'
      BY <2>1, <2>3, <2>4, <2>5 DEF FrameInv
    <3>2. \A j \in 1 .. Top.size : Top.start[j] = slots'[j]
      BY <2>1, <2>3, <2>4, <2>5 DEF FrameInv
    <3> QED
      BY <1>1, <2>1, <3>1, <3>2 DEF FrameInv
  <2>7. FrameInv(Top', size', slots', firing_index')
    BY <1>1, <2>6 DEF Top
  <2>8. ~Idle' /\ ~disturbed'
    BY <1>1, <1>3, Zenon DEF Idle
  <2>9. Len(frames') <= 1
    BY <1>1, <1>3, OnlyFrame
  <2> QED
    BY <2>7, <2>8, <2>9 DEF FireInv
<1> QED
  BY <1>2, <1>3

(* A removal is the client's, between two fires, or a callback's.          *)
LEMMA FireRemove ==
  ASSUME FireInv, NEW i \in 1 .. size, RemoveListener(i)
  PROVE  FireInv'
<1>1. frames' = frames /\ disturbed' = (disturbed \/ ~Idle)
  BY DEF RemoveListener
<1>2. CASE Idle
  <2>1. Idle' /\ ~disturbed /\ ~disturbed'
    BY <1>1, <1>2, Zenon DEF Idle, FireInv
  <2>2. Len(frames') <= 1
    BY <1>1, <2>1 DEF FireInv
  <2> QED
    BY <2>1, <2>2 DEF FireInv
<1>3. CASE ~Idle
  <2>1. ~Idle' /\ disturbed'
    BY <1>1, <1>3 DEF Idle
  <2> QED
    BY <2>1 DEF FireInv
<1> QED
  BY <1>2, <1>3

(* Once a fire is disturbed nothing more is claimed until it is over.       *)
LEMMA FireDisturbed ==
  ASSUME IndexInv, FireInv, disturbed,
         FireBegin \/ CallListener \/ CallbackReturns
  PROVE  FireInv'
<1>1. TypeOK /\ disturbed' = disturbed /\ ~Idle
  BY DEF IndexInv, FireInv, FireBegin, CallListener, CallbackReturns, history
<1>2. Len(frames) \in Nat \ {0} /\ Top \in Frame
  BY <1>1, TopType DEF TypeOK
<1>3. CASE FireBegin
  <2>1. frames' # <<>>
    <3> DEFINE f == [size |-> size, in |-> FALSE, start |-> Registered,
                     called |-> <<>>]
    <3>1. frames' = Append(frames, f)
      BY <1>3 DEF FireBegin
    <3> HIDE DEF f
    <3> QED
      BY <1>1, <3>1 DEF TypeOK
  <2> QED
    BY <1>1, <2>1 DEF FireInv, Idle
<1>4. CASE CallListener \/ CallbackReturns
  <2>1. PICK f : frames' = [frames EXCEPT ![Len(frames)] = f]
    BY <1>4 DEF CallListener, CallbackReturns, SetTop
  <2>2. frames' # <<>>
    BY <1>1, <1>2, <2>1 DEF TypeOK
  <2> QED
    BY <1>1, <2>2 DEF FireInv, Idle
<1> QED
  BY <1>3, <1>4

(* firing_index is the flag that refuses a fire inside a fire.             *)
LEMMA FireFireBegin ==
  ASSUME IndexInv, FireInv, ~disturbed, FireBegin
  PROVE  FireInv'
<1> DEFINE f == [size |-> size, in |-> FALSE, start |-> Registered, called |-> <<>>]
<1>1. TypeOK /\ size \in Nat
  BY DEF IndexInv, TypeOK
<1>2. Idle
  <2> SUFFICES ASSUME ~Idle PROVE FALSE
    OBVIOUS
  <2>1. Top \in Frame /\ firing_index \in 0 .. Top.size
    BY <1>1, OnlyFrame DEF FrameInv
  <2>2. firing_index = -1
    BY DEF FireBegin
  <2> QED
    BY <2>1, <2>2 DEF Frame
<1>3. frames' = <<f>>
  BY <1>2 DEF FireBegin, Idle
<1>4. Len(frames') = 1 /\ Top' = f
  BY <1>3 DEF Top
<1>5. FrameInv(f, size, slots, 0)
  <2>1. Len(Registered) = size /\ \A j \in 1 .. size : Registered[j] = slots[j]
    BY <1>1, PrefixProperties DEF Registered, TypeOK
  <2>2. f.size = size /\ f.start = Registered /\ ~f.in /\ f.called = <<>>
    OBVIOUS
  <2>3. Len(f.called) = 0 /\ \A j \in 1 .. Len(f.called) : f.called[j] = f.start[j]
    BY <2>2
  <2> HIDE DEF f
  <2> QED
    BY <1>1, <2>1, <2>2, <2>3 DEF FrameInv
<1>6. /\ firing_index' = 0 /\ size' = size /\ slots' = slots
      /\ disturbed' = disturbed /\ ~Idle'
  <2>1. <<f>> # <<>>
    OBVIOUS
  <2> QED
    BY <1>3, <2>1 DEF FireBegin, history, Idle
<1>7. FrameInv(Top', size', slots', firing_index')
  BY <1>4, <1>5, <1>6
<1> QED
  BY <1>4, <1>6, <1>7 DEF FireInv

LEMMA FireCallListener ==
  ASSUME IndexInv, FireInv, ~disturbed, CallListener
  PROVE  FireInv'
<1>1. TypeOK /\ ~Idle /\ ~Top.in /\ firing_index < Top.size
  BY DEF IndexInv, CallListener, MoreToCall
<1>2. /\ Len(frames) = 1 /\ Top \in Frame
      /\ FrameInv(Top, size, slots, firing_index)
  BY <1>1, OnlyFrame
<1> DEFINE t == slots[firing_index + 1]
           f == [Top EXCEPT !.in = TRUE, !.called = Append(@, t)]
<1>3. Top.size \in Nat /\ firing_index \in Nat /\ Top.called \in Seq(Nat)
  BY <1>2 DEF Frame, FrameInv
<1>4. Len(Top.called) = firing_index
  BY <1>1, <1>2 DEF FrameInv
<1>5. t = Top.start[firing_index + 1]
  BY <1>1, <1>2, <1>3 DEF FrameInv
<1>6. t \in Nat
  <2>1. Top.start \in Seq(Nat) /\ Len(Top.start) = Top.size
    BY <1>2 DEF Frame, FrameInv
  <2>2. firing_index + 1 \in 1 .. Len(Top.start)
    BY <1>1, <1>3, <2>1
  <2>3. Top.start[firing_index + 1] \in Nat
    BY <2>1, <2>2, ElementOfSeq
  <2> QED
    BY <1>5, <2>3
<1> HIDE DEF t
<1>7. /\ f \in Frame /\ f.size = Top.size /\ f.in /\ f.start = Top.start
      /\ f.called = Append(Top.called, t)
  <2>1. Append(Top.called, t) \in Seq(Nat)
    BY <1>3, <1>6, AppendProperties
  <2> QED
    BY <1>2, <2>1 DEF Frame
<1>8. frames' = SetTop(f)
  BY DEF CallListener, t
<1> HIDE DEF f
<1>9. Len(f.called) = firing_index + 1
  BY <1>3, <1>4, <1>6, <1>7, AppendProperties
<1>10. \A j \in 1 .. Len(f.called) : f.called[j] = f.start[j]
  <2> SUFFICES ASSUME NEW j \in 1 .. firing_index + 1
               PROVE  f.called[j] = f.start[j]
    BY <1>9
  <2>1. CASE j = firing_index + 1
    BY <1>3, <1>4, <1>5, <1>6, <1>7, <2>1, AppendProperties
  <2>2. CASE j \in 1 .. firing_index
    <3>1. f.called[j] = Top.called[j]
      BY <1>3, <1>4, <1>6, <1>7, <2>2, AppendProperties
    <3> QED
      BY <1>2, <1>4, <1>7, <2>2, <3>1 DEF FrameInv
  <2> QED
    BY <1>3, <2>1, <2>2
<1>11. FrameInv(f, size, slots, firing_index)
  <2>1. Len(f.called) <= f.size
    BY <1>1, <1>3, <1>7, <1>9
  <2> QED
    BY <1>2, <1>7, <1>9, <1>10, <2>1 DEF FrameInv
<1>12. Len(frames') = 1 /\ frames'[1] = f
  BY <1>1, <1>2, <1>7, <1>8, SetTopType DEF TypeOK
<1>13. Top' = f
  BY <1>12 DEF Top
<1>14. /\ size' = size /\ slots' = slots /\ firing_index' = firing_index
       /\ disturbed' = disturbed
  BY DEF CallListener, history
<1>15. FrameInv(Top', size', slots', firing_index')
  BY <1>11, <1>13, <1>14
<1> QED
  BY <1>12, <1>14, <1>15 DEF FireInv

LEMMA FireCallbackReturns ==
  ASSUME IndexInv, FireInv, ~disturbed, CallbackReturns
  PROVE  FireInv'
<1>1. TypeOK /\ ~Idle /\ Top.in
  BY DEF IndexInv, CallbackReturns
<1>2. /\ Len(frames) = 1 /\ Top \in Frame
      /\ FrameInv(Top, size, slots, firing_index)
  BY <1>1, OnlyFrame
<1> DEFINE f == [Top EXCEPT !.in = FALSE]
<1>3. /\ f \in Frame /\ f.size = Top.size /\ ~f.in /\ f.start = Top.start
      /\ f.called = Top.called
  BY <1>2 DEF Frame
<1>4. frames' = SetTop(f)
  BY DEF CallbackReturns
<1> HIDE DEF f
<1>5. Top.size \in Nat /\ Len(Top.called) = firing_index + 1
  BY <1>1, <1>2 DEF Frame, FrameInv
<1>6. firing_index + 1 \in 0 .. Top.size
  BY <1>2, <1>5 DEF FrameInv
<1>7. FrameInv(f, size, slots, firing_index + 1)
  BY <1>2, <1>3, <1>5, <1>6 DEF FrameInv
<1>8. Len(frames') = 1 /\ frames'[1] = f
  BY <1>1, <1>2, <1>3, <1>4, SetTopType DEF TypeOK
<1>9. Top' = f
  BY <1>8 DEF Top
<1>10. /\ size' = size /\ slots' = slots /\ firing_index' = firing_index + 1
       /\ disturbed' = disturbed
  BY DEF CallbackReturns, history
<1>11. FrameInv(Top', size', slots', firing_index')
  BY <1>7, <1>9, <1>10
<1> QED
  BY <1>8, <1>10, <1>11 DEF FireInv

LEMMA FireFireEnd == IndexInv /\ FireInv /\ FireEnd => FireInv'
<1> SUFFICES ASSUME IndexInv, FireInv, FireEnd PROVE FireInv'
  OBVIOUS
<1>1. TypeOK /\ ~Idle /\ disturbed' = (disturbed /\ Len(frames) > 1)
  BY DEF IndexInv, FireEnd
<1>2. Len(frames) \in Nat \ {0}
  BY <1>1, TopType DEF TypeOK
<1>3. frames' \in Seq(Frame) /\ Len(frames') = Len(frames) - 1
  BY <1>1, PopType DEF FireEnd, TypeOK
<1>4. CASE Len(frames) = 1
  <2>1. ~(Len(frames) > 1)
    BY <1>4
  <2>2. ~disturbed'
    BY <1>1, <2>1
  <2>3. Idle'
    BY <1>3, <1>4, EmptySeq DEF Idle
  <2> QED
    BY <1>3, <1>4, <2>2, <2>3 DEF FireInv
<1>5. CASE Len(frames) # 1
  <2>1. disturbed'
    <3>1. Len(frames) > 1 /\ ~(Len(frames) <= 1)
      BY <1>2, <1>5
    <3>2. disturbed
      BY <1>1, <3>1, Zenon DEF FireInv
    <3> QED
      BY <1>1, <3>1, <3>2, Zenon
  <2>2. Len(<<>>) = 0
    OBVIOUS
  <2>3. ~Idle'
    BY <1>2, <1>3, <1>5, <2>2 DEF Idle
  <2> QED
    BY <2>1, <2>3 DEF FireInv
<1> QED
  BY <1>4, <1>5

LEMMA FireNext == IndexInv /\ FireInv /\ [Next]_vars => FireInv'
<1> SUFFICES ASSUME IndexInv, FireInv, [Next]_vars PROVE FireInv'
  OBVIOUS
<1>1. CASE UNCHANGED vars
  BY <1>1 DEF vars, history, FireInv, Idle, Top
<1>2. CASE Free
  BY <1>2 DEF Free, history, FireInv, Idle
<1>3. CASE AddListener
  BY <1>3, FireAdd
<1>4. ASSUME NEW i \in 1 .. size, RemoveListener(i) PROVE FireInv'
  BY <1>4, FireRemove
<1>5. CASE FireBegin \/ CallListener \/ CallbackReturns
  BY <1>5, FireDisturbed, FireFireBegin, FireCallListener, FireCallbackReturns
<1>6. CASE FireEnd
  BY <1>6, FireFireEnd
<1> QED
  BY <1>1, <1>2, <1>3, <1>4, <1>5, <1>6 DEF Next, FireStep

(* "can not refire an event during firing" (tests/test_event.c:15) holds   *)
(* until a callback removes a listener, and again from the next fire on.   *)
THEOREM NoRefireProved == Spec => []NoRefireUndisturbed
<1>1. FireInv => NoRefireUndisturbed
  BY DEF FireInv, NoRefireUndisturbed, NoRefire
<1> QED
  BY <1>1, IndexInit, IndexNext, FireInit, FireNext, PTL DEF Spec

LEMMA FireInvOrder == TypeOK /\ FireInv => ExactlyOnceInOrder
<1> SUFFICES ASSUME TypeOK, FireInv, ~Idle, ~disturbed
             PROVE  /\ IsPrefix(Top.called, Top.start)
                    /\ ~Top.in /\ ~MoreToCall => Top.called = Top.start
  BY DEF ExactlyOnceInOrder
<1>1. /\ Top \in Frame
      /\ FrameInv(Top, size, slots, firing_index)
  BY OnlyFrame
<1>2. /\ Top.called \in Seq(Nat) /\ Top.start \in Seq(Nat)
      /\ Len(Top.called) \in 0 .. Len(Top.start)
      /\ \A j \in 1 .. Len(Top.called) : Top.called[j] = Top.start[j]
  BY <1>1, LenProperties DEF Frame, FrameInv
<1>3. SubSeq(Top.start, 1, Len(Top.called)) = Top.called
  <2>1. /\ SubSeq(Top.start, 1, Len(Top.called)) \in Seq(Nat)
        /\ Len(SubSeq(Top.start, 1, Len(Top.called))) = Len(Top.called)
        /\ \A j \in 1 .. Len(Top.called) :
             SubSeq(Top.start, 1, Len(Top.called))[j] = Top.start[j]
    BY <1>2, PrefixProperties
  <2> QED
    BY <1>2, <2>1, SeqEqual
<1>4. IsPrefix(Top.called, Top.start)
  BY <1>2, <1>3 DEF IsPrefix
<1>5. ASSUME ~Top.in, ~MoreToCall PROVE Top.called = Top.start
  <2>1. Len(Top.called) = Len(Top.start)
    BY <1>1, <1>5 DEF MoreToCall, FrameInv, Frame
  <2> QED
    BY <1>2, <2>1, SeqEqual
<1> QED
  BY <1>4, <1>5

(* Until a callback removes a listener, a fire calls exactly the listeners *)
(* that were registered when it began, in that order, each once: adds by   *)
(* callbacks and refused fires do not disturb the loop.                    *)
THEOREM OrderProved == Spec => []ExactlyOnceInOrder
<1>1. IndexInv /\ FireInv => ExactlyOnceInOrder
  BY FireInvOrder DEF IndexInv
<1> QED
  BY <1>1, IndexInit, IndexNext, FireInit, FireNext, PTL DEF Spec
-----------------------------------------------------------------------------
(* Who owns the user data: every token handed out, unless no listener was  *)
(* stored for it, is either registered, once, or was released, once.       *)
TokensHandedOut ==
  /\ \A p \in 1 .. size : slots[p] <= last_token
  /\ \A j \in DOMAIN freed : freed[j] <= last_token

EachHasOneOwner ==
  /\ \A j, k \in 1 .. size : slots[j] = slots[k] => j = k
  /\ \A j, k \in DOMAIN freed : freed[j] = freed[k] => j = k
  /\ \A j \in DOMAIN freed : \A k \in 1 .. size : freed[j] # slots[k]

EachIsHeldOrFreed ==
  /\ \A t \in (2 .. last_token) \ unlisted :
       \/ \E k \in 1 .. size : slots[k] = t
       \/ \E j \in DOMAIN freed : freed[j] = t
  /\ ~alive => size = 0

OwnerInv == TokensHandedOut /\ EachHasOneOwner /\ EachIsHeldOrFreed

LEMMA TokensAreNumbers ==
  ASSUME TypeOK
  PROVE  /\ size \in Nat /\ last_token \in Nat
         /\ Len(freed) \in Nat /\ DOMAIN freed = 1 .. Len(freed)
         /\ \A j \in 1 .. size : slots[j] \in Nat
         /\ \A j \in 1 .. Len(freed) : freed[j] \in Nat
<1>1. /\ slots \in Seq(Tokens) /\ Len(slots) \in Nat /\ size \in 0 .. Len(slots)
      /\ freed \in Seq(Tokens) /\ Len(freed) \in Nat /\ DOMAIN freed = 1 .. Len(freed)
  BY LenProperties DEF TypeOK
<1>2. last_token \in Nat /\ size \in Nat
  BY <1>1, EventAssumption DEF TypeOK
<1>3. Tokens \subseteq Nat
  BY DEF Tokens
<1>4. \A j \in 1 .. size : slots[j] \in Nat
  <2>1. \A j \in 1 .. size : slots[j] \in Tokens
    BY <1>1, ElementOfSeq
  <2> QED
    BY <1>3, <2>1
<1>5. \A j \in 1 .. Len(freed) : freed[j] \in Nat
  BY <1>1, <1>3, ElementOfSeq
<1> QED
  BY <1>1, <1>2, <1>4, <1>5

(* What adding a listener does to the registered ones.                     *)
LEMMA Added ==
  ASSUME TypeOK, AddListener
  PROVE  /\ last_token' = last_token + 1 /\ last_token \in Nat
         /\ UNCHANGED <<frames, firing_index, freed, alive>>
         /\ \A j \in 1 .. size : slots'[j] = slots[j]
         /\ \/ /\ size' = size + 1 /\ slots'[size + 1] = last_token + 1
               /\ unlisted' = unlisted
            \/ /\ size' = size
               /\ unlisted' = unlisted \cup {last_token + 1}
<1>1. last_token + 1 \in Tokens /\ last_token \in Nat
  BY EventAssumption DEF AddListener, TypeOK, Tokens
<1>2. CASE /\ slots' = Insert(slots, size, last_token + 1) /\ size' = size + 1
           /\ UNCHANGED unlisted
  <2>1. /\ \A j \in 1 .. size : slots'[j] = slots[j]
        /\ slots'[size + 1] = last_token + 1
    BY <1>1, <1>2, InsertType DEF TypeOK
  <2> QED
    BY <1>1, <1>2, <2>1 DEF AddListener
<1>3. CASE UNCHANGED <<slots, size>> /\ unlisted' = unlisted \cup {last_token + 1}
  BY <1>1, <1>3 DEF AddListener
<1> QED
  BY <1>2, <1>3 DEF AddListener

(* What a removal does to them: those behind move up by one.               *)
LEMMA Removed ==
  ASSUME TypeOK, NEW i \in 1 .. size, RemoveListener(i)
  PROVE  /\ UNCHANGED <<frames, last_token, alive, unlisted>>
         /\ size \in Nat /\ size' = size - 1
         /\ \A j \in 1 .. size - 1 :
              slots'[j] = IF i <= j THEN slots[j + 1] ELSE slots[j]
         /\ freed' = Append(freed, slots[i])
         /\ slots[i] \in Tokens
<1>1. size \in 0 .. Len(slots) /\ slots \in Seq(Tokens) /\ Len(slots) \in Nat
  BY LenProperties DEF TypeOK
<1>2. \A j \in 1 .. Len(slots) :
        slots'[j] = IF i <= j /\ j < size THEN slots[j + 1] ELSE slots[j]
  BY <1>1, ShiftType DEF RemoveListener
<1>3. \A j \in 1 .. size - 1 : j \in 1 .. Len(slots) /\ j < size
  BY <1>1
<1>4. slots[i] \in Tokens
  BY <1>1, ElementOfSeq
<1> QED
  BY <1>1, <1>2, <1>3, <1>4 DEF RemoveListener

LEMMA OwnerInit == Init => OwnerInv
<1> SUFFICES ASSUME Init PROVE OwnerInv
  OBVIOUS
<1>1. size = 0 /\ last_token = 1 /\ DOMAIN freed = {} /\ alive
  BY EmptySeq DEF Init
<1> QED
  BY <1>1 DEF OwnerInv, TokensHandedOut, EachHasOneOwner, EachIsHeldOrFreed

LEMMA OwnerAdd == TypeOK /\ OwnerInv /\ AddListener => OwnerInv'
<1> SUFFICES ASSUME TypeOK, OwnerInv, AddListener PROVE OwnerInv'
  OBVIOUS
<1>1. /\ size \in Nat /\ last_token \in Nat
      /\ \A j \in 1 .. size : slots[j] \in Nat
      /\ \A j \in DOMAIN freed : freed[j] \in Nat
  BY TokensAreNumbers
<1>2. CASE /\ size' = size + 1 /\ slots'[size + 1] = last_token + 1
           /\ unlisted' = unlisted
  <2>1. TokensHandedOut'
    BY <1>1, <1>2, Added DEF OwnerInv, TokensHandedOut
  <2>2. EachHasOneOwner'
    BY <1>1, <1>2, Added DEF OwnerInv, TokensHandedOut, EachHasOneOwner
  <2>3. \A t \in (2 .. last_token') \ unlisted' :
          \/ \E k \in 1 .. size' : slots'[k] = t
          \/ \E j \in DOMAIN freed' : freed'[j] = t
    BY <1>1, <1>2, Added DEF OwnerInv, EachIsHeldOrFreed
  <2>4. alive'
    BY DEF AddListener, MayCall
  <2> QED
    BY <2>1, <2>2, <2>3, <2>4 DEF OwnerInv, EachIsHeldOrFreed
<1>3. CASE size' = size /\ unlisted' = unlisted \cup {last_token + 1}
  <2>1. TokensHandedOut' /\ EachHasOneOwner'
    BY <1>1, <1>3, Added DEF OwnerInv, TokensHandedOut, EachHasOneOwner
  <2>2. EachIsHeldOrFreed'
    BY <1>1, <1>3, Added DEF OwnerInv, EachIsHeldOrFreed
  <2> QED
    BY <2>1, <2>2 DEF OwnerInv
<1> QED
  BY <1>2, <1>3, Added

LEMMA OwnerRemove ==
  ASSUME TypeOK, OwnerInv, NEW i \in 1 .. size, RemoveListener(i)
  PROVE  OwnerInv'
<1>1. /\ size \in Nat /\ last_token \in Nat /\ freed \in Seq(Tokens)
      /\ DOMAIN freed = 1 .. Len(freed) /\ Len(freed) \in Nat
  BY Removed, LenProperties, EventAssumption DEF TypeOK
<1>2. \A j \in 1 .. size' : \E k \in 1 .. size : slots'[j] = slots[k] /\ k # i
  <2> SUFFICES ASSUME NEW j \in 1 .. size - 1
               PROVE  \E k \in 1 .. size : slots'[j] = slots[k] /\ k # i
    BY Removed
  <2>1. CASE i <= j
    <3>1. j + 1 \in 1 .. size /\ j + 1 # i /\ slots'[j] = slots[j + 1]
      BY <1>1, <2>1, Removed
    <3> QED
      BY <3>1
  <2>2. CASE ~(i <= j)
    <3>1. j \in 1 .. size /\ j # i /\ slots'[j] = slots[j]
      BY <1>1, <2>2, Removed
    <3> QED
      BY <3>1
  <2> QED
    BY <2>1, <2>2
<1>3. /\ DOMAIN freed' = 1 .. Len(freed) + 1
      /\ \A j \in DOMAIN freed : freed'[j] = freed[j]
      /\ freed'[Len(freed) + 1] = slots[i]
  BY <1>1, Removed, AppendProperties
<1>4. TokensHandedOut'
  <2>1. \A p \in 1 .. size' : slots'[p] <= last_token
    BY <1>2 DEF OwnerInv, TokensHandedOut
  <2>2. \A j \in DOMAIN freed' : freed'[j] <= last_token
    BY <1>1, <1>3 DEF OwnerInv, TokensHandedOut
  <2> QED
    BY <2>1, <2>2, Removed DEF TokensHandedOut
<1>5. EachHasOneOwner'
  <2>1. \A j, k \in 1 .. size' : slots'[j] = slots'[k] => j = k
    BY <1>1, Removed DEF OwnerInv, EachHasOneOwner
  <2>2. \A j, k \in DOMAIN freed' : freed'[j] = freed'[k] => j = k
    BY <1>1, <1>3 DEF OwnerInv, EachHasOneOwner
  <2>3. \A j \in DOMAIN freed' : \A k \in 1 .. size' : freed'[j] # slots'[k]
    BY <1>1, <1>2, <1>3 DEF OwnerInv, EachHasOneOwner
  <2> QED
    BY <2>1, <2>2, <2>3 DEF EachHasOneOwner
<1>6. EachIsHeldOrFreed'
  <2>1. ASSUME NEW t \in (2 .. last_token) \ unlisted
        PROVE  \/ \E k \in 1 .. size' : slots'[k] = t
               \/ \E j \in DOMAIN freed' : freed'[j] = t
    <3>1. CASE \E j \in DOMAIN freed : freed[j] = t
      BY <1>1, <1>3, <3>1
    <3>2. ASSUME NEW k \in 1 .. size, slots[k] = t
          PROVE  \/ \E m \in 1 .. size' : slots'[m] = t
                 \/ \E j \in DOMAIN freed' : freed'[j] = t
      <4>1. CASE k = i
        BY <1>1, <1>3, <3>2, <4>1
      <4>2. CASE k < i
        <5>1. k \in 1 .. size - 1 /\ ~(i <= k)
          BY <1>1, <4>2
        <5> QED
          BY <3>2, <5>1, Removed
      <4>3. CASE k > i
        <5>1. k - 1 \in 1 .. size - 1 /\ i <= k - 1 /\ (k - 1) + 1 = k
          BY <1>1, <4>3
        <5>2. slots'[k - 1] = slots[k]
          BY <5>1, Removed
        <5> QED
          BY <3>2, <5>1, <5>2, Removed
      <4> QED
        BY <1>1, <4>1, <4>2, <4>3
    <3> QED
      BY <2>1, <3>1, <3>2 DEF OwnerInv, EachIsHeldOrFreed
  <2>2. alive' /\ UNCHANGED <<last_token, unlisted>>
    BY DEF RemoveListener, MayCall
  <2> QED
    BY <2>1, <2>2 DEF EachIsHeldOrFreed
<1> QED
  BY <1>4, <1>5, <1>6 DEF OwnerInv

LEMMA OwnerFree == TypeOK /\ OwnerInv /\ Free => OwnerInv'
<1> SUFFICES ASSUME TypeOK, OwnerInv, Free PROVE OwnerInv'
  OBVIOUS
<1>1. /\ size' = 0 /\ freed' = freed \o Registered
      /\ UNCHANGED <<last_token, unlisted>>
  BY DEF Free, history
<1>2. /\ size \in Nat /\ size <= Len(slots) /\ Len(slots) \in Nat
      /\ freed \in Seq(Tokens) /\ Len(freed) \in Nat
      /\ DOMAIN freed = 1 .. Len(freed)
  BY LenProperties DEF TypeOK
<1>3. /\ Registered \in Seq(Tokens) /\ Len(Registered) = size
      /\ \A k \in 1 .. size : Registered[k] = slots[k]
  BY PrefixProperties DEF Registered, TypeOK
<1>4. /\ DOMAIN freed' = 1 .. Len(freed) + size
      /\ \A j \in 1 .. Len(freed) + size :
           freed'[j] = IF j <= Len(freed) THEN freed[j] ELSE Registered[j - Len(freed)]
  BY <1>1, <1>2, <1>3, ConcatProperties, LenProperties
<1>5. \A j \in DOMAIN freed : j \in DOMAIN freed' /\ freed'[j] = freed[j]
  BY <1>2, <1>4
<1>6. \A k \in 1 .. size :
        Len(freed) + k \in DOMAIN freed' /\ freed'[Len(freed) + k] = slots[k]
  <2> SUFFICES ASSUME NEW k \in 1 .. size
               PROVE  /\ Len(freed) + k \in DOMAIN freed'
                      /\ freed'[Len(freed) + k] = slots[k]
    OBVIOUS
  <2>1. /\ Len(freed) + k \in 1 .. Len(freed) + size
        /\ ~(Len(freed) + k <= Len(freed)) /\ (Len(freed) + k) - Len(freed) = k
    BY <1>2
  <2> QED
    BY <1>3, <1>4, <2>1
<1>7. \A j \in DOMAIN freed' :
        j \in DOMAIN freed \/ \E k \in 1 .. size : j = Len(freed) + k
  <2>1. ASSUME NEW j \in 1 .. Len(freed) + size, j \notin DOMAIN freed
        PROVE  \E k \in 1 .. size : j = Len(freed) + k
    <3>1. j - Len(freed) \in 1 .. size /\ j = Len(freed) + (j - Len(freed))
      BY <1>2, <2>1
    <3> QED
      BY <3>1
  <2> QED
    BY <1>4, <2>1
<1>8. TokensHandedOut'
  BY <1>1, <1>5, <1>6, <1>7 DEF OwnerInv, TokensHandedOut
<1>9. \A j, k \in DOMAIN freed' : freed'[j] = freed'[k] => j = k
  BY <1>5, <1>6, <1>7 DEF OwnerInv, EachHasOneOwner
<1>10. EachHasOneOwner'
  BY <1>1, <1>9 DEF EachHasOneOwner
<1>11. EachIsHeldOrFreed'
  <2>1. \A t \in (2 .. last_token) \ unlisted : \E j \in DOMAIN freed' : freed'[j] = t
    BY <1>5, <1>6 DEF OwnerInv, EachIsHeldOrFreed
  <2> QED
    BY <1>1, <2>1 DEF EachIsHeldOrFreed
<1> QED
  BY <1>8, <1>10, <1>11 DEF OwnerInv

LEMMA OwnerNext == TypeOK /\ OwnerInv /\ [Next]_vars => OwnerInv'
<1> SUFFICES ASSUME TypeOK, OwnerInv, [Next]_vars PROVE OwnerInv'
  OBVIOUS
<1>1. CASE AddListener
  BY <1>1, OwnerAdd
<1>2. ASSUME NEW i \in 1 .. size, RemoveListener(i) PROVE OwnerInv'
  BY <1>2, OwnerRemove
<1>3. CASE Free
  BY <1>3, OwnerFree
<1>4. CASE UNCHANGED vars \/ FireBegin \/ FireStep
  BY <1>4 DEF vars, history, FireBegin, FireStep, CallListener, CallbackReturns,
     FireEnd, OwnerInv, TokensHandedOut, EachHasOneOwner, EachIsHeldOrFreed
<1> QED
  BY <1>1, <1>2, <1>3, <1>4 DEF Next

(* The user data of a listener is released at most once, and never while   *)
(* it is registered, although removals leave stale copies behind the last  *)
(* slot; after g_event_free nothing is left, except what an add that could *)
(* not store its listener was given.                                       *)
THEOREM ReleasedOnceProved == Spec => []UserDataReleasedOnce
<1>1. TypeOK /\ OwnerInv => UserDataReleasedOnce
  <2> SUFFICES ASSUME TypeOK, OwnerInv PROVE UserDataReleasedOnce
    OBVIOUS
  <2>1. /\ freed \in Seq(Tokens) /\ Len(freed) \in Nat /\ size \in Nat
        /\ DOMAIN freed = 1 .. Len(freed)
    BY LenProperties DEF TypeOK
  <2>2. /\ Registered \in Seq(Tokens) /\ Len(Registered) = size
        /\ \A k \in 1 .. size : Registered[k] = slots[k]
    BY PrefixProperties DEF Registered, TypeOK
  <2> DEFINE all == freed \o Registered
  <2>3. /\ DOMAIN all = 1 .. Len(freed) + size
        /\ \A j \in 1 .. Len(freed) + size :
             all[j] = IF j <= Len(freed) THEN freed[j] ELSE Registered[j - Len(freed)]
    <3>1. /\ all \in Seq(Tokens) /\ Len(all) = Len(freed) + Len(Registered)
          /\ \A j \in 1 .. Len(freed) + Len(Registered) :
               all[j] = IF j <= Len(freed) THEN freed[j]
                                           ELSE Registered[j - Len(freed)]
      BY <2>1, <2>2, ConcatProperties
    <3> HIDE DEF all
    <3> QED
      BY <2>2, <3>1, LenProperties
  <2>4. \A j \in DOMAIN all :
          \/ j \in DOMAIN freed /\ all[j] = freed[j]
          \/ j - Len(freed) \in 1 .. size /\ all[j] = slots[j - Len(freed)]
    BY <2>1, <2>2, <2>3
  <2> HIDE DEF all
  <2>5. \A j, k \in DOMAIN all : all[j] = all[k] => j = k
    BY <2>1, <2>3, <2>4 DEF OwnerInv, EachHasOneOwner
  <2>6. IsInjective(freed \o Registered)
    BY <2>5 DEF all, IsInjective
  <2>7. ~alive => \A t \in (2 .. last_token) \ unlisted : Contains(freed, t)
    BY <2>1 DEF OwnerInv, EachIsHeldOrFreed, Contains
  <2> QED
    BY <2>6, <2>7 DEF UserDataReleasedOnce
<1>2. IndexInv => TypeOK
  BY DEF IndexInv
<1> QED
  BY <1>1, <1>2, IndexInit, IndexNext, OwnerInit, OwnerNext, PTL DEF Spec

-----------------------------------------------------------------------------
(* A fire skips nothing.  Of the listeners it began with, those that are   *)
(* still registered are within the captured size, whatever was removed;    *)
(* and those the innermost fire has not called are ahead of its index,     *)
(* because a removal moves the index with the slots behind it.  A fire in  *)
(* a callback of a disturbed one ends with firing_index = -1, and the      *)
(* outer fire, taken up again, has everything ahead of it.                 *)
BeganWithin(f) ==
  /\ \A t \in ToSet(f.start) : t <= last_token
  /\ \A p \in 1 .. size : slots[p] \in ToSet(f.start) => p <= f.size

YetToCome(f, i) ==
  \A p \in 1 .. size :
    slots[p] \in ToSet(f.start) \ ToSet(f.called) =>
      (f.in => i + 1 < p) /\ (~f.in => i < p)

SkipInv ==
  /\ \A k \in DOMAIN frames : BeganWithin(frames[k])
  /\ ~Idle => YetToCome(Top, firing_index)

LEMMA ToSetAppend ==
  ASSUME NEW S, NEW s \in Seq(S), NEW x \in S
  PROVE  ToSet(Append(s, x)) = ToSet(s) \cup {x}
<1>1. /\ DOMAIN Append(s, x) = 1 .. Len(s) + 1 /\ DOMAIN s = 1 .. Len(s)
      /\ \A j \in 1 .. Len(s) : Append(s, x)[j] = s[j]
      /\ Append(s, x)[Len(s) + 1] = x /\ Len(s) \in Nat
  BY AppendProperties, LenProperties
<1>2. ASSUME NEW y \in ToSet(Append(s, x)) PROVE y \in ToSet(s) \cup {x}
  BY <1>1 DEF ToSet
<1>3. ASSUME NEW y \in ToSet(s) \cup {x} PROVE y \in ToSet(Append(s, x))
  BY <1>1 DEF ToSet
<1> QED
  BY <1>2, <1>3

(* Every frame but the top one is the same after the top one changed.      *)
LEMMA TopReplaced ==
  ASSUME TypeOK, ~Idle, NEW f \in Frame, frames' = SetTop(f)
  PROVE  /\ ~Idle' /\ Top' = f
         /\ \A k \in DOMAIN frames' : frames'[k] = f \/ (frames'[k] = frames[k] /\ k \in DOMAIN frames)
<1>1. Len(frames) \in Nat \ {0} /\ DOMAIN frames = 1 .. Len(frames)
  BY TopType DEF TypeOK
<1>2. /\ frames' \in Seq(Frame) /\ Len(frames') = Len(frames) /\ frames' # <<>>
      /\ \A k \in 1 .. Len(frames) - 1 : frames'[k] = frames[k]
      /\ frames'[Len(frames)] = f
  BY SetTopType DEF TypeOK
<1>3. Top' = f
  BY <1>2 DEF Top
<1>4. DOMAIN frames' = 1 .. Len(frames)
  BY <1>2, LenProperties
<1> QED
  BY <1>1, <1>2, <1>3, <1>4 DEF Idle

LEMMA SkipInit == Init => SkipInv
BY EmptySeq DEF Init, SkipInv, Idle

LEMMA SkipAdd == TypeOK /\ SkipInv /\ AddListener => SkipInv'
<1> SUFFICES ASSUME TypeOK, SkipInv, AddListener PROVE SkipInv'
  OBVIOUS
<1>1. size \in Nat /\ last_token \in Nat /\ UNCHANGED <<frames, firing_index>>
      /\ last_token' = last_token + 1
  BY TokensAreNumbers, Added
<1>2. \A k \in DOMAIN frames : frames[k] \in Frame
  BY ElementOfSeq, LenProperties DEF TypeOK
<1>3. \A k \in DOMAIN frames : \A t \in ToSet(frames[k].start) : t \in Nat
  BY <1>2, LenProperties, ElementOfSeq DEF Frame, ToSet
<1>4. ASSUME NEW p \in 1 .. size', NEW k \in DOMAIN frames,
             slots'[p] \in ToSet(frames[k].start)
      PROVE  p \in 1 .. size /\ slots'[p] = slots[p]
  <2>1. last_token + 1 \notin ToSet(frames[k].start)
    BY <1>1, <1>3 DEF SkipInv, BeganWithin
  <2> QED
    BY <1>1, <1>4, <2>1, Added
<1>5. ASSUME NEW k \in DOMAIN frames PROVE BeganWithin(frames[k])'
  <2>1. \A t \in ToSet(frames[k].start) : t <= last_token'
    BY <1>1, <1>3 DEF SkipInv, BeganWithin
  <2> QED
    BY <1>1, <1>4, <2>1 DEF SkipInv, BeganWithin
<1>6. ASSUME ~Idle PROVE YetToCome(Top, firing_index)'
  <2>1. Len(frames) \in DOMAIN frames /\ Top' = Top
    BY <1>1, <1>6, TopType DEF TypeOK, Top
  <2>2. \A p \in 1 .. size' : slots'[p] \in ToSet(Top.start) =>
          p \in 1 .. size /\ slots'[p] = slots[p]
    BY <1>4, <2>1 DEF Top
  <2> QED
    BY <1>1, <1>6, <2>1, <2>2 DEF SkipInv, YetToCome
<1> QED
  BY <1>1, <1>5, <1>6 DEF SkipInv, Idle

LEMMA SkipRemove ==
  ASSUME IndexInv, SkipInv, NEW i \in 1 .. size, RemoveListener(i)
  PROVE  SkipInv'
<1>1. /\ TypeOK /\ size \in Nat /\ size' = size - 1
      /\ UNCHANGED <<frames, last_token>> /\ firing_index \in Int
  BY Removed, TokensAreNumbers DEF IndexInv, TypeOK
<1>2. ASSUME NEW p \in 1 .. size'
      PROVE  \E q \in 1 .. size :
               /\ slots'[p] = slots[q] /\ p <= q
               /\ p < i => q = p
               /\ p >= i => q = p + 1
  <2>1. CASE i <= p
    <3>1. p + 1 \in 1 .. size /\ slots'[p] = slots[p + 1] /\ p <= p + 1 /\ ~(p < i)
      BY <1>1, <2>1, Removed
    <3> QED
      BY <3>1
  <2>2. CASE ~(i <= p)
    <3>1. p \in 1 .. size /\ slots'[p] = slots[p] /\ p <= p /\ ~(p >= i)
      BY <1>1, <2>2, Removed
    <3> QED
      BY <3>1
  <2> QED
    BY <2>1, <2>2
<1>3. ASSUME NEW k \in DOMAIN frames PROVE BeganWithin(frames[k])'
  <2>1. frames[k].size \in Nat
    <3>1. frames[k] \in Frame
      BY <1>1, ElementOfSeq, LenProperties DEF TypeOK
    <3> QED
      BY <3>1 DEF Frame
  <2>2. \A p \in 1 .. size' : slots'[p] \in ToSet(frames[k].start) => p <= frames[k].size
    <3> SUFFICES ASSUME NEW p \in 1 .. size', slots'[p] \in ToSet(frames[k].start)
                 PROVE  p <= frames[k].size
      OBVIOUS
    <3>1. PICK q \in 1 .. size : slots'[p] = slots[q] /\ p <= q
      BY <1>2
    <3>2. q <= frames[k].size
      BY <3>1 DEF SkipInv, BeganWithin
    <3> QED
      BY <1>1, <2>1, <3>1, <3>2
  <2> QED
    BY <1>1, <2>2 DEF SkipInv, BeganWithin
<1>4. ASSUME ~Idle PROVE YetToCome(Top, firing_index)'
  <2>1. Top.in /\ Top' = Top
    BY <1>1, <1>4 DEF RemoveListener, MayCall, Top
  <2>2. ASSUME NEW p \in 1 .. size',
               slots'[p] \in ToSet(Top.start) \ ToSet(Top.called)
        PROVE  firing_index' + 1 < p
    <3>1. PICK q \in 1 .. size :
            slots'[p] = slots[q] /\ (p < i => q = p) /\ (p >= i => q = p + 1)
      BY <1>2
    <3>2. firing_index + 1 < q
      BY <1>4, <2>1, <2>2, <3>1 DEF SkipInv, YetToCome
    <3>3. firing_index' = IF i - 1 <= firing_index THEN firing_index - 1 ELSE firing_index
      BY DEF RemoveListener, IndexAfterRemoval
    <3>4. CASE p < i
      BY <1>1, <3>1, <3>2, <3>3, <3>4
    <3>5. CASE p >= i
      BY <1>1, <3>1, <3>2, <3>3, <3>5
    <3> QED
      BY <1>1, <3>4, <3>5
  <2> QED
    BY <2>1, <2>2 DEF YetToCome
<1> QED
  BY <1>1, <1>3, <1>4 DEF SkipInv, Idle

LEMMA SkipFireBegin == TypeOK /\ OwnerInv /\ SkipInv /\ FireBegin => SkipInv'
<1> SUFFICES ASSUME TypeOK, OwnerInv, SkipInv, FireBegin PROVE SkipInv'
  OBVIOUS
<1> DEFINE f == [size |-> size, in |-> FALSE, start |-> Registered, called |-> <<>>]
<1>1. /\ firing_index' = 0 /\ UNCHANGED <<slots, size, last_token>>
      /\ size \in Nat
  BY TokensAreNumbers DEF FireBegin
<1>2. Registered \in Seq(Tokens) /\ Len(Registered) = size
      /\ \A k \in 1 .. size : Registered[k] = slots[k]
  BY PrefixProperties DEF Registered, TypeOK
<1>3. f \in Frame
  <2>1. Registered \in Seq(Nat)
    <3>1. \A k \in 1 .. size : slots[k] \in Nat
      BY TokensAreNumbers
    <3> QED
      BY <1>1, <3>1, SubSeqProperties DEF Registered, TypeOK
  <2> QED
    BY <1>1, <2>1 DEF Frame
<1>4. BeganWithin(f)
  <2>1. \A t \in ToSet(Registered) : t <= last_token
    BY <1>2, LenProperties DEF ToSet, OwnerInv, TokensHandedOut
  <2> QED
    BY <1>1, <2>1 DEF BeganWithin
<1>5. YetToCome(f, 0)
  BY <1>1 DEF YetToCome
<1>6. frames' = Append(frames, f)
  BY DEF FireBegin
<1> HIDE DEF f
<1>7. /\ Len(frames') = Len(frames) + 1 /\ Len(frames) \in Nat
      /\ \A k \in 1 .. Len(frames) : frames'[k] = frames[k]
      /\ frames'[Len(frames) + 1] = f
      /\ DOMAIN frames' = 1 .. Len(frames) + 1 /\ DOMAIN frames = 1 .. Len(frames)
  BY <1>3, <1>6, AppendProperties, LenProperties DEF TypeOK
<1>8. Top' = f
  BY <1>7 DEF Top
<1>9. \A k \in DOMAIN frames' : BeganWithin(frames'[k])
  BY <1>4, <1>7 DEF SkipInv
<1>10. YetToCome(Top', firing_index')
  BY <1>1, <1>5, <1>8
<1> QED
  BY <1>1, <1>9, <1>10 DEF SkipInv, BeganWithin, YetToCome

LEMMA SkipCallListener == IndexInv /\ SkipInv /\ CallListener => SkipInv'
<1> SUFFICES ASSUME IndexInv, SkipInv, CallListener PROVE SkipInv'
  OBVIOUS
<1>1. /\ TypeOK /\ ~Idle /\ ~Top.in /\ firing_index < Top.size
      /\ UNCHANGED <<slots, size, last_token, firing_index>>
  BY DEF IndexInv, CallListener, MoreToCall
<1>2. /\ Top \in Frame /\ Len(frames) \in DOMAIN frames
      /\ firing_index >= 0 /\ firing_index \in Int /\ Top.size <= Len(slots)
      /\ size \in Nat
  <2>1. Top \in Frame /\ Len(frames) \in Nat \ {0} /\ DOMAIN frames = 1 .. Len(frames)
    BY <1>1, TopType DEF TypeOK
  <2>2. firing_index \in Int /\ size \in Nat
    BY <1>1, TokensAreNumbers DEF TypeOK
  <2>3. FiringIndexSound /\ Len(frames) \in DOMAIN frames
    BY <2>1 DEF IndexInv
  <2>4. firing_index >= 0 /\ Top.size <= Len(slots)
    BY <1>1, <2>3 DEF FiringIndexSound, Top
  <2> QED
    BY ONLY <2>1, <2>2, <2>3, <2>4
<1> DEFINE t == slots[firing_index + 1]
           f == [Top EXCEPT !.in = TRUE, !.called = Append(@, t)]
<1>3. t \in Nat
  <2>1. firing_index + 1 \in 1 .. Len(slots)
    BY <1>1, <1>2 DEF TypeOK, Frame
  <2>2. t \in Tokens
    BY <1>1, <2>1, ElementOfSeq DEF TypeOK
  <2> QED
    BY <2>2 DEF Tokens
<1>4. frames' = SetTop(f)
  BY DEF CallListener
<1> HIDE DEF t
<1>5. /\ f \in Frame /\ f.size = Top.size /\ f.in /\ f.start = Top.start
      /\ f.called = Append(Top.called, t)
  <2>1. Append(Top.called, t) \in Seq(Nat)
    BY <1>2, <1>3, AppendProperties DEF Frame
  <2> QED
    BY <1>2, <2>1 DEF Frame
<1> HIDE DEF f
<1>6. ToSet(f.called) = ToSet(Top.called) \cup {t}
  BY <1>2, <1>3, <1>5, ToSetAppend DEF Frame
<1>7. \A p \in 1 .. size :
        slots[p] \in ToSet(f.start) \ ToSet(f.called) => firing_index + 1 < p
  <2> SUFFICES ASSUME NEW p \in 1 .. size,
                      slots[p] \in ToSet(f.start) \ ToSet(f.called)
               PROVE  firing_index + 1 < p
    OBVIOUS
  <2>1. firing_index < p
    BY <1>1, <1>5, <1>6 DEF SkipInv, YetToCome
  <2>2. p # firing_index + 1
    BY <1>6 DEF t
  <2> QED
    BY <1>2, <2>1, <2>2
<1>8. YetToCome(f, firing_index)
  BY <1>5, <1>7 DEF YetToCome
<1>9. BeganWithin(f)
  BY <1>2, <1>5 DEF SkipInv, BeganWithin, Top
<1>10. /\ ~Idle' /\ Top' = f
       /\ \A k \in DOMAIN frames' : BeganWithin(frames'[k])
  BY <1>1, <1>4, <1>5, <1>9, TopReplaced DEF SkipInv
<1> QED
  BY <1>1, <1>8, <1>10 DEF SkipInv, BeganWithin, YetToCome

LEMMA SkipCallbackReturns == TypeOK /\ SkipInv /\ CallbackReturns => SkipInv'
<1> SUFFICES ASSUME TypeOK, SkipInv, CallbackReturns PROVE SkipInv'
  OBVIOUS
<1>1. /\ ~Idle /\ Top.in /\ firing_index' = firing_index + 1
      /\ UNCHANGED <<slots, size, last_token>>
  BY DEF CallbackReturns
<1>2. Top \in Frame /\ Len(frames) \in DOMAIN frames
  BY <1>1, TopType DEF TypeOK
<1> DEFINE f == [Top EXCEPT !.in = FALSE]
<1>3. /\ f \in Frame /\ f.size = Top.size /\ ~f.in /\ f.start = Top.start
      /\ f.called = Top.called
  BY <1>2 DEF Frame
<1>4. frames' = SetTop(f)
  BY DEF CallbackReturns
<1> HIDE DEF f
<1>5. YetToCome(f, firing_index + 1)
  BY <1>1, <1>3 DEF SkipInv, YetToCome
<1>6. BeganWithin(f)
  BY <1>2, <1>3 DEF SkipInv, BeganWithin, Top
<1>7. /\ ~Idle' /\ Top' = f
      /\ \A k \in DOMAIN frames' : BeganWithin(frames'[k])
  BY <1>1, <1>3, <1>4, <1>6, TopReplaced DEF SkipInv
<1> QED
  BY <1>1, <1>5, <1>7 DEF SkipInv, BeganWithin, YetToCome

LEMMA SkipFireEnd == IndexInv /\ SkipInv /\ FireEnd => SkipInv'
<1> SUFFICES ASSUME IndexInv, SkipInv, FireEnd PROVE SkipInv'
  OBVIOUS
<1>1. /\ TypeOK /\ ~Idle /\ firing_index' = -1
      /\ UNCHANGED <<slots, size, last_token>>
  BY DEF IndexInv, FireEnd
<1>2. Len(frames) \in Nat \ {0} /\ DOMAIN frames = 1 .. Len(frames)
  BY <1>1, TopType DEF TypeOK
<1>3. /\ frames' \in Seq(Frame) /\ Len(frames') = Len(frames) - 1
      /\ \A k \in 1 .. Len(frames) - 1 : frames'[k] = frames[k]
      /\ DOMAIN frames' = 1 .. Len(frames) - 1
  BY <1>1, PopType, LenProperties DEF TypeOK, FireEnd
<1>4. \A k \in DOMAIN frames' : BeganWithin(frames'[k])
  BY <1>2, <1>3 DEF SkipInv
<1>5. ASSUME ~Idle' PROVE YetToCome(Top', firing_index')
  <2>1. Top'.in
    <3>1. Len(frames') \in DOMAIN frames'
      BY <1>3, <1>5, EmptySeq DEF Idle
    <3>2. Len(frames') < Len(frames) /\ Len(frames') \in DOMAIN frames
      BY <1>2, <1>3, <3>1
    <3> QED
      BY <1>2, <1>3, <3>1, <3>2 DEF Top, IndexInv, OuterFramesInCallback
  <2>2. \A p \in 1 .. size : firing_index' + 1 < p
    BY <1>1
  <2> QED
    BY <1>1, <2>1, <2>2 DEF YetToCome
<1> QED
  BY <1>1, <1>4, <1>5 DEF SkipInv, BeganWithin, YetToCome

LEMMA SkipNext == IndexInv /\ OwnerInv /\ SkipInv /\ [Next]_vars => SkipInv'
<1> SUFFICES ASSUME IndexInv, OwnerInv, SkipInv, [Next]_vars PROVE SkipInv'
  OBVIOUS
<1>1. TypeOK
  BY DEF IndexInv
<1>2. CASE UNCHANGED vars
  BY <1>2 DEF vars, history, SkipInv, BeganWithin, YetToCome, Idle, Top
<1>3. CASE Free
  BY <1>3, EmptySeq DEF Free, SkipInv, Idle
<1>4. ASSUME NEW i \in 1 .. size, RemoveListener(i) PROVE SkipInv'
  BY <1>4, SkipRemove
<1> QED
  BY <1>1, <1>2, <1>3, <1>4, SkipAdd, SkipFireBegin, SkipCallListener,
     SkipCallbackReturns, SkipFireEnd DEF Next, FireStep

(* A fire that is about to end has called every listener that was          *)
(* registered when it began and still is, whatever its callbacks, and the  *)
(* fires inside them, added and removed.                                   *)
THEOREM NoneSkippedProved == Spec => []NoneSkipped
<1>1. IndexInv /\ SkipInv => NoneSkipped
  <2> SUFFICES ASSUME IndexInv, SkipInv, ~Idle, ~Top.in, ~MoreToCall,
                      NEW t \in ToSet(Top.start), t \in ToSet(Registered)
               PROVE  t \in ToSet(Top.called)
    BY DEF NoneSkipped
  <2>1. TypeOK /\ size \in Nat /\ firing_index \in Int
    BY TokensAreNumbers DEF IndexInv, TypeOK
  <2>2. PICK p \in 1 .. size : slots[p] = t
    <3>1. /\ Registered \in Seq(Tokens) /\ Len(Registered) = size
          /\ \A k \in 1 .. size : Registered[k] = slots[k]
      BY <2>1, PrefixProperties DEF Registered, TypeOK
    <3> QED
      BY <3>1, LenProperties DEF ToSet
  <2>3. Top \in Frame /\ Len(frames) \in DOMAIN frames
    BY <2>1, TopType DEF TypeOK
  <2>4. p <= Top.size
    BY <2>2, <2>3 DEF SkipInv, BeganWithin, Top
  <2>5. firing_index >= Top.size /\ Top.size \in Nat
    BY <2>1, <2>3 DEF MoreToCall, Frame
  <2>6. ~(firing_index < p)
    BY <2>1, <2>4, <2>5
  <2> QED
    BY <2>2, <2>6 DEF SkipInv, YetToCome
<1> QED
  BY <1>1, IndexInit, IndexNext, OwnerInit, OwnerNext, SkipInit, SkipNext, PTL
  DEF Spec, IndexInv
=============================================================================
