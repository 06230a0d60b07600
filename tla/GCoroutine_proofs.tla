------------------------- MODULE GCoroutine_proofs -------------------------
(***************************************************************************)
(* Proofs about GCoroutine, for any number of coroutines, lines to wait    *)
(* at, and permits of the semaphore.                                       *)
(***************************************************************************)
EXTENDS GCoroutine, SequenceTheorems, FiniteSetTheorems, TLAPS

-----------------------------------------------------------------------------
(* The index of the loop is the coroutine whose handler runs, and lies in  *)
(* what the loop saw when it began.                                        *)
LoopSound ==
  /\ running # 0 => loop.on /\ running = loop.i + 1 /\ loop.i < loop.size
  /\ loop.on => loop.i <= loop.size /\ loop.size <= Len(coroutines)

(* What the loop has called lies behind it, and what it owes a call has    *)
(* had it or is ahead and alive.                                           *)
RanSoFar ==
  /\ \A j, k \in DOMAIN ran : j < k => ran[j] < ran[k]
  /\ loop.on =>
       /\ \A k \in DOMAIN ran : ran[k] <= loop.i \/ ran[k] = running
       /\ running # 0 => \E k \in DOMAIN ran : ran[k] = running
       /\ \A c \in owed :
            /\ c <= loop.size
            /\ \/ \E k \in DOMAIN ran : ran[k] = c
               \/ c > loop.i /\ c # running /\ is_alive(c)

(* The permits that are not in the semaphore are with those inside.        *)
PermitsSound ==
  /\ IsFiniteSet(inside)
  /\ Cardinality(inside) <= Permits
  /\ count = Permits - Cardinality(inside)

(* Who waits in front of the semaphore has no permit.                      *)
WaitersOutside ==
  \A c \in Ids : coroutines[c].case_line = SemaphoreLine /\ c # running => c \notin inside

(* Who is not alive and was not stopped begins anew.                       *)
BeginsAnew ==
  \A c \in Ids : ~is_alive(c) /\ c \notin stopped => coroutines[c].case_line = 0

IndInv == TypeOK /\ LoopSound /\ RanSoFar /\ PermitsSound /\ WaitersOutside /\ BeginsAnew

LEMMA AppendCoroutine ==
  ASSUME coroutines \in Seq(Coroutine), NEW r \in Coroutine
  PROVE  /\ Append(coroutines, r) \in Seq(Coroutine)
         /\ Len(Append(coroutines, r)) = Len(coroutines) + 1
         /\ \A c \in Ids : Append(coroutines, r)[c] = coroutines[c]
         /\ Append(coroutines, r)[Len(coroutines) + 1] = r
BY AppendProperties DEF Ids

LEMMA CoroutineOf ==
  ASSUME coroutines \in Seq(Coroutine), NEW c \in Ids
  PROVE  /\ coroutines[c] \in Coroutine
         /\ \A s \in Status : [coroutines[c] EXCEPT !.status = s] \in Coroutine
<1>1. coroutines[c] \in Coroutine
  BY ElementOfSeq DEF Ids
<1> QED
  BY <1>1 DEF Coroutine

LEMMA ReplaceCoroutine ==
  ASSUME coroutines \in Seq(Coroutine), NEW c \in Ids, NEW r \in Coroutine
  PROVE  /\ [coroutines EXCEPT ![c] = r] \in Seq(Coroutine)
         /\ Len([coroutines EXCEPT ![c] = r]) = Len(coroutines)
         /\ \A d \in Ids : [coroutines EXCEPT ![c] = r][d] = IF d = c THEN r ELSE coroutines[d]
BY ExceptSeq DEF Ids

LEMMA NewInv == IndInv /\ New => IndInv'
<1> SUFFICES ASSUME IndInv, New PROVE IndInv'
  OBVIOUS
<1> USE CoroutineAssumption
<1> DEFINE r == [status |-> "ENDED", case_line |-> 0]
<1>1. r \in Coroutine
  BY DEF Coroutine, Status
<1>2. /\ coroutines' \in Seq(Coroutine) /\ Len(coroutines') = Len(coroutines) + 1
      /\ \A c \in Ids : coroutines'[c] = coroutines[c]
      /\ coroutines'[Len(coroutines) + 1] = r
  BY <1>1, AppendCoroutine DEF New, IndInv, TypeOK
<1>3. Len(coroutines) \in Nat
  BY LenProperties DEF IndInv, TypeOK
<1>4. Ids' = Ids \cup {Len(coroutines) + 1} /\ Ids \subseteq Ids'
  BY <1>2, <1>3 DEF Ids
<1>5. TypeOK'
  <2>1. ran \in Seq(Ids')
    BY <1>4, SeqMonotonic DEF IndInv, TypeOK
  <2> QED
    BY <1>2, <1>3, <1>4, <2>1 DEF New, semaphore, IndInv, TypeOK
<1>6. LoopSound' /\ PermitsSound'
  BY <1>2, <1>3 DEF New, semaphore, IndInv, LoopSound, PermitsSound, TypeOK, Loop
<1>7. RanSoFar'
  BY <1>2, <1>3 DEF New, semaphore, IndInv, RanSoFar, TypeOK, Ids, is_alive
<1>8. WaitersOutside' /\ BeginsAnew'
  <2>1. coroutines'[Len(coroutines) + 1].case_line = 0
    BY <1>2
  <2>2. UNCHANGED <<running, inside, stopped>>
    BY DEF New, semaphore
  <2>3. \A c \in Ids : (is_alive(c)' <=> is_alive(c)) /\ coroutines'[c].case_line = coroutines[c].case_line
    BY <1>2 DEF is_alive
  <2> QED
    BY <1>4, <2>1, <2>2, <2>3 DEF IndInv, WaitersOutside, BeginsAnew
<1> QED
  BY <1>5, <1>6, <1>7, <1>8 DEF IndInv

LEMMA StatusChange ==
  ASSUME coroutines \in Seq(Coroutine), NEW c \in Ids, NEW s \in Status
  PROVE  LET after == [coroutines EXCEPT ![c].status = s]
         IN  /\ after \in Seq(Coroutine)
             /\ Len(after) = Len(coroutines)
             /\ \A d \in Ids :
                  /\ after[d].case_line = coroutines[d].case_line
                  /\ after[d].status = IF d = c THEN s ELSE coroutines[d].status
<1> DEFINE r == [coroutines[c] EXCEPT !.status = s]
<1>1. coroutines[c] \in Coroutine
  BY CoroutineOf
<1>2. r \in Coroutine /\ r.status = s /\ r.case_line = coroutines[c].case_line
  BY <1>1 DEF Coroutine
<1>3. [coroutines EXCEPT ![c].status = s] = [coroutines EXCEPT ![c] = r]
  OBVIOUS
<1> QED
  BY <1>2, <1>3, ReplaceCoroutine

LEMMA StartInv == ASSUME NEW c \in Ids PROVE IndInv /\ Start(c) => IndInv'
<1> SUFFICES ASSUME IndInv, Start(c) PROVE IndInv'
  OBVIOUS
<1>1. /\ coroutines' \in Seq(Coroutine) /\ Len(coroutines') = Len(coroutines)
      /\ \A d \in Ids :
           /\ coroutines'[d].case_line = coroutines[d].case_line
           /\ coroutines'[d].status = IF d = c THEN "WAITING" ELSE coroutines[d].status
  BY StatusChange DEF Start, IndInv, TypeOK, Status
<1>2. Ids' = Ids
  BY <1>1 DEF Ids
<1>3. UNCHANGED <<loop, running, freed, count, at_wait, inside, ran, owed>>
  BY DEF Start, semaphore
<1>4. stopped' = stopped \ {c}
  BY DEF Start
<1>5. /\ \A d \in Ids : is_alive(d)' <=> d = c \/ is_alive(d)
  BY <1>1 DEF is_alive
<1>6. TypeOK'
  BY <1>1, <1>2, <1>3, <1>4 DEF IndInv, TypeOK
<1>7. LoopSound' /\ PermitsSound'
  BY <1>1, <1>3 DEF IndInv, LoopSound, PermitsSound
<1>8. RanSoFar'
  BY <1>3, <1>5 DEF IndInv, RanSoFar, TypeOK
<1>9. WaitersOutside' /\ BeginsAnew'
  BY <1>1, <1>2, <1>3, <1>4, <1>5 DEF IndInv, WaitersOutside, BeginsAnew
<1> QED
  BY <1>6, <1>7, <1>8, <1>9 DEF IndInv

LEMMA StopInv == ASSUME NEW c \in Ids PROVE IndInv /\ Stop(c) => IndInv'
<1> SUFFICES ASSUME IndInv, Stop(c) PROVE IndInv'
  OBVIOUS
<1>1. /\ coroutines' \in Seq(Coroutine) /\ Len(coroutines') = Len(coroutines)
      /\ \A d \in Ids :
           /\ coroutines'[d].case_line = coroutines[d].case_line
           /\ coroutines'[d].status = IF d = c THEN "EXITED" ELSE coroutines[d].status
  BY StatusChange DEF Stop, IndInv, TypeOK, Status
<1>2. Ids' = Ids
  BY <1>1 DEF Ids
<1>3. UNCHANGED <<loop, running, freed, count, at_wait, inside, ran>>
  BY DEF Stop, semaphore
<1>4. stopped' = stopped \cup {c} /\ owed' = owed \ {c}
  BY DEF Stop
<1>5. /\ \A d \in Ids : is_alive(d)' <=> d # c /\ is_alive(d)
  BY <1>1 DEF is_alive
<1>6. TypeOK'
  BY <1>1, <1>2, <1>3, <1>4 DEF IndInv, TypeOK
<1>7. LoopSound' /\ PermitsSound'
  BY <1>1, <1>3 DEF IndInv, LoopSound, PermitsSound
<1>8. RanSoFar'
  BY <1>3, <1>4, <1>5 DEF IndInv, RanSoFar, TypeOK
<1>9. WaitersOutside' /\ BeginsAnew'
  BY <1>1, <1>2, <1>3, <1>4, <1>5 DEF IndInv, WaitersOutside, BeginsAnew
<1> QED
  BY <1>6, <1>7, <1>8, <1>9 DEF IndInv
LEMMA LoopBeginInv == IndInv /\ LoopBegin => IndInv'
<1> SUFFICES ASSUME IndInv, LoopBegin PROVE IndInv'
  OBVIOUS
<1>1. UNCHANGED <<coroutines, running, freed, count, at_wait, inside, stopped>>
  BY DEF LoopBegin, semaphore
<1>2. loop' = [on |-> TRUE, i |-> 0, size |-> Len(coroutines)] /\ ran' = <<>> /\ owed' = Alive
  BY DEF LoopBegin
<1>3. Len(coroutines) \in Nat /\ running = 0
  BY LenProperties DEF LoopBegin, IndInv, TypeOK, LoopSound
<1>4. Ids' = Ids
  BY <1>1 DEF Ids
<1>5. TypeOK'
  <2>1. ran' \in Seq(Ids)
    BY <1>2, EmptySeq
  <2>2. loop' \in Loop
    BY <1>2, <1>3 DEF Loop
  <2> QED
    BY <1>1, <1>2, <1>4, <2>1, <2>2 DEF IndInv, TypeOK, Alive
<1>6. LoopSound' /\ PermitsSound'
  BY <1>1, <1>2, <1>3 DEF IndInv, LoopSound, PermitsSound
<1>7. RanSoFar'
  <2>1. DOMAIN ran' = {}
    BY <1>2
  <2>2. \A c \in owed' : c \in Nat /\ c > 0 /\ c <= Len(coroutines) /\ is_alive(c)'
    BY <1>1, <1>2, <1>3 DEF Alive, Ids, is_alive
  <2> QED
    BY <1>1, <1>2, <1>3, <2>1, <2>2 DEF RanSoFar
<1>8. WaitersOutside' /\ BeginsAnew'
  BY <1>1, <1>4 DEF IndInv, WaitersOutside, BeginsAnew, is_alive
<1> QED
  BY <1>5, <1>6, <1>7, <1>8 DEF IndInv

LEMMA ResumeInv == IndInv /\ Resume => IndInv'
<1> SUFFICES ASSUME IndInv, Resume PROVE IndInv'
  OBVIOUS
<1> DEFINE c == loop.i + 1
<1>1. UNCHANGED <<coroutines, loop, freed, count, inside, stopped, owed>>
  BY DEF Resume
<1>2. loop.on /\ running = 0 /\ running' = c /\ ran' = Append(ran, c)
  BY DEF Resume
<1>3. loop \in Loop /\ loop.i \in Nat /\ loop.size \in Nat /\ Len(coroutines) \in Nat
  BY LenProperties DEF IndInv, TypeOK, Loop
<1>4. c \in Ids /\ loop.i < loop.size /\ is_alive(c) /\ Ids' = Ids
  BY <1>1, <1>2, <1>3 DEF Resume, MoreToRun, IndInv, LoopSound, Ids
<1>5. /\ ran' \in Seq(Ids) /\ DOMAIN ran' = DOMAIN ran \cup {Len(ran) + 1}
      /\ Len(ran) \in Nat /\ DOMAIN ran = 1 .. Len(ran)
      /\ \A k \in DOMAIN ran : ran'[k] = ran[k]
      /\ ran'[Len(ran) + 1] = c
  BY <1>2, <1>4, AppendProperties, LenProperties DEF IndInv, TypeOK
<1>6. TypeOK'
  <2>1. at_wait' \in BOOLEAN
    BY DEF Resume
  <2> QED
    BY <1>1, <1>2, <1>3, <1>4, <1>5, <2>1 DEF IndInv, TypeOK, Ids
<1>7. LoopSound' /\ PermitsSound'
  BY <1>1, <1>2, <1>3, <1>4 DEF IndInv, LoopSound, PermitsSound
<1>8. RanSoFar'
  <2>1. \A k \in DOMAIN ran : ran[k] \in Nat /\ 1 <= ran[k] /\ ran[k] <= loop.i
    BY <1>2, <1>3, ElementOfSeq DEF IndInv, TypeOK, RanSoFar, Ids
  <2>2. \A j, k \in DOMAIN ran' : j < k => ran'[j] < ran'[k]
    BY <1>3, <1>5, <2>1 DEF IndInv, RanSoFar
  <2>3. \A k \in DOMAIN ran' : ran'[k] <= loop.i \/ ran'[k] = c
    BY <1>5, <2>1
  <2>4. \A d \in owed : \/ \E k \in DOMAIN ran' : ran'[k] = d
                        \/ d > loop.i /\ d # c /\ is_alive(d)
    BY <1>2, <1>5 DEF IndInv, RanSoFar
  <2> QED
    BY <1>1, <1>2, <1>5, <2>2, <2>3, <2>4 DEF IndInv, RanSoFar, is_alive
<1>9. WaitersOutside' /\ BeginsAnew'
  BY <1>1, <1>2, <1>4, <1>3 DEF IndInv, WaitersOutside, BeginsAnew, is_alive, Ids
<1> QED
  BY <1>6, <1>7, <1>8, <1>9 DEF IndInv

LEMMA SkipInv == IndInv /\ Skip => IndInv'
<1> SUFFICES ASSUME IndInv, Skip PROVE IndInv'
  OBVIOUS
<1>1. UNCHANGED <<coroutines, running, freed, count, at_wait, inside, stopped, ran, owed>>
  BY DEF Skip, semaphore
<1>2. /\ loop \in Loop /\ loop.i \in Nat /\ loop.size \in Nat /\ Len(coroutines) \in Nat
      /\ loop.on /\ running = 0 /\ loop.i < loop.size /\ ~is_alive(loop.i + 1)
  BY LenProperties DEF Skip, MoreToRun, IndInv, TypeOK, Loop
<1>3. loop' \in Loop /\ loop'.i = loop.i + 1 /\ loop'.size = loop.size /\ loop'.on
  BY <1>2 DEF Skip, Loop
<1>4. TypeOK'
  BY <1>1, <1>3 DEF IndInv, TypeOK, Ids
<1>5. LoopSound' /\ PermitsSound'
  BY <1>1, <1>2, <1>3 DEF IndInv, LoopSound, PermitsSound
<1>6. RanSoFar'
  <2>1. \A k \in DOMAIN ran : ran[k] \in Nat /\ 1 <= ran[k] /\ ran[k] <= loop.i
    BY <1>2, ElementOfSeq, LenProperties DEF IndInv, TypeOK, RanSoFar, Ids
  <2>2. \A c \in owed : c \in Nat
    BY DEF IndInv, TypeOK, Ids
  <2> QED
    BY <1>1, <1>2, <1>3, <2>1, <2>2 DEF IndInv, RanSoFar, is_alive
<1>7. WaitersOutside' /\ BeginsAnew'
  BY <1>1 DEF IndInv, WaitersOutside, BeginsAnew, is_alive, Ids
<1> QED
  BY <1>4, <1>5, <1>6, <1>7 DEF IndInv

LEMMA HandlerReturnsInv ==
  ASSUME NEW status \in Status, NEW line \in Lines \cup {0, SemaphoreLine},
         status \in {"EXITED", "ENDED"} => line = 0,
         line = SemaphoreLine => running \notin inside
  PROVE  IndInv /\ HandlerReturns(status, line) => IndInv'
<1> SUFFICES ASSUME IndInv, HandlerReturns(status, line) PROVE IndInv'
  OBVIOUS
<1> DEFINE r == [status |-> status, case_line |-> line]
<1>1. UNCHANGED <<freed, count, inside, stopped, ran, owed>> /\ running' = 0 /\ at_wait' = FALSE
  BY DEF HandlerReturns
<1>2. /\ loop \in Loop /\ loop.i \in Nat /\ loop.size \in Nat /\ Len(coroutines) \in Nat
      /\ loop.on /\ running = loop.i + 1 /\ loop.i < loop.size /\ running \in Ids
  BY LenProperties DEF HandlerReturns, IndInv, TypeOK, LoopSound, Loop, Ids
<1>3. loop' \in Loop /\ loop'.i = loop.i + 1 /\ loop'.size = loop.size /\ loop'.on
  BY <1>2 DEF HandlerReturns, Loop
<1>4. /\ coroutines' \in Seq(Coroutine) /\ Len(coroutines') = Len(coroutines)
      /\ \A d \in Ids : coroutines'[d] = IF d = running THEN r ELSE coroutines[d]
  <2>1. r \in Coroutine
    BY DEF Coroutine
  <2> QED
    BY <1>2, <2>1, ReplaceCoroutine DEF HandlerReturns, IndInv, TypeOK
<1>5. Ids' = Ids
  BY <1>4 DEF Ids
<1>6. TypeOK'
  <2>1. at_wait' \in BOOLEAN
    BY <1>1
  <2>2. UNCHANGED <<freed, count, stopped, ran, owed>> /\ running' = 0
    BY <1>1
  <2> QED
    BY <1>2, <1>3, <1>4, <1>5, <2>1, <2>2 DEF IndInv, TypeOK
<1>7. LoopSound' /\ PermitsSound'
  BY <1>1, <1>2, <1>3, <1>4 DEF IndInv, LoopSound, PermitsSound
<1>8. \A d \in Ids : d # running => coroutines'[d] = coroutines[d] /\ (is_alive(d)' <=> is_alive(d))
  BY <1>4 DEF is_alive
<1>9. RanSoFar'
  <2>1. \A k \in DOMAIN ran : ran[k] \in Nat /\ 1 <= ran[k] /\ ran[k] <= loop.i + 1
    <3>1. \A k \in DOMAIN ran : ran[k] \in Ids
      BY ElementOfSeq, LenProperties DEF IndInv, TypeOK
    <3>2. \A k \in DOMAIN ran : ran[k] <= loop.i \/ ran[k] = running
      BY <1>2 DEF IndInv, RanSoFar
    <3> QED
      BY <1>2, <3>1, <3>2 DEF Ids
  <2>2. \A d \in owed : d \in Ids /\ d \in Nat /\ d <= loop.size
    BY <1>2 DEF IndInv, TypeOK, RanSoFar, Ids
  <2>3. \A d \in owed : \/ \E k \in DOMAIN ran : ran[k] = d
                        \/ d > loop.i + 1 /\ is_alive(d)'
    BY <1>2, <1>8, <2>2 DEF IndInv, RanSoFar
  <2> QED
    BY <1>1, <1>2, <1>3, <2>1, <2>2, <2>3 DEF IndInv, RanSoFar, Ids
<1>10. WaitersOutside'
  BY <1>1, <1>4, <1>5, <1>8 DEF IndInv, WaitersOutside
<1>11. BeginsAnew'
  BY <1>1, <1>4, <1>5, <1>8 DEF IndInv, BeginsAnew, is_alive, Status
<1> QED
  BY <1>6, <1>7, <1>9, <1>10, <1>11 DEF IndInv
LEMMA ReturnsInv == IndInv /\ Returns => IndInv'
<1> SUFFICES ASSUME IndInv, Returns PROVE IndInv'
  OBVIOUS
<1>1. /\ SemaphoreLine \notin Lines /\ SemaphoreLine # 0
      /\ {"WAITING", "YIELDED", "EXITED", "ENDED"} = Status
  BY CoroutineAssumption DEF Status
<1>2. ASSUME NEW line \in Lines, Waits(line) \/ Yields(line) PROVE IndInv'
  BY <1>1, <1>2, HandlerReturnsInv DEF Waits, Yields
<1>3. CASE Restarts \/ Exits \/ Ends
  BY <1>1, <1>3, HandlerReturnsInv DEF Restarts, Exits, Ends
<1> QED
  BY <1>2, <1>3 DEF Returns

LEMMA PassesInv == IndInv /\ loop.on /\ running # 0 /\ running \notin inside /\ Passes(count > 0) => IndInv'
<1> SUFFICES ASSUME IndInv, running # 0, running \notin inside, Passes(count > 0) PROVE IndInv'
  OBVIOUS
<1>1. UNCHANGED <<coroutines, loop, running, freed, stopped, ran, owed>>
  BY DEF Passes
<1>2. count > 0 /\ count' = count - 1 /\ at_wait' = FALSE /\ inside' = inside \cup {running}
  BY DEF Passes
<1>3. /\ Permits \in Nat /\ count \in 0 .. Permits /\ IsFiniteSet(inside)
      /\ Cardinality(inside) \in Nat /\ count = Permits - Cardinality(inside)
  BY CoroutineAssumption, FS_CardinalityType DEF IndInv, TypeOK, PermitsSound
<1>4. PermitsSound'
  <2>1. IsFiniteSet(inside') /\ Cardinality(inside') = Cardinality(inside) + 1
    BY <1>2, <1>3, FS_AddElement
  <2> QED
    BY <1>2, <1>3, <2>1 DEF PermitsSound
<1>5. TypeOK'
  <2>1. count' \in 0 .. Permits
    BY <1>2, <1>3
  <2>2. at_wait' \in BOOLEAN
    BY <1>2
  <2> QED
    BY <1>1, <2>1, <2>2 DEF IndInv, TypeOK, Ids
<1>6. LoopSound' /\ RanSoFar' /\ BeginsAnew'
  BY <1>1 DEF IndInv, LoopSound, RanSoFar, BeginsAnew, is_alive, Ids
<1>7. WaitersOutside'
  BY <1>1, <1>2 DEF IndInv, WaitersOutside, Ids
<1> QED
  BY <1>4, <1>5, <1>6, <1>7 DEF IndInv

LEMMA SemaphoreWaitInv == IndInv /\ SemaphoreWait => IndInv'
<1> SUFFICES ASSUME IndInv, SemaphoreWait PROVE IndInv'
  OBVIOUS
<1>1. CASE Passes(count > 0)
  BY <1>1, PassesInv DEF SemaphoreWait
<1>2. CASE HandlerReturns("WAITING", SemaphoreLine)
  BY <1>2, HandlerReturnsInv DEF SemaphoreWait, Status
<1> QED
  BY <1>1, <1>2 DEF SemaphoreWait

LEMMA SemaphoreSignalInv == IndInv /\ SemaphoreSignal => IndInv'
<1> SUFFICES ASSUME IndInv, SemaphoreSignal PROVE IndInv'
  OBVIOUS
<1>1. UNCHANGED <<coroutines, loop, running, freed, at_wait, stopped, ran, owed>>
  BY DEF SemaphoreSignal
<1>2. running \in inside /\ count' = count + 1 /\ inside' = inside \ {running}
  BY DEF SemaphoreSignal
<1>3. /\ Permits \in Nat /\ count \in 0 .. Permits /\ IsFiniteSet(inside)
      /\ Cardinality(inside) \in Nat /\ count = Permits - Cardinality(inside)
  BY CoroutineAssumption, FS_CardinalityType DEF IndInv, TypeOK, PermitsSound
<1>4. /\ IsFiniteSet(inside') /\ Cardinality(inside') = Cardinality(inside) - 1
      /\ Cardinality(inside') \in Nat
  <2>1. IsFiniteSet(inside') /\ Cardinality(inside') = Cardinality(inside) - 1
    BY <1>2, <1>3, FS_RemoveElement
  <2> QED
    BY <2>1, FS_CardinalityType
<1>5. PermitsSound'
  BY <1>2, <1>3, <1>4 DEF PermitsSound
<1>6. TypeOK'
  <2>1. count' \in 0 .. Permits
    BY <1>2, <1>3, <1>4
  <2> QED
    BY <1>1, <2>1 DEF IndInv, TypeOK, Ids
<1>7. LoopSound' /\ RanSoFar' /\ BeginsAnew'
  BY <1>1 DEF IndInv, LoopSound, RanSoFar, BeginsAnew, is_alive, Ids
<1>8. WaitersOutside'
  BY <1>1, <1>2 DEF IndInv, WaitersOutside, Ids
<1> QED
  BY <1>5, <1>6, <1>7, <1>8 DEF IndInv

LEMMA LoopEndInv == IndInv /\ LoopEnd => IndInv'
<1> SUFFICES ASSUME IndInv, LoopEnd PROVE IndInv'
  OBVIOUS
<1>1. UNCHANGED <<coroutines, running, freed, count, at_wait, inside, stopped, ran, owed>>
  BY DEF LoopEnd, semaphore
<1>2. running = 0 /\ ~loop'.on /\ loop' \in Loop
  BY DEF LoopEnd, NoLoop, Loop
<1>3. TypeOK'
  BY <1>1, <1>2 DEF IndInv, TypeOK, Ids
<1>4. LoopSound' /\ RanSoFar' /\ PermitsSound'
  BY <1>1, <1>2 DEF IndInv, LoopSound, RanSoFar, PermitsSound
<1>5. WaitersOutside' /\ BeginsAnew'
  BY <1>1 DEF IndInv, WaitersOutside, BeginsAnew, is_alive, Ids
<1> QED
  BY <1>3, <1>4, <1>5 DEF IndInv

LEMMA ContextFreeInv == IndInv /\ ContextFree => IndInv'
<1> SUFFICES ASSUME IndInv, ContextFree PROVE IndInv'
  OBVIOUS
<1>1. UNCHANGED <<loop, running, count, at_wait, inside>>
  BY DEF ContextFree, semaphore
<1>2. /\ ~loop.on /\ running = 0 /\ freed' = TRUE /\ coroutines' = <<>>
      /\ stopped' = {} /\ ran' = <<>> /\ owed' = {}
  BY DEF ContextFree, IndInv, LoopSound
<1>3. Ids' = {} /\ Len(coroutines') = 0 /\ coroutines' \in Seq(Coroutine)
  BY <1>2, EmptySeq DEF Ids
<1>4. TypeOK'
  <2>1. ran' \in Seq(Ids')
    BY <1>2, EmptySeq
  <2> QED
    BY <1>1, <1>2, <1>3, <2>1 DEF IndInv, TypeOK
<1>5. LoopSound' /\ RanSoFar' /\ PermitsSound'
  BY <1>1, <1>2 DEF IndInv, LoopSound, RanSoFar, PermitsSound
<1>6. WaitersOutside' /\ BeginsAnew'
  BY <1>3 DEF WaitersOutside, BeginsAnew
<1> QED
  BY <1>4, <1>5, <1>6 DEF IndInv

LEMMA InitInv == Init => IndInv
<1> SUFFICES ASSUME Init PROVE IndInv
  OBVIOUS
<1>1. Ids = {} /\ Len(coroutines) = 0 /\ coroutines \in Seq(Coroutine) /\ ran \in Seq(Ids)
  BY EmptySeq DEF Init, Ids
<1>2. TypeOK
  <2>1. loop \in Loop /\ running \in Nat /\ running <= Len(coroutines)
    BY <1>1 DEF Init, NoLoop, Loop
  <2>2. count \in 0 .. Permits /\ stopped \subseteq Ids /\ owed \subseteq Ids
    BY CoroutineAssumption DEF Init
  <2>3. freed \in BOOLEAN /\ at_wait \in BOOLEAN
    BY DEF Init
  <2> QED
    BY <1>1, <2>1, <2>2, <2>3 DEF TypeOK
<1>3. LoopSound /\ RanSoFar
  BY DEF Init, LoopSound, RanSoFar, NoLoop
<1>4. PermitsSound
  BY FS_EmptySet, CoroutineAssumption DEF Init, PermitsSound
<1>5. WaitersOutside /\ BeginsAnew
  BY <1>1 DEF WaitersOutside, BeginsAnew
<1> QED
  BY <1>2, <1>3, <1>4, <1>5 DEF IndInv

LEMMA StepInv == IndInv /\ [Next]_vars => IndInv'
<1> SUFFICES ASSUME IndInv, [Next]_vars PROVE IndInv'
  OBVIOUS
<1>1. ASSUME NEW c \in Ids, Start(c) \/ Stop(c) PROVE IndInv'
  BY <1>1, StartInv, StopInv
<1>2. CASE New \/ LoopBegin \/ Resume \/ Skip \/ LoopEnd \/ ContextFree
  BY <1>2, NewInv, LoopBeginInv, ResumeInv, SkipInv, LoopEndInv, ContextFreeInv
<1>3. CASE Returns \/ SemaphoreWait \/ SemaphoreSignal
  BY <1>3, ReturnsInv, SemaphoreWaitInv, SemaphoreSignalInv
<1>4. CASE UNCHANGED vars
  BY <1>4 DEF vars, semaphore, IndInv, TypeOK, LoopSound, RanSoFar, PermitsSound,
              WaitersOutside, BeginsAnew, Ids, is_alive
<1> QED
  BY <1>1, <1>2, <1>3, <1>4 DEF Next

LEMMA Inductive == Spec => []IndInv
<1> QED
  BY InitInv, StepInv, PTL DEF Spec

-----------------------------------------------------------------------------
(* The loop and the running handler refer to coroutines the context has,   *)
(* and the semaphore's count never leaves 0 .. Permits: the unsigned count *)
(* of co_semaphore_wait does not wrap.                                     *)
THEOREM TypeCorrect == Spec => []TypeOK
<1>1. IndInv => TypeOK
  BY DEF IndInv
<1> QED
  BY <1>1, Inductive, PTL

(* A loop calls each coroutine at most once, in the order of creation, and *)
(* each that was alive when it began unless it was stopped.                *)
THEOREM CallsEachOnce == Spec => []EachOncePerLoop
<1>1. IndInv => EachOncePerLoop
  <2> SUFFICES ASSUME IndInv PROVE EachOncePerLoop
    OBVIOUS
  <2>1. /\ loop.on => loop.i \in Nat /\ loop.size \in Nat
        /\ \A c \in owed : c \in Nat
        /\ \A k \in DOMAIN ran : ran[k] \in Nat
    BY ElementOfSeq, LenProperties DEF IndInv, TypeOK, Loop, Ids
  <2>2. loop.on => \A k \in DOMAIN ran : ran[k] <= loop.size
    BY <2>1 DEF IndInv, LoopSound, RanSoFar
  <2>3. loop.on /\ running = 0 /\ ~MoreToRun =>
          \A c \in owed : \E k \in DOMAIN ran : ran[k] = c
    BY <2>1 DEF IndInv, LoopSound, RanSoFar, MoreToRun
  <2> QED
    BY <2>2, <2>3 DEF EachOncePerLoop, IndInv, RanSoFar
<1> QED
  BY <1>1, Inductive, PTL

(* Only a stopped coroutine resumes in the middle, and no more of those    *)
(* that share a semaphore are behind it than it has permits, however they  *)
(* are stopped and started meanwhile.                                      *)
THEOREM ResumesRightly == Spec => []ResumePoint
<1>1. IndInv => ResumePoint
  BY DEF IndInv, ResumePoint, BeginsAnew, WaitersOutside, PermitsSound
<1> QED
  BY <1>1, Inductive, PTL

(* A coroutine that was stopped is not called until it is started again,   *)
(* in programs where no handler stops its own coroutine.                   *)
THEOREM StopsForGood ==
  ASSUME ~SelfStop
  PROVE  Spec => []StopIsObeyed
<1>1. Init => StopIsObeyed
  BY DEF Init, StopIsObeyed
<1>2. IndInv /\ StopIsObeyed /\ [Next]_vars => StopIsObeyed'
  <2> SUFFICES ASSUME IndInv, StopIsObeyed, [Next]_vars PROVE StopIsObeyed'
    OBVIOUS
  <2>1. stopped \subseteq Ids /\ Len(coroutines) \in Nat /\ coroutines \in Seq(Coroutine)
    BY LenProperties DEF IndInv, TypeOK
  <2>2. CASE New
    <3>1. \A c \in Ids : coroutines'[c] = coroutines[c]
      BY <2>1, <2>2, AppendProperties DEF New, Ids, Coroutine, Status
    <3> QED
      BY <2>1, <2>2, <3>1 DEF New, StopIsObeyed, Alive, is_alive
  <2>3. ASSUME NEW c \in Ids, Start(c) PROVE StopIsObeyed'
    <3>1. \A d \in Ids \ {c} : coroutines'[d] = coroutines[d]
      BY <2>3, <2>1 DEF Start, Ids
    <3> QED
      BY <2>1, <2>3, <3>1 DEF Start, StopIsObeyed, Alive, is_alive
  <2>4. ASSUME NEW c \in Ids, Stop(c) PROVE StopIsObeyed'
    <3>1. \A d \in Ids \ {c} : coroutines'[d] = coroutines[d]
      BY <2>4, <2>1 DEF Stop, Ids
    <3>2. ~is_alive(c)'
      <4>1. coroutines'[c].status = "EXITED"
        <5>1. \A d \in Ids : coroutines'[d].status = IF d = c THEN "EXITED" ELSE coroutines[d].status
          BY <2>1, <2>4, StatusChange DEF Stop, Status
        <5> QED
          BY <5>1
      <4> QED
        BY <4>1 DEF is_alive
    <3> QED
      BY <2>1, <2>4, <3>1, <3>2 DEF Stop, StopIsObeyed, Alive, is_alive
  <2>5. CASE LoopBegin \/ Skip \/ LoopEnd
    BY <2>5 DEF LoopBegin, Skip, LoopEnd, StopIsObeyed, Alive, is_alive, Ids
  <2>6. CASE Resume
    BY <2>1, <2>6 DEF Resume, StopIsObeyed, Alive, is_alive, Ids
  <2>7. ASSUME NEW status, NEW line, HandlerReturns(status, line) PROVE StopIsObeyed'
    <3>1. \A d \in Ids \ {running} : coroutines'[d] = coroutines[d]
      BY <2>7, <2>1 DEF HandlerReturns, Ids
    <3> QED
      BY <2>1, <2>7, <3>1 DEF HandlerReturns, StopIsObeyed, Alive, is_alive, Ids
  <2>8. ASSUME NEW condition, Passes(condition) PROVE StopIsObeyed'
    BY <2>8 DEF Passes, StopIsObeyed, Alive, is_alive, Ids
  <2>9. CASE SemaphoreSignal
    BY <2>9 DEF SemaphoreSignal, StopIsObeyed, Alive, is_alive, Ids
  <2>10. CASE ContextFree
    BY <2>10 DEF ContextFree, StopIsObeyed
  <2>11. CASE UNCHANGED vars
    BY <2>11 DEF vars, StopIsObeyed, Alive, is_alive, Ids
  <2> QED
    BY <2>2, <2>3, <2>4, <2>5, <2>6, <2>7, <2>8, <2>9, <2>10, <2>11
       DEF Next, Returns, Waits, Yields, Restarts, Exits, Ends, SemaphoreWait
<1> QED
  BY <1>1, <1>2, Inductive, PTL DEF Spec
=============================================================================
