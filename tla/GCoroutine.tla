----------------------------- MODULE GCoroutine -----------------------------
(***************************************************************************)
(* The coroutine context of src/src/gcoroutine.c and the protothread       *)
(* macros of src/inc/gcoroutine.h.  A coroutine is a handler function that *)
(* g_coroutine_context_loop calls again and again; it remembers the line   *)
(* to resume at in _case_line and says by its result whether it waits,     *)
(* yields, exits or ends.  A handler, and the program between two loops,   *)
(* may create, stop and start coroutines.                                  *)
(*                                                                         *)
(* What a handler waits for is its own business: here it may return in     *)
(* every way the macros allow, at any line; or it waits for the semaphore  *)
(* that all of them share, and signals it before it waits for it again.    *)
(***************************************************************************)
EXTENDS Naturals, Sequences, FiniteSets

CONSTANTS
  MaxCoroutines,   \* bound: coroutines created in one behaviour
  Lines,           \* the lines handlers wait at (none is 0)
  SemaphoreLine,   \* the line of a co_semaphore_wait
  Permits,         \* the count the semaphore is created with
  SelfStop         \* may a handler call g_coroutine_stop on its own coroutine?

ASSUME CoroutineAssumption ==
  /\ MaxCoroutines \in Nat
  /\ Lines \subseteq Nat \ {0}
  /\ SemaphoreLine \in Nat \ {0} /\ SemaphoreLine \notin Lines
  /\ Permits \in Nat
  /\ SelfStop \in BOOLEAN

VARIABLES
  coroutines,   \* context->coroutines
  loop,         \* the g_coroutine_context_loop in progress
  running,      \* the coroutine whose handler is being called, 0 if none
  freed,        \* g_coroutine_context_free was called
  count,        \* the semaphore's
  at_wait,      \* the running handler was resumed at its co_semaphore_wait
  inside,       \* history: coroutines that passed it and have not signalled
  stopped,      \* history: coroutines stopped and not started since
  ran,          \* history: coroutines called in this loop, in order
  owed          \* history: those alive when it began and not stopped since

semaphore == <<count, at_wait, inside>>
vars == <<coroutines, loop, running, freed, semaphore, stopped, ran, owed>>

Status == {"WAITING", "YIELDED", "EXITED", "ENDED"}
Coroutine == [status: Status, case_line: Lines \cup {0, SemaphoreLine}]
Ids == 1 .. Len(coroutines)

(* on: whether a loop is in progress; size: captured when it began;        *)
(* i: the index it has reached.                                            *)
Loop == [on: BOOLEAN, i: Nat, size: Nat]
NoLoop == [on |-> FALSE, i |-> 0, size |-> 0]

is_alive(c) == coroutines[c].status \in {"WAITING", "YIELDED"}
Alive == {c \in Ids : is_alive(c)}
alive_count == Cardinality(Alive)

Init ==
  /\ coroutines = <<>>
  /\ loop = NoLoop
  /\ running = 0
  /\ freed = FALSE
  /\ count = Permits /\ at_wait = FALSE /\ inside = {}
  /\ stopped = {} /\ ran = <<>> /\ owed = {}

-----------------------------------------------------------------------------
(* Calls made by the running handler, or by the program between two loops. *)
MayCall == ~freed /\ (loop.on => running # 0 /\ ~at_wait)

(* g_coroutine_new_with: appended, and not alive until started.            *)
New ==
  /\ MayCall
  /\ Len(coroutines) < MaxCoroutines
  /\ coroutines' = Append(coroutines, [status |-> "ENDED", case_line |-> 0])
  /\ UNCHANGED <<loop, running, freed, semaphore, stopped, ran, owed>>

(* g_coroutine_start keeps the line, so a stopped coroutine goes on where  *)
(* it was; it does nothing to one that is alive.                           *)
Start(c) ==
  /\ MayCall
  /\ c \in Ids /\ ~is_alive(c)
  /\ coroutines' = [coroutines EXCEPT ![c].status = "WAITING"]
  /\ stopped' = stopped \ {c}
  /\ UNCHANGED <<loop, running, freed, semaphore, ran, owed>>

Stop_KeepsStatus(c) ==
  /\ MayCall
  /\ c \in Ids /\ is_alive(c)
  /\ c = running => SelfStop
  /\ stopped' = stopped \cup {c}
  /\ owed' = owed \ {c}
  /\ UNCHANGED <<coroutines, loop, running, freed, semaphore, ran>>

Stop(c) ==
  /\ MayCall
  /\ c \in Ids /\ is_alive(c)
  /\ c = running => SelfStop
  /\ coroutines' = [coroutines EXCEPT ![c].status = "EXITED"]
  /\ stopped' = stopped \cup {c}
  /\ owed' = owed \ {c}
  /\ UNCHANGED <<loop, running, freed, semaphore, ran>>

(* g_coroutine_context_loop: called while something is alive.              *)
LoopBegin ==
  /\ ~freed /\ ~loop.on
  /\ alive_count > 0
  /\ loop' = [on |-> TRUE, i |-> 0, size |-> Len(coroutines)]
  /\ ran' = <<>>
  /\ owed' = Alive
  /\ UNCHANGED <<coroutines, running, freed, semaphore, stopped>>

MoreToRun_Current == loop.i < Len(coroutines)
MoreToRun_ButLast == loop.i + 1 < loop.size
MoreToRun == loop.i < loop.size

(* The loop calls the handler of a coroutine that is alive when its turn   *)
(* comes, and passes over the others.                                      *)
Resume ==
  /\ loop.on /\ running = 0
  /\ MoreToRun
  /\ is_alive(loop.i + 1)
  /\ running' = loop.i + 1
  /\ ran' = Append(ran, loop.i + 1)
  /\ at_wait' = (coroutines[loop.i + 1].case_line = SemaphoreLine)
  /\ UNCHANGED <<coroutines, loop, freed, count, inside, stopped, owed>>

Skip ==
  /\ loop.on /\ running = 0
  /\ MoreToRun
  /\ ~is_alive(loop.i + 1)
  /\ loop' = [loop EXCEPT !.i = @ + 1]
  /\ UNCHANGED <<coroutines, running, freed, semaphore, stopped, ran, owed>>

(* The handler returns status; the line it leaves behind is where the next *)
(* call resumes.  Whatever the status was meanwhile is overwritten.        *)
HandlerReturns(status, line) ==
  /\ loop.on /\ running # 0
  /\ coroutines' = [coroutines EXCEPT ![running] =
                      [status |-> status, case_line |-> line]]
  /\ loop' = [loop EXCEPT !.i = @ + 1]
  /\ running' = 0 /\ at_wait' = FALSE
  /\ UNCHANGED <<freed, count, inside, stopped, ran, owed>>

(* co_wait_until (also co_sleep), co_yield_until, co_restart, co_exit and  *)
(* co_end.                                                                 *)
Waits(line) == HandlerReturns("WAITING", line)
Yields(line) == HandlerReturns("YIELDED", line)
Restarts == HandlerReturns("WAITING", 0)
Exits_AtLine == \E line \in Lines : HandlerReturns("EXITED", line)
Exits == HandlerReturns("EXITED", 0)
Ends == HandlerReturns("ENDED", 0)

Returns ==
  /\ ~at_wait
  /\ \/ \E line \in Lines : Waits(line) \/ Yields(line)
     \/ Restarts
     \/ Exits
     \/ Ends

(* co_semaphore_wait, when the handler comes to it and whenever it resumes *)
(* there.                                                                  *)
Passes(condition) ==
  /\ condition
  /\ count' = count - 1 /\ at_wait' = FALSE
  /\ inside' = inside \cup {running}
  /\ UNCHANGED <<coroutines, loop, running, freed, stopped, ran, owed>>

SemaphoreWait_ChecksOnce ==
  /\ loop.on /\ running # 0 /\ running \notin inside
  /\ \/ Passes(at_wait \/ count > 0)
     \/ ~at_wait /\ count = 0 /\ HandlerReturns("WAITING", SemaphoreLine)

SemaphoreWait ==
  /\ loop.on /\ running # 0 /\ running \notin inside
  /\ \/ Passes(count > 0)
     \/ count = 0 /\ HandlerReturns("WAITING", SemaphoreLine)

(* co_semaphore_signal by the coroutine that passed.                       *)
SemaphoreSignal ==
  /\ running \in inside
  /\ count' = count + 1 /\ inside' = inside \ {running}
  /\ UNCHANGED <<coroutines, loop, running, freed, at_wait, stopped, ran, owed>>

LoopEnd ==
  /\ loop.on /\ running = 0
  /\ ~MoreToRun
  /\ loop' = NoLoop
  /\ UNCHANGED <<coroutines, running, freed, semaphore, stopped, ran, owed>>

(* g_coroutine_context_free, between two loops: stops and frees them all.  *)
ContextFree ==
  /\ ~freed /\ ~loop.on
  /\ freed' = TRUE
  /\ coroutines' = <<>>
  /\ stopped' = {} /\ ran' = <<>> /\ owed' = {}
  /\ UNCHANGED <<loop, running, semaphore>>

Next ==
  \/ New
  \/ \E c \in Ids : Start(c) \/ Stop(c)
  \/ LoopBegin
  \/ Resume
  \/ Skip
  \/ Returns
  \/ SemaphoreWait
  \/ SemaphoreSignal
  \/ LoopEnd
  \/ ContextFree

(* The program loops while something is alive, and handlers return: no     *)
(* macro keeps one from it, the wait for the semaphore the least.          *)
Fairness ==
  /\ WF_vars(LoopBegin)
  /\ WF_vars(Resume)
  /\ WF_vars(Skip)
  /\ WF_vars(Returns)
  /\ WF_vars(at_wait /\ SemaphoreWait)
  /\ WF_vars(LoopEnd)

Spec == Init /\ [][Next]_vars /\ Fairness

-----------------------------------------------------------------------------
(* The loop and the running handler refer to coroutines the context has.   *)
TypeOK ==
  /\ coroutines \in Seq(Coroutine)
  /\ loop \in Loop
  /\ running \in Nat /\ running <= Len(coroutines)
  /\ freed \in BOOLEAN
  /\ count \in 0 .. Permits /\ at_wait \in BOOLEAN
  /\ stopped \subseteq Ids /\ owed \subseteq Ids
  /\ ran \in Seq(Ids)

(* A coroutine that was stopped by another one or by the program is not    *)
(* called until it is started again, even when it was stopped in the       *)
(* middle of the loop that was about to call it.                           *)
StopIsObeyed == running \notin stopped /\ stopped \cap Alive = {}

(* A loop calls each coroutine at most once, in the order of creation, and *)
(* none that was created after the loop began; when it is about to end it  *)
(* has called every coroutine that was alive when it began, unless that    *)
(* one was stopped meanwhile.                                              *)
EachOncePerLoop ==
  /\ \A j, k \in DOMAIN ran : j < k => ran[j] < ran[k]
  /\ loop.on => \A k \in DOMAIN ran : ran[k] <= loop.size
  /\ loop.on /\ running = 0 /\ ~MoreToRun =>
       \A c \in owed : \E k \in DOMAIN ran : ran[k] = c

(* A coroutine that is not alive and was not stopped resumes at its        *)
(* beginning when it is started; only a stopped one resumes where it was.  *)
(* One that waits for the semaphore resumes in front of it and passes only *)
(* when there is a permit, however often it is called, stopped or started  *)
(* meanwhile: no more are behind it than it was created for, and no permit *)
(* is lost.                                                                *)
ResumePoint ==
  /\ \A c \in Ids :
       /\ ~is_alive(c) /\ c \notin stopped => coroutines[c].case_line = 0
       /\ coroutines[c].case_line = SemaphoreLine /\ c # running => c \notin inside
  /\ Cardinality(inside) <= Permits /\ count = Permits - Cardinality(inside)

(* A coroutine that stays alive is called again and again.                 *)
AliveIsCalled ==
  \A c \in 1 .. MaxCoroutines :
    []<>(c \in Ids => ~is_alive(c) \/ running = c)
=============================================================================
