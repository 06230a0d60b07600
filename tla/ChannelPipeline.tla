--------------------------- MODULE ChannelPipeline ---------------------------
(***************************************************************************)
(* A producer and a consumer coroutine joined by a channel: the program of *)
(* src/tests/test_channel.c, composed of GChannel, GCoroutine and the      *)
(* co_sleep and co_wait_until macros of src/inc/gcoroutine.h.  The sender  *)
(* sleeps, then writes, waiting while the channel is full; it may give up  *)
(* with an error; it closes the channel at the end.  The receiver sleeps,  *)
(* then reads, waiting while the channel is empty, until it reads an error *)
(* or the close marker.                                                    *)
(***************************************************************************)
EXTENDS GChannel

CONSTANTS
  DataCount,    \* items the sender has (ud->data_count)
  ErrorIndices, \* the items it may fail at; DataCount: it does not fail
  MaxSleep      \* bound: the sleeps last 0 .. MaxSleep ticks

ASSUME PipelineAssumption ==
  /\ DataCount \in Nat
  /\ ErrorIndices \subseteq 0 .. DataCount
  /\ MaxSleep \in Nat

VARIABLES
  coroutines, loop, running, freed, stopped, ran, owed,     \* the context
  count, at_wait, inside,                 \* and its semaphore, not used here
  error_index,   \* ud->data_error_index of the sender
  i,       \* ud->i of the sender
  left,    \* ticks until co_timer_expired, of each coroutine's sleep_timer
  at       \* where the running handler is

context == <<coroutines, loop, running, freed, stopped, ran, owed,
             count, at_wait, inside>>
pvars == <<vars, context, error_index, i, left, at>>

(* The lines the two handlers wait at: in co_sleep, and for the channel.   *)
Sleeping == 1
Blocked == 2
Co == INSTANCE GCoroutine
        WITH MaxCoroutines <- 2, Lines <- {Sleeping, Blocked}, SelfStop <- FALSE,
             SemaphoreLine <- 1 + Sleeping + Blocked, Permits <- 0

Sender == 1
Receiver == 2
Places == {"none", "begin", "sleep", "block", "close", "end"}

(* channel_test creates and starts both coroutines.                        *)
PInit ==
  /\ Init
  /\ coroutines = [c \in 1 .. 2 |-> [status |-> "WAITING", case_line |-> 0]]
  /\ loop = Co!NoLoop /\ running = 0 /\ freed = FALSE
  /\ count = 0 /\ at_wait = FALSE /\ inside = {}
  /\ stopped = {} /\ ran = <<>> /\ owed = {}
  /\ error_index \in ErrorIndices
  /\ i = 0
  /\ left = [c \in 1 .. 2 |-> 0]
  /\ at = "none"

-----------------------------------------------------------------------------
(* The handler resumes where its line says.                                *)
PlaceOf(line) ==
  CASE line = 0        -> "begin"
    [] line = Sleeping -> "sleep"
    [] line = Blocked  -> "block"

Resume ==
  /\ Co!Resume
  /\ at' = PlaceOf(coroutines[loop.i + 1].case_line)
  /\ UNCHANGED <<vars, error_index, i, left>>

(* A call of the channel has returned: its callbacks are over.             *)
Running(c) == running = c /\ firing = <<>>

Return(action) ==
  /\ action
  /\ at' = "none"
  /\ UNCHANGED <<vars, error_index, i, left>>

(* co_sleep: the timer has expired when strictly more than the interval    *)
(* has passed.                                                             *)
StartSleep(c) ==
  /\ \E ticks \in 0 .. MaxSleep : left' = [left EXCEPT ![c] = ticks + 1]
  /\ at' = "sleep"
  /\ UNCHANGED <<vars, context, error_index, i>>

SleepOn(c) ==
  /\ Running(c) /\ at = "sleep" /\ left[c] > 0
  /\ Return(Co!Waits(Sleeping))

Ends(c) ==
  /\ Running(c) /\ at = "end"
  /\ Return(Co!Ends)

-----------------------------------------------------------------------------
(* sender_handler                                                          *)
SenderSleeps ==
  /\ Running(Sender) /\ at = "begin"
  /\ i < DataCount
  /\ StartSleep(Sender)

SenderIsDone ==
  /\ Running(Sender) /\ at = "begin"
  /\ i = DataCount
  /\ at' = "close"
  /\ UNCHANGED <<vars, context, error_index, i, left>>

AtWrite == at = "block" \/ (at = "sleep" /\ left[Sender] = 0 /\ i # error_index)

(* co_wait_until(co, g_channel_write(...)), then the next round.           *)
SenderWrites_SkipsItem ==
  /\ Running(Sender) /\ AtWrite
  /\ Write
  /\ i' = i + 2
  /\ at' = "begin"
  /\ UNCHANGED <<context, error_index, left>>
SenderWrites ==
  /\ Running(Sender) /\ AtWrite
  /\ Write
  /\ i' = i + 1
  /\ at' = "begin"
  /\ UNCHANGED <<context, error_index, left>>

SenderBlocks ==
  /\ Running(Sender) /\ AtWrite
  /\ ~HasRoom("data")
  /\ Return(Co!Waits(Blocked))

SenderFails_NoBreak ==
  /\ Running(Sender) /\ at = "sleep" /\ left[Sender] = 0 /\ i = error_index
  /\ Error
  /\ at' = "begin"
  /\ UNCHANGED <<context, error_index, i, left>>
SenderFails ==
  /\ Running(Sender) /\ at = "sleep" /\ left[Sender] = 0 /\ i = error_index
  /\ Error
  /\ at' = "close"
  /\ UNCHANGED <<context, error_index, i, left>>

SenderCloses ==
  /\ Running(Sender) /\ at = "close"
  /\ Close
  /\ at' = "end"
  /\ UNCHANGED <<context, error_index, i, left>>

(* receiver_handler                                                        *)
ReceiverSleeps ==
  /\ Running(Receiver) /\ at = "begin"
  /\ StartSleep(Receiver)

AtRead == at = "block" \/ (at = "sleep" /\ left[Receiver] = 0)

ReceiverReads_StopsAtOnce ==
  /\ Running(Receiver) /\ AtRead
  /\ Read
  /\ at' = IF closed THEN "end" ELSE "begin"
  /\ UNCHANGED <<context, error_index, i, left>>
ReceiverReads ==
  /\ Running(Receiver) /\ AtRead
  /\ Read
  /\ at' = IF IsData(Head(items)) THEN "begin" ELSE "end"
  /\ UNCHANGED <<context, error_index, i, left>>

ReceiverBlocks ==
  /\ Running(Receiver) /\ AtRead
  /\ items = <<>>
  /\ Return(Co!Waits(Blocked))

-----------------------------------------------------------------------------
CallbackEnds == CallbackReturns /\ UNCHANGED <<context, error_index, i, left, at>>

LoopStep ==
  /\ Co!LoopBegin \/ Co!Skip \/ Co!LoopEnd
  /\ UNCHANGED <<vars, error_index, i, left, at>>

(* The clock goes on by itself, whoever runs.                              *)
Tick ==
  /\ \E c \in 1 .. 2 : left[c] > 0
  /\ left' = [c \in 1 .. 2 |-> IF left[c] > 0 THEN left[c] - 1 ELSE 0]
  /\ UNCHANGED <<vars, context, error_index, i, at>>

(* When no coroutine is alive the test frees the channel and the context.  *)
Done == ~loop.on /\ Co!alive_count = 0
FreeChannel ==
  /\ Done /\ ~freed
  /\ Free
  /\ UNCHANGED <<context, error_index, i, left, at>>
FreeContext ==
  /\ Done /\ ~alive
  /\ Co!ContextFree
  /\ UNCHANGED <<vars, error_index, i, left, at>>

HandlerStep ==
  \/ \E c \in 1 .. 2 : SleepOn(c) \/ Ends(c)
  \/ SenderSleeps
  \/ SenderIsDone
  \/ SenderWrites
  \/ SenderBlocks
  \/ SenderFails
  \/ SenderCloses
  \/ ReceiverSleeps
  \/ ReceiverReads
  \/ ReceiverBlocks

PNext ==
  \/ Resume
  \/ HandlerStep
  \/ CallbackEnds
  \/ LoopStep
  \/ Tick
  \/ FreeChannel
  \/ FreeContext

(* One thread that goes on, and a clock that goes on.                      *)
PSpec ==
  /\ PInit /\ [][PNext]_pvars
  /\ WF_pvars(Resume \/ HandlerStep \/ CallbackEnds \/ LoopStep
                     \/ FreeChannel \/ FreeContext)
  /\ WF_pvars(Tick)

-----------------------------------------------------------------------------
(* When both coroutines have ended, every item before the sender's error,  *)
(* or every item, was written and read, once and in order, no other item   *)
(* was, and what the receiver read next told it why: the error, or else    *)
(* the close marker.                                                       *)
AllTransferred ==
  Done /\ ~freed =>
    /\ Len(delivered) > error_index
    /\ \A k \in 1 .. error_index : delivered[k] = [kind |-> "data", id |-> k]
    /\ \A k \in DOMAIN accepted : IsData(accepted[k]) => k <= error_index
    /\ delivered[error_index + 1].kind =
         IF error_index < DataCount THEN "error" ELSE "closed"

(* "assert(read_write_counter.closed)": when both coroutines have ended    *)
(* and the channel has not been freed, on_channel_read has heard of the    *)
(* close marker.  The receiver leaves its loop at the error, so this fails *)
(* when the sender does.                                                   *)
CloseIsRead == Done /\ alive => \E k \in DOMAIN taken : taken[k].kind = "closed"

(* Both coroutines end, and the program frees what it made.                *)
Terminates == <>(Done /\ ~alive /\ freed)
=============================================================================
