------------------------------- MODULE GEvent -------------------------------
(***************************************************************************)
(* GEvent (src/src/gevent.c): an observer list that may be modified by the *)
(* callbacks it is calling.  The listeners live in a GArray                *)
(* (src/src/garray.c), so a removal shifts the slots left and leaves a     *)
(* stale copy behind the end, inside the allocation; g_event_fire captures *)
(* the number of listeners once and walks by firing_index, which removals  *)
(* adjust and which doubles as the "already firing" flag.                  *)
(*                                                                         *)
(* One thread runs everything: a callback is a stack frame, and whatever   *)
(* runs on top of the stack may call back into the event.                  *)
(***************************************************************************)
EXTENDS Integers, Sequences, SequencesExt

CONSTANTS
  MaxToken,        \* bound: tokens handed out are 2 .. MaxToken
  MaxFires         \* bound: fires that are accepted in one behaviour

ASSUME EventAssumption ==
  /\ MaxToken \in Nat \ {0}
  /\ MaxFires \in Nat

VARIABLES
  slots,         \* listeners->data: every allocated slot, stale ones included
  size,          \* g_array_size(listeners)
  last_token,
  firing_index,
  frames,        \* g_event_fire calls in progress, innermost last
  freed,         \* tokens whose user_data was released, one entry per release
  fires,         \* fires accepted so far (bounded by MaxFires)
  alive,         \* g_event_free has not been called
  disturbed,     \* history: a callback removed a listener, and the fire that
                 \*   the client began is still in progress
  unlisted       \* history: tokens handed out without a listener

history == <<disturbed, unlisted>>
vars == <<slots, size, last_token, firing_index, frames, freed, fires, alive,
          history>>

(* A frame: the captured size, whether a callback of it is running, the    *)
(* listeners registered when it began and those it has called (the last    *)
(* two are history, read by the properties only).                          *)
Frame == [size: Nat, in: BOOLEAN, start: Seq(Nat), called: Seq(Nat)]

Tokens == 2 .. MaxToken
Registered == SubSeq(slots, 1, size)
Idle == frames = <<>>
Top == frames[Len(frames)]
SetTop(f) == [frames EXCEPT ![Len(frames)] = f]

(* The code that may call the API now: the client between two fires, or    *)
(* the callback of the innermost fire.                                     *)
MayCall == alive /\ (~Idle => Top.in)

Init ==
  /\ slots = <<>>
  /\ size = 0
  /\ last_token = 1
  /\ firing_index = -1
  /\ frames = <<>>
  /\ freed = <<>>
  /\ fires = 0
  /\ alive = TRUE
  /\ disturbed = FALSE /\ unlisted = {}

-----------------------------------------------------------------------------
(* Code changed the way a slip would change it, for the mutation runs.      *)
Insert_NoGrow(s, n, t) == IF n < Len(s) THEN [s EXCEPT ![n + 1] = t] ELSE s
Shift_KeepsFirst(s, n, i) ==
  [j \in 1 .. Len(s) |-> IF i < j /\ j < n THEN s[j + 1] ELSE s[j]]
IndexAfterRemoval_Below(i) ==
  IF i - 1 < firing_index THEN firing_index - 1 ELSE firing_index
IndexAfterRemoval_Always(i) == firing_index - 1

(* g_array_insert at the end: reuse the spare slot, or grow by one.        *)
Insert(s, n, t) == IF n < Len(s) THEN [s EXCEPT ![n + 1] = t] ELSE Append(s, t)

(* g_array_remove: shift left, leave the last slot's old contents in place *)
Shift(s, n, i) ==
  [j \in 1 .. Len(s) |-> IF i <= j /\ j < n THEN s[j + 1] ELSE s[j]]

(* The loop of g_event_fire steps over a listener that was removed.        *)
IndexAfterRemoval(i) ==
  IF i - 1 <= firing_index THEN firing_index - 1 ELSE firing_index

AddListener ==
  /\ MayCall
  /\ last_token < MaxToken
  /\ last_token' = last_token + 1
  /\ \/ /\ slots' = Insert(slots, size, last_token + 1)
        /\ size' = size + 1
        /\ UNCHANGED unlisted
     \/ \* g_realloc fails, and the result of g_array_add is ignored
        /\ size = Len(slots)
        /\ unlisted' = unlisted \cup {last_token + 1}
        /\ UNCHANGED <<slots, size>>
  /\ UNCHANGED <<firing_index, frames, freed, fires, alive, disturbed>>

(* g_event_remove_listener of a registered token (an unknown token changes *)
(* nothing).                                                               *)
RemoveListener(i) ==
  /\ MayCall
  /\ i \in 1 .. size
  /\ firing_index' = IndexAfterRemoval(i)
  /\ freed' = Append(freed, slots[i])
  /\ slots' = Shift(slots, size, i)
  /\ size' = size - 1
  /\ disturbed' = (disturbed \/ ~Idle)
  /\ UNCHANGED <<last_token, frames, fires, alive, unlisted>>

FireBegin_Unguarded ==
  /\ MayCall
  /\ fires < MaxFires
  /\ fires' = fires + 1
  /\ firing_index' = 0
  /\ frames' = Append(frames, [size |-> size, in |-> FALSE,
                               start |-> Registered, called |-> <<>>])
  /\ UNCHANGED <<slots, size, last_token, freed, alive, history>>

(* g_event_fire up to its loop; a fire refused by firing_index # -1 changes *)
(* nothing.                                                                 *)
FireBegin ==
  /\ MayCall
  /\ firing_index = -1
  /\ fires < MaxFires
  /\ fires' = fires + 1
  /\ firing_index' = 0
  /\ frames' = Append(frames, [size |-> size, in |-> FALSE,
                               start |-> Registered, called |-> <<>>])
  /\ UNCHANGED <<slots, size, last_token, freed, alive, history>>

(* The loop condition: against the captured size, not the current one.     *)
MoreToCall_Current == firing_index < size
MoreToCall == firing_index < Top.size

(* The loop reads the slot at firing_index and enters its callback.        *)
CallListener ==
  /\ ~Idle /\ ~Top.in
  /\ MoreToCall
  /\ frames' = SetTop([Top EXCEPT !.in = TRUE,
                                  !.called = Append(@, slots[firing_index + 1])])
  /\ UNCHANGED <<slots, size, last_token, firing_index, freed, fires, alive,
                 history>>

CallbackReturns ==
  /\ ~Idle /\ Top.in
  /\ frames' = SetTop([Top EXCEPT !.in = FALSE])
  /\ firing_index' = firing_index + 1
  /\ UNCHANGED <<slots, size, last_token, freed, fires, alive, history>>

FireEnd_NoReset ==
  /\ ~Idle /\ ~Top.in
  /\ ~MoreToCall
  /\ frames' = SubSeq(frames, 1, Len(frames) - 1)
  /\ disturbed' = (disturbed /\ Len(frames) > 1)
  /\ UNCHANGED <<slots, size, last_token, firing_index, freed, fires, alive,
                 unlisted>>

FireEnd ==
  /\ ~Idle /\ ~Top.in
  /\ ~MoreToCall
  /\ frames' = SubSeq(frames, 1, Len(frames) - 1)
  /\ firing_index' = -1
  /\ disturbed' = (disturbed /\ Len(frames) > 1)
  /\ UNCHANGED <<slots, size, last_token, freed, fires, alive, unlisted>>

Free_ButFirst ==
  /\ alive /\ Idle
  /\ alive' = FALSE
  /\ freed' = freed \o SubSeq(slots, 2, size)
  /\ slots' = <<>>
  /\ size' = 0
  /\ UNCHANGED <<last_token, firing_index, frames, fires, history>>

(* g_event_free, called by the client when no fire is in progress.         *)
Free ==
  /\ alive /\ Idle
  /\ alive' = FALSE
  /\ freed' = freed \o Registered
  /\ slots' = <<>>
  /\ size' = 0
  /\ UNCHANGED <<last_token, firing_index, frames, fires, history>>

FireStep == CallListener \/ CallbackReturns \/ FireEnd

Next ==
  \/ AddListener
  \/ \E i \in 1 .. size : RemoveListener(i)
  \/ FireBegin
  \/ FireStep
  \/ Free

(* A callback returns and the loop goes on: ordinary code of one thread.   *)
Spec == Init /\ [][Next]_vars /\ WF_vars(FireStep)
-----------------------------------------------------------------------------
(* The listeners in use lie inside the array's allocation, and every slot  *)
(* of it, stale or not, holds a token that was handed out.                 *)
TypeOK ==
  /\ slots \in Seq(Tokens) /\ size \in 0 .. Len(slots)
  /\ last_token \in 1 .. MaxToken
  /\ firing_index \in Int
  /\ frames \in Seq(Frame)
  /\ freed \in Seq(Tokens)
  /\ fires \in 0 .. MaxFires
  /\ alive \in BOOLEAN
  /\ disturbed \in BOOLEAN /\ unlisted \subseteq Tokens

(* Whatever the callbacks do, firing_index can be used by the loop: it is  *)
(* -1 when no fire is in progress (or the next fire would be refused for   *)
(* ever), and the slot the loop is about to read was written by some       *)
(* g_event_add_listener and lies in the array's allocation: removals shift *)
(* the listeners and lower firing_index, but never below the first slot.   *)
FiringIndexSound ==
  /\ Idle => firing_index = -1
  /\ ~Idle /\ ~Top.in => firing_index >= 0
  /\ \A k \in DOMAIN frames : frames[k].size <= Len(slots)

(* The user data of a listener is released at most once, and never while   *)
(* the listener is registered: no stale slot leads to a second release.    *)
(* g_event_free leaves none behind, except that of a listener whose adding *)
(* failed.                                                                 *)
UserDataReleasedOnce ==
  /\ IsInjective(freed \o Registered)
  /\ ~alive => \A t \in (2 .. last_token) \ unlisted : Contains(freed, t)

(* The fire that is about to end has called every listener that was        *)
(* registered when it began and still is: adds and removals by callbacks   *)
(* never make the loop skip one.                                           *)
NoneSkipped ==
  ~Idle /\ ~Top.in /\ ~MoreToCall =>
    ToSet(Top.start) \intersect ToSet(Registered) \subseteq ToSet(Top.called)

(* "can not refire an event during firing": at most one fire in progress.  *)
NoRefire == Len(frames) <= 1

(* That holds until a callback removes a listener, and again from the next *)
(* fire on.                                                                *)
NoRefireUndisturbed == ~disturbed => NoRefire

(* While callbacks remove no listener, a fire calls exactly the listeners  *)
(* registered when it began, in the order of registration, each once.      *)
ExactlyOnceInOrder ==
  ~disturbed /\ ~Idle =>
    /\ IsPrefix(Top.called, Top.start)
    /\ ~Top.in /\ ~MoreToCall => Top.called = Top.start

(* A fire that began ends, and the event can be fired again, provided its  *)
(* callbacks do not go on adding listeners for ever (tokens are finite): a *)
(* listener that removes itself and adds its like is called in the same    *)
(* place of the same fire again.                                           *)
FireTerminates == ~Idle ~> (Idle /\ firing_index = -1)
=============================================================================
