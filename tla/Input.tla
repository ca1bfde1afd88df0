-------------------------------- MODULE Input --------------------------------
(****************************************************************************)
(* The input event queue of src/src/input.c.                                *)
(*                                                                          *)
(* Producers (keyboard, controller and reset-switch polls) and the single   *)
(* consumer (UI_HandleInputs, run from the repeating redraw event) are      *)
(* decrementer callbacks on one CPU.  They run with interrupts enabled, so  *)
(* any of them can be interrupted by a nested callback between the unlocked *)
(* look at the queue and the locked update of it; a nested callback runs to *)
(* completion before the one it interrupted goes on.  The redraw event is   *)
(* not reentrant, so at most one call of IN_ConsumeEvent is in progress:    *)
(* the call stack is therefore a number of suspended producers, then        *)
(* perhaps the consumer, then the producers that interrupted it.            *)
(*                                                                          *)
(* An event's payload is abstracted to a tag: the n-th event stored in the  *)
(* queue has tag n.  0 is the empty slot, as in the code.                   *)
(*                                                                          *)
(* The sources post whenever they like, and may fill the queue.  From then  *)
(* on the last slot is never cleared again: a consumer that gets to the end *)
(* of the queue takes it for an event, which the history variable reread    *)
(* records, as overrun records a store outside the array.                   *)
(****************************************************************************)
EXTENDS Naturals, Integers, Sequences

CONSTANTS
    MAX_INPUT_EVENT,    \* slots of the queue
    MaxNesting,         \* bound: producers in progress at a time
    MaxTag,             \* bound: events stored in a behaviour
    MaxReread           \* bound: how far below 0 the index falls

ASSUME InputAssumption ==
    /\ MAX_INPUT_EVENT \in Nat \ {0}
    /\ MaxNesting \in Nat
    /\ MaxTag \in Nat
    /\ MaxReread \in Nat

VARIABLES
    queue,              \* the slots, a tag or 0
    queuePos,           \* the next free slot
    hasReceivedInput,
    storing,            \* producers past the capacity check, on top of the stack
    suspended,          \* such producers beneath the consumer's frame
    fetched,            \* the tag IN_ConsumeEvent is about to return, 0 outside it
    stored,             \* history: the number of events stored
    delivered,          \* history: the tag returned last
    filled,             \* history: the last slot has been used
    overrun,            \* history: a store went outside the array
    reread              \* history: the consumer read a slot behind the queue

history == <<filled, overrun, reread>>
vars == <<queue, queuePos, hasReceivedInput, storing, suspended, fetched,
          stored, delivered, history>>

Slots == 0..(MAX_INPUT_EVENT - 1)

Init ==
    /\ queue = [i \in Slots |-> 0]
    /\ queuePos = 0
    /\ hasReceivedInput = FALSE
    /\ storing = 0
    /\ suspended = 0
    /\ fetched = 0
    /\ stored = 0
    /\ delivered = 0
    /\ filled = FALSE
    /\ overrun = FALSE
    /\ reread = FALSE

(* IN_NewEvent up to the capacity check, made without the lock. *)
NewEventCheck ==
    /\ storing + suspended < MaxNesting
    /\ stored + storing + suspended < MaxTag
    /\ hasReceivedInput' = TRUE
    /\ storing' = IF queuePos >= MAX_INPUT_EVENT THEN storing ELSE storing + 1
    /\ UNCHANGED <<queue, queuePos, suspended, fetched, stored, delivered, history>>

\* Mutant: the store goes over the newest event instead of behind it.
InsertOver == queue' = [queue EXCEPT ![IF queuePos = 0 THEN 0 ELSE queuePos - 1] = stored + 1]

Insert == queue' = IF queuePos \in Slots THEN [queue EXCEPT ![queuePos] = stored + 1]
                                         ELSE queue

(* The locked store of IN_NewEvent.  An index outside the array is          *)
(* undefined behaviour: the write lands in another object.                  *)
NewEventStore ==
    /\ storing > 0
    /\ storing' = storing - 1
    /\ stored' = stored + 1
    /\ queuePos' = queuePos + 1
    /\ Insert
    /\ filled' = (filled \/ queuePos + 1 >= MAX_INPUT_EVENT)
    /\ overrun' = (overrun \/ queuePos \notin Slots)
    /\ UNCHANGED <<hasReceivedInput, suspended, fetched, delivered, reread>>

\* Mutant: the consumer looks at the second slot.
HasEventSecond == queue[1] # 0

HasEvent == queue[0] # 0

(* IN_ConsumeEvent finds nothing. *)
ConsumeNone ==
    /\ fetched = 0
    /\ ~HasEvent
    /\ UNCHANGED vars

(* IN_ConsumeEvent reads the first slot, without the lock. *)
ConsumeFetch ==
    /\ fetched = 0
    /\ HasEvent
    /\ fetched' = queue[0]
    /\ reread' = (reread \/ queuePos <= 0)
    /\ suspended' = storing
    /\ storing' = 0
    /\ UNCHANGED <<queue, queuePos, hasReceivedInput, stored, delivered, filled, overrun>>

\* Mutant: the memmove moves one slot too few.
ShiftedShort(q) == [i \in Slots |-> IF i + 2 \in Slots THEN q[i + 1] ELSE q[i]]

(* The queue after the memmove of MAX_INPUT_EVENT - 1 slots: the last slot  *)
(* keeps its value.                                                         *)
Shifted(q) == [i \in Slots |-> IF i + 1 \in Slots THEN q[i + 1] ELSE q[i]]

DropHead ==
    /\ queue' = Shifted(queue)
    /\ queuePos' = IF queuePos > -MaxReread THEN queuePos - 1 ELSE queuePos

(* The locked removal of IN_ConsumeEvent, and its return. *)
ConsumeRemove ==
    /\ fetched # 0
    /\ storing = 0
    /\ DropHead
    /\ delivered' = fetched
    /\ fetched' = 0
    /\ storing' = suspended
    /\ suspended' = 0
    /\ UNCHANGED <<hasReceivedInput, stored, history>>

Next == NewEventCheck \/ NewEventStore \/ ConsumeNone \/ ConsumeFetch \/ ConsumeRemove

(* A callback that has started finishes, and the redraw event keeps coming. *)
Fairness ==
    /\ WF_vars(NewEventStore)
    /\ WF_vars(ConsumeFetch)
    /\ WF_vars(ConsumeRemove)

Spec == Init /\ [][Next]_vars
FairSpec == Spec /\ Fairness

-----------------------------------------------------------------------------
(* Every variable stays in its range.  Even where a store leaves the array, *)
(* it does so by less than the number of producers in progress, whose       *)
(* unlocked checks saw the same slot free.                                  *)
TypeOK ==
    /\ queue \in [Slots -> 0..MaxTag]
    /\ queuePos \in (-MaxReread)..(MAX_INPUT_EVENT - 1 + MaxNesting)
    /\ hasReceivedInput \in BOOLEAN
    /\ storing \in Nat
    /\ suspended \in Nat
    /\ fetched \in 0..MaxTag
    /\ stored \in 0..MaxTag
    /\ delivered \in 0..MaxTag
    /\ filled \in BOOLEAN
    /\ overrun \in BOOLEAN
    /\ reread \in BOOLEAN

Spoiled == overrun \/ reread

(* The queue holds exactly the events stored and not yet delivered, oldest  *)
(* first: no interleaving of an unlocked check or read with nested stores   *)
(* loses, duplicates or reorders an event.  Until the last slot has been    *)
(* used there are zeroes behind them.                                       *)
Contents ==
    /\ queuePos \in 0..MAX_INPUT_EVENT
    /\ queuePos = stored - delivered
    /\ \A i \in Slots :
        /\ i < queuePos => queue[i] = delivered + 1 + i
        /\ i >= queuePos => filled \/ queue[i] = 0

(* What IN_ConsumeEvent read before taking the lock is still the head of    *)
(* the queue when it removes the head: the event returned is the one        *)
(* removed.                                                                 *)
FetchedIsHead == fetched # 0 => queuePos > 0 /\ fetched = queue[0]

(* The queue goes wrong only after it was full: a store leaves the array,   *)
(* or the consumer reads behind the queue, only if the last slot was used   *)
(* before (input.c:47-52, input.c:35).  Until one of the two happens the    *)
(* array is as both functions expect to find it, in their locked sections   *)
(* and outside, whatever is nested and however much is posted.              *)
QueueKept ==
    /\ TypeOK
    /\ Spoiled => filled
    /\ ~Spoiled => Contents /\ FetchedIsHead

(* IN_ConsumeEvent never returns an event that it already returned: what it *)
(* reads it also removes (input.c:33, "remove event from queue").           *)
NoRedelivery == fetched # 0 => fetched > delivered

(* Every stored event is returned to the UI in the end, unless the queue    *)
(* goes wrong before.                                                       *)
AllDelivered == \A t \in 1..MaxTag : (stored >= t) ~> (Spoiled \/ delivered >= t)

-----------------------------------------------------------------------------
(* The queue as a reader of input.h sees it: a first-in first-out channel.  *)
Undelivered == [i \in 1..queuePos |-> IF i - 1 \in Slots THEN queue[i - 1] ELSE 0]
Fifo == INSTANCE EventFifo WITH backlog <- Undelivered, posted <- stored

(* The array, its index and the two half-locked functions implement the     *)
(* channel up to a store outside the array or a read behind the queue.      *)
FifoSpec == Fifo!Init /\ [][Spoiled' \/ Fifo!Next]_<<Undelivered, stored, delivered>>

=============================================================================
