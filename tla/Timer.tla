-------------------------------- MODULE Timer --------------------------------
(****************************************************************************)
(* The timer events of src/src/timer.c and the decrementer (DEC) exception  *)
(* of src/src/exception.c that drives them.                                 *)
(*                                                                          *)
(* One CPU.  At the bottom of the stack is the main program; each DEC       *)
(* exception pushes a run of T_DECHandler, whose callbacks run with         *)
(* interrupts enabled and can be interrupted by the next exception.  The    *)
(* sections between IRQ_DisableSave and IRQ_Restore (or IRQ_Enable) are     *)
(* single steps; everything between them can be interrupted.                *)
(*                                                                          *)
(* Time is relative: an event holds the ticks left until its fireTB, down   *)
(* to -MaxLate, and a step Tick lets one tick pass.  A tick may latch the   *)
(* exception without its being taken at once: that is the expiry inside a   *)
(* locked section.  The instructions between the handler's last unlock and  *)
(* its rfi are no interruption point of their own: an exception taken there *)
(* differs from one taken after the return only in the depth of the stack.  *)
(****************************************************************************)
EXTENDS Integers, Sequences, FiniteSets, SequencesExt

CONSTANTS
    Repeating,          \* the callbacks given to T_QueueRepeatingEvent
    OneShot,            \* the uses of T_QueueEvent by drivers
    Period,             \* the period of each repeating event
    Delays,             \* the delays of the one-shot events
    None,               \* no event
    MAX_EVENTS,         \* slots of the event array
    DEC_IDLE,           \* the largest DEC value, written when nothing is due
    MAX_EXCEPTION_RECURSION, \* saved exception frames
    MaxLate,            \* bound: lateness told apart
    DecSticky,          \* whether writing DEC leaves a latched exception latched
    IdleExpires,        \* whether a callback may outlast DEC_IDLE (35 s on a Wii)
    CancelScope         \* who calls T_CancelRepeatingEvent: "main", "self", "any"

Ids == Repeating \cup OneShot

ASSUME TimerAssumption ==
    /\ IsFiniteSet(Ids)
    /\ Repeating \cap OneShot = {}
    /\ None \notin Ids
    /\ Period \in [Repeating -> Nat]
    /\ Delays \subseteq Nat
    /\ MAX_EVENTS \in Nat \ {0}
    /\ DEC_IDLE \in Nat \ {0}
    /\ MAX_EXCEPTION_RECURSION \in Nat \ {0}
    /\ MaxLate \in Nat
    /\ DecSticky \in BOOLEAN /\ IdleExpires \in BOOLEAN
    /\ CancelScope \in {"main", "self", "any"}

VARIABLES
    events,             \* the queued events, [id, rem], in array order
    slot,               \* the repeating slots: "free", "set", "cancelled"
    eventsEnabled,
    dec,                \* the decrementer, -1 once it has passed zero
    decPending,         \* a DEC exception is latched
    frames,             \* the call stack, frames[1] the main program
    panic               \* the assertion that stopped the console, or "no"

vars == <<events, slot, eventsEnabled, dec, decPending, frames, panic>>

(* A frame: where it is, the event it popped, the event it is queueing with *)
(* the ticks left until the fireTB it computed, and the event that was      *)
(* already due behind the popped one (a history of the pass).               *)
Frame == [pc : {"main", "loop", "call", "check", "queue"},
          ev : Ids \cup {None}, arg : Ids \cup {None}, rem : Int,
          next : Ids \cup {None}]

MainFrame    == [pc |-> "main", ev |-> None, arg |-> None, rem |-> 0, next |-> None]
HandlerFrame == [pc |-> "loop", ev |-> None, arg |-> None, rem |-> 0, next |-> None]

(* T_Init *)
Init ==
    /\ events = <<>>
    /\ slot = [r \in Repeating |-> "free"]
    /\ eventsEnabled = FALSE
    /\ dec = DEC_IDLE
    /\ decPending = FALSE
    /\ frames = <<MainFrame>>
    /\ panic = "no"

Depth == Len(frames)
Top == frames[Depth]
SetTop(f) == frames' = [frames EXCEPT ![Depth] = f]

Queued(id) == \E i \in DOMAIN events : events[i].id = id
Holds(i, id) == frames[i].ev = id \/ frames[i].arg = id
Held(id) == \E i \in DOMAIN frames : Holds(i, id)

-----------------------------------------------------------------------------
(* The decrementer. *)

mtdec(n) ==
    /\ dec' = n
    /\ decPending' = (decPending /\ DecSticky)

\* Mutant: an event that is overdue is left to whatever DEC holds.
programNextDECFuture(q) ==
    IF q = <<>> THEN mtdec(DEC_IDLE)
    ELSE IF q[1].rem <= 0 THEN UNCHANGED <<dec, decPending>>
    ELSE mtdec(IF q[1].rem > DEC_IDLE THEN DEC_IDLE ELSE q[1].rem)

programNextDEC(q) ==
    mtdec(IF q = <<>> THEN DEC_IDLE
          ELSE IF q[1].rem <= 0 THEN 1
          ELSE IF q[1].rem > DEC_IDLE THEN DEC_IDLE ELSE q[1].rem)

Later(rem) == IF rem > -MaxLate THEN rem - 1 ELSE rem

Tick ==
    /\ panic = "no"
    /\ events' = [i \in DOMAIN events |-> [events[i] EXCEPT !.rem = Later(@)]]
    /\ frames' = [i \in DOMAIN frames |->
                    IF frames[i].pc = "queue" THEN [frames[i] EXCEPT !.rem = Later(@)]
                                              ELSE frames[i]]
    /\ dec' = IF dec >= 0 /\ (dec # DEC_IDLE \/ IdleExpires) THEN dec - 1 ELSE dec
    /\ decPending' = (decPending \/ dec = 0)
    /\ UNCHANGED <<slot, eventsEnabled, panic>>

(* E_Handler: the exception is taken and T_DECHandler entered. *)
TakeDEC ==
    /\ panic = "no"
    /\ decPending
    /\ decPending' = FALSE
    /\ IF Len(frames) > MAX_EXCEPTION_RECURSION
       THEN panic' = "recursion" /\ UNCHANGED frames
       ELSE frames' = Append(frames, HandlerFrame) /\ UNCHANGED panic
    /\ UNCHANGED <<events, slot, eventsEnabled, dec>>

-----------------------------------------------------------------------------
(* T_QueueEvent. *)

\* Mutant: the new event goes before those due at the same time or earlier.
IsIndexFirst(i, rem) == i = 1

(* eventIdxForTB: the first event that is due later, or the end. *)
IsIndex(i, rem) ==
    /\ \A j \in 1..(i - 1) : events[j].rem <= rem
    /\ i <= Len(events) => events[i].rem > rem

(* The locked part of T_QueueEvent: the assertion, the insertion, and the   *)
(* decrementer when the new event is the first.                             *)
QueueLocked(id, rem) ==
    IF Len(events) = MAX_EVENTS
    THEN panic' = "overflow" /\ UNCHANGED <<events, dec, decPending>>
    ELSE \E i \in 1..(Len(events) + 1) :
            /\ IsIndex(i, rem)
            /\ events' = InsertAt(events, i, [id |-> id, rem |-> rem])
            /\ IF eventsEnabled /\ i = 1 THEN programNextDEC(events')
                                         ELSE UNCHANGED <<dec, decPending>>
            /\ UNCHANGED panic

(* T_QueueRepeatingEvent, called by the main program: the slot is filled    *)
(* and T_QueueEvent reads the time base.                                    *)
Register(r) ==
    /\ Top.pc = "main"
    /\ slot[r] = "free"
    /\ slot' = [slot EXCEPT ![r] = "set"]
    /\ SetTop([Top EXCEPT !.pc = "queue", !.arg = r, !.rem = Period[r]])
    /\ UNCHANGED <<events, eventsEnabled, dec, decPending, panic>>

(* The main program or a callback calls T_QueueEvent for a one-shot event,  *)
(* which reads the time base before it takes the lock.                      *)
CallQueueEvent(o, d) ==
    /\ Top.pc \in {"main", "call"}
    /\ ~Queued(o) /\ ~Held(o)
    /\ SetTop([Top EXCEPT !.pc = "queue", !.arg = o, !.rem = d])
    /\ UNCHANGED <<events, slot, eventsEnabled, dec, decPending, panic>>

(* An external interrupt handler calls T_QueueEvent; it runs with           *)
(* interrupts disabled throughout.                                          *)
IrqQueueEvent(o, d) ==
    /\ ~Queued(o) /\ ~Held(o)
    /\ QueueLocked(o, d)
    /\ UNCHANGED <<slot, eventsEnabled, frames>>

(* Where the caller of T_QueueEvent goes on. *)
AfterQueue(f) ==
    IF f.arg = f.ev THEN HandlerFrame
    ELSE [f EXCEPT !.pc = IF Depth = 1 THEN "main" ELSE "call", !.arg = None, !.rem = 0]

QueueEvent ==
    /\ Top.pc = "queue"
    /\ QueueLocked(Top.arg, Top.rem)
    /\ SetTop(AfterQueue(Top))
    /\ UNCHANGED <<slot, eventsEnabled>>

T_EnableEvents ==
    /\ Top.pc = "main"
    /\ ~eventsEnabled
    /\ eventsEnabled' = TRUE
    /\ programNextDEC(events)
    /\ UNCHANGED <<events, slot, frames, panic>>

-----------------------------------------------------------------------------
(* T_CancelRepeatingEvent. *)

MayCancel(r) ==
    \/ Top.pc = "main"
    \/ Top.pc = "call" /\ CancelScope = "self" /\ Top.ev = r
    \/ Top.pc = "call" /\ CancelScope = "any"

(* The queued wrapper of r, if there is one, is removed from the array.     *)
RemoveQueued(r) ==
    \/ ~Queued(r) /\ UNCHANGED events
    \/ \E i \in DOMAIN events :
          /\ events[i].id = r /\ \A j \in 1..(i - 1) : events[j].id # r
          /\ events' = RemoveAt(events, i)

T_CancelRepeatingEvent(r) ==
    /\ MayCancel(r)
    /\ slot[r] = "set"
    /\ slot' = [slot EXCEPT ![r] = "cancelled"]
    /\ RemoveQueued(r)
    /\ IF eventsEnabled THEN programNextDEC(events') ELSE UNCHANGED <<dec, decPending>>
    /\ UNCHANGED <<eventsEnabled, frames, panic>>

-----------------------------------------------------------------------------
(* T_DECHandler and repeatingEventCB. *)

Due(q) == q # <<>> /\ q[1].rem <= 0

(* Nothing is due, or events are disabled: the handler returns. *)
HandlerReturn ==
    /\ Top.pc = "loop"
    /\ ~(eventsEnabled /\ Due(events))
    /\ IF eventsEnabled THEN programNextDEC(events) ELSE mtdec(DEC_IDLE)
    /\ frames' = Front(frames)
    /\ UNCHANGED <<events, slot, eventsEnabled, panic>>

(* If the next event is due too, it waits for this callback. *)
ArmForCallback(q) == IF Due(q) THEN mtdec(DEC_IDLE) ELSE programNextDEC(q)

\* Mutant: the event that is called stays in the array.
ShiftedKeep(q) == q

(* The array shifted forward. *)
Shifted(q) == Tail(q)

(* The handler pops the first event and calls it. *)
HandlerPop ==
    /\ Top.pc = "loop"
    /\ eventsEnabled /\ Due(events)
    /\ events' = Shifted(events)
    /\ ArmForCallback(events')
    /\ SetTop([Top EXCEPT !.pc = "call", !.ev = events[1].id,
                          !.next = IF Due(events') THEN events'[1].id ELSE None])
    /\ UNCHANGED <<slot, eventsEnabled, panic>>

(* The callback of a one-shot event returns to the handler's loop. *)
ReturnOneShot ==
    /\ Top.pc = "call" /\ Top.ev \in OneShot
    /\ SetTop(HandlerFrame)
    /\ UNCHANGED <<events, slot, eventsEnabled, dec, decPending, panic>>

(* The callback of a repeating event returns to repeatingEventCB. *)
ReturnRepeating ==
    /\ Top.pc = "call" /\ Top.ev \in Repeating
    /\ SetTop([Top EXCEPT !.pc = "check"])
    /\ UNCHANGED <<events, slot, eventsEnabled, dec, decPending, panic>>

\* Mutant: the wrapper does not look whether it has been cancelled.
StillSetAlways(r) == TRUE

StillSet(r) == slot[r] = "set"

(* repeatingEventCB: queue the event again unless it has been cancelled.    *)
CheckRepeating ==
    /\ Top.pc = "check"
    /\ SetTop(IF StillSet(Top.ev)
              THEN [Top EXCEPT !.pc = "queue", !.arg = Top.ev, !.rem = Period[Top.ev]]
              ELSE HandlerFrame)
    /\ UNCHANGED <<events, slot, eventsEnabled, dec, decPending, panic>>

-----------------------------------------------------------------------------
Handler == HandlerReturn \/ HandlerPop \/ ReturnOneShot \/ ReturnRepeating
           \/ CheckRepeating \/ QueueEvent

Callers ==
    \/ \E r \in Repeating : Register(r) \/ T_CancelRepeatingEvent(r)
    \/ \E o \in OneShot, d \in Delays : CallQueueEvent(o, d) \/ IrqQueueEvent(o, d)
    \/ T_EnableEvents

Next == Tick \/ TakeDEC \/ (panic = "no" /\ (Handler \/ Callers))

(* Time passes, a latched exception is taken and the code that runs goes    *)
(* on.  What an exception interrupts goes on when the handler has returned, *)
(* so a call of T_QueueEvent finishes and I_InitCommon enables the events   *)
(* although exceptions keep coming.                                         *)
Fairness ==
    /\ WF_vars(Tick) /\ WF_vars(TakeDEC)
    /\ WF_vars(panic = "no" /\ Handler)
    /\ SF_vars(panic = "no" /\ QueueEvent)
    /\ SF_vars(panic = "no" /\ T_EnableEvents)

Spec == Init /\ [][Next]_vars
FairSpec == Spec /\ Fairness

-----------------------------------------------------------------------------
FrameOK(f, i) ==
    /\ f.pc \in {"main", "loop"} => f.ev = None
    /\ f.pc \in {"call", "check"} => f.ev # None
    /\ f.pc = "check" => f.ev \in Repeating
    /\ (f.pc = "queue") = (f.arg # None)
    /\ f.pc = "main" => i = 1
    /\ i = 1 => f.pc \in {"main", "queue"} /\ f.ev = None
    /\ i > 1 /\ f.pc = "queue" => f.ev # None

(* Each variable has its type, and each frame holds what its place needs.   *)
TypeOK ==
    /\ events \in Seq([id : Ids, rem : Int])
    /\ slot \in [Repeating -> {"free", "set", "cancelled"}]
    /\ eventsEnabled \in BOOLEAN
    /\ dec \in -1..DEC_IDLE
    /\ decPending \in BOOLEAN
    /\ frames \in Seq(Frame) /\ frames # <<>>
    /\ \A i \in DOMAIN frames : FrameOK(frames[i], i)
    /\ panic \in {"no", "overflow", "recursion"}

(* The array is in the order of the times the events fire.                  *)
Sorted == \A i, j \in DOMAIN events : i < j => events[i].rem <= events[j].rem

(* No event is in two places: twice in the queue, in the queue while its    *)
(* callback runs or is being queued again, or in two frames of the stack.   *)
(* Repeating callbacks are therefore never reentered, on which the drivers' *)
(* poll functions rely, and the array cannot overflow.                      *)
OneInstance ==
    /\ \A i, j \in DOMAIN events : events[i].id = events[j].id => i = j
    /\ \A i \in DOMAIN events : ~Held(events[i].id)
    /\ \A i, j \in DOMAIN frames, id \in Ids : Holds(i, id) /\ Holds(j, id) => i = j

(* The array and the frames between any two locked sections. *)
OrderKept == TypeOK /\ Sorted /\ OneInstance

(* The first event cannot be forgotten: the decrementer will expire when it *)
(* is due, the exception is latched, a handler is about to look at the      *)
(* queue, or one holds the event back until the callback it runs returns.   *)
NoLostEvent ==
    panic = "no" /\ eventsEnabled /\ events # <<>> =>
        \/ decPending
        \/ dec >= 0 /\ (dec <= events[1].rem \/ dec <= 1)
        \/ \E i \in DOMAIN frames : frames[i].pc = "loop" \/ frames[i].next # None

(* A slot that was cancelled stays out of the queue, and its callback,      *)
(* which is NULL now, is not called again (timer.c:191, "Stop a currently   *)
(* executing wrapper from rearming itself").                                *)
CancelledStaysOut == \A r \in Repeating : slot[r] = "cancelled" => ~Queued(r)

(* With a slot for every event that can be outstanding, the assertion of    *)
(* T_QueueEvent never fails (timer.c:135).                                  *)
NoOverflow == Cardinality(Ids) <= MAX_EVENTS => panic # "overflow"

(* A queued event is called, unless it is cancelled or the console stops. *)
QueuedIsCalled ==
    \A id \in Ids : Queued(id) ~> (\E i \in DOMAIN frames : frames[i].ev = id)
                                  \/ panic # "no" \/ (id \in Repeating /\ slot[id] = "cancelled")
-----------------------------------------------------------------------------
(* The timer as its callers see it. *)
DueTimes ==
    [id \in {events[i].id : i \in DOMAIN events} |->
        events[CHOOSE i \in DOMAIN events : events[i].id = id].rem]
Running == {frames[i].ev : i \in DOMAIN frames} \ {None}

Calendar == INSTANCE EventCalendar
              WITH due <- DueTimes, running <- Running, Cancellable <- Repeating

(* The array, the decrementer and the nested handlers implement a calendar  *)
(* of events: never early, earliest first, never reentered.                 *)
CalendarSpec == Calendar!Spec
=============================================================================
