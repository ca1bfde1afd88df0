---------------------------- MODULE EventCalendar ----------------------------
(****************************************************************************)
(* What the timer promises its callers (include/npll/timer.h): a queued     *)
(* event fires once, not before its time and the earliest first, or is      *)
(* withdrawn before it fires; its callback is not entered again until it    *)
(* has returned.                                                            *)
(****************************************************************************)
EXTENDS Integers

CONSTANTS
    Ids,            \* the events
    Cancellable,    \* those that may be withdrawn
    MaxLate         \* lateness told apart

VARIABLES
    due,            \* the ticks left for each queued event
    running         \* the events whose callback has been entered

Init == due = [id \in {} |-> 0] /\ running = {}

(* An event is queued, by anyone or by its own callback as it returns.      *)
Post(id) ==
    /\ id \notin DOMAIN due
    /\ DOMAIN due' = DOMAIN due \cup {id}
    /\ \A i \in DOMAIN due : due'[i] = due[i]
    /\ \/ id \notin running /\ running' = running
       \/ id \in running /\ running' = running \ {id}

Drop(id) == due' = [i \in DOMAIN due \ {id} |-> due[i]]

Fire(id) ==
    /\ due[id] <= 0
    /\ \A i \in DOMAIN due : due[id] <= due[i]
    /\ id \notin running
    /\ Drop(id)
    /\ running' = running \cup {id}

Withdraw(id) == Drop(id) /\ running' = running

Return(id) == due' = due /\ running' = running \ {id}

Pass ==
    /\ due' = [i \in DOMAIN due |-> IF due[i] > -MaxLate THEN due[i] - 1 ELSE due[i]]
    /\ running' = running

Next ==
    \/ Pass
    \/ \E id \in Ids : Post(id)
    \/ \E id \in DOMAIN due : Fire(id)
    \/ \E id \in DOMAIN due \cap Cancellable : Withdraw(id)
    \/ \E id \in running : Return(id)

Spec == Init /\ [][Next]_<<due, running>>
=============================================================================
