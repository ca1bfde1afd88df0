------------------------------ MODULE EventFifo ------------------------------
(****************************************************************************)
(* What an event queue promises its users (include/npll/input.h): a         *)
(* first-in first-out channel.  Events are numbered in the order they are   *)
(* posted; each is delivered once, in that order.                           *)
(****************************************************************************)
EXTENDS Naturals, Sequences

VARIABLES
    backlog,        \* the events posted and not yet delivered, oldest first
    posted,         \* the number of events posted
    delivered       \* the event delivered last

Init == backlog = <<>> /\ posted = 0 /\ delivered = 0

Post ==
    /\ posted' = posted + 1
    /\ backlog' = Append(backlog, posted + 1)
    /\ UNCHANGED delivered

Deliver ==
    /\ backlog # <<>>
    /\ delivered' = Head(backlog)
    /\ backlog' = Tail(backlog)
    /\ UNCHANGED posted

Next == Post \/ Deliver

Spec == Init /\ [][Next]_<<backlog, posted, delivered>>
=============================================================================
