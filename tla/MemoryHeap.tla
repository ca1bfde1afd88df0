----------------------------- MODULE MemoryHeap ------------------------------
(* What the callers of an allocator rely on: the regions they hold are      *)
(* theirs alone, and stay so until they free them.                          *)
EXTENDS Integers

CONSTANTS
    Room(_),            \* whether a region, with its header, is one of the pools' memory
    Overlap(_, _)       \* whether two regions overlap

VARIABLE held

Init == held = {}

Alloc(r) ==
    /\ r \notin held
    /\ Room(r) /\ \A h \in held : ~Overlap(h, r)
    /\ held' = held \cup {r}

Free(r) == r \in held /\ held' = held \ {r}

Next == \E r \in held \cup held' : Alloc(r) \/ Free(r)

Spec == Init /\ [][Next]_held
=============================================================================
