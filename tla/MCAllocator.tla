----------------------------- MODULE MCAllocator -----------------------------
(* Small instances of Allocator. *)
EXTENDS Allocator

MCTop    == [p \in Pools |-> IF p = "MEM1" THEN 16 ELSE 32]
MCBottom == [p \in Pools |-> IF p = "MEM1" THEN 6 ELSE 18]
MCReserved == {[start |-> 24, size |-> 2]}
MCAvoids == {{[start |-> 12, size |-> 1]}, {[start |-> 20, size |-> 2], [start |-> 8, size |-> 1]}}
=============================================================================
