------------------------------- MODULE MCTimer -------------------------------
(* Small instances of Timer. *)
EXTENDS Timer

CONSTANTS r1, r2

MCPeriod == [r \in Repeating |-> IF r = r1 THEN 1 ELSE 2]
====
