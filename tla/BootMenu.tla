------------------------------ MODULE BootMenu ------------------------------
(***************************************************************************)
(* What the menu promises: entries arrive and leave by partition, all of   *)
(* them in one step; and a program is started only for an entry that was   *)
(* in the menu when it was chosen, by the user or by the countdown, and    *)
(* whose boot has not failed since.                                        *)
(***************************************************************************)
EXTENDS Integers, Sequences, SequencesExt, MenuLists

CONSTANTS Owners, None     \* partitions; no program

VARIABLES menu, chosen, program

vars == <<menu, chosen, program>>

Init == menu = <<>> /\ chosen = {} /\ program = None

\* Partition p is added in front of the others.
Attach(p) ==
  LET added == Len(menu') - Len(menu) IN
  /\ added > 0
  /\ \A i \in 1..added : menu'[i].owner = p
  /\ \A i \in 1..Len(menu) : menu'[added + i] = menu[i]
  /\ UNCHANGED <<chosen, program>>

\* It goes with all its entries, and takes no other with it.
Detach(p) ==
  /\ menu' = WithoutOwner(menu, p)
  /\ UNCHANGED <<chosen, program>>

Choose == /\ \E e \in ToSet(menu) : chosen' = chosen \cup {e}
          /\ UNCHANGED <<menu, program>>

Abandon == chosen' \in SUBSET chosen /\ UNCHANGED <<menu, program>>

Start == /\ program = None /\ program' \in chosen
         /\ chosen' = {} /\ UNCHANGED menu

Next == (\E p \in Owners : Attach(p) \/ Detach(p)) \/ Choose \/ Abandon \/ Start

Spec == Init /\ [][Next]_vars
=============================================================================
