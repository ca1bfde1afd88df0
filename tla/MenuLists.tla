------------------------------ MODULE MenuLists ------------------------------
(***************************************************************************)
(* Lists whose elements belong to partitions (e.owner): the root menu, and *)
(* the partitions[] it is made of.  Both are recursive functions on the    *)
(* length of the list, for StorageProofs reasons about them by induction.  *)
(***************************************************************************)
EXTENDS Naturals, Sequences

\* The elements of list that p does not own, in their order.
WithoutOwner(list, p) ==
  LET upTo[n \in 0..Len(list)] ==
        IF n = 0 THEN <<>>
        ELSE IF list[n].owner = p THEN upTo[n - 1]
        ELSE Append(upTo[n - 1], list[n])
  IN upTo[Len(list)]

\* The entries of the records of list, those of the last record first.
Blocks(list) ==
  LET upTo[n \in 0..Len(list)] == IF n = 0 THEN <<>> ELSE list[n].entries \o upTo[n - 1]
  IN upTo[Len(list)]
=============================================================================
