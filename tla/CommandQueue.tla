----------------------------- MODULE CommandQueue -----------------------------
(***************************************************************************)
(* Queues from which some elements are taken while the others keep their   *)
(* order.                                                                  *)
(***************************************************************************)
EXTENDS Integers, Sequences

\* The elements of a queue at some of its places, in their order.
Kept(q, places) ==
  LET kept[i \in 0..Len(q)] ==
        IF i = 0 THEN <<>>
        ELSE IF i \in places THEN Append(kept[i - 1], q[i])
        ELSE kept[i - 1]
  IN kept[Len(q)]
=============================================================================
