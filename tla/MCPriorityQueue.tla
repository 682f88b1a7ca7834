--------------------------- MODULE MCPriorityQueue ---------------------------
(***************************************************************************)
(* PriorityQueue on small instances.  Tasks differ only in their data, so  *)
(* they are interchangeable.                                               *)
(***************************************************************************)
EXTENDS PriorityQueue, TLC

CONSTANTS t1, t2, t3, t4

FourTasks == {t1, t2, t3, t4}

Symmetry == Permutations(PriorityTasks)
=============================================================================
