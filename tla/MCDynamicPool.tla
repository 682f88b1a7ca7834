---------------------------- MODULE MCDynamicPool ----------------------------
(***************************************************************************)
(* DynamicPool on small instances.  Workers are numbered, so only tasks    *)
(* and callers are interchangeable.                                        *)
(***************************************************************************)
EXTENDS DynamicPool, TLC

CONSTANTS t1, c1, c2

OneTask    == {t1}
OneToTwo   == 1..2
TwoCallers == {c1, c2}

Symmetry == Permutations(Tasks) \cup Permutations(Callers)
=============================================================================
