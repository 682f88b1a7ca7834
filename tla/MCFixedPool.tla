----------------------------- MODULE MCFixedPool -----------------------------
(***************************************************************************)
(* FixedPool on small instances.                                           *)
(***************************************************************************)
EXTENDS FixedPool, TLC

CONSTANTS t1, t2, w1, c1, c2

OneTask      == {t1}
TwoTasks     == {t1, t2}
OneWorker    == {w1}
OneCaller    == {c1}
TwoCallers   == {c1, c2}

\* Three clients at a time: both callers and t1, or both tasks and c1 once the
\* calls of c2 are over.  Only their first steps, which are not fair, are stopped.
ThreeClients == sub[t2] = "idle" \/ call[c2].op = "none"
ClientsSpec == Init /\ [][Next /\ ThreeClients']_vars /\ Fairness

\* Tasks, workers and callers are interchangeable: the code never orders them.
Symmetry == Permutations(Tasks) \cup Permutations(Workers) \cup Permutations(Callers)
=============================================================================
