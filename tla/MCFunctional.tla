---------------------------- MODULE MCFunctional ----------------------------
(***************************************************************************)
(* Functional on a small instance.                                         *)
(***************************************************************************)
EXTENDS Functional

CONSTANTS f, g, x1, x2

TwoSteps == {f, g}
OneStep  == <<f>>
TwoExecutions == {x1, x2}
=============================================================================
