------------------------------ MODULE MCFailures ------------------------------
(***************************************************************************)
(* Failures with the two built-in handlers and two custom ones of the same *)
(* name; errors of t2 have a Timeout method.                               *)
(***************************************************************************)
EXTENDS Failures, TLC

CONSTANTS failFast, continueOnError, h1, h2, t1, t2

FourHandlers == {failFast, continueOnError, h1, h2}
ThreeNames   == {"FailFast", "ContinueOnError", "custom"}
NameOf == [h \in FourHandlers |-> CASE h = failFast -> "FailFast"
                                    [] h = continueOnError -> "ContinueOnError"
                                    [] OTHER -> "custom"]
=============================================================================
