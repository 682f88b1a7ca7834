------------------------------ MODULE Failures ------------------------------
(***************************************************************************)
(* The parts that deal with failures side by side: the executions of one   *)
(* executor of pkg/retry (RetryExecutor), the delays its policy may        *)
(* compute (Delays), the errors it decides about (RetryErrors), and the    *)
(* handlers of internal/errors (ErrorHandling).  Each behaviour is one of  *)
(* a single part; the other three stay as they were created.               *)
(***************************************************************************)
EXTENDS RetryExecutor, Delays, RetryErrors, ErrorHandling

VARIABLE part

failureVars == <<part, vars, delaysVars, error, handlingVars>>

FailuresInit ==
  /\ part \in {"executor", "delays", "errors", "handlers"}
  /\ Init /\ DelaysInit /\ ErrorsInit /\ HandlingInit
  /\ part # "delays" => strategy = "fibonacci" /\ asked = 1
  /\ part # "errors" => error = <<"other">>
  /\ part # "handlers" => \A c \in Goroutines : handling[c].type = CHOOSE t \in Types : TRUE

Executing == part = "executor" /\ Next /\ UNCHANGED <<part, delaysVars, error, handlingVars>>

Delaying == part = "delays" /\ DelaysNext /\ UNCHANGED <<part, vars, error, handlingVars>>

Deciding == part = "errors" /\ ErrorsNext /\ UNCHANGED <<part, vars, delaysVars, handlingVars>>

Handling == part = "handlers" /\ HandlingNext /\ UNCHANGED <<part, vars, delaysVars, error>>

FailuresNext == Executing \/ Delaying \/ Deciding \/ Handling

FailuresSpec == FailuresInit /\ [][FailuresNext]_failureVars
                /\ \A e \in Executions : WF_vars(Step(e))
=============================================================================
