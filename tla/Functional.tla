----------------------------- MODULE Functional -----------------------------
(***************************************************************************)
(* What a program hands to the library to be called: a process function of *)
(* a FunctionalPipeline made of combinators, as in Calls, or a chain, as   *)
(* in Chains, or a task with a timeout for a pool, as in TimedTask.  Which *)
(* it is is chosen at the beginning; the three share no state.             *)
(***************************************************************************)
EXTENDS Calls, Sequences

CONSTANTS Steps, NoStep, FirstList, MaxChains, MaxAdded, Executions

ASSUME ChainsAssumption ==
  /\ NoStep \notin Steps
  /\ FirstList \in Seq(Steps) /\ FirstList # <<>>
  /\ MaxChains \in Nat /\ MaxAdded \in Nat

VARIABLES
  made,                \* what is handed over
  arrays, chains, run, \* Chains
  parent, timeout, exec, helper, merged  \* TimedTask

chainsVars == <<arrays, chains, run>>
taskVars == <<parent, timeout, exec, helper, merged>>
programVars == <<made, vars, chainsVars, taskVars>>

Chained == INSTANCE Chains
Timed == INSTANCE TimedTask

\* What another part chooses in its initial state is nothing to the one in use.
ProgramInit ==
  /\ made \in {"combinators", "chain", "task"}
  /\ Init /\ Chained!Init /\ Timed!Init
  /\ made # "combinators" => inner = "plain" /\ ~timed
  /\ made # "task" => \A x \in Executions : parent[x] = "never"

ProgramNext ==
  \/ made = "combinators" /\ Next /\ UNCHANGED <<made, chainsVars, taskVars>>
  \/ made = "chain" /\ Chained!Next /\ UNCHANGED <<made, vars, taskVars>>
  \/ made = "task" /\ Timed!Next /\ UNCHANGED <<made, vars, chainsVars>>

\* The fairness of a part that is not in use says nothing: it never begins.
Program ==
  /\ ProgramInit /\ [][ProgramNext]_programVars
  /\ Fairness /\ Timed!Fairness
-----------------------------------------------------------------------------
\* A chain with an array of its own runs what was composed, whatever is
\* composed, built or overwritten meanwhile (scalable_chain.go).
RunsWhatWasComposed == Chained!RunsWhatWasComposed

\* Only its own contexts cancel a task with a timeout, and each of them does, and
\* frees the goroutine that joined them (task.go).
DoneForAReason == Timed!DoneForAReason
EndReachesTask == Timed!EndReachesTask
=============================================================================
