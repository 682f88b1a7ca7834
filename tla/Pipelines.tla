------------------------------ MODULE Pipelines ------------------------------
(***************************************************************************)
(* The two ways to use a pipeline side by side: Execute calls under its    *)
(* lifecycle (Pipeline), and several inputs at once (Batches).  Each       *)
(* behaviour is one of a single part; the other stays as it was created.   *)
(***************************************************************************)
EXTENDS Pipeline, Batches

pipelinesVars == <<vars, batchVars>>

PipelinesInit ==
  /\ Init /\ NothingBegun
  /\ impl \in {"none", "pipeline", "async", "calls"}

Singly == impl = "none" /\ Next /\ UNCHANGED batchVars

Batched == impl # "none" /\ BatchesNext /\ UNCHANGED vars

PipelinesNext == Singly \/ Batched

PipelinesSpec ==
  /\ PipelinesInit /\ [][PipelinesNext]_pipelinesVars
  /\ PipelineFairness
  /\ BatchesFairness
=============================================================================
