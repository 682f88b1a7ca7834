--------------------------- MODULE PipelineProofs ---------------------------
(***************************************************************************)
(* Theorems about Pipeline, for any jobs, callers, retries and policies,   *)
(* and about Batches, for any inputs, workers and semaphore: each of the   *)
(* three that serve the inputs does what BatchContract says, step by step. *)
(***************************************************************************)
EXTENDS Pipeline, Batches, FunctionTheorems, FiniteSetTheorems, SequenceTheorems, TLAPS

\* A job that may still call its process function has a call left.
MayRetry == {"ready", "select", "parked"}
HasCallLeft(j) ==
  /\ tries[j] < MaxTries
  /\ PolicyMax # 0 => tries[j] <= PolicyMax

JobsInv ==
  /\ job \in [Jobs -> JobPC]
  /\ tries \in [Jobs -> Nat]
  /\ \A j \in Jobs : job[j] = "idle" => tries[j] = 0
  /\ \A j \in Jobs : job[j] \in MayRetry => HasCallLeft(j)

IInv == JobsInv /\ AttemptsBounded /\ state \in 0..3

LEMMA MaxTriesType == MaxTries \in Nat \ {0}
  BY PipelineAssumption DEF MaxTries

LEMMA InitIInv == Init => IInv
  BY MaxTriesType, PipelineAssumption
  DEF Init, IInv, JobsInv, AttemptsBounded, JobPC, MayRetry

-----------------------------------------------------------------------------
\* A job that moves without a call of its process function: it must have a call
\* left if it may retry where it goes.
LEMMA MoveKeeps ==
  ASSUME JobsInv, AttemptsBounded, UNCHANGED tries,
         NEW j \in Jobs, NEW to \in JobPC \ {"idle"},
         job' = [job EXCEPT ![j] = to],
         to \in MayRetry => HasCallLeft(j)
  PROVE  JobsInv' /\ AttemptsBounded'
<1>1. job' \in [Jobs -> JobPC] BY DEF JobsInv
<1>2. AttemptsBounded' BY DEF AttemptsBounded, MaxTries
<1>3. \A i \in Jobs : job'[i] = IF i = j THEN to ELSE job[i] BY DEF JobsInv
<1>4. \A i \in Jobs : HasCallLeft(i)' <=> HasCallLeft(i)
  BY DEF HasCallLeft, MaxTries
<1> QED BY <1>1, <1>2, <1>3, <1>4 DEF JobsInv

\* Jobs that are woken together cannot retry any more.
LEMMA WakeKeeps ==
  ASSUME JobsInv, AttemptsBounded, UNCHANGED tries,
         job' = [j \in Jobs |-> IF job[j] = "parked" THEN "signalled" ELSE job[j]]
  PROVE  JobsInv' /\ AttemptsBounded'
<1>1. job' \in [Jobs -> JobPC] BY DEF JobsInv, JobPC
<1>2. AttemptsBounded' BY DEF AttemptsBounded, MaxTries
<1>3. \A i \in Jobs : HasCallLeft(i)' <=> HasCallLeft(i)
  BY DEF HasCallLeft, MaxTries
<1>4. \A i \in Jobs : job'[i] \in MayRetry \cup {"idle"} => job'[i] = job[i]
  BY DEF MayRetry, JobsInv
<1> QED BY <1>1, <1>2, <1>3, <1>4 DEF JobsInv

LEMMA NothingMoves ==
  ASSUME JobsInv, AttemptsBounded, UNCHANGED <<job, tries>>
  PROVE  JobsInv' /\ AttemptsBounded'
  BY DEF JobsInv, AttemptsBounded, HasCallLeft, MaxTries

LEMMA ExecuteKeeps ==
  ASSUME NEW j \in Jobs, JobsInv, AttemptsBounded, Execute(j)
  PROVE  JobsInv' /\ AttemptsBounded'
<1>1. PICK to \in {"closed", "stopped", "ready"} : Move(j, "idle", to) /\ UNCHANGED tries
  BY DEF Execute
<1>2. HasCallLeft(j)
  BY <1>1, MaxTriesType, PipelineAssumption DEF Move, JobsInv, HasCallLeft
<1> QED BY <1>1, <1>2, MoveKeeps DEF Move, JobPC, Results

\* The one step that counts: there was a call left.
LEMMA AttemptKeeps ==
  ASSUME NEW j \in Jobs, JobsInv, AttemptsBounded, Attempt(j)
  PROVE  JobsInv' /\ AttemptsBounded'
<1>1. job[j] = "ready" /\ job' = [job EXCEPT ![j] = "running"]
      /\ tries' = [tries EXCEPT ![j] = tries[j] + 1]
  BY DEF Attempt, Move
<1>2. HasCallLeft(j) BY <1>1 DEF JobsInv, MayRetry
<1>3. /\ job' \in [Jobs -> JobPC] /\ job'[j] = "running"
      /\ \A i \in Jobs \ {j} : job'[i] = job[i]
  BY <1>1 DEF JobsInv, JobPC
<1>4. tries[j] \in Nat BY DEF JobsInv
<1>5. /\ tries' \in [Jobs -> Nat] /\ tries'[j] = tries[j] + 1
      /\ \A i \in Jobs \ {j} : tries'[i] = tries[i]
  BY <1>1, <1>4 DEF JobsInv
<1>6. \A i \in Jobs \ {j} : HasCallLeft(i)' <=> HasCallLeft(i)
  BY <1>5 DEF HasCallLeft, MaxTries
<1>7. JobsInv' BY <1>3, <1>5, <1>6 DEF JobsInv, MayRetry
<1>8. tries'[j] <= MaxTries /\ (PolicyMax # 0 => tries'[j] <= PolicyMax + 1)
  BY <1>2, <1>4, <1>5, MaxTriesType, PipelineAssumption DEF HasCallLeft
<1>9. AttemptsBounded' BY <1>5, <1>8 DEF AttemptsBounded, MaxTries
<1> QED BY <1>7, <1>9

\* A job goes on retrying only when configuration and policy leave it a call.
LEMMA FailKeeps ==
  ASSUME NEW j \in Jobs, JobsInv, AttemptsBounded, Fail(j)
  PROVE  JobsInv' /\ AttemptsBounded'
<1>1. UNCHANGED tries BY DEF Fail
<1>2. CASE Move(j, "running", "failed")
  BY <1>1, <1>2, MoveKeeps DEF Move, JobPC, Results, MayRetry
<1>3. CASE RetriesLeft(j) /\ PolicyAllows(j)
           /\ \E to \in {"select", "ready"} : Move(j, "running", to)
  <2>1. tries[j] \in Nat BY DEF JobsInv
  <2>2. HasCallLeft(j)
    BY <1>3, <2>1, PipelineAssumption, MaxTriesType
    DEF RetriesLeft, PolicyAllows, HasCallLeft
  <2>3. PICK to \in {"select", "ready"} : Move(j, "running", to) BY <1>3
  <2> QED BY <1>1, <2>2, <2>3, MoveKeeps DEF Move, JobPC
<1> QED BY <1>2, <1>3 DEF Fail

LEMMA JobStepKeeps ==
  ASSUME NEW j \in Jobs, JobsInv, AttemptsBounded, JobStep(j)
  PROVE  JobsInv' /\ AttemptsBounded'
<1>1. CASE Attempt(j) BY <1>1, AttemptKeeps
<1>2. CASE Succeed(j)
  BY <1>2, MoveKeeps DEF Succeed, Move, JobPC, Results, MayRetry
<1>3. CASE Fail(j) BY <1>3, FailKeeps
<1>4. CASE Fire(j)
  <2>1. CASE Move(j, "parked", "ready") /\ UNCHANGED tries
    <3>1. HasCallLeft(j) BY <2>1 DEF Move, JobsInv, MayRetry
    <3> QED BY <2>1, <3>1, MoveKeeps DEF Move, JobPC
  <2>2. CASE UNCHANGED <<job, tries>> BY <2>2, NothingMoves
  <2> QED BY <1>4, <2>1, <2>2 DEF Fire
<1>5. CASE SelectReady(j)
  <2>1. PICK to \in {"ready", "ctx", "signalled"} : Move(j, "select", to) /\ UNCHANGED tries
    BY <1>5 DEF SelectReady
  <2>2. HasCallLeft(j) BY <2>1 DEF Move, JobsInv, MayRetry
  <2> QED BY <2>1, <2>2, MoveKeeps DEF Move, JobPC, Results
<1>6. CASE Park(j)
  <2>1. Move(j, "select", "parked") /\ UNCHANGED tries BY <1>6 DEF Park
  <2>2. HasCallLeft(j) BY <2>1 DEF Move, JobsInv, MayRetry
  <2> QED BY <2>1, <2>2, MoveKeeps DEF Move, JobPC
<1>7. CASE Signalled(j)
  <2>1. PICK to \in {"ctx", "stopped"} : Move(j, "signalled", to) /\ UNCHANGED tries
    BY <1>7 DEF Signalled
  <2> QED BY <2>1, MoveKeeps DEF Move, JobPC, Results, MayRetry
<1> QED BY <1>1, <1>2, <1>3, <1>4, <1>5, <1>6, <1>7 DEF JobStep

LEMMA ExpireKeeps ==
  ASSUME NEW j \in Jobs, JobsInv, AttemptsBounded, Expire(j)
  PROVE  JobsInv' /\ AttemptsBounded'
<1>1. job' = [job EXCEPT ![j] = IF job[j] = "parked" THEN "ctx" ELSE job[j]]
      /\ UNCHANGED tries
  BY DEF Expire
<1>2. CASE job[j] = "parked"
  BY <1>1, <1>2, MoveKeeps DEF JobPC, Results, MayRetry
<1>3. CASE job[j] # "parked"
  <2>1. job' = job BY <1>1, <1>3 DEF JobsInv
  <2> QED BY <1>1, <2>1, NothingMoves
<1> QED BY <1>2, <1>3

\* Of the calls, only the stop signal and the closed channel move jobs.
LEMMA CallerKeeps ==
  ASSUME NEW c \in Callers, JobsInv, AttemptsBounded,
         Start(c) \/ StopLoad(c) \/ Close(c) \/ CallerStep(c)
  PROVE  JobsInv' /\ AttemptsBounded'
<1>1. CASE StopSignal(c)
  <2>1. CASE \E j \in Jobs : Move(j, "parked", "signalled")
    <3>1. PICK j \in Jobs : Move(j, "parked", "signalled") BY <2>1
    <3>2. UNCHANGED tries BY <1>1 DEF StopSignal
    <3> QED BY <3>1, <3>2, MoveKeeps DEF Move, JobPC, MayRetry
  <2>2. CASE UNCHANGED <<job, tries>> BY <2>2, NothingMoves
  <2> QED BY <1>1, <2>1, <2>2 DEF StopSignal
<1>2. CASE CloseChan(c) BY <1>2, WakeKeeps DEF CloseChan
<1>3. CASE Start(c) \/ StopLoad(c) \/ Close(c) \/ CloseStore(c) \/ StopCasRunning(c) \/ StopCasCreated(c)
  <2>1. UNCHANGED <<job, tries>>
    BY <1>3 DEF Start, StopLoad, Close, CloseStore, StopCasRunning, StopCasCreated, jobVars
  <2> QED BY <2>1, NothingMoves
<1> QED BY <1>1, <1>2, <1>3 DEF CallerStep

\* Every atomic operation on the state moves it up, or not at all.
LEMMA StateGrows ==
  ASSUME state \in 0..3, [Next]_vars
  PROVE  state' \in 0..3 /\ state' >= state
<1>1. ASSUME NEW j \in Jobs, Execute(j) \/ Expire(j) \/ JobStep(j)
      PROVE state' = state
  BY <1>1 DEF Execute, Expire, JobStep, Attempt, Succeed, Fail, Fire, SelectReady,
              Park, Signalled, lifeVars
<1>2. ASSUME NEW c \in Callers,
             Start(c) \/ StopLoad(c) \/ Close(c) \/ CallerStep(c)
      PROVE state' \in 0..3 /\ state' >= state
  BY <1>2 DEF Start, StopLoad, Close, CloseStore, CallerStep, StopCasRunning,
              StopCasCreated, StopSignal, CloseChan
<1>3. CASE UNCHANGED vars BY <1>3 DEF vars
<1> QED BY <1>1, <1>2, <1>3 DEF Next

-----------------------------------------------------------------------------
LEMMA StepIInv == IInv /\ [Next]_vars => IInv'
<1> SUFFICES ASSUME IInv, [Next]_vars PROVE IInv' OBVIOUS
<1>1. state' \in 0..3 BY StateGrows DEF IInv
<1>2. ASSUME NEW j \in Jobs, Execute(j) \/ Expire(j) \/ JobStep(j)
      PROVE JobsInv' /\ AttemptsBounded'
  BY <1>2, ExecuteKeeps, ExpireKeeps, JobStepKeeps DEF IInv
<1>3. ASSUME NEW c \in Callers,
             Start(c) \/ StopLoad(c) \/ Close(c) \/ CallerStep(c)
      PROVE JobsInv' /\ AttemptsBounded'
  BY <1>3, CallerKeeps DEF IInv
<1>4. CASE UNCHANGED vars BY <1>1, <1>4, NothingMoves DEF vars, IInv
<1>5. CASE Next
  <2>1. CASE \E j \in Jobs : Execute(j) \/ Expire(j) \/ JobStep(j)
    BY <1>1, <1>2, <2>1 DEF IInv
  <2>2. CASE \E c \in Callers :
               Start(c) \/ StopLoad(c) \/ Close(c) \/ CallerStep(c)
    BY <1>1, <1>3, <2>2 DEF IInv
  <2> QED BY <1>5, <2>1, <2>2 DEF Next
<1> QED BY <1>1, <1>4, <1>5 DEF IInv

\* However the waits of a job end, it calls its process function no more often
\* than its configuration and its policy allow (executeWithRetry).
THEOREM AttemptsAreBounded == Spec => []AttemptsBounded
<1>1. Spec => []IInv BY InitIInv, StepIInv, PTL DEF Spec
<1> QED BY <1>1, PTL DEF IInv

\* The lifecycle never goes back, wherever the atomic operations of Start, Stop
\* and Close interleave (pipeline.Start, pipeline.Stop, pipeline.Close).
THEOREM GoesForward == Spec => NeverBack
<1>1. Spec => []IInv BY InitIInv, StepIInv, PTL DEF Spec
<1>2. IInv /\ [Next]_vars => [state' >= state]_state
  BY StateGrows DEF IInv
<1> QED BY <1>1, <1>2, PTL DEF Spec, NeverBack
-----------------------------------------------------------------------------
\* What is executed of each implementation, and how much at a time.
LEMMA ExecutingIs ==
  /\ impl = "pipeline" => Executing = Pipelined!Executing /\ Limit = Cardinality(Workers)
  /\ impl = "async" => Executing = Async!Executing /\ Limit = Concurrency
  /\ impl = "calls" => Executing = Single!Executing /\ Limit = N
BY DEF Executing, Limit

LEMMA NextExecuting ==
  ASSUME impl' = impl
  PROVE  /\ impl = "pipeline" => Executing' = Pipelined!Executing'
         /\ impl = "async" => Executing' = Async!Executing'
         /\ impl = "calls" => Executing' = Single!Executing'
         /\ Limit' = Limit
BY DEF Executing, Limit

\* A batch serves some number of inputs at a time.
LEMMA LimitType == impl \in {"pipeline", "async", "calls"} => Limit \in Nat
  BY ExecutingIs, BatchesAssumption, FS_CardinalityType

Keeps == /\ impl' = impl
         /\ begun' = begun \cup Executing'

\* A step of the contract, or none.
ContractStep == Contract!Next \/ UNCHANGED Contract!vars

\* The contract counts as Batches does.
LEMMA SameCardinality == ASSUME NEW S PROVE Contract!Cardinality(S) = Cardinality(S)
  BY DEF Contract!Cardinality, Cardinality

\* The sets of the inputs that are executed.
LEMMA InstancesAgree ==
  /\ Single!Inputs = Inputs /\ Async!Inputs = Inputs /\ Pipelined!Inputs = Inputs
  /\ Single!Executing = {i \in Inputs : async[i] = "execute"}
  /\ Single!Executing' = {i \in Inputs : async'[i] = "execute"}
  /\ Async!Executing = {i \in Inputs : task[i] = "execute"}
  /\ Async!Executing' = {i \in Inputs : task'[i] = "execute"}
BY DEF Single!Inputs, Async!Inputs, Pipelined!Inputs, Inputs, Single!Executing, Async!Executing

\* What the steps of an implementation are to the contract.
LEMMA BeginStep ==
  ASSUME Keeps, NEW i \in Inputs, i \notin begun, Executing \subseteq begun,
         Executing' = Executing \cup {i}, Cardinality(Executing) < Limit,
         UNCHANGED <<got, ctxDone, closed>>
  PROVE  Contract!Next /\ begun' = begun \cup {i}
<1>1. begun' = begun \cup {i} BY DEF Keeps
<1>2. Limit' = Limit BY NextExecuting DEF Keeps
<1>3. Contract!Begin(i) BY <1>1, <1>2, SameCardinality DEF Contract!Begin, Keeps
<1> QED BY <1>1, <1>3 DEF Contract!Next

LEMMA EndStep ==
  ASSUME Keeps, NEW i \in Inputs, i \in Executing, Executing \subseteq begun,
         Executing' = Executing \ {i}, UNCHANGED <<got, ctxDone, closed>>
  PROVE  Contract!Next /\ begun' = begun
<1>1. begun' = begun BY DEF Keeps
<1>2. Limit' = Limit BY NextExecuting DEF Keeps
<1>3. Contract!End(i) BY <1>1, <1>2 DEF Contract!End, Keeps
<1> QED BY <1>1, <1>3 DEF Contract!Next

LEMMA DeliverStep ==
  ASSUME Keeps, NEW i \in Inputs, i \in begun, i \notin Executing, Executing \subseteq begun,
         ~closed, got[i] = <<>>, got' = [got EXCEPT ![i] = <<i>>],
         Executing' = Executing, UNCHANGED <<ctxDone, closed>>
  PROVE  Contract!Next /\ begun' = begun
<1>1. begun' = begun BY DEF Keeps
<1>2. Limit' = Limit BY NextExecuting DEF Keeps
<1>3. Contract!Deliver(i) BY <1>1, <1>2 DEF Contract!Deliver, Keeps
<1> QED BY <1>1, <1>3 DEF Contract!Next

LEMMA CancelStep ==
  ASSUME Keeps, Executing \subseteq begun, ~ctxDone, ctxDone' = TRUE,
         Executing' = Executing, UNCHANGED <<got, closed>>
  PROVE  Contract!Next /\ begun' = begun
<1>1. begun' = begun BY DEF Keeps
<1>2. Limit' = Limit BY NextExecuting DEF Keeps
<1>3. Contract!Cancel BY <1>1, <1>2 DEF Contract!Cancel, Keeps
<1> QED BY <1>1, <1>3 DEF Contract!Next

LEMMA CloseStep ==
  ASSUME Keeps, ~closed, closed' = TRUE, Executing = {}, Executing' = Executing,
         (impl # "calls" /\ ctxDone) \/ \A i \in Inputs : got[i] # <<>>,
         UNCHANGED <<got, ctxDone>>
  PROVE  Contract!Next /\ begun' = begun
<1>1. begun' = begun BY DEF Keeps
<1>2. Limit' = Limit BY NextExecuting DEF Keeps
<1>3. Contract!Close BY <1>1, <1>2 DEF Contract!Close, Keeps
<1> QED BY <1>1, <1>3 DEF Contract!Next

LEMMA NoStep ==
  ASSUME Keeps, Executing \subseteq begun, Executing' = Executing,
         UNCHANGED <<got, ctxDone, closed>>
  PROVE  UNCHANGED Contract!vars /\ begun' = begun
<1>1. begun' = begun BY DEF Keeps
<1>2. Limit' = Limit BY NextExecuting DEF Keeps
<1> QED BY <1>1, <1>2 DEF Contract!vars, Keeps
-----------------------------------------------------------------------------
\* What the reader of a batch sees, in all three.
SeenTypes ==
  /\ begun \in SUBSET Inputs /\ got \in [Inputs -> Seq(Nat)]
  /\ ctxDone \in BOOLEAN /\ closed \in BOOLEAN

PooledResults == [index : Nat, value : Nat]

\* Of AsyncCalls: a call has a result when it has sent one, once.
CallsInv ==
  /\ async \in [Inputs -> {"idle", "execute", "send", "close", "closed"}]
  /\ pooled \in [Inputs -> PooledResults]
  /\ \A i \in Inputs :
       /\ i \in begun <=> async[i] # "idle"
       /\ async[i] \in {"idle", "execute", "send"} <=> got[i] = <<>>
       /\ async[i] = "send" => pooled[i] = [index |-> i, value |-> i]
  /\ closed => \A i \in Inputs : async[i] = "closed"

\* A result that is filled, and one that is reset.
LEMMA FilledIs == \A i \in Inputs : /\ Filled(i) = [index |-> i, value |-> i]
                                    /\ Filled(i) \in PooledResults
<1> SUFFICES ASSUME NEW i \in Inputs
             PROVE  Filled(i) = [index |-> i, value |-> i] /\ Filled(i) \in PooledResults
  OBVIOUS
<1>1. i \in Nat BY BatchesAssumption DEF Inputs
<1>2. PICK z : z = [index |-> 1, value |-> NoValue] OBVIOUS
<1>3. PICK y : y = [z EXCEPT !.index = i] OBVIOUS
<1>4. PICK x : x = [y EXCEPT !.value = i] OBVIOUS
<1>5. y = [index |-> i, value |-> NoValue] BY <1>2, <1>3
<1>6. x = [index |-> i, value |-> i] BY <1>4, <1>5
<1>7. Filled(i) = x BY <1>2, <1>3, <1>4 DEF Filled, GetPooledBatchResult, Zero
<1> QED BY <1>1, <1>6, <1>7 DEF PooledResults

LEMMA PutIs == \A r \in PooledResults : Put(r) \in PooledResults
  BY DEF Put, PooledResults, NoValue

LEMMA AppendFirst == \A i \in Inputs : Append(<<>>, i) = <<i>> /\ <<i>> # <<>> /\ <<i>> \in Seq(Nat)
  BY BatchesAssumption DEF Inputs

\* The first result of an input.
LEMMA SentIs ==
  ASSUME NEW i \in Inputs, got[i] = <<>>, NEW r, r = [index |-> i, value |-> i]
  PROVE  Sent(got, r) = [got EXCEPT ![i] = <<i>>]
<1>1. r.index = i /\ r.value = i OBVIOUS
<1>2. Sent(got, r) = [got EXCEPT ![i] = Append(got[i], i)] BY ONLY <1>1 DEF Sent
<1>3. Append(got[i], i) = <<i>> BY AppendFirst
<1> QED BY <1>2, <1>3

LEMMA InputsFinite == IsFiniteSet(Inputs) /\ Cardinality(Inputs) = N /\ N \in Nat
  BY FS_Interval, BatchesAssumption DEF Inputs

\* A step of one call.
LEMMA CallMoves ==
  ASSUME CallsInv, NEW i \in Inputs, NEW from, NEW to, Single!Move(i, from, to)
  PROVE  /\ async[i] = from
         /\ \A j \in Inputs : async'[j] = IF j = i THEN to ELSE async[j]
         /\ to \in {"idle", "execute", "send", "close", "closed"} =>
              async' \in [Inputs -> {"idle", "execute", "send", "close", "closed"}]
BY DEF CallsInv, Single!Move

LEMMA CallsStep ==
  ASSUME impl = "calls", SeenTypes, CallsInv, Keeps, Single!Next
  PROVE  SeenTypes' /\ CallsInv' /\ ContractStep
<1>1. Executing = Single!Executing /\ Limit = N /\ Executing' = Single!Executing'
  BY ExecutingIs, NextExecuting DEF Keeps
<1>i. /\ Executing = {i \in Inputs : async[i] = "execute"}
      /\ Executing' = {i \in Inputs : async'[i] = "execute"}
      /\ Single!Inputs = Inputs
  BY <1>1, InstancesAgree
<1>2. Executing \subseteq begun BY <1>i DEF CallsInv
<1>3. CASE Single!Cancel
  <2>1. /\ ~ctxDone /\ ctxDone' = TRUE
        /\ async' = async /\ pooled' = pooled /\ got' = got /\ closed' = closed
    BY <1>3 DEF Single!Cancel
  <2>2. Executing' = Executing BY <1>i, <2>1
  <2>3. Contract!Next /\ begun' = begun BY <1>2, <2>1, <2>2, CancelStep
  <2> QED BY <2>1, <2>3 DEF SeenTypes, CallsInv, ContractStep
<1>4. ASSUME NEW i \in Inputs, Single!ExecuteAsync(i)
      PROVE  SeenTypes' /\ CallsInv' /\ ContractStep
  <2>1. Single!Move(i, "idle", "execute") /\ UNCHANGED <<pooled, got, ctxDone, closed>>
    BY <1>4 DEF Single!ExecuteAsync
  <2>2. /\ async[i] = "idle"
        /\ \A j \in Inputs : async'[j] = IF j = i THEN "execute" ELSE async[j]
        /\ async' \in [Inputs -> {"idle", "execute", "send", "close", "closed"}]
    BY <2>1, CallMoves
  <2>3. Executing' = Executing \cup {i} BY <1>i, <2>2
  <2>4. i \notin begun BY <2>2 DEF CallsInv
  <2>5. Cardinality(Executing) < Limit
    <3>1. Executing \subseteq Inputs \ {i} BY <1>i, <2>2
    <3>2. IsFiniteSet(Inputs \ {i}) /\ Cardinality(Inputs \ {i}) = N - 1
      BY InputsFinite, FS_RemoveElement
    <3>3. Cardinality(Executing) <= N - 1 BY <3>1, <3>2, FS_Subset
    <3>4. Cardinality(Executing) \in Nat BY <3>1, <3>2, FS_Subset, FS_CardinalityType
    <3> QED BY <1>1, <3>3, <3>4, InputsFinite
  <2>6. Contract!Next /\ begun' = begun \cup {i}
    BY <1>2, <2>1, <2>3, <2>4, <2>5, BeginStep
  <2>7. SeenTypes' BY <2>1, <2>6 DEF SeenTypes
  <2>8. CallsInv' BY <2>1, <2>2, <2>6 DEF CallsInv
  <2> QED BY <2>6, <2>7, <2>8 DEF ContractStep
<1>5. ASSUME NEW i \in Inputs, Single!Execute(i)
      PROVE  SeenTypes' /\ CallsInv' /\ ContractStep
  <2>1. /\ Single!Move(i, "execute", "send") /\ UNCHANGED <<got, ctxDone, closed>>
        /\ pooled' = [pooled EXCEPT ![i] = Filled(i)]
    BY <1>5 DEF Single!Execute, Single!Filled, Single!GetPooledBatchResult, Single!Zero, Single!NoValue,
                Filled, GetPooledBatchResult, Zero, NoValue
  <2>2. /\ async[i] = "execute"
        /\ \A j \in Inputs : async'[j] = IF j = i THEN "send" ELSE async[j]
        /\ async' \in [Inputs -> {"idle", "execute", "send", "close", "closed"}]
    BY <2>1, CallMoves
  <2>3. Executing' = Executing \ {i} /\ i \in Executing BY <1>i, <2>2
  <2>4. Contract!Next /\ begun' = begun BY <1>2, <2>1, <2>3, EndStep
  <2>5. SeenTypes' BY <2>1, <2>4 DEF SeenTypes
  <2>6. /\ pooled' \in [Inputs -> PooledResults]
        /\ pooled'[i] = [index |-> i, value |-> i]
        /\ \A j \in Inputs : j # i => pooled'[j] = pooled[j]
    BY <2>1, FilledIs DEF CallsInv
  <2>7. CallsInv' BY <2>1, <2>2, <2>4, <2>6 DEF CallsInv
  <2> QED BY <2>4, <2>5, <2>7 DEF ContractStep
<1>6. ASSUME NEW i \in Inputs, Single!Deliver(i)
      PROVE  SeenTypes' /\ CallsInv' /\ ContractStep
  <2>1. /\ Single!Move(i, "send", "close") /\ UNCHANGED <<ctxDone, closed>>
        /\ got' = [got EXCEPT ![i] = Append(@, pooled[i].value)]
        /\ pooled' = [pooled EXCEPT ![i] = Put(@)]
    BY <1>6 DEF Single!Deliver, Single!Answer, Single!Put, Put, Single!NoValue, NoValue
  <2>2. /\ async[i] = "send"
        /\ \A j \in Inputs : async'[j] = IF j = i THEN "close" ELSE async[j]
        /\ async' \in [Inputs -> {"idle", "execute", "send", "close", "closed"}]
    BY <2>1, CallMoves
  <2>3. Executing' = Executing /\ i \notin Executing BY <1>i, <2>2
  <2>4. i \in begun /\ got[i] = <<>> /\ pooled[i] = [index |-> i, value |-> i] /\ ~closed
    BY <2>2 DEF CallsInv
  <2>5. got' = [got EXCEPT ![i] = <<i>>] BY <2>1, <2>4, AppendFirst
  <2>6. Contract!Next /\ begun' = begun BY <1>2, <2>1, <2>3, <2>4, <2>5, DeliverStep
  <2>7. SeenTypes' /\ got'[i] # <<>> /\ \A j \in Inputs : j # i => got'[j] = got[j]
    BY <2>1, <2>5, <2>6, AppendFirst DEF SeenTypes
  <2>8. /\ pooled' \in [Inputs -> PooledResults]
        /\ \A j \in Inputs : j # i => pooled'[j] = pooled[j]
    BY <2>1, PutIs DEF CallsInv
  <2>9. CallsInv' BY <2>1, <2>2, <2>4, <2>6, <2>7, <2>8 DEF CallsInv
  <2> QED BY <2>6, <2>7, <2>9 DEF ContractStep
<1>7. ASSUME NEW i \in Inputs, Single!Close(i)
      PROVE  SeenTypes' /\ CallsInv' /\ ContractStep
  <2>1. /\ Single!Move(i, "close", "closed") /\ UNCHANGED <<pooled, got, ctxDone>>
        /\ closed' = \A j \in Inputs \ {i} : async[j] = "closed"
    BY <1>7, <1>i DEF Single!Close
  <2>2. /\ async[i] = "close"
        /\ \A j \in Inputs : async'[j] = IF j = i THEN "closed" ELSE async[j]
        /\ async' \in [Inputs -> {"idle", "execute", "send", "close", "closed"}]
    BY <2>1, CallMoves
  <2>3. Executing' = Executing /\ ~closed BY <1>i, <2>2 DEF CallsInv
  <2>4. CASE ~closed'
    <3>1. closed' = closed BY <2>1, <2>3, <2>4 DEF SeenTypes
    <3>2. UNCHANGED Contract!vars /\ begun' = begun BY <1>2, <2>1, <2>3, <3>1, NoStep
    <3>3. SeenTypes' BY <2>1, <3>1, <3>2 DEF SeenTypes
    <3>4. CallsInv' BY <2>1, <2>2, <2>4, <3>2 DEF CallsInv
    <3> QED BY <3>2, <3>3, <3>4 DEF ContractStep
  <2>5. CASE closed'
    <3>1. closed' = TRUE BY <2>1, <2>5
    <3>2. \A j \in Inputs : async[j] \in {"close", "closed"} BY <2>1, <2>2, <2>5
    <3>3. Executing = {} BY <1>i, <3>2
    <3>4. \A j \in Inputs : got[j] # <<>> BY <3>2 DEF CallsInv
    <3>5. Contract!Next /\ begun' = begun BY <2>1, <2>3, <3>1, <3>3, <3>4, CloseStep
    <3>6. SeenTypes' BY <2>1, <3>1, <3>5 DEF SeenTypes
    <3>7. CallsInv' BY <2>1, <2>2, <2>5, <3>5 DEF CallsInv
    <3> QED BY <3>5, <3>6, <3>7 DEF ContractStep
  <2> QED BY <2>4, <2>5
<1> QED BY <1>3, <1>4, <1>5, <1>6, <1>7 DEF Single!Next, Single!CallStep, Single!Inputs, Inputs
-----------------------------------------------------------------------------
TaskPCs == {"acquire", "execute", "send", "release", "done"}

Placed == {i \in Inputs : task[i] \in {"execute", "send", "release"}}

\* Of AsyncBatch: the places of the semaphore are those of the goroutines that
\* have not released theirs.
AsyncInv ==
  /\ task \in [Inputs -> TaskPCs]
  /\ pooled \in [Inputs -> PooledResults]
  /\ semaphore = Cardinality(Placed)
  /\ \A i \in Inputs :
       /\ i \in begun <=> task[i] # "acquire"
       /\ task[i] \in {"acquire", "execute", "send"} => got[i] = <<>>
       /\ task[i] = "send" => pooled[i] = [index |-> i, value |-> i]
       /\ task[i] \in {"release", "done"} => ctxDone \/ got[i] # <<>>
  /\ closed => \A i \in Inputs : task[i] = "done"

\* A step of one goroutine.
LEMMA TaskMoves ==
  ASSUME AsyncInv, NEW i \in Inputs, NEW from, NEW to \in TaskPCs, Async!Move(i, from, to)
  PROVE  /\ task[i] = from
         /\ \A j \in Inputs : task'[j] = IF j = i THEN to ELSE task[j]
         /\ task' \in [Inputs -> TaskPCs]
BY DEF AsyncInv, Async!Move

\* The places of the semaphore can be counted.
LEMMA PlacedFinite == IsFiniteSet(Placed) /\ Cardinality(Placed) \in Nat
  BY InputsFinite, FS_Subset, FS_CardinalityType DEF Placed

\* What AsyncBatch takes from the pool.
LEMMA AsyncSame ==
  /\ Async!Inputs = Inputs
  /\ \A i : Async!Filled(i) = Filled(i)
  /\ \A r : Async!Put(r) = Put(r)
BY DEF Async!Inputs, Inputs, Async!Filled, Filled, Async!GetPooledBatchResult, GetPooledBatchResult,
       Async!Zero, Zero, Async!NoValue, NoValue, Async!Put, Put

LEMMA AsyncStep ==
  ASSUME impl = "async", SeenTypes, AsyncInv, Keeps, Async!Next
  PROVE  SeenTypes' /\ AsyncInv' /\ ContractStep
<1>1. /\ Limit = Concurrency
      /\ Executing = {i \in Inputs : task[i] = "execute"}
      /\ Executing' = {i \in Inputs : task'[i] = "execute"}
  BY ExecutingIs, NextExecuting, InstancesAgree DEF Keeps
<1>2. Executing \subseteq begun BY <1>1 DEF AsyncInv
<1>3. ASSUME UNCHANGED <<task, semaphore, pooled, got, ctxDone, closed>>
      PROVE  SeenTypes' /\ AsyncInv' /\ ContractStep
  <2>1. Executing' = Executing BY <1>1, <1>3
  <2>2. UNCHANGED Contract!vars /\ begun' = begun BY <1>2, <1>3, <2>1, NoStep
  <2>3. Placed' = Placed BY <1>3 DEF Placed
  <2> QED BY <1>3, <2>2, <2>3 DEF SeenTypes, AsyncInv, ContractStep
<1>4. CASE Async!Cancel
  <2>1. /\ ~ctxDone /\ ctxDone' = TRUE
        /\ UNCHANGED <<task, semaphore, pooled, got, closed>>
    BY <1>4 DEF Async!Cancel
  <2>2. Executing' = Executing BY <1>1, <2>1
  <2>3. Contract!Next /\ begun' = begun BY <1>2, <2>1, <2>2, CancelStep
  <2>4. Placed' = Placed BY <2>1 DEF Placed
  <2>5. SeenTypes' BY <2>1, <2>3 DEF SeenTypes
  <2>6. AsyncInv' BY <2>1, <2>3, <2>4 DEF AsyncInv
  <2> QED BY <2>3, <2>5, <2>6 DEF ContractStep
<1>5. CASE Async!Close
  <2>1. /\ ~closed /\ closed' = TRUE /\ \A i \in Inputs : task[i] = "done"
        /\ UNCHANGED <<task, semaphore, pooled, got, ctxDone>>
    BY <1>5, AsyncSame DEF Async!Close
  <2>2. Executing' = Executing /\ Executing = {} BY <1>1, <2>1
  <2>3. ctxDone \/ \A i \in Inputs : got[i] # <<>> BY <2>1 DEF AsyncInv
  <2>4. Contract!Next /\ begun' = begun BY <2>1, <2>2, <2>3, CloseStep
  <2>5. Placed' = Placed BY <2>1 DEF Placed
  <2>6. SeenTypes' BY <2>1, <2>4 DEF SeenTypes
  <2>7. AsyncInv' BY <2>1, <2>4, <2>5 DEF AsyncInv
  <2> QED BY <2>4, <2>6, <2>7 DEF ContractStep
<1>6. ASSUME NEW i \in Inputs, Async!Acquire(i)
      PROVE  SeenTypes' /\ AsyncInv' /\ ContractStep
  <2>1. /\ Async!Move(i, "acquire", "execute") /\ UNCHANGED <<pooled, got, ctxDone, closed>>
        /\ semaphore < Concurrency /\ semaphore' = semaphore + 1
    BY <1>6 DEF Async!Acquire
  <2>2. /\ task[i] = "acquire" /\ task' \in [Inputs -> TaskPCs]
        /\ \A j \in Inputs : task'[j] = IF j = i THEN "execute" ELSE task[j]
    BY <2>1, TaskMoves DEF TaskPCs
  <2>3. Executing' = Executing \cup {i} BY <1>1, <2>2
  <2>4. i \notin begun BY <2>2 DEF AsyncInv
  <2>5. Cardinality(Executing) < Limit
    <3>1. Executing \subseteq Placed BY <1>1 DEF Placed
    <3>2. Cardinality(Executing) <= Cardinality(Placed) /\ IsFiniteSet(Executing)
      BY <3>1, PlacedFinite, FS_Subset
    <3>3. Cardinality(Executing) \in Nat BY <3>2, FS_CardinalityType
    <3> QED BY <1>1, <2>1, <3>2, <3>3, PlacedFinite, BatchesAssumption DEF AsyncInv
  <2>6. Contract!Next /\ begun' = begun \cup {i}
    BY <1>2, <2>1, <2>3, <2>4, <2>5, BeginStep
  <2>7. Placed' = Placed \cup {i} /\ i \notin Placed BY <2>2 DEF Placed
  <2>8. Cardinality(Placed') = Cardinality(Placed) + 1
    BY <2>7, PlacedFinite, FS_AddElement
  <2>9. SeenTypes' BY <2>1, <2>6 DEF SeenTypes
  <2>10. AsyncInv' BY <2>1, <2>2, <2>6, <2>8 DEF AsyncInv
  <2> QED BY <2>6, <2>9, <2>10 DEF ContractStep
<1>7. ASSUME NEW i \in Inputs, Async!Execute(i)
      PROVE  SeenTypes' /\ AsyncInv' /\ ContractStep
  <2>1. /\ Async!Move(i, "execute", "send") /\ UNCHANGED <<semaphore, got, ctxDone, closed>>
        /\ pooled' = [pooled EXCEPT ![i] = Filled(i)]
    BY <1>7, AsyncSame DEF Async!Execute
  <2>2. /\ task[i] = "execute" /\ task' \in [Inputs -> TaskPCs]
        /\ \A j \in Inputs : task'[j] = IF j = i THEN "send" ELSE task[j]
    BY <2>1, TaskMoves DEF TaskPCs
  <2>3. Executing' = Executing \ {i} /\ i \in Executing BY <1>1, <2>2
  <2>4. Contract!Next /\ begun' = begun BY <1>2, <2>1, <2>3, EndStep
  <2>5. Placed' = Placed BY <2>2 DEF Placed
  <2>6. /\ pooled' \in [Inputs -> PooledResults]
        /\ pooled'[i] = [index |-> i, value |-> i]
        /\ \A j \in Inputs : j # i => pooled'[j] = pooled[j]
    BY <2>1, FilledIs DEF AsyncInv
  <2>7. SeenTypes' BY <2>1, <2>4 DEF SeenTypes
  <2>8. AsyncInv' BY <2>1, <2>2, <2>4, <2>5, <2>6 DEF AsyncInv
  <2> QED BY <2>4, <2>7, <2>8 DEF ContractStep
<1>8. ASSUME NEW i \in Inputs, Async!Deliver(i)
      PROVE  SeenTypes' /\ AsyncInv' /\ ContractStep
  <2>1. /\ Async!Move(i, "send", "release") /\ UNCHANGED <<semaphore, ctxDone, closed>>
        /\ got' = Sent(got, pooled[i]) \/ (ctxDone /\ UNCHANGED got)
        /\ pooled' = [pooled EXCEPT ![i] = Put(@)]
    BY <1>8, AsyncSame DEF Async!Deliver, Async!Sent, Sent
  <2>2. /\ task[i] = "send" /\ task' \in [Inputs -> TaskPCs]
        /\ \A j \in Inputs : task'[j] = IF j = i THEN "release" ELSE task[j]
    BY <2>1, TaskMoves DEF TaskPCs
  <2>3. Executing' = Executing /\ i \notin Executing BY <1>1, <2>2
  <2>4. i \in begun /\ got[i] = <<>> /\ pooled[i] = [index |-> i, value |-> i] /\ ~closed
    BY <2>2 DEF AsyncInv
  <2>5. Placed' = Placed BY <2>2 DEF Placed
  <2>6. /\ pooled' \in [Inputs -> PooledResults]
        /\ \A j \in Inputs : j # i => pooled'[j] = pooled[j]
    BY <2>1, PutIs DEF AsyncInv
  <2>7. CASE got' = Sent(got, pooled[i])
    <3>1. got' = [got EXCEPT ![i] = <<i>>] BY <2>4, <2>7, SentIs
    <3>2. Contract!Next /\ begun' = begun BY <1>2, <2>1, <2>3, <2>4, <3>1, DeliverStep
    <3>3. SeenTypes' /\ got'[i] # <<>> /\ \A j \in Inputs : j # i => got'[j] = got[j]
      BY <2>1, <3>1, <3>2, AppendFirst DEF SeenTypes
    <3>4. AsyncInv' BY <2>1, <2>2, <2>4, <2>5, <2>6, <3>2, <3>3 DEF AsyncInv
    <3> QED BY <3>2, <3>3, <3>4 DEF ContractStep
  <2>8. CASE ctxDone /\ UNCHANGED got
    <3>1. UNCHANGED Contract!vars /\ begun' = begun BY <1>2, <2>1, <2>3, <2>8, NoStep
    <3>2. SeenTypes' BY <2>1, <2>8, <3>1 DEF SeenTypes
    <3>3. AsyncInv' BY <2>1, <2>2, <2>4, <2>5, <2>6, <2>8, <3>1 DEF AsyncInv
    <3> QED BY <3>1, <3>2, <3>3 DEF ContractStep
  <2> QED BY <2>1, <2>7, <2>8
<1>9. ASSUME NEW i \in Inputs, Async!Release(i)
      PROVE  SeenTypes' /\ AsyncInv' /\ ContractStep
  <2>1. /\ Async!Move(i, "release", "done") /\ UNCHANGED <<pooled, got, ctxDone, closed>>
        /\ semaphore' = semaphore - 1
    BY <1>9 DEF Async!Release
  <2>2. /\ task[i] = "release" /\ task' \in [Inputs -> TaskPCs]
        /\ \A j \in Inputs : task'[j] = IF j = i THEN "done" ELSE task[j]
    BY <2>1, TaskMoves DEF TaskPCs
  <2>3. Executing' = Executing BY <1>1, <2>2
  <2>4. UNCHANGED Contract!vars /\ begun' = begun BY <1>2, <2>1, <2>3, NoStep
  <2>5. Placed' = Placed \ {i} /\ i \in Placed BY <2>2 DEF Placed
  <2>6. Cardinality(Placed') = Cardinality(Placed) - 1
    BY <2>5, PlacedFinite, FS_RemoveElement
  <2>7. SeenTypes' BY <2>1, <2>4 DEF SeenTypes
  <2>8. AsyncInv' BY <2>1, <2>2, <2>4, <2>6 DEF AsyncInv
  <2> QED BY <2>4, <2>7, <2>8 DEF ContractStep
<1>10. CASE Async!Spawn BY <1>3, <1>10 DEF Async!Spawn
<1> QED BY <1>4, <1>5, <1>6, <1>7, <1>8, <1>9, <1>10, AsyncSame DEF Async!Next, Async!TaskStep
-----------------------------------------------------------------------------
\* Of PipelineBatch: where its workers are.
WorkerStates == [pc : {"receive", "execute", "send", "done"}, input : 0..N]

HasInput(w) == worker[w].pc \in {"execute", "send"}
Queued(i) == \E k \in 1..Len(workChan) : workChan[k] = i
Serving(i) == \E w \in Workers : HasInput(w) /\ worker[w].input = i

WorkTypes ==
  /\ workChan \in Seq(Inputs) /\ open \in BOOLEAN /\ next \in 1..N + 1
  /\ worker \in [Workers -> WorkerStates]
  /\ inHand \in [Workers -> PooledResults]

\* An input is in one place at most, and has not begun while it is in the channel.
WorkPlaces ==
  /\ \A k, l \in 1..Len(workChan) : workChan[k] = workChan[l] => k = l
  /\ \A k \in 1..Len(workChan) : workChan[k] < next /\ workChan[k] \notin begun
  /\ \A w \in Workers : HasInput(w) =>
       /\ worker[w].input \in begun /\ got[worker[w].input] = <<>>
       /\ worker[w].pc = "send" =>
            inHand[w] = [index |-> worker[w].input, value |-> worker[w].input]
  /\ \A v, w \in Workers : HasInput(v) /\ HasInput(w) /\ v # w =>
       worker[v].input # worker[w].input
  /\ \A i \in begun : i < next
  /\ \A i \in Inputs : got[i] # <<>> => i \in begun

\* Until the context ends no input is lost, and the workers stay until all are
\* handed out.
WorkIsKept ==
  /\ ~ctxDone =>
       /\ \A i \in Inputs : i < next => Queued(i) \/ Serving(i) \/ got[i] # <<>>
       /\ open \/ next = N + 1
       /\ \A w \in Workers : worker[w].pc = "done" => ~open /\ workChan = <<>>
  /\ closed => \A w \in Workers : worker[w].pc = "done"

WorkInv == WorkTypes /\ WorkPlaces /\ WorkIsKept

\* What PipelineBatch takes from the pool.
LEMMA PipelinedSame ==
  /\ Pipelined!Inputs = Inputs
  /\ \A i : Pipelined!Filled(i) = Filled(i)
  /\ \A r : Pipelined!Put(r) = Put(r)
  /\ \A g, r : Pipelined!Sent(g, r) = Sent(g, r)
BY DEF Pipelined!Inputs, Inputs, Pipelined!Filled, Filled, Pipelined!GetPooledBatchResult,
       GetPooledBatchResult, Pipelined!Zero, Zero, Pipelined!NoValue, NoValue, Pipelined!Put, Put,
       Pipelined!Sent, Sent

LEMMA ServedIs ==
  /\ Pipelined!Executing = {worker[w].input : w \in {v \in Workers : worker[v].pc = "execute"}}
  /\ Pipelined!Executing' = {worker'[w].input : w \in {v \in Workers : worker'[v].pc = "execute"}}
BY DEF Pipelined!Executing

\* A worker that is not executing leaves room for one more.
LEMMA RoomForOne ==
  ASSUME WorkTypes, NEW w \in Workers, worker[w].pc # "execute"
  PROVE  Cardinality(Pipelined!Executing) < Cardinality(Workers)
<1> DEFINE E == Pipelined!Executing
           W == Workers \ {w}
           at == [i \in E |-> CHOOSE v \in Workers : worker[v].pc = "execute" /\ worker[v].input = i]
<1>1. \A i \in E : \E v \in Workers : worker[v].pc = "execute" /\ worker[v].input = i
  BY ServedIs
<1>2. \A i \in E : /\ at[i] \in Workers /\ worker[at[i]].pc = "execute"
                   /\ worker[at[i]].input = i
  <2> HIDE DEF E
  <2> QED BY <1>1
<1>3. IsFiniteSet(W) /\ Cardinality(W) = Cardinality(Workers) - 1
      /\ Cardinality(Workers) \in Nat /\ Cardinality(W) \in Nat
  BY BatchesAssumption, FS_RemoveElement, FS_CardinalityType
<1>4. at \in Injection(E, W)
  <2> HIDE DEF E, at
  <2>1. \A i \in E : at[i] \in W BY <1>2
  <2>2. at \in [E -> W] BY <2>1 DEF at
  <2>3. \A i, j \in E : at[i] = at[j] => i = j BY <1>2
  <2> QED BY <2>2, <2>3, Fun_IsInj
<1>5. IsFiniteSet(E) /\ Cardinality(E) <= Cardinality(W)
  <2> HIDE DEF E, at, W
  <2> QED BY <1>3, <1>4, FS_Injection
<1>6. Cardinality(E) \in Nat BY <1>5, FS_CardinalityType
<1> QED BY <1>3, <1>5, <1>6
-----------------------------------------------------------------------------
\* A step of one worker.
LEMMA WorkerMoves ==
  ASSUME WorkTypes, NEW w \in Workers, NEW pc \in {"receive", "execute", "send", "done"},
         NEW i \in 0..N, Pipelined!Becomes(w, Pipelined!At(pc, i))
  PROVE  /\ \A v \in Workers : worker'[v] = IF v = w THEN [pc |-> pc, input |-> i] ELSE worker[v]
         /\ worker' \in [Workers -> WorkerStates]
<1>1. [pc |-> pc, input |-> i] \in WorkerStates BY DEF WorkerStates
<1>2. worker' = [worker EXCEPT ![w] = [pc |-> pc, input |-> i]]
  BY DEF Pipelined!Becomes, Pipelined!At
<1> QED BY <1>1, <1>2 DEF WorkTypes

\* The input that a worker takes is the first of the channel.
LEMMA TakenIs ==
  ASSUME WorkTypes, workChan # <<>>
  PROVE  /\ Head(workChan) = workChan[1] /\ Head(workChan) \in Inputs
         /\ Len(workChan) \in Nat \ {0}
         /\ Tail(workChan) \in Seq(Inputs) /\ Len(Tail(workChan)) = Len(workChan) - 1
         /\ \A k \in 1..Len(Tail(workChan)) :
              k + 1 \in 1..Len(workChan) /\ Tail(workChan)[k] = workChan[k + 1]
         /\ \A k \in 2..Len(workChan) :
              k - 1 \in 1..Len(Tail(workChan)) /\ Tail(workChan)[k - 1] = workChan[k]
BY DEF WorkTypes

LEMMA AddedIs ==
  ASSUME WorkTypes, NEW i \in Inputs
  PROVE  /\ Append(workChan, i) \in Seq(Inputs)
         /\ Len(workChan) \in Nat
         /\ Len(Append(workChan, i)) = Len(workChan) + 1
         /\ \A k \in 1..Len(workChan) : Append(workChan, i)[k] = workChan[k]
         /\ Append(workChan, i)[Len(workChan) + 1] = i
BY DEF WorkTypes

LEMMA ServedBegan ==
  ASSUME WorkPlaces
  PROVE  Pipelined!Executing \subseteq begun
BY ServedIs DEF WorkPlaces, HasInput

LEMMA PipelineSteps ==
  ASSUME impl = "pipeline", SeenTypes, WorkInv, Keeps, Pipelined!Next
  PROVE  SeenTypes' /\ WorkInv' /\ ContractStep
<1>1. /\ Limit = Cardinality(Workers)
      /\ Executing = Pipelined!Executing /\ Executing' = Pipelined!Executing'
  BY ExecutingIs, NextExecuting DEF Keeps
<1>e. /\ Executing = {worker[v].input : v \in {u \in Workers : worker[u].pc = "execute"}}
      /\ Executing' = {worker'[v].input : v \in {u \in Workers : worker'[u].pc = "execute"}}
  BY <1>1, ServedIs
<1>2. Executing \subseteq begun BY <1>1, ServedBegan DEF WorkInv
<1>n. Inputs = 1..N /\ N \in Nat \ {0} BY BatchesAssumption DEF Inputs
<1>3. CASE Pipelined!Cancel
  <2>1. /\ ~ctxDone /\ ctxDone' = TRUE
        /\ UNCHANGED <<workChan, open, next, worker, inHand, got, closed>>
    BY <1>3 DEF Pipelined!Cancel
  <2>2. Executing' = Executing BY <1>e, <2>1
  <2>3. Contract!Next /\ begun' = begun BY <1>2, <2>1, <2>2, CancelStep
  <2>4. SeenTypes' BY <2>1, <2>3 DEF SeenTypes
  <2>5. WorkInv' BY <2>1, <2>3 DEF WorkInv, WorkTypes, WorkPlaces, WorkIsKept, HasInput
  <2> QED BY <2>3, <2>4, <2>5 DEF ContractStep
<1>4. CASE Pipelined!Close
  <2>1. /\ ~closed /\ closed' = TRUE /\ \A w \in Workers : worker[w].pc = "done"
        /\ UNCHANGED <<workChan, open, next, worker, inHand, got, ctxDone>>
    BY <1>4 DEF Pipelined!Close
  <2>2. Executing' = Executing /\ Executing = {} BY <1>e, <2>1
  <2>3. ctxDone \/ \A i \in Inputs : got[i] # <<>>
    <3> SUFFICES ASSUME ~ctxDone, NEW i \in Inputs PROVE got[i] # <<>>
      OBVIOUS
    <3>1. PICK w \in Workers : TRUE BY BatchesAssumption
    <3>2. ~open /\ workChan = <<>> BY <2>1, <3>1 DEF WorkInv, WorkIsKept
    <3>3. i < next BY <1>n, <3>2 DEF WorkInv, WorkIsKept
    <3>4. ~Queued(i)
      <4>1. Len(workChan) = 0 BY <3>2
      <4> QED BY <4>1 DEF Queued
    <3>5. ~Serving(i) BY <2>1 DEF Serving, HasInput
    <3> QED BY <3>3, <3>4, <3>5 DEF WorkInv, WorkIsKept
  <2>4. Contract!Next /\ begun' = begun BY <2>1, <2>2, <2>3, <1>2, CloseStep
  <2>5. SeenTypes' BY <2>1, <2>4 DEF SeenTypes
  <2>6. WorkInv'
    <3>1. WorkTypes' /\ WorkPlaces' BY <2>1, <2>4 DEF WorkInv, WorkTypes, WorkPlaces, HasInput
    <3>2. WorkIsKept' BY <2>1 DEF WorkInv, WorkIsKept, Queued, Serving, HasInput
    <3> QED BY <3>1, <3>2 DEF WorkInv
  <2> QED BY <2>4, <2>5, <2>6 DEF ContractStep
<1>5. CASE Pipelined!Send
  <2>1. UNCHANGED <<worker, inHand, got, ctxDone, closed>> /\ open /\ next <= N
    BY <1>5 DEF Pipelined!Send
  <2>2. Executing' = Executing BY <1>e, <2>1
  <2>3. UNCHANGED Contract!vars /\ begun' = begun BY <1>2, <2>1, <2>2, NoStep
  <2>4. SeenTypes' BY <2>1, <2>3 DEF SeenTypes
  <2>5. CASE ctxDone /\ open' = FALSE /\ UNCHANGED <<workChan, next>>
    <3>1. WorkInv' BY <2>1, <2>3, <2>5 DEF WorkInv, WorkTypes, WorkPlaces, WorkIsKept, HasInput
    <3> QED BY <2>3, <2>4, <3>1 DEF ContractStep
  <2>6. CASE workChan' = Append(workChan, next) /\ next' = next + 1 /\ UNCHANGED open
    <3>1. next \in Inputs BY <1>n, <2>1 DEF WorkInv, WorkTypes
    <3>2. /\ workChan' \in Seq(Inputs) /\ Len(workChan) \in Nat
          /\ Len(workChan') = Len(workChan) + 1 /\ workChan'[Len(workChan) + 1] = next
          /\ \A k \in 1..Len(workChan) : workChan'[k] = workChan[k]
      BY <2>6, <3>1, AddedIs DEF WorkInv
    <3>3. WorkTypes' BY <1>n, <2>1, <2>6, <3>1, <3>2 DEF WorkInv, WorkTypes
    <3>4. next \notin begun BY <1>n, <3>1 DEF WorkInv, WorkPlaces
    <3>5. \A k \in 1..Len(workChan') :
            \/ k \in 1..Len(workChan) /\ workChan'[k] = workChan[k]
            \/ k = Len(workChan) + 1 /\ workChan'[k] = next
      BY <3>2
    <3>6. WorkPlaces'
      <4>a. \A k \in 1..Len(workChan) : workChan[k] \in Inputs BY DEF WorkInv, WorkTypes
      <4>1. \A k, l \in 1..Len(workChan') : workChan'[k] = workChan'[l] => k = l
        BY <1>n, <3>1, <3>5, <4>a DEF WorkInv, WorkPlaces
      <4>2. \A k \in 1..Len(workChan') : workChan'[k] < next' /\ workChan'[k] \notin begun'
        BY <1>n, <2>3, <2>6, <3>1, <3>4, <3>5, <4>a DEF WorkInv, WorkPlaces
      <4>3. \A i \in begun' : i < next'
        BY <1>n, <2>3, <2>6, <3>1 DEF WorkInv, WorkPlaces, SeenTypes
      <4> QED BY <4>1, <4>2, <4>3, <2>1, <2>3 DEF WorkInv, WorkPlaces, HasInput
    <3>7. \A i \in Inputs : Queued(i) => Queued(i)'
      BY <3>2 DEF Queued
    <3>8. \A i \in Inputs : i = next => Queued(i)'
      BY <3>2 DEF Queued
    <3>9. \A i \in Inputs : Serving(i)' <=> Serving(i) BY <2>1 DEF Serving, HasInput
    <3>10. WorkIsKept'
      <4>1. \A i \in Inputs : i < next' => i < next \/ i = next BY <1>n, <2>6, <3>1
      <4>2. ~ctxDone' => \A i \in Inputs : i < next' => Queued(i)' \/ Serving(i)' \/ got'[i] # <<>>
        BY <2>1, <3>7, <3>8, <3>9, <4>1 DEF WorkInv, WorkIsKept
      <4>3. ~ctxDone' => \A w \in Workers : worker'[w].pc # "done"
        BY <2>1 DEF WorkInv, WorkIsKept
      <4> QED BY <2>1, <2>6, <4>2, <4>3 DEF WorkInv, WorkIsKept
    <3> QED BY <2>3, <2>4, <3>3, <3>6, <3>10 DEF WorkInv, ContractStep
  <2> QED BY <1>5, <2>5, <2>6 DEF Pipelined!Send
<1>6. CASE Pipelined!SendDone
  <2>1. /\ open' = FALSE /\ next = N + 1
        /\ UNCHANGED <<workChan, next, worker, inHand, got, ctxDone, closed>>
    BY <1>6 DEF Pipelined!SendDone
  <2>2. Executing' = Executing BY <1>e, <2>1
  <2>3. UNCHANGED Contract!vars /\ begun' = begun BY <1>2, <2>1, <2>2, NoStep
  <2>4. SeenTypes' BY <2>1, <2>3 DEF SeenTypes
  <2>5. WorkTypes' /\ WorkPlaces' BY <2>1, <2>3 DEF WorkInv, WorkTypes, WorkPlaces, HasInput
  <2>6. WorkIsKept' BY <2>1 DEF WorkInv, WorkIsKept, Queued, Serving, HasInput
  <2> QED BY <2>3, <2>4, <2>5, <2>6 DEF WorkInv, ContractStep
<1>7. ASSUME NEW w \in Workers, Pipelined!Receive(w)
      PROVE  SeenTypes' /\ WorkInv' /\ ContractStep
  <2>1. UNCHANGED <<open, next, inHand, got, ctxDone, closed>> /\ worker[w].pc = "receive"
    BY <1>7 DEF Pipelined!Receive
  <2>c. ~closed BY <2>1 DEF WorkInv, WorkIsKept
  <2>2. CASE /\ workChan = <<>> /\ ~open /\ UNCHANGED workChan
             /\ Pipelined!Becomes(w, Pipelined!At("done", 0))
    <3>1. /\ \A v \in Workers : worker'[v] = IF v = w THEN [pc |-> "done", input |-> 0] ELSE worker[v]
          /\ worker' \in [Workers -> WorkerStates]
      BY <1>n, <2>2, WorkerMoves DEF WorkInv
    <3>2. Executing' = Executing BY <1>e, <2>1, <3>1
    <3>3. UNCHANGED Contract!vars /\ begun' = begun BY <1>2, <2>1, <3>2, NoStep
    <3>4. SeenTypes' BY <2>1, <3>3 DEF SeenTypes
    <3>5. WorkTypes' BY <2>1, <2>2, <3>1 DEF WorkInv, WorkTypes
    <3>6. WorkPlaces' BY <2>1, <2>2, <3>1, <3>3 DEF WorkInv, WorkPlaces, HasInput
    <3>7. \A i \in Inputs : Serving(i) => Serving(i)' BY <2>1, <3>1 DEF Serving, HasInput
    <3>8. WorkIsKept' BY <2>1, <2>2, <2>c, <3>1, <3>7 DEF WorkInv, WorkIsKept, Queued
    <3> QED BY <3>3, <3>4, <3>5, <3>6, <3>8 DEF WorkInv, ContractStep
  <2>3. CASE /\ workChan # <<>> /\ workChan' = Tail(workChan)
             /\ Pipelined!Becomes(w, Pipelined!At("execute", Head(workChan)))
    <3> PICK i \in Inputs : i = Head(workChan) BY <2>3, TakenIs DEF WorkInv
    <3>1. /\ \A v \in Workers : worker'[v] = IF v = w THEN [pc |-> "execute", input |-> i] ELSE worker[v]
          /\ worker' \in [Workers -> WorkerStates]
      BY <1>n, <2>3, WorkerMoves DEF WorkInv
    <3>t. /\ i = workChan[1] /\ Len(workChan) \in Nat \ {0}
          /\ workChan' \in Seq(Inputs) /\ Len(workChan') = Len(workChan) - 1
          /\ \A k \in 1..Len(workChan') :
               k + 1 \in 1..Len(workChan) /\ workChan'[k] = workChan[k + 1]
          /\ \A k \in 2..Len(workChan) :
               k - 1 \in 1..Len(workChan') /\ workChan'[k - 1] = workChan[k]
      BY <2>3, TakenIs DEF WorkInv
    <3>2. Executing' = Executing \cup {i} BY <1>e, <2>1, <3>1
    <3>3. i \notin begun /\ i < next BY <3>t DEF WorkInv, WorkPlaces
    <3>4. Cardinality(Executing) < Limit BY <1>1, <2>1, RoomForOne DEF WorkInv
    <3>5. Contract!Next /\ begun' = begun \cup {i} BY <1>2, <2>1, <3>2, <3>3, <3>4, BeginStep
    <3>6. SeenTypes' BY <2>1, <3>5 DEF SeenTypes
    <3>7. WorkTypes' BY <2>1, <3>1, <3>t DEF WorkInv, WorkTypes
    <3>8. WorkPlaces'
      <4>1. \A k, l \in 1..Len(workChan') : workChan'[k] = workChan'[l] => k = l
        BY <3>t DEF WorkInv, WorkPlaces
      <4>2. \A k \in 1..Len(workChan') : workChan'[k] # i
        BY <3>t DEF WorkInv, WorkPlaces
      <4>3. \A k \in 1..Len(workChan') : workChan'[k] < next' /\ workChan'[k] \notin begun'
        BY <2>1, <3>t, <3>5, <4>2 DEF WorkInv, WorkPlaces
      <4>4. got[i] = <<>> BY <3>3 DEF WorkInv, WorkPlaces
      <4>5. \A v \in Workers : HasInput(v)' =>
              /\ worker'[v].input \in begun' /\ got'[worker'[v].input] = <<>>
              /\ worker'[v].pc = "send" =>
                   inHand'[v] = [index |-> worker'[v].input, value |-> worker'[v].input]
        BY <2>1, <3>1, <3>5, <4>4 DEF WorkInv, WorkPlaces, HasInput
      <4>6. \A u, v \in Workers : HasInput(u)' /\ HasInput(v)' /\ u # v =>
              worker'[u].input # worker'[v].input
        <5>1. \A v \in Workers : v # w /\ HasInput(v)' =>
                HasInput(v) /\ worker'[v] = worker[v] /\ worker'[v].input # i
          <6> SUFFICES ASSUME NEW v \in Workers, v # w, HasInput(v)'
                       PROVE  HasInput(v) /\ worker'[v] = worker[v] /\ worker'[v].input # i
            OBVIOUS
          <6>1. worker'[v] = worker[v] BY <3>1
          <6>2. HasInput(v) BY <6>1 DEF HasInput
          <6>3. worker[v].input \in begun BY <6>2 DEF WorkInv, WorkPlaces
          <6> QED BY <3>3, <6>1, <6>2, <6>3
        <5>2. worker'[w].input = i BY <3>1
        <5> QED BY <5>1, <5>2 DEF WorkInv, WorkPlaces
      <4>7. /\ \A j \in begun' : j < next'
            /\ \A j \in Inputs : got'[j] # <<>> => j \in begun'
        BY <2>1, <3>3, <3>5 DEF WorkInv, WorkPlaces
      <4> QED BY <4>1, <4>3, <4>5, <4>6, <4>7 DEF WorkPlaces
    <3>9. \A j \in Inputs : Queued(j) => Queued(j)' \/ j = i
      <4> SUFFICES ASSUME NEW j \in Inputs, Queued(j), j # i PROVE Queued(j)'
        OBVIOUS
      <4>1. PICK k \in 1..Len(workChan) : workChan[k] = j BY DEF Queued
      <4>2. k \in 2..Len(workChan) BY <3>t, <4>1
      <4>3. k - 1 \in 1..Len(workChan') /\ workChan'[k - 1] = j BY <3>t, <4>1, <4>2
      <4> QED BY <4>3 DEF Queued
    <3>10. (\A j \in Inputs : Serving(j) => Serving(j)')
           /\ \A j \in Inputs : j = i => Serving(j)'
      BY <2>1, <3>1 DEF Serving, HasInput
    <3>11. WorkIsKept'
      <4>1. ~ctxDone' => \A j \in Inputs : j < next' => Queued(j)' \/ Serving(j)' \/ got'[j] # <<>>
        BY <2>1, <3>9, <3>10 DEF WorkInv, WorkIsKept
      <4>2. ~ctxDone' => \A v \in Workers : worker'[v].pc # "done"
        BY <2>1, <2>3, <3>1 DEF WorkInv, WorkIsKept
      <4> QED BY <2>1, <2>c, <4>1, <4>2 DEF WorkInv, WorkIsKept
    <3> QED BY <3>5, <3>6, <3>7, <3>8, <3>11 DEF WorkInv, ContractStep
  <2> QED BY <1>7, <2>2, <2>3 DEF Pipelined!Receive
<1>8. ASSUME NEW w \in Workers, Pipelined!Execute(w)
      PROVE  SeenTypes' /\ WorkInv' /\ ContractStep
  <2> PICK i : i = worker[w].input OBVIOUS
  <2>1. /\ UNCHANGED <<workChan, open, next, got, ctxDone, closed>> /\ worker[w].pc = "execute"
        /\ Pipelined!Becomes(w, Pipelined!At("send", i))
        /\ inHand' = [inHand EXCEPT ![w] = Filled(i)]
    BY <1>8, PipelinedSame DEF Pipelined!Execute
  <2>c. ~closed BY <2>1 DEF WorkInv, WorkIsKept
  <2>2. i \in begun /\ i \in Inputs /\ got[i] = <<>>
    BY <2>1 DEF WorkInv, WorkPlaces, HasInput, SeenTypes
  <2>3. /\ \A v \in Workers : worker'[v] = IF v = w THEN [pc |-> "send", input |-> i] ELSE worker[v]
        /\ worker' \in [Workers -> WorkerStates]
    BY <1>n, <2>1, <2>2, WorkerMoves DEF WorkInv
  <2>d. \A v \in Workers : v # w /\ HasInput(v) => worker[v].input # i
    BY <2>1 DEF WorkInv, WorkPlaces, HasInput
  <2>4. Executing' = Executing \ {i} /\ i \in Executing
    <3>1. i \in Executing BY <1>e, <2>1
    <3>2. ASSUME NEW j, j \in Executing' PROVE j \in Executing \ {i}
      <4>1. PICK v \in Workers : worker'[v].pc = "execute" /\ worker'[v].input = j BY <1>e, <3>2
      <4>2. v # w /\ worker[v] = worker'[v] BY <2>3, <4>1
      <4> QED BY <1>e, <2>d, <4>1, <4>2 DEF HasInput
    <3>3. ASSUME NEW j, j \in Executing, j # i PROVE j \in Executing'
      <4>1. PICK v \in Workers : worker[v].pc = "execute" /\ worker[v].input = j BY <1>e, <3>3
      <4>2. v # w /\ worker[v] = worker'[v] BY <2>3, <3>3, <4>1
      <4> QED BY <1>e, <4>1, <4>2
    <3> QED BY <3>1, <3>2, <3>3
  <2>5. Contract!Next /\ begun' = begun BY <1>2, <2>1, <2>2, <2>4, EndStep
  <2>6. SeenTypes' BY <2>1, <2>5 DEF SeenTypes
  <2>7. /\ inHand' \in [Workers -> PooledResults]
        /\ inHand'[w] = [index |-> i, value |-> i]
        /\ \A v \in Workers : v # w => inHand'[v] = inHand[v]
    BY <2>1, <2>2, FilledIs DEF WorkInv, WorkTypes
  <2>8. WorkTypes' BY <2>1, <2>3, <2>7 DEF WorkInv, WorkTypes
  <2>9. WorkPlaces'
    <3>1. \A v \in Workers : HasInput(v)' =>
            /\ worker'[v].input \in begun' /\ got'[worker'[v].input] = <<>>
            /\ worker'[v].pc = "send" =>
                 inHand'[v] = [index |-> worker'[v].input, value |-> worker'[v].input]
      BY <2>1, <2>2, <2>3, <2>5, <2>7 DEF WorkInv, WorkPlaces, HasInput
    <3>2. \A u, v \in Workers : HasInput(u)' /\ HasInput(v)' /\ u # v =>
            worker'[u].input # worker'[v].input
      BY <2>3, <2>d DEF WorkInv, WorkPlaces, HasInput
    <3> QED BY <2>1, <2>5, <3>1, <3>2 DEF WorkInv, WorkPlaces
  <2>10. \A j \in Inputs : Serving(j) => Serving(j)' BY <2>3 DEF Serving, HasInput
  <2>11. WorkIsKept' BY <2>1, <2>c, <2>3, <2>10 DEF WorkInv, WorkIsKept, Queued
  <2> QED BY <2>5, <2>6, <2>8, <2>9, <2>11 DEF WorkInv, ContractStep
<1>9. ASSUME NEW w \in Workers, Pipelined!Deliver(w)
      PROVE  SeenTypes' /\ WorkInv' /\ ContractStep
  <2> PICK i : i = worker[w].input OBVIOUS
  <2>1. /\ UNCHANGED <<workChan, open, next, ctxDone, closed>> /\ worker[w].pc = "send"
        /\ inHand' = [inHand EXCEPT ![w] = Put(@)]
        /\ \/ got' = Sent(got, inHand[w]) /\ Pipelined!Becomes(w, Pipelined!At("receive", 0))
           \/ ctxDone /\ Pipelined!Becomes(w, Pipelined!At("done", 0)) /\ UNCHANGED got
    BY <1>9, PipelinedSame DEF Pipelined!Deliver
  <2>c. ~closed BY <2>1 DEF WorkInv, WorkIsKept
  <2>2. /\ i \in begun /\ i \in Inputs /\ got[i] = <<>>
        /\ inHand[w] = [index |-> i, value |-> i]
    BY <2>1 DEF WorkInv, WorkPlaces, HasInput, SeenTypes
  <2>3. PICK pc \in {"receive", "done"} :
          /\ \A v \in Workers : worker'[v] = IF v = w THEN [pc |-> pc, input |-> 0] ELSE worker[v]
          /\ worker' \in [Workers -> WorkerStates]
          /\ pc = "receive" => got' = Sent(got, inHand[w])
          /\ pc = "done" => ctxDone /\ UNCHANGED got
    BY <1>n, <2>1, WorkerMoves DEF WorkInv
  <2>d. \A v \in Workers : v # w /\ HasInput(v) => worker[v].input # i
    BY <2>1 DEF WorkInv, WorkPlaces, HasInput
  <2>4. Executing' = Executing /\ i \notin Executing
    <3>1. i \notin Executing BY <1>e, <2>1, <2>d DEF HasInput
    <3>2. \A v \in Workers : worker'[v].pc = "execute" <=> worker[v].pc = "execute"
      BY <2>1, <2>3
    <3>3. \A v \in Workers : worker[v].pc = "execute" => worker'[v] = worker[v]
      BY <2>1, <2>3
    <3> QED BY <1>e, <3>1, <3>2, <3>3
  <2>7. /\ inHand' \in [Workers -> PooledResults]
        /\ \A v \in Workers : v # w => inHand'[v] = inHand[v]
    BY <2>1, PutIs DEF WorkInv, WorkTypes
  <2>8. WorkTypes' BY <2>1, <2>3, <2>7 DEF WorkInv, WorkTypes
  <2>9. \A j \in Inputs : Serving(j) => Serving(j)' \/ j = i BY <2>1, <2>3 DEF Serving, HasInput
  <2>10. CASE pc = "receive"
    <3>1. got' = [got EXCEPT ![i] = <<i>>] BY <2>2, <2>3, <2>10, SentIs
    <3>2. Contract!Next /\ begun' = begun BY <1>2, <2>1, <2>2, <2>c, <2>4, <3>1, DeliverStep
    <3>3. SeenTypes' /\ got'[i] # <<>> /\ \A j \in Inputs : j # i => got'[j] = got[j]
      BY <2>1, <2>2, <3>1, <3>2, AppendFirst DEF SeenTypes
    <3>4. WorkPlaces'
      <4>1. \A v \in Workers : HasInput(v)' =>
              /\ worker'[v].input \in begun' /\ got'[worker'[v].input] = <<>>
              /\ worker'[v].pc = "send" =>
                   inHand'[v] = [index |-> worker'[v].input, value |-> worker'[v].input]
        <5> SUFFICES ASSUME NEW v \in Workers, HasInput(v)'
                     PROVE  /\ worker'[v].input \in begun' /\ got'[worker'[v].input] = <<>>
                            /\ worker'[v].pc = "send" =>
                                 inHand'[v] = [index |-> worker'[v].input,
                                               value |-> worker'[v].input]
          OBVIOUS
        <5>1. v # w /\ worker'[v] = worker[v] /\ HasInput(v) BY <2>3, <2>10 DEF HasInput
        <5>2. worker[v].input # i /\ worker[v].input \in Inputs
          BY <2>d, <5>1 DEF WorkInv, WorkPlaces, SeenTypes
        <5>3. /\ worker[v].input \in begun /\ got[worker[v].input] = <<>>
              /\ worker[v].pc = "send" =>
                   inHand[v] = [index |-> worker[v].input, value |-> worker[v].input]
          BY <5>1 DEF WorkInv, WorkPlaces
        <5>4. inHand'[v] = inHand[v] BY <2>7, <5>1
        <5>5. got'[worker[v].input] = got[worker[v].input] BY <3>3, <5>2
        <5> QED BY <3>2, <5>1, <5>3, <5>4, <5>5
      <4>2. \A u, v \in Workers : HasInput(u)' /\ HasInput(v)' /\ u # v =>
              worker'[u].input # worker'[v].input
        BY <2>3, <2>10 DEF WorkInv, WorkPlaces, HasInput
      <4>3. \A j \in Inputs : got'[j] # <<>> => j \in begun'
        BY <2>2, <3>2, <3>3 DEF WorkInv, WorkPlaces
      <4> QED BY <2>1, <3>2, <4>1, <4>2, <4>3 DEF WorkInv, WorkPlaces
    <3>5. WorkIsKept' BY <2>1, <2>c, <2>3, <2>9, <2>10, <3>3 DEF WorkInv, WorkIsKept, Queued
    <3> QED BY <2>8, <3>2, <3>3, <3>4, <3>5 DEF WorkInv, ContractStep
  <2>11. CASE pc = "done"
    <3>1. ctxDone /\ UNCHANGED got BY <2>3, <2>11
    <3>2. UNCHANGED Contract!vars /\ begun' = begun BY <1>2, <2>1, <2>4, <3>1, NoStep
    <3>3. SeenTypes' BY <2>1, <3>1, <3>2 DEF SeenTypes
    <3>4. \A v \in Workers : HasInput(v)' => v # w /\ worker'[v] = worker[v] /\ HasInput(v)
      BY <2>3, <2>11 DEF HasInput
    <3>5. WorkPlaces'
      BY <2>1, <2>7, <3>1, <3>2, <3>4 DEF WorkInv, WorkPlaces
    <3>6. WorkIsKept' BY <2>1, <2>c, <3>1 DEF WorkInv, WorkIsKept
    <3> QED BY <2>8, <3>2, <3>3, <3>5, <3>6 DEF WorkInv, ContractStep
  <2> QED BY <2>3, <2>10, <2>11
<1> QED BY <1>3, <1>4, <1>5, <1>6, <1>7, <1>8, <1>9 DEF Pipelined!Next, Pipelined!WorkerStep
-----------------------------------------------------------------------------
\* The state of whichever of the three serves the inputs.
BatchInv ==
  /\ impl \in {"pipeline", "async", "calls"}
  /\ SeenTypes
  /\ impl = "pipeline" => WorkInv
  /\ impl = "async" => AsyncInv
  /\ impl = "calls" => CallsInv

LEMMA BatchStarts == BatchesInit => BatchInv /\ Contract!Init
<1> SUFFICES ASSUME BatchesInit PROVE BatchInv /\ Contract!Init
  OBVIOUS
<1>n. Inputs = 1..N /\ N \in Nat \ {0} BY BatchesAssumption DEF Inputs
<1>1. impl \in {"pipeline", "async", "calls"} /\ begun = {}
  BY DEF BatchesInit, NothingBegun
<1>2. /\ workChan = <<>> /\ open = TRUE /\ next = 1
      /\ worker = [w \in Workers |-> [pc |-> "receive", input |-> 0]]
      /\ inHand = [w \in Workers |-> Zero]
      /\ got = [i \in Inputs |-> <<>>] /\ ctxDone = FALSE /\ closed = FALSE
  BY InstancesAgree DEF BatchesInit, NothingBegun, Pipelined!Init, Pipelined!At, Pipelined!Zero, Zero,
       Pipelined!NoValue, NoValue
<1>3. task = [i \in Inputs |-> "acquire"] /\ semaphore = 0
      /\ (impl # "pipeline" => pooled = [i \in Inputs |-> Zero])
  BY InstancesAgree DEF BatchesInit, NothingBegun, Async!Init, Async!Zero, Zero, Async!NoValue, NoValue
<1>4. async = [i \in Inputs |-> "idle"]
  BY InstancesAgree DEF BatchesInit, NothingBegun, Single!Init
<1>z. Zero \in PooledResults BY DEF Zero, PooledResults, NoValue
<1>5. SeenTypes
  <2>1. <<>> \in Seq(Nat) OBVIOUS
  <2>2. got \in [Inputs -> Seq(Nat)] BY <1>2, <2>1
  <2> QED BY <1>1, <1>2, <2>2 DEF SeenTypes
<1>6. WorkInv
  <2>1. WorkTypes BY <1>2, <1>n, <1>z DEF WorkTypes, WorkerStates
  <2>2. Len(workChan) = 0 BY <1>2
  <2>3. WorkPlaces BY <1>1, <1>2, <2>2 DEF WorkPlaces, HasInput
  <2>4. WorkIsKept BY <1>2, <1>n DEF WorkIsKept
  <2> QED BY <2>1, <2>3, <2>4 DEF WorkInv
<1>7. impl = "async" => AsyncInv
  <2>1. Placed = {} BY <1>3 DEF Placed
  <2> QED BY <1>1, <1>2, <1>3, <1>z, <2>1, FS_EmptySet DEF AsyncInv, TaskPCs
<1>8. impl = "calls" => CallsInv
  <2>1. PICK i \in Inputs : TRUE BY <1>n
  <2> QED BY <1>1, <1>2, <1>3, <1>4, <1>z DEF CallsInv
<1>9. Executing = {}
  <2>1. Pipelined!Executing = {} BY <1>2, ServedIs
  <2>2. Async!Executing = {} /\ Single!Executing = {} BY <1>3, <1>4, InstancesAgree
  <2> QED BY <1>1, <2>1, <2>2, ExecutingIs
<1>10. Contract!Init BY <1>1, <1>2, <1>9, LimitType DEF Contract!Init
<1> QED BY <1>1, <1>5, <1>6, <1>7, <1>8, <1>10 DEF BatchInv

LEMMA BatchSteps ==
  ASSUME BatchInv, [BatchesNext]_batchVars
  PROVE  BatchInv' /\ ContractStep
<1>1. CASE UNCHANGED batchVars
  <2>1. /\ UNCHANGED <<impl, begun, pooled, got, ctxDone, closed, async>>
        /\ UNCHANGED <<workChan, open, next, worker, inHand, task, semaphore>>
    BY <1>1 DEF batchVars, pipelineVars, asyncVars
  <2>2. Executing' = Executing /\ Limit' = Limit
    BY <2>1 DEF Executing, Limit, Pipelined!Executing, Async!Executing, Single!Executing
  <2>3. UNCHANGED Contract!vars BY <2>1, <2>2 DEF Contract!vars
  <2>4. SeenTypes' BY <2>1 DEF BatchInv, SeenTypes
  <2>5. impl = "pipeline" => WorkInv'
    BY <2>1 DEF BatchInv, WorkInv, WorkTypes, WorkPlaces, WorkIsKept, HasInput, Queued, Serving
  <2>6. impl = "async" => AsyncInv'
    <3>1. Placed' = Placed BY <2>1 DEF Placed
    <3> QED BY <2>1, <3>1 DEF BatchInv, AsyncInv
  <2>7. impl = "calls" => CallsInv' BY <2>1 DEF BatchInv, CallsInv
  <2> QED BY <2>1, <2>3, <2>4, <2>5, <2>6, <2>7 DEF BatchInv, ContractStep
<1>2. CASE BatchesNext
  <2>1. Keeps BY <1>2 DEF BatchesNext, Keeps
  <2>2. CASE impl = "pipeline"
    <3>1. Pipelined!Next BY <1>2, <2>2 DEF BatchesNext
    <3>2. SeenTypes' /\ WorkInv' /\ ContractStep BY <2>1, <2>2, <3>1, PipelineSteps DEF BatchInv
    <3> QED BY <2>1, <2>2, <3>2 DEF BatchInv, Keeps
  <2>3. CASE impl = "async"
    <3>1. Async!Next BY <1>2, <2>3 DEF BatchesNext
    <3>2. SeenTypes' /\ AsyncInv' /\ ContractStep BY <2>1, <2>3, <3>1, AsyncStep DEF BatchInv
    <3> QED BY <2>1, <2>3, <3>2 DEF BatchInv, Keeps
  <2>4. CASE impl = "calls"
    <3>1. Single!Next BY <1>2, <2>4 DEF BatchesNext
    <3>2. SeenTypes' /\ CallsInv' /\ ContractStep BY <2>1, <2>4, <3>1, CallsStep DEF BatchInv
    <3> QED BY <2>1, <2>4, <3>2 DEF BatchInv, Keeps
  <2> QED BY <2>2, <2>3, <2>4 DEF BatchInv
<1> QED BY <1>1, <1>2

\* Whatever the workers, the sender, the goroutines past the semaphore and the
\* end of the context do, the reader of a batch gets what BatchContract says: no
\* input twice, no more at a time than allowed, each result with the value of its
\* input, and all of them unless the context ended (ExecuteBatch, ExecuteAsync).
THEOREM BatchesKeepContract == BatchesSpec => ImplementsContract
<1>1. BatchesInit => BatchInv /\ Contract!Init BY BatchStarts
<1>2. BatchInv /\ [BatchesNext]_batchVars => BatchInv' /\ [Contract!Next]_(Contract!vars)
  BY BatchSteps DEF ContractStep
<1> QED BY <1>1, <1>2, PTL DEF BatchesSpec, ImplementsContract, Contract!Spec
=============================================================================
