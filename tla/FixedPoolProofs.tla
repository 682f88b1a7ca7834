--------------------------- MODULE FixedPoolProofs ---------------------------
(***************************************************************************)
(* Theorems about FixedPool, for any tasks, workers, callers, channel      *)
(* capacity and number of restarts.                                        *)
(***************************************************************************)
EXTENDS FixedPool, SubmissionProofs, Sums

\* The context a Start is about to install is one it may install.
StartIds ==
  \A c \in Callers : call[c].pc \in {"start_ctx", "start_cancel"} => call[c].id \in Gens

TypeInv == WorkerTypeOK /\ SubmissionTypeOK /\ LifeTypeOK /\ StartIds

USE DEF Gens, Stops

LEMMA CallUpdate ==
  ASSUME NEW f \in [Callers -> CallType], NEW c \in Callers,
         NEW pc \in CallPC, NEW todo \in SUBSET Workers
  PROVE  [f EXCEPT ![c].pc = pc, ![c].todo = todo] \in [Callers -> CallType]
  BY DEF CallType

LEMMA TypeInit == Init => TypeInv
<1> SUFFICES ASSUME Init PROVE TypeInv
  OBVIOUS
<1>1. WorkerTypeOK
  BY DEF Init, WorkerInit, WorkerTypeOK, NoRun, RunPC, StopPC, Panics
<1>2. SubmissionTypeOK
  BY DEF Init, SubmissionInit, SubmissionTypeOK, SubPC
<1>3. LifeTypeOK /\ StartIds
  BY WorkerAssumption DEF Init, LifeTypeOK, StartIds, CallType, CallPC
<1>4. QED
  BY <1>1, <1>2, <1>3 DEF TypeInv

-----------------------------------------------------------------------------
LEMMA LifeKept ==
  ASSUME LifeTypeOK, StartIds, UNCHANGED lifeVars
  PROVE  LifeTypeOK' /\ StartIds'
  BY DEF LifeTypeOK, StartIds, lifeVars

-----------------------------------------------------------------------------
\* What the calls of Start, Stop and Close do to the workers and the pool.
LEMMA CallWorkerType ==
  ASSUME TypeInv, NEW c \in Callers, CallBegin(c) \/ CallStep(c)
  PROVE  WorkerTypeOK'
<1> USE DEF TypeInv
<1>1. CASE StartSpawn(c)
  <2>1. PICK w \in call[c].todo : Spawn(w, ctx)
    BY <1>1 DEF StartSpawn
  <2>2. w \in Workers
    BY DEF LifeTypeOK, CallType
  <2>3. UNCHANGED <<chanVars, cancelled, wstate, quit, done, processed, failed,
                    executed, stopper, panic>>
    BY <1>1 DEF StartSpawn
  <2>4. QED
    BY <2>1, <2>2, <2>3, SpawnType DEF SubmissionTypeOK
<1>2. CASE StopCancel(c)
  <2>1. cancelled' \in SUBSET Gens
    BY <1>2 DEF StopCancel, WorkerTypeOK, SubmissionTypeOK
  <2>2. QED
    BY <1>2, <2>1, CancelType DEF StopCancel
<1>3. CASE StopLaunch(c)
  <2>1. stopper' \in [Stops -> [Workers -> StopPC]]
    BY <1>3 DEF StopLaunch, WorkerTypeOK, StopPC
  <2>2. QED
    BY <1>3, <2>1 DEF StopLaunch, WorkerTypeOK, chanVars, workerVars
<1>4. CASE CloseChannel(c)
  BY <1>4 DEF CloseChannel, WorkerTypeOK, workerVars
<1>5. CASE \/ StartCas(c) \/ Stop(c) \/ CloseEnter(c) \/ CloseOnce(c)
           \/ StartContext(c) \/ StartCancel(c) \/ StartRange(c)
           \/ StartReturn(c) \/ StopWait(c) \/ StopGivesUp(c) \/ CloseStop(c)
           \/ CloseState(c) \/ CloseWorkers(c) \/ CloseNil(c)
  <2>1. UNCHANGED <<chanVars, cancelled, workerVars, stopper, panic>>
    BY <1>5 DEF StartCas, Stop, StopCas, CloseEnter, CloseOnce, StartContext, StartCancel,
       StartRange, StartReturn,
       StopWait, StopGivesUp, CloseStop, CloseState, CloseWorkers, CloseNil
  <2>2. QED
    BY <2>1, WorkerKept
<1>6. QED
  BY <1>1, <1>2, <1>3, <1>4, <1>5 DEF CallBegin, CallStep

LEMMA CallPoolType ==
  ASSUME TypeInv, NEW c \in Callers, CallBegin(c) \/ CallStep(c)
  PROVE  SubmissionTypeOK'
<1> USE DEF TypeInv, SubmissionTypeOK, submitVars
<1>1. CASE StartCas(c)
  BY <1>1 DEF StartCas
<1>2. CASE StartContext(c) \/ StartCancel(c)
  BY <1>2 DEF StartContext, StartCancel, StartIds
<1>3. CASE Stop(c) \/ CloseStop(c)
  BY <1>3 DEF Stop, CloseStop, StopCas
<1>4. CASE CloseState(c)
  BY <1>4 DEF CloseState
<1>5. CASE CloseNil(c)
  BY <1>5 DEF CloseNil
<1>6. CASE \/ CloseEnter(c) \/ CloseOnce(c) \/ StartRange(c) \/ StartSpawn(c)
           \/ StartReturn(c) \/ StopCancel(c)
           \/ StopLaunch(c) \/ StopWait(c) \/ StopGivesUp(c) \/ CloseChannel(c)
           \/ CloseWorkers(c)
  <2>1. UNCHANGED <<poolVars, submitVars>>
    BY <1>6 DEF CloseEnter, CloseOnce, StartRange, StartSpawn, StartReturn, StopCancel,
       StopLaunch,
       StopWait, StopGivesUp, CloseChannel, CloseWorkers
  <2>2. QED
    BY <2>1, SubmissionKept
<1>7. QED
  BY <1>1, <1>2, <1>3, <1>4, <1>5, <1>6 DEF CallBegin, CallStep

LEMMA CallLifeType ==
  ASSUME TypeInv, NEW c \in Callers, CallBegin(c) \/ CallStep(c)
  PROVE  LifeTypeOK' /\ StartIds'
<1> USE WorkerAssumption, FixedPoolAssumption
    DEF TypeInv, LifeTypeOK, StartIds, CallType, CallPC, Enter, Goto, Return
<1>1. CASE StartCas(c)
  BY <1>1 DEF StartCas
<1>2. CASE StartContext(c) \/ StartCancel(c)
  BY <1>2 DEF StartContext, StartCancel
<1>12. CASE StartRange(c)
  <2>1. call' \in [Callers -> CallType]
    <3> HIDE DEF CallType
    <3>1. QED
      BY <1>12, CallUpdate DEF StartRange
  <2>2. StartIds'
    BY <1>12, <2>1 DEF StartRange
  <2>3. QED
    BY <1>12, <2>1, <2>2 DEF StartRange
<1>3. CASE StartSpawn(c)
  BY <1>3 DEF StartSpawn
<1>4. CASE StartReturn(c)
  BY <1>4 DEF StartReturn
<1>5. CASE Stop(c) \/ CloseStop(c)
  BY <1>5 DEF Stop, CloseStop, StopCas
<1>6. CASE StopCancel(c)
  BY <1>6 DEF StopCancel
<1>7. CASE StopLaunch(c)
  BY <1>7 DEF StopLaunch
<1>8. CASE StopWait(c) \/ StopGivesUp(c)
  BY <1>8 DEF StopWait, StopGivesUp, StopResult
<1>9. CASE CloseEnter(c) \/ CloseOnce(c)
  BY <1>9 DEF CloseEnter, CloseOnce
<1>10. CASE CloseState(c) \/ CloseChannel(c) \/ CloseWorkers(c) \/ CloseNil(c)
  BY <1>10 DEF CloseState, CloseChannel, CloseWorkers, CloseNil
<1>11. QED
  BY <1>1, <1>2, <1>3, <1>4, <1>5, <1>6, <1>7, <1>8, <1>9, <1>10, <1>12
     DEF CallBegin, CallStep
-----------------------------------------------------------------------------
LEMMA TypeStep == TypeInv /\ [Next]_vars => TypeInv'
<1> SUFFICES ASSUME TypeInv, [Next]_vars PROVE TypeInv'
  OBVIOUS
<1> USE DEF TypeInv
<1>1. CASE UNCHANGED vars
  BY <1>1, WorkerKept, SubmissionKept, LifeKept DEF vars
<1>2. ASSUME NEW c \in Callers, CallBegin(c) \/ CallStep(c) PROVE TypeInv'
  BY <1>2, CallWorkerType, CallPoolType, CallLifeType
<1>3. ASSUME NEW t \in Tasks, UNCHANGED lifeVars, SubmitCheck(t) \/ SubmitStep(t)
      PROVE  TypeInv'
  BY <1>3, SubmitType, LifeKept
<1>4. ASSUME NEW r \in Runs, WorkerStep(r) PROVE TypeInv'
  BY <1>4, RunType, SubmissionKept, LifeKept DEF WorkerStep
<1>5. ASSUME NEW k \in Stops, NEW w \in Workers, StopperStep(k, w) PROVE TypeInv'
  BY <1>5, StopperType, SubmissionKept, LifeKept DEF StopperStep
<1>6. ASSUME NEW g \in Gens, CancelParent(g) PROVE TypeInv'
  <2>1. WorkerTypeOK'
    BY <1>6, CancelType DEF CancelParent, WorkerTypeOK
  <2>2. QED
    BY <1>6, <2>1, SubmissionKept, LifeKept DEF CancelParent
<1>7. QED
  BY <1>1, <1>2, <1>3, <1>4, <1>5, <1>6 DEF Next, Step, ClientStep

\* Every variable keeps its type (all of fixed_pool.go and worker.go).
THEOREM Typing == Spec => []TypeOK
<1>1. TypeInv => TypeOK
  BY DEF TypeInv, TypeOK
<1>2. QED
  BY TypeInit, TypeStep, <1>1, PTL DEF Spec
-----------------------------------------------------------------------------
LEMMA OnceInit == Init => OnceInv
<1> SUFFICES ASSUME Init PROVE OnceInv
  OBVIOUS
<1>1. /\ queue = <<>> /\ Len(queue) = 0
      /\ \A r \in Runs : run[r].task = NoTask /\ run[r].pc = "none"
      /\ \A t \in Tasks : executed[t] = 0 /\ sub[t] = "idle"
  BY DEF Init, WorkerInit, SubmissionInit, NoRun
<1>2. QED
  BY <1>1, WorkerAssumption DEF OnceInv, ExactlyOnce, HandsInv, Holds, Held, InQueue,
     Accepted

LEMMA OnceStep == TypeInv /\ OnceInv /\ [Next]_vars => OnceInv'
<1> SUFFICES ASSUME TypeInv, OnceInv, [Next]_vars PROVE OnceInv'
  OBVIOUS
<1> USE DEF TypeInv, chanVars, workerVars
<1>1. CASE UNCHANGED vars
  BY <1>1, OnceKept DEF vars, submitVars, Accepted
<1>2. ASSUME NEW c \in Callers, CallBegin(c) \/ CallStep(c) PROVE OnceInv'
  <2>1. CASE StartSpawn(c)
    <3>1. PICK w \in call[c].todo : Spawn(w, ctx)
      BY <2>1 DEF StartSpawn
    <3>2. w \in Workers
      BY DEF LifeTypeOK, CallType
    <3>3. QED
      BY <2>1, <3>1, <3>2, OnceSpawn DEF StartSpawn, submitVars
  <2>2. CASE ~StartSpawn(c)
    <3>1. UNCHANGED <<queue, executed, run, sub>>
      BY <1>2, <2>2 DEF CallBegin, CallStep, StartCas, Stop, StopCas, CloseEnter, CloseOnce,
         StartContext, StartCancel, StartRange, StartReturn, StopCancel, StopLaunch,
         StopWait, StopGivesUp,
         CloseStop, CloseState, CloseChannel, CloseWorkers, CloseNil, submitVars
    <3>2. QED
      BY <3>1, OnceKept DEF Accepted
  <2>3. QED
    BY <2>1, <2>2
<1>3. ASSUME NEW t \in Tasks, SubmitCheck(t) \/ SubmitStep(t) PROVE OnceInv'
  BY <1>3, OnceSubmit
<1>4. ASSUME NEW r \in Runs, WorkerStep(r) PROVE OnceInv'
  BY <1>4, OnceRun DEF WorkerStep, submitVars
<1>5. ASSUME NEW k \in Stops, NEW w \in Workers, StopperStep(k, w) PROVE OnceInv'
  <2>1. UNCHANGED <<queue, executed, run, sub>>
    BY <1>5 DEF StopperStep, StopStep, StopCheckQuit, StopCloseQuit, StopWaitDone,
       StopTimeout, submitVars
  <2>2. QED
    BY <2>1, OnceKept DEF Accepted
<1>6. ASSUME NEW g \in Gens, CancelParent(g) PROVE OnceInv'
  BY <1>6, OnceKept DEF CancelParent, submitVars, Accepted
<1>7. QED
  BY <1>1, <1>2, <1>3, <1>4, <1>5, <1>6 DEF Next, Step, ClientStep

\* An accepted task is in the channel once, in the hands of one goroutine, or
\* executed once; a task that was not accepted is nowhere (SubmitWithTimeout,
\* Worker.Start, processTask), for any number of restarts.
THEOREM ExactlyOnceHolds == Spec => []ExactlyOnce
<1>1. OnceInv => ExactlyOnce
  BY DEF OnceInv
<1>2. QED
  BY TypeInit, TypeStep, OnceInit, OnceStep, <1>1, PTL DEF Spec
-----------------------------------------------------------------------------
LEMMA LedgerInit == Init => Ledger!Init
<1> SUFFICES ASSUME Init PROVE Ledger!Init
  OBVIOUS
<1>1. \A t \in Tasks : sub[t] = "idle"
  BY DEF Init, SubmissionInit
<1>2. \A t \in Tasks : Told(t)
  BY TypeInit, OnceInit, StatusTold DEF TypeInv
<1>3. QED
  BY <1>1, <1>2 DEF Ledger!Init, Told

\* No call of Start, Stop or Close panics by itself.
LEMMA CallPanic ==
  ASSUME NEW c \in Callers, CallBegin(c) \/ CallStep(c)
  PROVE  UNCHANGED <<panic, submitVars>>
  BY DEF CallBegin, CallStep, StartCas, Stop, StopCas, CloseEnter, CloseOnce, StartContext,
     StartCancel, StartRange,
     StartSpawn, StartReturn, StopCancel, StopLaunch, StopWait, StopGivesUp,
     CloseStop, CloseState, CloseChannel, CloseWorkers, CloseNil

LEMMA LedgerStep ==
  ASSUME TypeInv, OnceInv, TypeInv', OnceInv', [Next]_vars
  PROVE  [Ledger!Next]_([t \in Tasks |-> Status(t)])
<1> SUFFICES Ledger!Next \/ \A u \in Tasks : Status(u)' = Status(u)
  OBVIOUS
<1>1. ASSUME NEW c \in Callers, CallBegin(c) \/ CallStep(c)
      PROVE  \A u \in Tasks : Status(u)' = Status(u)
  <2>1. UNCHANGED <<queue, executed, sub>>
    BY <1>1, CallPanic DEF CallBegin, CallStep, StartCas, Stop, StopCas, CloseEnter,
       CloseOnce,
       StartContext, StartCancel, StartRange, StartSpawn, StartReturn, StopCancel,
       StopLaunch, StopWait, StopGivesUp,
       CloseStop, CloseState, CloseChannel, CloseWorkers, CloseNil, submitVars, chanVars,
       workerVars
  <2>2. \A r \in Runs : run'[r].task = run[r].task
    <3>1. CASE StartSpawn(c)
      <4>1. PICK w \in call[c].todo : Spawn(w, ctx)
        BY <3>1 DEF StartSpawn
      <4>2. w \in Workers
        BY DEF TypeInv, LifeTypeOK, CallType
      <4>3. QED
        BY <4>1, <4>2, SpawnHands DEF TypeInv
    <3>2. CASE ~StartSpawn(c)
      <4>1. run' = run
        BY <1>1, <3>2 DEF CallBegin, CallStep, StartCas, Stop, StopCas, CloseEnter,
           CloseOnce,
           StartContext, StartCancel, StartRange, StartReturn, StopCancel, StopLaunch,
           StopWait, StopGivesUp,
           CloseStop, CloseState, CloseChannel, CloseWorkers, CloseNil, workerVars
      <4>2. QED
        BY <4>1
    <3>3. QED
      BY <3>1, <3>2
  <2>3. QED
    BY <2>1, <2>2, LedgerIdle
<1>2. ASSUME NEW t \in Tasks, SubmitCheck(t) \/ SubmitStep(t)
      PROVE  Ledger!Next \/ \A u \in Tasks : Status(u)' = Status(u)
  BY <1>2, SubmitLedger DEF TypeInv
<1>3. ASSUME NEW r \in Runs, WorkerStep(r)
      PROVE  Ledger!Next \/ \A u \in Tasks : Status(u)' = Status(u)
  BY <1>3, RunLedger DEF TypeInv, WorkerStep, submitVars
<1>4. ASSUME UNCHANGED <<queue, executed, sub, run>>
      PROVE  \A u \in Tasks : Status(u)' = Status(u)
  BY <1>4, LedgerIdle
<1>5. ASSUME NEW k \in Stops, NEW w \in Workers, StopperStep(k, w)
      PROVE  UNCHANGED <<queue, executed, sub, run>>
  BY <1>5 DEF StopperStep, StopStep, StopCheckQuit, StopCloseQuit, StopWaitDone,
     StopTimeout, chanVars, workerVars, submitVars
<1>6. ASSUME NEW g \in Gens, CancelParent(g) PROVE UNCHANGED <<queue, executed, sub, run>>
  BY <1>6 DEF CancelParent, chanVars, workerVars, submitVars
<1>7. CASE UNCHANGED vars
  BY <1>4, <1>7 DEF vars, chanVars, workerVars, submitVars
<1>8. QED
  BY <1>1, <1>2, <1>3, <1>4, <1>5, <1>6, <1>7 DEF Next, Step, ClientStep

\* The pool is a ledger of its submissions: whatever its goroutines, restarts,
\* timers and panics do, a task is accepted into a place the channel has, taken
\* by a goroutine with empty hands, completed by it once, and never goes back;
\* a refusal is final (SubmitWithTimeout, Worker.Start, processTask).
THEOREM PoolIsALedger == Spec => ImplementsLedger
<1>1. TypeInv /\ OnceInv /\ (TypeInv /\ OnceInv)' /\ [Next]_vars
        => [Ledger!Next]_([t \in Tasks |-> Status(t)])
  BY LedgerStep
<1>2. QED
  BY TypeInit, TypeStep, OnceInit, OnceStep, LedgerInit, <1>1, PTL
     DEF Spec, ImplementsLedger, Ledger!Spec
-----------------------------------------------------------------------------
(***************************************************************************)
(* No panic under the contract.  With one start, the calls go through      *)
(* their phases once: a pool that was stopped never runs again.            *)
(***************************************************************************)
\* The calls of Start that have spawned nothing yet.
Unspawned == {"start_ctx", "start_cancel", "start_range"}
Starting == Unspawned \cup {"start_spawn"}
BeforeQuit == {"stop_cancel", "stop_launch"}
Ending == {"stop_cancel", "stop_launch", "stop_wait", "close_state", "close_chan",
           "close_workers", "close_nil"}
CloseOnly == {"close_once", "close_stop", "close_state", "close_chan",
              "close_workers", "close_nil"}

PhaseInv ==
  /\ starts <= 1
  /\ starts = 0 => state = 0 /\ \A c \in Callers : call[c].pc \notin Starting
  /\ starts = 0 \/ state = 1 =>
       /\ chanOpen /\ stops = 0
       /\ \A c \in Callers : call[c].pc \notin Ending
  /\ starts = 1 /\ (\A c \in Callers : call[c].pc # "start_ctx") => ctx # 0
  /\ \A c \in Callers :
       /\ call[c].pc \in Starting => call[c].op = "start"
       /\ call[c].pc \in CloseOnly => call[c].op = "close"
       /\ call[c].pc \in BeforeQuit => stops = 0
  /\ \A c, d \in Callers :
       \/ call[c].pc \in Starting /\ call[d].pc \in Starting
       \/ call[c].pc \in BeforeQuit /\ call[d].pc \in BeforeQuit
       => c = d

\* Only one round of Worker.Stop calls is made, and it finds quit open.
QuitInv ==
  /\ stops = 0 => \A w \in Workers : ~quit[w]
  /\ \A k \in Stops, w \in Workers :
       /\ stopper[k][w] # "none" => k = 1 /\ stops # 0
       /\ stopper[k][w] \in {"check", "close"} => ~quit[w]

\* A worker is started once.
RunInv ==
  /\ \A r, s \in Runs : r[1] = s[1] /\ run[r].pc # "none" /\ run[s].pc # "none" => r = s
  /\ \A r \in Runs : Live(r) => ~done[r[1]]
  /\ \A w \in Workers :
       (starts = 0 \/ \E c \in Callers : \/ call[c].pc \in Unspawned
                                         \/ call[c].pc = "start_spawn" /\ w \in call[c].todo)
         => ~done[w] /\ \A r \in Runs : r[1] = w => run[r].pc = "none"

\* A submission under way finds a context and an open channel.
FlightInv == (\E t \in Tasks : InFlight(t)) => chanOpen /\ ctx # 0

StartedOnce == PhaseInv /\ QuitInv /\ RunInv

ContractInv == StartedOnce /\ FlightInv /\ NoPanic

LEMMA ContractInit == Init => ContractInv
<1> SUFFICES ASSUME Init PROVE ContractInv
  OBVIOUS
<1>1. PhaseInv
  BY DEF Init, WorkerInit, SubmissionInit, PhaseInv, Unspawned, Starting, Ending,
     BeforeQuit, CloseOnly
<1>2. QuitInv
  BY DEF Init, WorkerInit, QuitInv
<1>3. RunInv
  BY DEF Init, WorkerInit, NoRun, RunInv, Live, Runs
<1>4. FlightInv /\ NoPanic
  BY DEF Init, WorkerInit, SubmissionInit, FlightInv, InFlight, NoPanic
<1>5. QED
  BY <1>1, <1>2, <1>3, <1>4 DEF ContractInv, StartedOnce

\* What Goto and Return do to the calls.
LEMMA CallGoto ==
  ASSUME LifeTypeOK, NEW c \in Callers, NEW pc, Goto(c, pc)
  PROVE  /\ call'[c].pc = pc /\ call'[c].op = call[c].op
         /\ call'[c].todo = call[c].todo
         /\ \A d \in Callers \ {c} : call'[d] = call[d]
  BY DEF LifeTypeOK, CallType, Goto

LEMMA CallReturn ==
  ASSUME LifeTypeOK, NEW c \in Callers, NEW op, NEW res, Return(c, op, res)
  PROVE  /\ call'[c].pc = "idle" /\ call'[c].todo = {}
         /\ \A d \in Callers \ {c} : call'[d] = call[d]
  BY DEF LifeTypeOK, CallType, Return

LEMMA CallPhase ==
  ASSUME LifeTypeOK, PhaseInv, NEW c \in Callers, CallBegin(c) \/ CallStep(c), starts' <= 1,
         StartIds
  PROVE  PhaseInv'
<1> USE DEF LifeTypeOK, PhaseInv, Unspawned, Starting, Ending, BeforeQuit, CloseOnly,
            Enter, Goto, Return, chanVars, poolVars
<1>1. CASE StartCas(c)
  BY <1>1 DEF StartCas
<1>2. CASE StartContext(c)
  BY <1>2 DEF StartContext, StartCancel, StartRange, StartIds
<1>14. CASE StartCancel(c)
  BY <1>14 DEF StartCancel
<1>15. CASE StartRange(c)
  BY <1>15 DEF StartRange
<1>3. CASE StartSpawn(c)
  BY <1>3 DEF StartSpawn
<1>4. CASE StartReturn(c)
  BY <1>4 DEF StartReturn
<1>5. CASE Stop(c) \/ CloseStop(c)
  BY <1>5 DEF Stop, CloseStop, StopCas
<1>6. CASE StopCancel(c)
  BY <1>6 DEF StopCancel
<1>7. CASE StopLaunch(c)
  BY <1>7 DEF StopLaunch
<1>8. CASE StopWait(c) \/ StopGivesUp(c)
  <2>1. /\ call[c].pc = "stop_wait"
        /\ UNCHANGED <<starts, state, chanOpen, stops, ctx>>
    BY <1>8 DEF StopWait, StopGivesUp
  <2>2. /\ call'[c].pc = "idle" \/ (call'[c].pc = "close_state" /\ call'[c].op = "close")
        /\ \A d \in Callers \ {c} : call'[d] = call[d]
    <3> HIDE DEF LifeTypeOK, Goto, Return
    <3>1. \/ Return(c, "stop", "nil") \/ Return(c, "stop", "error")
          \/ Return(c, "close", "error")
          \/ call[c].op = "close" /\ Goto(c, "close_state")
      BY <1>8 DEF StopWait, StopGivesUp, StopResult
    <3>2. QED
      BY <3>1, CallGoto, CallReturn
  <2>3. QED
    BY <2>1, <2>2
<1>9. CASE CloseEnter(c)
  BY <1>9 DEF CloseEnter
<1>16. CASE CloseOnce(c)
  <2>1. CASE Goto(c, "close_stop")
    BY <1>16, <2>1 DEF CloseOnce
  <2>2. CASE Return(c, "close", "nil")
    BY <1>16, <2>2 DEF CloseOnce
  <2>3. QED
    BY <1>16, <2>1, <2>2 DEF CloseOnce
<1>10. CASE CloseState(c)
  BY <1>10 DEF CloseState
<1>11. CASE CloseChannel(c)
  BY <1>11 DEF CloseChannel
<1>12. CASE CloseWorkers(c) \/ CloseNil(c)
  <2>1. /\ call[c].pc \in {"close_workers", "close_nil"}
        /\ UNCHANGED <<starts, state, chanOpen, stops, ctx>>
    BY <1>12 DEF CloseWorkers, CloseNil
  <2>2. /\ call'[c].pc = "idle" \/ (call'[c].pc = "close_nil" /\ call'[c].op = call[c].op)
        /\ \A d \in Callers \ {c} : call'[d] = call[d]
    <3> HIDE DEF LifeTypeOK, Goto, Return
    <3>1. Goto(c, "close_nil") \/ Return(c, "close", "nil")
      BY <1>12 DEF CloseWorkers, CloseNil
    <3>2. QED
      BY <3>1, CallGoto, CallReturn
  <2>3. QED
    BY <2>1, <2>2
<1>13. QED
  BY <1>1, <1>2, <1>3, <1>4, <1>5, <1>6, <1>7, <1>8, <1>9, <1>10, <1>11, <1>12,
     <1>14, <1>15, <1>16 DEF CallBegin, CallStep

LEMMA CallQuit ==
  ASSUME WorkerTypeOK, LifeTypeOK, PhaseInv, QuitInv, NEW c \in Callers,
         CallBegin(c) \/ CallStep(c)
  PROVE  QuitInv'
<1>1. CASE StopLaunch(c)
  <2>1. stops = 0
    BY <1>1 DEF StopLaunch, PhaseInv, BeforeQuit
  <2>2. \A w \in Workers : quit'[w] = quit[w] /\ ~quit[w]
    BY <1>1, <2>1 DEF StopLaunch, QuitInv, workerVars
  <2>3. \A k \in Stops : k # 1 => stopper'[k] = stopper[k]
    BY <1>1, <2>1 DEF StopLaunch, WorkerTypeOK
  <2>4. stops' = 1
    BY <1>1, <2>1 DEF StopLaunch
  <2>5. QED
    BY <2>1, <2>2, <2>3, <2>4 DEF QuitInv
<1>2. CASE ~StopLaunch(c)
  <2>1. UNCHANGED <<stops, quit, stopper>>
    BY <1>2 DEF CallBegin, CallStep, StartCas, Stop, StopCas, CloseEnter, CloseOnce,
       StartContext, StartCancel, StartRange, StartSpawn, StartReturn, StopCancel,
       StopWait, StopGivesUp,
       CloseStop, CloseState, CloseChannel, CloseWorkers, CloseNil, workerVars
  <2>2. QED
    BY <2>1 DEF QuitInv
<1>3. QED
  BY <1>1, <1>2

LEMMA StopperQuit ==
  ASSUME WorkerTypeOK, QuitInv, NEW k \in Stops, NEW w \in Workers, StopperStep(k, w)
  PROVE  QuitInv' /\ panic' = panic
<1>1. stops' = stops
  BY DEF StopperStep, lifeVars
<1>2. PICK pc \in StopPC : /\ stopper' = [stopper EXCEPT ![k][w] = pc]
                           /\ stopper[k][w] # "none"
                           /\ pc = "close" => ~quit[w]
                           /\ pc # "check"
  BY DEF StopperStep, StopStep, StopCheckQuit, StopCloseQuit, StopWaitDone,
     StopTimeout, StopPCSet, StopPC
<1>3. /\ panic' = panic
      /\ \/ quit' = quit
         \/ pc = "wait" /\ quit' = [quit EXCEPT ![w] = TRUE]
  <2>1. CASE StopCloseQuit(k, w)
    <3>1. ~quit[w]
      BY <2>1 DEF StopCloseQuit, QuitInv
    <3>2. stopper' = [stopper EXCEPT ![k][w] = "wait"]
      BY <2>1 DEF StopCloseQuit, StopPCSet
    <3>3. pc = "wait"
      <4>1. [stopper EXCEPT ![k][w] = "wait"] = [stopper EXCEPT ![k][w] = pc]
        BY <1>2, <3>2
      <4>2. stopper \in [Stops -> [Workers -> StopPC]]
        BY DEF WorkerTypeOK
      <4>3. \A x : [stopper EXCEPT ![k][w] = x][k][w] = x
        BY <4>2
      <4>4. QED
        BY <4>1, <4>3
    <3>4. QED
      BY <2>1, <3>1, <3>3 DEF StopCloseQuit
  <2>2. CASE ~StopCloseQuit(k, w)
    BY <2>2 DEF StopperStep, StopStep, StopCheckQuit, StopWaitDone, StopTimeout, workerVars
  <2>3. QED
    BY <2>1, <2>2
<1>4. /\ stopper'[k][w] = pc
      /\ \A j \in Stops, v \in Workers : j # k \/ v # w => stopper'[j][v] = stopper[j][v]
      /\ \A v \in Workers : v # w => quit'[v] = quit[v]
  BY <1>2, <1>3 DEF WorkerTypeOK
<1>5. k = 1 /\ stops # 0
  BY <1>2 DEF QuitInv
<1>6. QED
  BY <1>1, <1>2, <1>3, <1>4, <1>5 DEF QuitInv

LEMMA RunRun ==
  ASSUME WorkerTypeOK, RunInv, NEW r \in Runs, RunStep(r), UNCHANGED <<starts, call>>
  PROVE  RunInv' /\ panic' = panic
<1>0. r[1] \in Workers
  BY DEF Runs
<1>1. run[r].pc # "none" /\ run'[r].pc # "none" /\ \A s \in Runs \ {r} : run'[s] = run[s]
  <2>1. run \in [Runs -> [pc : RunPC, ctx : Gens \cup {0}, task : Tasks \cup {NoTask}]]
    BY DEF WorkerTypeOK
  <2>2. CASE ObserveStop(r) \/ CloseDone(r) \/ BeginTask(r) \/ EndTask(r)
    <3>1. PICK pc \in RunPC \ {"none"} : run[r].pc # "none" /\ run' = [run EXCEPT ![r].pc = pc]
      BY <2>2 DEF ObserveStop, CloseDone, BeginTask, EndTask, RunPC
    <3>2. QED
      BY <2>1, <3>1
  <2>3. CASE Receive(r)
    BY <2>1, <2>3 DEF Receive
  <2>4. CASE FinishTask(r)
    BY <2>1, <2>4 DEF FinishTask
  <2>5. QED
    BY <2>2, <2>3, <2>4 DEF RunStep
<1>2. Live(r) /\ ~done[r[1]]
  BY DEF RunStep, ObserveStop, CloseDone, Receive, BeginTask, FinishTask, EndTask,
     Live, RunInv
<1>3. /\ panic' = panic
      /\ done' = done \/ (done' = [done EXCEPT ![r[1]] = TRUE] /\ run'[r].pc = "exited")
  BY <1>2 DEF RunStep, ObserveStop, CloseDone, Receive, BeginTask, FinishTask, EndTask,
     WorkerTypeOK
<1>4. \A w \in Workers : w # r[1] => done'[w] = done[w]
  BY <1>0, <1>3 DEF WorkerTypeOK
<1>5. \A s \in Runs : s # r /\ s[1] = r[1] => run[s].pc = "none"
  BY <1>1 DEF RunInv
<1>6. \A s \in Runs : s[1] \in Workers
  BY DEF Runs
<1>7. QED
  BY <1>0, <1>1, <1>2, <1>3, <1>4, <1>5, <1>6 DEF RunInv, Live

\* What the calls do to the goroutines.
LEMMA CallRun ==
  ASSUME TypeInv, PhaseInv, RunInv, NEW c \in Callers, CallBegin(c) \/ CallStep(c),
         starts' <= 1
  PROVE  RunInv'
<1> USE DEF workerVars
<1>1. CASE StartCas(c)
  <2>1. UNCHANGED <<run, done>>
    BY <1>1 DEF StartCas
  <2>2. starts' = 0 => starts = 0
    BY <1>1 DEF StartCas, TypeInv, LifeTypeOK
  <2>3. \/ starts = 0
        \/ call'[c].pc = "idle" /\ \A d \in Callers \ {c} : call'[d] = call[d]
    <3>1. starts = 0 \/ Return(c, "start", "error")
      BY <1>1 DEF StartCas, PhaseInv, TypeInv, LifeTypeOK
    <3>2. QED
      BY <3>1, CallReturn DEF TypeInv
  <2>4. QED
    BY <2>1, <2>2, <2>3 DEF RunInv, Live, Unspawned
<1>2. CASE StartContext(c) \/ StartCancel(c) \/ StartRange(c)
  <2>1. \A w \in Workers : ~done[w] /\ \A r \in Runs : r[1] = w => run[r].pc = "none"
    <3>1. call[c].pc \in Unspawned
      BY <1>2 DEF StartContext, StartCancel, StartRange, Unspawned
    <3>2. QED
      BY <3>1 DEF RunInv
  <2>2. UNCHANGED <<run, done>>
    BY <1>2 DEF StartContext, StartCancel, StartRange
  <2>3. QED
    BY ONLY RunInv, <2>1, <2>2 DEF RunInv, Live
<1>3. CASE StartSpawn(c)
  <2>1. PICK w \in call[c].todo, s \in 1..MaxRuns :
           /\ run' = [run EXCEPT ![<<w, s>>] =
                         [pc |-> "select", ctx |-> ctx, task |-> NoTask]]
           /\ call' = [call EXCEPT ![c].todo = @ \ {w}]
    BY <1>3 DEF StartSpawn, Spawn
  <2>2. w \in Workers /\ <<w, s>> \in Runs
    BY DEF TypeInv, LifeTypeOK, CallType, Runs
  <2>3. ~done[w] /\ \A r \in Runs : r[1] = w => run[r].pc = "none"
    BY <1>3, <2>1, <2>2 DEF StartSpawn, RunInv
  <2>4. UNCHANGED <<done, starts>> /\ starts # 0
    BY <1>3 DEF StartSpawn, PhaseInv, Unspawned, Starting
  <2>5. /\ run'[<<w, s>>].pc = "select"
        /\ \A r \in Runs \ {<<w, s>>} : run'[r] = run[r]
    BY <2>1, <2>2 DEF TypeInv, WorkerTypeOK
  <2>6. \A d \in Callers : call'[d].pc \in Starting => d = c
    BY <1>3, <2>1 DEF StartSpawn, PhaseInv, Unspawned, Starting, TypeInv, LifeTypeOK,
       CallType
  <2>7. call'[c].pc = "start_spawn" /\ call'[c].todo = call[c].todo \ {w}
    BY <1>3, <2>1 DEF StartSpawn, TypeInv, LifeTypeOK, CallType
  <2>8. \A v \in Workers, r \in Runs : r[1] = v /\ v # w => run'[r] = run[r]
    BY <2>5
  <2>9. \A r, q \in Runs : r[1] = q[1] /\ run'[r].pc # "none" /\ run'[q].pc # "none" => r = q
    BY <2>2, <2>3, <2>5 DEF RunInv
  <2>10. \A r \in Runs : Live(r)' => ~done'[r[1]]
    BY <2>2, <2>3, <2>4, <2>5 DEF RunInv, Live
  <2>11. ASSUME NEW v \in Workers,
                \E d \in Callers : \/ call'[d].pc \in Unspawned
                                   \/ call'[d].pc = "start_spawn" /\ v \in call'[d].todo
         PROVE  ~done'[v] /\ \A r \in Runs : r[1] = v => run'[r].pc = "none"
    <3>1. v # w /\ v \in call[c].todo
      BY <2>6, <2>7, <2>11 DEF Unspawned, Starting
    <3>2. ~done[v] /\ \A r \in Runs : r[1] = v => run[r].pc = "none"
      BY <1>3, <3>1 DEF StartSpawn, RunInv
    <3>3. QED
      BY <2>4, <2>8, <3>1, <3>2
  <2>12. QED
    BY <2>4, <2>9, <2>10, <2>11 DEF RunInv
<1>4. CASE ~(\/ StartCas(c) \/ StartContext(c) \/ StartCancel(c) \/ StartRange(c)
             \/ StartSpawn(c))
  <2>1. UNCHANGED <<run, done, starts>>
    BY <1>4 DEF CallBegin, CallStep, Stop, StopCas, CloseEnter, CloseOnce, StartReturn,
       StopCancel, StopLaunch, StopWait, StopGivesUp, CloseStop, CloseState,
       CloseChannel, CloseWorkers, CloseNil
  <2>2. /\ \A d \in Callers \ {c} : call'[d] = call[d]
        /\ call'[c].pc \notin Starting
    <3>1. \/ \E pc \in CallPC \ Starting : Goto(c, pc)
          \/ \E op, res : Return(c, op, res)
          \/ \E op, id : \E pc \in CallPC \ Starting : Enter(c, op, pc, id)
      BY <1>4 DEF CallBegin, CallStep, Stop, StopCas, CloseEnter, CloseOnce, StartReturn,
         StopCancel, StopLaunch, StopWait, StopGivesUp, StopResult, CloseStop,
         CloseState, CloseChannel, CloseWorkers, CloseNil, CallPC, Unspawned, Starting
    <3>2. QED
      BY <3>1 DEF Goto, Return, Enter, TypeInv, LifeTypeOK, CallType, Unspawned, Starting
  <2>3. QED
    BY <2>1, <2>2 DEF RunInv, Live, Unspawned, Starting
<1>5. QED
  BY <1>1, <1>2, <1>3, <1>4

LEMMA SubmitFlight ==
  ASSUME TypeInv, PhaseInv, FlightInv, NEW t \in Tasks, SubmitCheck(t) \/ SubmitStep(t),
         UNCHANGED lifeVars, Cooperative'
  PROVE  FlightInv' /\ panic' = panic
<1>1. UNCHANGED <<chanOpen, ctx>>
  BY DEF SubmitCheck, SubmitStep, SubmitNow, SubmitArm, SubmitSend, SubmitTimeout,
     SubmitCancelled, poolVars, chanVars
<1>2. CASE SubmitCheck(t)
  <2>1. ASSUME NEW u \in Tasks, InFlight(u)' PROVE chanOpen /\ ctx # 0
    <3>1. CASE InFlight(u)
      BY <3>1 DEF FlightInv
    <3>2. CASE ~InFlight(u)
      <4>1. state = 1
        BY <1>2, <2>1, <3>2 DEF SubmitCheck, Becomes, InFlight, TypeInv, SubmissionTypeOK
      <4>2. \A c \in Callers : call[c].pc # "start_ctx"
        BY <2>1 DEF Cooperative, lifeVars, PhaseInv, Unspawned, Starting
      <4>3. QED
        BY <4>1, <4>2 DEF PhaseInv, TypeInv, LifeTypeOK
    <3>3. QED
      BY <3>1, <3>2
  <2>2. QED
    BY <1>1, <1>2, <2>1 DEF FlightInv, SubmitCheck
<1>3. CASE SubmitStep(t)
  <2>1. InFlight(t) /\ chanOpen /\ ctx # 0
    BY <1>3 DEF SubmitStep, SubmitNow, SubmitArm, SubmitSend, SubmitTimeout,
       SubmitCancelled, InFlight, FlightInv
  <2>2. panic' = panic
    BY <1>3, <2>1 DEF SubmitStep, SubmitNow, SubmitArm, SubmitSend, SubmitTimeout,
       SubmitCancelled
  <2>3. QED
    BY <1>1, <2>1, <2>2 DEF FlightInv
<1>4. QED
  BY <1>2, <1>3

LEMMA CallFlight ==
  ASSUME TypeInv, PhaseInv, FlightInv, NEW c \in Callers, CallBegin(c) \/ CallStep(c),
         Cooperative'
  PROVE  FlightInv'
<1>1. SUFFICES ASSUME NEW t \in Tasks, InFlight(t)' PROVE chanOpen' /\ ctx' # 0
  BY DEF FlightInv
<1>2. InFlight(t) /\ chanOpen /\ ctx # 0
  BY <1>1, CallPanic DEF InFlight, FlightInv, submitVars
<1>3. ~CloseChannel(c)
  <2>1. ASSUME CloseChannel(c) PROVE FALSE
    <3>1. call[c].op = "close"
      BY <2>1 DEF CloseChannel, PhaseInv, CloseOnly
    <3>2. call'[c].pc = "close_workers" /\ call'[c].op = "close"
      BY <2>1, <3>1, CallGoto DEF CloseChannel, TypeInv
    <3>3. QED
      BY <1>1, <3>2 DEF Cooperative
  <2>2. QED
    BY <2>1
<1>4. chanOpen' = chanOpen
  BY <1>3 DEF CallBegin, CallStep, StartCas, Stop, StopCas, CloseEnter, CloseOnce,
     StartContext, StartCancel, StartRange,
     StartSpawn, StartReturn, StopCancel, StopLaunch, StopWait, StopGivesUp,
     CloseStop, CloseState, CloseWorkers, CloseNil, chanVars
<1>5. CASE StartContext(c)
  BY <1>2, <1>4, <1>5, WorkerAssumption DEF StartContext, StartCancel, StartRange, TypeInv,
     StartIds
<1>6. CASE ~StartContext(c)
  <2>1. ctx' = ctx
    BY <1>6 DEF CallBegin, CallStep, StartCas, Stop, StopCas, CloseEnter, CloseOnce,
       StartCancel, StartRange, StartSpawn, StartReturn, StopCancel, StopLaunch, StopWait,
       StopGivesUp,
       CloseStop, CloseState, CloseChannel, CloseWorkers, CloseNil, poolVars
  <2>2. QED
    BY <1>2, <1>4, <2>1
<1>7. QED
  BY <1>5, <1>6

\* In a pool started once these hold with or without the contract.
LEMMA StartedOnceKept ==
  ASSUME StartedOnce, UNCHANGED <<lifeVars, state, ctx, chanOpen, run, done, quit, stopper>>
  PROVE  StartedOnce'
  BY DEF StartedOnce, PhaseInv, QuitInv, RunInv, Live, lifeVars

LEMMA StartedOnceStep ==
  TypeInv /\ StartedOnce /\ [Next]_vars /\ starts' <= 1 => StartedOnce'
<1> SUFFICES ASSUME TypeInv, StartedOnce, [Next]_vars, starts' <= 1
             PROVE  StartedOnce'
  OBVIOUS
<1> USE DEF StartedOnce, TypeInv
<1>kept. ASSUME UNCHANGED <<lifeVars, state, ctx, chanOpen>> PROVE PhaseInv'
  BY <1>kept DEF PhaseInv, lifeVars
<1>1. CASE UNCHANGED vars
  BY <1>1, StartedOnceKept DEF vars, poolVars, chanVars, workerVars
<1>2. ASSUME NEW c \in Callers, CallBegin(c) \/ CallStep(c) PROVE StartedOnce'
  BY <1>2, CallPhase, CallQuit, CallRun
<1>3. ASSUME NEW t \in Tasks, SubmitCheck(t) \/ SubmitStep(t), UNCHANGED lifeVars
      PROVE  StartedOnce'
  <2>1. UNCHANGED <<state, ctx, chanOpen, workerVars, stopper>>
    BY <1>3 DEF SubmitCheck, SubmitStep, SubmitNow, SubmitArm, SubmitSend,
       SubmitTimeout, SubmitCancelled, poolVars, chanVars
  <2>2. QED
    BY <1>3, <2>1, StartedOnceKept DEF workerVars
<1>4. ASSUME NEW r \in Runs, WorkerStep(r) PROVE StartedOnce'
  <2>1. /\ UNCHANGED <<poolVars, submitVars, lifeVars>> /\ RunStep(r)
        /\ UNCHANGED <<chanOpen, quit, stopper>>
    BY <1>4 DEF WorkerStep, RunStep, ObserveStop, CloseDone, Receive, BeginTask,
       FinishTask, EndTask, chanVars
  <2>2. QuitInv' /\ PhaseInv'
    BY <1>kept, <2>1 DEF QuitInv, poolVars, lifeVars
  <2>3. QED
    BY <2>1, <2>2, RunRun DEF lifeVars
<1>5. ASSUME NEW k \in Stops, NEW w \in Workers, StopperStep(k, w) PROVE StartedOnce'
  <2>1. UNCHANGED <<poolVars, lifeVars, chanOpen, run, done>>
    BY <1>5 DEF StopperStep, StopStep, StopCheckQuit, StopCloseQuit, StopWaitDone,
       StopTimeout, chanVars, workerVars
  <2>2. RunInv' /\ PhaseInv'
    BY <1>kept, <2>1 DEF RunInv, Live, poolVars, lifeVars
  <2>3. QED
    BY <1>5, <2>2, StopperQuit
<1>6. ASSUME NEW g \in Gens, CancelParent(g) PROVE StartedOnce'
  BY <1>6, StartedOnceKept DEF CancelParent, poolVars, chanVars, workerVars
<1>7. QED
  BY <1>1, <1>2, <1>3, <1>4, <1>5, <1>6 DEF Next, Step, ClientStep

LEMMA ContractStep ==
  TypeInv /\ ContractInv /\ [Next /\ Cooperative']_vars => ContractInv'
<1> SUFFICES ASSUME TypeInv, ContractInv, [Next /\ Cooperative']_vars
             PROVE  ContractInv'
  OBVIOUS
<1>1. CASE UNCHANGED vars
  <2>1. StartedOnce'
    BY <1>1, StartedOnceKept DEF vars, poolVars, chanVars, workerVars, ContractInv
  <2>2. QED
    BY <1>1, <2>1 DEF vars, submitVars, poolVars, chanVars, ContractInv, FlightInv,
       InFlight,
       NoPanic
<1>2. CASE Next /\ Cooperative'
  <2>1. starts' <= 1 /\ StartedOnce'
    BY <1>2, StartedOnceStep DEF Cooperative, ContractInv
  <2>2. PhaseInv /\ QuitInv /\ RunInv /\ WorkerTypeOK
    BY DEF ContractInv, StartedOnce, TypeInv
  <2>3. SUFFICES FlightInv' /\ panic' = panic
    BY <2>1, <2>3 DEF ContractInv, NoPanic
  <2>4. ASSUME NEW c \in Callers, CallBegin(c) \/ CallStep(c) PROVE FlightInv' /\ panic' = panic
    BY <1>2, <2>2, <2>4, CallFlight, CallPanic DEF ContractInv
  <2>5. ASSUME NEW t \in Tasks, SubmitCheck(t) \/ SubmitStep(t), UNCHANGED lifeVars
        PROVE  FlightInv' /\ panic' = panic
    BY <1>2, <2>2, <2>5, SubmitFlight DEF ContractInv
  <2>6. ASSUME UNCHANGED <<chanOpen, ctx, sub>> PROVE FlightInv'
    BY <2>6 DEF ContractInv, FlightInv, InFlight
  <2>7. ASSUME NEW r \in Runs, WorkerStep(r) PROVE FlightInv' /\ panic' = panic
    <3>1. UNCHANGED <<chanOpen, ctx, sub, starts, call>> /\ RunStep(r)
      BY <2>7 DEF WorkerStep, RunStep, ObserveStop, CloseDone, Receive, BeginTask,
         FinishTask, EndTask, chanVars, poolVars, submitVars, lifeVars
    <3>2. QED
      BY <2>2, <2>6, <3>1, RunRun
  <2>8. ASSUME NEW k \in Stops, NEW w \in Workers, StopperStep(k, w)
        PROVE  FlightInv' /\ panic' = panic
    <3>1. UNCHANGED <<chanOpen, ctx, sub>>
      BY <2>8 DEF StopperStep, StopStep, StopCheckQuit, StopCloseQuit, StopWaitDone,
         StopTimeout, chanVars, poolVars, submitVars
    <3>2. QED
      BY <2>2, <2>6, <2>8, <3>1, StopperQuit
  <2>9. ASSUME NEW g \in Gens, CancelParent(g) PROVE FlightInv' /\ panic' = panic
    BY <2>6, <2>9 DEF CancelParent, chanVars, poolVars, submitVars
  <2>10. QED
    BY <1>2, <2>4, <2>5, <2>7, <2>8, <2>9 DEF Next, Step, ClientStep
<1>3. QED
  BY <1>1, <1>2

\* Used as its documentation shows - started once, no submission overlapping
\* Start or Close - the pool never closes a channel twice, never sends on a
\* closed one and never reads a nil context, however Stop, the timers, the
\* tasks and the cancellation of the parent context fall.
THEOREM NoPanicUnderContract == ContractSpec => []NoPanic
<1>1. TypeInv /\ [Next /\ Cooperative']_vars => TypeInv'
  BY TypeStep
<1>2. ContractInv => NoPanic
  BY DEF ContractInv
<1>3. QED
  BY TypeInit, ContractInit, <1>1, ContractStep, <1>2, PTL DEF ContractSpec
-----------------------------------------------------------------------------
(***************************************************************************)
(* What Stop has waited for, in a pool started once and used in any way.   *)
(***************************************************************************)
\* A Worker.Stop that returned nil has seen done closed.
WaitInv == \A k \in Stops, w \in Workers : stopper[k][w] = "nil" => done[w]

WaitedInv == starts <= 1 => StartedOnce /\ WaitInv

LEMMA WaitStep ==
  TypeInv /\ QuitInv /\ WaitInv /\ [Next]_vars => WaitInv'
<1> SUFFICES ASSUME TypeInv, QuitInv, WaitInv, [Next]_vars PROVE WaitInv'
  OBVIOUS
<1>0. stopper \in [Stops -> [Workers -> StopPC]] /\ done \in [Workers -> BOOLEAN]
  BY DEF TypeInv, WorkerTypeOK
<1>1. \A w \in Workers : done[w] => done'[w]
  <2>1. ASSUME NEW r \in Runs, CloseDone(r) PROVE \A w \in Workers : done[w] => done'[w]
    BY <1>0, <2>1 DEF CloseDone
  <2>2. CASE done' = done
    BY <2>2
  <2>3. CASE done' # done
    <3>1. \E r \in Runs : CloseDone(r)
      BY <2>3 DEF Next, Step, vars, workerVars, CallBegin, CallStep, StartCas, Stop,
         StopCas, CloseEnter, CloseOnce, StartContext, StartCancel, StartRange, StartSpawn,
         StartReturn, StopCancel, StopLaunch,
         StopWait, StopGivesUp, CloseStop, CloseState, CloseChannel, CloseWorkers, CloseNil,
         ClientStep, SubmitCheck, SubmitStep, SubmitNow, SubmitArm, SubmitSend,
         SubmitTimeout, SubmitCancelled, WorkerStep, RunStep, ObserveStop, Receive,
         BeginTask, FinishTask, EndTask, StopperStep, StopStep, StopCheckQuit,
         StopCloseQuit, StopWaitDone, StopTimeout, CancelParent
    <3>2. QED
      BY <2>1, <3>1
  <2>4. QED
    BY <2>2, <2>3
<1>2. ASSUME NEW k \in Stops, NEW w \in Workers, StopperStep(k, w) PROVE WaitInv'
  <2>1. CASE StopWaitDone(k, w)
    <3>1. stopper' = [stopper EXCEPT ![k][w] = "nil"] /\ done[w]
      BY <2>1 DEF StopWaitDone, StopPCSet
    <3>2. \A j \in Stops, v \in Workers : j # k \/ v # w => stopper'[j][v] = stopper[j][v]
      BY <1>0, <3>1
    <3>3. QED
      BY <1>1, <3>1, <3>2 DEF WaitInv
  <2>2. CASE StopCheckQuit(k, w) \/ StopCloseQuit(k, w) \/ StopTimeout(k, w)
    <3>1. PICK pc \in {"close", "wait", "timeout"} : stopper' = [stopper EXCEPT ![k][w] = pc]
      <4>1. CASE StopCheckQuit(k, w)
        <5>1. ~quit[w]
          BY <4>1 DEF StopCheckQuit, QuitInv
        <5>2. QED
          BY <4>1, <5>1 DEF StopCheckQuit, StopPCSet
      <4>2. QED
        BY <2>2, <4>1 DEF StopCloseQuit, StopTimeout, StopPCSet
    <3>2. \A j \in Stops, v \in Workers :
            stopper'[j][v] = stopper[j][v] \/ stopper'[j][v] = pc
      BY <1>0, <3>1
    <3>3. QED
      BY <1>1, <3>1, <3>2 DEF WaitInv
  <2>3. QED
    BY <1>2, <2>1, <2>2 DEF StopperStep, StopStep
<1>3. ASSUME NEW c \in Callers, StopLaunch(c) PROVE WaitInv'
  <2>1. PICK k \in Stops : stopper' = [stopper EXCEPT ![k] =
                   [w \in Workers |-> IF w \in workers THEN "check" ELSE "none"]]
    BY <1>3, WorkerAssumption DEF StopLaunch, TypeInv, LifeTypeOK
  <2>2. \A j \in Stops, v \in Workers :
          stopper'[j][v] = stopper[j][v] \/ stopper'[j][v] \in {"check", "none"}
    BY <1>0, <2>1
  <2>3. QED
    BY <1>1, <2>2 DEF WaitInv
<1>4. CASE stopper' = stopper
  BY <1>1, <1>4 DEF WaitInv
<1>5. CASE stopper' # stopper
  <2>1. \/ \E k \in Stops, w \in Workers : StopperStep(k, w)
        \/ \E c \in Callers : StopLaunch(c)
    BY <1>5 DEF Next, Step, vars, CallBegin, CallStep, StartCas, Stop,
       StopCas, CloseEnter, CloseOnce, StartContext, StartCancel, StartRange, StartSpawn,
       StartReturn, StopCancel,
       StopWait, StopGivesUp, CloseStop, CloseState, CloseChannel, CloseWorkers, CloseNil,
       ClientStep, SubmitCheck, SubmitStep, SubmitNow, SubmitArm, SubmitSend,
       SubmitTimeout, SubmitCancelled, WorkerStep, RunStep, ObserveStop, CloseDone, Receive,
       BeginTask, FinishTask, EndTask, CancelParent
  <2>2. QED
    BY <1>2, <1>3, <2>1
<1>6. QED
  BY <1>4, <1>5

\* Starts are counted one at a time.
LEMMA StartsCount == ASSUME [Next]_vars PROVE starts' = starts \/ starts' = starts + 1
<1>1. CASE \E c \in Callers : StartCas(c)
  BY <1>1 DEF StartCas
<1>2. CASE ~\E c \in Callers : StartCas(c)
  BY <1>2 DEF Next, Step, vars, lifeVars, CallBegin, CallStep,
     Stop, StopCas, CloseEnter, CloseOnce, StartContext, StartCancel, StartRange,
     StartSpawn, StartReturn, StopCancel,
     StopLaunch, StopWait, StopGivesUp, CloseStop, CloseState, CloseChannel, CloseWorkers,
     CloseNil, ClientStep, WorkerStep, StopperStep, CancelParent
<1>3. QED
  BY <1>1, <1>2

\* A Worker.Stop that does not time out, of a pool started once, returns only
\* when that worker's goroutine is gone, however many Stops and Closes overlap
\* (Worker.Stop waits for done, which Worker.Start closes last).
THEOREM StopHasWaited == Spec => []StopWaitsForWorker
<1>1. Init => WaitedInv
  <2>1. Init => ContractInv /\ WaitInv
    BY ContractInit DEF Init, WorkerInit, WaitInv
  <2>2. QED
    BY <2>1 DEF ContractInv, WaitedInv, StartedOnce
<1>2. TypeInv /\ WaitedInv /\ [Next]_vars => WaitedInv'
  <2> SUFFICES ASSUME TypeInv, WaitedInv, [Next]_vars, starts' <= 1
               PROVE  StartedOnce' /\ WaitInv'
    BY DEF WaitedInv
  <2>1. starts' = starts \/ starts' = starts + 1
    BY StartsCount
  <2>2. starts <= 1
    <3>1. starts \in Nat
      BY DEF TypeInv, LifeTypeOK
    <3>2. QED
      BY <2>1, <3>1
  <2>3. QED
    BY <2>2, StartedOnceStep, WaitStep DEF WaitedInv, StartedOnce
<1>3. TypeInv /\ WaitedInv => StopWaitsForWorker
  <2> SUFFICES ASSUME TypeInv, WaitedInv, starts <= 1, NEW k \in Stops, NEW w \in Workers,
                      stopper[k][w] = "nil", NEW s \in 1..MaxRuns, Live(<<w, s>>)
               PROVE  FALSE
    BY DEF StopWaitsForWorker
  <2>1. <<w, s>> \in Runs /\ <<w, s>>[1] = w /\ done[w]
    BY DEF WaitedInv, WaitInv, Runs
  <2>2. QED
    BY <2>1 DEF WaitedInv, StartedOnce, RunInv
<1>4. QED
  BY TypeInit, TypeStep, <1>1, <1>2, <1>3, PTL DEF Spec
-----------------------------------------------------------------------------
(***************************************************************************)
(* Closing.  closeOnce lets one Close in; that Close keeps the workers     *)
(* until it has stopped them, and closes the channel before it is done.    *)
(***************************************************************************)
Closing(c) == call[c].op = "close" /\ call[c].pc \notin {"idle", "close_once"}

\* The steps of Close after its Stop.
Closed == {"close_state", "close_chan", "close_workers", "close_nil"}

OnceOnly ==
  /\ \A c \in Callers : Closing(c) => once = "running"
  /\ \A c, d \in Callers : Closing(c) /\ Closing(d) => c = d
  /\ \A c \in Callers :
       call[c].pc \in Closed \cup {"close_once", "close_stop"} => call[c].op = "close"

\* The round of Worker.Stop calls a Close waits for has every worker in it.
RoundInv ==
  /\ \A k \in Stops, w \in Workers : stopper[k][w] \in {"wait", "nil", "timeout"} => quit[w]
  /\ once = "no" => workers = Workers
  /\ \A c \in Callers : Closing(c) =>
       /\ call[c].pc # "close_nil" => workers = Workers
       /\ call[c].pc = "stop_wait" =>
            call[c].id \in 1..stops /\ \A w \in Workers : stopper[call[c].id][w] # "none"

ShutInv ==
  /\ (state = 2 \/ \E c \in Callers : call[c].pc \in Closed) => \A w \in Workers : quit[w]
  /\ state = 2 /\ chanOpen => \E c \in Callers : call[c].pc = "close_chan"

CloseInv == OnceOnly /\ RoundInv /\ ShutInv

LEMMA CloseInit == Init => CloseInv
<1> SUFFICES ASSUME Init PROVE CloseInv
  OBVIOUS
<1>1. /\ state = 0 /\ workers = Workers
      /\ \A k \in Stops, w \in Workers : stopper[k][w] = "none"
      /\ \A c \in Callers : call[c].op = "none" /\ call[c].pc = "idle"
  BY DEF Init, WorkerInit, SubmissionInit
<1>2. QED
  BY <1>1 DEF CloseInv, OnceOnly, RoundInv, ShutInv, Closing, Closed

\* A step of a worker, a submission or a context.
LEMMA CloseKept ==
  ASSUME CloseInv, UNCHANGED <<lifeVars, state, quit, stopper, chanOpen>>
  PROVE  CloseInv'
  BY DEF CloseInv, OnceOnly, RoundInv, ShutInv, Closing, lifeVars

LEMMA StopperClose ==
  ASSUME TypeInv, CloseInv, NEW k \in Stops, NEW w \in Workers, StopperStep(k, w)
  PROVE  CloseInv'
<1>1. UNCHANGED <<lifeVars, state, chanOpen>>
  BY DEF StopperStep, StopStep, StopCheckQuit, StopCloseQuit, StopWaitDone, StopTimeout,
     poolVars, chanVars
<1>2. PICK pc \in StopPC \ {"none"} :
         /\ stopper' = [stopper EXCEPT ![k][w] = pc]
         /\ stopper[k][w] # "none"
         /\ pc \in {"wait", "nil", "timeout"} => quit'[w]
  <2>1. CASE StopCheckQuit(k, w)
    <3>1. CASE quit[w]
      <4>1. /\ stopper' = [stopper EXCEPT ![k][w] = "nil"]
            /\ stopper[k][w] # "none" /\ quit'[w]
        BY <2>1, <3>1 DEF StopCheckQuit, StopPCSet, workerVars
      <4>2. QED
        BY <4>1 DEF StopPC
    <3>2. CASE ~quit[w]
      <4>1. stopper' = [stopper EXCEPT ![k][w] = "close"] /\ stopper[k][w] # "none"
        BY <2>1, <3>2 DEF StopCheckQuit, StopPCSet
      <4>2. "close" \in StopPC \ {"none"} /\ "close" \notin {"wait", "nil", "timeout"}
        BY DEF StopPC
      <4>3. QED
        BY <4>1, <4>2
    <3>3. QED
      BY <3>1, <3>2
  <2>2. CASE StopCloseQuit(k, w)
    <3>1. quit'[w]
      BY <2>2 DEF StopCloseQuit, TypeInv, WorkerTypeOK
    <3>2. QED
      BY <2>2, <3>1 DEF StopCloseQuit, StopPCSet, StopPC
  <2>3. CASE StopWaitDone(k, w) \/ StopTimeout(k, w)
    <3>1. stopper[k][w] = "wait" /\ quit' = quit
      BY <2>3 DEF StopWaitDone, StopTimeout, workerVars
    <3>2. quit[w]
      BY <3>1 DEF CloseInv, RoundInv
    <3>3. QED
      BY <2>3, <3>1, <3>2 DEF StopWaitDone, StopTimeout, StopPCSet, StopPC
  <2>4. QED
    BY <2>1, <2>2, <2>3 DEF StopperStep, StopStep
<1>3. /\ stopper'[k][w] = pc
      /\ \A j \in Stops, v \in Workers : j # k \/ v # w => stopper'[j][v] = stopper[j][v]
  BY <1>2 DEF TypeInv, WorkerTypeOK
<1>4. \A v \in Workers : quit[v] => quit'[v]
  <2>1. quit' = quit \/ quit' = [quit EXCEPT ![w] = TRUE]
    BY DEF StopperStep, StopStep, StopCheckQuit, StopCloseQuit, StopWaitDone, StopTimeout,
       workerVars
  <2>2. QED
    BY <2>1 DEF TypeInv, WorkerTypeOK
<1>5. OnceOnly' /\ ShutInv'
  BY <1>1, <1>4 DEF CloseInv, OnceOnly, ShutInv, Closing, lifeVars
<1>6. RoundInv'
  <2>1. \A j \in Stops, v \in Workers :
          stopper'[j][v] \in {"wait", "nil", "timeout"} => quit'[v]
    BY <1>2, <1>3, <1>4 DEF CloseInv, RoundInv
  <2>2. \A j \in Stops, v \in Workers : stopper[j][v] # "none" => stopper'[j][v] # "none"
    BY <1>2, <1>3
  <2>3. 1..stops \subseteq Stops
    BY WorkerAssumption DEF TypeInv, LifeTypeOK
  <2>4. QED
    BY <1>1, <2>1, <2>2, <2>3 DEF CloseInv, RoundInv, Closing, lifeVars
<1>7. QED
  BY <1>5, <1>6 DEF CloseInv

\* What Enter does to the calls.
LEMMA CallEnter ==
  ASSUME LifeTypeOK, NEW c \in Callers, NEW op, NEW pc, NEW id, Enter(c, op, pc, id)
  PROVE  /\ call'[c].pc = pc /\ call'[c].op = op /\ call'[c].id = id
         /\ \A d \in Callers \ {c} : call'[d] = call[d]
  BY DEF LifeTypeOK, CallType, Enter

\* A step of a call that does not take Close past its Stop.
LEMMA CloseQuiet ==
  ASSUME CloseInv, NEW c \in Callers,
         UNCHANGED <<workers, stops, quit, stopper, chanOpen>>,
         \A d \in Callers \ {c} : call'[d] = call[d],
         state' = state \/ state' # 2,
         call[c].pc \notin {"close_chan", "close_nil"},
         call'[c].pc \notin Closed \cup {"close_stop", "stop_wait"},
         call'[c].pc = "close_once" => call'[c].op = "close",
         Closing(c)' => Closing(c),
         once' = once \/ (once' = "done" /\ Closing(c) /\ ~Closing(c)')
  PROVE  CloseInv'
<1>1. \A d \in Callers \ {c} : Closing(d)' <=> Closing(d)
  BY DEF Closing
<1>2. OnceOnly'
  <2>1. \A d \in Callers : Closing(d)' => Closing(d)
    BY <1>1
  <2>2. \A d \in Callers : Closing(d)' => once' = "running"
    BY <1>1, <2>1 DEF CloseInv, OnceOnly
  <2>3. \A d \in Callers :
          call'[d].pc \in Closed \cup {"close_once", "close_stop"} => call'[d].op = "close"
    BY DEF CloseInv, OnceOnly
  <2>4. QED
    BY <2>1, <2>2, <2>3 DEF CloseInv, OnceOnly
<1>3. RoundInv'
  <2>1. once' = "no" => workers' = Workers
    BY DEF CloseInv, RoundInv
  <2>2. ASSUME NEW d \in Callers, Closing(d)'
        PROVE  /\ call'[d].pc # "close_nil" => workers' = Workers
               /\ call'[d].pc = "stop_wait" =>
                    call'[d].id \in 1..stops' /\ \A w \in Workers : stopper'[call'[d].id][w] # "none"
    BY <1>1, <2>2 DEF CloseInv, RoundInv, Closed
  <2>3. QED
    BY <2>1, <2>2 DEF CloseInv, RoundInv
<1>4. ShutInv'
  BY DEF CloseInv, ShutInv, Closed
<1>5. QED
  BY <1>2, <1>3, <1>4 DEF CloseInv

LEMMA CallClose ==
  ASSUME TypeInv, CloseInv, NEW c \in Callers, CallBegin(c) \/ CallStep(c)
  PROVE  CloseInv'
<1> USE DEF TypeInv, workerVars, poolVars, chanVars
<1>1. CASE \/ StartCas(c) \/ StartContext(c) \/ StartCancel(c) \/ StartRange(c)
           \/ StartSpawn(c) \/ StartReturn(c) \/ CloseEnter(c)
           \/ Stop(c) \/ CloseStop(c) \/ StopCancel(c)
  <2>1. UNCHANGED <<workers, stops, quit, stopper, chanOpen>> /\ (state' = state \/ state' # 2)
    BY <1>1 DEF StartCas, StartContext, StartCancel, StartRange, StartSpawn, StartReturn,
       CloseEnter,
       Stop, CloseStop, StopCas, StopCancel
  <2>2. CASE StartCas(c) \/ StartReturn(c) \/ CloseEnter(c)
    <3>1. \/ Enter(c, "start", "start_ctx", starts + 1)
          \/ Enter(c, "close", "close_once", 0)
          \/ \E res : Return(c, "start", res)
      BY <2>2 DEF StartCas, StartReturn, CloseEnter
    <3>2. /\ call[c].pc \in {"idle", "start_spawn"}
          /\ once' = once
      BY <2>2 DEF StartCas, StartReturn, CloseEnter
    <3>3. /\ \/ call'[c].pc \in {"idle", "start_ctx"} /\ call'[c].op # "close"
             \/ call'[c].pc = "close_once" /\ call'[c].op = "close"
          /\ \A d \in Callers \ {c} : call'[d] = call[d]
      BY <3>1, CallEnter DEF Return, LifeTypeOK
    <3>4. QED
      BY <2>1, <3>2, <3>3, CloseQuiet DEF Closing, Closed
  <2>3. CASE StartContext(c) \/ StartCancel(c) \/ StartRange(c) \/ StartSpawn(c)
    <3>1. /\ call[c].pc \in {"start_ctx", "start_cancel", "start_range", "start_spawn"}
          /\ once' = once
      BY <2>3 DEF StartContext, StartCancel, StartRange, StartSpawn
    <3>2. /\ call'[c].pc \in {"start_cancel", "start_range", "start_spawn"}
          /\ call'[c].op = call[c].op
          /\ \A d \in Callers \ {c} : call'[d] = call[d]
      BY <2>3 DEF StartContext, StartCancel, StartRange, StartSpawn, Goto, LifeTypeOK,
         CallType
    <3>3. QED
      BY <2>1, <3>1, <3>2, CloseQuiet DEF Closing, Closed
  <2>4. CASE StopCancel(c)
    <3>1. /\ call[c].pc = "stop_cancel" /\ Goto(c, "stop_launch")
          /\ once' = once
      BY <2>4 DEF StopCancel
    <3>2. QED
      BY <2>1, <3>1, CallGoto, CloseQuiet DEF Closing, Closed
  <2>5. CASE Stop(c) \/ CloseStop(c)
    <3>1. PICK op \in {"stop", "close"} :
            /\ call[c].pc = IF op = "close" THEN "close_stop" ELSE "idle"
            /\ \/ Enter(c, op, "stop_cancel", 0) /\ once' = once
               \/ Return(c, op, "error") /\ once' = IF op = "close" THEN "done" ELSE once
      BY <2>5 DEF Stop, CloseStop, StopCas
    <3>2. /\ call'[c].pc \in {"idle", "stop_cancel"} /\ call'[c].op = op
          /\ call'[c].pc = "stop_cancel" => once' = once
          /\ call'[c].pc = "idle" => once' = IF op = "close" THEN "done" ELSE once
          /\ \A d \in Callers \ {c} : call'[d] = call[d]
      BY <3>1, CallEnter DEF Return, LifeTypeOK, CallType
    <3>3. op = "close" => Closing(c)
      BY <3>1 DEF CloseInv, OnceOnly, Closing
    <3>4. QED
      BY <2>1, <3>1, <3>2, <3>3, CloseQuiet DEF Closing, Closed
  <2>6. QED
    BY <1>1, <2>2, <2>3, <2>4, <2>5
<1>2. CASE StopLaunch(c)
  <2>1. /\ UNCHANGED <<workers, once, quit, state, chanOpen>>
        /\ call[c].pc = "stop_launch" /\ stops' = stops + 1 /\ stops + 1 \in Stops
        /\ stopper' = [stopper EXCEPT ![stops + 1] =
                          [w \in Workers |-> IF w \in workers THEN "check" ELSE "none"]]
    BY <1>2, WorkerAssumption DEF StopLaunch, LifeTypeOK
  <2>2. /\ call'[c].pc = "stop_wait" /\ call'[c].op = call[c].op /\ call'[c].id = stops + 1
        /\ \A d \in Callers \ {c} : call'[d] = call[d]
    BY <1>2, CallEnter DEF StopLaunch
  <2>3. /\ \A k \in Stops : k # stops + 1 => stopper'[k] = stopper[k]
        /\ \A w \in Workers : stopper'[stops + 1][w] \in {"check", "none"}
        /\ workers = Workers => \A w \in Workers : stopper'[stops + 1][w] = "check"
    BY <2>1 DEF WorkerTypeOK
  <2>4. \A d \in Callers : Closing(d)' <=> Closing(d)
    BY <2>1, <2>2 DEF Closing
  <2>5. OnceOnly' /\ ShutInv'
    BY <2>1, <2>2, <2>4 DEF CloseInv, OnceOnly, ShutInv, Closed
  <2>6. RoundInv'
    <3>1. \A k \in Stops, w \in Workers :
            stopper'[k][w] \in {"wait", "nil", "timeout"} => quit'[w]
      BY <2>1, <2>3 DEF CloseInv, RoundInv
    <3>2. ASSUME NEW d \in Callers, Closing(d)', call'[d].pc = "stop_wait"
          PROVE  call'[d].id \in 1..stops' /\ \A w \in Workers : stopper'[call'[d].id][w] # "none"
      <4>1. CASE d = c
        <5>1. workers = Workers
          BY <2>1, <2>4, <3>2, <4>1 DEF CloseInv, RoundInv
        <5>2. QED
          BY <2>1, <2>2, <2>3, <4>1, <5>1 DEF LifeTypeOK
      <4>2. CASE d # c
        <5>1. /\ call'[d] = call[d] /\ call[d].id \in 1..stops
              /\ \A w \in Workers : stopper[call[d].id][w] # "none"
          BY <2>2, <2>4, <3>2, <4>2 DEF CloseInv, RoundInv
        <5>2. call[d].id \in Stops /\ call[d].id # stops + 1 /\ call[d].id \in 1..(stops + 1)
          <6>1. stops \in Nat /\ MaxStops \in Nat /\ stops < MaxStops
            BY <2>1, WorkerAssumption DEF LifeTypeOK
          <6>2. QED
            BY <5>1, <6>1
        <5>3. QED
          BY <2>1, <2>3, <5>1, <5>2
      <4>3. QED
        BY <4>1, <4>2
    <3>3. \A d \in Callers : Closing(d)' /\ call'[d].pc # "close_nil" => workers' = Workers
      BY <2>1, <2>2, <2>4 DEF CloseInv, RoundInv
    <3>4. QED
      BY <2>1, <3>1, <3>2, <3>3 DEF CloseInv, RoundInv
  <2>7. QED
    BY <2>5, <2>6 DEF CloseInv
<1>3. CASE StopWait(c) \/ StopGivesUp(c)
  <2>1. /\ UNCHANGED <<workers, stops, quit, stopper, chanOpen, state>>
        /\ call[c].pc = "stop_wait"
    BY <1>3 DEF StopWait, StopGivesUp
  <2>2. CASE call[c].op = "close" /\ Goto(c, "close_state")
    <3>1. StopWait(c) /\ once' = once
      BY <1>3, <2>2, CallGoto DEF StopWait, StopGivesUp, StopResult, Return, LifeTypeOK
    <3>2. Closing(c) /\ call[c].id \in Stops
      <4>1. Closing(c)
        BY <2>1, <2>2 DEF Closing
      <4>2. call[c].id \in 1..stops
        BY <2>1, <4>1 DEF CloseInv, RoundInv
      <4>3. QED
        BY <4>1, <4>2, WorkerAssumption DEF LifeTypeOK
    <3>3. \A w \in Workers : quit[w]
      BY <2>1, <3>1, <3>2 DEF StopWait, StopsReturned, CloseInv, RoundInv
    <3>4. /\ call'[c].pc = "close_state" /\ call'[c].op = call[c].op
          /\ \A d \in Callers \ {c} : call'[d] = call[d]
      BY <2>2, CallGoto
    <3>5. \A d \in Callers : Closing(d)' <=> Closing(d)
      BY <2>1, <3>4 DEF Closing
    <3>6. QED
      BY <2>1, <2>2, <3>1, <3>3, <3>4, <3>5 DEF CloseInv, OnceOnly, RoundInv, ShutInv,
         Closed
  <2>3. CASE ~(call[c].op = "close" /\ Goto(c, "close_state"))
    <3>1. \/ \E res : Return(c, "stop", res) /\ once' = once
          \/ call[c].op = "close" /\ Return(c, "close", "error") /\ once' = "done"
      BY <1>3, <2>3 DEF StopWait, StopGivesUp, StopResult
    <3>2. /\ call'[c].pc = "idle" /\ (once' = once \/ (once' = "done" /\ call[c].op = "close"))
          /\ \A d \in Callers \ {c} : call'[d] = call[d]
      BY <3>1, CallReturn
    <3>3. QED
      BY <2>1, <3>2, CloseQuiet DEF Closing, Closed
  <2>4. QED
    BY <2>2, <2>3
<1>4. CASE CloseOnce(c)
  <2>1. UNCHANGED <<workers, stops, quit, stopper, chanOpen, state>> /\ call[c].pc = "close_once"
    BY <1>4 DEF CloseOnce
  <2>2. CASE once = "no"
    <3>1. /\ once' = "running"
          /\ call'[c].pc = "close_stop" /\ call'[c].op = "close"
          /\ \A d \in Callers \ {c} : call'[d] = call[d]
      BY <1>4, <2>1, <2>2, CallGoto DEF CloseOnce, CloseInv, OnceOnly
    <3>2. workers = Workers /\ \A d \in Callers : ~Closing(d)
      BY <2>2 DEF CloseInv, OnceOnly, RoundInv
    <3>3. \A d \in Callers \ {c} : ~Closing(d)'
      BY <3>1, <3>2 DEF Closing
    <3>4. QED
      BY <2>1, <3>1, <3>2, <3>3 DEF CloseInv, OnceOnly, RoundInv, ShutInv, Closed
  <2>3. CASE once # "no"
    <3>1. /\ once' = once /\ call'[c].pc = "idle"
          /\ \A d \in Callers \ {c} : call'[d] = call[d]
      BY <1>4, <2>3, CallReturn DEF CloseOnce
    <3>2. QED
      BY <2>1, <3>1, CloseQuiet DEF Closing, Closed
  <2>4. QED
    BY <2>2, <2>3
<1>5. CASE CloseState(c) \/ CloseChannel(c) \/ CloseWorkers(c) \/ CloseNil(c)
  <2>1. /\ call[c].pc \in Closed /\ UNCHANGED <<stops, quit, stopper>>
        /\ call[c].op = "close" /\ Closing(c) /\ \A w \in Workers : quit[w]
    BY <1>5 DEF CloseState, CloseChannel, CloseWorkers, CloseNil, Closed, Closing, CloseInv,
       OnceOnly, ShutInv
  <2>2. \A d \in Callers : Closing(d) => d = c
    BY <2>1 DEF CloseInv, OnceOnly
  <2>3. CASE CloseNil(c)
    <3>1. /\ once' = "done" /\ UNCHANGED <<workers, state, chanOpen>>
          /\ call[c].pc = "close_nil" /\ call'[c].pc = "idle"
          /\ \A d \in Callers \ {c} : call'[d] = call[d]
      BY <2>3, CallReturn DEF CloseNil
    <3>2. \A d \in Callers : ~Closing(d)'
      BY <2>2, <3>1 DEF Closing
    <3>3. QED
      BY <2>1, <3>1, <3>2 DEF CloseInv, OnceOnly, RoundInv, ShutInv, Closed
  <2>4. CASE ~CloseNil(c)
    <3>1. PICK pc \in Closed : /\ Goto(c, pc) /\ once' = once
                               /\ workers' = workers \/ pc = "close_nil"
                               /\ (state' = 2 /\ chanOpen') => pc = "close_chan"
      <4>1. CASE CloseState(c)
        BY <4>1 DEF CloseState, Closed
      <4>2. CASE CloseChannel(c)
        BY <4>2 DEF CloseChannel, Closed
      <4>3. CASE CloseWorkers(c)
        <5>1. state = 2 /\ chanOpen => FALSE
          <6>1. \A d \in Callers : call[d].pc # "close_chan"
            BY <2>2, <4>3 DEF CloseWorkers, CloseInv, OnceOnly, Closing, Closed
          <6>2. QED
            BY <6>1 DEF CloseInv, ShutInv
        <5>2. QED
          BY <4>3, <5>1 DEF CloseWorkers, Closed
      <4>4. QED
        BY <1>5, <2>4, <4>1, <4>2, <4>3
    <3>2. /\ call'[c].pc = pc /\ call'[c].op = "close"
          /\ \A d \in Callers \ {c} : call'[d] = call[d]
      BY <2>1, <3>1, CallGoto
    <3>3. \A d \in Callers : Closing(d)' <=> d = c
      BY <2>1, <2>2, <3>2 DEF Closing, Closed
    <3>4. pc # "stop_wait" /\ call[c].pc # "close_nil"
      BY <1>5, <2>4 DEF Closed, CloseState, CloseChannel, CloseWorkers
    <3>5. workers = Workers /\ once = "running"
      BY <2>1, <3>4 DEF CloseInv, RoundInv, OnceOnly
    <3>6. OnceOnly'
      BY <3>1, <3>2, <3>3, <3>5 DEF CloseInv, OnceOnly
    <3>7. RoundInv'
      BY <2>1, <3>1, <3>2, <3>3, <3>4, <3>5 DEF CloseInv, RoundInv
    <3>8. ShutInv'
      BY <2>1, <3>1, <3>2 DEF ShutInv
    <3>9. QED
      BY <3>6, <3>7, <3>8 DEF CloseInv
  <2>5. QED
    BY <2>3, <2>4
<1>6. QED
  BY <1>1, <1>2, <1>3, <1>4, <1>5 DEF CallBegin, CallStep

LEMMA CloseStep == TypeInv /\ CloseInv /\ [Next]_vars => CloseInv'
<1> SUFFICES ASSUME TypeInv, CloseInv, [Next]_vars PROVE CloseInv'
  OBVIOUS
<1>1. CASE UNCHANGED vars
  BY <1>1, CloseKept DEF vars, workerVars, poolVars, chanVars
<1>2. ASSUME NEW c \in Callers, CallBegin(c) \/ CallStep(c) PROVE CloseInv'
  BY <1>2, CallClose
<1>3. ASSUME NEW t \in Tasks, SubmitCheck(t) \/ SubmitStep(t), UNCHANGED lifeVars
      PROVE  CloseInv'
  <2>1. UNCHANGED <<state, quit, stopper, chanOpen>>
    BY <1>3 DEF SubmitCheck, SubmitStep, SubmitNow, SubmitArm, SubmitSend,
       SubmitTimeout, SubmitCancelled, poolVars, chanVars, workerVars
  <2>2. QED
    BY <1>3, <2>1, CloseKept
<1>4. ASSUME NEW r \in Runs, WorkerStep(r) PROVE CloseInv'
  <2>1. UNCHANGED <<lifeVars, state, quit, stopper, chanOpen>>
    BY <1>4 DEF WorkerStep, RunStep, ObserveStop, CloseDone, Receive, BeginTask,
       FinishTask, EndTask, chanVars, poolVars
  <2>2. QED
    BY <2>1, CloseKept
<1>5. ASSUME NEW k \in Stops, NEW w \in Workers, StopperStep(k, w) PROVE CloseInv'
  BY <1>5, StopperClose
<1>6. ASSUME NEW g \in Gens, CancelParent(g) PROVE CloseInv'
  BY <1>6, CloseKept DEF CancelParent, workerVars, poolVars, chanVars
<1>7. QED
  BY <1>1, <1>2, <1>3, <1>4, <1>5, <1>6 DEF Next, Step, ClientStep

\* A pool whose state says closed has told every worker to quit, for any number
\* of restarts, whatever Starts, Stops and Closes overlap and whichever of their
\* timers fire (FixedWorkerPool.Close stores the state after its Stop).
THEOREM ClosedHasStopped == Spec => []ClosedIsShutDown
<1>1. CloseInv => ClosedIsShutDown
  BY DEF CloseInv, ShutInv, ClosedIsShutDown
<1>2. QED
  BY TypeInit, TypeStep, CloseInit, CloseStep, <1>1, PTL DEF Spec

\* Once the Close that closed the pool is over, no submission is accepted: one
\* that was waiting for room finds the channel closed (FixedWorkerPool.Close,
\* SubmitWithTimeout).
THEOREM ClosedAcceptsNothing == Spec => NothingAcceptedAfterClose
<1>1. ASSUME CloseInv, [Next]_vars, state = 2, once = "done", NEW t \in Tasks, Accepted(t)'
      PROVE  Accepted(t)
  <2>1. ~chanOpen
    BY <1>1 DEF CloseInv, OnceOnly, ShutInv, Closing, Closed
  <2>2. CASE sub' = sub
    BY <1>1, <2>2 DEF Accepted
  <2>3. CASE sub' # sub
    <3>1. PICK u \in Tasks : SubmitCheck(u) \/ SubmitStep(u)
      BY <1>1, <2>3, CallPanic DEF Next, Step, ClientStep, WorkerStep, StopperStep,
         CancelParent, vars, submitVars
    <3>2. Accepted(t)' = Accepted(t)
      <4>1. \E pc \in SubPC \ {"accepted"} : sub' = [sub EXCEPT ![u] = pc]
        BY <2>1, <2>3, <3>1 DEF SubmitCheck, SubmitStep, SubmitNow, SubmitArm,
           SubmitSend, SubmitTimeout, SubmitCancelled, Becomes, SubPC, submitVars
      <4>2. QED
        BY <1>1, <4>1 DEF Accepted
    <3>3. QED
      BY <1>1, <3>2
  <2>4. QED
    BY <2>2, <2>3
<1>2. CloseInv /\ [Next]_vars =>
        [(state = 2 /\ once = "done") => \A t \in Tasks : Accepted(t)' => Accepted(t)]_vars
  BY <1>1
<1>3. QED
  BY TypeInit, TypeStep, CloseInit, CloseStep, <1>2, PTL DEF Spec, NothingAcceptedAfterClose
-----------------------------------------------------------------------------
(***************************************************************************)
(* The statistics.  The first part is an account of the tasks, true of any *)
(* pool; the second relates the state of a worker to its one goroutine.    *)
(***************************************************************************)
AcceptedTasks == {t \in Tasks : Accepted(t)}
HeldTasks == {t \in Tasks : Held(t)}

CountInv ==
  /\ IsFiniteSet(AcceptedTasks) /\ IsFiniteSet(HeldTasks)
  /\ Cardinality(AcceptedTasks)
       = Len(queue) + Cardinality(HeldTasks) + TotalOf(Counted, Workers)

\* The total of the model is the total of Sums.
LEMMA CountedTotal == TasksCounted = TotalOf(Counted, Workers)
  BY DEF TasksCounted, TotalOf, MapThenSumSet, MapThenFoldSet,
     Sets!MapThenSumSet, Sets!MapThenFoldSet

LEMMA CountedType ==
  ASSUME WorkerTypeOK
  PROVE  \A w \in Workers : Counted[w] \in Nat /\ processed[w] \in Nat /\ failed[w] \in Nat
  BY DEF Counted, WorkerStats, WorkerTypeOK

LEMMA CountedKept ==
  ASSUME UNCHANGED <<processed, failed>>
  PROVE  TotalOf(Counted, Workers)' = TotalOf(Counted, Workers)
<1>1. Counted' = Counted
  BY DEF Counted, WorkerStats
<1>2. QED
  BY <1>1 DEF TotalOf, MapThenSumSet, MapThenFoldSet

LEMMA CountInit == Init => CountInv
<1> SUFFICES ASSUME Init PROVE CountInv
  OBVIOUS
<1>1. queue = <<>> /\ Len(queue) = 0
  BY DEF Init, WorkerInit
<1>2. AcceptedTasks = {} /\ HeldTasks = {}
  BY WorkerAssumption DEF Init, WorkerInit, SubmissionInit, AcceptedTasks, HeldTasks,
     Accepted, Held, Holds, NoRun
<1>3. TotalOf(Counted, Workers) = 0
  <2>1. IsFiniteSet(Workers) /\ \A w \in Workers : Counted[w] = 0
    BY WorkerAssumption DEF Init, WorkerInit, Counted, WorkerStats
  <2>2. QED
    BY <2>1, TotalOfZeros
<1>4. IsFiniteSet({}) /\ Cardinality({}) = 0
  BY FS_EmptySet
<1>5. QED
  BY <1>1, <1>2, <1>3, <1>4 DEF CountInv

\* A step that moves no task.
LEMMA CountKept ==
  ASSUME CountInv, UNCHANGED <<queue, processed, failed>>,
         \A t \in Tasks : (Accepted(t)' <=> Accepted(t)) /\ (Held(t)' <=> Held(t))
  PROVE  CountInv'
<1>1. AcceptedTasks' = AcceptedTasks /\ HeldTasks' = HeldTasks
  BY DEF AcceptedTasks, HeldTasks
<1>2. QED
  BY <1>1, CountedKept DEF CountInv

\* What the numbers of the account are.
LEMMA CountTypes ==
  ASSUME WorkerTypeOK, CountInv
  PROVE  /\ Len(queue) \in Nat
         /\ Cardinality(AcceptedTasks) \in Nat /\ Cardinality(HeldTasks) \in Nat
         /\ TotalOf(Counted, Workers) \in Nat
<1>1. TotalOf(Counted, Workers) \in Nat
  BY WorkerAssumption, CountedType, TotalType
<1>2. QED
  BY <1>1, FS_CardinalityType DEF CountInv, WorkerTypeOK

\* A send is one task accepted, and one in the queue.
LEMMA SendCount ==
  ASSUME WorkerTypeOK, SubmissionTypeOK, OnceInv, CountInv, NEW t \in Tasks, InFlight(t),
         Send(t), UNCHANGED <<run, executed, processed, failed>>
  PROVE  CountInv'
<1>1. /\ ~Accepted(t)
      /\ \A u \in Tasks : (Accepted(u)' <=> Accepted(u) \/ u = t) /\ (Held(u)' <=> Held(u))
  BY SendPlaces
<1>2. /\ AcceptedTasks' = AcceptedTasks \cup {t} /\ t \notin AcceptedTasks
      /\ HeldTasks' = HeldTasks
  BY <1>1 DEF AcceptedTasks, HeldTasks
<1>3. IsFiniteSet(AcceptedTasks') /\ Cardinality(AcceptedTasks') = Cardinality(AcceptedTasks) + 1
  BY <1>2, FS_AddElement DEF CountInv
<1>4. Len(queue') = Len(queue) + 1
  BY DEF Send, WorkerTypeOK
<1>5. QED
  BY <1>2, <1>3, <1>4, CountedKept, CountTypes DEF CountInv

\* A receive takes one from the queue into the hands.
LEMMA ReceiveCount ==
  ASSUME WorkerTypeOK, SubmissionTypeOK, OnceInv, CountInv, NEW r \in Runs, Receive(r),
         UNCHANGED sub
  PROVE  CountInv'
<1>1. PICK h \in Tasks : /\ ~Held(h)
                         /\ \A u \in Tasks : /\ Accepted(u)' <=> Accepted(u)
                                             /\ Held(u)' <=> Held(u) \/ u = h
  BY ReceivePlaces
<1>2. /\ HeldTasks' = HeldTasks \cup {h} /\ h \notin HeldTasks
      /\ AcceptedTasks' = AcceptedTasks
  BY <1>1 DEF AcceptedTasks, HeldTasks
<1>3. IsFiniteSet(HeldTasks') /\ Cardinality(HeldTasks') = Cardinality(HeldTasks) + 1
  BY <1>2, FS_AddElement DEF CountInv
<1>4. Len(queue') = Len(queue) - 1
  BY DEF Receive, WorkerTypeOK
<1>5. UNCHANGED <<processed, failed>>
  BY DEF Receive
<1>6. QED
  BY <1>2, <1>3, <1>4, <1>5, CountedKept, CountTypes DEF CountInv

\* A task that returns leaves the hands, and its worker counts one more.
LEMMA FinishCount ==
  ASSUME WorkerTypeOK, SubmissionTypeOK, OnceInv, CountInv, NEW r \in Runs, FinishTask(r),
         UNCHANGED sub
  PROVE  CountInv'
<1>1. PICK h \in Tasks : /\ Held(h)
                         /\ \A u \in Tasks : /\ Accepted(u)' <=> Accepted(u)
                                             /\ Held(u)' <=> Held(u) /\ u # h
  BY FinishPlaces
<1>2. /\ HeldTasks' = HeldTasks \ {h} /\ h \in HeldTasks
      /\ AcceptedTasks' = AcceptedTasks
  BY <1>1 DEF AcceptedTasks, HeldTasks
<1>3. IsFiniteSet(HeldTasks') /\ Cardinality(HeldTasks') = Cardinality(HeldTasks) - 1
  BY <1>2, FS_RemoveElement DEF CountInv
<1>4. queue' = queue
  BY DEF FinishTask, chanVars
<1>5. PICK f : f = Counted
  OBVIOUS
<1>6. PICK h1 : h1 = Counted'
  OBVIOUS
<1>7. r[1] \in Workers
  BY DEF Runs
<1>8. \A w \in Workers :
        /\ f[w] = processed[w] + failed[w] /\ h1[w] = processed'[w] + failed'[w]
        /\ processed[w] \in Nat /\ failed[w] \in Nat
  BY <1>5, <1>6, CountedType DEF Counted, WorkerStats
<1>9. \A w \in Workers : h1[w] = IF w \in {r[1]} THEN f[w] + 1 ELSE f[w]
  <2>1. CASE processed' = [processed EXCEPT ![r[1]] = @ + 1] /\ failed' = failed
    BY <1>7, <1>8, <2>1 DEF WorkerTypeOK
  <2>2. CASE failed' = [failed EXCEPT ![r[1]] = @ + 1] /\ processed' = processed
    BY <1>7, <1>8, <2>2 DEF WorkerTypeOK
  <2>3. QED
    BY <2>1, <2>2 DEF FinishTask
<1>10. Cardinality({r[1]}) = 1
  BY FS_Singleton
<1>11. TotalOf(h1, Workers) = TotalOf(f, Workers) + Cardinality({r[1]}) * 1
  <2>1. /\ IsFiniteSet(Workers) /\ \A w \in Workers : f[w] \in Nat
        /\ {r[1]} \in SUBSET Workers /\ 1 \in Nat
    BY <1>7, <1>8, WorkerAssumption
  <2>2. QED
    BY <1>9, <2>1, TotalGrows
<1>12. TotalOf(Counted, Workers)' = TotalOf(h1, Workers)
  BY <1>6 DEF TotalOf, MapThenSumSet, MapThenFoldSet
<1>13. TotalOf(Counted, Workers) = TotalOf(f, Workers)
  BY <1>5
<1>14. TotalOf(Counted, Workers)' = TotalOf(Counted, Workers) + 1
  BY <1>10, <1>11, <1>12, <1>13, CountTypes
<1>15. QED
  BY <1>2, <1>3, <1>4, <1>14, CountTypes DEF CountInv

LEMMA CountStep == TypeInv /\ OnceInv /\ CountInv /\ [Next]_vars => CountInv'
<1> SUFFICES ASSUME TypeInv, OnceInv, CountInv, [Next]_vars PROVE CountInv'
  OBVIOUS
<1> USE DEF TypeInv
<1>1. ASSUME UNCHANGED <<queue, processed, failed, sub>>,
             \A q \in Runs : run'[q].task = run[q].task
      PROVE  CountInv'
  BY <1>1, CountKept DEF Accepted, Held, Holds
<1>2. ASSUME NEW c \in Callers, CallBegin(c) \/ CallStep(c) PROVE CountInv'
  <2>1. UNCHANGED <<queue, processed, failed, sub>>
    BY <1>2, CallPanic DEF CallBegin, CallStep, StartCas, Stop, StopCas, CloseEnter,
       CloseOnce,
       StartContext, StartCancel, StartRange, StartSpawn, StartReturn, StopCancel,
       StopLaunch, StopWait, StopGivesUp,
       CloseStop, CloseState, CloseChannel, CloseWorkers, CloseNil, submitVars, chanVars,
       workerVars
  <2>2. CASE StartSpawn(c)
    <3>1. PICK w \in call[c].todo : Spawn(w, ctx)
      BY <2>2 DEF StartSpawn
    <3>2. w \in Workers
      BY DEF LifeTypeOK, CallType
    <3>3. QED
      BY <1>1, <2>1, <3>1, <3>2, SpawnHands
  <2>3. CASE ~StartSpawn(c)
    <3>1. run' = run
      BY <1>2, <2>3 DEF CallBegin, CallStep, StartCas, Stop, StopCas, CloseEnter, CloseOnce,
         StartContext, StartCancel, StartRange, StartReturn, StopCancel, StopLaunch,
         StopWait, StopGivesUp,
         CloseStop, CloseState, CloseChannel, CloseWorkers, CloseNil, workerVars
    <3>2. QED
      BY <1>1, <2>1, <3>1
  <2>4. QED
    BY <2>2, <2>3
<1>3. ASSUME NEW t \in Tasks, SubmitCheck(t) \/ SubmitStep(t) PROVE CountInv'
  <2>1. UNCHANGED <<run, executed, processed, failed>>
    BY <1>3 DEF SubmitCheck, SubmitStep, SubmitNow, SubmitArm, SubmitSend, SubmitTimeout,
       SubmitCancelled, workerVars
  <2>2. CASE Send(t)
    <3>1. InFlight(t)
      BY <1>3, <2>2 DEF Send, SubmitCheck, SubmitStep, SubmitNow, SubmitArm,
         SubmitSend, SubmitTimeout, SubmitCancelled, InFlight, Becomes,
         SubmissionTypeOK
    <3>2. QED
      BY <2>1, <2>2, <3>1, SendCount
  <2>3. CASE ~Send(t)
    <3>1. queue' = queue
      BY <1>3, <2>3 DEF SubmitCheck, SubmitStep, SubmitNow, SubmitArm,
         SubmitSend, SubmitTimeout, SubmitCancelled, chanVars
    <3>2. \/ UNCHANGED sub
          \/ /\ sub[t] # "accepted"
             /\ \E pc \in SubPC \ {"accepted"} : sub' = [sub EXCEPT ![t] = pc]
      BY <1>3, <2>3 DEF SubmitCheck, SubmitStep, SubmitNow, SubmitArm,
         SubmitSend, SubmitTimeout, SubmitCancelled, Becomes, SubPC, submitVars
    <3>3. \A u \in Tasks : (Accepted(u)' <=> Accepted(u)) /\ (Held(u)' <=> Held(u))
      BY <2>1, <3>2 DEF Accepted, SubmissionTypeOK, Held, Holds
    <3>4. QED
      BY <2>1, <3>1, <3>3, CountKept
  <2>4. QED
    BY <2>2, <2>3
<1>4. ASSUME NEW r \in Runs, WorkerStep(r) PROVE CountInv'
  <2>1. RunStep(r) /\ UNCHANGED sub
    BY <1>4 DEF WorkerStep, submitVars
  <2>2. CASE Receive(r) \/ FinishTask(r)
    BY <2>1, <2>2, ReceiveCount, FinishCount
  <2>3. CASE ObserveStop(r) \/ CloseDone(r) \/ BeginTask(r) \/ EndTask(r)
    <3>1. UNCHANGED <<queue, processed, failed>>
      BY <2>3 DEF ObserveStop, CloseDone, BeginTask, EndTask, chanVars
    <3>2. \E pc : run' = [run EXCEPT ![r].pc = pc]
      BY <2>3 DEF ObserveStop, CloseDone, BeginTask, EndTask
    <3>3. \A q \in Runs : run'[q].task = run[q].task
      BY <3>2 DEF WorkerTypeOK
    <3>4. QED
      BY <1>1, <2>1, <3>1, <3>3
  <2>4. QED
    BY <2>1, <2>2, <2>3 DEF RunStep
<1>5. ASSUME NEW k \in Stops, NEW w \in Workers, StopperStep(k, w) PROVE CountInv'
  <2>1. UNCHANGED <<queue, processed, failed, sub, run>>
    BY <1>5 DEF StopperStep, StopStep, StopCheckQuit, StopCloseQuit, StopWaitDone,
       StopTimeout, chanVars, workerVars, submitVars
  <2>2. QED
    BY <1>1, <2>1
<1>6. ASSUME NEW g \in Gens, CancelParent(g) PROVE CountInv'
  BY <1>1, <1>6 DEF CancelParent, chanVars, workerVars, submitVars
<1>7. CASE UNCHANGED vars
  BY <1>1, <1>7 DEF vars, chanVars, workerVars, submitVars
<1>8. QED
  BY <1>2, <1>3, <1>4, <1>5, <1>6, <1>7 DEF Next, Step, ClientStep

-----------------------------------------------------------------------------
\* A worker looks busy exactly while its goroutine is inside processTask.
Busy(r) == run[r].pc \in {"executing", "counted"}

BusyInv ==
  /\ workers \in {Workers, {}}
  /\ \A r \in Runs : Busy(r) => wstate[r[1]] = "working"
  /\ \A w \in Workers : wstate[w] = "working" => \E r \in Runs : r[1] = w /\ Busy(r)

ActiveInv == starts <= 1 => StartedOnce /\ BusyInv

LEMMA BusyKept ==
  ASSUME BusyInv, UNCHANGED wstate, workers' \in {workers, {}},
         \A r \in Runs : Busy(r)' <=> Busy(r)
  PROVE  BusyInv'
  BY DEF BusyInv

LEMMA RunBusy ==
  ASSUME TypeInv, RunInv, BusyInv, NEW r \in Runs, RunStep(r), UNCHANGED workers
  PROVE  BusyInv'
<1>0. /\ r[1] \in Workers /\ \A q \in Runs : q[1] \in Workers
      /\ run \in [Runs -> [pc : RunPC, ctx : Gens \cup {0}, task : Tasks \cup {NoTask}]]
      /\ wstate \in [Workers -> {"idle", "working", "stopped"}]
  BY DEF Runs, TypeInv, WorkerTypeOK
<1>1. ASSUME run[r].pc # "none" PROVE \A q \in Runs : q[1] = r[1] /\ Busy(q) => q = r
  BY <1>1 DEF RunInv, Busy
<1>2. CASE BeginTask(r)
  <2>1. /\ run[r].pc # "none" /\ run'[r].pc = "executing"
        /\ \A q \in Runs \ {r} : run'[q] = run[q]
    BY <1>0, <1>2 DEF BeginTask
  <2>2. wstate'[r[1]] = "working" /\ \A w \in Workers \ {r[1]} : wstate'[w] = wstate[w]
    BY <1>0, <1>2 DEF BeginTask
  <2>3. QED
    BY <1>0, <1>1, <2>1, <2>2 DEF BusyInv, Busy
<1>3. CASE EndTask(r) \/ ObserveStop(r)
  <2>1. /\ run[r].pc # "none" /\ run'[r].pc \in {"select", "exiting"}
        /\ \A q \in Runs \ {r} : run'[q] = run[q]
    BY <1>0, <1>3 DEF EndTask, ObserveStop
  <2>2. wstate'[r[1]] # "working" /\ \A w \in Workers \ {r[1]} : wstate'[w] = wstate[w]
    BY <1>0, <1>3 DEF EndTask, ObserveStop
  <2>3. \A q \in Runs : q[1] = r[1] => ~Busy(q)'
    BY <1>1, <2>1 DEF Busy
  <2>4. \A q \in Runs : q[1] # r[1] => (Busy(q)' <=> Busy(q))
    BY <2>1 DEF Busy
  <2>5. QED
    BY <1>0, <2>2, <2>3, <2>4 DEF BusyInv
<1>4. CASE CloseDone(r) \/ Receive(r) \/ FinishTask(r)
  <2>1. wstate' = wstate
    BY <1>4 DEF CloseDone, Receive, FinishTask
  <2>2. \A q \in Runs : Busy(q)' <=> Busy(q)
    BY <1>0, <1>4 DEF CloseDone, Receive, FinishTask, Busy
  <2>3. QED
    BY <2>1, <2>2, BusyKept
<1>5. QED
  BY <1>2, <1>3, <1>4 DEF RunStep

LEMMA BusyStep == TypeInv /\ RunInv /\ BusyInv /\ [Next]_vars => BusyInv'
<1> SUFFICES ASSUME TypeInv, RunInv, BusyInv, [Next]_vars PROVE BusyInv'
  OBVIOUS
<1>1. ASSUME UNCHANGED <<wstate, run, workers>> PROVE BusyInv'
  BY <1>1, BusyKept DEF Busy
<1>2. ASSUME NEW c \in Callers, CallBegin(c) \/ CallStep(c) PROVE BusyInv'
  <2>1. wstate' = wstate /\ workers' \in {workers, {}}
    BY <1>2 DEF CallBegin, CallStep, StartCas, Stop, StopCas, CloseEnter, CloseOnce,
       StartContext, StartCancel, StartRange, StartSpawn, StartReturn, StopCancel,
       StopLaunch, StopWait, StopGivesUp,
       CloseStop, CloseState, CloseChannel, CloseWorkers, CloseNil, workerVars
  <2>2. \A q \in Runs : Busy(q)' <=> Busy(q)
    <3>1. CASE StartSpawn(c)
      <4>1. PICK w \in call[c].todo, s \in 1..MaxRuns :
               /\ run[<<w, s>>].pc = "none"
               /\ run' = [run EXCEPT ![<<w, s>>] = [pc |-> "select", ctx |-> ctx, task |-> NoTask]]
        BY <3>1 DEF StartSpawn, Spawn
      <4>2. <<w, s>> \in Runs
        BY DEF TypeInv, LifeTypeOK, CallType, Runs
      <4>3. QED
        BY <4>1, <4>2 DEF TypeInv, WorkerTypeOK, Busy
    <3>2. CASE ~StartSpawn(c)
      <4>1. run' = run
        BY <1>2, <3>2 DEF CallBegin, CallStep, StartCas, Stop, StopCas, CloseEnter,
           CloseOnce,
           StartContext, StartCancel, StartRange, StartReturn, StopCancel, StopLaunch,
           StopWait, StopGivesUp,
           CloseStop, CloseState, CloseChannel, CloseWorkers, CloseNil, workerVars
      <4>2. QED
        BY <4>1 DEF Busy
    <3>3. QED
      BY <3>1, <3>2
  <2>3. QED
    BY <2>1, <2>2, BusyKept
<1>3. ASSUME NEW t \in Tasks, SubmitCheck(t) \/ SubmitStep(t), UNCHANGED lifeVars
      PROVE  BusyInv'
  <2>1. UNCHANGED <<wstate, run, workers>>
    BY <1>3 DEF SubmitCheck, SubmitStep, SubmitNow, SubmitArm, SubmitSend, SubmitTimeout,
       SubmitCancelled, workerVars, lifeVars
  <2>2. QED
    BY <1>1, <2>1
<1>4. ASSUME NEW r \in Runs, WorkerStep(r) PROVE BusyInv'
  BY <1>4, RunBusy DEF WorkerStep, lifeVars
<1>5. ASSUME NEW k \in Stops, NEW w \in Workers, StopperStep(k, w) PROVE BusyInv'
  <2>1. UNCHANGED <<wstate, run, workers>>
    BY <1>5 DEF StopperStep, StopStep, StopCheckQuit, StopCloseQuit, StopWaitDone,
       StopTimeout, workerVars, lifeVars
  <2>2. QED
    BY <1>1, <2>1
<1>6. ASSUME NEW g \in Gens, CancelParent(g) PROVE BusyInv'
  BY <1>1, <1>6 DEF CancelParent, workerVars, lifeVars
<1>7. CASE UNCHANGED vars
  BY <1>1, <1>7 DEF vars, workerVars, lifeVars
<1>8. QED
  BY <1>2, <1>3, <1>4, <1>5, <1>6, <1>7 DEF Next, Step, ClientStep

\* In a pool started once the working workers are the busy goroutines, one each.
LEMMA ActiveAreBusy ==
  ASSUME TypeInv, RunInv, BusyInv, workers # {}
  PROVE  Stats.ActiveWorkers = Cardinality({r \in Runs : Busy(r)})
<1> DEFINE B == {r \in Runs : Busy(r)}
           A == {w \in workers : WorkerStats(w).State = "working"}
           f == [r \in B |-> r[1]]
<1>1. A = {w \in Workers : wstate[w] = "working"}
  BY DEF BusyInv, WorkerStats
<1>2. f \in Bijection(B, A)
  <2>1. \A r \in B : f[r] \in A
    BY <1>1 DEF BusyInv, Runs
  <2>2. \A r, q \in B : f[r] = f[q] => r = q
    BY DEF RunInv, Busy
  <2>3. \A w \in A : \E r \in B : f[r] = w
    BY <1>1 DEF BusyInv
  <2>4. QED
    BY <2>1, <2>2, <2>3 DEF Bijection, Injection, Surjection, IsInjective
<1>3. IsFiniteSet(B)
  BY RunsFinite, FS_Subset
<1>4. Cardinality(A) = Cardinality(B)
  BY <1>2, <1>3, FS_Bijection DEF ExistsBijection
<1>5. QED
  BY <1>4 DEF Stats

\* The statistics account for the submissions: whatever is stopped, restarted
\* and closed, an accepted task is in the queue, in a goroutine's hands, or
\* counted by one worker once; and in a pool started once as many workers look
\* active as goroutines are inside processTask (Worker.processTask,
\* Worker.Stats, FixedWorkerPool.Stats).
THEOREM StatsAdd == Spec => []StatsAccountForTasks
<1>1. Init => CountInv /\ ActiveInv
  <2>1. Init => BusyInv
    BY DEF Init, WorkerInit, NoRun, BusyInv, Busy
  <2>2. QED
    BY <2>1, CountInit, ContractInit DEF ContractInv, ActiveInv
<1>2. TypeInv /\ ActiveInv /\ [Next]_vars => ActiveInv'
  <2> SUFFICES ASSUME TypeInv, ActiveInv, [Next]_vars, starts' <= 1
               PROVE  StartedOnce' /\ BusyInv'
    BY DEF ActiveInv
  <2>1. starts <= 1
    BY StartsCount DEF TypeInv, LifeTypeOK
  <2>2. QED
    BY <2>1, StartedOnceStep, BusyStep DEF ActiveInv, StartedOnce
<1>3. TypeInv /\ CountInv /\ ActiveInv => StatsAccountForTasks
  <2> SUFFICES ASSUME TypeInv, CountInv, ActiveInv PROVE StatsAccountForTasks
    OBVIOUS
  <2>1. Cardinality({t \in Tasks : Accepted(t)})
          = Stats.QueueSize + Cardinality({t \in Tasks : Held(t)}) + TasksCounted
    BY CountedTotal DEF CountInv, AcceptedTasks, HeldTasks, Stats
  <2>2. starts <= 1 /\ workers # {} =>
          Stats.ActiveWorkers = Cardinality({r \in Runs : Busy(r)})
    BY ActiveAreBusy DEF ActiveInv, StartedOnce
  <2>3. QED
    BY <2>1, <2>2 DEF StatsAccountForTasks, Busy
<1>4. QED
  BY TypeInit, TypeStep, OnceInit, OnceStep, CountStep, <1>1, <1>2, <1>3, PTL DEF Spec
=============================================================================
