------------------------- MODULE DynamicPoolProofs -------------------------
(***************************************************************************)
(* Theorems about DynamicPool, for any workers, callers, sizes and number  *)
(* of calls: the number of workers stays in the configured range, a worker *)
(* that leaves the pool was told to stop and one that joins a fresh pool   *)
(* is served, and every accepted task is executed exactly once (as the     *)
(* ledger of TaskLedger allows).                                           *)
(***************************************************************************)
EXTENDS DynamicPool, SubmissionProofs, SequenceTheorems

Frames == [op : {"none", "start", "stop", "close", "up", "down"}, pc : CallPC,
           id : Nat, todo : SUBSET Nat]

Locked  == {"start_spawn", "up_size", "up_ctx", "up_grow", "down_size"}
Asking  == {"up_lock", "up_size", "down_lock", "down_size"}
Growing == {"up_ctx", "up_grow"}
Closing == {"close_chan", "close_clean"}

CallsInv ==
  /\ call \in [Callers -> Frames]
  /\ workers \in Seq(Nat) /\ made \in Nat
  /\ state \in 0..2 /\ ctx \in Nat /\ starts \in Nat /\ stops \in Nat
  /\ mu \in Callers \cup {Nobody}

\* The calls that are in a locked section are those that hold the lock: there
\* is one at most.
LockInv == \A c \in Callers : call[c].pc \in Locked <=> mu = c

\* Nobody changes the slice between the size check of a ScaleUp and its loop.
TargetInv == \A c \in Callers : call[c].pc \in Growing =>
               Len(workers) < call[c].id /\ call[c].id <= MaxWorkers

\* A call keeps the target it was begun with.
AskInv == \A c \in Callers : call[c].pc \in Asking => call[c].id \in Targets

\* A closed pool stays closed.
ClosedInv == \A c \in Callers : call[c].pc \in Closing => state = 2

\* The members are numbers that createWorker gave out, no two the same.
MembersInv ==
  /\ \A i \in 1..Len(workers) : workers[i] \in 1..made
  /\ \A i, j \in 1..Len(workers) : workers[i] = workers[j] => i = j
  /\ Len(workers) <= MaxWorkers
  /\ state # 2 => Len(workers) >= MinWorkers

IInv == CallsInv /\ LockInv /\ TargetInv /\ AskInv /\ ClosedInv /\ MembersInv

LEMMA Sizes == MinWorkers \in Nat /\ MaxWorkers \in Nat /\ MinWorkers <= MaxWorkers
               /\ Nobody \notin Callers
  BY DynamicPoolAssumption

LEMMA InitIInv == Init => IInv
<1> SUFFICES ASSUME Init PROVE IInv OBVIOUS
<1> USE Sizes DEF Init, SubmissionInit
<1>1. /\ workers = [i \in 1..MinWorkers |-> i] /\ workers \in Seq(Nat)
      /\ Len(workers) = MinWorkers
  OBVIOUS
<1>2. \A c \in Callers : call[c] = Idle OBVIOUS
<1>3. CallsInv BY <1>1 DEF CallsInv, Frames, Idle, CallPC
<1>4. LockInv /\ TargetInv /\ AskInv /\ ClosedInv
  BY <1>2 DEF LockInv, TargetInv, AskInv, ClosedInv, Idle, Locked, Growing, Asking, Closing
<1>5. MembersInv BY <1>1 DEF MembersInv
<1> QED BY <1>3, <1>4, <1>5 DEF IInv

-----------------------------------------------------------------------------
\* A call keeps the lock, takes it, or gives it back.
LockMove(c, pc) ==
  \/ mu' = mu /\ (pc \in Locked <=> mu = c)
  \/ mu = Nobody /\ mu' = c /\ pc \in Locked
  \/ mu = c /\ mu' = Nobody /\ pc \notin Locked

LEMMA LockKeeps ==
  ASSUME CallsInv, LockInv, NEW c \in Callers, NEW f \in Frames,
         call' = [call EXCEPT ![c] = f], LockMove(c, f.pc)
  PROVE  LockInv'
<1>1. \A d \in Callers : call'[d] = IF d = c THEN f ELSE call[d]
  BY DEF CallsInv
<1> QED BY <1>1, Sizes DEF LockInv, LockMove

\* One call moves to another place and leaves the slice alone.
LEMMA CallMoves ==
  ASSUME IInv, NEW c \in Callers, NEW f \in Frames,
         call' = [call EXCEPT ![c] = f], LockMove(c, f.pc),
         UNCHANGED <<workers, made>>,
         state' \in 0..2, state = 2 => state' = 2,
         ctx' \in Nat, starts' \in Nat, stops' \in Nat,
         f.pc \in Growing => Len(workers) < f.id /\ f.id <= MaxWorkers,
         f.pc \in Asking => f.id \in Targets,
         f.pc \in Closing => state' = 2
  PROVE  IInv'
<1>1. /\ call' \in [Callers -> Frames]
      /\ \A d \in Callers : call'[d] = IF d = c THEN f ELSE call[d]
  BY DEF IInv, CallsInv
<1>2. mu' \in Callers \cup {Nobody} BY DEF IInv, CallsInv, LockMove
<1>3. CallsInv' BY <1>1, <1>2 DEF IInv, CallsInv
<1>4. LockInv' BY LockKeeps DEF IInv
<1>5. TargetInv' BY <1>1 DEF IInv, TargetInv
<1>6. ClosedInv' BY <1>1 DEF IInv, ClosedInv
<1>7. MembersInv' BY DEF IInv, MembersInv
<1>8. AskInv' BY <1>1 DEF IInv, AskInv
<1> QED BY <1>3, <1>4, <1>5, <1>6, <1>7, <1>8 DEF IInv

\* Without a holder of the lock nobody is about to grow the slice.
LEMMA NobodyGrows ==
  ASSUME LockInv', mu' = Nobody PROVE TargetInv'
  BY Sizes DEF LockInv, TargetInv, Locked, Growing

\* Most steps of a call are outside the locked sections.
LEMMA FreeMoves ==
  ASSUME IInv, NEW c \in Callers, NEW f \in Frames,
         call' = [call EXCEPT ![c] = f],
         call[c].pc \notin Locked, f.pc \notin Locked,
         UNCHANGED <<workers, made, mu>>,
         state' \in 0..2, state = 2 => state' = 2,
         ctx' \in Nat, starts' \in Nat, stops' \in Nat,
         f.pc \in Asking => f.id \in Targets,
         f.pc \in Closing => state' = 2
  PROVE  IInv'
<1>1. LockMove(c, f.pc) BY DEF LockMove, IInv, LockInv
<1>2. f.pc \notin Growing BY DEF Locked, Growing
<1> QED BY <1>1, <1>2, CallMoves

LEMMA EnterFrame ==
  ASSUME NEW c \in Callers, NEW op \in {"none", "start", "stop", "close", "up", "down"},
         NEW pc \in CallPC, NEW id \in Nat, NEW todo \in SUBSET Nat
  PROVE  [op |-> op, pc |-> pc, id |-> id, todo |-> todo] \in Frames
  BY DEF Frames

LEMMA GotoFrame ==
  ASSUME IInv, NEW c \in Callers, NEW pc \in CallPC, Goto(c, pc)
  PROVE  \E f \in Frames : f.pc = pc /\ f.id = call[c].id
                           /\ call' = [call EXCEPT ![c] = f]
<1> DEFINE f == [call[c] EXCEPT !.pc = pc]
<1>1. call[c] \in Frames BY DEF IInv, CallsInv
<1>2. f \in Frames /\ f.pc = pc /\ f.id = call[c].id BY <1>1 DEF Frames
<1>3. call' = [call EXCEPT ![c] = f] BY DEF Goto
<1> QED BY <1>2, <1>3

LEMMA TodoFrame ==
  ASSUME IInv, NEW c \in Callers, NEW w,
         call' = [call EXCEPT ![c].todo = call[c].todo \ {w}]
  PROVE  \E f \in Frames : f.pc = call[c].pc /\ f.id = call[c].id
                           /\ call' = [call EXCEPT ![c] = f]
<1> DEFINE f == [call[c] EXCEPT !.todo = call[c].todo \ {w}]
<1>1. call[c] \in Frames BY DEF IInv, CallsInv
<1>2. f \in Frames /\ f.pc = call[c].pc /\ f.id = call[c].id BY <1>1 DEF Frames
<1>3. call' = [call EXCEPT ![c] = f] OBVIOUS
<1> QED BY <1>2, <1>3

LEMMA IdleFrame == Idle \in Frames /\ Idle.pc = "idle"
  BY DEF Idle, Frames, CallPC

-----------------------------------------------------------------------------
LEMMA StartKeeps ==
  ASSUME IInv, NEW c \in Callers,
         StartCas(c) \/ StartContext(c) \/ StartCancel(c) \/ StartLock(c)
         \/ StartSpawn(c) \/ StartReturn(c)
  PROVE  IInv'
<1> USE DEF LockMove, Locked, Growing, Asking, Closing
<1>t. /\ state \in 0..2 /\ ctx \in Nat /\ starts \in Nat /\ stops \in Nat
      /\ call[c].pc \in Locked <=> mu = c
  BY DEF IInv, CallsInv, LockInv
<1>f. call[c] \in Frames BY DEF IInv, CallsInv
<1>1. CASE StartCas(c)
  <2> DEFINE f == [op |-> "start", pc |-> "start_ctx", id |-> starts + 1, todo |-> {}]
  <2>1. starts + 1 \in Nat BY <1>t
  <2>2. f \in Frames BY <2>1, EnterFrame DEF CallPC
  <2>3. call' = [call EXCEPT ![c] = f] BY <1>1 DEF StartCas, Enter
  <2>4. /\ call[c].pc = "idle" /\ state # 2 /\ state' = 1 /\ starts' = starts + 1
        /\ UNCHANGED <<workers, made, mu, ctx, stops>>
    BY <1>1 DEF StartCas
  <2>5. f.pc = "start_ctx" OBVIOUS
  <2>6. state' \in 0..2 BY <2>4
  <2> HIDE DEF f
  <2> QED BY <1>t, <2>1, <2>2, <2>3, <2>4, <2>5, <2>6, FreeMoves
<1>2. CASE StartContext(c)
  <2>1. PICK f \in Frames : f.pc = "start_cancel" /\ call' = [call EXCEPT ![c] = f]
    BY <1>2, GotoFrame DEF StartContext, CallPC
  <2>2. ctx' \in Nat BY <1>2, <1>f DEF StartContext, Frames
  <2> QED BY <1>2, <1>t, <2>1, <2>2, CallMoves DEF StartContext
<1>6. CASE StartCancel(c)
  <2>1. PICK f \in Frames : f.pc = "start_lock" /\ call' = [call EXCEPT ![c] = f]
    BY <1>6, GotoFrame DEF StartCancel, CallPC
  <2> QED BY <1>6, <1>t, <2>1, CallMoves DEF StartCancel
<1>3. CASE StartLock(c)
  <2> DEFINE f == [call[c] EXCEPT !.pc = "start_spawn", !.todo = Members]
  <2>1. Members \in SUBSET Nat BY DEF IInv, CallsInv, Members
  <2>2. f \in Frames /\ f.pc = "start_spawn" BY <1>f, <2>1 DEF Frames, CallPC
  <2>3. call' = [call EXCEPT ![c] = f] BY <1>3 DEF StartLock
  <2>4. /\ mu = Nobody /\ mu' = c
        /\ UNCHANGED <<workers, made, state, ctx, starts, stops>>
    BY <1>3 DEF StartLock, poolVars
  <2> HIDE DEF f
  <2> QED BY <1>t, <2>2, <2>3, <2>4, CallMoves
<1>4. CASE StartSpawn(c)
  <2>1. PICK w : call' = [call EXCEPT ![c].todo = call[c].todo \ {w}]
    BY <1>4 DEF StartSpawn, SpawnNext
  <2>2. PICK f \in Frames : f.pc = call[c].pc /\ call' = [call EXCEPT ![c] = f]
    BY <2>1, TodoFrame
  <2>3. call[c].pc = "start_spawn" /\ UNCHANGED <<poolVars, workers, made, mu, starts, stops>>
    BY <1>4 DEF StartSpawn, SpawnNext
  <2> QED BY <1>t, <2>2, <2>3, CallMoves DEF poolVars
<1>5. CASE StartReturn(c)
  <2>1. call' = [call EXCEPT ![c] = Idle] BY <1>5 DEF StartReturn, Return
  <2> QED BY <1>5, <1>t, <2>1, IdleFrame, CallMoves DEF StartReturn, poolVars
<1> QED BY <1>1, <1>2, <1>3, <1>4, <1>5, <1>6

-----------------------------------------------------------------------------
LEMMA ResultMoves ==
  ASSUME IInv, NEW c \in Callers, NEW op \in {"none", "start", "stop", "close", "up", "down"}, NEW res,
         StopResult(c, op, res), call[c].pc \notin Locked,
         UNCHANGED <<workers, made, mu, ctx, starts, stops>>,
         state' \in 0..2, state = 2 => state' = 2
  PROVE  IInv'
<1> USE DEF Locked, Asking, Closing
<1>t. /\ ctx \in Nat /\ starts \in Nat /\ stops \in Nat
  BY DEF IInv, CallsInv
<1>1. CASE Enter(c, op, "close_state", 0, {})
  <2> DEFINE f == [op |-> op, pc |-> "close_state", id |-> 0, todo |-> {}]
  <2>1. f \in Frames BY EnterFrame DEF CallPC
  <2>2. call' = [call EXCEPT ![c] = f] BY <1>1 DEF Enter
  <2>3. f.pc = "close_state" OBVIOUS
  <2> HIDE DEF f
  <2> QED BY <1>t, <2>1, <2>2, <2>3, FreeMoves
<1>2. CASE Return(c)
  <2>1. call' = [call EXCEPT ![c] = Idle] BY <1>2 DEF Return
  <2> QED BY <1>t, <2>1, IdleFrame, FreeMoves
<1> QED BY <1>1, <1>2 DEF StopResult

LEMMA CasKeeps ==
  ASSUME IInv, NEW c \in Callers, NEW op \in {"none", "start", "stop", "close", "up", "down"},
         StopCas(c, op), call[c].pc \notin Locked
  PROVE  IInv'
<1>t. /\ state \in 0..2 /\ ctx \in Nat /\ starts \in Nat /\ stops \in Nat
  BY DEF IInv, CallsInv
<1>u. UNCHANGED <<ctx, workers, made, mu, starts, stops>> BY DEF StopCas
<1>1. CASE state = 1
  <2> DEFINE f == [op |-> op, pc |-> "stop_cancel", id |-> 0, todo |-> {}]
  <2>1. f \in Frames BY EnterFrame DEF CallPC
  <2>2. call' = [call EXCEPT ![c] = f] /\ state' = 0 BY <1>1 DEF StopCas, Enter
  <2>3. f.pc = "stop_cancel" OBVIOUS
  <2>4. state' \in 0..2 /\ state # 2 BY <1>1, <2>2
  <2> HIDE DEF f
  <2> QED BY <1>t, <1>u, <2>1, <2>2, <2>3, <2>4, FreeMoves DEF Locked, Asking, Closing
<1>2. CASE state # 1
  <2> DEFINE f == [op |-> op, pc |-> "stop_load", id |-> 0, todo |-> {}]
  <2>1. f \in Frames BY EnterFrame DEF CallPC
  <2>2. call' = [call EXCEPT ![c] = f] /\ state' = state BY <1>2 DEF StopCas, Enter
  <2>3. f.pc = "stop_load" OBVIOUS
  <2> HIDE DEF f
  <2> QED BY <1>t, <1>u, <2>1, <2>2, <2>3, FreeMoves DEF Locked, Asking, Closing
<1> QED BY <1>t, <1>1, <1>2

LEMMA StopKeeps ==
  ASSUME IInv, NEW c \in Callers,
         Stop(c) \/ StopCancel(c) \/ StopLaunch(c) \/ CloseEnter(c) \/ CloseOnce(c)
         \/ CloseStop(c) \/ CloseState(c) \/ CloseChannel(c)
  PROVE  IInv'
<1> USE DEF Locked, Asking, Closing
<1>t. /\ state \in 0..2 /\ ctx \in Nat /\ starts \in Nat /\ stops \in Nat
  BY DEF IInv, CallsInv
<1>f. call[c] \in Frames BY DEF IInv, CallsInv
<1>1. CASE Stop(c) BY <1>1, CasKeeps DEF Stop
<1>2. CASE StopCancel(c)
  <2>1. PICK f \in Frames : f.pc = "stop_launch" /\ call' = [call EXCEPT ![c] = f]
    BY <1>2, GotoFrame DEF StopCancel, CallPC
  <2> QED BY <1>2, <1>t, <2>1, FreeMoves DEF StopCancel, poolVars
<1>3. CASE StopLaunch(c)
  <2> DEFINE f == [op |-> call[c].op, pc |-> "stop_wait", id |-> stops + 1, todo |-> {}]
  <2>1. f \in Frames BY <1>t, <1>f DEF Frames, CallPC
  <2>2. call' = [call EXCEPT ![c] = f] BY <1>3 DEF StopLaunch, Enter
  <2>3. /\ call[c].pc = "stop_launch" /\ stops' = stops + 1
        /\ UNCHANGED <<workers, made, mu, state, ctx, starts>>
    BY <1>3 DEF StopLaunch, Launch, poolVars
  <2>4. f.pc = "stop_wait" OBVIOUS
  <2>5. stops' \in Nat BY <1>t, <2>3
  <2> HIDE DEF f
  <2> QED BY <1>t, <2>1, <2>2, <2>3, <2>4, <2>5, FreeMoves
<1>4. CASE CloseEnter(c)
  <2> DEFINE f == [op |-> "close", pc |-> "close_once", id |-> 0, todo |-> {}]
  <2>1. f \in Frames BY EnterFrame DEF CallPC
  <2>2. call' = [call EXCEPT ![c] = f] BY <1>4 DEF CloseEnter, Enter
  <2> QED BY <1>4, <1>t, <2>1, <2>2, FreeMoves DEF CloseEnter, poolVars
<1>8. CASE CloseOnce(c)
  <2>1. PICK f \in Frames : /\ f.pc \in {"close_stop", "idle"}
                            /\ call' = [call EXCEPT ![c] = f]
    <3>1. CASE Goto(c, "close_stop") BY <3>1, GotoFrame DEF CallPC
    <3>2. CASE Return(c) BY <3>2, IdleFrame DEF Return
    <3> QED BY <1>8, <3>1, <3>2 DEF CloseOnce
  <2>2. /\ call[c].pc = "close_once"
        /\ UNCHANGED <<workers, made, mu, state, ctx, starts, stops>>
    BY <1>8 DEF CloseOnce, poolVars
  <2> QED BY <1>t, <2>1, <2>2, FreeMoves
<1>5. CASE CloseStop(c) BY <1>5, CasKeeps DEF CloseStop
<1>6. CASE CloseState(c)
  <2>1. PICK f \in Frames : f.pc = "close_chan" /\ call' = [call EXCEPT ![c] = f]
    BY <1>6, GotoFrame DEF CloseState, CallPC
  <2>2. /\ call[c].pc = "close_state" /\ state' = 2
        /\ UNCHANGED <<workers, made, mu, ctx, starts, stops>>
    BY <1>6 DEF CloseState
  <2>3. state' \in 0..2 BY <2>2
  <2> QED BY <1>t, <2>1, <2>2, <2>3, FreeMoves
<1>7. CASE CloseChannel(c)
  <2>1. PICK f \in Frames : f.pc = "close_clean" /\ call' = [call EXCEPT ![c] = f]
    BY <1>7, GotoFrame DEF CloseChannel, CallPC
  <2>2. state = 2 BY <1>7 DEF CloseChannel, IInv, ClosedInv
  <2> QED BY <1>7, <1>t, <2>1, <2>2, FreeMoves DEF CloseChannel, poolVars
<1> QED BY <1>1, <1>2, <1>3, <1>4, <1>5, <1>6, <1>7, <1>8

LEMMA WaitKeeps ==
  ASSUME IInv, NEW c \in Callers, StopLoad(c) \/ StopWait(c) \/ StopGivesUp(c) PROVE IInv'
<1>1. /\ call[c].pc \in {"stop_load", "stop_wait"}
      /\ StopResult(c, call[c].op, "nil") \/ StopResult(c, call[c].op, "error")
      /\ UNCHANGED <<workers, made, mu, state, ctx, starts, stops>>
  BY DEF StopLoad, StopWait, StopGivesUp, poolVars
<1>2. call[c].op \in {"none", "start", "stop", "close", "up", "down"} /\ state \in 0..2
  BY DEF IInv, CallsInv, Frames
<1> QED BY <1>1, <1>2, ResultMoves DEF Locked

\* The pool is empty, and closed for good.
LEMMA CleanKeeps ==
  ASSUME IInv, NEW c \in Callers, CloseClean(c) PROVE IInv'
<1>1. /\ call[c].pc = "close_clean" /\ mu = Nobody /\ workers' = <<>>
      /\ call' = [call EXCEPT ![c] = Idle]
      /\ UNCHANGED <<mu, state, ctx, made, starts, stops>>
  BY DEF CloseClean, Return
<1>2. state = 2 BY <1>1 DEF IInv, ClosedInv, Closing
<1>3. /\ call' \in [Callers -> Frames]
      /\ \A d \in Callers : call'[d] = IF d = c THEN Idle ELSE call[d]
  BY <1>1, IdleFrame DEF IInv, CallsInv
<1>4. workers' \in Seq(Nat) /\ Len(workers') = 0 BY <1>1
<1>5. CallsInv' BY <1>1, <1>3, <1>4 DEF IInv, CallsInv
<1>6. LockMove(c, Idle.pc)
  BY <1>1, IdleFrame, Sizes DEF IInv, LockMove, LockInv, Locked
<1>7. LockInv' BY <1>1, <1>6, IdleFrame, LockKeeps DEF IInv
<1>8. TargetInv' BY <1>1, <1>7, NobodyGrows
<1>9. ClosedInv' BY <1>1, <1>2, <1>3, IdleFrame DEF ClosedInv, Closing
<1>10. MembersInv' BY <1>1, <1>2, <1>4, Sizes DEF MembersInv
<1>11. AskInv' BY <1>3, IdleFrame DEF IInv, AskInv, Asking
<1> QED BY <1>5, <1>7, <1>8, <1>9, <1>10, <1>11 DEF IInv

-----------------------------------------------------------------------------
\* A call of ScaleUp or ScaleDown begins, and then takes the lock.
LEMMA AskKeeps ==
  ASSUME IInv, NEW c \in Callers,
         (\E n \in Targets : UpBegin(c, n) \/ DownBegin(c, n)) \/ UpLock(c) \/ DownLock(c)
  PROVE  IInv'
<1>t. /\ state \in 0..2 /\ ctx \in Nat /\ starts \in Nat /\ stops \in Nat
  BY DEF IInv, CallsInv
<1>1. ASSUME NEW n \in Targets, UpBegin(c, n) \/ DownBegin(c, n) PROVE IInv'
  <2>1. n \in Nat BY Sizes DEF Targets
  <2>2. PICK f \in Frames : /\ f.pc \in {"up_lock", "down_lock"} /\ f.id = n
                            /\ call' = [call EXCEPT ![c] = f]
    <3> DEFINE u == [op |-> "up", pc |-> "up_lock", id |-> n, todo |-> {}]
               d == [op |-> "down", pc |-> "down_lock", id |-> n, todo |-> {}]
    <3>1. u \in Frames /\ d \in Frames BY <2>1, EnterFrame DEF CallPC
    <3>2. /\ u.pc = "up_lock" /\ u.id = n
          /\ d.pc = "down_lock" /\ d.id = n
      OBVIOUS
    <3>3. call' = [call EXCEPT ![c] = u] \/ call' = [call EXCEPT ![c] = d]
      BY <1>1 DEF UpBegin, DownBegin, Enter
    <3> HIDE DEF u, d
    <3> QED BY <3>1, <3>2, <3>3
  <2>3. /\ call[c].pc = "idle"
        /\ UNCHANGED <<workers, made, mu, state, ctx, starts, stops>>
    BY <1>1 DEF UpBegin, DownBegin, poolVars
  <2> QED BY <1>t, <2>2, <2>3, FreeMoves DEF Locked, Asking, Closing
<1>2. CASE UpLock(c) \/ DownLock(c)
  <2>1. PICK f \in Frames : /\ f.pc \in {"up_size", "down_size"} /\ f.id = call[c].id
                            /\ call' = [call EXCEPT ![c] = f]
    BY <1>2, GotoFrame DEF UpLock, DownLock, CallPC
  <2>2. /\ call[c].pc \in {"up_lock", "down_lock"} /\ mu = Nobody /\ mu' = c
        /\ UNCHANGED <<workers, made, state, ctx, starts, stops>>
    BY <1>2 DEF UpLock, DownLock, poolVars
  <2>3. call[c].id \in Targets BY <2>2 DEF IInv, AskInv, Asking
  <2>4. LockMove(c, f.pc) BY <2>1, <2>2 DEF LockMove, Locked
  <2> QED BY <1>t, <2>1, <2>2, <2>3, <2>4, CallMoves DEF Growing, Closing
<1> QED BY <1>1, <1>2

\* The comparison with the size gives the lock back, or lets ScaleUp go on.
LEMMA SizeKeeps ==
  ASSUME IInv, NEW c \in Callers, UpSize(c) \/ DownRefused(c) PROVE IInv'
<1>t. /\ state \in 0..2 /\ ctx \in Nat /\ starts \in Nat /\ stops \in Nat
  BY DEF IInv, CallsInv
<1>1. /\ call[c].pc \in {"up_size", "down_size"}
      /\ UNCHANGED <<workers, made, state, ctx, starts, stops>>
  BY DEF UpSize, DownRefused, poolVars
<1>2. mu = c BY <1>1 DEF IInv, LockInv, Locked
<1>3. CASE Return(c) /\ mu' = Nobody
  <2>1. call' = [call EXCEPT ![c] = Idle] BY <1>3 DEF Return
  <2>2. LockMove(c, Idle.pc) BY <1>2, <1>3, IdleFrame DEF LockMove, Locked
  <2> QED BY <1>t, <1>1, <2>1, <2>2, IdleFrame, CallMoves DEF Growing, Asking, Closing
<1>4. CASE /\ call[c].pc = "up_size" /\ call[c].id > Len(workers) /\ mu' = mu
           /\ Goto(c, IF state = 1 THEN "up_ctx" ELSE "up_grow")
  <2>1. PICK f \in Frames : /\ f.pc \in Growing /\ f.id = call[c].id
                            /\ call' = [call EXCEPT ![c] = f]
    BY <1>4, GotoFrame DEF CallPC, Growing
  <2>2. call[c].id \in Targets BY <1>1 DEF IInv, AskInv, Asking
  <2>3. Len(workers) < f.id /\ f.id <= MaxWorkers
    <3>1. Len(workers) \in Nat BY DEF IInv, CallsInv
    <3> QED BY <1>4, <2>1, <2>2, <3>1, Sizes DEF Targets
  <2>4. LockMove(c, f.pc) BY <1>2, <1>4, <2>1 DEF LockMove, Locked, Growing
  <2> QED BY <1>t, <1>1, <2>1, <2>3, <2>4, CallMoves DEF Growing, Asking, Closing
<1> QED BY <1>3, <1>4 DEF UpSize, DownRefused

\* What a run of fresh numbers does to the slice.
LEMMA Grown ==
  ASSUME NEW ws \in Seq(Nat), NEW m \in Nat, NEW n \in Nat,
         \A i \in 1..Len(ws) : ws[i] \in 1..m,
         \A i, j \in 1..Len(ws) : ws[i] = ws[j] => i = j,
         NEW vs, vs = ws \o [i \in 1..n |-> m + i]
  PROVE  /\ vs \in Seq(Nat) /\ Len(vs) = Len(ws) + n
         /\ \A i \in 1..Len(vs) : vs[i] \in 1..(m + n)
         /\ \A i, j \in 1..Len(vs) : vs[i] = vs[j] => i = j
<1> DEFINE fresh == [i \in 1..n |-> m + i]
<1>0. vs = ws \o fresh OBVIOUS
<1>1. /\ fresh \in Seq(Nat) /\ Len(fresh) = n
      /\ \A i \in 1..n : fresh[i] = m + i
  OBVIOUS
<1> HIDE DEF fresh
<1>a. /\ ws \o fresh \in Seq(Nat)
      /\ Len(ws \o fresh) = Len(ws) + Len(fresh)
      /\ \A i \in 1..(Len(ws) + Len(fresh)) :
           (ws \o fresh)[i] = IF i <= Len(ws) THEN ws[i] ELSE fresh[i - Len(ws)]
  BY <1>1, ConcatProperties
<1>2. vs \in Seq(Nat) /\ Len(vs) = Len(ws) + n BY <1>0, <1>1, <1>a
<1>3. \A i \in 1..Len(vs) : vs[i] = IF i <= Len(ws) THEN ws[i] ELSE m + (i - Len(ws))
  BY <1>0, <1>1, <1>2, <1>a
<1>4. Len(ws) \in Nat /\ Len(vs) \in Nat BY <1>2
<1>5. \A i \in 1..Len(vs) : vs[i] \in 1..(m + n)
  <2> SUFFICES ASSUME NEW i \in 1..Len(vs) PROVE vs[i] \in 1..(m + n) OBVIOUS
  <2>1. CASE i <= Len(ws)
    <3>1. vs[i] = ws[i] /\ ws[i] \in 1..m BY <1>3, <1>4, <2>1
    <3> QED BY <3>1
  <2>2. CASE ~(i <= Len(ws)) BY <1>2, <1>3, <1>4, <2>2
  <2> QED BY <2>1, <2>2
<1>6. ASSUME NEW i \in 1..Len(vs), NEW j \in 1..Len(vs), vs[i] = vs[j] PROVE i = j
  <2>1. CASE i <= Len(ws) /\ j <= Len(ws) BY <1>3, <1>4, <1>6, <2>1
  <2>2. CASE i <= Len(ws) /\ ~(j <= Len(ws))
    <3>1. vs[i] = ws[i] /\ ws[i] \in 1..m BY <1>3, <1>4, <2>2
    <3>2. vs[j] = m + (j - Len(ws)) BY <1>3, <2>2
    <3>3. j \in Nat /\ j > Len(ws) BY <1>4, <2>2
    <3>4. m + (j - Len(ws)) > m BY <1>4, <3>3
    <3>5. vs[i] <= m BY <3>1
    <3> QED BY <1>6, <3>1, <3>2, <3>4, <3>5
  <2>3. CASE ~(i <= Len(ws)) /\ j <= Len(ws)
    <3>1. vs[j] = ws[j] /\ ws[j] \in 1..m BY <1>3, <1>4, <2>3
    <3>2. vs[i] = m + (i - Len(ws)) BY <1>3, <2>3
    <3>3. i \in Nat /\ i > Len(ws) BY <1>4, <2>3
    <3>4. m + (i - Len(ws)) > m BY <1>4, <3>3
    <3>5. vs[j] <= m BY <3>1
    <3> QED BY <1>6, <3>1, <3>2, <3>4, <3>5
  <2>4. CASE ~(i <= Len(ws)) /\ ~(j <= Len(ws))
    <3>1. vs[i] = m + (i - Len(ws)) /\ vs[j] = m + (j - Len(ws)) BY <1>3, <2>4
    <3>2. i \in Nat /\ j \in Nat BY <1>4
    <3>3. m + (i - Len(ws)) = m + (j - Len(ws)) BY <1>6, <3>1
    <3> QED BY <1>4, <3>2, <3>3
  <2> QED BY <2>1, <2>2, <2>3, <2>4
<1> QED BY <1>2, <1>5, <1>6

\* The loop reaches the target it was given, which is in the range.
LEMMA UpGrowKeeps ==
  ASSUME IInv, NEW c \in Callers, UpGrow(c) PROVE IInv'
<1> DEFINE n == call[c].id - Len(workers)
           fresh == (made + 1)..(made + n)
<1>1. /\ call[c].pc \in Growing /\ mu' = Nobody
      /\ workers' = workers \o [i \in 1..n |-> made + i]
      /\ made' = made + n
      /\ UNCHANGED <<state, ctx, starts, stops>>
  BY DEF UpGrow, Growing, poolVars
<1>2. mu = c BY <1>1 DEF IInv, LockInv, Locked, Growing
<1>3. /\ call[c].id \in Nat /\ Len(workers) \in Nat /\ made \in Nat /\ ctx \in Nat
      /\ workers \in Seq(Nat)
  BY DEF IInv, CallsInv, Frames
<1>4. Len(workers) < call[c].id /\ call[c].id <= MaxWorkers
  BY <1>1 DEF IInv, TargetInv
<1>5. n \in Nat BY <1>3, <1>4
<1>6. /\ workers' \in Seq(Nat) /\ Len(workers') = Len(workers) + n
      /\ \A i \in 1..Len(workers') : workers'[i] \in 1..made'
      /\ \A i, j \in 1..Len(workers') : workers'[i] = workers'[j] => i = j
  <2>1. /\ \A i \in 1..Len(workers) : workers[i] \in 1..made
        /\ \A i, j \in 1..Len(workers) : workers[i] = workers[j] => i = j
    BY DEF IInv, MembersInv
  <2> HIDE DEF n
  <2> QED BY <1>1, <1>3, <1>5, <2>1, Grown
<1>7. PICK f \in Frames : /\ f.pc \in {"up_check", "idle"}
                          /\ call' = [call EXCEPT ![c] = f]
  <2>1. fresh \in SUBSET Nat BY <1>3
  <2>2. [op |-> "up", pc |-> "up_check", id |-> ctx, todo |-> fresh] \in Frames
    BY <1>3, <2>1, EnterFrame DEF CallPC
  <2>3. \/ call' = [call EXCEPT ![c] = [op |-> "up", pc |-> "up_check",
                                        id |-> ctx, todo |-> fresh]]
        \/ call' = [call EXCEPT ![c] = Idle]
    BY DEF UpGrow, Enter, Return
  <2> HIDE DEF fresh
  <2> QED BY <2>2, <2>3, IdleFrame
<1>8. /\ call' \in [Callers -> Frames]
      /\ \A d \in Callers : call'[d] = IF d = c THEN f ELSE call[d]
  BY <1>7 DEF IInv, CallsInv
<1>9. made' \in Nat BY <1>1, <1>3, <1>5
<1>10. CallsInv' BY <1>1, <1>6, <1>8, <1>9 DEF IInv, CallsInv
<1>11. LockInv' BY <1>1, <1>2, <1>7, LockKeeps DEF IInv, LockMove, Locked
<1>12. TargetInv' BY <1>1, <1>11, NobodyGrows
<1>13. ClosedInv' BY <1>1, <1>7, <1>8 DEF IInv, ClosedInv, Closing
<1>14. Len(workers') = call[c].id BY <1>3, <1>6
<1>15. state' # 2 => Len(workers') >= MinWorkers
  <2>1. state # 2 => Len(workers) >= MinWorkers BY DEF IInv, MembersInv
  <2> QED BY <1>1, <1>3, <1>4, <1>14, <2>1, Sizes
<1>16. MembersInv' BY <1>4, <1>6, <1>14, <1>15 DEF MembersInv
<1>17. AskInv' BY <1>7, <1>8 DEF IInv, AskInv, Asking
<1> QED BY <1>10, <1>11, <1>12, <1>13, <1>16, <1>17 DEF IInv

LEMMA UpKeeps ==
  ASSUME IInv, NEW c \in Callers, UpCheck(c) \/ UpSpawn(c) \/ UpReturn(c) PROVE IInv'
<1>t. /\ state \in 0..2 /\ ctx \in Nat /\ starts \in Nat /\ stops \in Nat
  BY DEF IInv, CallsInv
<1>1. /\ call[c].pc \in {"up_check", "up_spawn"}
      /\ UNCHANGED <<workers, made, mu, state, ctx, starts, stops>>
  BY DEF UpCheck, UpSpawn, UpReturn, SpawnNext, poolVars
<1>2. PICK f \in Frames : /\ f.pc \in {"up_spawn", "idle"}
                          /\ call' = [call EXCEPT ![c] = f]
  <2>1. CASE Return(c) BY <2>1, IdleFrame DEF Return
  <2>2. CASE Goto(c, "up_spawn") BY <2>2, GotoFrame DEF CallPC
  <2>3. CASE UpSpawn(c)
    <3>1. PICK w : call' = [call EXCEPT ![c].todo = call[c].todo \ {w}]
      BY <2>3 DEF UpSpawn, SpawnNext
    <3>2. call[c].pc = "up_spawn" BY <2>3 DEF UpSpawn
    <3> QED BY <3>1, <3>2, TodoFrame
  <2> QED BY <2>1, <2>2, <2>3 DEF UpCheck, UpReturn
<1> QED BY <1>t, <1>1, <1>2, FreeMoves DEF Locked, Asking, Closing

\* The slice is cut where it is longer than the target.
LEMMA ShrinkKeeps ==
  ASSUME IInv, NEW c \in Callers, DownShrink(c) PROVE IInv'
<1> DEFINE n == call[c].id
<1>1. /\ call[c].pc = "down_size" /\ n < Len(workers) /\ mu' = Nobody
      /\ workers' = SubSeq(workers, 1, n) /\ stops' = stops + 1
      /\ call' = [call EXCEPT ![c] = Idle]
      /\ UNCHANGED <<made, state, ctx, starts>>
  BY DEF DownShrink, Launch, Return, poolVars
<1>2. n \in Nat /\ n >= MinWorkers
  <2>1. n \in Targets BY <1>1 DEF IInv, AskInv, Asking
  <2> QED BY <2>1, Sizes DEF Targets
<1>3. workers \in Seq(Nat) /\ Len(workers) \in Nat /\ stops \in Nat
  BY DEF IInv, CallsInv
<1> HIDE DEF n
<1>4. /\ workers' \in Seq(Nat) /\ Len(workers') = n
      /\ \A i \in 1..n : workers'[i] = workers[i]
  BY <1>1, <1>2, <1>3
<1>5. stops' \in Nat BY <1>1, <1>3
<1>13. /\ call' \in [Callers -> Frames]
       /\ \A d \in Callers : call'[d] = IF d = c THEN Idle ELSE call[d]
  BY <1>1, IdleFrame DEF IInv, CallsInv
<1>6. CallsInv' BY <1>1, <1>4, <1>5, <1>13 DEF IInv, CallsInv
<1>14. mu = c BY <1>1 DEF IInv, LockInv, Locked
<1>7. LockInv'
  <2>1. LockMove(c, Idle.pc) BY <1>1, <1>14, IdleFrame DEF LockMove, Locked
  <2> QED BY <1>1, <2>1, IdleFrame, LockKeeps DEF IInv
<1>8. TargetInv' BY <1>1, <1>7, NobodyGrows
<1>9. ClosedInv' BY <1>1, <1>13, IdleFrame DEF IInv, ClosedInv, Closing
<1>15. AskInv' BY <1>13, IdleFrame DEF IInv, AskInv, Asking
<1>10. \A i \in 1..n : i \in 1..Len(workers) BY <1>1, <1>2, <1>3
<1>11. n <= MaxWorkers
  BY <1>1, <1>2, <1>3, Sizes DEF IInv, MembersInv
<1>12. MembersInv' BY <1>1, <1>2, <1>4, <1>10, <1>11 DEF IInv, MembersInv
<1> QED BY <1>6, <1>7, <1>8, <1>9, <1>12, <1>15 DEF IInv

-----------------------------------------------------------------------------
\* Workers, rounds of Worker.Stop, submissions and contexts leave the calls alone.
LEMMA OthersKeep ==
  ASSUME IInv, UNCHANGED <<poolVars, lifeVars>> PROVE IInv'
<1>1. UNCHANGED <<state, ctx, workers, made, mu, starts, stops, call>>
  BY DEF poolVars, lifeVars
<1> QED BY <1>1 DEF IInv, CallsInv, LockInv, TargetInv, AskInv, ClosedInv, MembersInv

LEMMA StepIInv == IInv /\ [Next]_vars => IInv'
<1> SUFFICES ASSUME IInv, [Next]_vars PROVE IInv' OBVIOUS
<1>1. ASSUME NEW c \in Callers, CallBegin(c) PROVE IInv'
  BY <1>1, StartKeeps, StopKeeps, AskKeeps DEF CallBegin
<1>2. ASSUME NEW c \in Callers, CallStep(c) \/ LockStep(c) PROVE IInv'
  BY <1>2, StartKeeps, StopKeeps, WaitKeeps, CleanKeeps, AskKeeps, SizeKeeps,
     UpGrowKeeps, UpKeeps, ShrinkKeeps
     DEF CallStep, LockStep
<1>3. ASSUME NEW t \in Tasks, SubmitWithTimeout(t) PROVE IInv'
  <2>1. UNCHANGED <<poolVars, lifeVars>>
    BY <1>3 DEF SubmitWithTimeout, SubmitCheck, SubmitStep, SubmitNow, SubmitArm,
       SubmitSend,
                SubmitTimeout, SubmitCancelled
  <2> QED BY <2>1, OthersKeep
<1>4. ASSUME NEW r \in Runs, WorkerStep(r) PROVE IInv'
  BY <1>4, OthersKeep DEF WorkerStep
<1>5. ASSUME NEW k \in Stops, NEW w \in Workers, StopperStep(k, w) PROVE IInv'
  BY <1>5, OthersKeep DEF StopperStep
<1>6. ASSUME NEW g \in Gens, CancelParent(g) PROVE IInv'
  BY <1>6, OthersKeep DEF CancelParent
<1>7. CASE UNCHANGED vars BY <1>7, OthersKeep DEF vars
<1>8. CASE Next
  <2>1. Step BY <1>8 DEF Next
  <2> QED BY <1>1, <1>2, <1>3, <1>4, <1>5, <1>6, <2>1 DEF Step
<1> QED BY <1>7, <1>8

LEMMA Invariant == Spec => []IInv
  BY InitIInv, StepIInv, PTL DEF Spec

\* A slice without duplicates has as many members as it is long.
LEMMA MembersCounted ==
  ASSUME CallsInv, MembersInv PROVE Cardinality(Members) = Len(workers)
<1> DEFINE n == Len(workers)
<1>1. n \in Nat /\ workers \in [1..n -> Nat] BY DEF CallsInv
<1>2. workers \in [1..n -> Members] BY <1>1 DEF Members
<1>3. workers \in Injection(1..n, Members)
  BY <1>2 DEF MembersInv, Injection, IsInjective
<1>4. workers \in Surjection(1..n, Members) BY <1>2 DEF Surjection, Members
<1>5. ExistsBijection(1..n, Members)
  BY <1>3, <1>4 DEF ExistsBijection, Bijection
<1> QED BY <1>1, <1>5, FS_CountingElements

\* Concurrent ScaleUp and ScaleDown calls keep the number of workers in the
\* configured range, whatever Start, Stop and Close do meanwhile, and never add
\* a worker twice (ScaleUp, ScaleDown, Close).
THEOREM SizeStaysInRange == Spec => []SizeInRange
<1>1. IInv => SizeInRange
  BY MembersCounted DEF IInv, MembersInv, SizeInRange
<1> QED BY <1>1, Invariant, PTL

-----------------------------------------------------------------------------
USE DEF Gens, Stops

Sized == Growing \cup {"up_size"}

\* A worker can be created for every growth under the lock.
RoomInv ==
  /\ 1..made \subseteq Workers
  /\ \A c \in Callers : call[c].pc \in Sized =>
       made + call[c].id - Len(workers) <= Cardinality(Workers)

\* The contexts a call installs or passes on are those of Starts, and the
\* workers it starts are workers that were made.
IdsInv ==
  /\ starts \in 0..MaxStarts /\ stops \in 0..MaxStops
  /\ once \in {"no", "running", "done"}
  /\ \A c \in Callers :
       /\ call[c].todo \subseteq 1..made
       /\ call[c].pc \in {"start_ctx", "start_cancel", "up_check", "up_spawn"} => call[c].id \in Gens

TypeInv == IInv /\ RoomInv /\ IdsInv /\ WorkerTypeOK /\ SubmissionTypeOK

CallActs(c) == CallBegin(c) \/ CallStep(c) \/ LockStep(c)

\* What ScaleUp and ScaleDown do before the slice is changed.
Asks(c) ==
  \/ \E n \in Targets : UpBegin(c, n) \/ DownBegin(c, n)
  \/ UpLock(c) \/ UpSize(c) \/ DownLock(c) \/ DownRefused(c)

\* What a call writes about itself, and that it leaves the others alone.
LEMMA Entered ==
  ASSUME IInv, NEW c \in Callers, NEW op, NEW pc, NEW id, NEW todo, Enter(c, op, pc, id, todo)
  PROVE  /\ call'[c].op = op /\ call'[c].pc = pc /\ call'[c].id = id /\ call'[c].todo = todo
         /\ \A d \in Callers \ {c} : call'[d] = call[d]
<1>1. call'[c] = [op |-> op, pc |-> pc, id |-> id, todo |-> todo]
  BY DEF IInv, CallsInv, Enter
<1>2. \A d \in Callers \ {c} : call'[d] = call[d]
  BY DEF IInv, CallsInv, Enter
<1>3. QED
  BY <1>1, <1>2

LEMMA Went ==
  ASSUME IInv, NEW c \in Callers, NEW pc, Goto(c, pc)
  PROVE  /\ call'[c].pc = pc /\ call'[c].id = call[c].id /\ call'[c].todo = call[c].todo
         /\ call'[c].op = call[c].op
         /\ \A d \in Callers \ {c} : call'[d] = call[d]
  BY DEF IInv, CallsInv, Frames, Goto

LEMMA Returned ==
  ASSUME IInv, NEW c \in Callers, Return(c)
  PROVE  /\ call'[c].pc = "idle" /\ call'[c].id = 0 /\ call'[c].todo = {}
         /\ \A d \in Callers \ {c} : call'[d] = call[d]
  BY DEF IInv, CallsInv, Return, Idle

LEMMA Took ==
  ASSUME IInv, NEW c \in Callers, NEW w,
         call' = [call EXCEPT ![c].todo = call[c].todo \ {w}]
  PROVE  /\ call'[c].pc = call[c].pc /\ call'[c].id = call[c].id
         /\ call'[c].todo = call[c].todo \ {w}
         /\ \A d \in Callers \ {c} : call'[d] = call[d]
  BY DEF IInv, CallsInv, Frames

\* The steps of Stop and Close end the call or take it further along Stop and Close.
LEMMA Resulted ==
  ASSUME IInv, NEW c \in Callers, NEW op, NEW res, StopResult(c, op, res)
  PROVE  /\ call'[c].pc \in {"idle", "close_state"} /\ call'[c].id = 0 /\ call'[c].todo = {}
         /\ \A d \in Callers \ {c} : call'[d] = call[d]
         /\ once' = once \/ once' = "done"
<1>1. CASE op = "close" /\ res = "nil"
  <2>1. Enter(c, op, "close_state", 0, {}) /\ once' = once
    BY <1>1 DEF StopResult
  <2>2. QED
    BY <2>1, Entered
<1>2. CASE ~(op = "close" /\ res = "nil")
  <2>1. Return(c) /\ (once' = once \/ once' = "done")
    BY <1>2 DEF StopResult
  <2>2. QED
    BY <2>1, Returned
<1>3. QED
  BY <1>1, <1>2

LEMMA Stopping ==
  ASSUME IInv, NEW c \in Callers, NEW op, StopCas(c, op)
  PROVE  /\ call'[c].pc \in {"stop_load", "stop_cancel"}
         /\ call'[c].id = 0 /\ call'[c].todo = {}
         /\ \A d \in Callers \ {c} : call'[d] = call[d]
         /\ call'[c].pc = "stop_cancel" => state = 1 /\ state' = 0
         /\ state = 1 \/ state' = state
         /\ state = 1 => state' = 0
<1>1. CASE state = 1
  <2>1. state' = 0 /\ Enter(c, op, "stop_cancel", 0, {})
    BY <1>1 DEF StopCas
  <2>2. QED
    BY <1>1, <2>1, Entered
<1>2. CASE state # 1
  <2>1. state' = state /\ Enter(c, op, "stop_load", 0, {})
    BY <1>2 DEF StopCas
  <2>2. QED
    BY <1>2, <2>1, Entered
<1>3. QED
  BY <1>1, <1>2

\* Where a call goes: the workers it has still to start were made, and the
\* context it brings is one of a Start.
Path(c) ==
  /\ \A d \in Callers \ {c} : call'[d] = call[d]
  /\ call'[c].todo \subseteq 1..made'
  /\ call'[c].pc \in {"start_ctx", "start_cancel", "up_check", "up_spawn"} => call'[c].id \in Gens

LEMMA StartPath ==
  ASSUME TypeInv, NEW c \in Callers,
         StartCas(c) \/ StartContext(c) \/ StartCancel(c) \/ StartLock(c)
         \/ StartSpawn(c) \/ StartReturn(c)
  PROVE  Path(c) /\ call'[c].pc \in {"start_ctx", "start_cancel", "start_lock", "start_spawn", "idle"}
<1> USE DEF Path, TypeInv
<1>0. made' = made
  BY DEF StartCas, StartContext, StartCancel, StartLock, StartSpawn, StartReturn, SpawnNext
<1>i. call[c].todo \subseteq 1..made
  BY DEF IdsInv
<1>1. CASE StartCas(c)
  <2>1. starts + 1 \in Gens
    BY <1>1, WorkerAssumption DEF StartCas, IdsInv
  <2>2. Enter(c, "start", "start_ctx", starts + 1, {})
    BY <1>1 DEF StartCas
  <2>3. QED
    BY <2>1, <2>2, Entered
<1>2. CASE StartContext(c)
  <2>1. Goto(c, "start_cancel") /\ call[c].pc = "start_ctx"
    BY <1>2 DEF StartContext
  <2>2. call[c].id \in Gens
    BY <2>1 DEF IdsInv
  <2>3. QED
    BY <1>0, <1>i, <2>1, <2>2, Went
<1>7. CASE StartCancel(c)
  <2>1. Goto(c, "start_lock")
    BY <1>7 DEF StartCancel
  <2>2. QED
    BY <1>0, <1>i, <2>1, Went
<1>3. CASE StartLock(c)
  <2>1. call' = [call EXCEPT ![c].pc = "start_spawn", ![c].todo = Members]
    BY <1>3 DEF StartLock
  <2>2. /\ call'[c].pc = "start_spawn" /\ call'[c].todo = Members
        /\ \A d \in Callers \ {c} : call'[d] = call[d]
    BY <2>1 DEF IInv, CallsInv, Frames
  <2>3. Members \subseteq 1..made
    BY DEF IInv, MembersInv, Members
  <2>4. QED
    BY <1>0, <2>2, <2>3
<1>4. CASE StartSpawn(c)
  <2>1. PICK w : call' = [call EXCEPT ![c].todo = call[c].todo \ {w}]
    BY <1>4 DEF StartSpawn, SpawnNext
  <2>2. call[c].pc = "start_spawn"
    BY <1>4 DEF StartSpawn
  <2>3. QED
    BY <1>0, <1>i, <2>1, <2>2, Took
<1>5. CASE StartReturn(c)
  BY <1>5, Returned DEF StartReturn
<1>6. QED
  BY <1>1, <1>2, <1>3, <1>4, <1>5, <1>7

\* Stop and Close take one place after the other.
Winds(c) ==
  LET from == call[c].pc
      to   == call'[c].pc
  IN  /\ to \in {"idle", "stop_load", "stop_cancel", "stop_launch", "stop_wait",
                 "close_once", "close_stop", "close_state", "close_chan", "close_clean"}
      /\ to = "stop_cancel" => state = 1 /\ state' = 0
      /\ to = "stop_launch" => from = "stop_cancel"
      /\ to = "stop_wait" => from = "stop_launch"
      /\ to = "close_chan" => state' = 2
      /\ to = "close_clean" => from = "close_chan" /\ ~chanOpen'

LEMMA StopPath ==
  ASSUME TypeInv, NEW c \in Callers,
         \/ Stop(c) \/ StopLoad(c) \/ StopCancel(c) \/ StopLaunch(c) \/ StopWait(c)
         \/ StopGivesUp(c) \/ CloseEnter(c) \/ CloseOnce(c) \/ CloseStop(c) \/ CloseState(c) \/ CloseChannel(c) \/ CloseClean(c)
  PROVE  Path(c) /\ Winds(c)
<1> USE DEF Path, Winds, TypeInv
<1>0. made' = made
  BY DEF Stop, CloseStop, StopCas, StopLoad, StopCancel, StopLaunch, StopWait, StopGivesUp,
     CloseEnter, CloseOnce, CloseState, CloseChannel, CloseClean
<1>i. call[c].todo \subseteq 1..made
  BY DEF IdsInv
<1>1. CASE Stop(c) \/ CloseStop(c)
  BY <1>1, Stopping DEF Stop, CloseStop
<1>2. CASE StopLoad(c) \/ StopWait(c) \/ StopGivesUp(c)
  BY <1>2, Resulted DEF StopLoad, StopWait, StopGivesUp
<1>3. CASE StopCancel(c) \/ CloseState(c) \/ CloseChannel(c)
  <2>1. PICK pc \in {"stop_launch", "close_chan", "close_clean"} :
          /\ Goto(c, pc)
          /\ pc = "stop_launch" => call[c].pc = "stop_cancel"
          /\ pc = "close_chan" => state' = 2
          /\ pc = "close_clean" => call[c].pc = "close_chan" /\ ~chanOpen'
    BY <1>3 DEF StopLoad, StopCancel, CloseState, CloseChannel
  <2>2. QED
    BY <1>0, <1>i, <2>1, Went
<1>4. CASE StopLaunch(c)
  <2>1. Enter(c, call[c].op, "stop_wait", stops + 1, {}) /\ call[c].pc = "stop_launch"
    BY <1>4 DEF StopLaunch
  <2>2. QED
    BY <2>1, Entered
<1>5. CASE CloseEnter(c)
  <2>1. Enter(c, "close", "close_once", 0, {})
    BY <1>5 DEF CloseEnter
  <2>2. QED
    BY <2>1, Entered
<1>8. CASE CloseOnce(c)
  <2>1. Goto(c, "close_stop") \/ Return(c)
    BY <1>8 DEF CloseOnce
  <2>2. QED
    BY <1>0, <1>i, <2>1, Went, Returned
<1>6. CASE CloseClean(c)
  BY <1>6, Returned DEF CloseClean
<1>7. QED
  BY <1>1, <1>2, <1>3, <1>4, <1>5, <1>6, <1>8

\* The growth of a ScaleUp that has begun is in Nat, and so are the new numbers.
LEMMA Growth ==
  ASSUME TypeInv, NEW c \in Callers, UpGrow(c)
  PROVE  LET n == call[c].id - Len(workers) IN
         /\ n \in Nat /\ made \in Nat /\ made' = made + n
         /\ made + n <= Cardinality(Workers)
         /\ mu = c /\ mu' = Nobody
<1> USE DEF TypeInv
<1>1. /\ call[c].pc \in Growing /\ mu' = Nobody
      /\ made' = made + (call[c].id - Len(workers))
  BY DEF UpGrow, Growing
<1>2. call[c].id \in Nat /\ Len(workers) \in Nat /\ made \in Nat
  BY DEF IInv, CallsInv, Frames
<1>3. Len(workers) < call[c].id
  BY <1>1 DEF IInv, TargetInv
<1>4. made + call[c].id - Len(workers) <= Cardinality(Workers)
  BY <1>1 DEF RoomInv, Sized
<1>5. Cardinality(Workers) \in Nat
  BY WorkerAssumption, FS_CardinalityType
<1>6. mu = c
  BY <1>1 DEF IInv, LockInv, Locked, Growing
<1>7. made + (call[c].id - Len(workers)) <= Cardinality(Workers)
  BY <1>2, <1>4, <1>5
<1>8. QED
  BY <1>1, <1>2, <1>3, <1>6, <1>7

LEMMA UpPath ==
  ASSUME TypeInv, NEW c \in Callers, UpGrow(c) \/ UpCheck(c) \/ UpSpawn(c) \/ UpReturn(c)
  PROVE  Path(c) /\ call'[c].pc \in {"up_check", "up_spawn", "idle"}
<1> USE DEF Path, TypeInv
<1>i. /\ call[c].todo \subseteq 1..made
      /\ call[c].pc \in {"up_check", "up_spawn"} => call[c].id \in Gens
  BY DEF IdsInv
<1>1. CASE UpGrow(c)
  <2> DEFINE n == call[c].id - Len(workers)
             fresh == (made + 1)..(made + n)
  <2>1. n \in Nat /\ made \in Nat /\ made' = made + n
    BY <1>1, Growth
  <2>2. fresh \subseteq 1..made'
    BY <2>1
  <2>3. \/ ctx # 0 /\ Enter(c, "up", "up_check", ctx, fresh)
        \/ Return(c)
    BY <1>1 DEF UpGrow
  <2> HIDE DEF fresh
  <2>4. CASE ctx # 0 /\ Enter(c, "up", "up_check", ctx, fresh)
    <3>1. ctx \in Gens
      BY <2>4 DEF SubmissionTypeOK
    <3>2. /\ call'[c].pc = "up_check" /\ call'[c].id = ctx /\ call'[c].todo = fresh
          /\ \A d \in Callers \ {c} : call'[d] = call[d]
      BY <2>4, Entered
    <3>3. QED
      BY <2>2, <3>1, <3>2
  <2>5. QED
    BY <2>3, <2>4, Returned
<1>2. CASE UpCheck(c)
  <2>1. made' = made /\ call[c].pc = "up_check" /\ (Goto(c, "up_spawn") \/ Return(c))
    BY <1>2 DEF UpCheck
  <2>2. CASE Goto(c, "up_spawn")
    BY <1>i, <2>1, <2>2, Went
  <2>3. QED
    BY <2>1, <2>2, Returned
<1>3. CASE UpSpawn(c)
  <2>1. made' = made /\ call[c].pc = "up_spawn"
    BY <1>3 DEF UpSpawn, SpawnNext
  <2>2. PICK w : call' = [call EXCEPT ![c].todo = call[c].todo \ {w}]
    BY <1>3 DEF UpSpawn, SpawnNext
  <2>3. QED
    BY <1>i, <2>1, <2>2, Took
<1>4. CASE UpReturn(c)
  BY <1>4, Returned DEF UpReturn
<1>5. QED
  BY <1>1, <1>2, <1>3, <1>4

LEMMA AskPath ==
  ASSUME TypeInv, NEW c \in Callers, Asks(c)
  PROVE  /\ Path(c)
         /\ call'[c].pc \in {"up_lock", "up_size", "up_ctx", "up_grow",
                             "down_lock", "down_size", "idle"}
         /\ call'[c].pc \in Sized =>
              made + call'[c].id - Len(workers) <= Cardinality(Workers)
<1> USE DEF Path, Growing, Sized, TypeInv
<1>0. made' = made
  BY DEF Asks, UpBegin, UpLock, UpSize, DownBegin, DownLock, DownRefused
<1>i. call[c].todo \subseteq 1..made
  BY DEF IdsInv
<1>1. CASE \E n \in Targets : UpBegin(c, n) \/ DownBegin(c, n)
  <2>1. \E n : Enter(c, "up", "up_lock", n, {}) \/ Enter(c, "down", "down_lock", n, {})
    BY <1>1 DEF UpBegin, DownBegin
  <2>2. QED
    BY <2>1, Entered
<1>2. CASE UpLock(c)
  <2>1. Goto(c, "up_size") /\ call[c].pc = "up_lock"
        /\ ~(made + call[c].id - Len(workers) > Cardinality(Workers))
    BY <1>2 DEF UpLock, BeyondBound
  <2>2. made \in Nat /\ call[c].id \in Nat /\ Len(workers) \in Nat /\ Cardinality(Workers) \in Nat
    BY WorkerAssumption, FS_CardinalityType DEF IInv, CallsInv, Frames
  <2>3. made + call[c].id - Len(workers) <= Cardinality(Workers)
    BY <2>1, <2>2
  <2>4. QED
    BY <1>0, <1>i, <2>1, <2>3, Went
<1>3. CASE UpSize(c)
  <2>1. call[c].pc = "up_size" /\ (Return(c) \/ \E pc \in {"up_ctx", "up_grow"} : Goto(c, pc))
    BY <1>3 DEF UpBegin, UpLock, UpSize, DownBegin, DownLock, DownRefused
  <2>2. made + call[c].id - Len(workers) <= Cardinality(Workers)
    BY <2>1 DEF RoomInv
  <2>3. QED
    BY <1>0, <1>i, <2>1, <2>2, Went, Returned
<1>4. CASE DownLock(c)
  BY <1>0, <1>i, <1>4, Went DEF DownLock
<1>5. CASE DownRefused(c)
  BY <1>5, Returned DEF DownRefused
<1>6. QED
  BY <1>1, <1>2, <1>3, <1>4, <1>5 DEF Asks

LEMMA ShrinkPath ==
  ASSUME TypeInv, NEW c \in Callers, DownShrink(c)
  PROVE  Path(c) /\ call'[c].pc = "idle"
  BY Returned DEF DownShrink, Path, TypeInv

\* No ScaleUp is between its size check and its loop while nobody holds the lock.
LEMMA NoneGrows ==
  ASSUME IInv, mu = Nobody PROVE \A c \in Callers : call[c].pc \notin Sized
  BY Sizes DEF IInv, LockInv, Locked, Growing, Sized

LEMMA NoneGrowsNext ==
  ASSUME IInv', mu' = Nobody PROVE \A c \in Callers : call'[c].pc \notin Sized
  BY Sizes DEF IInv, LockInv, Locked, Growing, Sized

LEMMA InitType == Init => TypeInv
<1> SUFFICES ASSUME Init PROVE TypeInv
  OBVIOUS
<1>1. WorkerTypeOK
  BY DEF Init, WorkerInit, WorkerTypeOK, NoRun, RunPC, StopPC, Panics
<1>2. SubmissionTypeOK
  BY DEF Init, SubmissionInit, SubmissionTypeOK, SubPC
<1>3. Cardinality(Workers) \in Nat
  BY WorkerAssumption, FS_CardinalityType
<1>4. 1..made \subseteq Workers
  BY <1>3, DynamicPoolAssumption DEF Init
<1>5. \A c \in Callers : call[c].pc = "idle" /\ call[c].todo = {}
  BY DEF Init, Idle
<1>6. RoomInv /\ IdsInv
  BY <1>4, <1>5, WorkerAssumption DEF Init, RoomInv, IdsInv, Growing, Sized
<1>7. QED
  BY <1>1, <1>2, <1>6, InitIInv DEF TypeInv

\* There stays room for every growth that has begun.
LEMMA CallRoom ==
  ASSUME TypeInv, IInv', NEW c \in Callers, CallActs(c)
  PROVE  RoomInv'
<1> USE DEF RoomInv, TypeInv
<1>1. ASSUME UNCHANGED <<workers, made>>, Path(c),
             call'[c].pc \in Sized =>
               made + call'[c].id - Len(workers) <= Cardinality(Workers)
      PROVE RoomInv'
  BY <1>1 DEF Path
<1>2. CASE StartCas(c) \/ StartContext(c) \/ StartCancel(c) \/ StartLock(c)
           \/ StartSpawn(c) \/ StartReturn(c)
  <2>1. UNCHANGED <<workers, made>>
    BY <1>2 DEF StartCas, StartContext, StartCancel, StartLock, StartSpawn, StartReturn,
       SpawnNext
  <2>2. QED
    BY <1>1, <1>2, <2>1, StartPath DEF Sized, Growing
<1>3. CASE \/ Stop(c) \/ StopLoad(c) \/ StopCancel(c) \/ StopLaunch(c) \/ StopWait(c)
           \/ StopGivesUp(c) \/ CloseEnter(c) \/ CloseOnce(c) \/ CloseStop(c)
           \/ CloseState(c) \/ CloseChannel(c)
  <2>1. UNCHANGED <<workers, made>>
    BY <1>3 DEF Stop, CloseStop, StopCas, StopLoad, StopCancel, StopLaunch, StopWait,
       StopGivesUp, CloseEnter, CloseOnce, CloseState, CloseChannel
  <2>2. QED
    BY <1>1, <1>3, <2>1, StopPath DEF Winds, Sized, Growing
<1>4. CASE UpCheck(c) \/ UpSpawn(c) \/ UpReturn(c)
  <2>1. UNCHANGED <<workers, made>>
    BY <1>4 DEF UpCheck, UpSpawn, UpReturn, SpawnNext
  <2>2. QED
    BY <1>1, <1>4, <2>1, UpPath DEF Sized, Growing
<1>5. ASSUME mu' = Nobody, made' = made PROVE RoomInv'
  BY <1>5, NoneGrowsNext
<1>6. CASE CloseClean(c) \/ DownShrink(c)
  <2>1. mu' = Nobody /\ made' = made
    BY <1>6 DEF CloseClean, DownShrink
  <2>2. QED
    BY <1>5, <2>1
<1>7. CASE UpGrow(c)
  <2> DEFINE n == call[c].id - Len(workers)
  <2>1. /\ n \in Nat /\ made \in Nat /\ made' = made + n
        /\ made + n <= Cardinality(Workers) /\ mu' = Nobody
    BY <1>7, Growth
  <2>2. Cardinality(Workers) \in Nat
    BY WorkerAssumption, FS_CardinalityType
  <2> HIDE DEF n
  <2>3. 1..made' \subseteq 1..Cardinality(Workers)
    BY <2>1, <2>2
  <2>4. QED
    BY <2>1, <2>3, NoneGrowsNext, DynamicPoolAssumption
<1>8. CASE Asks(c)
  <2>1. UNCHANGED <<workers, made>>
    BY <1>8 DEF Asks, UpBegin, UpLock, UpSize, DownBegin, DownLock, DownRefused
  <2>2. QED
    BY <1>1, <1>8, <2>1, AskPath
<1>9. QED
  BY <1>2, <1>3, <1>4, <1>6, <1>7, <1>8 DEF CallActs, CallBegin, CallStep, LockStep, Asks

\* Numbers are given out and never taken back.
LEMMA MadeGrows ==
  ASSUME TypeInv, NEW c \in Callers, CallActs(c)
  PROVE  made \in Nat /\ made' \in Nat /\ 1..made \subseteq 1..made'
<1>1. made \in Nat
  BY DEF TypeInv, IInv, CallsInv
<1>2. made' = made \/ UpGrow(c)
  BY DEF CallActs, CallBegin, CallStep, LockStep, StartCas, StartContext, StartCancel,
     StartLock, StartSpawn, StartReturn,
     SpawnNext, Stop, CloseStop, StopCas, StopLoad, StopCancel, StopLaunch, StopWait,
     StopGivesUp,
     CloseEnter, CloseOnce, CloseState, CloseChannel, CloseClean, UpBegin, UpLock, UpSize,
     DownBegin, DownLock, DownRefused, UpCheck, UpSpawn, UpReturn,
     DownShrink
<1>3. CASE UpGrow(c)
  BY <1>3, Growth
<1>4. QED
  BY <1>1, <1>2, <1>3

LEMMA CallIds ==
  ASSUME TypeInv, NEW c \in Callers, CallActs(c)
  PROVE  IdsInv'
<1> USE DEF TypeInv
<1>1. made \in Nat /\ made' \in Nat /\ 1..made \subseteq 1..made'
  BY MadeGrows
<1>2. Path(c)
  BY StartPath, StopPath, UpPath, AskPath, ShrinkPath
     DEF CallActs, CallBegin, CallStep, LockStep, Asks
<1>3. \A d \in Callers :
        /\ call'[d].todo \subseteq 1..made'
        /\ call'[d].pc \in {"start_ctx", "start_cancel", "up_check", "up_spawn"} => call'[d].id \in Gens
  BY <1>1, <1>2 DEF Path, IdsInv
<1>4. starts' \in 0..MaxStarts
  <2>1. starts' = starts \/ (starts < MaxStarts /\ starts' = starts + 1)
    BY DEF CallActs, CallBegin, CallStep, LockStep, StartCas, StartContext, StartCancel,
       StartLock, StartSpawn, StartReturn,
       SpawnNext, Stop, CloseStop, StopCas, StopLoad, StopCancel, StopLaunch, StopWait,
       StopGivesUp,
       CloseEnter, CloseOnce, CloseState, CloseChannel, CloseClean, UpBegin, UpLock,
       UpSize, DownBegin, DownLock, DownRefused, UpGrow, UpCheck, UpSpawn,
       UpReturn, DownShrink
  <2>2. QED
    BY <2>1, WorkerAssumption DEF IdsInv
<1>5. stops' \in 0..MaxStops
  <2>1. stops' = stops \/ (stops < MaxStops /\ stops' = stops + 1)
    BY DEF CallActs, CallBegin, CallStep, LockStep, StartCas, StartContext, StartCancel,
       StartLock, StartSpawn, StartReturn,
       SpawnNext, Stop, CloseStop, StopCas, StopLoad, StopCancel, StopLaunch, StopWait,
       StopGivesUp,
       CloseEnter, CloseOnce, CloseState, CloseChannel, CloseClean, UpBegin, UpLock,
       UpSize, DownBegin, DownLock, DownRefused, UpGrow, UpCheck, UpSpawn,
       UpReturn, DownShrink, Launch
  <2>2. QED
    BY <2>1, WorkerAssumption DEF IdsInv
<1>6. once' \in {"no", "running", "done"}
  <2>1. CASE CloseOnce(c)
    BY <2>1 DEF CloseOnce, IdsInv
  <2>2. CASE StopLoad(c) \/ StopWait(c) \/ StopGivesUp(c)
    BY <2>2, Resulted DEF StopLoad, StopWait, StopGivesUp, IdsInv
  <2>3. CASE CloseEnter(c) \/ CloseClean(c)
    BY <2>3 DEF CloseEnter, CloseClean, IdsInv
  <2>4. CASE ~(\/ CloseOnce(c) \/ StopLoad(c) \/ StopWait(c) \/ StopGivesUp(c)
               \/ CloseEnter(c) \/ CloseClean(c))
    <3>1. once' = once
      BY <2>4 DEF CallActs, CallBegin, CallStep, LockStep, StartCas, StartContext,
         StartCancel, StartLock, StartSpawn,
         StartReturn, SpawnNext, Stop, CloseStop, StopCas, StopLoad, StopCancel,
         StopLaunch, CloseState,
         CloseChannel, UpBegin, UpLock, UpSize, DownBegin, DownLock, DownRefused, UpGrow,
         UpCheck, UpSpawn, UpReturn, DownShrink
    <3>2. QED
      BY <3>1 DEF IdsInv
  <2>5. QED
    BY <2>1, <2>2, <2>3, <2>4
<1>7. QED
  BY <1>3, <1>4, <1>5, <1>6 DEF IdsInv

\* A call launches goroutines, rounds of Worker.Stop, and changes the pool's state.
LEMMA CallTasks ==
  ASSUME TypeInv, NEW c \in Callers, CallActs(c)
  PROVE  WorkerTypeOK' /\ SubmissionTypeOK'
<1> USE DEF TypeInv
<1>1. CASE StartSpawn(c) \/ UpSpawn(c)
  <2>1. PICK g \in Gens \cup {0} : SpawnNext(c, g)
    BY <1>1 DEF StartSpawn, UpSpawn, SubmissionTypeOK, IdsInv
  <2>2. PICK w \in call[c].todo : Spawn(w, g)
    BY <2>1 DEF SpawnNext
  <2>3. w \in Workers
    BY DEF IdsInv, RoomInv
  <2>4. /\ UNCHANGED <<chanVars, cancelled, wstate, quit, done, processed, failed,
                       executed, stopper, panic>>
        /\ UNCHANGED <<poolVars, submitVars>>
    BY <2>1 DEF SpawnNext
  <2>5. QED
    BY <2>2, <2>3, <2>4, SpawnType, SubmissionKept
<1>2. CASE StopCancel(c)
  <2>1. cancelled' \in SUBSET Gens
    BY <1>2 DEF StopLoad, StopCancel, WorkerTypeOK, SubmissionTypeOK
  <2>2. QED
    BY <1>2, <2>1, CancelType, SubmissionKept DEF StopCancel
<1>3. CASE StopLaunch(c) \/ DownShrink(c)
  <2>1. PICK ws : Launch(ws)
    BY <1>3 DEF StopLaunch, DownShrink
  <2>2. stopper' \in [Stops -> [Workers -> StopPC]]
    BY <2>1 DEF Launch, WorkerTypeOK, StopPC
  <2>3. UNCHANGED <<chanVars, cancelled, workerVars, panic, poolVars, submitVars>>
    BY <1>3 DEF StopLaunch, DownShrink
  <2>4. QED
    BY <2>2, <2>3, SubmissionKept DEF WorkerTypeOK, chanVars, workerVars
<1>4. CASE CloseChannel(c)
  BY <1>4, SubmissionKept DEF CloseChannel, WorkerTypeOK, workerVars
<1>5. CASE \/ StartCas(c) \/ StartContext(c) \/ StartCancel(c) \/ Stop(c) \/ CloseStop(c)
           \/ CloseState(c) \/ CloseClean(c)
  <2>1. UNCHANGED <<chanVars, cancelled, workerVars, stopper, panic, submitVars>>
    BY <1>5 DEF StartCas, StartContext, StartCancel, Stop, CloseStop, StopCas, CloseState,
       CloseClean
  <2>2. state' \in 0..2
    <3>1. CASE Stop(c) \/ CloseStop(c)
      BY <3>1, Stopping DEF Stop, CloseStop, SubmissionTypeOK
    <3>2. CASE StartCas(c) \/ StartContext(c) \/ StartCancel(c) \/ CloseState(c) \/ CloseClean(c)
      BY <3>2 DEF StartCas, StartContext, StartCancel, CloseState, CloseClean,
         SubmissionTypeOK
    <3>3. QED
      BY <1>5, <3>1, <3>2
  <2>3. ctx' \in Gens \cup {0}
    BY <1>5 DEF StartCas, StartContext, StartCancel, Stop, CloseStop, StopCas, CloseState,
       CloseClean,
       SubmissionTypeOK, IdsInv
  <2>6. cancel' \in Gens \cup {0}
    BY <1>5 DEF StartCas, StartContext, StartCancel, Stop, CloseStop, StopCas, CloseState,
       CloseClean, SubmissionTypeOK, IdsInv
  <2>4. taskChan' \in BOOLEAN
    BY <1>5 DEF StartCas, StartContext, StartCancel, Stop, CloseStop, StopCas, CloseState,
       CloseClean,
       SubmissionTypeOK
  <2>5. QED
    BY <2>1, <2>2, <2>3, <2>4, <2>6, WorkerKept DEF SubmissionTypeOK, submitVars
<1>6. CASE \/ StartLock(c) \/ StartReturn(c) \/ StopLoad(c) \/ StopWait(c) \/ StopGivesUp(c)
           \/ CloseEnter(c) \/ CloseOnce(c) \/ UpGrow(c) \/ UpCheck(c) \/ UpReturn(c) \/ Asks(c)
  <2>1. /\ UNCHANGED <<chanVars, cancelled, workerVars, stopper, panic>>
        /\ UNCHANGED <<poolVars, submitVars>>
    BY <1>6 DEF StartLock, StartReturn, StopLoad, StopWait, StopGivesUp, CloseEnter,
       CloseOnce, UpGrow,
       UpCheck, UpReturn, Asks, UpBegin, UpLock, UpSize, DownBegin, DownLock, DownRefused
  <2>2. QED
    BY <2>1, WorkerKept, SubmissionKept
<1>7. QED
  BY <1>1, <1>2, <1>3, <1>4, <1>5, <1>6 DEF CallActs, CallBegin, CallStep, LockStep, Asks

LEMMA LifeQuiet ==
  ASSUME TypeInv, UNCHANGED lifeVars PROVE RoomInv' /\ IdsInv'
  BY DEF TypeInv, RoomInv, IdsInv, lifeVars

LEMMA TypeStep == TypeInv /\ [Next]_vars => TypeInv'
<1> SUFFICES ASSUME TypeInv, [Next]_vars PROVE TypeInv'
  OBVIOUS
<1>0. IInv'
  BY StepIInv DEF TypeInv
<1> SUFFICES RoomInv' /\ IdsInv' /\ WorkerTypeOK' /\ SubmissionTypeOK'
  BY <1>0 DEF TypeInv
<1>t. WorkerTypeOK /\ SubmissionTypeOK
  BY DEF TypeInv
<1>1. CASE UNCHANGED vars
  BY <1>1, <1>t, LifeQuiet, WorkerKept, SubmissionKept DEF vars
<1>2. ASSUME NEW c \in Callers, CallActs(c)
      PROVE  RoomInv' /\ IdsInv' /\ WorkerTypeOK' /\ SubmissionTypeOK'
  BY <1>0, <1>2, CallRoom, CallIds, CallTasks
<1>3. ASSUME NEW t \in Tasks, SubmitWithTimeout(t)
      PROVE  RoomInv' /\ IdsInv' /\ WorkerTypeOK' /\ SubmissionTypeOK'
  BY <1>3, <1>t, LifeQuiet, SubmitType DEF SubmitWithTimeout
<1>4. ASSUME NEW r \in Runs, WorkerStep(r)
      PROVE  RoomInv' /\ IdsInv' /\ WorkerTypeOK' /\ SubmissionTypeOK'
  BY <1>4, <1>t, LifeQuiet, RunType, SubmissionKept DEF WorkerStep
<1>5. ASSUME NEW k \in Stops, NEW w \in Workers, StopperStep(k, w)
      PROVE  RoomInv' /\ IdsInv' /\ WorkerTypeOK' /\ SubmissionTypeOK'
  BY <1>5, <1>t, LifeQuiet, StopperType, SubmissionKept DEF StopperStep
<1>6. ASSUME NEW g \in Gens, CancelParent(g)
      PROVE  RoomInv' /\ IdsInv' /\ WorkerTypeOK' /\ SubmissionTypeOK'
  <2>1. cancelled' \in SUBSET Gens
    BY <1>6, <1>t DEF CancelParent, WorkerTypeOK
  <2>2. QED
    BY <1>6, <1>t, <2>1, LifeQuiet, CancelType, SubmissionKept DEF CancelParent
<1>7. CASE Next
  <2>1. Step
    BY <1>7 DEF Next
  <2>2. QED
    BY <1>2, <1>3, <1>4, <1>5, <1>6, <2>1 DEF Step, CallActs
<1>8. QED
  BY <1>1, <1>7

LEMMA Typed == Spec => []TypeInv
  BY InitType, TypeStep, PTL DEF Spec

\* Every variable keeps its type, and p.workers holds no worker twice (all of
\* dynamic_pool.go and worker.go).
THEOREM Typing == Spec => []TypeOK
<1>1. TypeInv => TypeOK
  <2> SUFFICES ASSUME TypeInv PROVE TypeOK
    OBVIOUS
  <2> USE DEF TypeInv
  <2>1. workers \in Seq(1..made)
    <3>1. workers \in Seq(Nat) /\ \A i \in 1..Len(workers) : workers[i] \in 1..made
      BY DEF IInv, CallsInv, MembersInv
    <3>2. workers \in [1..Len(workers) -> 1..made] /\ Len(workers) \in Nat
      BY <3>1
    <3>3. QED
      BY <3>2, SeqDef
  <2>2. call \in [Callers -> CallType]
    <3>1. ASSUME NEW c \in Callers PROVE call[c] \in CallType
      <4>1. call[c] \in Frames /\ call[c].todo \subseteq Workers
        BY DEF IInv, CallsInv, IdsInv, RoomInv
      <4>2. QED
        BY <4>1 DEF Frames, CallType
    <3>2. QED
      BY <3>1 DEF IInv, CallsInv
  <2>3. Cardinality(Members) = Len(workers)
    BY MembersCounted DEF IInv
  <2>4. QED
    BY <2>1, <2>2, <2>3 DEF TypeOK, IInv, CallsInv, RoomInv, IdsInv
<1>2. QED
  BY Typed, <1>1, PTL

-----------------------------------------------------------------------------
LEMMA OnceInit == Init => OnceInv
<1> SUFFICES ASSUME Init PROVE OnceInv
  OBVIOUS
<1>1. /\ queue = <<>> /\ Len(queue) = 0
      /\ \A r \in Runs : run[r].task = NoTask /\ run[r].pc = "none"
      /\ \A t \in Tasks : executed[t] = 0 /\ sub[t] = "idle"
  BY DEF Init, WorkerInit, SubmissionInit, NoRun
<1>2. QED
  BY <1>1, WorkerAssumption DEF OnceInv, ExactlyOnce, HandsInv, Holds, Held, InQueue,
     Accepted

\* A call touches no task.
LEMMA CallHands ==
  ASSUME TypeInv, OnceInv, NEW c \in Callers, CallActs(c)
  PROVE  /\ UNCHANGED <<queue, executed, sub>>
         /\ \A r \in Runs : /\ run'[r].task = run[r].task
                            /\ run'[r].pc \in {"received", "executing"}
                                 <=> run[r].pc \in {"received", "executing"}
<1> USE DEF chanVars, workerVars, submitVars
<1>1. CASE StartSpawn(c) \/ UpSpawn(c)
  <2>1. PICK g : SpawnNext(c, g)
    BY <1>1 DEF StartSpawn, UpSpawn
  <2>2. PICK w \in call[c].todo : Spawn(w, g)
    BY <2>1 DEF SpawnNext
  <2>3. w \in Workers /\ WorkerTypeOK
    BY DEF TypeInv, IdsInv, RoomInv
  <2>4. UNCHANGED <<queue, executed, sub>>
    BY <2>1 DEF SpawnNext
  <2>5. QED
    BY <2>2, <2>3, <2>4, SpawnHands
<1>2. CASE ~(StartSpawn(c) \/ UpSpawn(c))
  <2>1. UNCHANGED <<queue, executed, sub, run>>
    BY <1>2 DEF CallActs, CallBegin, CallStep, LockStep, StartCas, StartContext,
       StartCancel, StartLock, StartReturn, Stop,
       CloseStop, StopCas, StopLoad, StopCancel, StopLaunch, StopWait, StopGivesUp,
       CloseEnter, CloseOnce,
       CloseState, CloseChannel, CloseClean, UpBegin, UpLock, UpSize, DownBegin, DownLock,
       DownRefused, UpGrow, UpCheck, UpReturn, DownShrink
  <2>2. QED
    BY <2>1
<1>3. QED
  BY <1>1, <1>2

\* Nor does a call of Worker.Stop, or a context that is cancelled.
LEMMA QuietHands ==
  ASSUME \/ \E k \in Stops, w \in Workers : StopperStep(k, w)
         \/ \E g \in Gens : CancelParent(g)
         \/ UNCHANGED vars
  PROVE  UNCHANGED <<queue, executed, sub, run>>
  BY DEF StopperStep, StopStep, StopCheckQuit, StopCloseQuit, StopWaitDone, StopTimeout,
     CancelParent, vars, chanVars, workerVars, submitVars

LEMMA OnceStep == TypeInv /\ OnceInv /\ [Next]_vars => OnceInv'
<1> SUFFICES ASSUME TypeInv, OnceInv, [Next]_vars PROVE OnceInv'
  OBVIOUS
<1>t. WorkerTypeOK /\ SubmissionTypeOK
  BY DEF TypeInv
<1>1. ASSUME NEW c \in Callers, CallActs(c) PROVE OnceInv'
  BY <1>1, CallHands, OnceKept DEF Accepted
<1>2. ASSUME NEW t \in Tasks, SubmitWithTimeout(t) PROVE OnceInv'
  BY <1>2, <1>t, OnceSubmit DEF SubmitWithTimeout
<1>3. ASSUME NEW r \in Runs, WorkerStep(r) PROVE OnceInv'
  BY <1>3, <1>t, OnceRun DEF WorkerStep, submitVars
<1>4. ASSUME UNCHANGED <<queue, executed, sub, run>> PROVE OnceInv'
  BY <1>4, OnceKept DEF Accepted
<1>5. QED
  BY <1>1, <1>2, <1>3, <1>4, QuietHands DEF Next, Step, CallActs

\* Scaling, restarts and stops lose no task and run none twice: an accepted task
\* is in the channel once, in the hands of one goroutine, which may be that of a
\* worker that has left the pool, or executed once (ScaleDown, Worker.Start).
THEOREM ExactlyOnceHolds == Spec => []ExactlyOnce
<1>1. OnceInv => ExactlyOnce
  BY DEF OnceInv
<1>2. QED
  BY InitType, TypeStep, OnceInit, OnceStep, <1>1, PTL DEF Spec

LEMMA LedgerInit == Init => Ledger!Init
<1> SUFFICES ASSUME Init PROVE Ledger!Init
  OBVIOUS
<1>1. \A t \in Tasks : sub[t] = "idle"
  BY DEF Init, SubmissionInit
<1>2. \A t \in Tasks : Told(t)
  BY InitType, OnceInit, StatusTold DEF TypeInv
<1>3. QED
  BY <1>1, <1>2 DEF Ledger!Init, Told

LEMMA LedgerStep ==
  ASSUME TypeInv, OnceInv, TypeInv', OnceInv', [Next]_vars
  PROVE  [Ledger!Next]_([t \in Tasks |-> Status(t)])
<1> SUFFICES Ledger!Next \/ \A u \in Tasks : Status(u)' = Status(u)
  OBVIOUS
<1> USE DEF TypeInv
<1>1. ASSUME NEW c \in Callers, CallActs(c)
      PROVE  \A u \in Tasks : Status(u)' = Status(u)
  BY <1>1, CallHands, LedgerIdle
<1>2. ASSUME NEW t \in Tasks, SubmitWithTimeout(t)
      PROVE  Ledger!Next \/ \A u \in Tasks : Status(u)' = Status(u)
  BY <1>2, SubmitLedger DEF SubmitWithTimeout
<1>3. ASSUME NEW r \in Runs, WorkerStep(r)
      PROVE  Ledger!Next \/ \A u \in Tasks : Status(u)' = Status(u)
  BY <1>3, RunLedger DEF WorkerStep, submitVars
<1>4. ASSUME UNCHANGED <<queue, executed, sub, run>>
      PROVE  \A u \in Tasks : Status(u)' = Status(u)
  BY <1>4, LedgerIdle
<1>5. QED
  BY <1>1, <1>2, <1>3, <1>4, QuietHands DEF Next, Step, CallActs

\* A pool that scales is still a ledger of its submissions: a task is accepted
\* into a place the channel has, taken by a goroutine with empty hands, completed
\* by it once, and never goes back (SubmitWithTimeout, ScaleUp, ScaleDown).
THEOREM PoolIsALedger == Spec => ImplementsLedger
<1>1. TypeInv /\ OnceInv /\ (TypeInv /\ OnceInv)' /\ [Next]_vars
        => [Ledger!Next]_([t \in Tasks |-> Status(t)])
  BY LedgerStep
<1>2. QED
  BY InitType, TypeStep, OnceInit, OnceStep, LedgerInit, <1>1, PTL
     DEF Spec, ImplementsLedger, Ledger!Spec

-----------------------------------------------------------------------------
(***************************************************************************)
(* Workers that leave the pool.  The rounds of Worker.Stop calls are used  *)
(* one after the other, and ask only workers that were made.               *)
(***************************************************************************)
Asked(w) == \E k \in Stops : stopper[k][w] # "none"

RoundsInv ==
  /\ \A k \in Stops, w \in Workers : stopper[k][w] # "none" => k <= stops /\ w \in 1..made
  /\ \A w \in Workers : quit[w] => Asked(w)

GoneInv ==
  /\ RemovedAreTold
  /\ \A c \in Callers : call[c].pc = "close_clean" => ~chanOpen

ToldInv == RoundsInv /\ GoneInv

LEMMA InitTold == Init => ToldInv
<1> SUFFICES ASSUME Init PROVE ToldInv
  OBVIOUS
<1>1. \A k \in Stops, w \in Workers : stopper[k][w] = "none"
  BY DEF Init, WorkerInit
<1>2. \A w \in Workers : ~quit[w]
  BY DEF Init, WorkerInit
<1>3. 1..made \subseteq Members
  BY Sizes DEF Init, Members
<1>4. \A c \in Callers : call[c].pc = "idle"
  BY DEF Init, Idle
<1>5. RoundsInv
  BY <1>1, <1>2 DEF RoundsInv
<1>6. GoneInv
  BY <1>3, <1>4 DEF GoneInv, RemovedAreTold
<1>7. QED
  BY <1>5, <1>6 DEF ToldInv

\* A call of Worker.Stop asks no other worker.
LEMMA StopperAsks ==
  ASSUME TypeInv, NEW k \in Stops, NEW w \in Workers, StopStep(k, w)
  PROVE  /\ \A j \in Stops, v \in Workers : stopper'[j][v] # "none" <=> stopper[j][v] # "none"
         /\ \A v \in Workers : quit'[v] => quit[v] \/ v = w
         /\ stopper[k][w] # "none"
<1>1. PICK pc : /\ pc # "none" /\ stopper[k][w] # "none"
                /\ stopper' = [stopper EXCEPT ![k][w] = pc]
  <2>1. PICK pc \in {"nil", "close", "wait", "timeout"} :
          stopper' = [stopper EXCEPT ![k][w] = pc] /\ stopper[k][w] # "none"
    BY DEF StopStep, StopCheckQuit, StopCloseQuit, StopWaitDone, StopTimeout, StopPCSet
  <2>2. QED
    BY <2>1
<1>2. stopper \in [Stops -> [Workers -> StopPC]] /\ quit \in [Workers -> BOOLEAN]
  BY DEF TypeInv, WorkerTypeOK
<1>3. \A j \in Stops, v \in Workers :
        stopper'[j][v] = IF j = k /\ v = w THEN pc ELSE stopper[j][v]
  BY <1>1, <1>2
<1>4. \A v \in Workers : quit'[v] => quit[v] \/ v = w
  <2>1. quit' = quit \/ quit' = [quit EXCEPT ![w] = TRUE]
    BY DEF StopStep, StopCheckQuit, StopCloseQuit, StopWaitDone, StopTimeout, workerVars
  <2>2. QED
    BY <1>2, <2>1
<1>5. QED
  BY <1>1, <1>3, <1>4

\* A round asks the workers it is for, and those of the earlier rounds stay asked.
LEMMA LaunchAsks ==
  ASSUME TypeInv, RoundsInv, NEW ws, Launch(ws)
  PROVE  /\ stops + 1 \in Stops /\ stops' = stops + 1
         /\ \A k \in Stops, w \in Workers :
              stopper'[k][w] # "none" <=> stopper[k][w] # "none" \/ (k = stops + 1 /\ w \in ws)
<1>1. stops \in 0..MaxStops /\ stops < MaxStops /\ stops' = stops + 1
  BY DEF TypeInv, IdsInv, Launch
<1>2. stops + 1 \in Stops
  BY <1>1, WorkerAssumption
<1>3. stopper \in [Stops -> [Workers -> StopPC]]
  BY DEF TypeInv, WorkerTypeOK
<1>4. \A w \in Workers : stopper[stops + 1][w] = "none"
  BY <1>1, <1>2 DEF RoundsInv
<1>5. \A k \in Stops, w \in Workers :
        stopper'[k][w] = IF k = stops + 1 THEN IF w \in ws THEN "check" ELSE "none"
                         ELSE stopper[k][w]
  BY <1>2, <1>3 DEF Launch
<1>6. QED
  BY <1>1, <1>2, <1>4, <1>5

\* What a ScaleUp adds to the members, and what a ScaleDown takes away.
LEMMA GrownMembers ==
  ASSUME TypeInv, NEW c \in Callers, UpGrow(c)
  PROVE  Members' = Members \cup (made + 1)..made'
<1> DEFINE n == call[c].id - Len(workers)
           fresh == [i \in 1..n |-> made + i]
<1>1. n \in Nat /\ made \in Nat /\ made' = made + n
  BY Growth
<1>2. workers' = workers \o fresh
  BY DEF UpGrow
<1>3. workers \in Seq(Nat) /\ Len(workers) \in Nat
  BY DEF TypeInv, IInv, CallsInv
<1> HIDE DEF n
<1>4. /\ fresh \in Seq(Nat) /\ Len(fresh) = n
      /\ \A i \in 1..n : fresh[i] = made + i
  BY <1>1
<1> HIDE DEF fresh
<1>5. /\ Len(workers') = Len(workers) + n
      /\ \A i \in 1..(Len(workers) + n) :
           workers'[i] = IF i <= Len(workers) THEN workers[i] ELSE fresh[i - Len(workers)]
  BY <1>2, <1>3, <1>4, ConcatProperties
<1>6. ASSUME NEW w \in Members' PROVE w \in Members \cup (made + 1)..made'
  <2>1. PICK i \in 1..(Len(workers) + n) : w = workers'[i]
    BY <1>5, <1>6 DEF Members
  <2>2. CASE i <= Len(workers)
    <3>1. i \in 1..Len(workers) /\ w = workers[i]
      BY <1>3, <1>5, <2>1, <2>2
    <3>2. QED
      BY <3>1 DEF Members
  <2>3. CASE ~(i <= Len(workers))
    <3>1. i - Len(workers) \in 1..n
      BY <1>1, <1>3, <2>3
    <3>2. w = made + (i - Len(workers))
      BY <1>4, <1>5, <2>1, <2>3, <3>1
    <3>3. QED
      BY <1>1, <3>1, <3>2
  <2>4. QED
    BY <2>2, <2>3
<1>7. ASSUME NEW w \in Members PROVE w \in Members'
  <2>1. PICK i \in 1..Len(workers) : w = workers[i]
    BY <1>7 DEF Members
  <2>2. i \in 1..(Len(workers) + n) /\ workers'[i] = w
    BY <1>1, <1>3, <1>5, <2>1
  <2>3. QED
    BY <1>5, <2>2 DEF Members
<1>8. ASSUME NEW w \in (made + 1)..made' PROVE w \in Members'
  <2> DEFINE i == Len(workers) + (w - made)
  <2>1. i \in 1..(Len(workers) + n) /\ ~(i <= Len(workers)) /\ i - Len(workers) \in 1..n
    BY <1>1, <1>3
  <2>2. workers'[i] = made + (i - Len(workers))
    BY <1>4, <1>5, <2>1
  <2>3. workers'[i] = w
    BY <1>1, <1>3, <2>2
  <2> HIDE DEF i
  <2>4. QED
    BY <1>5, <2>1, <2>3 DEF Members
<1>9. QED
  BY <1>6, <1>7, <1>8

LEMMA CutMembers ==
  ASSUME TypeInv, NEW c \in Callers, DownShrink(c)
  PROVE  LET gone == {workers[i] : i \in (call[c].id + 1)..Len(workers)} IN
         /\ Launch(gone) /\ gone \subseteq 1..made
         /\ Members' = Members \ gone
<1> DEFINE n == call[c].id
           gone == {workers[i] : i \in (n + 1)..Len(workers)}
<1>1. n \in Nat /\ n < Len(workers) /\ Len(workers) \in Nat /\ workers' = SubSeq(workers, 1, n)
  BY DEF DownShrink, TypeInv, IInv, CallsInv, Frames
<1>2. Len(workers') = n /\ \A i \in 1..n : workers'[i] = workers[i]
  BY <1>1 DEF TypeInv, IInv, CallsInv
<1>3. /\ \A i \in 1..Len(workers) : workers[i] \in 1..made
      /\ \A i, j \in 1..Len(workers) : workers[i] = workers[j] => i = j
  BY DEF TypeInv, IInv, MembersInv
<1>4. /\ \A i \in 1..n : i \in 1..Len(workers) /\ i \notin (n + 1)..Len(workers)
      /\ \A i \in (n + 1)..Len(workers) : i \in 1..Len(workers)
      /\ \A i \in 1..Len(workers) : i \in 1..n \/ i \in (n + 1)..Len(workers)
  BY <1>1
<1>5. Launch(gone)
  BY DEF DownShrink
<1> HIDE DEF n
<1>6. gone \subseteq 1..made
  BY <1>3, <1>4
<1>7. Members' = Members \ gone
  <2>1. ASSUME NEW w \in Members' PROVE w \in Members /\ w \notin gone
    <3>1. PICK i \in 1..n : w = workers[i]
      BY <1>2, <2>1 DEF Members
    <3>2. QED
      BY <1>3, <1>4, <3>1 DEF Members
  <2>2. ASSUME NEW w \in Members, w \notin gone PROVE w \in Members'
    <3>1. PICK i \in 1..Len(workers) : w = workers[i]
      BY <2>2 DEF Members
    <3>2. i \in 1..n
      BY <1>4, <2>2, <3>1
    <3>3. QED
      BY <1>2, <3>1, <3>2 DEF Members
  <2>3. QED
    BY <2>1, <2>2
<1>8. QED
  BY <1>5, <1>6, <1>7 DEF n

\* The rounds of a call ask members, which were made.
LEMMA CallRounds ==
  ASSUME TypeInv, RoundsInv, NEW c \in Callers, CallActs(c)
  PROVE  /\ RoundsInv'
         /\ \A k \in Stops, w \in Workers : stopper[k][w] # "none" => stopper'[k][w] # "none"
<1>1. made \in Nat /\ made' \in Nat /\ 1..made \subseteq 1..made' /\ UNCHANGED quit
  BY MadeGrows DEF CallActs, CallBegin, CallStep, LockStep, StartCas, StartContext,
     StartCancel, StartLock, StartSpawn,
     StartReturn, SpawnNext, Stop, CloseStop, StopCas, StopLoad, StopCancel, StopLaunch,
     StopWait,
     StopGivesUp, CloseEnter, CloseOnce, CloseState, CloseChannel, CloseClean, UpBegin,
     UpLock, UpSize, DownBegin, DownLock, DownRefused, UpGrow, UpCheck,
     UpSpawn, UpReturn, DownShrink, workerVars
<1>2. ASSUME NEW ws \in SUBSET (1..made), Launch(ws) PROVE RoundsInv' /\
        \A k \in Stops, w \in Workers : stopper[k][w] # "none" => stopper'[k][w] # "none"
  <2>1. /\ stops + 1 \in Stops /\ stops' = stops + 1
        /\ \A k \in Stops, w \in Workers :
             stopper'[k][w] # "none" <=> stopper[k][w] # "none" \/ (k = stops + 1 /\ w \in ws)
    BY <1>2, LaunchAsks
  <2>2. stops \in Nat
    BY DEF TypeInv, IInv, CallsInv
  <2>3. \A k \in Stops, w \in Workers :
          stopper'[k][w] # "none" => k <= stops' /\ w \in 1..made'
    <3> SUFFICES ASSUME NEW k \in Stops, NEW w \in Workers, stopper'[k][w] # "none"
                 PROVE  k <= stops' /\ w \in 1..made'
      OBVIOUS
    <3>1. k \in Nat
      BY WorkerAssumption
    <3>2. CASE stopper[k][w] # "none"
      <4>1. k <= stops /\ w \in 1..made
        BY <3>2 DEF RoundsInv
      <4>2. QED
        BY <1>1, <2>1, <2>2, <3>1, <4>1
    <3>3. CASE k = stops + 1 /\ w \in ws
      BY <1>1, <2>1, <2>2, <3>3
    <3>4. QED
      BY <2>1, <3>2, <3>3
  <2>4. \A w \in Workers : quit'[w] => Asked(w)'
    BY <1>1, <2>1 DEF RoundsInv, Asked
  <2>5. QED
    BY <2>1, <2>3, <2>4 DEF RoundsInv
<1>3. CASE StopLaunch(c)
  <2>1. Launch(Members) /\ Members \subseteq 1..made
    BY <1>3 DEF StopLaunch, TypeInv, IInv, MembersInv, Members
  <2>2. QED
    BY <1>2, <2>1
<1>4. ASSUME DownShrink(c) PROVE RoundsInv' /\
        \A k \in Stops, w \in Workers : stopper[k][w] # "none" => stopper'[k][w] # "none"
  <2>1. PICK ws : Launch(ws) /\ ws \subseteq 1..made
    BY <1>4, CutMembers
  <2>2. QED
    BY <1>2, <2>1
<1>5. CASE ~(StopLaunch(c) \/ DownShrink(c))
  <2>1. UNCHANGED <<stopper, stops>>
    BY <1>5 DEF CallActs, CallBegin, CallStep, LockStep, StartCas, StartContext,
       StartCancel, StartLock, StartSpawn,
       StartReturn, SpawnNext, Stop, CloseStop, StopCas, StopLoad, StopCancel, StopWait,
       StopGivesUp,
       CloseEnter, CloseOnce, CloseState, CloseChannel, CloseClean, UpBegin, UpLock,
       UpSize, DownBegin, DownLock, DownRefused, UpGrow, UpCheck, UpSpawn,
       UpReturn
  <2>2. QED
    BY <1>1, <2>1 DEF RoundsInv, Asked
<1>6. QED
  BY <1>3, <1>4, <1>5

\* Only ScaleDown and Close take members away.
LEMMA CallGone ==
  ASSUME TypeInv, ToldInv, NEW c \in Callers, CallActs(c)
  PROVE  GoneInv'
<1>1. \A k \in Stops, w \in Workers : stopper[k][w] # "none" => stopper'[k][w] # "none"
  BY CallRounds DEF ToldInv
<1>2. 1..made \subseteq Workers
  BY DEF TypeInv, RoomInv
<1>3. chanOpen' => chanOpen
  BY DEF CallActs, CallBegin, CallStep, LockStep, StartCas, StartContext, StartCancel,
     StartLock, StartSpawn,
     StartReturn, SpawnNext, Stop, CloseStop, StopCas, StopLoad, StopCancel, StopLaunch,
     StopWait,
     StopGivesUp, CloseEnter, CloseOnce, CloseState, CloseChannel, CloseClean, UpBegin,
     UpLock, UpSize, DownBegin, DownLock, DownRefused, UpGrow, UpCheck,
     UpSpawn, UpReturn, DownShrink, chanVars
<1>4. \A d \in Callers : call'[d].pc = "close_clean" => ~chanOpen'
  <2>1. \A d \in Callers : call[d].pc = "close_clean" => ~chanOpen
    BY DEF ToldInv, GoneInv
  <2>2. Path(c) /\ (call'[c].pc = "close_clean" => ~chanOpen')
    BY StartPath, StopPath, UpPath, AskPath, ShrinkPath
       DEF CallActs, CallBegin, CallStep, LockStep, Asks, Winds
  <2>3. QED
    BY <1>3, <2>1, <2>2 DEF Path
<1>5. RemovedAreTold'
  <2>1. \A w \in (1..made) \ Members : ~chanOpen \/ Asked(w)
    BY DEF ToldInv, GoneInv, RemovedAreTold, Asked
  <2>2. ASSUME NEW w \in (1..made) \ Members PROVE ~chanOpen' \/ Asked(w)'
    BY <1>1, <1>2, <1>3, <2>1, <2>2 DEF Asked
  <2>3. ASSUME DownShrink(c), NEW w \in (1..made') \ Members'
        PROVE  ~chanOpen' \/ Asked(w)'
    <3>1. PICK ws : Launch(ws) /\ ws \subseteq 1..made /\ Members' = Members \ ws
      BY <2>3, CutMembers
    <3>2. made' = made
      BY <2>3 DEF DownShrink
    <3>3. CASE w \in ws
      <4>1. stopper'[stops + 1][w] # "none" /\ stops + 1 \in Stops
        BY <1>2, <3>1, <3>3, LaunchAsks DEF ToldInv
      <4>2. QED
        BY <4>1 DEF Asked
    <3>4. CASE w \notin ws
      BY <2>2, <2>3, <3>1, <3>2, <3>4
    <3>5. QED
      BY <3>3, <3>4
  <2>4. CASE UpGrow(c)
    <3>1. Members' = Members \cup (made + 1)..made' /\ made \in Nat /\ made' \in Nat
      BY <2>4, GrownMembers, MadeGrows
    <3>2. (1..made') \ Members' \subseteq (1..made) \ Members
      BY <3>1
    <3>3. QED
      BY <2>2, <3>2 DEF RemovedAreTold, Asked
  <2>5. CASE CloseClean(c)
    <3>1. ~chanOpen'
      BY <2>5 DEF CloseClean, chanVars, ToldInv, GoneInv
    <3>2. QED
      BY <3>1 DEF RemovedAreTold
  <2>6. CASE ~(UpGrow(c) \/ CloseClean(c) \/ DownShrink(c))
    <3>1. UNCHANGED <<workers, made>>
      BY <2>6 DEF CallActs, CallBegin, CallStep, LockStep, StartCas, StartContext,
         StartCancel, StartLock, StartSpawn,
         StartReturn, SpawnNext, Stop, CloseStop, StopCas, StopLoad, StopCancel,
         StopLaunch, StopWait,
         StopGivesUp, CloseEnter, CloseOnce, CloseState, CloseChannel, UpBegin, UpLock,
         UpSize, DownBegin, DownLock, DownRefused, UpCheck, UpSpawn, UpReturn
    <3>2. (1..made') \ Members' = (1..made) \ Members
      BY <3>1 DEF Members
    <3>3. QED
      BY <2>2, <3>2 DEF RemovedAreTold, Asked
  <2>7. QED
    BY <2>3, <2>4, <2>5, <2>6 DEF RemovedAreTold, Asked
<1>6. QED
  BY <1>4, <1>5 DEF GoneInv

\* What leaves the members, the rounds and the channel alone, or only goes on
\* with a call of Worker.Stop.
LEMMA ToldKept ==
  ASSUME TypeInv, ToldInv, UNCHANGED <<chanOpen, lifeVars>>,
         \A k \in Stops, w \in Workers : stopper'[k][w] # "none" <=> stopper[k][w] # "none",
         \A w \in Workers : quit'[w] => quit[w] \/ Asked(w)
  PROVE  ToldInv'
<1>1. UNCHANGED <<workers, made, stops, call>>
  BY DEF lifeVars
<1>2. \A w \in Workers : Asked(w)' <=> Asked(w)
  BY DEF Asked
<1>3. 1..made \subseteq Workers
  BY DEF TypeInv, RoomInv
<1>4. RoundsInv'
  BY <1>1, <1>2 DEF ToldInv, RoundsInv
<1>5. RemovedAreTold'
  BY <1>1, <1>2, <1>3 DEF ToldInv, GoneInv, RemovedAreTold, Asked, Members
<1>6. QED
  BY <1>1, <1>4, <1>5 DEF ToldInv, GoneInv

LEMMA ToldStep == TypeInv /\ ToldInv /\ [Next]_vars => ToldInv'
<1> SUFFICES ASSUME TypeInv, ToldInv, [Next]_vars PROVE ToldInv'
  OBVIOUS
<1>1. ASSUME NEW c \in Callers, CallActs(c) PROVE ToldInv'
  BY <1>1, CallRounds, CallGone DEF ToldInv
<1>2. ASSUME UNCHANGED <<chanOpen, stopper, quit, lifeVars>> PROVE ToldInv'
  BY <1>2, ToldKept
<1>3. ASSUME NEW t \in Tasks, SubmitWithTimeout(t) PROVE UNCHANGED <<chanOpen, stopper, quit, lifeVars>>
  BY <1>3 DEF SubmitWithTimeout, SubmitCheck, SubmitStep, SubmitNow, SubmitArm, SubmitSend,
     SubmitTimeout, SubmitCancelled, chanVars, workerVars
<1>4. ASSUME NEW r \in Runs, WorkerStep(r) PROVE UNCHANGED <<chanOpen, stopper, quit, lifeVars>>
  BY <1>4 DEF WorkerStep, RunStep, ObserveStop, CloseDone, Receive, BeginTask, FinishTask,
     EndTask, chanVars
<1>5. ASSUME NEW k \in Stops, NEW w \in Workers, StopperStep(k, w) PROVE ToldInv'
  <2>1. StopStep(k, w) /\ UNCHANGED lifeVars
    BY <1>5 DEF StopperStep
  <2>2. UNCHANGED chanOpen
    BY <2>1 DEF StopStep, StopCheckQuit, StopCloseQuit, StopWaitDone, StopTimeout, chanVars
  <2>3. /\ \A j \in Stops, v \in Workers : stopper'[j][v] # "none" <=> stopper[j][v] # "none"
        /\ \A v \in Workers : quit'[v] => quit[v] \/ Asked(v)
    BY <2>1, StopperAsks DEF Asked
  <2>4. QED
    BY <2>1, <2>2, <2>3, ToldKept
<1>6. ASSUME NEW g \in Gens, CancelParent(g) PROVE UNCHANGED <<chanOpen, stopper, quit, lifeVars>>
  BY <1>6 DEF CancelParent, chanVars, workerVars
<1>7. CASE UNCHANGED vars
  BY <1>2, <1>7 DEF vars, chanVars, workerVars
<1>8. QED
  BY <1>1, <1>2, <1>3, <1>4, <1>5, <1>6, <1>7 DEF Next, Step, CallActs

\* A worker that is in the pool no more was told to stop, or the channel is
\* closed: no order of ScaleUp, ScaleDown, Start, Stop and Close leaves a worker
\* outside the pool that nobody will ever stop (ScaleDown, Close).
THEOREM RemovedAreAlwaysTold == Spec => []RemovedAreTold
<1>1. ToldInv => RemovedAreTold
  BY DEF ToldInv, GoneInv
<1>2. QED
  BY InitType, TypeStep, InitTold, ToldStep, <1>1, PTL DEF Spec

-----------------------------------------------------------------------------
(***************************************************************************)
(* A pool that was started once and never stopped.  Until its first stop   *)
(* every member has a goroutine that serves it, or some call is still on   *)
(* its way to start one: the Start, or the ScaleUp that made the member.   *)
(***************************************************************************)
Fresh == (starts = 0 /\ state = 0) \/ (starts = 1 /\ state = 1)

Starting == {"start_ctx", "start_cancel", "start_lock"}
Winding  == {"stop_cancel", "stop_launch", "stop_wait", "close_chan", "close_clean"}

Brings(c, w) ==
  \/ call[c].pc \in Starting
  \/ call[c].pc \in {"start_spawn", "up_check", "up_spawn"} /\ w \in call[c].todo
Pending(w) == \E c \in Callers : Brings(c, w)

Serves(r) == run[r].pc \in {"select", "received", "executing", "counted"}
Serving(w) == \E s \in 1..MaxRuns : Serves(<<w, s>>)

\* Nothing runs, has a context or is being started before the first Start.
BegunInv ==
  /\ state = 1 => starts >= 1
  /\ ctx # 0 => starts >= 1
  /\ \A c \in Callers :
       call[c].pc \in Starting \cup {"start_spawn", "up_check", "up_spawn"} => starts >= 1

\* Nobody stops or closes a fresh pool, nor asks one of its members to stop.
Undisturbed ==
  /\ chanOpen
  /\ \A c \in Callers : call[c].pc \notin Winding
  /\ \A w \in Members : ~Asked(w)

\* A ScaleUp that saw the pool stopped, or one that finds no context, is
\* overlapped by the Start that will start its workers.
Coming == starts = 1 =>
  /\ (\E c \in Callers : call[c].pc = "up_grow") => \E d \in Callers : call[d].pc \in Starting
  /\ ctx = 0 => \E d \in Callers : call[d].pc = "start_ctx"

Served == starts = 1 /\ cancelled = {} => \A w \in Members : Pending(w) \/ Serving(w)

FreshInv == BegunInv /\ (Fresh => Undisturbed /\ Coming /\ Served)

LEMMA InitFresh == Init => FreshInv
<1> SUFFICES ASSUME Init PROVE FreshInv
  OBVIOUS
<1>1. /\ state = 0 /\ starts = 0 /\ ctx = 0 /\ chanOpen
      /\ \A c \in Callers : call[c].pc = "idle"
  BY DEF Init, WorkerInit, SubmissionInit, Idle
<1>2. \A w \in Members : ~Asked(w)
  <2>1. Members \subseteq Workers
    BY InitType DEF TypeInv, RoomInv, IInv, MembersInv, Members
  <2>2. \A k \in Stops, w \in Workers : stopper[k][w] = "none"
    BY DEF Init, WorkerInit
  <2>3. QED
    BY <2>1, <2>2 DEF Asked
<1>3. QED
  BY <1>1, <1>2 DEF FreshInv, BegunInv, Starting, Undisturbed, Winding, Coming, Served

LEMMA StartsTyped ==
  ASSUME TypeInv PROVE starts \in Nat /\ state \in 0..2 /\ Members \subseteq Workers
                       /\ Members \subseteq 1..made /\ made \in Nat
  BY DEF TypeInv, IInv, CallsInv, RoomInv, MembersInv, Members

\* The state changes by a Start, by a Stop, or by a Close.
LEMMA CallState ==
  ASSUME TypeInv, NEW c \in Callers, CallActs(c)
  PROVE  \/ UNCHANGED <<state, starts>>
         \/ StartCas(c) /\ state = 0 /\ state' = 1 /\ starts' = starts + 1
         \/ state = 1 /\ state' = 0 /\ starts' = starts
         \/ state' = 2 /\ starts' = starts
<1>1. CASE Stop(c) \/ CloseStop(c)
  <2>1. starts' = starts
    BY <1>1 DEF Stop, CloseStop, StopCas
  <2>2. (state = 1 /\ state' = 0) \/ state' = state
    BY <1>1, Stopping DEF Stop, CloseStop, TypeInv
  <2>3. QED
    BY <2>1, <2>2
<1>2. CASE StartCas(c)
  BY <1>2 DEF StartCas
<1>3. CASE CloseState(c)
  BY <1>3 DEF CloseState
<1>4. CASE ~(Stop(c) \/ CloseStop(c) \/ StartCas(c) \/ CloseState(c))
  <2>1. UNCHANGED <<state, starts>>
    BY <1>4 DEF CallActs, CallBegin, CallStep, LockStep, StartContext, StartCancel,
       StartLock, StartSpawn,
       StartReturn, SpawnNext, StopLoad, StopCancel, StopLaunch, StopWait,
       StopGivesUp, CloseEnter, CloseOnce, CloseChannel, CloseClean, UpBegin, UpLock,
       UpSize, DownBegin, DownLock, DownRefused, UpGrow, UpCheck,
       UpSpawn, UpReturn, DownShrink, poolVars
  <2>2. QED
    BY <2>1
<1>5. QED
  BY <1>1, <1>2, <1>3, <1>4

LEMMA CallBegun ==
  ASSUME TypeInv, BegunInv, NEW c \in Callers, CallActs(c)
  PROVE  BegunInv'
<1> USE DEF BegunInv, Starting
<1>1. starts \in Nat /\ starts' \in Nat /\ (starts >= 1 => starts' >= 1)
  BY CallState, StartsTyped
<1>2. state' = 1 => starts' >= 1
  BY <1>1, CallState, StartsTyped
<1>3. ctx' # 0 => starts' >= 1
  <2>1. ctx' = ctx \/ call[c].pc = "start_ctx"
    BY DEF CallActs, CallBegin, CallStep, LockStep, StartCas, StartContext, StartCancel,
       StartLock, StartSpawn,
       StartReturn, SpawnNext, Stop, CloseStop, StopCas, StopLoad, StopCancel, StopLaunch,
       StopWait,
       StopGivesUp, CloseEnter, CloseOnce, CloseState, CloseChannel, CloseClean, UpBegin,
       UpLock, UpSize, DownBegin, DownLock, DownRefused, UpGrow, UpCheck,
       UpSpawn, UpReturn, DownShrink, poolVars
  <2>2. QED
    BY <1>1, <2>1
<1>4. \A d \in Callers :
        call'[d].pc \in Starting \cup {"start_spawn", "up_check", "up_spawn"} => starts' >= 1
  <2>1. CASE StartCas(c)
    <3>1. starts' >= 1
      BY <1>1, <2>1 DEF StartCas
    <3>2. QED
      BY <3>1
  <2>2. CASE \/ StartContext(c) \/ StartCancel(c) \/ StartLock(c) \/ StartSpawn(c)
             \/ UpCheck(c) \/ UpSpawn(c)
    <3>1. starts >= 1
      BY <2>2 DEF StartContext, StartCancel, StartLock, StartSpawn, UpCheck, UpSpawn
    <3>2. QED
      BY <1>1, <3>1
  <2>3. CASE StartReturn(c) \/ UpReturn(c)
    <3>1. starts >= 1
      BY <2>3 DEF StartReturn, UpReturn
    <3>2. QED
      BY <1>1, <3>1
  <2>4. CASE UpGrow(c)
    <3>1. CASE ctx # 0
      BY <1>1, <3>1
    <3>2. CASE ctx = 0
      <4>1. Return(c)
        BY <2>4, <3>2 DEF UpGrow
      <4>2. QED
        BY <1>1, <4>1, Returned DEF TypeInv
    <3>3. QED
      BY <3>1, <3>2
  <2>5. CASE \/ Stop(c) \/ StopLoad(c) \/ StopCancel(c) \/ StopLaunch(c) \/ StopWait(c)
             \/ StopGivesUp(c) \/ CloseEnter(c) \/ CloseOnce(c) \/ CloseStop(c) \/ CloseState(c) \/ CloseChannel(c) \/ CloseClean(c)
    BY <1>1, <2>5, StopPath DEF Path, Winds
  <2>6. CASE Asks(c)
    BY <1>1, <2>6, AskPath DEF Path
  <2>7. CASE DownShrink(c)
    BY <1>1, <2>7, ShrinkPath DEF Path
  <2>8. QED
    BY <2>1, <2>2, <2>3, <2>4, <2>5, <2>6, <2>7 DEF CallActs, CallBegin, CallStep,
       LockStep, Asks
<1>5. QED
  BY <1>2, <1>3, <1>4

\* A pool that is fresh was fresh, and only its first Start changed its state.
LEMMA CallFresh ==
  ASSUME TypeInv, BegunInv, NEW c \in Callers, CallActs(c), Fresh'
  PROVE  /\ Fresh
         /\ \/ UNCHANGED <<state, starts>>
            \/ StartCas(c) /\ state = 0 /\ state' = 1 /\ starts = 0 /\ starts' = 1
<1>1. starts \in Nat /\ (state = 1 => starts >= 1)
  BY StartsTyped DEF BegunInv
<1>2. CASE UNCHANGED <<state, starts>>
  BY <1>2 DEF Fresh
<1>3. CASE StartCas(c) /\ state = 0 /\ state' = 1 /\ starts' = starts + 1
  BY <1>1, <1>3 DEF Fresh
<1>4. ~(state = 1 /\ state' = 0 /\ starts' = starts) /\ state' # 2
  BY <1>1 DEF Fresh
<1>5. QED
  BY <1>2, <1>3, <1>4, CallState

\* Nobody disturbs a pool that stays fresh.
LEMMA CallUndisturbed ==
  ASSUME TypeInv, TypeInv', ToldInv, FreshInv, NEW c \in Callers,
         CallActs(c), Fresh'
  PROVE  Undisturbed'
<1>0. /\ Fresh /\ Undisturbed
      /\ ~(state = 1 /\ state' = 0) /\ state' # 2
  <2>1. Fresh
    BY CallFresh DEF FreshInv
  <2>2. state' # 2
    BY DEF Fresh
  <2>3. ~(state = 1 /\ state' = 0)
    BY CallFresh DEF FreshInv
  <2>4. QED
    BY <2>1, <2>2, <2>3 DEF FreshInv
<1>1. call[c].pc \notin Winding
  BY <1>0 DEF Undisturbed
<1>2. \A d \in Callers : call'[d].pc \notin Winding
  <2>1. Path(c) /\ (Winds(c) \/ call'[c].pc \notin Winding)
    BY StartPath, StopPath, UpPath, AskPath, ShrinkPath
       DEF CallActs, CallBegin, CallStep, LockStep, Asks, Winding
  <2>2. call'[c].pc \notin Winding
    BY <1>0, <1>1, <2>1 DEF Winds, Winding
  <2>3. QED
    BY <1>0, <2>1, <2>2 DEF Undisturbed, Path
<1>3. chanOpen'
  <2>1. CASE CloseChannel(c)
    BY <1>1, <2>1 DEF CloseChannel, Winding
  <2>2. CASE ~CloseChannel(c)
    <3>1. UNCHANGED chanOpen
      BY <2>2 DEF CallActs, CallBegin, CallStep, LockStep, StartCas, StartContext,
         StartCancel, StartLock, StartSpawn,
         StartReturn, SpawnNext, Stop, CloseStop, StopCas, StopLoad, StopCancel,
         StopLaunch, StopWait,
         StopGivesUp, CloseEnter, CloseOnce, CloseState, CloseClean, UpBegin, UpLock,
         UpSize, DownBegin, DownLock, DownRefused, UpGrow, UpCheck,
         UpSpawn, UpReturn, DownShrink, chanVars
    <3>2. QED
      BY <1>0, <3>1 DEF Undisturbed
  <2>3. QED
    BY <2>1, <2>2
<1>4. \A w \in Members' : ~Asked(w)'
  <2>1. \A w \in Members : ~Asked(w)
    BY <1>0 DEF Undisturbed
  <2>2. ASSUME DownShrink(c), NEW w \in Members' PROVE ~Asked(w)'
    <3>1. PICK ws : Launch(ws) /\ Members' = Members \ ws
      BY <2>2, CutMembers
    <3>2. w \in Members /\ w \notin ws /\ w \in Workers
      BY <2>2, <3>1, StartsTyped
    <3>3. QED
      BY <2>1, <3>1, <3>2, LaunchAsks DEF ToldInv, Asked
  <2>3. CASE UpGrow(c)
    <3>1. Members' = Members \cup (made + 1)..made' /\ made \in Nat /\ made' \in Nat
      BY <2>3, GrownMembers, MadeGrows
    <3>2. UNCHANGED stopper
      BY <2>3 DEF UpGrow
    <3>3. ASSUME NEW w \in (made + 1)..made' PROVE ~Asked(w)'
      <4>1. w \in Workers
        <5>1. w \in 1..made'
          BY <3>1
        <5>2. QED
          BY <5>1 DEF TypeInv, RoomInv
      <4>2. w \notin 1..made
        BY <3>1
      <4>3. QED
        BY <3>2, <4>1, <4>2 DEF ToldInv, RoundsInv, Asked
    <3>4. \A w \in Members : ~Asked(w)'
      BY <2>1, <3>2 DEF Asked
    <3>5. QED
      BY <3>1, <3>3, <3>4
  <2>4. CASE StopLaunch(c) \/ CloseClean(c)
    BY <1>1, <2>4 DEF StopLaunch, CloseClean, Winding
  <2>5. CASE ~(UpGrow(c) \/ StopLaunch(c) \/ CloseClean(c) \/ DownShrink(c))
    <3>1. UNCHANGED <<workers, stopper>>
      BY <2>5 DEF CallActs, CallBegin, CallStep, LockStep, StartCas, StartContext,
         StartCancel, StartLock, StartSpawn,
         StartReturn, SpawnNext, Stop, CloseStop, StopCas, StopLoad, StopCancel, StopWait,
         StopGivesUp, CloseEnter, CloseOnce, CloseState, CloseChannel, UpBegin, UpLock,
         UpSize, DownBegin, DownLock, DownRefused, UpCheck, UpSpawn, UpReturn
    <3>2. QED
      BY <2>1, <3>1 DEF Asked, Members
  <2>6. QED
    BY <2>2, <2>3, <2>4, <2>5
<1>5. QED
  BY <1>2, <1>3, <1>4 DEF Undisturbed

\* The call that moves is no witness that another call moves with it.
LEMMA CallComing ==
  ASSUME TypeInv, TypeInv', FreshInv, NEW c \in Callers,
         CallActs(c), Fresh'
  PROVE  Coming'
<1> SUFFICES ASSUME starts' = 1 PROVE
      /\ (\E d \in Callers : call'[d].pc = "up_grow") => \E d \in Callers : call'[d].pc \in Starting
      /\ ctx' = 0 => \E d \in Callers : call'[d].pc = "start_ctx"
  BY DEF Coming
<1>1. CASE StartCas(c)
  <2>1. Enter(c, "start", "start_ctx", starts + 1, {})
    BY <1>1 DEF StartCas
  <2>2. call'[c].pc = "start_ctx"
    BY <2>1, Entered DEF TypeInv
  <2>3. QED
    BY <2>2 DEF Starting
<1>2. CASE ~StartCas(c)
  <2>1. /\ starts = 1 /\ state = 1
        /\ (\E d \in Callers : call[d].pc = "up_grow") => \E d \in Callers : call[d].pc \in Starting
        /\ ctx = 0 => \E d \in Callers : call[d].pc = "start_ctx"
    <3>1. Fresh /\ UNCHANGED <<state, starts>>
      BY <1>2, CallFresh DEF FreshInv
    <3>2. QED
      BY <3>1 DEF FreshInv, Coming, Fresh
  <2>2. CASE StartContext(c)
    <3>1. call'[c].pc = "start_cancel"
      BY <2>2, Went DEF StartContext, StartCancel, TypeInv
    <3>2. ctx' # 0
      <4>1. ctx' \in Gens
        BY <2>2 DEF StartContext, StartCancel, TypeInv, IdsInv
      <4>2. QED
        BY <4>1
    <3>3. QED
      BY <3>1, <3>2 DEF Starting
  <2>6. CASE StartCancel(c)
    <3>1. call'[c].pc = "start_lock" /\ call[c].pc = "start_cancel" /\ UNCHANGED ctx
      BY <2>6, Went DEF StartCancel, TypeInv
    <3>2. Path(c)
      BY <2>6, StartPath
    <3>3. QED
      BY <2>1, <3>1, <3>2 DEF Starting, Path
  <2>3. CASE StartLock(c)
    <3>1. /\ \A d \in Callers : call[d].pc # "up_grow"
          /\ call[c].pc = "start_lock" /\ UNCHANGED ctx
      BY <2>3, NoneGrows DEF StartLock, poolVars, Growing, Sized, TypeInv
    <3>2. Path(c) /\ call'[c].pc # "up_grow"
      BY <2>3, StartPath
    <3>3. QED
      BY <2>1, <3>1, <3>2 DEF Path
  <2>4. CASE ~(StartContext(c) \/ StartCancel(c) \/ StartLock(c))
    <3>1. UNCHANGED ctx
      BY <1>2, <2>4 DEF CallActs, CallBegin, CallStep, LockStep, StartSpawn,
         StartReturn, SpawnNext, Stop, CloseStop, StopCas, StopLoad, StopCancel,
         StopLaunch, StopWait,
         StopGivesUp, CloseEnter, CloseOnce, CloseState, CloseChannel, CloseClean, UpBegin,
         UpLock, UpSize, DownBegin, DownLock, DownRefused, UpGrow, UpCheck,
         UpSpawn, UpReturn, DownShrink, poolVars
    <3>2. call[c].pc \notin Starting
      BY <1>2, <2>4 DEF CallActs, CallBegin, CallStep, LockStep, StartSpawn, CloseEnter,
         CloseOnce,
         StartReturn, Stop, CloseStop, StopLoad, StopCancel, StopLaunch, StopWait,
         StopGivesUp, CloseState, CloseChannel, CloseClean, UpBegin, UpLock, UpSize,
         DownBegin, DownLock, DownRefused, UpGrow, UpCheck,
         UpSpawn, UpReturn, DownShrink, Starting
    <3>3. Path(c) /\ call'[c].pc # "up_grow"
      <4>1. CASE UpSize(c)
        <5>1. Goto(c, "up_ctx") \/ Return(c)
          BY <2>1, <4>1 DEF UpBegin, UpLock, UpSize, DownBegin, DownLock, DownRefused
        <5>2. QED
          BY <4>1, <5>1, Went, Returned, AskPath DEF TypeInv, Asks
      <4>2. CASE UpLock(c) \/ DownLock(c) \/ DownRefused(c)
        <5>1. Goto(c, "up_size") \/ Goto(c, "down_size") \/ Return(c)
          BY <4>2 DEF UpLock, DownLock, DownRefused
        <5>2. QED
          BY <4>2, <5>1, Went, Returned, AskPath DEF TypeInv, Asks
      <4>3. CASE \E n \in Targets : UpBegin(c, n) \/ DownBegin(c, n)
        <5>1. \E n : Enter(c, "up", "up_lock", n, {}) \/ Enter(c, "down", "down_lock", n, {})
          BY <4>3 DEF UpBegin, DownBegin
        <5>2. QED
          BY <4>3, <5>1, Entered, AskPath DEF TypeInv, Asks
      <4>4. CASE ~Asks(c)
        BY <4>4, StartPath, StopPath, UpPath, ShrinkPath
           DEF CallActs, CallBegin, CallStep, LockStep, Asks, Winds
      <4>5. QED
        BY <4>1, <4>2, <4>3, <4>4 DEF Asks
    <3>4. QED
      BY <2>1, <3>1, <3>2, <3>3 DEF Path, Starting
  <2>5. QED
    BY <2>2, <2>3, <2>4, <2>6
<1>3. QED
  BY <1>1, <1>2

\* A new goroutine serves, and takes the place of none.
LEMMA Spawned ==
  ASSUME TypeInv, NEW w \in Workers, NEW g, Spawn(w, g)
  PROVE  Serving(w)' /\ \A v \in Workers : Serving(v) => Serving(v)'
<1>1. PICK s \in 1..MaxRuns : run' = [run EXCEPT ![<<w, s>>] =
        [pc |-> "select", ctx |-> g, task |-> NoTask]]
  BY DEF Spawn
<1>2. \A r \in Runs : run'[r].pc = IF r = <<w, s>> THEN "select" ELSE run[r].pc
  BY <1>1 DEF TypeInv, WorkerTypeOK
<1>3. <<w, s>> \in Runs /\ \A v \in Workers, i \in 1..MaxRuns : <<v, i>> \in Runs
  BY DEF Runs
<1>4. \A r \in Runs : Serves(r) => Serves(r)'
  BY <1>2 DEF Serves
<1>5. Serves(<<w, s>>)'
  BY <1>2, <1>3 DEF Serves
<1>6. QED
  BY <1>3, <1>4, <1>5 DEF Serving

\* While c moves, the other calls stay as they are, and so do their promises.
LEMMA StillServed ==
  ASSUME NEW c \in Callers, NEW w, Path(c),
         Pending(w) \/ Serving(w), Serving(w) => Serving(w)', ~Brings(c, w)
  PROVE  Pending(w)' \/ Serving(w)'
<1>1. CASE Serving(w)
  BY <1>1
<1>2. CASE Pending(w)
  <2>1. PICK d \in Callers : Brings(d, w)
    BY <1>2 DEF Pending
  <2>2. call'[d] = call[d]
    BY <2>1 DEF Path
  <2>3. Brings(d, w)'
    BY <2>1, <2>2 DEF Brings
  <2>4. QED
    BY <2>3 DEF Pending
<1>3. QED
  BY <1>1, <1>2

\* A fresh pool stays served while the call c moves.
LEMMA CallServed ==
  ASSUME TypeInv, TypeInv', FreshInv, NEW c \in Callers,
         CallActs(c), Fresh'
  PROVE  Served'
<1> SUFFICES ASSUME starts' = 1, cancelled' = {}, NEW w \in Members'
             PROVE  Pending(w)' \/ Serving(w)'
  BY DEF Served
<1>w. w \in Workers
  BY DEF TypeInv, IInv, RoomInv, MembersInv, Members
<1>1. CASE StartCas(c)
  <2>1. Enter(c, "start", "start_ctx", starts + 1, {})
    BY <1>1 DEF StartCas
  <2>2. call'[c].pc = "start_ctx"
    BY <2>1, Entered DEF TypeInv
  <2>3. QED
    BY <2>2 DEF Starting, Pending, Brings
<1>2. CASE ~StartCas(c)
  <2>0. Fresh /\ UNCHANGED <<state, starts>> /\ starts = 1 /\ state = 1
    <3>1. Fresh /\ UNCHANGED <<state, starts>>
      BY <1>2, CallFresh DEF FreshInv
    <3>2. QED
      BY <3>1 DEF Fresh
  <2>c. cancelled = {}
    <3>1. cancelled \subseteq cancelled'
      BY DEF CallActs, CallBegin, CallStep, LockStep, StartCas, StartContext, StartCancel,
         StartLock, StartSpawn,
         StartReturn, SpawnNext, Stop, CloseStop, StopCas, StopLoad, StopCancel,
         StopLaunch, StopWait,
         StopGivesUp, CloseEnter, CloseOnce, CloseState, CloseChannel, CloseClean, UpBegin,
         UpLock, UpSize, DownBegin, DownLock, DownRefused, UpGrow, UpCheck,
         UpSpawn, UpReturn, DownShrink
    <3>2. QED
      BY <3>1
  <2>1. \A v \in Members : Pending(v) \/ Serving(v)
    BY <2>0, <2>c DEF FreshInv, Served
  <2>3. ASSUME UNCHANGED run PROVE \A v \in Workers : Serving(v) => Serving(v)'
    BY <2>3 DEF Serving, Serves
  <2>4. CASE StartContext(c)
    BY <2>4, Went DEF StartContext, StartCancel, TypeInv, Pending, Brings, Starting
  <2>13. CASE StartCancel(c)
    BY <2>13, Went DEF StartCancel, TypeInv, Pending, Brings, Starting
  <2>5. CASE StartLock(c)
    <3>1. call' = [call EXCEPT ![c].pc = "start_spawn", ![c].todo = Members]
          /\ UNCHANGED workers
      BY <2>5 DEF StartLock
    <3>2. call'[c].pc = "start_spawn" /\ call'[c].todo = Members
      BY <3>1 DEF TypeInv, IInv, CallsInv, Frames
    <3>3. Members' = Members
      BY <3>1 DEF Members
    <3>4. QED
      BY <3>2, <3>3 DEF Pending, Brings
  <2>6. CASE StartSpawn(c) \/ UpSpawn(c)
    <3>1. PICK g : SpawnNext(c, g) /\ call[c].pc \in {"start_spawn", "up_spawn"}
      BY <2>6 DEF StartSpawn, UpSpawn
    <3>2. PICK v \in call[c].todo :
            /\ Spawn(v, g) /\ UNCHANGED workers
            /\ call' = [call EXCEPT ![c].todo = call[c].todo \ {v}]
      BY <3>1 DEF SpawnNext
    <3>3. v \in Workers
      BY DEF TypeInv, IdsInv, RoomInv
    <3>4. Serving(v)' /\ \A u \in Workers : Serving(u) => Serving(u)'
      BY <3>2, <3>3, Spawned
    <3>5. /\ call'[c].pc = call[c].pc /\ call'[c].todo = call[c].todo \ {v}
          /\ \A d \in Callers \ {c} : call'[d] = call[d]
      BY <3>2, Took DEF TypeInv
    <3>6. w \in Members
      BY <3>2 DEF Members
    <3>7. CASE w \in call[c].todo \ {v}
      BY <3>1, <3>5, <3>7 DEF Pending, Brings
    <3>8. CASE w = v
      BY <3>4, <3>8
    <3>9. CASE w \notin call[c].todo
      <4>1. call[c].pc \notin Starting
        BY <3>1 DEF Brings, Starting
      <4>2. Path(c)
        BY <2>6, StartPath, UpPath
      <4>3. QED
        BY StillServed, <1>w, <2>1, <3>4, <3>6, <3>9, <4>1, <4>2 DEF Brings
    <3>10. QED
      BY <3>7, <3>8, <3>9
  <2>7. CASE StartReturn(c) \/ UpReturn(c)
    <3>1. call[c].pc \in {"start_spawn", "up_spawn"} /\ call[c].todo = {}
          /\ UNCHANGED <<workers, run>>
      BY <2>7 DEF StartReturn, UpReturn, workerVars
    <3>2. w \in Members
      BY <3>1 DEF Members
    <3>3. Path(c)
      BY <2>7, StartPath, UpPath
    <3>4. QED
      BY StillServed, <1>w, <2>1, <2>3, <3>1, <3>2, <3>3 DEF Brings, Starting
  <2>8. CASE UpCheck(c)
    <3>1. Goto(c, "up_spawn") /\ call[c].pc = "up_check" /\ UNCHANGED <<workers, run>>
      BY <2>0, <2>8 DEF UpCheck, workerVars
    <3>2. call'[c].pc = "up_spawn" /\ call'[c].todo = call[c].todo
      BY <3>1, Went DEF TypeInv
    <3>3. w \in Members
      BY <3>1 DEF Members
    <3>4. CASE w \in call[c].todo
      BY <3>2, <3>4 DEF Pending, Brings
    <3>5. CASE w \notin call[c].todo
      <4>1. Path(c)
        BY <2>8, UpPath
      <4>2. QED
        BY StillServed, <1>w, <2>1, <2>3, <3>1, <3>3, <3>5, <4>1 DEF Brings, Starting
    <3>6. QED
      BY <3>4, <3>5
  <2>9. CASE UpGrow(c)
    <3>1. /\ call[c].pc \in {"up_ctx", "up_grow"} /\ UNCHANGED run
          /\ Members' = Members \cup (made + 1)..made' /\ Path(c)
      BY <2>9, GrownMembers, UpPath DEF UpGrow, workerVars
    <3>2. CASE w \in Members
      BY StillServed, <1>w, <2>1, <2>3, <3>1, <3>2 DEF Brings, Starting
    <3>3. CASE \E d \in Callers : call[d].pc \in Starting
      <4>1. PICK d \in Callers : call[d].pc \in Starting
        BY <3>3
      <4>2. call'[d].pc \in Starting
        BY <3>1, <4>1 DEF Starting, Path
      <4>3. QED
        BY <4>2 DEF Pending, Brings
    <3>4. CASE call[c].pc = "up_ctx" /\ ctx # 0 /\ w \notin Members
      <4> DEFINE fresh == (made + 1)..(made + (call[c].id - Len(workers)))
      <4>1. Enter(c, "up", "up_check", ctx, fresh) /\ made' = made + (call[c].id - Len(workers))
        BY <2>9, <3>4 DEF UpGrow
      <4>2. w \in fresh
        BY <3>1, <3>4, <4>1
      <4> HIDE DEF fresh
      <4>3. call'[c].pc = "up_check" /\ call'[c].todo = fresh
        BY <4>1, Entered DEF TypeInv
      <4>4. QED
        BY <4>2, <4>3 DEF Pending, Brings
    <3>5. CASE ~(call[c].pc = "up_ctx" /\ ctx # 0)
      BY <2>0, <3>1, <3>3, <3>5 DEF FreshInv, Coming, Starting
    <3>6. QED
      BY <3>2, <3>4, <3>5
  <2>10. CASE DownShrink(c)
    <3>1. w \in Members /\ UNCHANGED run /\ call[c].pc = "down_size"
      BY <2>10, CutMembers DEF DownShrink, workerVars
    <3>2. Path(c)
      BY <2>10, ShrinkPath
    <3>3. QED
      BY StillServed, <1>w, <2>1, <2>3, <3>1, <3>2 DEF Brings, Starting
  <2>11. CASE \/ Stop(c) \/ StopLoad(c) \/ StopCancel(c) \/ StopLaunch(c) \/ StopWait(c)
              \/ StopGivesUp(c) \/ CloseEnter(c) \/ CloseOnce(c) \/ CloseStop(c)
              \/ CloseState(c) \/ CloseChannel(c) \/ CloseClean(c) \/ Asks(c)
    <3>1. /\ call[c].pc \notin Starting \cup {"start_spawn", "up_check", "up_spawn"}
          /\ UNCHANGED run
      BY <2>11 DEF Stop, CloseStop, StopCas, StopLoad, StopCancel, StopLaunch, StopWait,
         StopGivesUp,
         CloseEnter, CloseOnce, CloseState, CloseChannel, CloseClean, Asks, UpBegin,
         UpLock, UpSize, DownBegin, DownLock, DownRefused, workerVars, Starting
    <3>2. Path(c)
      BY <2>11, StopPath, AskPath
    <3>3. w \in Members
      <4>1. ~CloseClean(c)
        BY <2>0 DEF FreshInv, Undisturbed, Winding, CloseClean
      <4>2. UNCHANGED workers
        BY <2>11, <4>1 DEF Stop, CloseStop, StopCas, StopLoad, StopCancel, StopLaunch,
           StopWait,
           StopGivesUp, CloseEnter, CloseOnce, CloseState, CloseChannel, Asks, UpBegin,
           UpLock, UpSize, DownBegin, DownLock, DownRefused
      <4>3. QED
        BY <4>2 DEF Members
    <3>4. QED
      BY StillServed, <1>w, <2>1, <2>3, <3>1, <3>2, <3>3 DEF Brings
  <2>12. QED
    BY <1>2, <2>4, <2>5, <2>6, <2>7, <2>8, <2>9, <2>10, <2>11, <2>13 DEF CallActs,
       CallBegin, CallStep, LockStep, Asks
<1>3. QED
  BY <1>1, <1>2

\* A goroutine that serves a member goes on serving it while nothing stops it.
LEMMA RunServes ==
  ASSUME TypeInv, ToldInv, NEW r \in Runs, RunStep(r), cancelled = {}, chanOpen,
         NEW w \in Workers, ~Asked(w), Serving(w)
  PROVE  Serving(w)'
<1>1. PICK s \in 1..MaxRuns : Serves(<<w, s>>)
  BY DEF Serving
<1>2. <<w, s>> \in Runs
  BY DEF Runs
<1>3. run \in [Runs -> [pc : RunPC, ctx : Gens \cup {0}, task : Tasks \cup {NoTask}]]
  BY DEF TypeInv, WorkerTypeOK
<1>4. \A q \in Runs : q # r => run'[q] = run[q]
  BY <1>3 DEF RunStep, ObserveStop, CloseDone, Receive, BeginTask, FinishTask, EndTask
<1>5. CASE r = <<w, s>>
  <2>1. ~quit[w]
    BY DEF ToldInv, RoundsInv
  <2>2. ~ObserveStop(r)
    BY <1>5, <2>1 DEF ObserveStop, StopSeen
  <2>3. ~CloseDone(r)
    BY <1>1, <1>5 DEF CloseDone, Serves
  <2>4. run'[r].pc \in {"select", "received", "executing", "counted"}
    <3>1. PICK pc \in {"select", "received", "executing", "counted"} :
            \/ \E t : run' = [run EXCEPT ![r].pc = pc, ![r].task = t]
            \/ run' = [run EXCEPT ![r].pc = pc]
      BY <2>2, <2>3 DEF RunStep, Receive, BeginTask, FinishTask, EndTask
    <3>2. QED
      BY <1>3, <3>1
  <2>5. QED
    BY <1>5, <2>4 DEF Serving, Serves
<1>6. CASE r # <<w, s>>
  BY <1>1, <1>2, <1>4, <1>6 DEF Serving, Serves
<1>7. QED
  BY <1>5, <1>6

\* What leaves the calls, the members and the rounds alone, and the members served.
LEMMA FreshKept ==
  ASSUME TypeInv, FreshInv, UNCHANGED <<chanOpen, state, ctx, lifeVars>>,
         \A k \in Stops, w \in Workers : stopper'[k][w] # "none" <=> stopper[k][w] # "none",
         cancelled' = {} => cancelled = {},
         Fresh /\ cancelled' = {} => \A w \in Members : Serving(w) => Serving(w)'
  PROVE  FreshInv'
<1>1. UNCHANGED <<workers, starts, call>>
  BY DEF lifeVars
<1>2. Members' = Members /\ Members \subseteq Workers
  BY <1>1, StartsTyped DEF Members
<1>3. BegunInv' /\ (Fresh' <=> Fresh)
  BY <1>1 DEF FreshInv, BegunInv, Fresh
<1>4. \A w \in Members : Asked(w)' <=> Asked(w)
  BY <1>2 DEF Asked
<1>5. ASSUME Fresh PROVE Undisturbed' /\ Coming' /\ Served'
  <2>1. Undisturbed /\ Coming /\ Served
    BY <1>5 DEF FreshInv
  <2>2. Undisturbed'
    BY <1>1, <1>2, <1>4, <2>1 DEF Undisturbed
  <2>3. Coming'
    BY <1>1, <2>1 DEF Coming
  <2>4. Served'
    BY <1>1, <1>2, <1>5, <2>1 DEF Served, Pending, Brings
  <2>5. QED
    BY <2>2, <2>3, <2>4
<1>6. QED
  BY <1>3, <1>5 DEF FreshInv

LEMMA FreshStep == TypeInv /\ TypeInv' /\ ToldInv /\ FreshInv /\ [Next]_vars => FreshInv'
<1> SUFFICES ASSUME TypeInv, TypeInv', ToldInv, FreshInv, [Next]_vars PROVE FreshInv'
  OBVIOUS
<1>1. ASSUME NEW c \in Callers, CallActs(c) PROVE FreshInv'
  <2>1. BegunInv'
    BY <1>1, CallBegun DEF FreshInv
  <2>2. Fresh' => Undisturbed' /\ Coming' /\ Served'
    BY <1>1, CallUndisturbed, CallComing, CallServed
  <2>3. QED
    BY <2>1, <2>2 DEF FreshInv
<1>2. ASSUME UNCHANGED <<chanOpen, state, ctx, lifeVars, stopper, run>>, cancelled \subseteq cancelled'
      PROVE  FreshInv'
  <2>1. \A w : Serving(w) => Serving(w)'
    BY <1>2 DEF Serving, Serves
  <2>2. QED
    BY <1>2, <2>1, FreshKept
<1>3. ASSUME NEW t \in Tasks, SubmitWithTimeout(t) PROVE FreshInv'
  <2>1. UNCHANGED <<chanOpen, state, ctx, lifeVars, stopper, run, cancelled>>
    BY <1>3 DEF SubmitWithTimeout, SubmitCheck, SubmitStep, SubmitNow, SubmitArm,
       SubmitSend,
       SubmitTimeout, SubmitCancelled, chanVars, workerVars, poolVars
  <2>2. QED
    BY <1>2, <2>1
<1>4. ASSUME NEW r \in Runs, WorkerStep(r) PROVE FreshInv'
  <2>1. RunStep(r) /\ UNCHANGED <<chanOpen, state, ctx, lifeVars, stopper, cancelled>>
    BY <1>4 DEF WorkerStep, RunStep, ObserveStop, CloseDone, Receive, BeginTask, FinishTask,
       EndTask, chanVars, poolVars
  <2>2. ASSUME Fresh, cancelled = {}, NEW w \in Members, Serving(w) PROVE Serving(w)'
    <3>1. chanOpen /\ ~Asked(w) /\ w \in Workers
      BY <2>2, StartsTyped DEF FreshInv, Undisturbed
    <3>2. QED
      BY <2>1, <2>2, <3>1, RunServes
  <2>3. QED
    BY <2>1, <2>2, FreshKept
<1>5. ASSUME NEW k \in Stops, NEW w \in Workers, StopperStep(k, w) PROVE FreshInv'
  <2>1. StopStep(k, w) /\ UNCHANGED <<lifeVars, state, ctx>>
    BY <1>5 DEF StopperStep, poolVars
  <2>2. UNCHANGED <<chanOpen, run, cancelled>>
    BY <2>1 DEF StopStep, StopCheckQuit, StopCloseQuit, StopWaitDone, StopTimeout, chanVars,
       workerVars
  <2>3. \A j \in Stops, v \in Workers : stopper'[j][v] # "none" <=> stopper[j][v] # "none"
    BY <2>1, StopperAsks
  <2>4. \A v : Serving(v) => Serving(v)'
    BY <2>2 DEF Serving, Serves
  <2>5. QED
    BY <2>1, <2>2, <2>3, <2>4, FreshKept
<1>6. ASSUME NEW g \in Gens, CancelParent(g) PROVE FreshInv'
  <2>1. /\ UNCHANGED <<chanOpen, state, ctx, lifeVars, stopper, run>>
        /\ cancelled \subseteq cancelled'
    BY <1>6 DEF CancelParent, chanVars, workerVars, poolVars
  <2>2. QED
    BY <1>2, <2>1
<1>7. CASE UNCHANGED vars
  BY <1>2, <1>7 DEF vars, chanVars, workerVars, poolVars
<1>8. QED
  BY <1>1, <1>3, <1>4, <1>5, <1>6, <1>7 DEF Next, Step, CallActs

\* At rest, a pool that was started once, and whose context lives, is served by
\* a goroutine of every member, those of a ScaleUp that raced with the Start
\* included, and none of them was told to stop (ScaleUp, ScaleDown, Start).
THEOREM AddedAreAlwaysServing == Spec => []AddedAreServing
<1>1. TypeInv /\ ToldInv /\ FreshInv => AddedAreServing
  <2> SUFFICES ASSUME TypeInv, ToldInv, FreshInv, state = 1, starts = 1, cancelled = {},
                      AllIdle, NEW w \in Members
               PROVE  ~quit[w] /\ \E s \in 1..MaxRuns : Live(<<w, s>>)
    BY DEF AddedAreServing
  <2>1. Undisturbed /\ (Pending(w) \/ Serving(w)) /\ w \in Workers
    BY StartsTyped DEF FreshInv, Fresh, Served
  <2>2. ~Pending(w)
    BY DEF Pending, Brings, Starting, AllIdle
  <2>3. ~quit[w]
    BY <2>1 DEF Undisturbed, ToldInv, RoundsInv
  <2>4. \E s \in 1..MaxRuns : Live(<<w, s>>)
    BY <2>1, <2>2 DEF Serving, Serves, Live
  <2>5. QED
    BY <2>3, <2>4
<1>2. QED
  BY InitType, TypeStep, InitTold, ToldStep, InitFresh, FreshStep, <1>1, PTL DEF Spec
=============================================================================
