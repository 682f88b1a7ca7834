-------------------------- MODULE SubmissionProofs --------------------------
(***************************************************************************)
(* What the steps of submissions and workers keep, in any pool that is     *)
(* built on them: the types, the place of every task, and the ledger.      *)
(* FixedPoolProofs and DynamicPoolProofs add the steps of their pools.     *)
(***************************************************************************)
EXTENDS Submission, FiniteSetTheorems, TLAPS

USE DEF Gens, Stops

\* Updates of functions to numbers, sequences and records.
LEMMA CountUp ==
  ASSUME NEW S, NEW f \in [S -> Nat], NEW x
  PROVE  [f EXCEPT ![x] = f[x] + 1] \in [S -> Nat]
<1>1. CASE x \in S
  BY <1>1
<1>2. CASE x \notin S
  BY <1>2
<1>3. QED
  BY <1>1, <1>2

LEMMA AppendType ==
  ASSUME NEW S, NEW q \in Seq(S), NEW x \in S
  PROVE  Append(q, x) \in Seq(S)
  OBVIOUS

\* A part of the state that a step leaves alone keeps its type.
LEMMA WorkerKept ==
  ASSUME WorkerTypeOK, UNCHANGED <<chanVars, cancelled, workerVars, stopper, panic>>
  PROVE  WorkerTypeOK'
  BY DEF WorkerTypeOK, chanVars, workerVars

LEMMA SubmissionKept ==
  ASSUME SubmissionTypeOK, UNCHANGED <<poolVars, submitVars>>
  PROVE  SubmissionTypeOK'
  BY DEF SubmissionTypeOK, poolVars, submitVars

-----------------------------------------------------------------------------
LEMMA RunType ==
  ASSUME WorkerTypeOK, NEW r \in Runs, RunStep(r)
  PROVE  WorkerTypeOK'
<1> USE DEF WorkerTypeOK, chanVars, workerVars
<1>0. r[1] \in Workers
  BY DEF Runs
<1>p. \A pc \in RunPC : [run EXCEPT ![r].pc = pc] \in
        [Runs -> [pc : RunPC, ctx : Gens \cup {0}, task : Tasks \cup {NoTask}]]
  OBVIOUS
<1>1. CASE ObserveStop(r)
  <2>1. run' \in [Runs -> [pc : RunPC, ctx : Gens \cup {0}, task : Tasks \cup {NoTask}]]
    BY <1>1, <1>p DEF ObserveStop, RunPC
  <2>2. QED
    BY <1>0, <1>1, <2>1 DEF ObserveStop
<1>2. CASE CloseDone(r)
  <2>1. run' \in [Runs -> [pc : RunPC, ctx : Gens \cup {0}, task : Tasks \cup {NoTask}]]
    BY <1>2, <1>p DEF CloseDone, RunPC
  <2>2. done' \in [Workers -> BOOLEAN] /\ panic' \in Panics
    BY <1>0, <1>2 DEF CloseDone, Panics
  <2>3. QED
    BY <1>2, <2>1, <2>2 DEF CloseDone
<1>3. CASE Receive(r)
  <2>1. queue' \in Seq(Tasks) /\ Head(queue) \in Tasks
    BY <1>3 DEF Receive
  <2>2. run' \in [Runs -> [pc : RunPC, ctx : Gens \cup {0}, task : Tasks \cup {NoTask}]]
    BY <1>3, <2>1 DEF Receive, RunPC
  <2>3. QED
    BY <1>3, <2>1, <2>2 DEF Receive
<1>4. CASE BeginTask(r)
  <2>1. run' \in [Runs -> [pc : RunPC, ctx : Gens \cup {0}, task : Tasks \cup {NoTask}]]
    BY <1>4, <1>p DEF BeginTask, RunPC
  <2>2. QED
    BY <1>0, <1>4, <2>1 DEF BeginTask
<1>5. CASE FinishTask(r)
  <2>a. run' = [run EXCEPT ![r].pc = "counted", ![r].task = NoTask]
    BY <1>5 DEF FinishTask
  <2>b. \/ processed' = [processed EXCEPT ![r[1]] = @ + 1] /\ failed' = failed
        \/ failed' = [failed EXCEPT ![r[1]] = @ + 1] /\ processed' = processed
    BY <1>5 DEF FinishTask
  <2>c. executed' = [executed EXCEPT ![run[r].task] = @ + 1]
    BY <1>5 DEF FinishTask
  <2>1. run' \in [Runs -> [pc : RunPC, ctx : Gens \cup {0}, task : Tasks \cup {NoTask}]]
    BY <2>a DEF RunPC
  <2>2. processed' \in [Workers -> Nat] /\ failed' \in [Workers -> Nat]
    <3>1. processed \in [Workers -> Nat] /\ failed \in [Workers -> Nat]
      OBVIOUS
    <3> HIDE DEF WorkerTypeOK
    <3>2. QED
      BY <2>b, <3>1, CountUp
  <2>3. executed' \in [Tasks -> Nat]
    BY <2>c, CountUp
  <2>4. QED
    BY <1>5, <2>1, <2>2, <2>3 DEF FinishTask
<1>6. CASE EndTask(r)
  <2>1. run' \in [Runs -> [pc : RunPC, ctx : Gens \cup {0}, task : Tasks \cup {NoTask}]]
    BY <1>6, <1>p DEF EndTask, RunPC
  <2>2. QED
    BY <1>0, <1>6, <2>1 DEF EndTask
<1>7. QED
  BY <1>1, <1>2, <1>3, <1>4, <1>5, <1>6 DEF RunStep

LEMMA StopperType ==
  ASSUME WorkerTypeOK, NEW k \in Stops, NEW w \in Workers, StopStep(k, w)
  PROVE  WorkerTypeOK'
<1> USE DEF WorkerTypeOK, chanVars, workerVars, StopPCSet
<1>p. \A pc \in StopPC : [stopper EXCEPT ![k][w] = pc] \in [Stops -> [Workers -> StopPC]]
  OBVIOUS
<1>1. CASE StopCheckQuit(k, w)
  BY <1>1, <1>p DEF StopCheckQuit, StopPC
<1>2. CASE StopCloseQuit(k, w)
  <2>1. stopper' \in [Stops -> [Workers -> StopPC]]
    BY <1>2, <1>p DEF StopCloseQuit, StopPC
  <2>2. quit' \in [Workers -> BOOLEAN] /\ panic' \in Panics
    BY <1>2 DEF StopCloseQuit, Panics
  <2>3. QED
    BY <1>2, <2>1, <2>2 DEF StopCloseQuit
<1>3. CASE StopWaitDone(k, w)
  BY <1>3, <1>p DEF StopWaitDone, StopPC
<1>4. CASE StopTimeout(k, w)
  BY <1>4, <1>p DEF StopTimeout, StopPC
<1>5. QED
  BY <1>1, <1>2, <1>3, <1>4 DEF StopStep

LEMMA SubmitType ==
  ASSUME WorkerTypeOK, SubmissionTypeOK, NEW t \in Tasks,
         SubmitCheck(t) \/ SubmitStep(t)
  PROVE  WorkerTypeOK' /\ SubmissionTypeOK'
<1>1. SubmissionTypeOK'
  <2> USE DEF SubmissionTypeOK, poolVars, SubPC, Becomes
  <2>1. CASE SubmitCheck(t)
    BY <2>1 DEF SubmitCheck
  <2>2. CASE SubmitNow(t)
    BY <2>2 DEF SubmitNow, Send
  <2>3. CASE SubmitArm(t)
    <3>1. UNCHANGED poolVars /\ (UNCHANGED submitVars \/ sub' = [sub EXCEPT ![t] = "sending"])
      BY <2>3 DEF SubmitArm
    <3>2. armed' = armed \/ armed' = [armed EXCEPT ![t] = [ctx |-> ctx, chan |-> taskChan]]
      BY <2>3 DEF SubmitArm, submitVars
    <3>3. armed' \in [Tasks -> [ctx : Gens \cup {0}, chan : BOOLEAN]]
      BY <3>2
    <3>4. QED
      BY <3>1, <3>3 DEF submitVars
  <2>4. CASE SubmitSend(t)
    BY <2>4 DEF SubmitSend, Send
  <2>5. CASE SubmitTimeout(t) \/ SubmitCancelled(t)
    BY <2>5 DEF SubmitTimeout, SubmitCancelled
  <2>6. QED
    BY <2>1, <2>2, <2>3, <2>4, <2>5 DEF SubmitStep
<1>2. CASE SubmitCheck(t) \/ SubmitTimeout(t) \/ SubmitCancelled(t)
  <2>1. UNCHANGED <<chanVars, cancelled, workerVars, stopper, panic>>
    BY <1>2 DEF SubmitCheck, SubmitTimeout, SubmitCancelled
  <2>2. QED
    BY <1>1, <2>1, WorkerKept
<1>3. CASE SubmitNow(t) \/ SubmitArm(t) \/ SubmitSend(t)
  <2>1. queue' \in Seq(Tasks)
    <3>1. queue' = queue \/ queue' = Append(queue, t)
      BY <1>3 DEF SubmitNow, SubmitArm, SubmitSend, Send, chanVars
    <3>2. queue \in Seq(Tasks)
      BY DEF WorkerTypeOK
    <3>3. QED
      BY <3>1, <3>2, AppendType
  <2>2. panic' \in Panics
    BY <1>3 DEF WorkerTypeOK, SubmitNow, SubmitArm, SubmitSend, Panics
  <2>3. UNCHANGED <<chanOpen, cancelled, workerVars, stopper>>
    BY <1>3 DEF SubmitNow, SubmitArm, SubmitSend, chanVars
  <2>4. WorkerTypeOK'
    BY <2>1, <2>2, <2>3 DEF WorkerTypeOK, workerVars
  <2>5. QED
    BY <1>1, <2>4
<1>4. QED
  BY <1>2, <1>3 DEF SubmitStep

\* A goroutine that is started for a worker.
LEMMA SpawnType ==
  ASSUME WorkerTypeOK, NEW w \in Workers, NEW g \in Gens \cup {0}, Spawn(w, g),
         UNCHANGED <<chanVars, cancelled, wstate, quit, done, processed, failed,
                     executed, stopper, panic>>
  PROVE  WorkerTypeOK'
<1>1. run' \in [Runs -> [pc : RunPC, ctx : Gens \cup {0}, task : Tasks \cup {NoTask}]]
  BY DEF Spawn, WorkerTypeOK, RunPC, Runs
<1>2. QED
  BY <1>1 DEF WorkerTypeOK, chanVars

\* Contexts that are cancelled.
LEMMA CancelType ==
  ASSUME WorkerTypeOK, cancelled' \in SUBSET Gens,
         UNCHANGED <<chanVars, workerVars, stopper, panic>>
  PROVE  WorkerTypeOK'
  BY DEF WorkerTypeOK, chanVars, workerVars
-----------------------------------------------------------------------------
(***************************************************************************)
(* Exactly once.  ExactlyOnce alone is not inductive: when FinishTask adds *)
(* one to executed, the task in its hands must be a task.                  *)
(***************************************************************************)
HandsInv ==
  \A r \in Runs : run[r].task # NoTask <=> run[r].pc \in {"received", "executing"}

OnceInv == ExactlyOnce /\ HandsInv

\* InQueue as a predicate of the sequence.
Among(q, t) == \E i \in 1..Len(q) : q[i] = t
Distinct(q) == \A i, j \in 1..Len(q) : q[i] = q[j] => i = j

LEMMA AppendAmong ==
  ASSUME NEW S, NEW q \in Seq(S), NEW x \in S
  PROVE  /\ \A t : Among(Append(q, x), t) <=> Among(q, t) \/ t = x
         /\ Distinct(q) /\ ~Among(q, x) => Distinct(Append(q, x))
<1>1. /\ Len(q) \in Nat
      /\ Len(Append(q, x)) = Len(q) + 1
      /\ \A i \in 1..Len(q) : Append(q, x)[i] = q[i]
      /\ Append(q, x)[Len(q) + 1] = x
  OBVIOUS
<1>2. 1..Len(Append(q, x)) = 1..Len(q) \cup {Len(q) + 1}
  BY <1>1
<1>3. QED
  BY <1>1, <1>2 DEF Among, Distinct

LEMMA TailAmong ==
  ASSUME NEW S, NEW q \in Seq(S), q # <<>>, Distinct(q)
  PROVE  /\ Head(q) \in S
         /\ Among(q, Head(q))
         /\ \A t : Among(Tail(q), t) <=> Among(q, t) /\ t # Head(q)
         /\ Distinct(Tail(q))
<1>1. /\ Len(q) \in Nat \ {0}
      /\ Len(Tail(q)) = Len(q) - 1
      /\ \A i \in 1..(Len(q) - 1) : Tail(q)[i] = q[i + 1]
      /\ Head(q) = q[1]
      /\ q[1] \in S
  OBVIOUS
<1>2. \A i \in 1..Len(q) : i = 1 \/ (i - 1 \in 1..(Len(q) - 1) /\ q[i] = Tail(q)[i - 1])
  BY <1>1
<1>3. Distinct(Tail(q))
  BY <1>1 DEF Distinct
<1>4. Among(q, Head(q))
  BY <1>1 DEF Among
<1>5. ASSUME NEW t PROVE Among(Tail(q), t) <=> Among(q, t) /\ t # Head(q)
  <2>1. ASSUME Among(Tail(q), t) PROVE Among(q, t) /\ t # Head(q)
    <3>1. PICK i \in 1..(Len(q) - 1) : Tail(q)[i] = t
      BY <1>1, <2>1 DEF Among
    <3>2. i + 1 \in 1..Len(q) /\ q[i + 1] = t /\ i + 1 # 1 /\ 1 \in 1..Len(q)
      BY <1>1, <3>1
    <3>3. QED
      BY <1>1, <3>2 DEF Among, Distinct
  <2>2. ASSUME Among(q, t), t # Head(q) PROVE Among(Tail(q), t)
    <3>1. PICK i \in 1..Len(q) : q[i] = t
      BY <2>2 DEF Among
    <3>2. i - 1 \in 1..Len(Tail(q)) /\ Tail(q)[i - 1] = t
      BY <1>1, <1>2, <2>2, <3>1
    <3>3. QED
      BY <3>2 DEF Among
  <2>3. QED
    BY <2>1, <2>2
<1>6. QED
  BY <1>1, <1>3, <1>4, <1>5

\* A step that moves no task and answers no submission with "accepted".
LEMMA OnceKept ==
  ASSUME OnceInv, UNCHANGED <<queue, executed>>,
         \A t \in Tasks : Accepted(t)' <=> Accepted(t),
         \A r \in Runs : /\ run'[r].task = run[r].task
                         /\ run'[r].pc \in {"received", "executing"}
                              <=> run[r].pc \in {"received", "executing"}
  PROVE  OnceInv'
  BY DEF OnceInv, ExactlyOnce, HandsInv, InQueue, Held, Holds

\* Where the steps that move a task put it.
LEMMA SendPlaces ==
  ASSUME WorkerTypeOK, SubmissionTypeOK, OnceInv, NEW t \in Tasks, InFlight(t), Send(t), UNCHANGED <<run, executed>>
  PROVE  /\ ~Accepted(t) /\ ~InQueue(t) /\ ~Held(t) /\ executed[t] = 0
         /\ \A u \in Tasks : /\ Accepted(u)' <=> Accepted(u) \/ u = t
                             /\ InQueue(u)' <=> InQueue(u) \/ u = t
                             /\ Held(u)' <=> Held(u)
                             /\ executed'[u] = executed[u]
         /\ Distinct(queue')
<1>1. queue \in Seq(Tasks) /\ queue' = Append(queue, t) /\ Distinct(queue)
  BY DEF WorkerTypeOK, Send, OnceInv, ExactlyOnce, Distinct
<1>2. ~Accepted(t) /\ ~Among(queue, t) /\ ~Held(t) /\ executed[t] = 0
  BY DEF InFlight, Accepted, OnceInv, ExactlyOnce, InQueue, Among
<1>3. \A u \in Tasks : Accepted(u)' <=> Accepted(u) \/ u = t
  BY DEF Send, Becomes, Accepted, SubmissionTypeOK
<1>4. \A u \in Tasks : InQueue(u)' <=> InQueue(u) \/ u = t
  BY <1>1, AppendAmong DEF InQueue, Among
<1>5. Distinct(queue')
  BY <1>1, <1>2, AppendAmong
<1>6. \A u \in Tasks : (Held(u)' <=> Held(u)) /\ executed'[u] = executed[u]
  BY DEF Held, Holds
<1>7. QED
  BY <1>2, <1>3, <1>4, <1>5, <1>6 DEF InQueue, Among

LEMMA SendOnce ==
  ASSUME WorkerTypeOK, SubmissionTypeOK, OnceInv, NEW t \in Tasks, InFlight(t), Send(t), UNCHANGED <<run, executed>>
  PROVE  OnceInv'
  BY SendPlaces DEF OnceInv, ExactlyOnce, HandsInv, Holds, Distinct

LEMMA ReceivePlaces ==
  ASSUME WorkerTypeOK, SubmissionTypeOK, OnceInv, NEW r \in Runs, Receive(r), UNCHANGED sub
  PROVE  LET h == Head(queue) IN
         /\ h \in Tasks /\ h # NoTask
         /\ Accepted(h) /\ InQueue(h) /\ ~Held(h) /\ executed[h] = 0
         /\ \A u \in Tasks : /\ Accepted(u)' <=> Accepted(u)
                             /\ InQueue(u)' <=> InQueue(u) /\ u # h
                             /\ Held(u)' <=> Held(u) \/ u = h
                             /\ executed'[u] = executed[u]
         /\ Distinct(queue')
         /\ run[r].task = NoTask /\ run'[r].task = h /\ run'[r].pc = "received"
         /\ \A s \in Runs \ {r} : run'[s] = run[s]
<1> DEFINE h == Head(queue)
<1>1. queue \in Seq(Tasks) /\ queue # <<>> /\ queue' = Tail(queue) /\ Distinct(queue)
  BY DEF WorkerTypeOK, Receive, OnceInv, ExactlyOnce, Distinct
<1>2. /\ h \in Tasks /\ InQueue(h)
      /\ \A u \in Tasks : InQueue(u)' <=> InQueue(u) /\ u # h
      /\ Distinct(queue')
  <2>1. /\ h \in Tasks /\ Among(queue, h) /\ Distinct(queue')
        /\ \A u \in Tasks : Among(queue', u) <=> Among(queue, u) /\ u # h
    BY <1>1, TailAmong
  <2>2. QED
    BY <2>1 DEF InQueue, Among
<1>3. /\ run'[r].task = h /\ run'[r].pc = "received"
      /\ run[r].task = NoTask
      /\ \A s \in Runs \ {r} : run'[s] = run[s]
  BY DEF Receive, WorkerTypeOK, OnceInv, HandsInv
<1>4. h # NoTask /\ Accepted(h) /\ ~Held(h) /\ executed[h] = 0
  BY <1>2, WorkerAssumption DEF OnceInv, ExactlyOnce
<1>5. \A u \in Tasks : Held(u)' <=> Held(u) \/ u = h
  <2>1. ASSUME NEW u \in Tasks, Held(u)' PROVE Held(u) \/ u = h
    <3>1. PICK s \in Runs : run'[s].task = u
      BY <2>1 DEF Held, Holds
    <3>2. s # r => run[s].task = u
      BY <1>3, <3>1
    <3>3. QED
      BY <1>3, <3>1, <3>2 DEF Held, Holds
  <2>2. ASSUME NEW u \in Tasks, Held(u) PROVE Held(u)'
    <3>1. PICK s \in Runs : run[s].task = u
      BY <2>2 DEF Held, Holds
    <3>2. s # r
      BY <1>3, <3>1, WorkerAssumption
    <3>3. QED
      BY <1>3, <3>1, <3>2 DEF Held, Holds
  <2>3. ASSUME NEW u \in Tasks, u = h PROVE Held(u)'
    BY <1>3, <2>3 DEF Held, Holds
  <2>4. QED
    BY <2>1, <2>2, <2>3
<1>6. \A u \in Tasks : executed'[u] = executed[u] /\ (Accepted(u)' <=> Accepted(u))
  BY DEF Receive, Accepted
<1>7. QED
  BY <1>2, <1>3, <1>4, <1>5, <1>6

LEMMA ReceiveOnce ==
  ASSUME WorkerTypeOK, SubmissionTypeOK, OnceInv, NEW r \in Runs, Receive(r), UNCHANGED sub
  PROVE  OnceInv'
<1> DEFINE h == Head(queue)
<1>1. /\ h \in Tasks /\ h # NoTask /\ Accepted(h) /\ InQueue(h) /\ ~Held(h) /\ executed[h] = 0
      /\ \A u \in Tasks : /\ Accepted(u)' <=> Accepted(u)
                          /\ InQueue(u)' <=> InQueue(u) /\ u # h
                          /\ Held(u)' <=> Held(u) \/ u = h
                          /\ executed'[u] = executed[u]
      /\ Distinct(queue')
      /\ run[r].task = NoTask /\ run'[r].task = h /\ run'[r].pc = "received"
      /\ \A s \in Runs \ {r} : run'[s] = run[s]
  BY ReceivePlaces
<1> HIDE DEF h
<1>2. \A r1, r2 \in Runs, u \in Tasks : Holds(r1, u)' /\ Holds(r2, u)' => r1 = r2
  BY <1>1 DEF OnceInv, ExactlyOnce, Holds, Held
<1>3. HandsInv'
  BY <1>1 DEF OnceInv, HandsInv
<1>4. ExactlyOnce'
  BY <1>1, <1>2 DEF OnceInv, ExactlyOnce, Distinct
<1>5. QED
  BY <1>3, <1>4 DEF OnceInv

LEMMA FinishPlaces ==
  ASSUME WorkerTypeOK, SubmissionTypeOK, OnceInv, NEW r \in Runs, FinishTask(r), UNCHANGED sub
  PROVE  LET h == run[r].task IN
         /\ h \in Tasks /\ Accepted(h) /\ Held(h) /\ ~InQueue(h) /\ executed[h] = 0
         /\ \A u \in Tasks : /\ Accepted(u)' <=> Accepted(u)
                             /\ InQueue(u)' <=> InQueue(u)
                             /\ Held(u)' <=> Held(u) /\ u # h
                             /\ executed'[u] = IF u = h THEN 1 ELSE executed[u]
         /\ run'[r].task = NoTask /\ run'[r].pc = "counted"
         /\ \A s \in Runs \ {r} : run'[s] = run[s]
<1> DEFINE h == run[r].task
<1>1. h \in Tasks /\ Held(h) /\ h # NoTask
  <2>1. h # NoTask
    BY DEF FinishTask, OnceInv, HandsInv
  <2>2. h \in Tasks
    BY <2>1 DEF WorkerTypeOK
  <2>3. QED
    BY <2>1, <2>2 DEF Held, Holds
<1>2. ~InQueue(h) /\ executed[h] = 0 /\ Accepted(h)
  BY <1>1 DEF OnceInv, ExactlyOnce
<1>3. /\ run'[r].task = NoTask /\ run'[r].pc = "counted"
      /\ \A s \in Runs \ {r} : run'[s] = run[s]
  BY DEF FinishTask, WorkerTypeOK
<1>4. \A s \in Runs \ {r} : run[s].task # h
  BY <1>1 DEF OnceInv, ExactlyOnce, Holds
<1>5. \A u \in Tasks : Held(u)' <=> Held(u) /\ u # h
  <2>1. ASSUME NEW u \in Tasks, Held(u)' PROVE Held(u) /\ u # h
    <3>1. PICK s \in Runs : run'[s].task = u
      BY <2>1 DEF Held, Holds
    <3>2. s # r
      BY <1>3, <3>1, WorkerAssumption
    <3>3. QED
      BY <1>3, <1>4, <3>1, <3>2 DEF Held, Holds
  <2>2. ASSUME NEW u \in Tasks, Held(u), u # h PROVE Held(u)'
    <3>1. PICK s \in Runs : run[s].task = u
      BY <2>2 DEF Held, Holds
    <3>2. s # r
      BY <2>2, <3>1
    <3>3. QED
      BY <1>3, <3>1, <3>2 DEF Held, Holds
  <2>3. QED
    BY <2>1, <2>2
<1>6. executed'[h] = 1 /\ \A u \in Tasks \ {h} : executed'[u] = executed[u]
  BY <1>1, <1>2 DEF FinishTask, WorkerTypeOK
<1>7. \A u \in Tasks : (InQueue(u)' <=> InQueue(u)) /\ (Accepted(u)' <=> Accepted(u))
  BY DEF FinishTask, chanVars, InQueue, Accepted
<1>8. QED
  BY <1>1, <1>2, <1>3, <1>5, <1>6, <1>7

LEMMA FinishOnce ==
  ASSUME WorkerTypeOK, SubmissionTypeOK, OnceInv, NEW r \in Runs, FinishTask(r), UNCHANGED sub
  PROVE  OnceInv'
<1> DEFINE h == run[r].task
<1>1. /\ h \in Tasks /\ Accepted(h) /\ Held(h) /\ ~InQueue(h) /\ executed[h] = 0
      /\ \A u \in Tasks : /\ Accepted(u)' <=> Accepted(u)
                          /\ InQueue(u)' <=> InQueue(u)
                          /\ Held(u)' <=> Held(u) /\ u # h
                          /\ executed'[u] = IF u = h THEN 1 ELSE executed[u]
      /\ run'[r].task = NoTask /\ run'[r].pc = "counted"
      /\ \A s \in Runs \ {r} : run'[s] = run[s]
  BY FinishPlaces
<1> HIDE DEF h
<1>2. HandsInv'
  BY <1>1 DEF OnceInv, HandsInv
<1>3. \A r1, r2 \in Runs, u \in Tasks : Holds(r1, u)' /\ Holds(r2, u)' => r1 = r2
  BY <1>1, WorkerAssumption DEF OnceInv, ExactlyOnce, Holds
<1>4. \A i, j \in 1..Len(queue') : queue'[i] = queue'[j] => i = j
  BY DEF FinishTask, chanVars, OnceInv, ExactlyOnce
<1>5. ExactlyOnce'
  BY <1>1, <1>3, <1>4 DEF OnceInv, ExactlyOnce
<1>6. QED
  BY <1>2, <1>5 DEF OnceInv

\* A goroutine starts with empty hands, as it was before.
LEMMA SpawnHands ==
  ASSUME WorkerTypeOK, OnceInv, NEW w \in Workers, NEW g, Spawn(w, g)
  PROVE  \A r \in Runs : /\ run'[r].task = run[r].task
                         /\ run'[r].pc \in {"received", "executing"}
                              <=> run[r].pc \in {"received", "executing"}
<1>1. PICK s \in 1..MaxRuns :
         /\ run[<<w, s>>].pc = "none"
         /\ run' = [run EXCEPT ![<<w, s>>] = [pc |-> "select", ctx |-> g, task |-> NoTask]]
  BY DEF Spawn
<1>2. <<w, s>> \in Runs
  BY DEF Runs
<1>3. run[<<w, s>>].task = NoTask
  BY <1>1, <1>2 DEF OnceInv, HandsInv
<1>4. QED
  BY <1>1, <1>2, <1>3 DEF WorkerTypeOK

LEMMA OnceSpawn ==
  ASSUME WorkerTypeOK, OnceInv, NEW w \in Workers, NEW g, Spawn(w, g),
         UNCHANGED <<queue, executed, sub>>
  PROVE  OnceInv'
  BY SpawnHands, OnceKept DEF Accepted

\* Only a send moves a task, and only its own.
LEMMA OnceSubmit ==
  ASSUME WorkerTypeOK, SubmissionTypeOK, OnceInv, NEW t \in Tasks,
         SubmitCheck(t) \/ SubmitStep(t)
  PROVE  OnceInv'
<1> USE DEF chanVars, workerVars
<1>1. CASE Send(t)
  <2>1. InFlight(t) /\ UNCHANGED <<run, executed>>
    BY <1>1 DEF Send, SubmitCheck, SubmitStep, SubmitNow, SubmitArm,
       SubmitSend, SubmitTimeout, SubmitCancelled, InFlight, Becomes,
       SubmissionTypeOK
  <2>2. QED
    BY <1>1, <2>1, SendOnce
<1>2. CASE ~Send(t)
  <2>1. UNCHANGED <<queue, run, executed>>
    BY <1>2 DEF SubmitCheck, SubmitStep, SubmitNow, SubmitArm,
       SubmitSend, SubmitTimeout, SubmitCancelled
  <2>2. \/ UNCHANGED sub
        \/ /\ sub[t] # "accepted"
           /\ \E pc \in SubPC \ {"accepted"} : sub' = [sub EXCEPT ![t] = pc]
    BY <1>2 DEF SubmitCheck, SubmitStep, SubmitNow, SubmitArm,
       SubmitSend, SubmitTimeout, SubmitCancelled, Becomes, SubPC, submitVars
  <2>3. \A u \in Tasks : Accepted(u)' <=> Accepted(u)
    BY <2>2 DEF Accepted, SubmissionTypeOK
  <2>4. QED
    BY <2>1, <2>3, OnceKept
<1>3. QED
  BY <1>1, <1>2

\* A goroutine moves the task it receives, and the one it ends.
LEMMA OnceRun ==
  ASSUME WorkerTypeOK, SubmissionTypeOK, OnceInv, NEW r \in Runs, RunStep(r), UNCHANGED sub
  PROVE  OnceInv'
<1> USE DEF chanVars, workerVars
<1>1. CASE Receive(r)
  BY <1>1, ReceiveOnce
<1>2. CASE FinishTask(r)
  BY <1>2, FinishOnce
<1>3. CASE ObserveStop(r) \/ CloseDone(r) \/ BeginTask(r) \/ EndTask(r)
  <2>1. UNCHANGED <<queue, executed>>
    BY <1>3 DEF ObserveStop, CloseDone, BeginTask, EndTask
  <2>2. \A q \in Runs : /\ run'[q].task = run[q].task
                        /\ run'[q].pc \in {"received", "executing"}
                             <=> run[q].pc \in {"received", "executing"}
    <3>1. \/ /\ run[r].pc = "received"
             /\ run' = [run EXCEPT ![r].pc = "executing"]
          \/ /\ run[r].pc \notin {"received", "executing"}
             /\ \E pc \in {"select", "exiting", "exited"} : run' = [run EXCEPT ![r].pc = pc]
      BY <1>3 DEF ObserveStop, CloseDone, BeginTask, EndTask
    <3>2. PICK pc : /\ run' = [run EXCEPT ![r].pc = pc]
                    /\ pc \in {"received", "executing"}
                         <=> run[r].pc \in {"received", "executing"}
      BY <3>1
    <3>3. run \in [Runs -> [pc : RunPC, ctx : Gens \cup {0}, task : Tasks \cup {NoTask}]]
      BY DEF WorkerTypeOK
    <3>4. run'[r].task = run[r].task /\ run'[r].pc = pc
      BY <3>2, <3>3
    <3>5. \A q \in Runs \ {r} : run'[q] = run[q]
      BY <3>2, <3>3
    <3>6. QED
      BY <3>2, <3>4, <3>5
  <2>3. QED
    BY <2>1, <2>2, OnceKept DEF Accepted
<1>4. QED
  BY <1>1, <1>2, <1>3 DEF RunStep
-----------------------------------------------------------------------------
(***************************************************************************)
(* The pool implements the ledger.  Every step moves one task along the    *)
(* ledger or none, and the queue and the goroutines are never more than    *)
(* the ledger allows.                                                      *)
(***************************************************************************)
\* What the status of a task says of it; in the queue and in the hands, a task
\* is accepted.
Told(t) ==
  /\ Status(t) = "new" <=> sub[t] = "idle"
  /\ Status(t) = "calling" <=> InFlight(t)
  /\ Status(t) = "rejected" <=> sub[t] = "rejected"
  /\ Status(t) = "queued" <=> InQueue(t)
  /\ Status(t) = "held" <=> Held(t)
  /\ Status(t) = "done" <=> executed[t] = 1

LEMMA StatusTold ==
  ASSUME WorkerTypeOK, SubmissionTypeOK, OnceInv, NEW t \in Tasks
  PROVE  Told(t)
<1>1. /\ sub[t] \in SubPC
      /\ Accepted(t) <=> (InQueue(t) \/ Held(t) \/ executed[t] = 1)
      /\ ~(InQueue(t) /\ Held(t))
      /\ executed[t] = 1 => ~(InQueue(t) \/ Held(t))
  BY DEF SubmissionTypeOK, OnceInv, ExactlyOnce
<1>2. QED
  BY <1>1 DEF Told, Status, InFlight, Accepted, SubPC

LEMMA StatusToldNext ==
  ASSUME WorkerTypeOK', SubmissionTypeOK', OnceInv', NEW t \in Tasks
  PROVE  Told(t)'
<1>1. /\ sub'[t] \in SubPC
      /\ Accepted(t)' <=> (InQueue(t)' \/ Held(t)' \/ executed'[t] = 1)
      /\ ~(InQueue(t)' /\ Held(t)')
      /\ executed'[t] = 1 => ~(InQueue(t)' \/ Held(t)')
  BY DEF SubmissionTypeOK, OnceInv, ExactlyOnce
<1>2. QED
  BY <1>1 DEF Told, Status, InFlight, Accepted, SubPC

LEMMA StatusKept ==
  ASSUME NEW t \in Tasks, sub'[t] = sub[t], InQueue(t)' <=> InQueue(t),
         Held(t)' <=> Held(t), executed'[t] = executed[t]
  PROVE  Status(t)' = Status(t)
  BY DEF Status, InFlight, Accepted

LEMMA LedgerMoves ==
  ASSUME NEW t \in Tasks, NEW a, NEW b, Status(t) = a, Status(t)' = b,
         \A u \in Tasks \ {t} : Status(u)' = Status(u)
  PROVE  Ledger!Move(t, a, b)
  BY DEF Ledger!Move

\* The ledger counts as the pool does.
LEMMA LedgerCounts == \A S : Ledger!Cardinality(S) = Cardinality(S)
  BY DEF Ledger!Cardinality, Cardinality

\* The queued tasks are as many as the channel is long.
LEMMA QueuedFit ==
  ASSUME WorkerTypeOK
  PROVE  /\ Cardinality({t \in Tasks : InQueue(t)}) \in Nat
         /\ Cardinality({t \in Tasks : InQueue(t)}) <= Len(queue)
<1> DEFINE n == Len(queue)
           q == [i \in 1..n |-> queue[i]]
           Q == {t \in Tasks : InQueue(t)}
<1>1. n \in Nat /\ \A i \in 1..n : queue[i] \in Tasks
  BY DEF WorkerTypeOK
<1>2. q \in Surjection(1..n, Q)
  BY <1>1 DEF Surjection, InQueue
<1>3. IsFiniteSet(1..n) /\ Cardinality(1..n) = n
  BY <1>1, FS_Interval
<1>4. QED
  BY <1>2, <1>3, FS_Surjection, FS_CardinalityType

LEMMA RunsFinite == IsFiniteSet(Runs)
<1>1. IsFiniteSet(Workers) /\ IsFiniteSet(1..MaxRuns)
  BY WorkerAssumption, FS_Interval
<1>2. QED
  BY <1>1, FS_Product DEF Runs

\* While a goroutine has empty hands, fewer tasks are held than there are goroutines.
LEMMA HeldFit ==
  ASSUME WorkerTypeOK, NEW r \in Runs, run[r].task = NoTask
  PROVE  Cardinality({t \in Tasks : Held(t)}) < Cardinality(Runs)
<1> DEFINE F == {q \in Runs : run[q].task \in Tasks}
           f == [q \in F |-> run[q].task]
           H == {t \in Tasks : Held(t)}
<1>1. F \subseteq Runs \ {r}
  BY WorkerAssumption
<1>2. f \in Surjection(F, H)
  BY DEF Surjection, Held, Holds
<1>3. /\ IsFiniteSet(Runs \ {r})
      /\ Cardinality(Runs \ {r}) = Cardinality(Runs) - 1
  BY RunsFinite, FS_RemoveElement
<1>4. IsFiniteSet(F) /\ Cardinality(F) <= Cardinality(Runs \ {r})
  BY <1>1, <1>3, FS_Subset
<1>5. IsFiniteSet(H) /\ Cardinality(H) <= Cardinality(F)
  BY <1>2, <1>4, FS_Surjection
<1>6. Cardinality(H) \in Nat /\ Cardinality(F) \in Nat /\ Cardinality(Runs) \in Nat
  BY <1>4, <1>5, RunsFinite, FS_CardinalityType
<1>7. QED
  BY <1>3, <1>4, <1>5, <1>6

\* A step that takes no task in, hands none out and ends none.
LEMMA LedgerIdle ==
  ASSUME UNCHANGED <<queue, executed, sub>>,
         \A r \in Runs : run'[r].task = run[r].task
  PROVE  \A t \in Tasks : Status(t)' = Status(t)
<1>1. \A t \in Tasks : (InQueue(t)' <=> InQueue(t)) /\ (Held(t)' <=> Held(t))
  BY DEF InQueue, Held, Holds
<1>2. QED
  BY <1>1, StatusKept

\* A submission moves its own task.
LEMMA SubmitLedger ==
  ASSUME WorkerTypeOK, SubmissionTypeOK, OnceInv,
         WorkerTypeOK', SubmissionTypeOK', OnceInv', NEW t \in Tasks, SubmitCheck(t) \/ SubmitStep(t)
  PROVE  Ledger!Next \/ \A u \in Tasks : Status(u)' = Status(u)
<1>1. \A u \in Tasks : Told(u) /\ Told(u)'
  BY StatusTold, StatusToldNext
<1>2. UNCHANGED <<run, executed>>
  BY DEF SubmitCheck, SubmitStep, SubmitNow, SubmitArm, SubmitSend, SubmitTimeout,
     SubmitCancelled, workerVars
<1>3. \A u \in Tasks : Held(u)' <=> Held(u)
  BY <1>2 DEF Held, Holds
<1>4. CASE Send(t)
  <2>1. /\ InFlight(t) /\ Len(queue) < QueueSize
        /\ \A u \in Tasks \ {t} : sub'[u] = sub[u]
    BY <1>4 DEF Send, Becomes, SubmitCheck, SubmitStep, SubmitNow, SubmitArm, SubmitSend,
       SubmitTimeout, SubmitCancelled, InFlight, SubmissionTypeOK
  <2>2. \A u \in Tasks : InQueue(u)' <=> InQueue(u) \/ u = t
    BY <1>2, <1>4, <2>1, SendPlaces
  <2>3. \A u \in Tasks \ {t} : Status(u)' = Status(u)
    BY <1>2, <1>3, <2>1, <2>2, StatusKept
  <2>4. Ledger!Move(t, "calling", "queued")
    BY <1>1, <2>1, <2>2, <2>3, LedgerMoves DEF Told
  <2>5. Cardinality(Ledger!In("queued")) < QueueSize
    <3>1. Ledger!In("queued") = {u \in Tasks : InQueue(u)}
      BY <1>1 DEF Told, Ledger!In
    <3>2. /\ Cardinality({u \in Tasks : InQueue(u)}) \in Nat
          /\ Cardinality({u \in Tasks : InQueue(u)}) <= Len(queue)
      BY QueuedFit
    <3>3. Len(queue) \in Nat /\ QueueSize \in Nat
      BY WorkerAssumption DEF WorkerTypeOK
    <3> DEFINE n == Cardinality({u \in Tasks : InQueue(u)})
    <3>4. Cardinality(Ledger!In("queued")) = n
      BY <3>1
    <3>5. n \in Nat /\ n <= Len(queue) /\ Len(queue) < QueueSize
      BY <2>1, <3>2
    <3> HIDE DEF n
    <3>6. QED
      BY <3>3, <3>4, <3>5
  <2>6. QED
    BY <2>4, <2>5, LedgerCounts DEF Ledger!Next, Ledger!Accept
<1>5. CASE ~Send(t)
  <2>1. queue' = queue
    BY <1>5 DEF SubmitCheck, SubmitStep, SubmitNow, SubmitArm, SubmitSend, SubmitTimeout,
       SubmitCancelled, chanVars
  <2>2. \A u \in Tasks : InQueue(u)' <=> InQueue(u)
    BY <2>1 DEF InQueue
  <2>3. CASE sub' = sub
    BY <1>2, <1>3, <2>2, <2>3, StatusKept
  <2>4. CASE sub' # sub
    <3>1. PICK pc \in {"try", "arm", "sending", "rejected"} :
             sub' = [sub EXCEPT ![t] = pc] /\ (sub[t] = "idle" \/ InFlight(t))
      <4>1. CASE SubmitCheck(t)
        BY <4>1 DEF SubmitCheck, Becomes
      <4>2. CASE SubmitStep(t)
        BY <1>5, <2>4, <4>2 DEF SubmitStep, SubmitNow, SubmitArm, SubmitSend,
           SubmitTimeout, SubmitCancelled, Becomes, submitVars, InFlight
      <4>3. QED
        BY <4>1, <4>2
    <3>2. sub'[t] = pc /\ \A u \in Tasks \ {t} : sub'[u] = sub[u]
      BY <3>1 DEF SubmissionTypeOK
    <3>3. \A u \in Tasks \ {t} : Status(u)' = Status(u)
      BY <1>2, <1>3, <2>2, <3>2, StatusKept
    <3>4. CASE sub[t] = "idle"
      <4>1. Ledger!Move(t, "new", "calling") \/ Ledger!Move(t, "new", "rejected")
        BY <1>1, <3>1, <3>2, <3>3, <3>4, LedgerMoves DEF Told, InFlight
      <4>2. QED
        BY <4>1 DEF Ledger!Next, Ledger!Call, Ledger!Refuse
    <3>5. CASE sub[t] # "idle" /\ pc = "rejected"
      <4>1. Ledger!Move(t, "calling", "rejected")
        BY <1>1, <3>1, <3>2, <3>3, <3>5, LedgerMoves DEF Told, InFlight
      <4>2. QED
        BY <4>1 DEF Ledger!Next, Ledger!Reject
    <3>6. CASE sub[t] # "idle" /\ pc # "rejected"
      <4>1. InFlight(t) /\ InFlight(t)'
        BY <3>1, <3>2, <3>6 DEF InFlight
      <4>2. Status(t)' = Status(t)
        BY <1>1, <4>1 DEF Told
      <4>3. QED
        BY <3>3, <4>2
    <3>7. QED
      BY <3>4, <3>5, <3>6
  <2>5. QED
    BY <2>3, <2>4
<1>6. QED
  BY <1>4, <1>5

\* A goroutine takes a task, completes one, or leaves the ledger alone.
LEMMA RunLedger ==
  ASSUME WorkerTypeOK, SubmissionTypeOK, OnceInv,
         WorkerTypeOK', SubmissionTypeOK', OnceInv', NEW r \in Runs, RunStep(r), UNCHANGED sub
  PROVE  Ledger!Next \/ \A u \in Tasks : Status(u)' = Status(u)
<1>1. \A u \in Tasks : Told(u) /\ Told(u)'
  BY StatusTold, StatusToldNext
<1>2. CASE Receive(r)
  <2> DEFINE h == Head(queue)
  <2>1. /\ h \in Tasks /\ InQueue(h) /\ run[r].task = NoTask
        /\ \A u \in Tasks : /\ InQueue(u)' <=> InQueue(u) /\ u # h
                            /\ Held(u)' <=> Held(u) \/ u = h
                            /\ executed'[u] = executed[u]
    BY <1>2, ReceivePlaces
  <2> HIDE DEF h
  <2>2. \A u \in Tasks \ {h} : Status(u)' = Status(u)
    BY <2>1, StatusKept
  <2>3. Ledger!Move(h, "queued", "held")
    BY <1>1, <2>1, <2>2, LedgerMoves DEF Told
  <2>4. Cardinality(Ledger!In("held")) < Cardinality(Runs)
    <3>1. Ledger!In("held") = {u \in Tasks : Held(u)}
      BY <1>1 DEF Told, Ledger!In
    <3>2. QED
      BY <2>1, <3>1, HeldFit
  <2>5. QED
    BY <2>1, <2>3, <2>4, LedgerCounts DEF Ledger!Next, Ledger!Take
<1>3. CASE FinishTask(r)
  <2> DEFINE h == run[r].task
  <2>1. /\ h \in Tasks /\ Held(h)
        /\ \A u \in Tasks : /\ InQueue(u)' <=> InQueue(u)
                            /\ Held(u)' <=> Held(u) /\ u # h
                            /\ executed'[u] = IF u = h THEN 1 ELSE executed[u]
    BY <1>3, FinishPlaces
  <2> HIDE DEF h
  <2>2. \A u \in Tasks \ {h} : Status(u)' = Status(u)
    BY <2>1, StatusKept
  <2>3. Ledger!Move(h, "held", "done")
    BY <1>1, <2>1, <2>2, LedgerMoves DEF Told
  <2>4. QED
    BY <2>1, <2>3 DEF Ledger!Next, Ledger!Complete
<1>4. CASE ObserveStop(r) \/ CloseDone(r) \/ BeginTask(r) \/ EndTask(r)
  <2>1. UNCHANGED <<queue, executed>>
    BY <1>4 DEF ObserveStop, CloseDone, BeginTask, EndTask, chanVars
  <2>2. \E pc : run' = [run EXCEPT ![r].pc = pc]
    BY <1>4 DEF ObserveStop, CloseDone, BeginTask, EndTask
  <2>3. \A s \in Runs : run'[s].task = run[s].task
    BY <2>2 DEF WorkerTypeOK
  <2>4. QED
    BY <2>1, <2>3, LedgerIdle
<1>5. QED
  BY <1>2, <1>3, <1>4 DEF RunStep
=============================================================================
