-------------------------- MODULE FunctionalProofs --------------------------
(***************************************************************************)
(* Theorems about Functional, for any number of attempts, of chains and of *)
(* executions: the safety of Parallel under WithRetry (Calls), of chains   *)
(* over slices that share arrays (Chains), and of the joined contexts of a *)
(* task with a timeout (TimedTask).                                        *)
(***************************************************************************)
EXTENDS Functional, SequenceTheorems, TLAPS

(***************************************************************************)
(* Parallel under WithRetry.                                               *)
(***************************************************************************)

\* An attempt that has not called its function yet has no branches.
FreshInv ==
  \A b \in Branches :
    b[1] > attempt \/ (b[1] = attempt /\ caller \in {"idle", "wait", "call"}) =>
      branch[b] = "none"

\* A done channel is closed after both branches have stored their results.
ClosedInv ==
  /\ \A b \in Branches : b[1] \in closed => branch[b] = "done"
  /\ \A b \in Branches : branch[b] = "done" => result[b] # "zero"
  /\ \A b \in Branches : branch[b] = "stored" => result[b] # "zero"
  /\ caller = "results" => attempt \in closed
  /\ caller = "ok" /\ inner = "parallel" => attempt \in closed

\* While the context lasts, only the attempt the caller waits for runs.
QuietInv ==
  ~ctxDone => \A b \in Branches :
    branch[b] = "running" => b[1] = attempt /\ caller = "select"

IInv == TypeOK /\ FreshInv /\ ClosedInv /\ QuietInv /\ AnswersOfOneAttempt

LEMMA BranchParts ==
  /\ \A b \in Branches : b[1] \in Attempts /\ b[1] \in Nat
  /\ \A a \in Attempts, s \in Sides : <<a, s>> \in Branches
  /\ \A a \in Attempts : a \in Nat /\ a <= MaxRetries
<1>1. \A a \in Attempts : a \in Nat /\ a <= MaxRetries
  BY RetriesAssumption DEF Attempts
<1>2. \A b \in Branches : b[1] \in Attempts /\ b[1] \in Nat
  BY <1>1 DEF Branches
<1>3. \A a \in Attempts, s \in Sides : <<a, s>> \in Branches
  BY DEF Branches
<1> QED BY <1>1, <1>2, <1>3

LEMMA InitInv == Init => IInv
<1> SUFFICES ASSUME Init PROVE IInv
  OBVIOUS
<1>1. TypeOK
  <2>1. 0 \in Attempts
    BY RetriesAssumption DEF Attempts
  <2>2. branch \in [Branches -> {"none"}] /\ result \in [Branches -> {"zero"}]
    BY DEF Init
  <2> QED BY <2>1, <2>2 DEF Init, TypeOK
<1>2. FreshInv /\ ClosedInv /\ QuietInv /\ AnswersOfOneAttempt
  BY DEF Init, FreshInv, ClosedInv, QuietInv, AnswersOfOneAttempt
<1> QED BY <1>1, <1>2 DEF IInv

\* What a goroutine of Parallel does to itself.
LEMMA ParallelPreserves == IInv /\ ParallelStep => IInv'
<1> SUFFICES ASSUME IInv, ParallelStep PROVE IInv'
  OBVIOUS
<1> USE RetriesAssumption
        DEF IInv, TypeOK, FreshInv, ClosedInv, QuietInv, AnswersOfOneAttempt,
            Attempts, Branches, Sides, callVars
<1>1. ASSUME NEW b \in Branches, BranchReturns(b) PROVE IInv'
  BY <1>1 DEF BranchReturns
<1>2. ASSUME NEW b \in Branches, BranchStores(b) PROVE IInv'
  BY <1>2 DEF BranchStores
<1>3. ASSUME NEW b \in Branches, BranchDone(b) PROVE IInv'
  BY <1>3 DEF BranchDone
<1>4. ASSUME NEW a \in Attempts, CloseDone(a) PROVE IInv'
  BY <1>4 DEF CloseDone
<1> QED BY <1>1, <1>2, <1>3, <1>4 DEF ParallelStep

LEMMA CallerPreserves == IInv /\ CallerStep => IInv'
<1> SUFFICES ASSUME IInv, CallerStep PROVE IInv'
  OBVIOUS
<1> USE RetriesAssumption
        DEF IInv, TypeOK, FreshInv, ClosedInv, QuietInv, AnswersOfOneAttempt,
            Attempts, Branches, Sides, callVars, branchVars
<1>1. CASE Execute
  BY <1>1 DEF Execute
<1>2. CASE CallPlain
  BY <1>2 DEF CallPlain, Return
<1>3. CASE CallParallel
  <2> HIDE DEF Attempts, Branches, Sides
  <2>1. \A b \in Branches : branch'[b] = IF b[1] = attempt THEN "running" ELSE branch[b]
    BY <1>3 DEF CallParallel
  <2>2. TypeOK'
    BY <1>3 DEF CallParallel
  <2>3. FreshInv' /\ QuietInv' /\ AnswersOfOneAttempt'
    BY <1>3, <2>1, BranchParts DEF CallParallel
  <2>4. attempt \notin closed
    BY <1>3, BranchParts DEF CallParallel, Sides
  <2>5. ClosedInv'
    BY <1>3, <2>1, <2>4, BranchParts DEF CallParallel
  <2> QED BY <2>2, <2>3, <2>5
<1>4. CASE SelectDone
  BY <1>4 DEF SelectDone
<1>5. CASE SelectCtx
  BY <1>5 DEF SelectCtx
<1>6. CASE Results
  <2> HIDE DEF Attempts, Branches
  <2>1. \A q \in Sides : <<attempt, q>> \in Branches /\ result[<<attempt, q>>] # "zero"
    BY <1>6, BranchParts DEF Results
  <2>2. CASE \E q \in Sides : result[<<attempt, q>>] = "error"
    BY <1>6, <2>2 DEF Results
  <2>3. CASE ~\E q \in Sides : result[<<attempt, q>>] = "error"
    <3>1. Return("ok")
      BY <1>6, <2>3 DEF Results
    <3>2. AnswersOfOneAttempt'
      BY <3>1, <2>1, <2>3 DEF Return
    <3>3. TypeOK' /\ FreshInv' /\ ClosedInv' /\ QuietInv'
      BY <3>1, <1>6, BranchParts DEF Return, Results
    <3> QED BY <3>2, <3>3
  <2> QED BY <2>2, <2>3
<1>7. CASE Failed
  <2> HIDE DEF Attempts, Branches, Sides
  <2>1. CASE fatal \/ attempt = MaxRetries
    BY <1>7, <2>1 DEF Failed, Return
  <2>2. CASE ~(fatal \/ attempt = MaxRetries)
    <3>1. attempt \in Nat /\ attempt' = attempt + 1 /\ attempt' \in Attempts
      BY <1>7, <2>2, BranchParts, RetriesAssumption DEF Failed, Attempts
    <3>2. FreshInv'
      BY <1>7, <2>2, <3>1, BranchParts DEF Failed
    <3>3. TypeOK' /\ ClosedInv' /\ QuietInv' /\ AnswersOfOneAttempt'
      BY <1>7, <2>2, <3>1 DEF Failed
    <3> QED BY <3>2, <3>3
  <2> QED BY <2>1, <2>2
<1>8. CASE WaitTimer
  BY <1>8 DEF WaitTimer
<1>9. CASE WaitCtx
  BY <1>9 DEF WaitCtx, Return
<1> QED BY <1>1, <1>2, <1>3, <1>4, <1>5, <1>6, <1>7, <1>8, <1>9 DEF CallerStep

LEMMA NextInv == IInv /\ [Next]_vars => IInv'
<1> SUFFICES ASSUME IInv, [Next]_vars PROVE IInv'
  OBVIOUS
<1>1. CASE EndContext
  BY <1>1 DEF EndContext, callVars, branchVars, IInv, TypeOK, FreshInv, ClosedInv,
     QuietInv, AnswersOfOneAttempt
<1>2. CASE UNCHANGED vars
  BY <1>2 DEF vars, IInv, TypeOK, FreshInv, ClosedInv, QuietInv, AnswersOfOneAttempt
<1> QED BY <1>1, <1>2, CallerPreserves, ParallelPreserves DEF Next, Deadline, Cancel

\* The other things a program hands over are nothing to a call.
LEMMA ProgramCalls == Program => Spec
<1>1. ProgramInit => Init
  BY DEF ProgramInit
<1>2. [ProgramNext]_programVars => [Next]_vars
  BY DEF ProgramNext, programVars
<1>3. QED
  BY <1>1, <1>2, PTL DEF Program, Spec

LEMMA CallsInvariant == Program => []IInv
  BY InitInv, NextInv, ProgramCalls, PTL DEF Spec

\* A call that succeeds hands over what both branches of its last attempt
\* returned, however many attempts left branches running (Parallel).
THEOREM AnswersAreOfOneAttempt == Program => []AnswersOfOneAttempt
<1>1. IInv => AnswersOfOneAttempt
  BY DEF IInv
<1> QED BY <1>1, CallsInvariant, PTL

\* Two attempts of one call run at the same time only after the context was
\* done, for any number of attempts (WithRetry around Parallel).
THEOREM AttemptsDoNotOverlap == Program => []OneAttemptAtATime
<1>1. IInv => OneAttemptAtATime
  BY DEF IInv, QuietInv, OneAttemptAtATime
<1> QED BY <1>1, CallsInvariant, PTL

-----------------------------------------------------------------------------
(***************************************************************************)
(* Tasks with a timeout.                                                   *)
(***************************************************************************)
TaskInv ==
  /\ parent \in [Executions -> {"never", "open", "done"}]
  /\ exec \in [Executions -> {"idle", "task", "cleanup", "returned"}]
  /\ helper \in [Executions -> {"none", "waiting", "cancelled", "gone"}]
  /\ merged \subseteq Executions

\* The context of an execution is cancelled for a reason, or by its own cleanup.
MergedInv ==
  \A x \in Executions : x \in merged => Timed!Ended(x) \/ exec[x] \in {"cleanup", "returned"}

TimedInv == TaskInv /\ MergedInv

LEMMA TimedInit == ProgramInit => TimedInv
  BY DEF ProgramInit, Timed!Init, TimedInv, TaskInv, MergedInv

LEMMA TimedStep == TimedInv /\ [ProgramNext]_programVars => TimedInv'
<1> SUFFICES ASSUME TimedInv, [ProgramNext]_programVars PROVE TimedInv'
  OBVIOUS
<1> USE DEF TimedInv, TaskInv, MergedInv, Timed!Ended
<1>1. CASE UNCHANGED taskVars
  BY <1>1 DEF taskVars
<1>2. CASE Timed!TimeoutEnds
  BY <1>2 DEF Timed!TimeoutEnds
<1>3. ASSUME NEW x \in Executions, Timed!Execute(x) PROVE TimedInv'
  BY <1>3 DEF Timed!Execute
<1>4. ASSUME NEW x \in Executions, Timed!Join(x) PROVE TimedInv'
  BY <1>4 DEF Timed!Join
<1>5. ASSUME NEW x \in Executions, Timed!HelperExits(x) PROVE TimedInv'
  BY <1>5 DEF Timed!HelperExits
<1>6. ASSUME NEW x \in Executions, Timed!TaskReturns(x) PROVE TimedInv'
  BY <1>6 DEF Timed!TaskReturns
<1>7. ASSUME NEW x \in Executions, Timed!AwaitHelper(x) PROVE TimedInv'
  BY <1>7 DEF Timed!AwaitHelper
<1>8. ASSUME NEW x \in Executions, Timed!ParentEnds(x) PROVE TimedInv'
  BY <1>8 DEF Timed!ParentEnds
<1>9. QED
  BY <1>1, <1>2, <1>3, <1>4, <1>5, <1>6, <1>7, <1>8
  DEF ProgramNext, programVars, Timed!Next, Timed!Step

\* The context of a task that executes is done only when its own parent or the
\* timeout has ended, for any number of executions (TaskWithTimeout.Execute).
THEOREM TasksEndForAReason == Program => []DoneForAReason
<1>1. TimedInv => DoneForAReason
  BY DEF TimedInv, MergedInv, DoneForAReason, Timed!DoneForAReason, Timed!TaskCtxDone,
     Timed!Ended
<1>2. QED
  BY TimedInit, TimedStep, <1>1, PTL DEF Program

-----------------------------------------------------------------------------
(***************************************************************************)
(* Chains.  A chain with an array of its own finds in it, at each place,   *)
(* the step it was composed with; only builders write into arrays that     *)
(* are not the caller's, and each of them has its own.                     *)
(***************************************************************************)
Arrays == Seq(Steps \cup {NoStep})
Composed == [kind : {"chain", "builder", "func"}, array : Nat, len : Nat,
             own : BOOLEAN, made : Seq(Steps)]
Running == [chain : Nat, applied : Seq(Steps), answer : {"none", "value", "error"}]

SlicesTyped ==
  /\ arrays \in Seq(Arrays) /\ chains \in Seq(Composed) /\ run \in Running
  /\ Len(arrays) >= 1

\* The list of the caller is made of steps, whatever the caller writes into it.
ListInv ==
  /\ Len(arrays[1]) = Len(FirstList) + 1
  /\ \A k \in 1..Len(FirstList) : arrays[1][k] \in Steps

\* c finds its steps: those it was composed with, or the list of the caller.
Laid(c) ==
  /\ c.array \in 1..Len(arrays)
  /\ ~c.own => c.array = 1 /\ c.len = Len(FirstList) /\ c.kind # "builder"
  /\ c.own => /\ c.array # 1
              /\ c.len = Len(c.made) /\ c.len <= Len(arrays[c.array])
              /\ \A k \in 1..c.len : arrays[c.array][k] = c.made[k]

ChainsInv ==
  /\ \A i \in 1..Len(chains) : Laid(chains[i])
  /\ \A i, j \in 1..Len(chains) :
       i # j /\ chains[i].kind = "builder" => chains[i].array # chains[j].array

RunInv ==
  /\ run.chain \in 0..Len(chains)
  /\ run.answer = "none" => run.chain # 0
  /\ run.chain # 0 =>
       LET c == chains[run.chain] IN
       /\ c.kind # "builder"
       /\ c.own => /\ Len(run.applied) <= Len(c.made)
                   /\ \A k \in 1..Len(run.applied) : run.applied[k] = c.made[k]
                   /\ run.answer = "value" => Len(run.applied) = Len(c.made)

SlicesInv == SlicesTyped /\ ListInv /\ ChainsInv /\ RunInv

LEMMA SlicesInit == ProgramInit => SlicesInv
<1> SUFFICES ASSUME ProgramInit PROVE SlicesInv
  OBVIOUS
<1>1. FirstList \in Seq(Steps) /\ FirstList \in Arrays
  BY ChainsAssumption DEF Arrays
<1> DEFINE first == Append(FirstList, NoStep)
<1>2. /\ first \in Arrays /\ Len(first) = Len(FirstList) + 1
      /\ \A k \in 1..Len(FirstList) : first[k] = FirstList[k]
  BY <1>1, AppendProperties DEF Arrays
<1>3. \A k \in 1..Len(FirstList) : FirstList[k] \in Steps
  BY <1>1
<1>4. arrays = <<first>> /\ chains = <<>>
      /\ run = [chain |-> 0, applied |-> <<>>, answer |-> "value"]
  BY DEF ProgramInit, Chained!Init
<1> HIDE DEF first
<1>5. SlicesTyped
  BY <1>2, <1>4 DEF SlicesTyped, Running
<1>6. ListInv
  BY <1>2, <1>3, <1>4 DEF ListInv
<1>7. ChainsInv /\ RunInv
  BY <1>4 DEF ChainsInv, RunInv
<1>8. QED
  BY <1>5, <1>6, <1>7 DEF SlicesInv

\* What a loop over a slice reads is made of steps, as many as the slice is long.
LEMMA ContentRead ==
  ASSUME SlicesInv, NEW i \in 1..Len(chains)
  PROVE  LET c == chains[i] IN
         /\ Chained!Content(c) \in Seq(Steps)
         /\ Len(Chained!Content(c)) = c.len
         /\ c.len <= Len(arrays[c.array])
         /\ \A k \in 1..c.len : Chained!Content(c)[k] = arrays[c.array][k]
                                /\ arrays[c.array][k] \in Steps
<1> DEFINE c == chains[i]
<1>1. c \in Composed /\ Laid(c) /\ arrays \in Seq(Arrays) /\ FirstList \in Seq(Steps)
  BY ChainsAssumption DEF SlicesInv, SlicesTyped, ChainsInv
<1>2. arrays[c.array] \in Arrays /\ c.len \in Nat /\ c.made \in Seq(Steps) /\ c.own \in BOOLEAN
  BY <1>1 DEF Laid, Composed
<1> HIDE DEF c
<1>3. c.len <= Len(arrays[c.array]) /\ \A k \in 1..c.len : arrays[c.array][k] \in Steps
  <2>1. CASE c.own
    BY <1>1, <1>2, <2>1 DEF Laid
  <2>2. CASE ~c.own
    <3>1. c.array = 1 /\ c.len = Len(FirstList)
      BY <1>1, <2>2 DEF Laid
    <3>2. Len(arrays[1]) = Len(FirstList) + 1 /\ Len(FirstList) \in Nat
      BY <1>1 DEF SlicesInv, ListInv
    <3>3. \A k \in 1..Len(FirstList) : arrays[1][k] \in Steps
      BY DEF SlicesInv, ListInv
    <3>4. QED
      BY <3>1, <3>2, <3>3
  <2>3. QED
    BY <1>2, <2>1, <2>2
<1>4. /\ SubSeq(arrays[c.array], 1, c.len) \in Seq(Steps)
      /\ Len(SubSeq(arrays[c.array], 1, c.len)) = c.len
      /\ \A k \in 1..c.len : SubSeq(arrays[c.array], 1, c.len)[k] = arrays[c.array][k]
  <2>1. 1 \in Int /\ c.len \in Int
    BY <1>2
  <2>2. /\ SubSeq(arrays[c.array], 1, c.len) \in Seq(Steps)
        /\ Len(SubSeq(arrays[c.array], 1, c.len)) = IF 1 <= c.len THEN c.len - 1 + 1 ELSE 0
        /\ \A k \in 1 .. c.len - 1 + 1 :
             SubSeq(arrays[c.array], 1, c.len)[k] = arrays[c.array][1 + k - 1]
    BY <1>3, <2>1, SubSeqProperties
  <2>3. QED
    BY <1>2, <2>2
<1>5. QED
  BY <1>3, <1>4 DEF c, Chained!Content

\* Something new is composed over an array: its own, or that of the caller's list.
LEMMA ComposeKeeps ==
  ASSUME SlicesInv, NEW c \in Composed, chains' = Append(chains, c), UNCHANGED run,
         arrays' \in Seq(Arrays), Len(arrays') >= Len(arrays),
         \A a \in 1..Len(arrays) : arrays'[a] = arrays[a],
         Laid(c)', c.own => c.array \notin 1..Len(arrays)
  PROVE  SlicesInv'
<1>1. /\ arrays \in Seq(Arrays) /\ chains \in Seq(Composed) /\ run \in Running
      /\ Len(arrays) >= 1
  BY DEF SlicesInv, SlicesTyped
<1>2. /\ chains' \in Seq(Composed) /\ Len(chains') = Len(chains) + 1
      /\ \A i \in 1..Len(chains) : chains'[i] = chains[i]
      /\ chains'[Len(chains) + 1] = c
  BY <1>1, AppendProperties
<1>3. SlicesTyped'
  BY <1>1, <1>2 DEF SlicesTyped
<1>4. 1 \in 1..Len(arrays) /\ ListInv'
  BY <1>1 DEF SlicesInv, ListInv
<1>5. \A i \in 1..Len(chains) : Laid(chains[i]) /\ chains[i] \in Composed
  BY <1>1 DEF SlicesInv, ChainsInv
<1>6. \A i \in 1..Len(chains) : Laid(chains[i])'
  <2> SUFFICES ASSUME NEW i \in 1..Len(chains) PROVE Laid(chains[i])'
    OBVIOUS
  <2>1. chains'[i] = chains[i] /\ chains[i].array \in 1..Len(arrays)
    BY <1>2, <1>5 DEF Laid
  <2>2. QED
    BY <1>1, <1>5, <2>1 DEF Laid
<1>7. \A i \in 1..Len(chains') : Laid(chains[i])'
  BY <1>1, <1>2, <1>6
<1>8. ASSUME NEW i \in 1..Len(chains'), NEW j \in 1..Len(chains'),
             i # j, chains'[i].kind = "builder"
      PROVE  chains'[i].array # chains'[j].array
  <2>1. \A a \in 1..Len(chains') : a \in 1..Len(chains) \/ a = Len(chains) + 1
    BY <1>1, <1>2
  <2>2. \A a \in 1..Len(chains) :
          /\ chains[a].array \in 1..Len(arrays)
          /\ chains[a].kind = "builder" => chains[a].array # 1
    BY <1>5 DEF Laid, Composed
  <2>3. /\ c.kind = "builder" => c.own
        /\ c.own => c.array \notin 1..Len(arrays)
        /\ ~c.own => c.array = 1
    BY DEF Laid, Composed
  <2>4. CASE i \in 1..Len(chains) /\ j \in 1..Len(chains)
    BY <1>2, <1>8, <2>4 DEF SlicesInv, ChainsInv
  <2>5. CASE i = Len(chains) + 1 /\ j \in 1..Len(chains)
    BY <1>2, <1>8, <2>2, <2>3, <2>5
  <2>6. CASE i \in 1..Len(chains) /\ j = Len(chains) + 1
    BY <1>2, <1>8, <2>2, <2>3, <2>6
  <2>7. QED
    BY <1>8, <2>1, <2>4, <2>5, <2>6
<1>9. ChainsInv'
  BY <1>7, <1>8 DEF ChainsInv
<1>10. RunInv'
  <2>1. run.chain \in 0..Len(chains) /\ Len(chains) \in Nat
    BY <1>1 DEF SlicesInv, RunInv
  <2>2. run.chain # 0 => chains'[run.chain] = chains[run.chain]
    BY <1>2, <2>1
  <2>3. QED
    BY <1>2, <2>1, <2>2 DEF SlicesInv, RunInv
<1>11. QED
  BY <1>3, <1>4, <1>9, <1>10 DEF SlicesInv

\* A new array has room for what is composed over it.
LEMMA FreshKeeps ==
  ASSUME SlicesInv, NEW kind \in {"chain", "builder", "func"}, NEW steps \in Seq(Steps),
         Chained!Fresh(kind, steps)
  PROVE  SlicesInv'
<1>1. arrays \in Seq(Arrays) /\ Len(arrays) \in Nat /\ Len(arrays) >= 1 /\ steps \in Arrays
  BY DEF SlicesInv, SlicesTyped, Arrays
<1>2. PICK c \in Composed :
        /\ chains' = Append(chains, c) /\ UNCHANGED run /\ arrays' = Append(arrays, steps)
        /\ c.array = Len(arrays) + 1 /\ c.len = Len(steps) /\ c.own /\ c.made = steps
  <2> DEFINE c == [kind |-> kind, array |-> Len(arrays) + 1, len |-> Len(steps),
                   own |-> TRUE, made |-> steps]
  <2>1. chains' = Append(chains, c) /\ UNCHANGED run /\ arrays' = Append(arrays, steps)
    BY DEF Chained!Fresh, Chained!Compose
  <2>2. /\ c \in Composed /\ c.array = Len(arrays) + 1 /\ c.len = Len(steps)
        /\ c.own /\ c.made = steps
    BY <1>1 DEF Composed
  <2> HIDE DEF c
  <2>3. QED
    BY <2>1, <2>2
<1>3. /\ arrays' \in Seq(Arrays) /\ Len(arrays') = Len(arrays) + 1
      /\ \A a \in 1..Len(arrays) : arrays'[a] = arrays[a]
      /\ arrays'[Len(arrays) + 1] = steps
  BY <1>1, <1>2, AppendProperties
<1>5. c.array \in 1..Len(arrays') /\ c.array \notin 1..Len(arrays) /\ c.array # 1
  BY <1>1, <1>2, <1>3
<1>6. /\ c.len <= Len(arrays'[c.array])
      /\ \A k \in 1..c.len : arrays'[c.array][k] = c.made[k]
  BY <1>1, <1>2, <1>3
<1>7. Laid(c)'
  BY <1>2, <1>5, <1>6 DEF Laid
<1>8. Len(arrays') >= Len(arrays)
  BY <1>1, <1>3
<1>9. QED
  BY <1>2, <1>3, <1>5, <1>7, <1>8, ComposeKeeps

\* A builder grows, in an array that is nobody else's.
LEMMA GrowKeeps ==
  ASSUME SlicesInv, NEW i \in 1..Len(chains), NEW g \in Composed,
         chains[i].kind = "builder", g.kind = "builder",
         chains' = [chains EXCEPT ![i] = g], UNCHANGED run,
         arrays' \in Seq(Arrays), Len(arrays') >= Len(arrays), arrays'[1] = arrays[1],
         \A j \in 1..Len(chains) : j # i =>
           arrays'[chains[j].array] = arrays[chains[j].array] /\ g.array # chains[j].array,
         Laid(g)'
  PROVE  SlicesInv'
<1>1. /\ arrays \in Seq(Arrays) /\ chains \in Seq(Composed) /\ run \in Running
      /\ Len(arrays) >= 1
  BY DEF SlicesInv, SlicesTyped
<1>2. /\ chains' \in Seq(Composed) /\ Len(chains') = Len(chains)
      /\ \A j \in 1..Len(chains) : chains'[j] = IF j = i THEN g ELSE chains[j]
  BY <1>1
<1>3. SlicesTyped' /\ ListInv'
  BY <1>1, <1>2 DEF SlicesTyped, SlicesInv, ListInv
<1>4. \A j \in 1..Len(chains) : Laid(chains[j])'
  <2> SUFFICES ASSUME NEW j \in 1..Len(chains) PROVE Laid(chains[j])'
    OBVIOUS
  <2>1. CASE j = i
    <3>1. chains'[j] = g
      BY <1>2, <2>1
    <3>2. QED
      BY <3>1 DEF Laid
  <2>2. CASE j # i
    <3>1. chains'[j] = chains[j] /\ Laid(chains[j]) /\ arrays'[chains[j].array] = arrays[chains[j].array]
      BY <1>2, <2>2 DEF SlicesInv, ChainsInv
    <3>2. chains[j].array \in 1..Len(arrays')
      BY <1>1, <3>1 DEF Laid
    <3>3. QED
      BY <3>1, <3>2 DEF Laid
  <2>3. QED
    BY <2>1, <2>2
<1>5. ChainsInv'
  BY <1>2, <1>4 DEF SlicesInv, ChainsInv
<1>6. RunInv'
  <2>1. run.chain # 0 => run.chain \in 1..Len(chains) /\ run.chain # i
    BY <1>1 DEF SlicesInv, RunInv, Running
  <2>2. QED
    BY <1>2, <2>1 DEF SlicesInv, RunInv
<1>7. QED
  BY <1>3, <1>5, <1>6 DEF SlicesInv

LEMMA Grown ==
  ASSUME NEW c \in Composed, NEW s \in Steps
  PROVE  LET grown == [c EXCEPT !.len = @ + 1, !.made = Append(@, s)]
         IN  /\ grown \in Composed /\ grown.kind = c.kind /\ grown.own = c.own
             /\ grown.array = c.array /\ grown.len = c.len + 1 /\ grown.made = Append(c.made, s)
<1>1. c.len + 1 \in Nat /\ Append(c.made, s) \in Seq(Steps)
  BY DEF Composed
<1>2. QED
  BY <1>1 DEF Composed

LEMMA Moved ==
  ASSUME NEW c \in Composed, NEW a \in Nat
  PROVE  LET moved == [c EXCEPT !.array = a]
         IN  /\ moved \in Composed /\ moved.kind = c.kind /\ moved.own = c.own
             /\ moved.array = a /\ moved.len = c.len /\ moved.made = c.made
  BY DEF Composed

LEMMA AddKeeps ==
  ASSUME SlicesInv, NEW i \in 1..Len(chains), NEW s \in Steps, Chained!Add(i, s)
  PROVE  SlicesInv'
<1>1. PICK c \in Composed : c = chains[i]
  BY DEF SlicesInv, SlicesTyped
<1>2. /\ arrays \in Seq(Arrays) /\ Len(arrays) \in Nat /\ Len(arrays) >= 1
      /\ c.made \in Seq(Steps) /\ c.len \in Nat /\ c.array \in Nat /\ Len(arrays) + 1 \in Nat
  BY DEF SlicesInv, SlicesTyped, Composed
<1>3. c.kind = "builder" /\ Laid(c) /\ UNCHANGED run
  BY <1>1 DEF Chained!Add, SlicesInv, ChainsInv
<1>4. /\ c.own /\ c.array \in 1..Len(arrays) /\ c.array # 1
      /\ c.len = Len(c.made) /\ c.len <= Len(arrays[c.array])
      /\ \A k \in 1..c.len : arrays[c.array][k] = c.made[k]
      /\ \A j \in 1..Len(chains) : j # i => chains[j].array # c.array
  BY <1>1, <1>3 DEF Laid, SlicesInv, ChainsInv
<1>5. \A j \in 1..Len(chains) : chains[j].array \in 1..Len(arrays)
  BY DEF SlicesInv, ChainsInv, Laid
<1> DEFINE m == Append(c.made, s)
<1>6. /\ m \in Seq(Steps) /\ Len(m) = c.len + 1
      /\ \A k \in 1..c.len : m[k] = c.made[k]
      /\ m[c.len + 1] = s
  <2>1. /\ m \in Seq(Steps) /\ Len(m) = Len(c.made) + 1
        /\ \A k \in 1..Len(c.made) : m[k] = c.made[k]
        /\ m[Len(c.made) + 1] = s
    BY <1>2, AppendProperties
  <2>2. QED
    BY <1>4, <2>1
<1> HIDE DEF m
<1>7. CASE /\ c.len < Len(arrays[c.array])
           /\ arrays' = [arrays EXCEPT ![c.array][c.len + 1] = s]
           /\ chains' = [chains EXCEPT ![i] = [c EXCEPT !.len = @ + 1, !.made = Append(@, s)]]
  <2>1. PICK g \in Composed :
          /\ chains' = [chains EXCEPT ![i] = g]
          /\ g.kind = "builder" /\ g.own /\ g.array = c.array /\ g.len = c.len + 1 /\ g.made = m
    <3> DEFINE g == [c EXCEPT !.len = @ + 1, !.made = Append(@, s)]
    <3>1. /\ g \in Composed /\ g.kind = c.kind /\ g.own = c.own /\ g.array = c.array
          /\ g.len = c.len + 1 /\ g.made = m
      BY <1>2, Grown DEF m
    <3>2. chains' = [chains EXCEPT ![i] = g]
      BY <1>7
    <3> HIDE DEF g
    <3>3. QED
      BY <1>3, <1>4, <3>1, <3>2
  <2>2. arrays[c.array] \in Seq(Steps \cup {NoStep})
    BY <1>2, <1>4 DEF Arrays
  <2>3. c.len + 1 \in 1..Len(arrays[c.array])
    BY <1>2, <1>7, <2>2
  <2>4. PICK b \in Arrays : /\ b = [arrays[c.array] EXCEPT ![c.len + 1] = s]
                            /\ Len(b) = Len(arrays[c.array])
                            /\ \A k \in 1..Len(arrays[c.array]) :
                                 b[k] = IF k = c.len + 1 THEN s ELSE arrays[c.array][k]
    <3> DEFINE b == [arrays[c.array] EXCEPT ![c.len + 1] = s]
    <3>1. b \in Seq(Steps \cup {NoStep}) /\ Len(b) = Len(arrays[c.array])
      BY <2>2, <2>3, ExceptSeq
    <3>2. \A k \in 1..Len(arrays[c.array]) : b[k] = IF k = c.len + 1 THEN s ELSE arrays[c.array][k]
      BY <2>2, <2>3
    <3> HIDE DEF b
    <3>3. QED
      BY <3>1, <3>2 DEF Arrays, b
  <2>5. arrays' = [arrays EXCEPT ![c.array] = b]
    BY <1>7, <2>4
  <2>6. /\ arrays' \in Seq(Arrays) /\ Len(arrays') = Len(arrays)
        /\ \A a \in 1..Len(arrays) : arrays'[a] = IF a = c.array THEN b ELSE arrays[a]
    BY <1>2, <1>4, <2>5
  <2>7. \A k \in 1..g.len : b[k] = g.made[k]
    <3>1. \A k \in 1..(c.len + 1) : k \in 1..c.len \/ k = c.len + 1
      BY <1>2
    <3>2. \A k \in 1..c.len : k # c.len + 1 /\ k \in 1..Len(arrays[c.array])
      BY <1>2, <2>2, <2>3
    <3>3. QED
      BY <1>4, <1>6, <2>1, <2>3, <2>4, <3>1, <3>2
  <2>8. Laid(g)'
    <3>1. g.array \in 1..Len(arrays') /\ g.array # 1
      BY <1>4, <2>1, <2>6
    <3>2. g.len = Len(g.made) /\ g.len <= Len(arrays'[g.array])
      BY <1>2, <1>4, <1>6, <2>1, <2>2, <2>3, <2>4, <2>6
    <3>3. \A k \in 1..g.len : arrays'[g.array][k] = g.made[k]
      BY <1>4, <2>1, <2>6, <2>7
    <3>4. QED
      BY <2>1, <3>1, <3>2, <3>3 DEF Laid
  <2>9. arrays'[1] = arrays[1] /\ Len(arrays') >= Len(arrays)
    BY <1>2, <1>4, <2>6
  <2>10. \A j \in 1..Len(chains) : j # i =>
           arrays'[chains[j].array] = arrays[chains[j].array] /\ g.array # chains[j].array
    BY <1>4, <1>5, <2>1, <2>6
  <2>11. QED
    BY <1>1, <1>3, <2>1, <2>6, <2>8, <2>9, <2>10, GrowKeeps
<1>8. ASSUME NEW unused \in {<<>>, <<NoStep>>}, c.len = Len(arrays[c.array]),
             arrays' = Append(arrays, Chained!Content(c) \o <<s>> \o unused),
             chains' = [chains EXCEPT ![i] =
               [[c EXCEPT !.len = @ + 1, !.made = Append(@, s)] EXCEPT !.array = Len(arrays) + 1]]
      PROVE  SlicesInv'
  <2>1. PICK g \in Composed :
          /\ chains' = [chains EXCEPT ![i] = g] /\ g.array = Len(arrays) + 1
          /\ g.kind = "builder" /\ g.own /\ g.len = c.len + 1 /\ g.made = m
    <3> DEFINE h == [c EXCEPT !.len = @ + 1, !.made = Append(@, s)]
               g == [h EXCEPT !.array = Len(arrays) + 1]
    <3>1. /\ g \in Composed /\ g.kind = c.kind /\ g.own = c.own /\ g.array = Len(arrays) + 1
          /\ g.len = c.len + 1 /\ g.made = m
      <4>1. /\ h \in Composed /\ h.kind = c.kind /\ h.own = c.own
            /\ h.len = c.len + 1 /\ h.made = m
        BY Grown DEF m
      <4> HIDE DEF h
      <4>2. QED
        BY <1>2, <4>1, Moved
    <3>2. chains' = [chains EXCEPT ![i] = g]
      BY <1>8
    <3> HIDE DEF g
    <3>3. QED
      BY <1>3, <1>4, <3>1, <3>2
  <2>2. PICK b \in Seq(Steps \cup {NoStep}) :
          /\ b = Chained!Content(c) \o <<s>>
          /\ Len(b) = c.len + 1 /\ \A k \in 1..(c.len + 1) : b[k] = m[k]
    <3>1. PICK q \in Seq(Steps) : /\ q = Chained!Content(c) /\ Len(q) = c.len
                                  /\ \A k \in 1..c.len : q[k] = arrays[c.array][k]
      BY <1>1, ContentRead
    <3>2. /\ q \o <<s>> = Append(q, s) /\ Append(q, s) \in Seq(Steps)
          /\ Len(Append(q, s)) = c.len + 1
          /\ \A k \in 1..c.len : Append(q, s)[k] = q[k]
          /\ Append(q, s)[c.len + 1] = s
      <4>1. /\ Append(q, s) \in Seq(Steps) /\ Len(Append(q, s)) = Len(q) + 1
            /\ \A k \in 1..Len(q) : Append(q, s)[k] = q[k]
            /\ Append(q, s)[Len(q) + 1] = s
        BY <3>1, AppendProperties
      <4>2. q \o <<s>> = Append(q, s)
        BY <3>1, AppendIsConcat
      <4>3. QED
        BY <3>1, <4>1, <4>2
    <3>3. \A k \in 1..(c.len + 1) : k \in 1..c.len \/ k = c.len + 1
      BY <1>2
    <3>4. Append(q, s) \in Seq(Steps \cup {NoStep})
      BY <3>2
    <3> DEFINE b == Append(q, s)
    <3>5. b \in Seq(Steps \cup {NoStep}) /\ b = Chained!Content(c) \o <<s>> /\ Len(b) = c.len + 1
      BY <3>1, <3>2, <3>4
    <3>6. \A k \in 1..(c.len + 1) : b[k] = m[k]
      BY <1>4, <1>6, <3>1, <3>2, <3>3
    <3> HIDE DEF b
    <3>7. QED
      BY <3>5, <3>6
  <2>3. unused \in Seq(Steps \cup {NoStep})
    <3>1. <<>> \in Seq(Steps \cup {NoStep}) /\ <<NoStep>> \in Seq(Steps \cup {NoStep})
      OBVIOUS
    <3>2. QED
      BY <1>8, <3>1
  <2>4. PICK d \in Arrays : /\ d = b \o unused
                            /\ Len(d) >= c.len + 1 /\ \A k \in 1..(c.len + 1) : d[k] = m[k]
    <3> DEFINE d == b \o unused
    <3>1. /\ d \in Seq(Steps \cup {NoStep}) /\ Len(d) = Len(b) + Len(unused)
          /\ \A k \in 1..(Len(b) + Len(unused)) :
               d[k] = IF k <= Len(b) THEN b[k] ELSE unused[k - Len(b)]
      BY <2>2, <2>3, ConcatProperties
    <3> HIDE DEF d
    <3>2. Len(unused) \in Nat /\ Len(b) \in Nat
      BY <2>2, <2>3
    <3>3. Len(d) >= c.len + 1 /\ \A k \in 1..(c.len + 1) : d[k] = b[k]
      BY <1>2, <2>2, <3>1, <3>2
    <3>4. QED
      BY <2>2, <3>1, <3>3 DEF Arrays, d
  <2>5. arrays' = Append(arrays, d)
    BY <1>8, <2>2, <2>4
  <2>6. /\ arrays' \in Seq(Arrays) /\ Len(arrays') = Len(arrays) + 1
        /\ \A a \in 1..Len(arrays) : arrays'[a] = arrays[a]
        /\ arrays'[Len(arrays) + 1] = d
    BY <1>2, <2>5, AppendProperties
  <2>7. Laid(g)'
    <3>1. g.array \in 1..Len(arrays') /\ g.array # 1 /\ g.array \notin 1..Len(arrays)
      BY <1>2, <2>1, <2>6
    <3>2. g.len = Len(g.made) /\ g.len <= Len(arrays'[g.array])
      BY <1>2, <1>6, <2>1, <2>4, <2>6
    <3>3. \A k \in 1..g.len : arrays'[g.array][k] = g.made[k]
      BY <1>6, <2>1, <2>4, <2>6
    <3>4. QED
      BY <2>1, <3>1, <3>2, <3>3 DEF Laid
  <2>8. arrays'[1] = arrays[1] /\ Len(arrays') >= Len(arrays)
    BY <1>2, <2>6
  <2>9. \A j \in 1..Len(chains) : j # i =>
          arrays'[chains[j].array] = arrays[chains[j].array] /\ g.array # chains[j].array
    BY <1>2, <1>5, <2>1, <2>6
  <2>10. QED
    BY <1>1, <1>3, <2>1, <2>6, <2>7, <2>8, <2>9, GrowKeeps
<1>9. QED
  BY <1>1, <1>7, <1>8 DEF Chained!Add

LEMMA OverwriteKeeps == ASSUME SlicesInv, Chained!Overwrite PROVE SlicesInv'
<1>1. /\ arrays \in Seq(Arrays) /\ Len(arrays) \in Nat /\ Len(arrays) >= 1
      /\ chains \in Seq(Composed) /\ run \in Running /\ FirstList \in Seq(Steps)
  BY ChainsAssumption DEF SlicesInv, SlicesTyped
<1>2. /\ arrays[1] \in Seq(Steps \cup {NoStep}) /\ Len(arrays[1]) = Len(FirstList) + 1
      /\ \A k \in 1..Len(FirstList) : arrays[1][k] \in Steps
      /\ Len(FirstList) \in Nat
  <2>1. arrays[1] \in Arrays /\ Len(FirstList) \in Nat
    BY <1>1
  <2>2. QED
    BY <2>1 DEF SlicesInv, ListInv, Arrays
<1>3. PICK k \in 1..Len(FirstList), s \in Steps : arrays' = [arrays EXCEPT ![1][k] = s]
  <2>1. \A k \in 1..Len(FirstList) : k \in 1..Len(arrays[1])
    BY <1>2
  <2>2. PICK k \in DOMAIN Chained!List, s \in Steps : arrays' = [arrays EXCEPT ![1][k] = s]
    BY DEF Chained!Overwrite
  <2>3. DOMAIN Chained!List = 1..Len(FirstList)
    <3>1. /\ SubSeq(arrays[1], 1, Len(FirstList)) \in Seq(Steps)
          /\ Len(SubSeq(arrays[1], 1, Len(FirstList))) =
               IF 1 <= Len(FirstList) THEN Len(FirstList) - 1 + 1 ELSE 0
      BY <1>2, SubSeqProperties
    <3>2. Len(SubSeq(arrays[1], 1, Len(FirstList))) = Len(FirstList)
      BY <1>2, <3>1
    <3>3. QED
      BY <3>1, <3>2 DEF Chained!List
  <2>4. QED
    BY <2>2, <2>3
<1>4. PICK b \in Arrays : /\ b = [arrays[1] EXCEPT ![k] = s] /\ Len(b) = Len(arrays[1])
                          /\ \A j \in 1..Len(FirstList) : b[j] \in Steps
  <2> DEFINE b == [arrays[1] EXCEPT ![k] = s]
  <2>1. k \in 1..Len(arrays[1]) /\ \A j \in 1..Len(FirstList) : j \in 1..Len(arrays[1])
    BY <1>2
  <2>2. b \in Seq(Steps \cup {NoStep}) /\ Len(b) = Len(arrays[1])
    BY <1>2, <2>1, ExceptSeq
  <2>3. \A j \in 1..Len(arrays[1]) : b[j] = IF j = k THEN s ELSE arrays[1][j]
    BY <1>2, <2>1
  <2> HIDE DEF b
  <2>4. QED
    BY <1>2, <2>1, <2>2, <2>3 DEF Arrays, b
<1>5. arrays' = [arrays EXCEPT ![1] = b]
  BY <1>3, <1>4
<1>6. /\ arrays' \in Seq(Arrays) /\ Len(arrays') = Len(arrays) /\ arrays'[1] = b
      /\ \A a \in 1..Len(arrays) : a # 1 => arrays'[a] = arrays[a]
  BY <1>1, <1>5
<1>7. UNCHANGED <<chains, run>>
  BY DEF Chained!Overwrite
<1>8. SlicesTyped' /\ ListInv'
  BY <1>1, <1>2, <1>4, <1>6, <1>7 DEF SlicesTyped, ListInv
<1>9. ASSUME NEW i \in 1..Len(chains) PROVE Laid(chains[i])'
  <2>1. Laid(chains[i]) /\ chains'[i] = chains[i]
    BY <1>7 DEF SlicesInv, ChainsInv
  <2>2. QED
    BY <1>6, <2>1 DEF Laid
<1>10. ChainsInv' /\ RunInv'
  BY <1>7, <1>9 DEF SlicesInv, ChainsInv, RunInv
<1>11. QED
  BY <1>8, <1>10 DEF SlicesInv

LEMMA ExecutionKeeps ==
  ASSUME SlicesInv, NEW i \in 1..Len(chains), Chained!Execute(i) \/ Chained!Step
  PROVE  SlicesInv'
<1>1. /\ arrays \in Seq(Arrays) /\ chains \in Seq(Composed) /\ Len(chains) \in Nat
      /\ run \in Running /\ run.applied \in Seq(Steps)
      /\ UNCHANGED <<arrays, chains>>
  BY DEF SlicesInv, SlicesTyped, Running, Chained!Execute, Chained!Step
<1>2. SlicesTyped' /\ RunInv' => SlicesInv'
  BY <1>1 DEF SlicesInv, SlicesTyped, ListInv, ChainsInv, Laid
<1>3. CASE Chained!Execute(i)
  <2>1. run' = [chain |-> i, applied |-> <<>>, answer |-> "none"] /\ chains[i].kind # "builder"
    BY <1>3 DEF Chained!Execute
  <2>2. i \in Nat /\ i # 0
    BY <1>1
  <2>3. SlicesTyped'
    BY <1>1, <2>1, <2>2 DEF SlicesInv, SlicesTyped, Running
  <2>4. /\ run'.chain = i /\ run'.applied = <<>> /\ run'.answer = "none"
        /\ Len(run'.applied) = 0
    BY <2>1
  <2>5. chains[i].made \in Seq(Steps) /\ Len(chains[i].made) \in Nat
    <3>1. chains[i] \in Composed
      BY <1>1
    <3>2. chains[i].made \in Seq(Steps)
      BY <3>1 DEF Composed
    <3>3. QED
      BY <3>2
  <2>6. RunInv'
    BY <1>1, <2>1, <2>2, <2>4, <2>5 DEF RunInv
  <2>7. QED
    BY <1>2, <2>3, <2>6
<1>4. CASE Chained!Step
  <2> DEFINE c == chains[run.chain]
             n == Len(run.applied)
  <2>1. /\ run.answer = "none" /\ run.chain # 0 /\ run.chain \in 1..Len(chains)
        /\ c.kind # "builder"
        /\ c.own => /\ n <= Len(c.made) /\ \A k \in 1..n : run.applied[k] = c.made[k]
    BY <1>1, <1>4 DEF Chained!Step, SlicesInv, RunInv, Running
  <2>2. c \in Composed /\ c.made \in Seq(Steps) /\ c.len \in Nat /\ n \in Nat /\ Laid(c)
    <3>1. c \in Composed /\ n \in Nat /\ Laid(c)
      BY <1>1, <2>1 DEF SlicesInv, ChainsInv
    <3>2. c.made \in Seq(Steps) /\ c.len \in Nat
      BY <3>1 DEF Composed
    <3>3. QED
      BY <3>1, <3>2
  <2>3. c.own => c.len = Len(c.made) /\ \A k \in 1..c.len : arrays[c.array][k] = c.made[k]
    BY <2>2 DEF Laid
  <2>4. CASE n + 1 > c.len /\ run' = [run EXCEPT !.answer = "value"]
    <3>1. /\ run' \in Running /\ run'.chain = run.chain /\ run'.applied = run.applied
          /\ run'.answer = "value"
      BY <1>1, <2>4 DEF Running
    <3>2. c.own => n = Len(c.made)
      BY <2>1, <2>2, <2>3, <2>4
    <3>3. RunInv'
      BY <1>1, <2>1, <3>1, <3>2 DEF RunInv
    <3>4. QED
      BY <1>1, <1>2, <3>1, <3>3 DEF SlicesInv, SlicesTyped
  <2>5. CASE run' = [run EXCEPT !.answer = "error"]
    <3>1. /\ run' \in Running /\ run'.chain = run.chain /\ run'.applied = run.applied
          /\ run'.answer = "error"
      BY <1>1, <2>5 DEF Running
    <3>2. RunInv'
      BY <1>1, <2>1, <3>1 DEF RunInv
    <3>3. QED
      BY <1>1, <1>2, <3>1, <3>2 DEF SlicesInv, SlicesTyped
  <2>6. CASE ~(n + 1 > c.len) /\ run' = [run EXCEPT !.applied = Append(@, arrays[c.array][n + 1])]
    <3>1. n + 1 \in 1..c.len
      BY <2>2, <2>6
    <3>2. arrays[c.array][n + 1] \in Steps
      BY <2>1, <3>1, ContentRead
    <3>3. PICK s \in Steps : s = arrays[c.array][n + 1]
      BY <3>2
    <3> DEFINE q == Append(run.applied, s)
    <3>4. /\ q \in Seq(Steps) /\ Len(q) = n + 1
          /\ \A k \in 1..n : q[k] = run.applied[k]
          /\ q[n + 1] = s
      BY <1>1, AppendProperties
    <3>5. run' = [run EXCEPT !.applied = q]
      BY <2>6, <3>3
    <3> HIDE DEF q
    <3>6. /\ run' \in Running /\ run'.chain = run.chain /\ run'.applied = q
          /\ run'.answer = run.answer
      BY <1>1, <3>4, <3>5 DEF Running
    <3>7. c.own => n + 1 <= Len(c.made) /\ \A k \in 1..(n + 1) : q[k] = c.made[k]
      <4>1. \A k \in 1..(n + 1) : k \in 1..n \/ k = n + 1
        BY <2>2
      <4>2. c.own => n + 1 <= Len(c.made)
        BY <2>2, <2>3, <3>1
      <4>3. c.own => q[n + 1] = c.made[n + 1]
        BY <2>3, <3>1, <3>3, <3>4
      <4>4. QED
        BY <2>1, <3>4, <4>1, <4>2, <4>3
    <3>8. RunInv'
      BY <1>1, <2>1, <3>4, <3>6, <3>7 DEF RunInv
    <3>9. QED
      BY <1>1, <1>2, <3>6, <3>8 DEF SlicesInv, SlicesTyped
  <2>7. QED
    BY <1>4, <2>4, <2>5, <2>6 DEF Chained!Step
<1>5. QED
  BY <1>3, <1>4

LEMMA SlicesStep == SlicesInv /\ [ProgramNext]_programVars => SlicesInv'
<1> SUFFICES ASSUME SlicesInv, [ProgramNext]_programVars PROVE SlicesInv'
  OBVIOUS
<1>0. /\ arrays \in Seq(Arrays) /\ DOMAIN chains = 1..Len(chains) /\ <<>> \in Seq(Steps)
  BY DEF SlicesInv, SlicesTyped
<1>1. CASE UNCHANGED chainsVars
  BY <1>1 DEF chainsVars, SlicesInv, SlicesTyped, ListInv, ChainsInv, RunInv, Laid
<1>2. CASE Chained!NewEmpty
  BY <1>0, <1>2, FreshKeeps DEF Chained!NewEmpty
<1>3. ASSUME Chained!NewImmutableChain \/ Chained!NewOverList PROVE SlicesInv'
  <2>1. /\ FirstList \in Seq(Steps) /\ Len(FirstList) \in Nat
        /\ Len(arrays[1]) = Len(FirstList) + 1 /\ Len(arrays) >= 1 /\ Len(arrays) \in Nat
        /\ \A k \in 1..Len(FirstList) : arrays[1][k] \in Steps
    BY <1>0, ChainsAssumption DEF SlicesInv, SlicesTyped, ListInv
  <2>2. PICK q \in Seq(Steps) : q = Chained!List /\ Len(q) = Len(FirstList)
    <3>1. /\ SubSeq(arrays[1], 1, Len(FirstList)) \in Seq(Steps)
          /\ Len(SubSeq(arrays[1], 1, Len(FirstList))) =
               IF 1 <= Len(FirstList) THEN Len(FirstList) - 1 + 1 ELSE 0
      BY <2>1, SubSeqProperties
    <3>2. Len(SubSeq(arrays[1], 1, Len(FirstList))) = Len(FirstList)
      BY <2>1, <3>1
    <3>3. QED
      BY <3>1, <3>2 DEF Chained!List
  <2>3. CASE Chained!NewImmutableChain
    BY <2>2, <2>3, FreshKeeps DEF Chained!NewImmutableChain
  <2>4. CASE Chained!NewOverList
    <3>1. PICK c \in Composed :
            /\ chains' = Append(chains, c) /\ ~c.own /\ c.array = 1
            /\ c.len = Len(FirstList) /\ c.kind = "chain"
      <4> DEFINE c == [kind |-> "chain", array |-> 1, len |-> Len(q), own |-> FALSE, made |-> q]
      <4>1. chains' = Append(chains, c)
        BY <2>2, <2>4 DEF Chained!NewOverList, Chained!Compose
      <4>2. c \in Composed /\ ~c.own /\ c.array = 1 /\ c.len = Len(FirstList) /\ c.kind = "chain"
        BY <2>1, <2>2 DEF Composed
      <4> HIDE DEF c
      <4>3. QED
        BY <4>1, <4>2
    <3>2. UNCHANGED <<arrays, run>>
      BY <2>4 DEF Chained!NewOverList, Chained!Compose
    <3>3. Laid(c)'
      BY <2>1, <3>1, <3>2 DEF Laid
    <3>4. QED
      BY <1>0, <2>1, <3>1, <3>2, <3>3, ComposeKeeps
  <2>5. QED
    BY <1>3, <2>3, <2>4
<1>4. ASSUME NEW i \in 1..Len(chains), NEW s \in Steps, Chained!Then(i, s) PROVE SlicesInv'
  <2>1. Append(Chained!Content(chains[i]), s) \in Seq(Steps)
    BY <1>4, ContentRead, AppendProperties
  <2>2. QED
    BY <1>4, <2>1, FreshKeeps DEF Chained!Then
<1>5. ASSUME NEW i \in 1..Len(chains), Chained!ToFunc(i) PROVE SlicesInv'
  <2>1. Chained!Content(chains[i]) \in Seq(Steps)
    BY <1>5, ContentRead
  <2>2. QED
    BY <1>5, <2>1, FreshKeeps DEF Chained!ToFunc
<1>6. CASE Chained!Step
  <2>1. run.chain \in 1..Len(chains)
    BY <1>6 DEF Chained!Step, SlicesInv, SlicesTyped, RunInv, Running
  <2>2. QED
    BY <1>6, <2>1, ExecutionKeeps
<1>7. QED
  BY <1>0, <1>1, <1>2, <1>3, <1>4, <1>5, <1>6, AddKeeps, ExecutionKeeps, OverwriteKeeps
  DEF ProgramNext, programVars, Chained!Next

\* A chain that was not laid over the caller's list runs the steps it was composed
\* with, in their order and up to its first error, whatever is composed, built or
\* overwritten meanwhile, for any lists and any number of chains (ToFunc, Build).
THEOREM ChainsRunWhatWasComposed == Program => []RunsWhatWasComposed
<1>1. SlicesInv => RunsWhatWasComposed
  <2> SUFFICES ASSUME SlicesInv, run.chain # 0, chains[run.chain].own
               PROVE  /\ Len(run.applied) <= Len(chains[run.chain].made)
                      /\ run.applied = SubSeq(chains[run.chain].made, 1, Len(run.applied))
                      /\ run.answer = "value" => run.applied = chains[run.chain].made
    BY DEF RunsWhatWasComposed, Chained!RunsWhatWasComposed
  <2> DEFINE composed == chains[run.chain].made
             n == Len(run.applied)
  <2>1. run.applied \in Seq(Steps) /\ composed \in Seq(Steps) /\ n \in Nat
    <3>1. run \in Running /\ chains \in Seq(Composed) /\ run.chain \in 1..Len(chains)
      BY DEF SlicesInv, SlicesTyped, RunInv, Running
    <3>2. chains[run.chain] \in Composed
      BY <3>1
    <3>3. QED
      BY <3>1, <3>2 DEF Running, Composed
  <2>2. /\ n <= Len(composed) /\ \A k \in 1..n : run.applied[k] = composed[k]
        /\ run.answer = "value" => n = Len(composed)
    BY DEF SlicesInv, RunInv
  <2> HIDE DEF composed
  <2>3. run.applied = SubSeq(composed, 1, n)
    <3>1. \A k \in 1..n : k \in 1..Len(composed) /\ composed[k] \in Steps
      BY <2>1, <2>2
    <3>2. /\ SubSeq(composed, 1, n) \in Seq(Steps)
          /\ Len(SubSeq(composed, 1, n)) = IF 1 <= n THEN n - 1 + 1 ELSE 0
          /\ \A k \in 1 .. n - 1 + 1 : SubSeq(composed, 1, n)[k] = composed[1 + k - 1]
      BY <2>1, <3>1, SubSeqProperties
    <3>3. /\ Len(SubSeq(composed, 1, n)) = Len(run.applied)
          /\ \A k \in 1..Len(run.applied) : run.applied[k] = SubSeq(composed, 1, n)[k]
      BY <2>1, <2>2, <3>2
    <3>4. QED
      BY <2>1, <3>2, <3>3, SeqEqual
  <2>4. run.answer = "value" => run.applied = composed
    BY <2>1, <2>2, SeqEqual
  <2>5. QED
    BY <2>2, <2>3, <2>4 DEF composed
<1>2. QED
  BY SlicesInit, SlicesStep, <1>1, PTL DEF Program
=============================================================================
