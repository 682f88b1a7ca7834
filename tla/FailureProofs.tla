---------------------------- MODULE FailureProofs ----------------------------
(***************************************************************************)
(* Theorems about what is done about a failure: RetryExecutor, for any     *)
(* executions, policy and resets; Delays, for any configuration and any    *)
(* width of the integers; RetryErrors, for errors of any depth;            *)
(* HandlerRegistry and ErrorHandling, for any handlers, names, error types *)
(* and callers.                                                            *)
(***************************************************************************)
EXTENDS RetryExecutor, Delays, RetryErrors, ErrorHandling, Sums, SequenceTheorems

Allowed == IF MaxAttempts = 0 THEN 1 ELSE MaxAttempts

\* An execution that will count another attempt has one left, and the first
\* attempt is behind everyone who was asked to retry.
AttemptsInv ==
  /\ pc \in [Executions -> PC]
  /\ attempt \in [Executions -> Nat]
  /\ \A e \in Executions :
       /\ attempt[e] <= Allowed
       /\ pc[e] = "idle" => attempt[e] = 0
       /\ pc[e] \in {"count", "delay", "wait"} => attempt[e] < Allowed

LEMMA AllowedType == Allowed \in Nat \ {0} /\ MaxAttempts <= Allowed
  BY RetryAssumption DEF Allowed

LEMMA InitAttempts == Init => AttemptsInv
  BY AllowedType DEF Init, AttemptsInv, PC

\* An execution that moves on without counting an attempt.
LEMMA MoveKeeps ==
  ASSUME AttemptsInv, UNCHANGED attempt,
         NEW e \in Executions, NEW from, NEW to \in PC \ {"idle"}, Move(e, from, to),
         to \in {"count", "delay", "wait"} => attempt[e] < Allowed
  PROVE  AttemptsInv'
<1>1. pc' \in [Executions -> PC] BY DEF AttemptsInv, Move
<1>2. \A f \in Executions : pc'[f] = IF f = e THEN to ELSE pc[f]
  BY DEF AttemptsInv, Move
<1>3. Allowed' = Allowed BY DEF Allowed
<1> QED BY <1>1, <1>2, <1>3 DEF AttemptsInv

\* The attempt that is counted was left.
LEMMA CountKeeps ==
  ASSUME AttemptsInv, NEW e \in Executions, Count(e) PROVE AttemptsInv'
<1>1. pc[e] = "count" /\ pc' = [pc EXCEPT ![e] = "check"]
      /\ attempt' = [attempt EXCEPT ![e] = attempt[e] + 1]
  BY DEF Count, Move
<1>2. attempt[e] \in Nat /\ attempt[e] < Allowed BY <1>1 DEF AttemptsInv
<1>3. /\ pc' \in [Executions -> PC]
      /\ \A f \in Executions : pc'[f] = IF f = e THEN "check" ELSE pc[f]
  BY <1>1 DEF AttemptsInv, PC
<1>4. /\ attempt' \in [Executions -> Nat]
      /\ \A f \in Executions : attempt'[f] = IF f = e THEN attempt[e] + 1 ELSE attempt[f]
  BY <1>1, <1>2 DEF AttemptsInv
<1>5. attempt[e] + 1 <= Allowed BY <1>2, AllowedType
<1>6. Allowed' = Allowed BY DEF Allowed
<1> QED BY <1>3, <1>4, <1>5, <1>6 DEF AttemptsInv

LEMMA StepKeeps ==
  ASSUME AttemptsInv, NEW e \in Executions, Step(e) PROVE AttemptsInv'
<1>1. CASE Count(e) BY <1>1, CountKeeps
<1>2. CASE Check(e)
  <2>1. PICK to \in {"cancelled", "refused", "run"} : Move(e, "check", to) /\ UNCHANGED attempt
    BY <1>2 DEF Check
  <2> QED BY <2>1, MoveKeeps DEF PC, Ends
<1>3. CASE Run(e)
  <2>1. PICK to \in {"success", "error"} : Move(e, "run", to) /\ UNCHANGED attempt
    BY <1>3 DEF Run
  <2> QED BY <2>1, MoveKeeps DEF PC
<1>4. CASE RecordSuccess(e)
  BY <1>4, MoveKeeps DEF RecordSuccess, PC, Ends
<1>5. CASE Decide(e)
  <2>1. CASE Move(e, "error", "failure") /\ UNCHANGED attempt
    BY <2>1, MoveKeeps DEF PC
  <2>2. CASE ShouldRetry(e) /\ Move(e, "error", "delay") /\ UNCHANGED attempt
    <3>1. attempt[e] < Allowed
      BY <2>2, AllowedType, RetryAssumption DEF ShouldRetry, AttemptsInv
    <3> QED BY <2>2, <3>1, MoveKeeps DEF PC
  <2> QED BY <1>5, <2>1, <2>2 DEF Decide
<1>6. CASE RecordFailure(e)
  BY <1>6, MoveKeeps DEF RecordFailure, PC, Ends
<1>7. CASE Delay(e)
  <2>1. PICK to \in {"wait", "count"} : Move(e, "delay", to) /\ UNCHANGED attempt
    BY <1>7 DEF Delay
  <2>2. attempt[e] < Allowed BY <2>1 DEF AttemptsInv, Move
  <2> QED BY <2>1, <2>2, MoveKeeps DEF PC
<1>8. CASE Wait(e)
  <2>1. PICK to \in {"cancelled", "count"} : Move(e, "wait", to) /\ UNCHANGED attempt
    BY <1>8 DEF Wait
  <2>2. attempt[e] < Allowed BY <2>1 DEF AttemptsInv, Move
  <2> QED BY <2>1, <2>2, MoveKeeps DEF PC, Ends
<1> QED BY <1>1, <1>2, <1>3, <1>4, <1>5, <1>6, <1>7, <1>8 DEF Step

LEMMA NextKeepsAttempts == AttemptsInv /\ [Next]_vars => AttemptsInv'
<1> SUFFICES ASSUME AttemptsInv, [Next]_vars PROVE AttemptsInv' OBVIOUS
<1>1. ASSUME UNCHANGED <<pc, attempt>> PROVE AttemptsInv'
  BY <1>1 DEF AttemptsInv, Allowed
<1>2. CASE Trip \/ ResetStats \/ UNCHANGED vars
  BY <1>1, <1>2 DEF Trip, ResetStats, vars
<1>3. ASSUME NEW e \in Executions, Execute(e) PROVE AttemptsInv'
  <2>1. attempt[e] < Allowed
    BY <1>3, AllowedType DEF Execute, Move, AttemptsInv
  <2> QED BY <1>3, <2>1, MoveKeeps DEF Execute, PC
<1>4. ASSUME NEW e \in Executions, Cancel(e) PROVE AttemptsInv'
  BY <1>1, <1>4 DEF Cancel
<1>5. ASSUME NEW e \in Executions, Step(e) PROVE AttemptsInv'
  BY <1>5, StepKeeps
<1> QED BY <1>2, <1>3, <1>4, <1>5 DEF Next

\* The attempts of an execution stay within its policy, whatever errors, delays
\* and cancellations come between (ExecuteWithName, BaseRetryPolicy.ShouldRetry).
THEOREM AttemptsStayWithinMax == Spec => []AttemptsWithinMax
<1>1. Spec => []AttemptsInv BY InitAttempts, NextKeepsAttempts, PTL DEF Spec
<1>2. AttemptsInv => AttemptsWithinMax BY DEF AttemptsInv, AttemptsWithinMax, Allowed
<1> QED BY <1>1, <1>2, PTL

-----------------------------------------------------------------------------
\* The average is over as many operations as the totals count.
Statistics == [attempts : Nat, retries : Nat, successes : Nat, failures : Nat,
               average : [over : Nat, of : Nat]]

AverageInv ==
  /\ attempt \in [Executions -> Nat]
  /\ stats \in Statistics
  /\ stats.average.over <= stats.attempts
  /\ stats.average.of = stats.successes + stats.failures

LEMMA InitAverage == Init => AverageInv
  BY DEF Init, Zero, AverageInv, Statistics

LEMMA CountKeepsAverage ==
  ASSUME AverageInv, NEW e \in Executions, Count(e) PROVE AverageInv'
<1>1. attempt' = [attempt EXCEPT ![e] = attempt[e] + 1] /\ attempt[e] \in Nat
  BY DEF Count, AverageInv
<1>2. attempt' \in [Executions -> Nat] BY <1>1 DEF AverageInv
<1>3. stats' = [stats EXCEPT !.attempts = stats.attempts + 1] BY DEF Count
<1>4. stats.attempts \in Nat BY DEF AverageInv, Statistics
<1>5. /\ stats' \in Statistics /\ stats'.attempts = stats.attempts + 1
      /\ stats'.average = stats.average
      /\ stats'.successes = stats.successes /\ stats'.failures = stats.failures
  BY <1>3, <1>4 DEF AverageInv, Statistics
<1>6. stats.average.over \in Nat BY DEF AverageInv, Statistics
<1> QED BY <1>2, <1>4, <1>5, <1>6 DEF AverageInv

\* An operation is recorded and the average computed in one critical section.
LEMMA WithAverageFits ==
  ASSUME NEW s \in Statistics
  PROVE  /\ WithAverage(s) \in Statistics
         /\ WithAverage(s).attempts = s.attempts
         /\ WithAverage(s).average.over = s.attempts
         /\ WithAverage(s).average.of = WithAverage(s).successes + WithAverage(s).failures
  BY DEF WithAverage, Statistics

LEMMA SuccessType ==
  ASSUME NEW s \in Statistics, NEW r \in Nat
  PROVE  [s EXCEPT !.successes = s.successes + 1, !.retries = s.retries + r] \in Statistics
<1>1. s.successes + 1 \in Nat /\ s.retries + r \in Nat BY DEF Statistics
<1> QED BY <1>1 DEF Statistics

LEMMA FailureType ==
  ASSUME NEW s \in Statistics, NEW r \in Nat
  PROVE  [s EXCEPT !.failures = s.failures + 1, !.retries = s.retries + r] \in Statistics
<1>1. s.failures + 1 \in Nat /\ s.retries + r \in Nat BY DEF Statistics
<1> QED BY <1>1 DEF Statistics

LEMMA RecordKeepsAverage ==
  ASSUME AverageInv, NEW s \in Statistics, stats' = WithAverage(s), UNCHANGED attempt
  PROVE  AverageInv'
<1>1. s.attempts \in Nat BY DEF Statistics
<1> QED BY <1>1, WithAverageFits DEF AverageInv

LEMMA NextKeepsAverage == AverageInv /\ [Next]_vars => AverageInv'
<1> SUFFICES ASSUME AverageInv, [Next]_vars PROVE AverageInv' OBVIOUS
<1>1. ASSUME UNCHANGED <<attempt, stats>> PROVE AverageInv'
  BY <1>1 DEF AverageInv
<1>2. CASE Trip \/ UNCHANGED vars BY <1>1, <1>2 DEF Trip, vars
<1>3. CASE ResetStats
  BY <1>3 DEF ResetStats, AverageInv, Zero, Statistics
<1>4. ASSUME NEW e \in Executions, Execute(e) \/ Cancel(e) PROVE AverageInv'
  BY <1>1, <1>4 DEF Execute, Cancel
<1>5. ASSUME NEW e \in Executions, Step(e) PROVE AverageInv'
  <2>1. stats \in Statistics /\ Retried(e) \in Nat BY DEF AverageInv, Retried
  <2>2. CASE Count(e) BY <2>2, CountKeepsAverage
  <2>3. CASE RecordSuccess(e)
    <3> DEFINE s == [stats EXCEPT !.successes = stats.successes + 1,
                                  !.retries = stats.retries + Retried(e)]
    <3>1. s \in Statistics BY <2>1, SuccessType
    <3>2. stats' = WithAverage(s) /\ UNCHANGED attempt BY <2>3 DEF RecordSuccess
    <3> HIDE DEF s
    <3> QED BY <3>1, <3>2, RecordKeepsAverage
  <2>4. CASE RecordFailure(e)
    <3> DEFINE s == [stats EXCEPT !.failures = stats.failures + 1,
                                  !.retries = stats.retries + Retried(e)]
    <3>1. s \in Statistics BY <2>1, FailureType
    <3>2. stats' = WithAverage(s) /\ UNCHANGED attempt BY <2>4 DEF RecordFailure
    <3> HIDE DEF s
    <3> QED BY <3>1, <3>2, RecordKeepsAverage
  <2>5. CASE Check(e) \/ Run(e) \/ Decide(e) \/ Delay(e) \/ Wait(e)
    BY <1>1, <2>5 DEF Check, Run, Decide, Delay, Wait
  <2> QED BY <1>5, <2>2, <2>3, <2>4, <2>5 DEF Step
<1> QED BY <1>2, <1>3, <1>4, <1>5 DEF Next

\* Both halves of the quotient belong to the totals it is returned with, with
\* executions and resets in any order (updateStats, updateAverageAttempts).
THEOREM AverageBelongsToTotals ==
  Spec => [](/\ stats.average.over <= stats.attempts
             /\ stats.average.of = stats.successes + stats.failures)
<1>1. Spec => []AverageInv BY InitAverage, NextKeepsAverage, PTL DEF Spec
<1>2. AverageInv => /\ stats.average.over <= stats.attempts
                    /\ stats.average.of = stats.successes + stats.failures
  BY DEF AverageInv
<1> QED BY <1>1, <1>2, PTL

-----------------------------------------------------------------------------
(***************************************************************************)
(* The totals.  Nobody is recorded without an attempt, so the attempts are *)
(* at least as many as the executions that have begun one.                 *)
(***************************************************************************)
Begun == {e \in Executions : attempt[e] > 0}
Repeated == {e \in Recorded : attempt[e] > 1}
Attempting == {"check", "run", "success", "error", "failure", "succeeded", "failed"}

TotalsInv ==
  /\ resets \in Nat
  /\ \A e \in Executions : pc[e] \in Attempting => attempt[e] > 0
  /\ resets = 0 =>
       /\ stats.attempts = TotalOf(attempt, Executions)
       /\ stats.attempts >= Cardinality(Begun)
       /\ stats.successes = Cardinality(In("succeeded"))
       /\ stats.failures = Cardinality(In("failed"))
       /\ stats.retries = Cardinality(Repeated)
       /\ stats.average.over >= stats.average.of

StatsInv == AttemptsInv /\ AverageInv /\ TotalsInv

LEMMA Finite ==
  ASSUME NEW T \in SUBSET Executions PROVE IsFiniteSet(T) /\ Cardinality(T) \in Nat
  BY RetryAssumption, FS_Subset, FS_CardinalityType

LEMMA InitTotals == Init => TotalsInv
<1> SUFFICES ASSUME Init PROVE TotalsInv OBVIOUS
<1>1. TotalOf(attempt, Executions) = 0 BY RetryAssumption, TotalOfZeros DEF Init
<1>2. Begun = {} /\ In("succeeded") = {} /\ In("failed") = {} /\ Repeated = {}
  BY DEF Init, Begun, In, Recorded, Repeated
<1> QED BY <1>1, <1>2, FS_EmptySet DEF Init, Zero, TotalsInv, Attempting

\* An execution that moves between two places where it is not recorded.
LEMMA MoveKeepsTotals ==
  ASSUME StatsInv, UNCHANGED <<attempt, stats, resets>>,
         NEW e \in Executions, NEW from, NEW to, Move(e, from, to),
         from \notin {"succeeded", "failed"}, to \notin {"succeeded", "failed"},
         to \in Attempting => from \in Attempting
  PROVE  TotalsInv'
<1>1. \A f \in Executions : pc'[f] = IF f = e THEN to ELSE pc[f]
  BY DEF StatsInv, AttemptsInv, Move
<1>2. pc[e] = from BY DEF Move
<1>3. /\ In("succeeded")' = In("succeeded") /\ In("failed")' = In("failed")
      /\ Begun' = Begun
  BY <1>1, <1>2 DEF In, Begun
<1>4. Repeated' = Repeated BY <1>3 DEF Repeated, Recorded
<1>5. TotalOf(attempt, Executions)' = TotalOf(attempt, Executions) BY DEF TotalOf, MapThenSumSet, MapThenFoldSet
<1>6. \A f \in Executions : pc'[f] \in Attempting => attempt'[f] > 0
  BY <1>1, <1>2 DEF StatsInv, TotalsInv
<1> QED BY <1>3, <1>4, <1>5, <1>6 DEF StatsInv, TotalsInv

LEMMA NothingKeepsTotals ==
  ASSUME TotalsInv, UNCHANGED <<pc, attempt, stats, resets>> PROVE TotalsInv'
<1>1. /\ In("succeeded")' = In("succeeded") /\ In("failed")' = In("failed")
      /\ Begun' = Begun
  BY DEF In, Begun
<1>2. Repeated' = Repeated BY <1>1 DEF Repeated, Recorded
<1>3. TotalOf(attempt, Executions)' = TotalOf(attempt, Executions) BY DEF TotalOf, MapThenSumSet, MapThenFoldSet
<1> QED BY <1>1, <1>2, <1>3 DEF TotalsInv

LEMMA CountKeepsTotals ==
  ASSUME StatsInv, NEW e \in Executions, Count(e) PROVE TotalsInv'
<1>1. /\ pc[e] = "count" /\ UNCHANGED resets
      /\ pc' = [pc EXCEPT ![e] = "check"] /\ attempt' = [attempt EXCEPT ![e] = attempt[e] + 1]
      /\ stats' = [stats EXCEPT !.attempts = stats.attempts + 1]
  BY DEF Count, Move
<1>2. /\ \A f \in Executions : attempt[f] \in Nat
      /\ \A f \in Executions : attempt'[f] = IF f \in {e} THEN attempt[f] + 1 ELSE attempt[f]
      /\ \A f \in Executions : pc'[f] = IF f = e THEN "check" ELSE pc[f]
  BY <1>1 DEF StatsInv, AttemptsInv
<1>3. stats.attempts \in Nat BY DEF StatsInv, AverageInv, Statistics
<1>4. /\ stats'.attempts = stats.attempts + 1
      /\ stats'.successes = stats.successes /\ stats'.failures = stats.failures
      /\ stats'.retries = stats.retries /\ stats'.average = stats.average
  BY <1>1, <1>3 DEF StatsInv, AverageInv, Statistics
<1>5. TotalOf(attempt, Executions)' = TotalOf(attempt, Executions) + 1
  <2>1. Cardinality({e}) * 1 = 1 BY FS_Singleton
  <2>2. TotalOf(attempt', Executions) = TotalOf(attempt, Executions) + Cardinality({e}) * 1
    BY <1>2, RetryAssumption, TotalGrows
  <2> QED BY <2>1, <2>2 DEF TotalOf, MapThenSumSet, MapThenFoldSet
<1>6. Cardinality(Begun') <= Cardinality(Begun) + 1
  <2>1. Begun' \in SUBSET (Begun \cup {e}) BY <1>2 DEF Begun
  <2>2. IsFiniteSet(Begun) /\ Cardinality(Begun) \in Nat BY Finite DEF Begun
  <2>3. IsFiniteSet(Begun \cup {e}) /\ Cardinality(Begun \cup {e}) <= Cardinality(Begun) + 1
    BY <2>2, FS_AddElement
  <2>4. Cardinality(Begun') <= Cardinality(Begun \cup {e}) BY <2>1, <2>3, FS_Subset
  <2>5. Begun \cup {e} \in SUBSET Executions /\ Begun' \in SUBSET Executions
    BY DEF Begun
  <2>6. Cardinality(Begun \cup {e}) \in Nat /\ Cardinality(Begun') \in Nat BY <2>5, Finite
  <2> QED BY <2>2, <2>3, <2>4, <2>6
<1>7. In("succeeded")' = In("succeeded") /\ In("failed")' = In("failed")
  BY <1>1, <1>2 DEF In
<1>8. Repeated' = Repeated BY <1>1, <1>2, <1>7 DEF Repeated, Recorded, In
<1>9. \A f \in Executions : pc'[f] \in Attempting => attempt'[f] > 0
  BY <1>2 DEF StatsInv, TotalsInv
<1>10. Cardinality(Begun) \in Nat /\ Cardinality(Begun') \in Nat BY Finite DEF Begun
<1>11. ASSUME resets' = 0
       PROVE  /\ stats'.attempts = TotalOf(attempt, Executions)'
              /\ stats'.attempts >= Cardinality(Begun')
  BY <1>1, <1>3, <1>4, <1>5, <1>6, <1>10, <1>11 DEF StatsInv, TotalsInv
<1> QED BY <1>1, <1>4, <1>7, <1>8, <1>9, <1>11 DEF StatsInv, TotalsInv

\* An execution e is recorded, and counts as a retry if it had several attempts.
LEMMA RecordedOnce ==
  ASSUME StatsInv, NEW e \in Executions, NEW from \in {"success", "failure"},
         NEW end \in {"succeeded", "failed"}, Move(e, from, end), UNCHANGED attempt
  PROVE  /\ \A other \in {"succeeded", "failed"} :
              Cardinality(In(other)') = Cardinality(In(other)) + IF other = end THEN 1 ELSE 0
         /\ Cardinality(Repeated') = Cardinality(Repeated) + Retried(e)
         /\ Begun' = Begun
         /\ Cardinality(In("succeeded")') + Cardinality(In("failed")') <= Cardinality(Begun)
<1>1. pc[e] = from /\ \A f \in Executions : pc'[f] = IF f = e THEN end ELSE pc[f]
  BY DEF Move, StatsInv, AttemptsInv
<1>2. ASSUME NEW other \in {"succeeded", "failed"}
      PROVE  Cardinality(In(other)') = Cardinality(In(other)) + IF other = end THEN 1 ELSE 0
  <2>1. IsFiniteSet(In(other)) /\ Cardinality(In(other)) \in Nat BY Finite DEF In
  <2>2. CASE other = end
    <3>1. In(other)' = In(other) \cup {e} /\ e \notin In(other) BY <1>1, <2>2 DEF In
    <3> QED BY <2>1, <2>2, <3>1, FS_AddElement
  <2>3. CASE other # end
    <3>1. In(other)' = In(other) BY <1>1, <2>3 DEF In
    <3> QED BY <2>1, <2>3, <3>1
  <2> QED BY <2>2, <2>3
<1>3. Cardinality(Repeated') = Cardinality(Repeated) + Retried(e)
  <2>1. IsFiniteSet(Repeated) /\ Cardinality(Repeated) \in Nat
    BY Finite DEF Repeated, Recorded, In
  <2>2. attempt[e] \in Nat BY DEF StatsInv, AttemptsInv
  <2>3. CASE attempt[e] > 1
    <3>1. Repeated' = Repeated \cup {e} /\ e \notin Repeated
      BY <1>1, <2>3 DEF Repeated, Recorded, In
    <3> QED BY <2>1, <2>3, <3>1, FS_AddElement DEF Retried
  <2>4. CASE ~(attempt[e] > 1)
    <3>1. Repeated' = Repeated BY <1>1, <2>4 DEF Repeated, Recorded, In
    <3> QED BY <2>1, <2>4, <3>1 DEF Retried
  <2> QED BY <2>3, <2>4
<1>4. Begun' = Begun BY DEF Begun
<1>5. Cardinality(In("succeeded")') + Cardinality(In("failed")') <= Cardinality(Begun)
  <2> DEFINE A == In("succeeded")'
             B == In("failed")'
  <2>1. attempt[e] > 0 BY <1>1 DEF StatsInv, TotalsInv, Attempting
  <2>2. A \cup B \in SUBSET Begun
    BY <1>1, <2>1 DEF In, Begun, StatsInv, TotalsInv, Attempting
  <2>3. A \cap B = {} /\ A \in SUBSET Executions /\ B \in SUBSET Executions BY DEF In
  <2>4. Begun \in SUBSET Executions BY DEF Begun
  <2> HIDE DEF A, B
  <2>5. /\ IsFiniteSet(A) /\ IsFiniteSet(B) /\ IsFiniteSet(Begun)
        /\ Cardinality(A) \in Nat /\ Cardinality(B) \in Nat
    BY <2>3, <2>4, Finite
  <2>6. Cardinality(A \cup B) = Cardinality(A) + Cardinality(B) - Cardinality(A \cap B)
    BY <2>5, FS_Union
  <2>7. Cardinality(A \cap B) = 0 BY <2>3, FS_EmptySet
  <2>8. Cardinality(A \cup B) <= Cardinality(Begun) BY <2>2, <2>5, FS_Subset
  <2>9. Cardinality(A) + Cardinality(B) <= Cardinality(Begun)
    BY <2>5, <2>6, <2>7, <2>8
  <2> QED BY <2>9 DEF A, B
<1> QED BY <1>2, <1>3, <1>4, <1>5

\* One more success or failure, the retry it may be, and then the average.
LEMMA RecordKeepsTotals ==
  ASSUME StatsInv, NEW e \in Executions, UNCHANGED <<attempt, resets>>,
         NEW from, NEW end, NEW s \in Statistics,
         \/ /\ from = "success" /\ end = "succeeded"
            /\ s = [stats EXCEPT !.successes = stats.successes + 1,
                                 !.retries = stats.retries + Retried(e)]
         \/ /\ from = "failure" /\ end = "failed"
            /\ s = [stats EXCEPT !.failures = stats.failures + 1,
                                 !.retries = stats.retries + Retried(e)],
         Move(e, from, end), stats' = WithAverage(s)
  PROVE  TotalsInv'
<1>1. from \in {"success", "failure"} /\ end \in {"succeeded", "failed"} OBVIOUS
<1>2. stats \in Statistics /\ Retried(e) \in Nat
  BY DEF StatsInv, AverageInv, Retried
<1>3. /\ s.attempts = stats.attempts /\ s.retries = stats.retries + Retried(e)
      /\ s.successes = stats.successes + IF end = "succeeded" THEN 1 ELSE 0
      /\ s.failures = stats.failures + IF end = "failed" THEN 1 ELSE 0
  <2>1. CASE end = "succeeded"
    <3>1. s = [stats EXCEPT !.successes = stats.successes + 1,
                            !.retries = stats.retries + Retried(e)]
      BY <2>1
    <3>2. /\ s.attempts = stats.attempts /\ s.retries = stats.retries + Retried(e)
          /\ s.successes = stats.successes + 1 /\ s.failures = stats.failures
      BY <1>2, <3>1 DEF Statistics
    <3>3. stats.failures + 0 = stats.failures BY <1>2 DEF Statistics
    <3> QED BY <2>1, <3>2, <3>3
  <2>2. CASE end = "failed"
    <3>1. s = [stats EXCEPT !.failures = stats.failures + 1,
                            !.retries = stats.retries + Retried(e)]
      BY <2>2
    <3>2. /\ s.attempts = stats.attempts /\ s.retries = stats.retries + Retried(e)
          /\ s.failures = stats.failures + 1 /\ s.successes = stats.successes
      BY <1>2, <3>1 DEF Statistics
    <3>3. stats.successes + 0 = stats.successes BY <1>2 DEF Statistics
    <3> QED BY <2>2, <3>2, <3>3
  <2> QED BY <1>1, <2>1, <2>2
<1>4. /\ stats'.attempts = s.attempts /\ stats'.retries = s.retries
      /\ stats'.successes = s.successes /\ stats'.failures = s.failures
      /\ stats'.average.over = s.attempts /\ stats'.average.of = s.successes + s.failures
  BY DEF WithAverage, Statistics
<1>5. /\ \A other \in {"succeeded", "failed"} :
           Cardinality(In(other)') = Cardinality(In(other)) + IF other = end THEN 1 ELSE 0
      /\ Cardinality(Repeated') = Cardinality(Repeated) + Retried(e)
      /\ Begun' = Begun
      /\ Cardinality(In("succeeded")') + Cardinality(In("failed")') <= Cardinality(Begun)
  BY <1>1, RecordedOnce
<1>6. /\ Cardinality(In("succeeded")') = Cardinality(In("succeeded"))
                                          + IF end = "succeeded" THEN 1 ELSE 0
      /\ Cardinality(In("failed")') = Cardinality(In("failed"))
                                       + IF end = "failed" THEN 1 ELSE 0
  BY <1>5
<1>7. TotalOf(attempt, Executions)' = TotalOf(attempt, Executions)
  BY DEF TotalOf, MapThenSumSet, MapThenFoldSet
<1>8. \A f \in Executions : pc'[f] \in Attempting => attempt'[f] > 0
  <2>1. pc[e] = from /\ \A f \in Executions : pc'[f] = IF f = e THEN end ELSE pc[f]
    BY DEF Move, StatsInv, AttemptsInv
  <2> QED BY <1>1, <2>1 DEF StatsInv, TotalsInv, Attempting
<1>9. Cardinality(Begun) \in Nat BY Finite DEF Begun
<1>10. ASSUME resets' = 0
       PROVE  /\ stats'.attempts = TotalOf(attempt, Executions)'
              /\ stats'.attempts >= Cardinality(Begun')
              /\ stats'.successes = Cardinality(In("succeeded")')
              /\ stats'.failures = Cardinality(In("failed")')
              /\ stats'.retries = Cardinality(Repeated')
              /\ stats'.average.over >= stats'.average.of
  <2>1. /\ stats.attempts = TotalOf(attempt, Executions)
        /\ stats.attempts >= Cardinality(Begun)
        /\ stats.successes = Cardinality(In("succeeded"))
        /\ stats.failures = Cardinality(In("failed"))
        /\ stats.retries = Cardinality(Repeated)
    BY <1>10 DEF StatsInv, TotalsInv
  <2>2. stats.attempts \in Nat BY <1>2 DEF Statistics
  <2>3. s.successes = Cardinality(In("succeeded")') /\ s.failures = Cardinality(In("failed")')
    BY <1>3, <1>6, <2>1
  <2>4. s.successes \in Nat /\ s.failures \in Nat BY DEF Statistics
  <2>5. s.attempts >= s.successes + s.failures
    BY <1>3, <1>5, <1>9, <2>1, <2>2, <2>3, <2>4
  <2> QED BY <1>3, <1>4, <1>5, <1>7, <2>1, <2>3, <2>5
<1>11. resets' \in Nat BY DEF StatsInv, TotalsInv
<1> QED BY <1>8, <1>10, <1>11 DEF TotalsInv

LEMMA NextKeepsTotals == StatsInv /\ [Next]_vars => TotalsInv'
<1> SUFFICES ASSUME StatsInv, [Next]_vars PROVE TotalsInv' OBVIOUS
<1>1. CASE Trip \/ UNCHANGED vars
  BY <1>1, NothingKeepsTotals DEF Trip, vars, StatsInv
<1>2. CASE ResetStats
  <2>1. resets' \in Nat /\ resets' # 0 BY <1>2 DEF ResetStats, StatsInv, TotalsInv
  <2>2. \A f \in Executions : pc'[f] \in Attempting => attempt'[f] > 0
    BY <1>2 DEF ResetStats, StatsInv, TotalsInv
  <2> QED BY <2>1, <2>2 DEF TotalsInv
<1>3. ASSUME NEW e \in Executions, Execute(e) PROVE TotalsInv'
  BY <1>3, MoveKeepsTotals DEF Execute, Attempting
<1>4. ASSUME NEW e \in Executions, Cancel(e) PROVE TotalsInv'
  BY <1>4, NothingKeepsTotals DEF Cancel, StatsInv
<1>5. ASSUME NEW e \in Executions, Step(e) PROVE TotalsInv'
  <2>1. CASE Count(e) BY <2>1, CountKeepsTotals
  <2>2. CASE Check(e)
    <3>1. PICK to \in {"cancelled", "refused", "run"} :
            Move(e, "check", to) /\ UNCHANGED <<attempt, stats, resets>>
      BY <2>2 DEF Check
    <3> QED BY <3>1, MoveKeepsTotals DEF Attempting
  <2>3. CASE Run(e)
    <3>1. PICK to \in {"success", "error"} :
            Move(e, "run", to) /\ UNCHANGED <<attempt, stats, resets>>
      BY <2>3 DEF Run
    <3> QED BY <3>1, MoveKeepsTotals DEF Attempting
  <2>4. stats \in Statistics /\ Retried(e) \in Nat BY DEF StatsInv, AverageInv, Retried
  <2>5. CASE RecordSuccess(e)
    <3> DEFINE s == [stats EXCEPT !.successes = stats.successes + 1,
                                  !.retries = stats.retries + Retried(e)]
    <3>1. s \in Statistics BY <2>4, SuccessType
    <3>2. /\ stats' = WithAverage(s) /\ UNCHANGED <<attempt, resets>>
          /\ Move(e, "success", "succeeded")
      BY <2>5 DEF RecordSuccess
    <3> QED BY <3>1, <3>2, RecordKeepsTotals
  <2>6. CASE RecordFailure(e)
    <3> DEFINE s == [stats EXCEPT !.failures = stats.failures + 1,
                                  !.retries = stats.retries + Retried(e)]
    <3>1. s \in Statistics BY <2>4, FailureType
    <3>2. /\ stats' = WithAverage(s) /\ UNCHANGED <<attempt, resets>>
          /\ Move(e, "failure", "failed")
      BY <2>6 DEF RecordFailure
    <3> QED BY <3>1, <3>2, RecordKeepsTotals
  <2>7. CASE Decide(e)
    <3>1. PICK to \in {"failure", "delay"} :
            Move(e, "error", to) /\ UNCHANGED <<attempt, stats, resets>>
      BY <2>7 DEF Decide
    <3> QED BY <3>1, MoveKeepsTotals DEF Attempting
  <2>8. CASE Delay(e)
    <3>1. PICK to \in {"wait", "count"} :
            Move(e, "delay", to) /\ UNCHANGED <<attempt, stats, resets>>
      BY <2>8 DEF Delay
    <3> QED BY <3>1, MoveKeepsTotals DEF Attempting
  <2>9. CASE Wait(e)
    <3>1. PICK to \in {"cancelled", "count"} :
            Move(e, "wait", to) /\ UNCHANGED <<attempt, stats, resets>>
      BY <2>9 DEF Wait
    <3> QED BY <3>1, MoveKeepsTotals DEF Attempting
  <2> QED BY <1>5, <2>1, <2>2, <2>3, <2>5, <2>6, <2>7, <2>8, <2>9 DEF Step
<1> QED BY <1>1, <1>2, <1>3, <1>4, <1>5 DEF Next

\* Whenever the statistics are read they are those of the executions that ended,
\* each counted once, and their average is that of their own totals, with
\* executions and resets in any order (updateStats, GetStats, ResetStats).
THEOREM StatisticsAddUp == Spec => []StatsAddUp
<1>1. Spec => []AttemptsInv BY InitAttempts, NextKeepsAttempts, PTL DEF Spec
<1>2. Spec => []AverageInv BY InitAverage, NextKeepsAverage, PTL DEF Spec
<1>3. AttemptsInv /\ AverageInv /\ TotalsInv => StatsInv BY DEF StatsInv
<1>4. Spec => []StatsInv
  BY <1>1, <1>2, <1>3, InitTotals, NextKeepsTotals, PTL DEF Spec
<1>5. StatsInv => StatsAddUp
  BY DEF StatsInv, AverageInv, TotalsInv, StatsAddUp, TotalsAddUp, AverageOfTotals,
         TotalOf, Repeated
<1> QED BY <1>4, <1>5, PTL

-----------------------------------------------------------------------------
\* The upper end of the range is an integer and not above the cap, whatever the
\* product wraps to (DecorrelatedJitterBackoff.NextDelay).
LEMMA LimitBelowCap ==
  ASSUME D!InRange PROVE D!Limit \in Int /\ D!Limit <= CapDelay
<1>1. prevDelay * 3 \in Int BY DelaysAssumption DEF D!InRange
<1>2. D!Wrap(prevDelay * 3) \in Int
  BY <1>1, DelaysAssumption DEF D!Wrap, D!MinInt
<1> QED BY <1>2, DelaysAssumption DEF D!Limit

\* A decorrelated delay is never below the base nor above the cap, however often
\* three times the previous delay wraps around (DecorrelatedJitterBackoff).
THEOREM StaysInRange == DelaysSpec => []D!InRange
<1>1. DelaysInit => D!InRange
  BY DelaysAssumption DEF DelaysInit, D!Init, D!InRange
<1>2. D!InRange /\ [DelaysNext]_delaysVars => D!InRange'
  <2> SUFFICES ASSUME D!InRange, [DelaysNext]_delaysVars PROVE D!InRange' OBVIOUS
  <2>1. CASE D!NextDelay
    BY <2>1, LimitBelowCap, DelaysAssumption DEF D!NextDelay, D!InRange
  <2>2. CASE D!Reset BY <2>2, DelaysAssumption DEF D!Reset, D!InRange
  <2>3. CASE UNCHANGED prevDelay BY <2>3 DEF D!InRange
  <2> QED BY <2>1, <2>2, <2>3 DEF DelaysNext, Formula, Fibonacci, Decorrelated, D!Next, delaysVars
<1> QED BY <1>1, <1>2, PTL DEF DelaysSpec

-----------------------------------------------------------------------------
\* The outermost mark of an error that has one.
LEMMA OutermostIs ==
  ASSUME NEW e \in Seq(Layers), Marks(e) # {}
  PROVE  Outermost(e) \in Marks(e) /\ \A j \in Marks(e) : Outermost(e) <= j
<1>1. Len(e) \in Nat OBVIOUS
<1>2. Marks(e) \subseteq Nat BY <1>1 DEF Marks
<1>3. PICK i \in Marks(e) : \A j \in Marks(e) : <<j, i>> \notin Below
  BY <1>2, WFMin, BelowIsWellFounded
<1>4. ASSUME NEW j \in Marks(e) PROVE i <= j
  <2>1. i \in Nat /\ j \in Nat BY <1>2, <1>3
  <2>2. ~(j < i) BY <1>3, <2>1 DEF Below
  <2> QED BY <2>1, <2>2
<1> QED BY <1>3, <1>4 DEF Outermost

\* A root worth a retry with nothing but *PipelineErrors around it.
Worth(e) ==
  /\ e # <<>> /\ e[Len(e)] \in {"timeout", "poolFull"}
  /\ \A i \in 1..Len(e) - 1 : e[i] = "pipeline"

Decided(e) == IsRetryable(e) \/ (Marks(e) = {} /\ Worth(e))

LEMMA MarkedIs ==
  ASSUME NEW e \in Seq(Layers)
  PROVE  /\ Marks(e) # {} => (IsRetryable(e) <=> e[Outermost(e)] = "retryable")
         /\ Marks(e) = {} => ~IsRetryable(e)
<1>1. ASSUME NEW i \in 1..Len(e), e[i] = "retryable" PROVE i \in Marks(e) BY <1>1 DEF Marks
<1>2. ASSUME IsRetryable(e) PROVE Marks(e) # {} /\ e[Outermost(e)] = "retryable"
  <2>1. PICK i \in 1..Len(e) : /\ e[i] = "retryable"
                               /\ \A j \in 1..i - 1 : e[j] \notin {"retryable", "permanent"}
    BY <1>2 DEF IsRetryable
  <2>2. i \in Marks(e) BY <1>1, <2>1
  <2>3. PICK o : o = Outermost(e) OBVIOUS
  <2>4. o \in Marks(e) /\ o <= i BY <2>2, <2>3, OutermostIs
  <2>5. o \in 1..Len(e) /\ e[o] \in {"retryable", "permanent"} BY <2>4 DEF Marks
  <2>6. o = i BY <2>1, <2>4, <2>5
  <2> QED BY <2>1, <2>2, <2>3, <2>6
<1>3. ASSUME Marks(e) # {}, e[Outermost(e)] = "retryable" PROVE IsRetryable(e)
  <2>1. PICK o : o = Outermost(e) OBVIOUS
  <2>2. o \in Marks(e) /\ \A j \in Marks(e) : o <= j BY <1>3, <2>1, OutermostIs
  <2>3. o \in 1..Len(e) BY <2>2 DEF Marks
  <2>4. ASSUME NEW j \in 1..o - 1 PROVE e[j] \notin {"retryable", "permanent"}
    <3>1. j \in 1..Len(e) /\ ~(o <= j) BY <2>3
    <3>2. j \notin Marks(e) BY <2>2, <3>1
    <3> QED BY <3>1, <3>2 DEF Marks
  <2> QED BY <1>3, <2>1, <2>3, <2>4 DEF IsRetryable
<1> QED BY <1>2, <1>3

\* Nothing about an error changes with one *PipelineError around it.
LEMMA PipelineAround ==
  ASSUME NEW e \in Seq(Layers), e # <<>>, Head(e) = "pipeline"
  PROVE  /\ Tail(e) \in Seq(Layers) /\ Len(Tail(e)) = Len(e) - 1
         /\ IsRetryable(e) <=> IsRetryable(Tail(e))
         /\ Marks(e) = {} <=> Marks(Tail(e)) = {}
         /\ Worth(e) <=> Worth(Tail(e))
<1>1. PICK t : t = Tail(e) OBVIOUS
<1>2. PICK n : n = Len(e) OBVIOUS
<1>3. /\ n \in Nat /\ n >= 1 /\ t \in Seq(Layers) /\ Len(t) = n - 1 /\ e[1] = "pipeline"
      /\ \A i \in 1..n - 1 : t[i] = e[i + 1]
  BY <1>1, <1>2
<1>4. ASSUME IsRetryable(e) PROVE IsRetryable(t)
  <2>1. PICK i \in 1..n : /\ e[i] = "retryable"
                          /\ \A j \in 1..i - 1 : e[j] \notin {"retryable", "permanent"}
    BY <1>2, <1>4 DEF IsRetryable
  <2>2. i # 1 BY <1>3, <2>1
  <2>3. i - 1 \in 1..n - 1 /\ t[i - 1] = e[i]
    <3>1. i - 1 \in 1..n - 1 /\ i - 1 + 1 = i BY <2>2, <1>3
    <3> QED BY <3>1, <1>3
  <2>4. ASSUME NEW j \in 1..i - 1 - 1 PROVE t[j] \notin {"retryable", "permanent"}
    <3>1. j + 1 \in 1..i - 1 /\ j \in 1..n - 1 BY <1>3
    <3> QED BY <3>1, <2>1, <1>3
  <2> QED BY <1>3, <2>1, <2>3, <2>4 DEF IsRetryable
<1>5. ASSUME IsRetryable(t) PROVE IsRetryable(e)
  <2>1. PICK i \in 1..n - 1 : /\ t[i] = "retryable"
                              /\ \A j \in 1..i - 1 : t[j] \notin {"retryable", "permanent"}
    BY <1>3, <1>5 DEF IsRetryable
  <2>2. i + 1 \in 1..n /\ e[i + 1] = "retryable" BY <2>1, <1>3
  <2>3. ASSUME NEW j \in 1..i + 1 - 1 PROVE e[j] \notin {"retryable", "permanent"}
    <3>1. CASE j = 1 BY <3>1, <1>3
    <3>2. CASE j # 1
      <4>1. j - 1 \in 1..i - 1 /\ j - 1 \in 1..n - 1 /\ j - 1 + 1 = j BY <3>2, <2>1, <1>3
      <4> QED BY <4>1, <2>1, <1>3
    <3> QED BY <3>1, <3>2
  <2> QED BY <1>2, <2>2, <2>3 DEF IsRetryable
<1>6. ASSUME Marks(e) # {} PROVE Marks(t) # {}
  <2>1. PICK i \in 1..n : e[i] \in {"retryable", "permanent"} BY <1>2, <1>6 DEF Marks
  <2>2. i # 1 BY <1>3, <2>1
  <2>3. i - 1 \in 1..n - 1 /\ i - 1 + 1 = i BY <2>2, <1>3
  <2>4. t[i - 1] = e[i] BY <2>3, <1>3
  <2>5. i - 1 \in Marks(t) BY <2>1, <2>3, <2>4, <1>3 DEF Marks
  <2> QED BY <2>5
<1>7. ASSUME Marks(t) # {} PROVE Marks(e) # {}
  <2>1. PICK i \in 1..n - 1 : t[i] \in {"retryable", "permanent"} BY <1>3, <1>7 DEF Marks
  <2>2. i + 1 \in 1..n /\ e[i + 1] = t[i] BY <2>1, <1>3
  <2>3. i + 1 \in Marks(e) BY <2>1, <2>2, <1>2 DEF Marks
  <2> QED BY <2>3
<1>8. CASE n = 1
  <2>1. t = <<>> BY <1>3, <1>8
  <2>2. ~Worth(t) BY <2>1 DEF Worth
  <2>3. ~Worth(e) BY <1>2, <1>3, <1>8 DEF Worth
  <2> QED BY <1>1, <1>2, <1>3, <1>4, <1>5, <1>6, <1>7, <2>2, <2>3
<1>9. CASE n > 1
  <2>1. t # <<>> /\ t[n - 1] = e[n]
    <3>1. n - 1 \in 1..n - 1 /\ n - 1 + 1 = n BY <1>3, <1>9
    <3> QED BY <3>1, <1>3
  <2>2. ASSUME Worth(e) PROVE Worth(t)
    <3>1. ASSUME NEW i \in 1..n - 1 - 1 PROVE t[i] = "pipeline"
      <4>1. i \in 1..n - 1 /\ i + 1 \in 1..n - 1 BY <1>3
      <4> QED BY <4>1, <1>2, <1>3, <2>2 DEF Worth
    <3> QED BY <1>2, <1>3, <2>1, <2>2, <3>1 DEF Worth
  <2>3. ASSUME Worth(t) PROVE Worth(e)
    <3>1. ASSUME NEW i \in 1..n - 1 PROVE e[i] = "pipeline"
      <4>1. CASE i = 1 BY <4>1, <1>3
      <4>2. CASE i # 1
        <5>1. i - 1 \in 1..n - 1 - 1 /\ i - 1 \in 1..n - 1 /\ i - 1 + 1 = i BY <4>2, <1>3
        <5>2. t[i - 1] = "pipeline" BY <5>1, <1>3, <2>3 DEF Worth
        <5> QED BY <5>1, <5>2, <1>3
      <4> QED BY <4>1, <4>2
    <3> QED BY <1>2, <1>3, <2>1, <2>3, <3>1 DEF Worth
  <2> QED BY <1>1, <1>2, <1>3, <1>4, <1>5, <1>6, <1>7, <2>2, <2>3
<1> QED BY <1>3, <1>8, <1>9

\* What the recursion does with an error is what Decided says of it.
LEMMA DecidedStep ==
  ASSUME NEW e \in Seq(Layers)
  PROVE  Decided(e) <=> \/ IsRetryable(e)
                        \/ IF e # <<>> /\ Head(e) = "pipeline" THEN Decided(Tail(e))
                           ELSE RetryableErrorTypes(e)
<1>1. CASE e # <<>> /\ Head(e) = "pipeline" BY <1>1, PipelineAround DEF Decided
<1>2. CASE ~(e # <<>> /\ Head(e) = "pipeline")
  <2>1. ASSUME Worth(e) PROVE RetryableErrorTypes(e)
    <3>1. PICK n : n = Len(e) OBVIOUS
    <3>2. /\ e # <<>> /\ n \in Nat /\ n >= 1 /\ e[n] \in {"timeout", "poolFull"}
          /\ \A i \in 1..n - 1 : e[i] = "pipeline"
      BY <2>1, <3>1 DEF Worth
    <3>3. n = 1
      <4>1. ASSUME n > 1 PROVE FALSE
        <5>1. 1 \in 1..n - 1 BY <4>1, <3>2
        <5>2. e[1] = "pipeline" BY <5>1, <3>2
        <5> QED BY <5>2, <3>2, <1>2
      <4> QED BY <4>1, <3>2
    <3>4. e = <<e[1]>>
      <4>1. PICK r : r = <<e[1]>> OBVIOUS
      <4>2. r \in Seq(Layers) /\ Len(r) = 1 /\ r[1] = e[1] BY <4>1, <3>2, <3>3 DEF Layers, Roots
      <4>3. \A i \in 1..Len(e) : e[i] = r[i] BY <3>1, <3>3, <4>2
      <4> QED BY <3>1, <3>3, <4>1, <4>2, <4>3, SeqEqual
    <3> QED BY <3>2, <3>3, <3>4 DEF RetryableErrorTypes
  <2>2. ASSUME RetryableErrorTypes(e) PROVE Marks(e) = {} /\ Worth(e)
    <3>1. e = <<"timeout">> \/ e = <<"poolFull">> BY <2>2 DEF RetryableErrorTypes
    <3>2. Len(e) = 1 /\ e # <<>> /\ e[1] \in {"timeout", "poolFull"} BY <3>1
    <3>3. Marks(e) = {} BY <3>2 DEF Marks
    <3>4. Worth(e) BY <3>2 DEF Worth
    <3> QED BY <3>3, <3>4
  <2>3. IsRetryable(e) \/ Marks(e) = {} \/ ~RetryableErrorTypes(e) BY <2>2
  <2>4. ASSUME Marks(e) = {}, Worth(e) PROVE RetryableErrorTypes(e) BY <2>1, <2>4
  <2> QED BY <1>2, <2>2, <2>4 DEF Decided
<1> QED BY <1>1, <1>2

\* So the recursion has a value for every error, and it is Decided.
LEMMA ConditionDecides == \A e \in Seq(Layers) : Condition[e] <=> Decided(e)
<1> DEFINE Rhs(f, e) == \/ IsRetryable(e)
                        \/ IF e # <<>> /\ Head(e) = "pipeline" THEN f[Tail(e)]
                           ELSE RetryableErrorTypes(e)
           h == [e \in Seq(Layers) |-> Decided(e)]
           Fixed(f) == f = [e \in Seq(Layers) |-> Rhs(f, e)]
<1>1. ASSUME NEW e \in Seq(Layers) PROVE h[e] = Rhs(h, e)
  <2>1. CASE e # <<>> /\ Head(e) = "pipeline"
    <3>1. Tail(e) \in Seq(Layers) BY <2>1, PipelineAround
    <3>2. h[Tail(e)] = Decided(Tail(e)) BY <3>1
    <3>3. h[e] = Decided(e) OBVIOUS
    <3>4. Decided(e) <=> (IsRetryable(e) \/ Decided(Tail(e))) BY <2>1, DecidedStep
    <3>5. Rhs(h, e) <=> (IsRetryable(e) \/ h[Tail(e)]) BY <2>1
    <3>6. Decided(e) \in BOOLEAN BY DEF Decided, IsRetryable
    <3>7. Rhs(h, e) \in BOOLEAN OBVIOUS
    <3> HIDE DEF h, Rhs
    <3> QED BY <3>2, <3>3, <3>4, <3>5, <3>6, <3>7
  <2>2. CASE ~(e # <<>> /\ Head(e) = "pipeline")
    <3>1. h[e] = Decided(e) OBVIOUS
    <3>2. Decided(e) <=> (IsRetryable(e) \/ RetryableErrorTypes(e)) BY <2>2, DecidedStep
    <3>3. Rhs(h, e) <=> (IsRetryable(e) \/ RetryableErrorTypes(e)) BY <2>2
    <3>4. Decided(e) \in BOOLEAN BY DEF Decided, IsRetryable
    <3>5. Rhs(h, e) \in BOOLEAN OBVIOUS
    <3> HIDE DEF h, Rhs
    <3> QED BY <3>1, <3>2, <3>3, <3>4, <3>5
  <2> QED BY <2>1, <2>2
<1>2. Fixed(h)
  <2>1. h = [e \in Seq(Layers) |-> h[e]] OBVIOUS
  <2> HIDE DEF h, Rhs
  <2> QED BY <1>1, <2>1
<1>3. \E f : Fixed(f)
  <2> HIDE DEF h, Fixed
  <2> QED BY <1>2
<1>4. PICK f : f = Condition OBVIOUS
<1>5. f = CHOOSE g : g = [e \in Seq(Layers) |-> Rhs(g, e)] BY <1>4 DEF Condition
<1>6. Fixed(f) BY <1>3, <1>5
<1>7. \A e \in Seq(Layers) : f[e] <=> Rhs(f, e)
  <2> HIDE DEF Rhs
  <2> QED BY <1>6
<1> DEFINE A == {n \in Nat : \A e \in Seq(Layers) : Len(e) = n => (f[e] <=> Decided(e))}
<1>8. ASSUME NEW e \in Seq(Layers), ~(e # <<>> /\ Head(e) = "pipeline")
      PROVE  f[e] <=> Decided(e)
  <2>1. f[e] <=> (IsRetryable(e) \/ RetryableErrorTypes(e)) BY <1>7, <1>8
  <2> QED BY <2>1, <1>8, DecidedStep
<1>9. 0 \in A
  <2>1. ASSUME NEW e \in Seq(Layers), Len(e) = 0 PROVE f[e] <=> Decided(e)
    <3>1. e = <<>> BY <2>1
    <3> QED BY <3>1, <1>8
  <2> QED BY <2>1
<1>10. ASSUME NEW n \in A PROVE n + 1 \in A
  <2>1. ASSUME NEW e \in Seq(Layers), Len(e) = n + 1 PROVE f[e] <=> Decided(e)
    <3>1. CASE e # <<>> /\ Head(e) = "pipeline"
      <4>1. Tail(e) \in Seq(Layers) /\ Len(Tail(e)) = n BY <2>1, <3>1, <1>10, PipelineAround
      <4>2. f[Tail(e)] <=> Decided(Tail(e)) BY <4>1, <1>10
      <4>3. f[e] <=> (IsRetryable(e) \/ f[Tail(e)]) BY <3>1, <1>7
      <4>4. Decided(e) <=> (IsRetryable(e) \/ Decided(Tail(e))) BY <3>1, DecidedStep
      <4> QED BY <4>2, <4>3, <4>4
    <3> QED BY <3>1, <1>8
  <2> QED BY <2>1, <1>10
<1>11. A = Nat
  <2>1. A \in SUBSET Nat OBVIOUS
  <2> HIDE DEF A
  <2> QED BY <1>9, <1>10, <2>1, NaturalInduction
<1>12. ASSUME NEW e \in Seq(Layers) PROVE f[e] <=> Decided(e)
  <2>1. Len(e) \in A BY <1>11
  <2> QED BY <2>1
<1> QED BY <1>4, <1>12

ErrorsInv == error \in Seq(Layers) /\ error # <<>>

LEMMA MarksDecide == ErrorsInv => MarkDecides
<1> SUFFICES ASSUME ErrorsInv PROVE MarkDecides OBVIOUS
<1>1. error \in Seq(Layers) /\ error # <<>> BY DEF ErrorsInv
<1>2. DefaultRetryCondition(error) <=> Decided(error)
  BY <1>1, ConditionDecides DEF DefaultRetryCondition
<1>3. CASE Marks(error) # {}
  <2>1. Decided(error) <=> error[Outermost(error)] = "retryable"
    BY <1>1, <1>3, MarkedIs DEF Decided
  <2> QED BY <1>2, <1>3, <2>1 DEF MarkDecides
<1>4. CASE Marks(error) = {}
  <2>1. Decided(error) <=> Worth(error) BY <1>1, <1>4, MarkedIs DEF Decided
  <2> QED BY <1>1, <1>2, <1>4, <2>1 DEF MarkDecides, Worth
<1> QED BY <1>3, <1>4

LEMMA WrappedIs ==
  ASSUME NEW e \in Seq(Layers), NEW layer \in Layers
  PROVE  /\ Wrapped(layer, e) \in Seq(Layers) /\ Wrapped(layer, e) # <<>>
         /\ Head(Wrapped(layer, e)) = layer /\ Tail(Wrapped(layer, e)) = e
<1>1. PICK w : w = Wrapped(layer, e) OBVIOUS
<1>2. PICK s : s = <<layer>> OBVIOUS
<1>3. s \in Seq(Layers) /\ Len(s) = 1 /\ s[1] = layer BY <1>2
<1>4. /\ w \in Seq(Layers) /\ Len(w) = Len(e) + 1 /\ w[1] = layer
      /\ \A i \in 1..Len(e) : w[i + 1] = e[i]
  BY <1>1, <1>2, <1>3 DEF Wrapped
<1>5. w # <<>> BY <1>4
<1>6. /\ Tail(w) \in Seq(Layers) /\ Len(Tail(w)) = Len(e)
      /\ \A i \in 1..Len(e) : Tail(w)[i] = e[i]
  BY <1>4, <1>5
<1>7. Tail(w) = e BY <1>6, SeqEqual
<1> QED BY <1>1, <1>4, <1>5, <1>7

\* However an error comes by its next layer its outermost mark decides, and an
\* outer executor decides about it as the inner one did, for errors of any depth
\* (DefaultRetryCondition, isRetryableError, IsRetryable, wrapError).
THEOREM VerdictsSurvive == ErrorsSpec => VerdictSurvivesWrapping
<1>1. ErrorsInit => ErrorsInv
  <2> SUFFICES ASSUME ErrorsInit PROVE ErrorsInv OBVIOUS
  <2>1. PICK root \in Roots : error = <<root>> BY DEF ErrorsInit
  <2> QED BY <2>1 DEF ErrorsInv, Layers
<1>2. ASSUME ErrorsInv, ErrorsNext PROVE ErrorsInv'
  <2>1. error \in Seq(Layers) /\ error # <<>> BY <1>2 DEF ErrorsInv
  <2>2. "pipeline" \in Layers /\ \A layer \in Wrappers : layer \in Layers
    BY DEF Layers, Wrappers
  <2>3. CASE ThroughExecutor BY <2>1, <2>2, <2>3, WrappedIs DEF ThroughExecutor, wrapError, ErrorsInv
  <2>4. ASSUME NEW layer \in Wrappers, AddLayer(layer) PROVE ErrorsInv'
    BY <2>1, <2>2, <2>4, WrappedIs DEF AddLayer, ErrorsInv
  <2> QED BY <1>2, <2>3, <2>4 DEF ErrorsNext
<1>3. ASSUME ErrorsInv, ThroughExecutor
      PROVE  DefaultRetryCondition(error)' <=> DefaultRetryCondition(error)
  <2>1. error \in Seq(Layers) /\ error # <<>> /\ error' = wrapError(error)
    BY <1>3 DEF ErrorsInv, ThroughExecutor
  <2>2. CASE Head(error) = "pipeline"
    <3>1. error' = error BY <2>1, <2>2 DEF wrapError
    <3> QED BY <3>1 DEF DefaultRetryCondition
  <2>3. CASE Head(error) # "pipeline"
    <3>1. PICK w : w = Wrapped("pipeline", error) OBVIOUS
    <3>2. error' = w BY <2>1, <2>3, <3>1 DEF wrapError
    <3>3. w \in Seq(Layers) /\ w # <<>> /\ Head(w) = "pipeline" /\ Tail(w) = error
      <4>1. "pipeline" \in Layers BY DEF Layers, Wrappers
      <4> QED BY <2>1, <3>1, <4>1, WrappedIs
    <3>4. Decided(w) <=> Decided(error) BY <3>3, PipelineAround DEF Decided
    <3>5. Condition[w] <=> Condition[error] BY <2>1, <3>3, <3>4, ConditionDecides
    <3> QED BY <3>2, <3>5 DEF DefaultRetryCondition
  <2> QED BY <2>2, <2>3
<1>4. ErrorsInv' => MarkDecides'
  <2>1. ErrorsInv => MarkDecides BY MarksDecide
  <2> QED BY <2>1, PTL
<1>5. ErrorsInv /\ [ErrorsNext]_error => ErrorsInv'
  <2>1. ASSUME ErrorsInv, UNCHANGED error PROVE ErrorsInv' BY <2>1 DEF ErrorsInv
  <2> QED BY <1>2, <2>1
<1> QED BY <1>1, <1>3, <1>4, <1>5, PTL DEF ErrorsSpec, VerdictSurvivesWrapping

-----------------------------------------------------------------------------
(***************************************************************************)
(* The registry.  Its inductive invariant is RegistryTypeOK and            *)
(* BindingsRegistered: binding a type keeps BindingsRegistered because     *)
(* each handler is registered under its own name, which is part of         *)
(* RegistryTypeOK.                                                         *)
(***************************************************************************)
RegistryInv == RegistryTypeOK /\ BindingsRegistered

LEMMA RegistryInitInv == RegistryInit => RegistryInv
  BY RegistryAssumption DEF RegistryInit, RegistryInv, RegistryTypeOK, BindingsRegistered, Registered

\* A name is taken only when it is free, so no binding pointed to it.
LEMMA RegisterKeeps ==
  ASSUME NEW h \in Handlers, RegistryInv, RegisterHandler(h) PROVE RegistryInv'
<1> USE RegistryAssumption DEF RegistryInv, RegistryTypeOK, BindingsRegistered, Registered, RegisterHandler
<1>1. Name[h] \in Names OBVIOUS
<1>2. RegistryTypeOK' BY <1>1
<1>3. ASSUME NEW t \in Types, typeHandlers[t] # NoHandler
      PROVE handlers'[Name[typeHandlers[t]]] = typeHandlers[t]
  <2>1. typeHandlers[t] \in Handlers /\ Name[typeHandlers[t]] \in Names
    BY <1>3
  <2>2. handlers[Name[typeHandlers[t]]] = typeHandlers[t] BY <1>3
  <2>3. Name[typeHandlers[t]] # Name[h] BY <1>3, <2>2
  <2> QED BY <1>1, <2>1, <2>2, <2>3
<1>4. BindingsRegistered' BY <1>3
<1> QED BY <1>2, <1>4

\* The bindings that remain have another name.
LEMMA UnregisterKeeps ==
  ASSUME NEW n \in Names, RegistryInv, UnregisterHandler(n) PROVE RegistryInv'
<1> USE RegistryAssumption DEF RegistryInv, RegistryTypeOK, BindingsRegistered, Registered, UnregisterHandler
<1>1. RegistryTypeOK' OBVIOUS
<1>2. ASSUME NEW t \in Types, typeHandlers'[t] # NoHandler
      PROVE handlers'[Name[typeHandlers'[t]]] = typeHandlers'[t]
  <2>1. /\ typeHandlers'[t] = typeHandlers[t] /\ typeHandlers[t] # NoHandler
        /\ Name[typeHandlers[t]] # n
    BY <1>2
  <2>2. Name[typeHandlers[t]] \in Names BY <2>1
  <2> QED BY <2>1, <2>2
<1>3. BindingsRegistered' BY <1>2
<1> QED BY <1>1, <1>3

\* The handler that is bound is registered under the name it was found by,
\* which is its own.
LEMMA BindKeeps ==
  ASSUME NEW t \in Types, NEW n \in Names, RegistryInv, BindErrorTypeToHandler(t, n)
  PROVE RegistryInv'
<1> USE RegistryAssumption
        DEF RegistryInv, RegistryTypeOK, BindingsRegistered, Registered, BindErrorTypeToHandler
<1>1. handlers[n] \in Handlers /\ Name[handlers[n]] = n OBVIOUS
<1>2. RegistryTypeOK' BY <1>1
<1>3. ASSUME NEW s \in Types, typeHandlers'[s] # NoHandler
      PROVE handlers'[Name[typeHandlers'[s]]] = typeHandlers'[s]
  <2>1. CASE s = t BY <1>1, <2>1
  <2>2. CASE s # t BY <1>3, <2>2
  <2> QED BY <2>1, <2>2
<1>4. BindingsRegistered' BY <1>3
<1> QED BY <1>2, <1>4

LEMMA RegistryStepInv == RegistryInv /\ [RegistryNext]_registryVars => RegistryInv'
<1> SUFFICES ASSUME RegistryInv, [RegistryNext]_registryVars PROVE RegistryInv' OBVIOUS
<1>1. ASSUME NEW h \in Handlers, RegisterHandler(h) PROVE RegistryInv'
  BY <1>1, RegisterKeeps
<1>2. ASSUME NEW h \in Handlers, SetDefaultHandler(h) PROVE RegistryInv'
  BY <1>2 DEF RegistryInv, RegistryTypeOK, BindingsRegistered, Registered, SetDefaultHandler
<1>3. ASSUME NEW n \in Names, UnregisterHandler(n) PROVE RegistryInv'
  BY <1>3, UnregisterKeeps
<1>4. ASSUME NEW t \in Types, UnbindErrorType(t) PROVE RegistryInv'
  <2>1. \A s \in Types : typeHandlers'[s] = IF s = t THEN NoHandler ELSE typeHandlers[s]
    BY <1>4 DEF UnbindErrorType, RegistryInv, RegistryTypeOK
  <2> QED BY <1>4, <2>1 DEF RegistryInv, RegistryTypeOK, BindingsRegistered, Registered, UnbindErrorType
<1>5. ASSUME NEW t \in Types, NEW n \in Names, BindErrorTypeToHandler(t, n) PROVE RegistryInv'
  BY <1>5, BindKeeps
<1>6. CASE UNCHANGED registryVars
  BY <1>6 DEF registryVars, RegistryInv, RegistryTypeOK, BindingsRegistered, Registered
<1> QED BY <1>1, <1>2, <1>3, <1>4, <1>5, <1>6 DEF RegistryNext

\* No binding outlives its handler, and every map keeps its type
\* (UnregisterHandler, BindErrorTypeToHandler).
THEOREM Bindings == RegistrySpec => [](RegistryTypeOK /\ BindingsRegistered)
<1>1. RegistrySpec => []RegistryInv
  BY RegistryInitInv, RegistryStepInv, PTL DEF RegistrySpec
<1> QED BY <1>1, PTL DEF RegistryInv

-----------------------------------------------------------------------------
(***************************************************************************)
(* The calls.  The invariant says what an answer of CanHandle is worth     *)
(* while the caller has not called HandleError yet.                        *)
(***************************************************************************)
Calls == [pc : {"idle", "found", "asked", "handled"}, type : Types,
          handler : Handlers \cup {NoHandler}, can : BOOLEAN, same : BOOLEAN,
          ignored : BOOLEAN]

CallsTyped == handling \in [Goroutines -> Calls]

\* An answer that is still to be used tells what the listed types are now.
AnswersHold ==
  \A c \in Goroutines :
    (handling[c].pc = "asked" /\ handling[c].same /\ handling[c].handler = ContinueOnError)
      => handling[c].can = Accepts(handling[c].type)

CallsInv == CallsTyped /\ AnswersHold /\ CanHandleAgrees

LEMMA FreshCall ==
  ASSUME NEW t \in Types, NEW h \in Handlers \cup {NoHandler},
         NEW at \in {"idle", "found", "asked", "handled"}
  PROVE  Call(at, t, h) \in Calls /\ Call(at, t, h).pc = at
  BY DEF Call, Calls

LEMMA CallsInit == HandlingInit => CallsInv
<1> SUFFICES ASSUME HandlingInit PROVE CallsInv
  OBVIOUS
<1>1. \A t \in Types : Call("idle", t, NoHandler) \in Calls
                      /\ Call("idle", t, NoHandler).pc = "idle"
  BY FreshCall
<1>2. handling \in [Goroutines -> {Call("idle", t, NoHandler) : t \in Types}]
  BY DEF HandlingInit
<1>3. CallsTyped /\ \A c \in Goroutines : handling[c].pc = "idle"
  BY <1>1, <1>2 DEF CallsTyped
<1>4. QED
  BY <1>3 DEF CallsInv, AnswersHold, CanHandleAgrees

\* For a plain error the two ways to look a type up are one.
LEMMA PlainLookup == ASSUME NEW t, Plain(t) PROVE Ignores(t) = Accepts(t)
  BY DEF Plain, Ignores, Accepts, LookupType

\* One call takes a step under a list of types that stays what it is.
LEMMA CallKeeps ==
  ASSUME CallsInv, UNCHANGED ignoredErrorTypes, NEW c \in Goroutines, NEW f \in Calls,
         handling' = [handling EXCEPT ![c] = f],
         (f.pc = "asked" /\ f.same /\ f.handler = ContinueOnError) => f.can = Accepts(f.type),
         (/\ f.pc = "handled" /\ f.same
          /\ f.handler = ContinueOnError /\ Plain(f.type)) => f.ignored = f.can
  PROVE  CallsInv'
<1>1. /\ handling' \in [Goroutines -> Calls]
      /\ \A d \in Goroutines : handling'[d] = IF d = c THEN f ELSE handling[d]
  BY DEF CallsInv, CallsTyped
<1>2. AnswersHold'
  BY <1>1 DEF CallsInv, AnswersHold, Accepts
<1>3. CanHandleAgrees'
  BY <1>1 DEF CallsInv, CanHandleAgrees
<1>4. QED
  BY <1>1, <1>2, <1>3 DEF CallsInv, CallsTyped

LEMMA CallerKeeps ==
  ASSUME RegistryTypeOK, CallsInv, NEW c \in Goroutines,
         GetHandlerForError(c) \/ CanHandle(c) \/ HandleError(c) \/ NextError(c)
  PROVE  CallsInv'
<1>0. handling[c] \in Calls /\ UNCHANGED ignoredErrorTypes
  BY DEF CallsInv, CallsTyped, GetHandlerForError, CanHandle, HandleError, NextError
<1>1. CASE GetHandlerForError(c)
  <2> DEFINE t == handling[c].type
             h == IF typeHandlers[t] # NoHandler THEN typeHandlers[t] ELSE defaultHandler
  <2>1. t \in Types /\ h \in Handlers \cup {NoHandler}
    BY <1>0 DEF Calls, RegistryTypeOK
  <2>2. handling' = [handling EXCEPT ![c] = Call("found", t, h)]
    BY <1>1 DEF GetHandlerForError
  <2> HIDE DEF t, h
  <2>3. Call("found", t, h) \in Calls /\ Call("found", t, h).pc = "found"
    BY <2>1, FreshCall
  <2>4. QED
    BY <1>0, <2>2, <2>3, CallKeeps
<1>2. CASE CanHandle(c)
  <2>1. PICK can \in BOOLEAN :
          /\ handling[c].handler = ContinueOnError => can = Accepts(handling[c].type)
          /\ handling' = [handling EXCEPT ![c].pc = "asked", ![c].can = can]
    BY <1>2 DEF CanHandle
  <2> DEFINE f == [handling[c] EXCEPT !.pc = "asked", !.can = can]
  <2>2. /\ f \in Calls /\ f.pc = "asked" /\ f.can = can
        /\ f.handler = handling[c].handler /\ f.type = handling[c].type
    BY <1>0 DEF Calls
  <2>3. handling' = [handling EXCEPT ![c] = f]
    BY <2>1
  <2> HIDE DEF f
  <2>4. QED
    BY <1>0, <2>1, <2>2, <2>3, CallKeeps
<1>3. CASE HandleError(c)
  <2>1. PICK ignored \in BOOLEAN :
          /\ handling[c].handler = ContinueOnError => ignored = Ignores(handling[c].type)
          /\ handling' = [handling EXCEPT ![c].pc = "handled", ![c].ignored = ignored]
    BY <1>3 DEF HandleError
  <2> DEFINE f == [handling[c] EXCEPT !.pc = "handled", !.ignored = ignored]
  <2>2. /\ f \in Calls /\ f.pc = "handled" /\ f.ignored = ignored /\ f.can = handling[c].can
        /\ f.handler = handling[c].handler /\ f.type = handling[c].type /\ f.same = handling[c].same
    BY <1>0 DEF Calls
  <2>3. handling' = [handling EXCEPT ![c] = f]
    BY <2>1
  <2> HIDE DEF f
  <2>4. handling[c].pc = "asked"
    BY <1>3 DEF HandleError
  <2>5. ASSUME f.same, f.handler = ContinueOnError, Plain(f.type) PROVE f.ignored = f.can
    <3>1. f.can = Accepts(f.type)
      BY <2>2, <2>4, <2>5 DEF CallsInv, AnswersHold
    <3>2. f.ignored = Ignores(f.type)
      BY <2>1, <2>2, <2>5
    <3>3. QED
      BY <2>5, <3>1, <3>2, PlainLookup
  <2>6. QED
    BY <1>0, <2>2, <2>3, <2>5, CallKeeps
<1>4. CASE NextError(c)
  <2>1. PICK t \in Types : handling' = [handling EXCEPT ![c] = Call("idle", t, NoHandler)]
    BY <1>4 DEF NextError
  <2>2. Call("idle", t, NoHandler) \in Calls /\ Call("idle", t, NoHandler).pc = "idle"
    BY FreshCall
  <2>3. QED
    BY <1>0, <2>1, <2>2, CallKeeps
<1>5. QED
  BY <1>1, <1>2, <1>3, <1>4

\* When the list changes, the answers given before are marked as of another list.
LEMMA TypesKeep ==
  ASSUME CallsInv, NEW types, TypesBecome(types) PROVE CallsInv'
<1>1. ignoredErrorTypes' = types /\ handling \in [Goroutines -> Calls]
  BY DEF TypesBecome, CallsInv, CallsTyped
<1>2. \A c \in Goroutines :
        handling'[c] = IF handling[c].pc = "asked" /\ types # ignoredErrorTypes
                   THEN [handling[c] EXCEPT !.same = FALSE] ELSE handling[c]
  BY DEF TypesBecome
<1>3. \A c \in Goroutines :
        /\ handling'[c] \in Calls /\ handling'[c].pc = handling[c].pc /\ handling'[c].can = handling[c].can
        /\ handling'[c].handler = handling[c].handler /\ handling'[c].type = handling[c].type
        /\ handling'[c].ignored = handling[c].ignored
        /\ handling'[c].same => handling[c].same
        /\ handling'[c].pc = "asked" /\ handling'[c].same => types = ignoredErrorTypes
  BY <1>1, <1>2 DEF Calls
<1>4. CallsTyped'
  <2>1. handling' = [c \in Goroutines |-> handling'[c]]
    BY DEF TypesBecome
  <2>2. QED
    BY <1>3, <2>1 DEF CallsTyped
<1>5. AnswersHold'
  BY <1>1, <1>3 DEF CallsInv, AnswersHold, Accepts
<1>6. CanHandleAgrees'
  BY <1>3 DEF CallsInv, CanHandleAgrees
<1>7. QED
  BY <1>4, <1>5, <1>6 DEF CallsInv

LEMMA CallsStep == RegistryInv /\ CallsInv /\ [HandlingNext]_handlingVars => CallsInv'
<1> SUFFICES ASSUME RegistryInv, CallsInv, [HandlingNext]_handlingVars PROVE CallsInv'
  OBVIOUS
<1>1. ASSUME UNCHANGED <<ignoredErrorTypes, handling>> PROVE CallsInv'
  BY <1>1 DEF CallsInv, CallsTyped, AnswersHold, Accepts, CanHandleAgrees
<1>2. ASSUME NEW t \in Types, AddIgnoredErrorType(t) \/ RemoveIgnoredErrorType(t)
      PROVE  CallsInv'
  BY <1>2, TypesKeep DEF AddIgnoredErrorType, RemoveIgnoredErrorType
<1>3. QED
  BY <1>1, <1>2, CallerKeeps DEF HandlingNext, handlingVars, RegistryInv

\* Handling errors, and changing what is ignored, is nothing to the registry: its
\* callers see a registry (GetHandlerForError, CanHandle, HandleError).
THEOREM HandlingIsARegistry == HandlingSpec => RegistrySpec
<1>1. HandlingInit => RegistryInit
  BY DEF HandlingInit
<1>2. [HandlingNext]_handlingVars => [RegistryNext]_registryVars
  BY DEF HandlingNext, handlingVars, GetHandlerForError, CanHandle, HandleError, NextError,
     AddIgnoredErrorType, RemoveIgnoredErrorType, TypesBecome
<1>3. QED
  BY <1>1, <1>2, PTL DEF HandlingSpec, RegistrySpec

\* For an error without the methods of a timeout or a temporary error, what
\* CanHandle of ContinueOnErrorHandler answered is what HandleError does, however
\* many callers, rebindings and changes of the list come between the two, as long
\* as the list is the same (CanHandle, HandleError).
THEOREM AnswersAreKept == HandlingSpec => []CanHandleAgrees
<1>1. HandlingSpec => []RegistryInv
  <2>1. RegistrySpec => []RegistryInv
    BY RegistryInitInv, RegistryStepInv, PTL DEF RegistrySpec
  <2>2. QED
    BY <2>1, HandlingIsARegistry
<1>2. CallsInv => CanHandleAgrees
  BY DEF CallsInv
<1>3. QED
  BY <1>1, <1>2, CallsInit, CallsStep, PTL DEF HandlingSpec
-----------------------------------------------------------------------------
FibStep(g, n) == IF n <= 1 THEN 1 ELSE g[n - 1] + g[n - 2]
FibBelow(g, n) == \A k \in Nat : k < n => g[k] = FibStep(g, k)

\* The Fibonacci numbers can be had up to any index, and in one way.
LEMMA FibReaches == ASSUME NEW n \in Nat PROVE \E g : FibBelow(g, n)
<1> DEFINE A == {m \in Nat : \E g : FibBelow(g, m)}
<1>1. 0 \in A BY DEF FibBelow
<1>2. ASSUME NEW m \in A PROVE m + 1 \in A
  <2>0. m \in Nat BY <1>2
  <2>1. PICK g : FibBelow(g, m) BY <1>2
  <2> DEFINE h == [k \in Nat |-> FibStep(g, k)]
  <2>2. ASSUME NEW k \in Nat, k < m + 1 PROVE h[k] = FibStep(h, k)
    <3>1. CASE k <= 1 BY <3>1 DEF FibStep
    <3>2. CASE k > 1
      <4>1. /\ k - 1 \in Nat /\ k - 2 \in Nat /\ k - 1 < m /\ k - 2 < m
            /\ ~(k <= 1)
        BY <2>0, <2>2, <3>2
      <4>2. h[k - 1] = g[k - 1] /\ h[k - 2] = g[k - 2] BY <4>1, <2>1 DEF FibBelow
      <4>3. h[k] = g[k - 1] + g[k - 2] BY <4>1 DEF FibStep
      <4> HIDE DEF h
      <4> QED BY <4>1, <4>2, <4>3 DEF FibStep
    <3> QED BY <3>1, <3>2
  <2>3. FibBelow(h, m + 1)
    <3> HIDE DEF h
    <3> QED BY <2>2 DEF FibBelow
  <2> HIDE DEF h
  <2> QED BY <2>0, <2>3
<1>3. A = Nat
  <2>1. A \in SUBSET Nat OBVIOUS
  <2> HIDE DEF A
  <2> QED BY <1>1, <1>2, <2>1, NaturalInduction
<1> QED BY <1>3

LEMMA FibUnique ==
  ASSUME NEW g, NEW h, NEW n \in Nat, FibBelow(g, n), FibBelow(h, n)
  PROVE  \A k \in Nat : k < n => g[k] = h[k]
<1> DEFINE A == {k \in Nat : /\ k < n => g[k] = h[k]
                             /\ k + 1 < n => g[k + 1] = h[k + 1]}
<1>1. 0 \in A
  <2>1. 0 < n => g[0] = 1 /\ h[0] = 1 BY DEF FibBelow, FibStep
  <2>2. 1 < n => g[1] = 1 /\ h[1] = 1 BY DEF FibBelow, FibStep
  <2> QED BY <2>1, <2>2
<1>2. ASSUME NEW k \in A PROVE k + 1 \in A
  <2>0. k \in Nat BY <1>2
  <2>1. ASSUME k + 2 < n PROVE g[k + 2] = h[k + 2]
    <3>1. /\ k + 2 \in Nat /\ k + 2 - 1 = k + 1 /\ k + 2 - 2 = k
          /\ ~(k + 2 <= 1) /\ k < n /\ k + 1 < n
      BY <2>0, <2>1
    <3>2. g[k + 2] = g[k + 1] + g[k] BY <3>1, <2>1 DEF FibBelow, FibStep
    <3>3. h[k + 2] = h[k + 1] + h[k] BY <3>1, <2>1 DEF FibBelow, FibStep
    <3>4. g[k] = h[k] /\ g[k + 1] = h[k + 1] BY <3>1, <1>2
    <3> QED BY <3>2, <3>3, <3>4
  <2>2. k + 1 \in Nat /\ k + 1 + 1 = k + 2 BY <2>0
  <2>3. k + 1 < n => g[k + 1] = h[k + 1] BY <1>2
  <2> QED BY <2>1, <2>2, <2>3
<1>3. A = Nat
  <2>1. A \in SUBSET Nat OBVIOUS
  <2> HIDE DEF A
  <2> QED BY <1>1, <1>2, <2>1, NaturalInduction
<1> QED BY <1>3

Reaching(n) == CHOOSE g : FibBelow(g, n)

\* So there is a function of all of them, and N!Fib is one.
LEMMA FibIs ==
  /\ N!Fib[0] = 1 /\ N!Fib[1] = 1
  /\ \A n \in Nat : n > 1 => N!Fib[n] = N!Fib[n - 1] + N!Fib[n - 2]
<1> DEFINE h == [n \in Nat |-> Reaching(n + 1)[n]]
           Fixed(f) == f = [n \in Nat |-> IF n <= 1 THEN 1 ELSE f[n - 1] + f[n - 2]]
<1>1. \A n \in Nat : FibBelow(Reaching(n), n) BY FibReaches DEF Reaching
<1>2. ASSUME NEW n \in Nat PROVE h[n] = IF n <= 1 THEN 1 ELSE h[n - 1] + h[n - 2]
  <2>1. PICK g : g = Reaching(n + 1) OBVIOUS
  <2>2. FibBelow(g, n + 1) BY <1>1, <2>1
  <2>3. h[n] = g[n] BY <2>1
  <2>4. g[n] = FibStep(g, n) BY <2>2 DEF FibBelow
  <2>5. ASSUME NEW k \in Nat, k < n PROVE h[k] = g[k]
    <3>1. PICK f : f = Reaching(k + 1) OBVIOUS
    <3>2. FibBelow(f, k + 1) BY <1>1, <3>1
    <3>3. FibBelow(g, k + 1) BY <2>2, <2>5 DEF FibBelow
    <3>4. k + 1 \in Nat /\ k < k + 1 OBVIOUS
    <3>5. f[k] = g[k] BY ONLY <3>2, <3>3, <3>4, FibUnique, k \in Nat
    <3> QED BY <3>1, <3>5
  <2>6. CASE n <= 1 BY <2>3, <2>4, <2>6 DEF FibStep
  <2>7. CASE n > 1
    <3>1. n - 1 \in Nat /\ n - 2 \in Nat /\ n - 1 < n /\ n - 2 < n /\ ~(n <= 1) BY <2>7
    <3>2. h[n - 1] = g[n - 1] /\ h[n - 2] = g[n - 2] BY <3>1, <2>5
    <3> HIDE DEF h
    <3> QED BY <2>3, <2>4, <3>1, <3>2 DEF FibStep
  <2> QED BY <2>6, <2>7
<1>3. Fixed(h)
  <2>1. h = [n \in Nat |-> h[n]] OBVIOUS
  <2> HIDE DEF h
  <2> QED BY <1>2, <2>1
<1>4. \E f : Fixed(f)
  <2> HIDE DEF h, Fixed
  <2> QED BY <1>3
<1>5. PICK f : f = N!Fib OBVIOUS
<1>6. f = CHOOSE f0 : f0 = [n \in Nat |-> IF n <= 1 THEN 1 ELSE f0[n - 1] + f0[n - 2]]
  BY <1>5 DEF N!Fib
<1>7. Fixed(f) BY <1>4, <1>6
<1>8. \A n \in Nat : f[n] = IF n <= 1 THEN 1 ELSE f[n - 1] + f[n - 2] BY <1>7
<1> QED BY <1>5, <1>8

\* They are positive and do not get smaller.
LEMMA FibGrows ==
  \A n \in Nat : /\ N!Fib[n] \in Nat /\ N!Fib[n] >= 1
                 /\ N!Fib[n + 1] \in Nat /\ N!Fib[n + 1] >= N!Fib[n]
<1> DEFINE A == {n \in Nat : /\ N!Fib[n] \in Nat /\ N!Fib[n] >= 1
                             /\ N!Fib[n + 1] \in Nat /\ N!Fib[n + 1] >= N!Fib[n]}
<1>1. 0 \in A
  <2>1. N!Fib[0 + 1] = 1 /\ N!Fib[0] = 1 BY FibIs
  <2> QED BY <2>1
<1>2. ASSUME NEW n \in A PROVE n + 1 \in A
  <2>0. n \in Nat BY <1>2
  <2>1. n + 1 + 1 \in Nat /\ n + 1 + 1 > 1 /\ n + 1 + 1 - 1 = n + 1 /\ n + 1 + 1 - 2 = n BY <2>0
  <2>2. N!Fib[n + 1 + 1] = N!Fib[n + 1] + N!Fib[n] BY <2>1, FibIs
  <2>3. /\ N!Fib[n] \in Nat /\ N!Fib[n] >= 1
        /\ N!Fib[n + 1] \in Nat /\ N!Fib[n + 1] >= N!Fib[n]
    BY <1>2
  <2>4. N!Fib[n + 1 + 1] \in Nat /\ N!Fib[n + 1 + 1] >= N!Fib[n + 1] BY <2>2, <2>3
  <2>5. N!Fib[n + 1] >= 1 BY <2>3
  <2> QED BY <2>0, <2>3, <2>4, <2>5
<1>3. A = Nat
  <2>1. A \in SUBSET Nat OBVIOUS
  <2> HIDE DEF A
  <2> QED BY <1>1, <1>2, <2>1, NaturalInduction
<1> QED BY <1>3

\* The arithmetic of each strategy is the one of Jitter.
LEMMA WrapSame ==
  ASSUME NEW x PROVE F!Wrap(x) = Wrap(x) /\ N!Wrap(x) = Wrap(x)
BY DEF F!Wrap, F!MinInt, N!Wrap, N!MinInt, Wrap, MinInt

\* What Wrap makes of an integer that fits, and of one that is too large for it
\* by no more than the largest integer.
LEMMA WrapIs ==
  ASSUME NEW x \in Int, x >= -MaxInt - 1, x <= 2 * MaxInt + 1
  PROVE  Wrap(x) = IF x <= MaxInt THEN x ELSE x - 2 * (MaxInt + 1)
<1>1. MaxInt \in Nat BY DelaysAssumption
<1>2. PICK m : m = 2 * (MaxInt + 1) OBVIOUS
<1>3. PICK y : y = x + MaxInt + 1 OBVIOUS
<1>4. y \in Nat /\ m \in Nat /\ m > 0 BY <1>1, <1>2, <1>3
<1>5. x - (-MaxInt - 1) = y BY <1>1, <1>3
<1>6. Wrap(x) = (y % m) + (-MaxInt - 1) BY <1>2, <1>5 DEF Wrap, MinInt
<1>7. CASE x <= MaxInt
  <2>1. y < m BY <1>1, <1>2, <1>3, <1>7
  <2>2. y % m = y BY <2>1, <1>4
  <2> QED BY <1>1, <1>3, <1>6, <1>7, <2>2
<1>8. CASE x > MaxInt
  <2>1. m <= y /\ y < 2 * m BY <1>1, <1>2, <1>3, <1>8
  <2>2. y % m = y - m BY <2>1, <1>4
  <2> QED BY <1>1, <1>2, <1>3, <1>6, <1>8, <2>2
<1> QED BY <1>1, <1>7, <1>8

\* An integer that fits is left as it is.
LEMMA WrapFits ==
  ASSUME NEW x \in Nat, x <= MaxInt PROVE N!Wrap(x) = x
<1>1. MaxInt \in Nat BY DelaysAssumption
<1>2. x \in Int /\ x >= -MaxInt - 1 /\ x <= 2 * MaxInt + 1 BY <1>1
<1> QED BY <1>2, WrapIs, WrapSame

LEMMA WrapInt == ASSUME NEW x \in Int PROVE Wrap(x) \in Int /\ N!Wrap(x) \in Int
<1>1. MaxInt \in Nat BY DelaysAssumption
<1>2. 2 * (MaxInt + 1) \in Nat /\ 2 * (MaxInt + 1) > 0 BY <1>1
<1> QED BY <1>1, <1>2, WrapSame DEF Wrap, MinInt

\* The jitter of a delay that is not negative (JitterFunc, applyJitter).
LEMMA JitterStays ==
  ASSUME NEW delay \in Nat, NEW maxDelay \in Nat, delay <= maxDelay, maxDelay <= MaxInt
  PROVE  JitterInRange(delay, maxDelay)
<1>0. MaxInt \in Nat /\ delay <= MaxInt BY DelaysAssumption
<1>1. PICK h : h = Half(delay) OBVIOUS
<1>2. h \in Nat /\ 2 * h <= delay /\ delay <= 2 * h + 1 BY <1>1 DEF Half
<1>3. FullJitter(delay) \subseteq 0..maxDelay BY DEF FullJitter
<1>4. ASSUME delay # 1
      PROVE  EqualJitter(delay) # {} /\ EqualJitter(delay) \subseteq h..maxDelay
  <2>1. CASE delay = 0
    <3>1. h = 0 BY <2>1, <1>2
    <3> QED BY <2>1, <3>1 DEF EqualJitter
  <2>2. CASE delay > 0
    <3>1. h >= 1 BY <2>2, <1>2, <1>4
    <3>2. EqualJitter(delay) = {h + r : r \in 0..(h - 1)}
      BY <2>2, <1>1 DEF EqualJitter
    <3>3. h + 0 \in EqualJitter(delay) BY <3>1, <3>2, <1>2
    <3>4. ASSUME NEW r \in 0..(h - 1) PROVE h + r \in h..maxDelay BY <3>1, <1>2
    <3> QED BY <3>2, <3>3, <3>4
  <2> QED BY <2>1, <2>2
\* A sum that does not fit is replaced by half of the delay.
<1>5. ASSUME NEW j \in Int, delay + j >= 0, j <= MaxInt + 1
      PROVE  NonNegative(Wrap(delay + j), delay) =
               IF delay + j <= MaxInt THEN delay + j ELSE h
  <2>1. PICK x : x = delay + j OBVIOUS
  <2>2. x \in Int /\ x >= -MaxInt - 1 /\ x <= 2 * MaxInt + 1 BY <2>1, <1>0, <1>5
  <2>3. Wrap(x) = IF x <= MaxInt THEN x ELSE x - 2 * (MaxInt + 1) BY <2>2, WrapIs
  <2>4. CASE x <= MaxInt
    <3>1. Wrap(x) = x /\ ~(x < 0) BY <2>1, <2>3, <2>4, <1>5
    <3> QED BY <2>1, <2>4, <3>1 DEF NonNegative
  <2>5. CASE ~(x <= MaxInt)
    <3>1. Wrap(x) < 0 BY <2>2, <2>3, <2>5, <1>0
    <3> QED BY <2>1, <2>5, <3>1, <1>1 DEF NonNegative
  <2> QED BY <2>4, <2>5
<1>6. ExponentialJitter(delay) \subseteq delay..MaxInt \cup {h}
  <2>1. CASE delay = 0 BY <2>1, <1>0 DEF ExponentialJitter
  <2>2. CASE delay > 0
    <3>1. FromFloat(MaxInt + 1) = {-MaxInt - 1, MaxInt}
      BY <1>0 DEF FromFloat, MinInt
    <3>2. ExponentialJitter(delay) =
            {NonNegative(Wrap(delay + j), delay) : j \in 0..MaxInt \cup {-MaxInt - 1, MaxInt}}
      BY <2>2, <3>1 DEF ExponentialJitter
    <3>3. ASSUME NEW j \in 0..MaxInt \cup {-MaxInt - 1, MaxInt}
          PROVE  NonNegative(Wrap(delay + j), delay) \in delay..MaxInt \cup {h}
      <4>1. CASE j = -MaxInt - 1
        <5>1. PICK x : x = delay + j OBVIOUS
        <5>2. x \in Int /\ x < 0 /\ x >= -MaxInt - 1 /\ x <= 2 * MaxInt + 1 /\ x <= MaxInt
          BY <5>1, <4>1, <1>0
        <5>3. Wrap(x) < 0 BY <5>2, WrapIs
        <5> QED BY <5>1, <5>3, <1>1 DEF NonNegative
      <4>2. CASE j \in 0..MaxInt
        <5>1. j \in Int /\ delay + j >= 0 /\ j <= MaxInt + 1 BY <4>2, <1>0
        <5>2. NonNegative(Wrap(delay + j), delay) =
                IF delay + j <= MaxInt THEN delay + j ELSE h
          BY ONLY <5>1, <1>5
        <5> QED BY <5>2, <4>2, <1>0
      <4>3. MaxInt \in 0..MaxInt BY <1>0
      <4> QED BY <4>1, <4>2, <4>3
    <3> QED BY <3>2, <3>3
  <2> QED BY <2>1, <2>2
<1>7. ASSUME NEW percent \in Percents, NEW d \in applyJitter(delay, percent)
      PROVE  /\ d \in 0..MaxInt
             /\ d = h \/ Abs(d - delay) * 100 <= delay * percent
             /\ d * 100 <= maxDelay * (100 + percent)
  <2>1. percent \in {10, 100} BY DEF Percents
  <2>2. PICK range : range = (delay * percent) \div 100 OBVIOUS
  <2>3. range \in Nat /\ 100 * range <= delay * percent /\ range <= delay
    <3>1. CASE percent = 10 BY <2>2, <3>1
    <3>2. CASE percent = 100 BY <2>2, <3>2
    <3> QED BY <2>1, <3>1, <3>2
  <2>4. Abs(delay) = delay BY DEF Abs
  <2>5. PICK j \in -range..range : d = NonNegative(Wrap(delay + j), delay)
    BY <2>2, <2>4 DEF applyJitter
  <2>6. j \in Int /\ delay + j >= 0 /\ j <= MaxInt + 1 BY <2>3, <2>5, <1>0
  <2>7. d = IF delay + j <= MaxInt THEN delay + j ELSE h
    <3>1. NonNegative(Wrap(delay + j), delay) =
            IF delay + j <= MaxInt THEN delay + j ELSE h
      BY ONLY <2>6, <1>5
    <3> QED BY <2>5, <3>1
  <2>10. delay * 100 + delay * percent <= maxDelay * (100 + percent)
    <3>1. CASE percent = 10 BY <3>1
    <3>2. CASE percent = 100 BY <3>2
    <3> QED BY <2>1, <3>1, <3>2
  <2>8. CASE d = delay + j /\ delay + j <= MaxInt
    <3>1. d - delay = j BY <2>6, <2>8
    <3>2. Abs(j) <= range /\ Abs(j) \in Int BY <2>3, <2>5 DEF Abs
    <3>3. Abs(j) * 100 <= 100 * range BY <3>2, <2>3
    <3>4. delay * percent \in Int BY <2>1
    <3>5. Abs(j) * 100 <= delay * percent BY <2>3, <3>2, <3>3, <3>4
    <3>6. d * 100 <= delay * 100 + delay * percent BY <2>3, <2>5, <2>8, <3>4
    <3>7. maxDelay * (100 + percent) \in Int BY <2>1
    <3>8. d * 100 <= maxDelay * (100 + percent) BY <2>6, <2>8, <2>10, <3>4, <3>6, <3>7
    <3> QED BY <2>6, <2>8, <3>1, <3>5, <3>8
  <2>9. CASE d = h
    <3>1. d \in Nat /\ d <= delay BY <2>9, <1>2
    <3>2. d * 100 <= maxDelay * (100 + percent)
      <4>1. CASE percent = 10 BY <3>1, <4>1
      <4>2. CASE percent = 100 BY <3>1, <4>2
      <4> QED BY <2>1, <4>1, <4>2
    <3> QED BY <2>9, <3>1, <3>2, <1>0
  <2> QED BY <2>7, <2>8, <2>9
<1> QED BY <1>1, <1>3, <1>4, <1>6, <1>7 DEF JitterInRange

\* So it is for the delays of either strategy.
LEMMA JitterSame ==
  ASSUME NEW delay \in Nat, NEW maxDelay \in Nat, delay <= maxDelay, maxDelay <= MaxInt
  PROVE  F!JitterInRange(delay, maxDelay) /\ N!JitterInRange(delay, maxDelay)
<1>1. JitterInRange(delay, maxDelay) BY JitterStays
<1>2. /\ F!FullJitter(delay) = FullJitter(delay) /\ N!FullJitter(delay) = FullJitter(delay)
      /\ F!Half(delay) = Half(delay) /\ N!Half(delay) = Half(delay)
      /\ F!Percents = Percents /\ N!Percents = Percents
      /\ \A x : F!Abs(x) = Abs(x) /\ N!Abs(x) = Abs(x)
  BY DEF FullJitter, F!FullJitter, N!FullJitter, Half, F!Half, N!Half, Abs, F!Abs, N!Abs,
         Percents, F!Percents, N!Percents
<1>3. F!EqualJitter(delay) = EqualJitter(delay) /\ N!EqualJitter(delay) = EqualJitter(delay)
  BY <1>2 DEF EqualJitter, F!EqualJitter, N!EqualJitter
<1>4. \A x : /\ F!NonNegative(x, delay) = NonNegative(x, delay)
             /\ N!NonNegative(x, delay) = NonNegative(x, delay)
  BY <1>2 DEF NonNegative, F!NonNegative, N!NonNegative
<1>5. \A x : F!FromFloat(x) = FromFloat(x) /\ N!FromFloat(x) = FromFloat(x)
  BY DEF FromFloat, F!FromFloat, N!FromFloat, MinInt, F!MinInt, N!MinInt
<1>6. /\ F!ExponentialJitter(delay) = ExponentialJitter(delay)
      /\ N!ExponentialJitter(delay) = ExponentialJitter(delay)
  BY <1>4, <1>5, WrapSame DEF ExponentialJitter, F!ExponentialJitter, N!ExponentialJitter
<1>7. ASSUME NEW p
      PROVE  /\ F!applyJitter(delay, p) = applyJitter(delay, p)
             /\ N!applyJitter(delay, p) = applyJitter(delay, p)
  BY <1>2, <1>4, WrapSame DEF applyJitter, F!applyJitter, N!applyJitter
<1> QED BY <1>1, <1>2, <1>3, <1>6, <1>7 DEF JitterInRange, F!JitterInRange, N!JitterInRange
-----------------------------------------------------------------------------
\* The cache holds the numbers as far as they fit.
CacheInv ==
  /\ fibCache \in Seq(Int) /\ Len(fibCache) >= 2
  /\ \A i \in 1..Len(fibCache) : N!Fib[i - 1] <= MaxInt => fibCache[i] = N!Fib[i - 1]

\* What the one caller c knows of its length.
CallerInv(c) ==
  /\ call \in [Callers -> [pc : {"idle", "check", "extend", "read", "returned"},
                           n : Nat, i : Nat, delay : Int]]
  /\ ~panic
  /\ call[c].pc = "extend" => call[c].i = Len(fibCache)
  /\ call[c].pc = "read" => call[c].n < Len(fibCache)
  /\ N!DelaysAreFibonacci

FibonacciInv(c) == CacheInv /\ CallerInv(c)

\* The next number is the sum of the last two, as far as it fits.
LEMMA SumIsNext ==
  ASSUME CacheInv
  PROVE  /\ N!Sum(Len(fibCache)) \in Int
         /\ N!Fib[Len(fibCache)] <= MaxInt => N!Sum(Len(fibCache)) = N!Fib[Len(fibCache)]
<1>1. PICK l : l = Len(fibCache) OBVIOUS
<1>2. /\ l \in Nat /\ l >= 2 /\ MaxInt \in Nat
      /\ \A i \in 1..l : fibCache[i] \in Int
      /\ AfterOverflow \in Int
  BY <1>1, DelaysAssumption DEF CacheInv
<1>3. /\ l \in 1..l /\ l - 1 \in 1..l /\ l - 1 \in Nat /\ l - 2 \in Nat /\ l > 1
      /\ l - 1 + 1 = l /\ l - 2 + 1 = l - 1 /\ l - 1 - 1 = l - 2
  BY <1>2
<1>4. PICK a : a = fibCache[l] OBVIOUS
<1>5. PICK b : b = fibCache[l - 1] OBVIOUS
<1>6. a \in Int /\ b \in Int BY <1>2, <1>3, <1>4, <1>5
<1>7. N!Sum(l) = IF N!Wrap(a + b) < a THEN AfterOverflow ELSE N!Wrap(a + b)
  BY <1>3, <1>4, <1>5 DEF N!Sum, N!At
<1>8. N!Wrap(a + b) \in Int BY <1>6, WrapInt
<1>9. ASSUME N!Fib[l] <= MaxInt PROVE N!Sum(l) = N!Fib[l]
  <2>1. N!Fib[l] = N!Fib[l - 1] + N!Fib[l - 2] BY <1>2, <1>3, FibIs
  <2>2. N!Fib[l - 1] \in Nat /\ N!Fib[l - 2] \in Nat BY <1>3, FibGrows
  <2>3. N!Fib[l - 1] <= MaxInt /\ N!Fib[l - 2] <= MaxInt BY <2>1, <2>2, <1>2, <1>9
  <2>4. a = N!Fib[l - 1] /\ b = N!Fib[l - 2]
    BY <1>1, <1>3, <1>4, <1>5, <2>3 DEF CacheInv
  <2>5. a + b = N!Fib[l] /\ a + b \in Nat /\ a + b <= MaxInt /\ a + b >= a
    BY <2>1, <2>2, <2>4, <1>9
  <2>6. N!Wrap(a + b) = a + b BY <2>5, WrapFits
  <2> QED BY <1>6, <1>7, <2>5, <2>6
<1> QED BY <1>1, <1>2, <1>7, <1>8, <1>9

\* What is read is the product, as far as it fits, up to the maximum.
LEMMA ReadIsProduct ==
  ASSUME CacheInv, NEW n \in Nat, n < Len(fibCache)
  PROVE  LET delay == N!Limit(N!Wrap(N!At(n) * BaseDelay))
             exact == N!Fib[n] * BaseDelay
         IN  /\ delay \in Int /\ delay <= MaxDelay
             /\ exact <= MaxInt => delay = IF exact > MaxDelay THEN MaxDelay ELSE exact
<1>1. PICK a : a = fibCache[n + 1] OBVIOUS
<1>2. n + 1 \in 1..Len(fibCache) /\ n + 1 - 1 = n BY DEF CacheInv
<1>3. a \in Int BY <1>1, <1>2 DEF CacheInv
<1>4. BaseDelay \in Nat /\ BaseDelay >= 1 /\ MaxDelay \in Int /\ MaxInt \in Nat
  BY DelaysAssumption
<1>5. PICK w : w = N!Wrap(a * BaseDelay) OBVIOUS
<1>6. w \in Int
  <2>1. a * BaseDelay \in Int BY <1>3, <1>4
  <2> QED BY <2>1, <1>5, WrapInt
<1>7. N!Limit(w) = IF w > MaxDelay THEN MaxDelay ELSE w BY DEF N!Limit
<1>8. ASSUME N!Fib[n] * BaseDelay <= MaxInt PROVE w = N!Fib[n] * BaseDelay
  <2>1. PICK f : f = N!Fib[n] OBVIOUS
  <2>2. f \in Nat BY <2>1, FibGrows
  <2>3. f <= f * BaseDelay /\ f * BaseDelay \in Nat
    <3>1. PICK d \in Nat : BaseDelay = 1 + d
      <4>1. BaseDelay - 1 \in Nat /\ BaseDelay = 1 + (BaseDelay - 1) BY <1>4
      <4> QED BY <4>1
    <3>2. f * BaseDelay = f + f * d BY <2>2, <3>1
    <3>3. f * d \in Nat BY <2>2, <3>1
    <3> QED BY <2>2, <3>2, <3>3
  <2>4. a = f BY <1>1, <1>2, <1>4, <1>8, <2>1, <2>2, <2>3 DEF CacheInv
  <2>5. N!Wrap(f * BaseDelay) = f * BaseDelay BY <1>8, <2>1, <2>3, WrapFits
  <2> QED BY <1>5, <2>1, <2>4, <2>5
<1>9. N!At(n) = a BY <1>1 DEF N!At
<1> QED BY <1>4, <1>5, <1>6, <1>7, <1>8, <1>9

FibonacciCalls == [pc : {"idle", "check", "extend", "read", "returned"},
                   n : Nat, i : Nat, delay : Int]

\* The disjuncts of Extend.
LEMMA ExtendCases ==
  ASSUME NEW c, N!Extend(c)
  PROVE  /\ call[c].pc = "extend"
         /\ \/ /\ call[c].i > call[c].n
               /\ call' = [call EXCEPT ![c].pc = "read"] /\ UNCHANGED <<fibCache, panic>>
            \/ call[c].i > Len(fibCache)
            \/ /\ fibCache' = Append(fibCache, N!Sum(call[c].i))
               /\ call' = [call EXCEPT ![c].i = @ + 1] /\ UNCHANGED panic
BY DEF N!Extend

LEMMA FibonacciInit ==
  ASSUME NEW c, Callers = {c}, DelaysInit PROVE FibonacciInv(c)
<1>1. /\ fibCache = <<1, 1>> /\ panic = FALSE
      /\ call = [d \in Callers |-> [pc |-> "idle", n |-> 0, i |-> 0, delay |-> 0]]
  BY DEF DelaysInit, N!Init
<1>2. CacheInv
  <2>1. /\ fibCache \in Seq(Int) /\ Len(fibCache) = 2 /\ fibCache[1] = 1 /\ fibCache[2] = 1
    BY <1>1
  <2>2. ASSUME NEW i \in 1..2 PROVE fibCache[i] = N!Fib[i - 1]
    <3>1. i = 1 \/ i = 2 OBVIOUS
    <3>2. 1 - 1 = 0 /\ 2 - 1 = 1 OBVIOUS
    <3> QED BY <3>1, <3>2, <2>1, FibIs
  <2> QED BY <2>1, <2>2 DEF CacheInv
<1>3. CallerInv(c) BY <1>1 DEF CallerInv, N!DelaysAreFibonacci
<1> QED BY <1>2, <1>3 DEF FibonacciInv

LEMMA FibonacciStep ==
  ASSUME NEW c, Callers = {c}, FibonacciInv(c), N!Next PROVE FibonacciInv(c)'
<1>0. /\ CacheInv /\ CallerInv(c) /\ c \in Callers /\ ~panic
      /\ call \in [Callers -> FibonacciCalls]
      /\ call[c] \in FibonacciCalls
      /\ call[c].pc = "extend" => call[c].i = Len(fibCache)
      /\ call[c].pc = "read" => call[c].n < Len(fibCache)
      /\ Len(fibCache) \in Nat /\ Len(fibCache) >= 2 /\ fibCache \in Seq(Int)
  BY DEF FibonacciInv, CallerInv, CacheInv, FibonacciCalls
\* What suffices of a step of c that comes to the call r.
<1>c. ASSUME NEW r \in FibonacciCalls, call' = [call EXCEPT ![c] = r],
             CacheInv', ~panic',
             r.pc = "extend" => r.i = Len(fibCache'),
             r.pc = "read" => r.n < Len(fibCache'),
             r.pc = "returned" =>
               /\ r.delay <= MaxDelay
               /\ N!Fib[r.n] * BaseDelay <= MaxInt =>
                    r.delay = IF N!Fib[r.n] * BaseDelay > MaxDelay THEN MaxDelay
                              ELSE N!Fib[r.n] * BaseDelay
               /\ r.delay >= 0 => N!JitterInRange(r.delay, MaxDelay)
      PROVE  FibonacciInv(c)'
  <2>1. call' \in [Callers -> FibonacciCalls] /\ call'[c] = r BY <1>0, <1>c
  <2>2. N!DelaysAreFibonacci' BY <1>c, <2>1 DEF N!DelaysAreFibonacci
  <2> QED BY <1>c, <2>1, <2>2 DEF FibonacciInv, CallerInv, FibonacciCalls
<1>1. ASSUME NEW a \in 0..MaxAttempt, N!NextDelay(c, a) PROVE FibonacciInv(c)'
  <2>1. PICK r : r = [pc |-> "check", n |-> (IF a <= 0 THEN 1 ELSE a) - 1, i |-> 0, delay |-> 0]
    OBVIOUS
  <2>2. r \in FibonacciCalls /\ r.pc = "check"
    <3>1. a \in Nat BY DelaysAssumption
    <3>2. (IF a <= 0 THEN 1 ELSE a) - 1 \in Nat BY <3>1
    <3> QED BY <2>1, <3>2 DEF FibonacciCalls
  <2>3. call' = [call EXCEPT ![c] = r] /\ fibCache' = fibCache /\ panic' = panic
    BY <1>1, <2>1 DEF N!NextDelay
  <2>4. CacheInv' BY <1>0, <2>3 DEF CacheInv
  <2> QED BY <1>0, <1>c, <2>2, <2>3, <2>4
<1>2. ASSUME N!Check(c) PROVE FibonacciInv(c)'
  <2>1. /\ fibCache' = fibCache /\ panic' = panic
        /\ call' = [call EXCEPT ![c] =
             IF call[c].n < Len(fibCache) THEN [call[c] EXCEPT !.pc = "read"]
             ELSE [call[c] EXCEPT !.pc = "extend", !.i = Len(fibCache)]]
    BY <1>0, <1>2 DEF N!Check
  <2>2. CacheInv' BY <1>0, <2>1 DEF CacheInv
  <2>3. CASE call[c].n < Len(fibCache)
    <3>1. PICK r : r = [call[c] EXCEPT !.pc = "read"] OBVIOUS
    <3>2. r \in FibonacciCalls /\ r.pc = "read" /\ r.n = call[c].n
      BY <1>0, <3>1 DEF FibonacciCalls
    <3>3. call' = [call EXCEPT ![c] = r] BY <2>1, <2>3, <3>1
    <3> QED BY <1>0, <1>c, <2>1, <2>2, <2>3, <3>2, <3>3
  <2>4. CASE ~(call[c].n < Len(fibCache))
    <3>1. PICK q : q = [call[c] EXCEPT !.pc = "extend"] OBVIOUS
    <3>2. PICK r : r = [q EXCEPT !.i = Len(fibCache)] OBVIOUS
    <3>3. q \in FibonacciCalls /\ q.pc = "extend" BY <1>0, <3>1 DEF FibonacciCalls
    <3>4. r \in FibonacciCalls /\ r.pc = "extend" /\ r.i = Len(fibCache)
      BY <1>0, <3>2, <3>3 DEF FibonacciCalls
    <3>5. call' = [call EXCEPT ![c] = r]
      <4>1. r = [call[c] EXCEPT !.pc = "extend", !.i = Len(fibCache)]
        BY <1>0, <3>1, <3>2 DEF FibonacciCalls
      <4> QED BY <2>1, <2>4, <4>1
    <3> QED BY <1>0, <1>c, <2>1, <2>2, <3>4, <3>5
  <2> QED BY <2>3, <2>4
<1>3. ASSUME N!Extend(c) PROVE FibonacciInv(c)'
  <2>0. call[c].pc = "extend" /\ call[c].i = Len(fibCache) BY <1>0, <1>3, ExtendCases
  <2>1. CASE /\ call[c].i > call[c].n
             /\ call' = [call EXCEPT ![c].pc = "read"] /\ UNCHANGED <<fibCache, panic>>
    <3>1. PICK r : r = [call[c] EXCEPT !.pc = "read"] OBVIOUS
    <3>2. r \in FibonacciCalls /\ r.pc = "read" /\ r.n = call[c].n
      BY <1>0, <3>1 DEF FibonacciCalls
    <3>3. call' = [call EXCEPT ![c] = r] BY <1>0, <2>1, <3>1
    <3>4. CacheInv' BY <1>0, <2>1 DEF CacheInv
    <3>5. call[c].n < Len(fibCache') /\ ~panic' BY <1>0, <2>0, <2>1
    <3> QED BY <1>c, <3>2, <3>3, <3>4, <3>5
  <2>2. CASE call[c].i > Len(fibCache) BY <2>0, <2>2, <1>0
  <2>3. CASE /\ fibCache' = Append(fibCache, N!Sum(call[c].i))
             /\ call' = [call EXCEPT ![c].i = @ + 1] /\ UNCHANGED panic
    <3>1. PICK l : l = Len(fibCache) OBVIOUS
    <3>2. N!Sum(l) \in Int /\ (N!Fib[l] <= MaxInt => N!Sum(l) = N!Fib[l])
      BY <1>0, <3>1, SumIsNext
    <3>3. PICK s : s = N!Sum(l) OBVIOUS
    <3>4. fibCache' = Append(fibCache, s) BY <2>0, <2>3, <3>1, <3>3
    <3>5. /\ fibCache' \in Seq(Int) /\ Len(fibCache') = l + 1 /\ fibCache'[l + 1] = s
          /\ \A j \in 1..l : fibCache'[j] = fibCache[j]
      BY ONLY <1>0, <3>1, <3>2, <3>3, <3>4
    <3>6. CacheInv'
      <4>1. ASSUME NEW j \in 1..l + 1, N!Fib[j - 1] <= MaxInt PROVE fibCache'[j] = N!Fib[j - 1]
        <5>1. CASE j = l + 1
          <6>1. j - 1 = l BY <5>1, <1>0, <3>1
          <6> QED BY <6>1, <5>1, <4>1, <3>2, <3>3, <3>5
        <5>2. CASE j # l + 1
          <6>1. j \in 1..l BY <5>2, <1>0, <3>1
          <6> QED BY <6>1, <4>1, <1>0, <3>1, <3>5 DEF CacheInv
        <5> QED BY <5>1, <5>2
      <4>2. Len(fibCache') >= 2 BY <1>0, <3>1, <3>5
      <4> QED BY <4>1, <4>2, <3>5 DEF CacheInv
    <3>7. PICK r : r = [call[c] EXCEPT !.i = l + 1] OBVIOUS
    <3>8. r \in FibonacciCalls /\ r.pc = "extend" /\ r.i = l + 1
      <4>1. l + 1 \in Nat BY <1>0, <3>1
      <4> QED BY <1>0, <2>0, <3>7, <4>1 DEF FibonacciCalls
    <3>9. call' = [call EXCEPT ![c] = r] BY <1>0, <2>0, <2>3, <3>1, <3>7
    <3>10. ~panic' BY <1>0, <2>3
    <3> QED BY <1>c, <3>5, <3>6, <3>8, <3>9, <3>10
  <2> QED BY <1>3, <2>1, <2>2, <2>3, ExtendCases
<1>4. ASSUME N!Read(c) PROVE FibonacciInv(c)'
  <2>1. PICK n : n = call[c].n OBVIOUS
  <2>2. n \in Nat /\ n < Len(fibCache) BY <1>0, <1>4, <2>1 DEF N!Read, FibonacciCalls
  <2>3. PICK d : d = N!Limit(N!Wrap(N!At(n) * BaseDelay)) OBVIOUS
  <2>4. /\ d \in Int /\ d <= MaxDelay
        /\ N!Fib[n] * BaseDelay <= MaxInt =>
             d = IF N!Fib[n] * BaseDelay > MaxDelay THEN MaxDelay ELSE N!Fib[n] * BaseDelay
    BY <1>0, <2>2, <2>3, ReadIsProduct
  <2>5. /\ call' = [call EXCEPT ![c].pc = "returned", ![c].delay = d]
        /\ fibCache' = fibCache /\ panic' = panic
    BY <1>4, <2>1, <2>2, <2>3 DEF N!Read
  <2>6. PICK q : q = [call[c] EXCEPT !.pc = "returned"] OBVIOUS
  <2>7. PICK r : r = [q EXCEPT !.delay = d] OBVIOUS
  <2>8. q \in FibonacciCalls /\ q.pc = "returned" /\ q.n = n BY <1>0, <2>1, <2>6 DEF FibonacciCalls
  <2>9. r \in FibonacciCalls /\ r.pc = "returned" /\ r.n = n /\ r.delay = d
    BY <2>4, <2>7, <2>8 DEF FibonacciCalls
  <2>10. call' = [call EXCEPT ![c] = r] BY <1>0, <2>5, <2>6, <2>7
  <2>11. CacheInv' BY <1>0, <2>5 DEF CacheInv
  <2>12. d >= 0 => N!JitterInRange(d, MaxDelay)
    <3>1. MaxDelay \in Nat /\ MaxDelay <= MaxInt BY DelaysAssumption
    <3> QED BY <2>4, <3>1, JitterSame
  <2> QED BY <1>0, <1>c, <2>4, <2>5, <2>9, <2>10, <2>11, <2>12
<1>5. ASSUME N!Reset PROVE FibonacciInv(c)'
  <2>1. fibCache' = SubSeq(fibCache, 1, 2) /\ call' = call /\ panic' = panic BY <1>5 DEF N!Reset
  <2>2. call[c].pc \notin {"check", "extend", "read"} BY <1>5 DEF N!Reset, N!InCall
  <2>3. /\ fibCache' \in Seq(Int) /\ Len(fibCache') = 2
        /\ \A j \in 1..2 : fibCache'[j] = fibCache[j]
    BY <1>0, <2>1
  <2>4. CacheInv'
    <3>1. ASSUME NEW j \in 1..2, N!Fib[j - 1] <= MaxInt PROVE fibCache'[j] = N!Fib[j - 1]
      BY <1>0, <2>3, <3>1 DEF CacheInv
    <3> QED BY <2>3, <3>1 DEF CacheInv
  <2>5. CallerInv(c)' BY <1>0, <2>1, <2>2 DEF CallerInv, N!DelaysAreFibonacci
  <2> QED BY <2>4, <2>5 DEF FibonacciInv
<1> QED BY <1>1, <1>2, <1>3, <1>4, <1>5 DEF N!Next

LEMMA FibonacciAlways ==
  ASSUME NEW c, Callers = {c} PROVE DelaysSpec => []FibonacciInv(c)
<1>1. DelaysInit => FibonacciInv(c) BY FibonacciInit
<1>2. FibonacciInv(c) /\ [DelaysNext]_delaysVars => FibonacciInv(c)'
  <2> SUFFICES ASSUME FibonacciInv(c), [DelaysNext]_delaysVars PROVE FibonacciInv(c)' OBVIOUS
  <2>1. CASE N!Next BY <2>1, FibonacciStep
  <2>2. CASE UNCHANGED fibonacciVars
    <3>1. fibCache' = fibCache /\ call' = call /\ panic' = panic BY <2>2 DEF fibonacciVars
    <3> QED BY <3>1 DEF FibonacciInv, CacheInv, CallerInv, N!DelaysAreFibonacci
  <2> QED BY <2>1, <2>2 DEF DelaysNext, Formula, Fibonacci, Decorrelated, delaysVars
<1> QED BY <1>1, <1>2, PTL DEF DelaysSpec

\* With one goroutine the cache of FibonacciBackoff holds the Fibonacci numbers as
\* far as they fit, whatever attempts are asked for and wherever it is reset,
\* and no index is out of range (getFibonacci, Reset).
THEOREM CacheHoldsFibonacci ==
  ASSUME NEW c, Callers = {c} PROVE DelaysSpec => []CacheIsFibonacci
<1>1. FibonacciInv(c) => CacheIsFibonacci
  BY DEF FibonacciInv, CacheInv, CallerInv, CacheIsFibonacci, N!CacheIsFibonacci
<1> QED BY <1>1, FibonacciAlways, PTL
-----------------------------------------------------------------------------
PowStep(m, g, n) == IF n = 0 THEN 1 ELSE m * g[n - 1]
PowBelow(m, g, n) == \A k \in Nat : k < n => g[k] = PowStep(m, g, k)

\* The powers of m can be had up to any exponent, and in one way.
LEMMA PowReaches == ASSUME NEW m, NEW n \in Nat PROVE \E g : PowBelow(m, g, n)
<1> DEFINE A == {k \in Nat : \E g : PowBelow(m, g, k)}
<1>1. 0 \in A BY DEF PowBelow
<1>2. ASSUME NEW i \in A PROVE i + 1 \in A
  <2>0. i \in Nat BY <1>2
  <2>1. PICK g : PowBelow(m, g, i) BY <1>2
  <2> DEFINE h == [k \in Nat |-> PowStep(m, g, k)]
  <2>2. ASSUME NEW k \in Nat, k < i + 1 PROVE h[k] = PowStep(m, h, k)
    <3>1. CASE k = 0 BY <3>1 DEF PowStep
    <3>2. CASE k > 0
      <4>1. k - 1 \in Nat /\ k - 1 < i /\ k # 0 BY <2>0, <2>2, <3>2
      <4>2. h[k - 1] = g[k - 1] BY <4>1, <2>1 DEF PowBelow
      <4>3. h[k] = m * g[k - 1] BY <4>1 DEF PowStep
      <4> HIDE DEF h
      <4> QED BY <4>1, <4>2, <4>3 DEF PowStep
    <3> QED BY <3>1, <3>2
  <2>3. PowBelow(m, h, i + 1)
    <3> HIDE DEF h
    <3> QED BY <2>2 DEF PowBelow
  <2> HIDE DEF h
  <2> QED BY <2>0, <2>3
<1>3. A = Nat
  <2>1. A \in SUBSET Nat OBVIOUS
  <2> HIDE DEF A
  <2> QED BY <1>1, <1>2, <2>1, NaturalInduction
<1> QED BY <1>3

LEMMA PowUnique ==
  ASSUME NEW m, NEW g, NEW h, NEW n \in Nat, PowBelow(m, g, n), PowBelow(m, h, n)
  PROVE  \A k \in Nat : k < n => g[k] = h[k]
<1> DEFINE A == {k \in Nat : k < n => g[k] = h[k]}
<1>1. 0 \in A BY DEF PowBelow, PowStep
<1>2. ASSUME NEW k \in A PROVE k + 1 \in A
  <2>0. k \in Nat BY <1>2
  <2>1. ASSUME k + 1 < n PROVE g[k + 1] = h[k + 1]
    <3>1. k + 1 \in Nat /\ k + 1 - 1 = k /\ k + 1 # 0 /\ k < n BY <2>0, <2>1
    <3>2. g[k + 1] = m * g[k] BY <3>1, <2>1 DEF PowBelow, PowStep
    <3>3. h[k + 1] = m * h[k] BY <3>1, <2>1 DEF PowBelow, PowStep
    <3>4. g[k] = h[k] BY <3>1, <1>2
    <3> QED BY <3>2, <3>3, <3>4
  <2> QED BY <2>0, <2>1
<1>3. A = Nat
  <2>1. A \in SUBSET Nat OBVIOUS
  <2> HIDE DEF A
  <2> QED BY <1>1, <1>2, <2>1, NaturalInduction
<1> QED BY <1>3

PowersTo(m, n) == CHOOSE g : PowBelow(m, g, n)

\* So there is a function of all of them, and F!Pow(m) is one.
LEMMA PowIs ==
  ASSUME NEW m
  PROVE  /\ F!Pow(m)[0] = 1
         /\ \A n \in Nat : n > 0 => F!Pow(m)[n] = m * F!Pow(m)[n - 1]
<1> DEFINE h == [n \in Nat |-> PowersTo(m, n + 1)[n]]
           Fixed(f) == f = [n \in Nat |-> IF n = 0 THEN 1 ELSE m * f[n - 1]]
<1>1. \A n \in Nat : PowBelow(m, PowersTo(m, n), n) BY PowReaches DEF PowersTo
<1>2. ASSUME NEW n \in Nat PROVE h[n] = IF n = 0 THEN 1 ELSE m * h[n - 1]
  <2>1. PICK g : g = PowersTo(m, n + 1) OBVIOUS
  <2>2. PowBelow(m, g, n + 1) BY <1>1, <2>1
  <2>3. h[n] = g[n] BY <2>1
  <2>4. g[n] = PowStep(m, g, n) BY <2>2 DEF PowBelow
  <2>5. ASSUME NEW k \in Nat, k < n PROVE h[k] = g[k]
    <3>1. PICK f : f = PowersTo(m, k + 1) OBVIOUS
    <3>2. PowBelow(m, f, k + 1) BY <1>1, <3>1
    <3>3. PowBelow(m, g, k + 1) BY <2>2, <2>5 DEF PowBelow
    <3>4. k + 1 \in Nat /\ k < k + 1 OBVIOUS
    <3>5. f[k] = g[k] BY ONLY <3>2, <3>3, <3>4, PowUnique, k \in Nat
    <3> QED BY <3>1, <3>5
  <2>6. CASE n = 0 BY <2>3, <2>4, <2>6 DEF PowStep
  <2>7. CASE n > 0
    <3>1. n - 1 \in Nat /\ n - 1 < n /\ n # 0 BY <2>7
    <3>2. h[n - 1] = g[n - 1] BY <3>1, <2>5
    <3> HIDE DEF h
    <3> QED BY <2>3, <2>4, <3>1, <3>2 DEF PowStep
  <2> QED BY <2>6, <2>7
<1>3. Fixed(h)
  <2>1. h = [n \in Nat |-> h[n]] OBVIOUS
  <2> HIDE DEF h
  <2> QED BY <1>2, <2>1
<1>4. \E f : Fixed(f)
  <2> HIDE DEF h, Fixed
  <2> QED BY <1>3
<1>5. PICK f : f = F!Pow(m) OBVIOUS
<1>6. f = CHOOSE f0 : f0 = [n \in Nat |-> IF n = 0 THEN 1 ELSE m * f0[n - 1]]
  BY <1>5 DEF F!Pow
<1>7. Fixed(f) BY <1>4, <1>6
<1>8. \A n \in Nat : f[n] = IF n = 0 THEN 1 ELSE m * f[n - 1] BY <1>7
<1> QED BY <1>5, <1>8

\* A product with a positive number is not smaller.
LEMMA ProductGrows ==
  ASSUME NEW x \in Nat, NEW y \in Nat, y >= 1 PROVE y * x \in Nat /\ y * x >= x
<1>1. PICK d \in Nat : y = 1 + d
  <2>1. y - 1 \in Nat /\ y = 1 + (y - 1) OBVIOUS
  <2> QED BY <2>1
<1>2. y * x = x + d * x BY <1>1
<1>3. d * x \in Nat BY <1>1
<1> QED BY <1>2, <1>3

\* The powers of a positive number are positive and do not get smaller.
LEMMA PowGrows ==
  ASSUME NEW m \in Nat, m >= 1
  PROVE  \A n \in Nat : /\ F!Pow(m)[n] \in Nat /\ F!Pow(m)[n] >= 1
                        /\ F!Pow(m)[n + 1] \in Nat /\ F!Pow(m)[n + 1] >= F!Pow(m)[n]
<1>1. PICK f : f = F!Pow(m) OBVIOUS
<1>2. f[0] = 1 /\ \A n \in Nat : n > 0 => f[n] = m * f[n - 1] BY <1>1, PowIs
<1>3. ASSUME NEW n \in Nat PROVE f[n + 1] = m * f[n]
  <2>1. n + 1 \in Nat /\ n + 1 > 0 /\ n + 1 - 1 = n OBVIOUS
  <2> QED BY <2>1, <1>2
<1> DEFINE A == {n \in Nat : f[n] \in Nat /\ f[n] >= 1}
<1>4. 0 \in A BY <1>2
<1>5. ASSUME NEW n \in A PROVE n + 1 \in A
  <2>1. m * f[n] \in Nat /\ m * f[n] >= f[n] BY <1>5, ProductGrows
  <2> QED BY <2>1, <1>3, <1>5
<1>6. A = Nat
  <2>1. A \in SUBSET Nat OBVIOUS
  <2> HIDE DEF A
  <2> QED BY <1>4, <1>5, <2>1, NaturalInduction
<1>7. ASSUME NEW n \in Nat
      PROVE  f[n] \in Nat /\ f[n] >= 1 /\ f[n + 1] \in Nat /\ f[n + 1] >= f[n]
  <2>1. f[n] \in Nat /\ f[n] >= 1 BY <1>6
  <2>2. m * f[n] \in Nat /\ m * f[n] >= f[n] BY <2>1, ProductGrows
  <2> QED BY <2>1, <2>2, <1>3
<1> QED BY <1>1, <1>7

\* What was returned is one of the delays of the attempt that was asked for.
FormulaInv ==
  /\ config \in F!Configs /\ asked \in Nat
  /\ exponential \in F!Exponential(config, asked)
  /\ linear = F!Linear(config, asked)

LEMMA ConfigTyped ==
  ASSUME NEW c \in F!Configs
  PROVE  /\ MaxInt \in Nat
         /\ c.initial \in Nat /\ c.initial >= 1 /\ c.initial <= MaxInt
         /\ c.multiplier \in Nat /\ c.multiplier >= 1 /\ Unit \in Nat /\ Unit >= 1
         /\ c.increment \in Nat /\ c.increment <= MaxInt
         /\ c.maxDelay \in Nat /\ c.maxDelay <= MaxInt
<1>1. /\ c.initial \in 1..MaxInitial /\ c.multiplier \in Multipliers
      /\ c.increment \in 0..MaxIncrement /\ c.maxDelay \in MaxDelays
  BY DEF F!Configs
<1>2. /\ MaxInt \in Nat
      /\ MaxInitial \in 1..MaxInt /\ MaxIncrement \in 0..MaxInt
      /\ Multipliers \subseteq Nat \ {0} /\ Unit \in Nat \ {0}
      /\ MaxDelays \subseteq 0..MaxInt
  BY DelaysAssumption
<1>3. c.maxDelay \in 0..MaxInt BY <1>1, <1>2
<1>4. c.initial \in Nat /\ c.initial >= 1 /\ c.initial <= MaxInt BY <1>1, <1>2
<1>5. c.multiplier \in Nat /\ c.multiplier >= 1 /\ Unit \in Nat /\ Unit >= 1
  <2>1. c.multiplier \in Nat \ {0} BY <1>1, <1>2
  <2>2. \A n \in Nat \ {0} : n \in Nat /\ n >= 1 OBVIOUS
  <2> QED BY <2>1, <2>2, <1>2
<1>6. c.increment \in Nat /\ c.increment <= MaxInt BY <1>1, <1>2
<1>7. c.maxDelay \in Nat /\ c.maxDelay <= MaxInt BY <1>2, <1>3
<1> QED BY <1>2, <1>4, <1>5, <1>6, <1>7

\* A larger number has the larger product.
LEMMA ProductLarger ==
  ASSUME NEW x \in Nat, NEW y \in Nat, NEW k \in Nat, x <= y
  PROVE  x * k \in Nat /\ y * k \in Nat /\ x * k <= y * k
<1>1. PICK d \in Nat : y = x + d
  <2>1. y - x \in Nat /\ y = x + (y - x) OBVIOUS
  <2> QED BY <2>1
<1>2. y * k = x * k + d * k BY <1>1
<1>3. x * k \in Nat /\ d * k \in Nat BY <1>1
<1> QED BY <1>2, <1>3

\* The quotient of x and y is the largest number that y fits into x.
LEMMA QuotientIs ==
  ASSUME NEW x \in Nat, NEW y \in Nat, y >= 1
  PROVE  /\ x \div y \in Nat /\ y * (x \div y) <= x
         /\ \A q \in Nat : y * q <= x => q <= x \div y
<1>1. PICK d : d = x \div y OBVIOUS
<1>2. d \in Int /\ y * d <= x /\ x < y * (d + 1) BY <1>1
<1>3. d >= 0
  <2>1. CASE d < 0
    <3>1. -(d + 1) \in Nat BY <2>1, <1>2
    <3>2. y * (-(d + 1)) \in Nat BY <3>1
    <3>3. y * (d + 1) = -(y * (-(d + 1))) BY <1>2
    <3> QED BY <3>2, <3>3, <1>2
  <2> QED BY <2>1, <1>2
<1>4. ASSUME NEW q \in Nat, y * q <= x PROVE q <= d
  <2>1. CASE q > d
    <3>1. d + 1 \in Nat /\ d + 1 <= q BY <2>1, <1>2, <1>3
    <3>2. (d + 1) * y \in Nat /\ q * y \in Nat /\ (d + 1) * y <= q * y
      BY ONLY <3>1, ProductLarger, q \in Nat, y \in Nat
    <3>3. (d + 1) * y = y * (d + 1) /\ q * y = y * q BY <1>2
    <3> QED BY <3>2, <3>3, <1>2, <1>4
  <2> QED BY <2>1, <1>2
<1> QED BY <1>1, <1>2, <1>3, <1>4

\* Of a number and its product with n / d, for n / d of at least or at most one.
LEMMA QuotientGrows ==
  ASSUME NEW x \in Nat, NEW y \in Nat, NEW n \in Nat, NEW d \in Nat, y >= 1, d >= 1
  PROVE  /\ x \div y \in Nat /\ (x * n) \div (y * d) \in Nat
         /\ n >= d => x \div y <= (x * n) \div (y * d)
         /\ n <= d => (x * n) \div (y * d) <= x \div y
<1>1. PICK q : q = x \div y OBVIOUS
<1>2. q \in Nat /\ y * q \in Nat /\ y * q <= x /\ \A p \in Nat : y * p <= x => p <= q
  <2>1. q \in Nat /\ y * q <= x /\ \A p \in Nat : y * p <= x => p <= q
    BY <1>1, QuotientIs
  <2> QED BY <2>1
<1>3. PICK z : z = y * d OBVIOUS
<1>4. PICK w : w = x * n OBVIOUS
<1>5. z \in Nat /\ z >= 1 /\ w \in Nat
  <2>1. z \in Nat /\ z >= y
    <3>1. d * y \in Nat /\ d * y >= y BY ProductGrows
    <3>2. d * y = y * d OBVIOUS
    <3> QED BY <3>1, <3>2, <1>3
  <2> QED BY <2>1, <1>4
<1>6. PICK r : r = w \div z OBVIOUS
<1>7. r \in Nat /\ z * r \in Nat /\ z * r <= w /\ \A p \in Nat : z * p <= w => p <= r
  <2>1. r \in Nat /\ z * r <= w /\ \A p \in Nat : z * p <= w => p <= r
    BY ONLY <1>5, <1>6, QuotientIs
  <2> QED BY <2>1, <1>5
<1>8. ASSUME n >= d PROVE q <= r
  <2>1. (y * q) * d \in Nat /\ x * d \in Nat /\ (y * q) * d <= x * d
    BY <1>2, ProductLarger
  <2>2. d * x \in Nat /\ n * x \in Nat /\ d * x <= n * x BY <1>8, ProductLarger
  <2>3. z * q = (y * q) * d BY <1>2, <1>3
  <2>4. d * x = x * d /\ n * x = w BY <1>4
  <2>5. z * q <= w BY <2>1, <2>2, <2>3, <2>4
  <2> QED BY <2>5, <1>2, <1>7
<1>9. ASSUME n <= d PROVE r <= q
  <2>1. n * x \in Nat /\ d * x \in Nat /\ n * x <= d * x BY <1>9, ProductLarger
  <2>2. y * r \in Nat /\ z * r = (y * r) * d BY <1>3, <1>7
  <2>3. d * x = x * d /\ n * x = w BY <1>4
  <2>4. (y * r) * d <= x * d BY <2>1, <2>2, <2>3, <1>7
  <2>5. y * r <= x
    <3>1. CASE y * r >= x + 1
      <4>1. x + 1 \in Nat OBVIOUS
      <4>2. (x + 1) * d <= (y * r) * d BY <2>2, <3>1, <4>1, ProductLarger
      <4>3. (x + 1) * d = x * d + d /\ x * d \in Nat /\ (y * r) * d \in Nat BY <2>2
      <4> QED BY <2>4, <4>2, <4>3
    <3> QED BY <2>2, <3>1
  <2> QED BY <2>5, <1>2, <1>7
<1> QED BY <1>1, <1>2, <1>3, <1>4, <1>6, <1>7, <1>8, <1>9

\* The powers of one attempt after the other.
LEMMA PowerSteps ==
  ASSUME NEW c \in F!Configs, NEW a \in Nat
  PROVE  /\ F!Power(c, 1) = c.initial /\ F!Power(c, 0) \in Nat
         /\ F!Power(c, a + 1) \in Nat /\ F!Power(c, a + 2) \in Nat
         /\ c.multiplier >= Unit => /\ F!Power(c, 0) <= c.initial
                                    /\ F!Power(c, a + 1) <= F!Power(c, a + 2)
         /\ c.multiplier <= Unit => /\ F!Power(c, 0) >= c.initial
                                    /\ F!Power(c, a + 1) >= F!Power(c, a + 2)
<1>1. PICK i : i = c.initial OBVIOUS
<1>2. PICK m : m = c.multiplier OBVIOUS
<1>3. i \in Nat /\ m \in Nat /\ m >= 1 /\ Unit \in Nat /\ Unit >= 1
  BY <1>1, <1>2, ConfigTyped
<1>4. PICK p : p = F!Pow(m) OBVIOUS
<1>5. PICK u : u = F!Pow(Unit) OBVIOUS
<1>6. /\ p[0] = 1 /\ p[a] \in Nat /\ p[a + 1] = m * p[a]
      /\ u[0] = 1 /\ u[a] \in Nat /\ u[a] >= 1 /\ u[a + 1] = Unit * u[a]
  <2>1. a + 1 \in Nat /\ a + 1 > 0 /\ a + 1 - 1 = a OBVIOUS
  <2>2. p[0] = 1 /\ p[a + 1] = m * p[a] BY ONLY <2>1, <1>4, PowIs
  <2>3. u[0] = 1 /\ u[a + 1] = Unit * u[a] BY ONLY <2>1, <1>5, PowIs
  <2>4. p[a] \in Nat BY ONLY <1>3, <1>4, PowGrows, a \in Nat
  <2>5. u[a] \in Nat /\ u[a] >= 1 BY ONLY <1>3, <1>5, PowGrows, a \in Nat
  <2> QED BY <2>2, <2>3, <2>4, <2>5
<1>7. F!Power(c, 0) = (i * Unit) \div m BY <1>1, <1>2 DEF F!Power
<1>8. \A b \in Nat : b > 0 => F!Power(c, b) = (i * p[b - 1]) \div u[b - 1]
  BY <1>1, <1>2, <1>4, <1>5 DEF F!Power
<1>9. F!Power(c, 1) = i
  <2>1. F!Power(c, 1) = (i * p[1 - 1]) \div u[1 - 1] BY <1>8
  <2>2. 1 - 1 = 0 /\ i * 1 = i /\ i \div 1 = i BY <1>3
  <2> QED BY <2>1, <2>2, <1>6
<1>10. /\ F!Power(c, 0) \in Nat
       /\ m >= Unit => F!Power(c, 0) <= i
       /\ m <= Unit => F!Power(c, 0) >= i
  <2>1. i \div 1 = i /\ 1 * m = m BY <1>3
  <2>2. /\ (i * Unit) \div (1 * m) \in Nat
        /\ Unit >= m => i \div 1 <= (i * Unit) \div (1 * m)
        /\ Unit <= m => (i * Unit) \div (1 * m) <= i \div 1
    BY ONLY <1>3, QuotientGrows
  <2> QED BY <2>1, <2>2, <1>3, <1>7
<1>11. PICK x : x = i * p[a] OBVIOUS
<1>12. PICK y : y = u[a] OBVIOUS
<1>13. x \in Nat /\ y \in Nat /\ y >= 1 BY <1>3, <1>6, <1>11, <1>12
<1>14. F!Power(c, a + 1) = x \div y
  <2>1. a + 1 \in Nat /\ a + 1 > 0 /\ a + 1 - 1 = a OBVIOUS
  <2> QED BY <2>1, <1>8, <1>11, <1>12
<1>15. F!Power(c, a + 2) = (x * m) \div (y * Unit)
  <2>1. a + 2 \in Nat /\ a + 2 > 0 /\ a + 2 - 1 = a + 1 OBVIOUS
  <2>2. i * p[a + 1] = x * m BY <1>3, <1>6, <1>11
  <2>3. u[a + 1] = y * Unit BY <1>3, <1>6, <1>12
  <2>4. F!Power(c, a + 2) = (i * p[a + 1]) \div u[a + 1] BY <2>1, <1>8
  <2> QED BY <2>2, <2>3, <2>4
<1>16. /\ x \div y \in Nat /\ (x * m) \div (y * Unit) \in Nat
       /\ m >= Unit => x \div y <= (x * m) \div (y * Unit)
       /\ m <= Unit => (x * m) \div (y * Unit) <= x \div y
  BY ONLY <1>3, <1>13, QuotientGrows
<1> QED BY <1>1, <1>2, <1>9, <1>10, <1>14, <1>15, <1>16

LEMMA PowerIsNat == ASSUME NEW c \in F!Configs, NEW b \in Nat PROVE F!Power(c, b) \in Nat
<1>1. CASE b = 0 BY <1>1, PowerSteps
<1>2. CASE b >= 1
  <2>1. PICK a \in Nat : b = a + 1
    <3>1. b - 1 \in Nat /\ b = (b - 1) + 1 BY <1>2
    <3> QED BY <3>1
  <2> QED BY <2>1, PowerSteps
<1> QED BY <1>1, <1>2

\* They stay on one side of the initial delay.
LEMMA PowerBounds ==
  ASSUME NEW c \in F!Configs
  PROVE  \A a \in Nat : /\ c.multiplier >= Unit => F!Power(c, a + 1) >= c.initial
                        /\ c.multiplier <= Unit => F!Power(c, a + 1) <= c.initial
<1> DEFINE P(a) == /\ c.multiplier >= Unit => F!Power(c, a + 1) >= c.initial
                   /\ c.multiplier <= Unit => F!Power(c, a + 1) <= c.initial
           A == {a \in Nat : P(a)}
<1>1. 0 \in A
  <2>1. F!Power(c, 0 + 1) = c.initial
    <3>1. 0 + 1 = 1 OBVIOUS
    <3> QED BY <3>1, PowerSteps
  <2>2. c.initial \in Nat BY ConfigTyped
  <2> QED BY <2>1, <2>2
<1>2. ASSUME NEW a \in A PROVE a + 1 \in A
  <2>1. a \in Nat /\ P(a) BY <1>2
  <2>2. a + 1 \in Nat /\ a + 1 + 1 = a + 2 BY <2>1
  <2>3. /\ F!Power(c, a + 1) \in Nat /\ F!Power(c, a + 2) \in Nat
        /\ c.multiplier >= Unit => F!Power(c, a + 1) <= F!Power(c, a + 2)
        /\ c.multiplier <= Unit => F!Power(c, a + 1) >= F!Power(c, a + 2)
    BY ONLY <2>1, PowerSteps, c \in F!Configs
  <2>4. c.initial \in Nat BY ConfigTyped
  <2>5. P(a + 1) BY <2>1, <2>2, <2>3, <2>4
  <2> QED BY <2>2, <2>5
<1>3. A = Nat
  <2>1. A \in SUBSET Nat OBVIOUS
  <2> HIDE DEF A
  <2> QED BY <1>1, <1>2, <2>1, NaturalInduction
<1> QED BY <1>3

\* The sums of one attempt after the other.
LEMMA LineGrows ==
  ASSUME NEW c \in F!Configs, NEW a \in Nat
  PROVE  /\ F!Line(c, 0) = c.initial - c.increment
         /\ F!Line(c, a + 1) \in Nat /\ F!Line(c, a + 1) >= c.initial
         /\ F!Line(c, 1) = c.initial
         /\ a >= 1 => F!Line(c, a) \in Nat /\ F!Line(c, a + 1) >= F!Line(c, a)
<1>1. PICK i : i = c.initial OBVIOUS
<1>2. PICK s : s = c.increment OBVIOUS
<1>3. i \in Nat /\ s \in Nat BY <1>1, <1>2, ConfigTyped
<1>4. F!Line(c, 0) = i + (0 - 1) * s /\ F!Line(c, 1) = i + (1 - 1) * s
  BY <1>1, <1>2 DEF F!Line
<1>5. F!Line(c, a + 1) = i + a * s
  <2>1. a + 1 - 1 = a OBVIOUS
  <2> QED BY <2>1, <1>1, <1>2 DEF F!Line
<1>6. a * s \in Nat BY <1>3
<1>7. ASSUME a >= 1 PROVE F!Line(c, a) \in Nat /\ i + a * s >= F!Line(c, a)
  <2>1. PICK b \in Nat : a = b + 1
    <3>1. a - 1 \in Nat /\ a = (a - 1) + 1 BY <1>7
    <3> QED BY <3>1
  <2>2. a - 1 = b BY <2>1
  <2>3. F!Line(c, a) = i + b * s BY <2>2, <1>1, <1>2 DEF F!Line
  <2>4. b * s \in Nat /\ a * s = b * s + s BY <2>1, <1>3
  <2> QED BY <2>3, <2>4, <1>3
<1>8. F!Line(c, 0) = i - s /\ F!Line(c, 1) = i
  <2>1. (0 - 1) * s = -s /\ (1 - 1) * s = 0 BY <1>3
  <2> QED BY <2>1, <1>3, <1>4
<1>9. F!Line(c, a + 1) \in Nat /\ F!Line(c, a + 1) >= i BY <1>3, <1>5, <1>6
<1>10. a >= 1 => F!Line(c, a) \in Nat /\ F!Line(c, a + 1) >= F!Line(c, a) BY <1>5, <1>7
<1> QED BY <1>1, <1>2, <1>8, <1>9, <1>10

\* The delays of an attempt are integers up to the maximum; a number that fits is
\* only limited.
LEMMA ExponentialIs ==
  ASSUME NEW c \in F!Configs, NEW a \in Nat, NEW d \in F!Exponential(c, a)
  PROVE  /\ d \in Int /\ d <= c.maxDelay
         /\ F!Power(c, F!Counted(c, a)) <= MaxInt =>
              d = F!Limit(c, F!Power(c, F!Counted(c, a)))
<1>1. PICK b : b = F!Counted(c, a) OBVIOUS
<1>2. b \in Nat BY <1>1 DEF F!Counted
<1>3. PICK x : x = F!Power(c, b) OBVIOUS
<1>4. x \in Nat BY <1>2, <1>3, PowerIsNat
<1>5. PICK y \in F!FromFloat(x) : d = F!Limit(c, y) BY <1>1, <1>3 DEF F!Exponential
<1>6. MaxInt \in Nat /\ c.maxDelay \in Nat BY ConfigTyped
<1>7. y \in Int /\ (x <= MaxInt => y = x)
  <2>1. CASE x <= MaxInt BY <2>1, <1>4, <1>5 DEF F!FromFloat
  <2>2. CASE x > MaxInt BY <2>2, <1>4, <1>5, <1>6 DEF F!FromFloat, F!MinInt
  <2> QED BY <2>1, <2>2, <1>4, <1>6
<1>8. d = IF y > c.maxDelay THEN c.maxDelay ELSE y BY <1>5 DEF F!Limit
<1>9. x <= MaxInt => d = F!Limit(c, x) BY <1>5, <1>7
<1> QED BY <1>1, <1>3, <1>6, <1>7, <1>8, <1>9

LEMMA LinearIs ==
  ASSUME NEW c \in F!Configs, NEW a \in Nat
  PROVE  /\ F!Linear(c, a) \in Int /\ F!Linear(c, a) <= c.maxDelay
         /\ F!Line(c, F!Counted(c, a)) <= MaxInt =>
              F!Linear(c, a) = F!Limit(c, F!Line(c, F!Counted(c, a)))
<1>1. PICK b : b = F!Counted(c, a) OBVIOUS
<1>2. b \in Nat BY <1>1 DEF F!Counted
<1>3. PICK x : x = F!Line(c, b) OBVIOUS
<1>4. /\ MaxInt \in Nat /\ c.maxDelay \in Nat /\ c.initial \in Nat
      /\ c.increment \in Nat /\ c.increment <= MaxInt
  BY ConfigTyped
<1>5. x \in Int /\ x >= -MaxInt - 1
  <2>1. CASE b = 0
    <3>1. x = c.initial - c.increment BY <2>1, <1>3, LineGrows
    <3> QED BY <3>1, <1>4
  <2>2. CASE b >= 1
    <3>1. x \in Nat BY <2>2, <1>2, <1>3, LineGrows
    <3> QED BY <3>1, <1>4
  <2> QED BY <2>1, <2>2, <1>2
<1>6. PICK y : y = F!Wrap(x) OBVIOUS
<1>7. y \in Int
  <2>1. 2 * (MaxInt + 1) \in Nat /\ 2 * (MaxInt + 1) > 0 BY <1>4
  <2> QED BY <2>1, <1>4, <1>5, <1>6 DEF F!Wrap, F!MinInt
<1>8. x <= MaxInt => y = x
  <2>1. ASSUME x <= MaxInt PROVE y = x
    <3>1. x <= 2 * MaxInt + 1 BY <2>1, <1>4, <1>5
    <3>2. F!Wrap(x) = IF x <= MaxInt THEN x ELSE x - 2 * (MaxInt + 1)
      BY ONLY <3>1, <1>5, WrapIs, WrapSame
    <3> QED BY <2>1, <3>2, <1>6
  <2> QED BY <2>1
<1>9. F!Linear(c, a) = F!Limit(c, y) BY <1>1, <1>3, <1>6 DEF F!Linear
<1>10. F!Limit(c, y) = IF y > c.maxDelay THEN c.maxDelay ELSE y BY DEF F!Limit
<1>11. x <= MaxInt => F!Linear(c, a) = F!Limit(c, x) BY <1>8, <1>9
<1> QED BY <1>1, <1>3, <1>4, <1>7, <1>9, <1>10, <1>11

\* An attempt is counted as itself or, the first of a strategy, as 1.
LEMMA CountedIs ==
  ASSUME NEW c \in F!Configs, NEW a \in Nat
  PROVE  F!Counted(c, a) = a \/ (a = 0 /\ F!Counted(c, a) = 1)
BY DEF F!Counted

\* The larger of two numbers is limited to the larger delay.
LEMMA LimitGrows ==
  ASSUME NEW c \in F!Configs, NEW x \in Int, NEW y \in Int, x <= y
  PROVE  F!Limit(c, x) <= F!Limit(c, y)
BY ConfigTyped DEF F!Limit

\* What FormulaInv says of both delays (NextDelay of ExponentialBackoff,
\* LinearBackoff and their policies).
LEMMA FormulasInRange == FormulaInv => F!DelaysInRange
<1> SUFFICES ASSUME FormulaInv PROVE F!DelaysInRange OBVIOUS
<1>1. config \in F!Configs /\ asked \in Nat BY DEF FormulaInv
<1>2. PICK i : i = config.initial OBVIOUS
<1>3. PICK m : m = config.maxDelay OBVIOUS
<1>4. /\ MaxInt \in Nat /\ i \in Nat /\ i <= MaxInt /\ m \in Nat /\ m <= MaxInt
      /\ config.multiplier \in Nat /\ Unit \in Nat
  BY <1>1, <1>2, <1>3, ConfigTyped
<1>5. /\ exponential \in Int /\ exponential <= m /\ linear \in Int /\ linear <= m
      /\ F!Power(config, F!Counted(config, asked)) <= MaxInt =>
           exponential = F!Limit(config, F!Power(config, F!Counted(config, asked)))
      /\ F!Line(config, F!Counted(config, asked)) <= MaxInt =>
           linear = F!Limit(config, F!Line(config, F!Counted(config, asked)))
  BY <1>1, <1>3, ExponentialIs, LinearIs DEF FormulaInv
<1>6. ASSUME asked >= 1
      PROVE  /\ F!Counted(config, asked) = asked
             /\ F!Power(config, asked) \in Nat
             /\ config.multiplier >= Unit => F!Power(config, asked) >= i
             /\ config.multiplier <= Unit => F!Power(config, asked) <= i
             /\ F!Line(config, asked) \in Nat /\ F!Line(config, asked) >= i
             /\ asked = 1 => F!Power(config, asked) = i /\ F!Line(config, asked) = i
  <2>1. PICK a \in Nat : asked = a + 1
    <3>1. asked - 1 \in Nat /\ asked = (asked - 1) + 1 BY <1>1, <1>6
    <3> QED BY <3>1
  <2>2. F!Counted(config, asked) = asked BY <1>1, <1>6, CountedIs
  <2>3. F!Power(config, a + 1) \in Nat BY <1>1, PowerSteps
  <2>4. F!Line(config, a + 1) \in Nat /\ F!Line(config, a + 1) >= i
    BY <1>1, <1>2, LineGrows
  <2>5. F!Power(config, 1) = i /\ F!Line(config, 1) = i
    BY <1>1, <1>2, PowerSteps, LineGrows
  <2>6. /\ config.multiplier >= Unit => F!Power(config, a + 1) >= i
        /\ config.multiplier <= Unit => F!Power(config, a + 1) <= i
    BY <1>1, <1>2, PowerBounds
  <2> QED BY <2>1, <2>2, <2>3, <2>4, <2>5, <2>6
<1>7. F!First = F!Limit(config, i) BY <1>2 DEF F!First
<1>8. F!InRange(linear, F!Line(config, asked), TRUE)
  <2>1. CASE asked >= 1
    <3>1. PICK x : x = F!Line(config, asked) OBVIOUS
    <3>2. x \in Nat /\ x >= i /\ (x <= MaxInt => linear = F!Limit(config, x))
          /\ (asked = 1 => x = i)
      BY <2>1, <3>1, <1>5, <1>6
    <3>3. x <= MaxInt => F!First <= linear BY <3>2, <1>1, <1>4, <1>7, LimitGrows
    <3>4. asked = 1 => linear = F!First BY <3>2, <1>4, <1>7
    <3>5. F!InRange(linear, x, TRUE) BY <3>3, <3>4, <1>3, <1>5 DEF F!InRange
    <3> QED BY <3>1, <3>5
  <2>2. CASE asked = 0 BY <2>2, <1>3, <1>5 DEF F!InRange
  <2>3. asked >= 1 \/ asked = 0 BY <1>1
  <2> QED BY ONLY <2>1, <2>2, <2>3
<1>9. F!InRange(exponential, F!Power(config, asked), F!Growing)
  <2>1. CASE asked >= 1
    <3>1. PICK x : x = F!Power(config, asked) OBVIOUS
    <3>2. /\ x \in Nat /\ (x <= MaxInt => exponential = F!Limit(config, x))
          /\ (asked = 1 => x = i)
          /\ (config.multiplier >= Unit => x >= i) /\ (config.multiplier <= Unit => x <= i)
      BY <2>1, <3>1, <1>5, <1>6
    <3>3. x <= MaxInt /\ config.multiplier >= Unit => F!First <= exponential
      BY <3>2, <1>1, <1>4, <1>7, LimitGrows
    <3>4. x <= MaxInt /\ ~(config.multiplier >= Unit) => exponential <= F!First
      <4>1. ~(config.multiplier >= Unit) => config.multiplier <= Unit BY <1>4
      <4> QED BY <4>1, <3>2, <1>1, <1>4, <1>7, LimitGrows
    <3>5. asked = 1 => exponential = F!First BY <3>2, <1>4, <1>7
    <3> QED BY <3>1, <3>3, <3>4, <3>5, <1>3, <1>5 DEF F!InRange, F!Growing
  <2>2. CASE asked = 0 BY <2>2, <1>3, <1>5 DEF F!InRange
  <2> QED BY <2>1, <2>2, <1>1
<1>10. ASSUME NEW d \in {exponential, linear}, d >= 0
       PROVE  F!JitterInRange(d, config.maxDelay)
  <2>1. d \in Nat /\ d <= m BY <1>4, <1>5, <1>10
  <2> QED BY <2>1, <1>3, <1>4, JitterSame
<1>11. F!JitterInRange(F!Fixed(config), F!Fixed(config))
  <2>1. F!Fixed(config) = i BY <1>2 DEF F!Fixed
  <2>2. i <= i BY <1>4
  <2> QED BY <2>1, <2>2, <1>4, JitterSame
<1> QED BY <1>8, <1>9, <1>10, <1>11 DEF F!DelaysInRange

LEMMA FormulaInit == DelaysInit => FormulaInv
<1> SUFFICES ASSUME DelaysInit PROVE FormulaInv OBVIOUS
<1> QED BY DEF DelaysInit, F!Init, FormulaInv

LEMMA FormulaStep ==
  ASSUME FormulaInv, [DelaysNext]_delaysVars PROVE FormulaInv'
<1>1. CASE F!NextDelay
  <2>1. /\ config' = config /\ asked' = asked + 1
        /\ exponential' \in F!Exponential(config, asked + 1)
        /\ linear' = F!Linear(config, asked + 1)
    BY <1>1 DEF F!NextDelay
  <2>2. asked' \in Nat BY <2>1 DEF FormulaInv
  <2>3. /\ exponential' \in F!Exponential(config', asked')
        /\ linear' = F!Linear(config', asked')
    BY <2>1
  <2> QED BY <2>1, <2>2, <2>3 DEF FormulaInv
<1>2. CASE UNCHANGED formulaVars
  <2>1. config' = config /\ asked' = asked /\ exponential' = exponential /\ linear' = linear
    BY <1>2 DEF formulaVars
  <2> QED BY <2>1 DEF FormulaInv
<1> QED BY <1>1, <1>2 DEF DelaysNext, Formula, Fibonacci, Decorrelated, delaysVars

\* A step of NextDelay, from an attempt to the next.
LEMMA NextGrows ==
  ASSUME FormulaInv, F!NextDelay PROVE F!Grows
<1>1. /\ config \in F!Configs /\ asked \in Nat /\ asked' = asked + 1 /\ config' = config
      /\ exponential \in F!Exponential(config, asked)
      /\ exponential' \in F!Exponential(config, asked + 1)
      /\ linear = F!Linear(config, asked)
      /\ linear' = F!Linear(config, asked + 1)
  BY DEF FormulaInv, F!NextDelay
<1>2. PICK a : a = asked OBVIOUS
<1>3. PICK b : b = F!Counted(config, a) OBVIOUS
<1>4. /\ a \in Nat /\ a + 1 \in Nat /\ a + 1 # 0
      /\ b \in Nat /\ (b = a \/ (a = 0 /\ b = 1))
      /\ F!Counted(config, a + 1) = a + 1
  <2>1. a \in Nat /\ a + 1 \in Nat /\ a + 1 # 0 BY <1>1, <1>2
  <2>2. F!Counted(config, a + 1) = a + 1 BY <2>1 DEF F!Counted
  <2>3. b = a \/ (a = 0 /\ b = 1) BY <1>1, <1>3, <2>1, CountedIs
  <2> QED BY <2>1, <2>2, <2>3
<1>5. MaxInt \in Nat /\ config.initial \in Nat /\ config.increment \in Nat
  BY <1>1, ConfigTyped
<1>6. ASSUME F!Power(config, b) <= MaxInt, F!Power(config, a + 1) <= MaxInt
      PROVE  IF F!Growing THEN exponential' >= exponential ELSE exponential' <= exponential
  <2>1. PICK x : x = F!Power(config, b) OBVIOUS
  <2>2. PICK y : y = F!Power(config, a + 1) OBVIOUS
  <2>3. /\ x \in Nat /\ y \in Nat
        /\ config.multiplier >= Unit => x <= y
        /\ config.multiplier <= Unit => y <= x
    <3>0. x \in Nat /\ y \in Nat BY <2>1, <2>2, <1>1, <1>4, PowerIsNat
    <3>1. CASE a = 0 /\ b = 0
      <4>1. 0 + 1 = 1 OBVIOUS
      <4>2. y = config.initial BY <4>1, <3>1, <2>2, <1>1, PowerSteps
      <4>3. /\ config.multiplier >= Unit => x <= config.initial
            /\ config.multiplier <= Unit => x >= config.initial
        BY <3>1, <2>1, <1>1, PowerSteps
      <4> QED BY <3>0, <4>2, <4>3
    <3>2. CASE a = 0 /\ b = 1
      <4>1. 0 + 1 = 1 OBVIOUS
      <4>2. x = y BY <4>1, <3>2, <2>1, <2>2
      <4> QED BY <3>0, <4>2
    <3>3. CASE a >= 1 /\ b = a
      <4>1. PICK k \in Nat : a = k + 1
        <5>1. a - 1 \in Nat /\ a = (a - 1) + 1 BY <3>3, <1>4
        <5> QED BY <5>1
      <4>2. a + 1 = k + 2 BY <4>1
      <4>3. x = F!Power(config, k + 1) /\ y = F!Power(config, k + 2)
        BY <4>1, <4>2, <3>3, <2>1, <2>2
      <4> QED BY <3>0, <4>3, <1>1, PowerSteps
    <3> QED BY <1>4, <3>1, <3>2, <3>3
  <2>4. x \in Int /\ y \in Int /\ x <= MaxInt /\ y <= MaxInt BY <2>1, <2>2, <2>3, <1>6
  <2>5. exponential \in Int /\ exponential = F!Limit(config, x)
    BY <1>1, <1>2, <1>3, <1>4, <2>1, <2>4, ExponentialIs
  <2>6. exponential' \in Int /\ exponential' = F!Limit(config, y)
    <3>1. PICK d \in F!Exponential(config, a + 1) : d = exponential' BY <1>1, <1>2
    <3>2. d \in Int /\ (F!Power(config, F!Counted(config, a + 1)) <= MaxInt =>
                          d = F!Limit(config, F!Power(config, F!Counted(config, a + 1))))
      BY ONLY <1>1, <1>4, <3>1, ExponentialIs
    <3> QED BY <3>1, <3>2, <1>4, <2>2, <2>4
  <2>7. CASE config.multiplier >= Unit
    <3>1. F!Limit(config, x) <= F!Limit(config, y) BY <2>3, <2>4, <2>7, <1>1, LimitGrows
    <3> QED BY <2>5, <2>6, <2>7, <3>1 DEF F!Growing
  <2>8. CASE ~(config.multiplier >= Unit)
    <3>1. config.multiplier <= Unit BY <2>8, <1>1, ConfigTyped
    <3>2. F!Limit(config, y) <= F!Limit(config, x) BY <2>3, <2>4, <3>1, <1>1, LimitGrows
    <3> QED BY <2>5, <2>6, <2>8, <3>2 DEF F!Growing
  <2> QED BY <2>7, <2>8
<1>7. ASSUME F!Line(config, a + 1) <= MaxInt PROVE linear' >= linear
  <2>1. /\ F!Line(config, b) \in Int /\ F!Line(config, a + 1) \in Int
        /\ F!Line(config, b) <= F!Line(config, a + 1)
    <3>1. CASE a = 0 /\ b = 0
      <4>1. /\ F!Line(config, 0) = config.initial - config.increment
            /\ F!Line(config, a + 1) \in Nat /\ F!Line(config, a + 1) >= config.initial
        BY <1>1, <1>4, LineGrows
      <4> QED BY <3>1, <4>1, <1>5
    <3>2. CASE a = 0 /\ b = 1
      <4>1. F!Line(config, 0 + 1) \in Nat BY <1>1, LineGrows
      <4>2. 0 + 1 = 1 OBVIOUS
      <4> QED BY <3>2, <4>1, <4>2
    <3>3. CASE a >= 1 /\ b = a
      <4>1. /\ F!Line(config, a) \in Nat /\ F!Line(config, a + 1) >= F!Line(config, a)
            /\ F!Line(config, a + 1) \in Nat
        BY <1>1, <1>4, <3>3, LineGrows
      <4> QED BY <3>3, <4>1
    <3> QED BY <1>4, <3>1, <3>2, <3>3
  <2>2. PICK x : x = F!Line(config, b) OBVIOUS
  <2>3. PICK y : y = F!Line(config, a + 1) OBVIOUS
  <2>4. x \in Int /\ y \in Int /\ x <= y /\ x <= MaxInt /\ y <= MaxInt
    BY <2>1, <2>2, <2>3, <1>5, <1>7
  <2>5. linear = F!Limit(config, x)
    BY <1>1, <1>2, <1>3, <1>4, <2>2, <2>4, LinearIs
  <2>6. linear' = F!Limit(config, y)
    BY <1>1, <1>2, <1>4, <2>3, <2>4, LinearIs
  <2>7. F!Limit(config, x) <= F!Limit(config, y) BY ONLY <1>1, <2>4, LimitGrows
  <2> QED BY <2>5, <2>6, <2>7
<1>8. asked' = a + 1 BY <1>1, <1>2
<1> QED BY <1>2, <1>3, <1>6, <1>7, <1>8 DEF F!Grows

\* Backing off, before the jitter, never gets shorter from one attempt to the next,
\* as long as the numbers fit, or with a multiplier below one longer, for every
\* configuration and every maximum (ExponentialBackoffRetry and
\* LinearBackoffRetry.NextDelay).
THEOREM DelaysOnlyGrow == DelaysSpec => DelaysGrow
<1>1. DelaysSpec => []FormulaInv BY FormulaInit, FormulaStep, PTL DEF DelaysSpec
<1>2. ASSUME FormulaInv, FormulaInv', [DelaysNext]_delaysVars PROVE [F!Grows]_delaysVars
  <2>1. CASE F!NextDelay BY <1>2, <2>1, NextGrows
  <2>2. CASE UNCHANGED formulaVars
    <3>1. exponential' = exponential /\ linear' = linear BY <2>2 DEF formulaVars
    <3>2. config \in F!Configs /\ asked \in Nat /\ exponential \in Int /\ linear \in Int
      BY <1>2, ExponentialIs, LinearIs DEF FormulaInv
    <3>3. exponential' >= exponential /\ linear' >= linear BY <3>1, <3>2
    <3>4. IF F!Growing THEN exponential' >= exponential ELSE exponential' <= exponential
      BY <3>1, <3>2
    <3> QED BY <3>3, <3>4 DEF F!Grows
  <2> QED BY <1>2, <2>1, <2>2 DEF DelaysNext, Formula, Fibonacci, Decorrelated, delaysVars
<1> QED BY <1>1, <1>2, PTL DEF DelaysSpec, DelaysGrow

\* Before the jitter no strategy exceeds its maximum, nor, as long as the numbers
\* fit, falls below its minimum, whatever wraps around; full and equal jitter keep
\* a delay within the maximum, and a policy's jitter passes it by at most its
\* share (NextDelay of every policy and strategy, the jitter functions, applyJitter).
\* The maximum does not bound the answers: exponential jitter has no bound.
THEOREM DelaysStayInRange ==
  ASSUME NEW c, Callers = {c} PROVE DelaysSpec => []DelaysInRange
<1>1. DelaysSpec => []FormulaInv BY FormulaInit, FormulaStep, PTL DEF DelaysSpec
<1>2. DelaysSpec => []FibonacciInv(c) BY FibonacciAlways
<1>3. DelaysSpec => []D!InRange BY StaysInRange
<1>4. FormulaInv /\ FibonacciInv(c) /\ D!InRange => DelaysInRange
  BY FormulasInRange DEF FibonacciInv, CallerInv, DelaysInRange
<1> QED BY <1>1, <1>2, <1>3, <1>4, PTL
=============================================================================
