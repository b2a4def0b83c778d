--------------------------- MODULE ResultsProofs ---------------------------
(***************************************************************************)
(* Theorems about a whole program that uses the results library, for any   *)
(* number of threads, steps, series and types of values.  First the run    *)
(* and its steps alone: the type invariant, and the bracket every step's   *)
(* artifacts make.  Then the whole library: its type invariant, that the   *)
(* elements of a series have one type, and that the artifacts of a series  *)
(* and of its step lie between their starts and ends.  Last the order of   *)
(* the run's artifacts, the verdict in its end, what the ends of steps and *)
(* series tell, what is in the file when a call returns, and that the      *)
(* library uses its artifact writer as ArtifactLog allows.                 *)
(***************************************************************************)
EXTENDS MeasurementSeries, SequenceTheorems, FiniteSetTheorems, TLAPS

\* A step of the log that writes at most one artifact, of the set A.
Writes(A) == log' = log \/ \E a \in A : log' = Append(log, a)

\* Every artifact this program writes is an artifact.
LEMMA Kinds ==
  /\ {SchemaVersion, RunStart, RunLog, RunError} \subseteq RunArtifact
  /\ RunArtifact \subseteq Artifact
  /\ \A s \in Steps :
       /\ {StepStart(s), Content(s), Failure(s), StepError(s)} \subseteq StepArtifact(s)
       /\ StepArtifact(s) \subseteq Artifact
<1>1. /\ RunArtifact \subseteq Artifact
      /\ \A s \in Steps : StepArtifact(s) \subseteq Artifact
  BY DEF Artifact
<1>2. {SchemaVersion, RunStart, RunLog, RunError} \subseteq RunArtifact
  BY DEF RunArtifact
<1>3. ASSUME NEW s \in Steps
      PROVE  {StepStart(s), Content(s), Failure(s), StepError(s)} \subseteq StepArtifact(s)
  BY DEF StepArtifact
<1> QED BY <1>1, <1>2, <1>3

\* ArtifactWriter::Write appends one artifact to a well-formed log.
LEMMA PutType ==
  ASSUME Log!TypeOK, NEW A, A \subseteq Artifact, NEW a \in A, Log!Put(a)
  PROVE  Log!TypeOK' /\ Writes(A)
<1>1. log \in Seq(Artifact) /\ a \in Artifact
  BY DEF Log!TypeOK
<1>2. log' \in Seq(Artifact) /\ Len(log') = Len(log) + 1
  BY <1>1, AppendProperties DEF Log!Put
<1>3. durable' \in 0..Len(log')
  BY <1>1, <1>2, LenProperties DEF Log!TypeOK, Log!Put
<1> QED BY <1>2, <1>3 DEF Log!TypeOK, Log!Put, Writes

\* ArtifactWriter::Flush leaves the log as it is.
LEMMA SyncType ==
  ASSUME Log!TypeOK, Log!Sync
  PROVE  Log!TypeOK' /\ log' = log
<1>1. Len(log) \in Nat
  BY LenProperties DEF Log!TypeOK
<1> QED BY <1>1 DEF Log!TypeOK, Log!Sync

\* So does the destruction of the writer.
LEMMA CloseType ==
  ASSUME Log!TypeOK, Log!Close
  PROVE  Log!TypeOK' /\ log' = log
<1>1. Len(log) \in Nat
  BY LenProperties DEF Log!TypeOK
<1> QED BY <1>1 DEF Log!TypeOK, Log!Close

\* And the truncation of its file by another one.
LEMMA TruncateType ==
  ASSUME Log!TypeOK, Log!Truncate
  PROVE  Log!TypeOK' /\ log' = log
<1>1. Len(log) \in Nat
  BY LenProperties DEF Log!TypeOK
<1> QED BY <1>1 DEF Log!TypeOK, Log!Truncate

\* A step that leaves the writer alone.
LEMMA QuietType ==
  ASSUME Log!TypeOK, UNCHANGED logVars
  PROVE  Log!TypeOK' /\ log' = log
BY DEF Log!TypeOK, logVars

\* Every method of the calculator keeps it well formed.
LEMMA CalculatorType ==
  ASSUME CalculatorTypeOK,
         \/ NotifyStartRun \/ NotifySkip \/ NotifyError
         \/ NotifyFailureDiagnosis \/ Finalize \/ UNCHANGED calculatorVars
  PROVE  CalculatorTypeOK'
<1>1. CASE NotifyStartRun
  BY <1>1 DEF CalculatorTypeOK, NotifyStartRun
<1>2. CASE NotifySkip
  BY <1>2 DEF CalculatorTypeOK, NotifySkip, SetStatusOnce, TestStatus, TestResult
<1>3. CASE NotifyError
  BY <1>3 DEF CalculatorTypeOK, NotifyError, SetStatusOnce, TestStatus, TestResult
<1>4. CASE NotifyFailureDiagnosis
  BY <1>4 DEF CalculatorTypeOK, NotifyFailureDiagnosis, TestResult
<1>5. CASE Finalize
  BY <1>5 DEF CalculatorTypeOK, Finalize, TestStatus, TestResult
<1>6. CASE UNCHANGED calculatorVars
  BY <1>6 DEF CalculatorTypeOK, calculatorVars
<1> QED BY <1>1, <1>2, <1>3, <1>4, <1>5, <1>6
-----------------------------------------------------------------------------
(***************************************************************************)
(* What one step of thread t, in a method of the TestRun or in a failed    *)
(* CHECK, does to the run: it keeps the run well formed, changes no label  *)
(* but t's, and writes at most one artifact, of the run.                   *)
(***************************************************************************)
RunEffect(t) ==
  /\ RunTypeOK'
  /\ \/ pc' = pc
     \/ pc[t] \in RunLabel /\ \E l \in RunLabel : pc' = [pc EXCEPT ![t] = l]
  /\ Writes(RunArtifact)

\* A failed CHECK, the thread's own label aside.
LEMMA CheckFailsEffect ==
  ASSUME RunTypeOK, NEW t \in Threads, CheckFails(t),
         runLock' \in Threads \cup {Nobody}
  PROVE  RunTypeOK' /\ pc' = [pc EXCEPT ![t] = "dying"] /\ Writes(RunArtifact)
<1>1. Log!TypeOK' /\ Writes(RunArtifact)
  <2>1. CASE Log!Put(RunLog)
    BY <2>1, PutType, Kinds DEF RunTypeOK
  <2>2. CASE UNCHANGED logVars
    BY <2>2, QuietType DEF RunTypeOK, Writes
  <2> QED BY <2>1, <2>2 DEF CheckFails
<1>2. CalculatorTypeOK'
  BY CalculatorType DEF RunTypeOK, CheckFails
<1>3. pc' = [pc EXCEPT ![t] = "dying"] /\ DOMAIN pc' = Threads
  BY DEF CheckFails, Goto, RunTypeOK
<1> QED BY <1>1, <1>2, <1>3 DEF RunTypeOK, CheckFails

\* The methods of TestRun that may begin, its destructor aside.
LEMMA RunCallEffect ==
  ASSUME RunTypeOK, NEW t \in Threads, RunCall(t)
  PROVE  RunEffect(t)
<1> USE DEF RunTypeOK, RunLabel
<1>1. ASSUME Die(t), pc[t] \in RunLabel
      PROVE  RunEffect(t)
  BY <1>1, CheckFailsEffect DEF Die, RunEffect
<1>2. ASSUME CheckFails(t), pc[t] = "idle", runLock' = t
      PROVE  RunEffect(t)
  BY <1>2, CheckFailsEffect DEF RunEffect
<1>3. CASE Construct(t)
  BY <1>3, QuietType, CalculatorType
     DEF Construct, At, Goto, RunEffect, Writes
<1>4. CASE ConstructAnother(t)
  BY <1>4, TruncateType, QuietType, CalculatorType
     DEF ConstructAnother, At, Goto, lifeVars, RunEffect, Writes
<1>5. CASE RejectArgument(t)
  BY <1>5, <1>1 DEF RejectArgument, Calls, At
<1>6. CASE AddPreStartError(t)
  <2>1. CASE started
    BY <1>6, <2>1, <1>2 DEF AddPreStartError, Calls, At
  <2>2. CASE ~started
    BY <1>6, <2>2, PutType, Kinds, CalculatorType
       DEF AddPreStartError, Calls, At, Goto, RunEffect
  <2> QED BY <1>6, <2>1, <2>2 DEF AddPreStartError
<1>7. ASSUME NEW fatal \in BOOLEAN, AddPreStartLog(t, fatal)
      PROVE  RunEffect(t)
  <2>1. CASE started
    BY <1>7, <2>1, <1>2 DEF AddPreStartLog, Calls, At
  <2>2. CASE ~started
    BY <1>7, <2>2, PutType, Kinds, CalculatorType
       DEF AddPreStartLog, Calls, At, Goto, RunEffect
  <2> QED BY <1>7, <2>1, <2>2 DEF AddPreStartLog
<1>8. CASE StartAndRegisterDutInfo(t)
  BY <1>8, QuietType, CalculatorType
     DEF StartAndRegisterDutInfo, Calls, At, Goto, RunEffect, Writes
<1>9. CASE Skip(t)
  BY <1>9, QuietType, CalculatorType DEF Skip, lifeVars, RunEffect, Writes
<1>10. CASE LogMessage(t)
  BY <1>10, PutType, Kinds, CalculatorType DEF LogMessage, lifeVars, RunEffect
<1> QED
  BY <1>3, <1>4, <1>5, <1>6, <1>7, <1>8, <1>9, <1>10 DEF RunCall
\* The steps by which a thread goes on with such a method.
LEMMA RunContinueEffect ==
  ASSUME RunTypeOK, NEW t \in Threads, RunContinue(t)
  PROVE  RunEffect(t)
<1> USE DEF RunTypeOK, RunLabel, At
<1>1. ASSUME Die(t), pc[t] \in RunLabel
      PROVE  RunEffect(t)
  BY <1>1, CheckFailsEffect DEF Die, RunEffect
<1>2. CASE RegisterLogSink(t)
  BY <1>2, QuietType, CalculatorType, RunAssumption
     DEF RegisterLogSink, Goto, RunEffect, Writes
<1>3. CASE RejectRunStart(t)
  BY <1>3, <1>1 DEF RejectRunStart
<1>4. CASE EmitSchemaVersion(t)
  BY <1>4, PutType, Kinds, CalculatorType DEF EmitSchemaVersion, Goto, RunEffect
<1>5. CASE NotifyPreStartError(t)
  BY <1>5, QuietType, CalculatorType DEF NotifyPreStartError, Goto, RunEffect, Writes
<1>6. CASE FlushFatal(t)
  BY <1>6, SyncType, CalculatorType DEF FlushFatal, Goto, lifeVars, RunEffect, Writes
<1>7. CASE LogFatal(t)
  BY <1>7, <1>1 DEF LogFatal
<1>8. CASE Abort(t)
  BY <1>8, SyncType, QuietType, CalculatorType DEF Abort, lifeVars, RunEffect, Writes
<1>9. CASE EmitStart(t)
  BY <1>9, PutType, Kinds, CalculatorType DEF EmitStart, Goto, RunEffect
<1>10. CASE EndFinalize(t)
  BY <1>10, QuietType, CalculatorType DEF EndFinalize, Goto, lifeVars, RunEffect, Writes
<1>11. CASE EmitEnd(t)
  <2>1. RunEnd(runStatus, runResult) \in RunArtifact
    BY DEF RunArtifact, CalculatorTypeOK, TestStatus, TestResult, Status, Result
  <2> QED
    BY <1>11, <2>1, PutType, Kinds, CalculatorType DEF EmitEnd, Goto, lifeVars, RunEffect
<1>12. CASE FlushEnd(t)
  BY <1>12, SyncType, CalculatorType DEF FlushEnd, Goto, RunEffect, Writes
<1>13. CASE DeregisterLogSink(t)
  BY <1>13, QuietType, CalculatorType DEF DeregisterLogSink, Goto, RunEffect, Writes
<1>14. CASE UnsetInitializationGuard(t)
  BY <1>14, QuietType, CalculatorType
     DEF UnsetInitializationGuard, Goto, RunEffect, Writes
<1>15. CASE DestroyWriter(t)
  BY <1>15, CloseType, CalculatorType DEF DestroyWriter, Goto, RunEffect, Writes
<1>16. CASE CheckGuard(t)
  <2>1. CASE initialized
    BY <1>16, <2>1, <1>1 DEF CheckGuard
  <2>2. CASE ~initialized
    BY <1>16, <2>2, QuietType, CalculatorType DEF CheckGuard, Goto, lifeVars, RunEffect, Writes
  <2> QED BY <2>1, <2>2
<1> QED
  BY <1>2, <1>3, <1>4, <1>5, <1>6, <1>7, <1>8, <1>9, <1>10, <1>11, <1>12, <1>13,
     <1>14, <1>15, <1>16 DEF RunContinue

\* The destructor begins.
LEMMA DestroyEffect ==
  ASSUME RunTypeOK, NEW t \in Threads, Destroy(t)
  PROVE  RunEffect(t)
<1>1. Log!TypeOK' /\ Writes(RunArtifact)
  BY PutType, QuietType, Kinds DEF Destroy, RunTypeOK, Writes
<1> QED
  BY <1>1, CalculatorType DEF Destroy, Calls, At, Goto, RunTypeOK, RunLabel, RunEffect
-----------------------------------------------------------------------------
(***************************************************************************)
(* What one step of thread t, in a method of step s, does: it keeps the    *)
(* program well formed, touches no other thread and no other step, and     *)
(* writes at most one artifact, of the run or of s.                        *)
(***************************************************************************)
StepEffect(t, s) ==
  /\ StepTypeOK'
  /\ on[t] = s \/ pc[t] = "idle"
  /\ on'[t] \in {s, Nobody}
  /\ \A u \in Threads \ {t} : pc'[u] = pc[u] /\ on'[u] = on[u]
  /\ \A r \in Steps \ {s} :
       /\ stepState'[r] = stepState[r] /\ stepEnded'[r] = stepEnded[r]
       /\ stepStatus'[r] = stepStatus[r] /\ stepLock'[r] = stepLock[r]
  /\ Writes(RunArtifact \cup StepArtifact(s))

\* A step of the log and the calculator that leaves the rest of the run alone.
LEMMA RunTypeKept ==
  ASSUME RunTypeOK, Log!TypeOK', CalculatorTypeOK', DOMAIN pc' = Threads, RunFrame
  PROVE  RunTypeOK'
BY DEF RunTypeOK, RunFrame, lifeVars

\* CheckEndedAndEmitArtifact.
LEMMA CheckEndedEffect ==
  ASSUME StepTypeOK, NEW t \in Threads, NEW s \in Steps, NEW a \in StepArtifact(s),
         NEW next, pc[t] = "idle" \/ on[t] = s,
         CheckEndedAndEmitArtifact(t, s, a, next)
  PROVE  StepEffect(t, s)
<1> USE DEF StepTypeOK
<1>1. CASE stepEnded[s]
  <2>1. RunTypeOK' /\ pc' = [pc EXCEPT ![t] = "dying"] /\ Writes(RunArtifact)
    BY <1>1, CheckFailsEffect DEF CheckEndedAndEmitArtifact, Die, RunTypeOK
  <2>2. /\ on' = [on EXCEPT ![t] = s]
        /\ stepLock' = [stepLock EXCEPT ![s] = t]
        /\ UNCHANGED <<stepState, stepStatus, stepEnded>>
    BY <1>1 DEF CheckEndedAndEmitArtifact
  <2> QED BY <2>1, <2>2 DEF StepEffect, RunTypeOK, Writes
<1>2. CASE ~stepEnded[s]
  <2>1. /\ Log!Put(a) /\ UNCHANGED <<calculatorVars, stepVars>> /\ RunFrame
        /\ pc' = [pc EXCEPT ![t] = next]
        /\ on' = [on EXCEPT ![t] = s] \/ on' = [on EXCEPT ![t] = Nobody]
    BY <1>2 DEF CheckEndedAndEmitArtifact, Goto
  <2>2. Log!TypeOK' /\ Writes(StepArtifact(s))
    BY <2>1, PutType, Kinds DEF RunTypeOK
  <2>3. RunTypeOK'
    BY <2>1, <2>2, CalculatorType, RunTypeKept DEF RunTypeOK
  <2> QED BY <2>1, <2>2, <2>3 DEF StepEffect, RunTypeOK, stepVars, Writes
<1> QED BY <1>1, <1>2
\* EndStep, whatever calls it.
LEMMA EndStepEffect ==
  ASSUME StepTypeOK, NEW t \in Threads, NEW s \in Steps,
         NEW then \in {"live", "destroying"}, pc[t] = "idle" \/ on[t] = s,
         EndStep(t, s, then)
  PROVE  StepEffect(t, s)
<1> USE DEF StepTypeOK
<1>1. CASE stepEnded[s]
  <2>1. /\ UNCHANGED <<logVars, calculatorVars, stepStatus, stepEnded, stepLock>>
        /\ RunFrame /\ Return(t)
        /\ stepState' = [stepState EXCEPT ![s] =
                            IF then = "destroying" THEN "destroyed" ELSE then]
    BY <1>1 DEF EndStep
  <2>2. RunTypeOK' /\ log' = log
    BY <2>1, QuietType, CalculatorType, RunTypeKept DEF Return, GotoOn, Goto, RunTypeOK
  <2>3. stepState' \in [Steps -> {"absent", "starting", "live", "destroying", "destroyed"}]
    BY <2>1
  <2> QED BY <2>1, <2>2, <2>3 DEF Return, GotoOn, Goto, StepEffect, RunTypeOK, Writes
<1>2. CASE ~stepEnded[s]
  <2>1. /\ Log!Put(StepEnd(s, stepStatus'[s])) /\ UNCHANGED calculatorVars
        /\ RunFrame /\ GotoOn(t, "stepEndFlush", s)
        /\ stepEnded' = [stepEnded EXCEPT ![s] = TRUE]
        /\ stepStatus' = [stepStatus EXCEPT ![s] = IF @ = "Unknown" THEN "Complete" ELSE @]
        /\ stepState' = [stepState EXCEPT ![s] = then]
        /\ stepLock' = [stepLock EXCEPT ![s] = t]
    BY <1>2 DEF EndStep
  <2>2. stepStatus' \in [Steps -> TestStatus]
    BY <2>1 DEF TestStatus
  <2>3. StepEnd(s, stepStatus'[s]) \in StepArtifact(s)
    BY <2>2 DEF StepArtifact, TestStatus, Status
  <2>4. Log!TypeOK' /\ Writes(StepArtifact(s))
    BY <2>1, <2>3, PutType, Kinds DEF RunTypeOK
  <2>5. RunTypeOK'
    BY <2>1, <2>4, CalculatorType, RunTypeKept DEF GotoOn, Goto, RunTypeOK
  <2>6. /\ stepState' \in [Steps -> {"absent", "starting", "live", "destroying", "destroyed"}]
        /\ stepEnded' \in [Steps -> BOOLEAN]
        /\ stepLock' \in [Steps -> Threads \cup {Nobody}]
    BY <2>1
  <2> QED BY <2>1, <2>2, <2>4, <2>5, <2>6 DEF GotoOn, Goto, StepEffect, RunTypeOK, Writes
<1> QED BY <1>1, <1>2

LEMMA StepCallEffect ==
  ASSUME StepTypeOK, NEW t \in Threads, NEW s \in Steps, StepCall(t, s)
  PROVE  StepEffect(t, s)
<1> USE DEF StepTypeOK, CallsStep, Calls, At
<1>1. CASE ConstructStep(t, s)
  <2>1. CASE started
    <3>1. /\ UNCHANGED <<logVars, calculatorVars, stepStatus, stepEnded, stepLock>>
          /\ RunFrame /\ GotoOn(t, "stepStart", s) /\ pc[t] = "idle"
          /\ stepState' = [stepState EXCEPT ![s] = "starting"]
      BY <1>1, <2>1 DEF ConstructStep
    <3>2. RunTypeOK' /\ log' = log
      BY <3>1, QuietType, CalculatorType, RunTypeKept DEF GotoOn, Goto, RunTypeOK
    <3> QED BY <3>1, <3>2 DEF GotoOn, Goto, StepEffect, RunTypeOK, Writes
  <2>2. CASE ~started
    <3>1. Die(t) /\ on' = [on EXCEPT ![t] = s] /\ UNCHANGED stepVars /\ pc[t] = "idle"
      BY <1>1, <2>2 DEF ConstructStep, DieOn
    <3>2. RunTypeOK' /\ pc' = [pc EXCEPT ![t] = "dying"] /\ Writes(RunArtifact)
      BY <3>1, CheckFailsEffect DEF Die, RunTypeOK
    <3> QED BY <3>1, <3>2 DEF StepEffect, stepVars, RunTypeOK, Writes
  <2> QED BY <2>1, <2>2
<1>2. CASE AddContent(t, s)
  BY <1>2, CheckEndedEffect, Kinds DEF AddContent
<1>3. CASE AddFatalLog(t, s)
  BY <1>3, CheckEndedEffect, Kinds DEF AddFatalLog
<1>4. CASE AddFailureDiagnosis(t, s)
  <2>1. RunTypeOK' /\ log' = log
    BY <1>4, QuietType, CalculatorType, RunTypeKept
       DEF AddFailureDiagnosis, GotoOn, Goto, RunTypeOK
  <2> QED
    BY <1>4, <2>1 DEF AddFailureDiagnosis, GotoOn, Goto, stepVars, StepEffect, RunTypeOK, Writes
<1>5. CASE AddError(t, s)
  <2>1. RunTypeOK' /\ log' = log
    BY <1>5, QuietType, CalculatorType, RunTypeKept DEF AddError, GotoOn, Goto, RunTypeOK
  <2> QED
    BY <1>5, <2>1 DEF AddError, GotoOn, Goto, TestStatus, StepEffect, RunTypeOK, Writes
<1>6. CASE SkipStep(t, s)
  <2>1. RunTypeOK' /\ log' = log
    BY <1>6, QuietType, CalculatorType, RunTypeKept DEF SkipStep, GotoOn, Goto, RunTypeOK
  <2> QED
    BY <1>6, <2>1 DEF SkipStep, GotoOn, Goto, TestStatus, StepEffect, RunTypeOK, Writes
<1>7. CASE CallEndStep(t, s)
  BY <1>7, EndStepEffect DEF CallEndStep
<1> QED BY <1>1, <1>2, <1>3, <1>4, <1>5, <1>6, <1>7 DEF StepCall

LEMMA StepContinueEffect ==
  ASSUME StepTypeOK, NEW t \in Threads, NEW s \in Steps, StepContinue(t, s)
  PROVE  StepEffect(t, s)
<1> USE DEF StepTypeOK, AtStep
<1>1. CASE EmitStepStart(t, s)
  <2>1. Log!TypeOK' /\ Writes(StepArtifact(s))
    BY <1>1, PutType, Kinds DEF EmitStepStart, RunTypeOK
  <2>2. RunTypeOK'
    BY <1>1, <2>1, CalculatorType, RunTypeKept DEF EmitStepStart, GotoOn, Goto, RunTypeOK
  <2> QED
    BY <1>1, <2>1, <2>2 DEF EmitStepStart, GotoOn, Goto, stepVars, StepEffect, RunTypeOK, Writes
<1>2. CASE FlushStepStart(t, s)
  <2>1. RunTypeOK' /\ log' = log
    BY <1>2, SyncType, CalculatorType, RunTypeKept
       DEF FlushStepStart, Return, GotoOn, Goto, RunTypeOK
  <2> QED
    BY <1>2, <2>1 DEF FlushStepStart, Return, GotoOn, Goto, StepEffect, RunTypeOK, Writes
<1>3. CASE EmitFailure(t, s)
  BY <1>3, CheckEndedEffect, Kinds DEF EmitFailure
<1>4. CASE NotifyStepError(t, s)
  <2>1. RunTypeOK' /\ log' = log
    BY <1>4, QuietType, CalculatorType, RunTypeKept DEF NotifyStepError, GotoOn, Goto, RunTypeOK
  <2> QED
    BY <1>4, <2>1 DEF NotifyStepError, GotoOn, Goto, stepVars, StepEffect, RunTypeOK, Writes
<1>5. CASE EmitStepError(t, s)
  BY <1>5, CheckEndedEffect, Kinds DEF EmitStepError
<1>6. CASE EndSkippedStep(t, s)
  BY <1>6, EndStepEffect DEF EndSkippedStep
<1>7. CASE FlushStepEnd(t, s)
  <2>1. RunTypeOK' /\ log' = log
    BY <1>7, SyncType, CalculatorType, RunTypeKept
       DEF FlushStepEnd, Return, GotoOn, Goto, RunTypeOK
  <2> QED
    BY <1>7, <2>1 DEF FlushStepEnd, Return, GotoOn, Goto, StepEffect, RunTypeOK, Writes
<1> QED BY <1>1, <1>2, <1>3, <1>4, <1>5, <1>6, <1>7 DEF StepContinue

LEMMA DestroyStepEffect ==
  ASSUME StepTypeOK, NEW t \in Threads, NEW s \in Steps, DestroyStep(t, s)
  PROVE  StepEffect(t, s)
BY EndStepEffect DEF DestroyStep, CallsStep, Calls, At
\* The three kinds of step of the program.
LEMMA StepCases ==
  ASSUME StepTypeOK, [StepsNext]_stepsVars
  PROVE  \/ \E t \in Threads : RunEffect(t) /\ UNCHANGED <<on, stepVars>>
         \/ \E t \in Threads, s \in Steps :
              /\ StepEffect(t, s)
              /\ StepCall(t, s) \/ StepContinue(t, s) \/ DestroyStep(t, s)
         \/ UNCHANGED stepsVars
<1>1. CASE RunStep
  BY <1>1, RunCallEffect, RunContinueEffect, DestroyEffect DEF RunStep, StepTypeOK
<1>2. ASSUME NEW t \in Threads, NEW s \in Steps,
             StepCall(t, s) \/ StepContinue(t, s) \/ DestroyStep(t, s)
      PROVE  StepEffect(t, s)
  BY <1>2, StepCallEffect, StepContinueEffect, DestroyStepEffect
<1> QED BY <1>1, <1>2 DEF StepsNext

LEMMA InitType == StepInit => StepTypeOK
<1> SUFFICES ASSUME StepInit PROVE StepTypeOK
  OBVIOUS
<1>1. Log!TypeOK
  <2>1. /\ log = <<>> /\ durable = 0 /\ file = "open" /\ closed = FALSE
    BY DEF StepInit, RunInit, Log!Init
  <2>2. log \in Seq(Artifact) /\ Len(log) = 0
    BY <2>1, EmptySeq
  <2>3. durable \in 0..Len(log)
    BY <2>1, <2>2
  <2>4. closed \in BOOLEAN /\ file \in {"open", "lost"}
    BY <2>1
  <2> QED BY <2>2, <2>3, <2>4 DEF Log!TypeOK
<1>2. CalculatorTypeOK
  BY DEF StepInit, RunInit, CalculatorInit, CalculatorTypeOK, TestStatus, TestResult
<1> QED BY <1>1, <1>2 DEF StepInit, RunInit, RunTypeOK, StepTypeOK, TestStatus

LEMMA NextType == StepTypeOK /\ [StepsNext]_stepsVars => StepTypeOK'
<1> SUFFICES ASSUME StepTypeOK, [StepsNext]_stepsVars PROVE StepTypeOK'
  OBVIOUS
<1>1. ASSUME NEW t \in Threads, RunEffect(t), UNCHANGED <<on, stepVars>>
      PROVE  StepTypeOK'
  BY <1>1 DEF RunEffect, StepTypeOK, stepVars
<1>2. ASSUME NEW t \in Threads, NEW s \in Steps, StepEffect(t, s)
      PROVE  StepTypeOK'
  BY <1>2 DEF StepEffect
<1>3. CASE UNCHANGED stepsVars
  <2>1. RunTypeOK'
    BY <1>3, QuietType, CalculatorType
       DEF StepTypeOK, RunTypeOK, stepsVars, runVars, lifeVars
  <2> QED BY <1>3, <2>1 DEF StepTypeOK, stepsVars, stepVars
<1> QED BY <1>1, <1>2, <1>3, StepCases

(***************************************************************************)
(* The state of a program with any number of threads and steps stays well  *)
(* formed: in particular the log is a sequence of artifacts, of which the  *)
(* file holds a prefix.                                                    *)
(***************************************************************************)
THEOREM StepsTypeCorrect == StepsSpec => []StepTypeOK
<1> QED BY InitType, NextType, PTL DEF StepsSpec
-----------------------------------------------------------------------------
(***************************************************************************)
(* The bracket of a step holds because ended_ is set in the critical       *)
(* section that emits the TestStepEnd, and because the constructor emits   *)
(* the TestStepStart before any other thread can have the object.  The     *)
(* inductive invariant says this of one step s.                            *)
(***************************************************************************)
Logged == {log[i] : i \in Places}

Begins(t, s) == on[t] = s /\ pc[t] = "stepStart"

Constructs(t, s) == on[t] = s /\ pc[t] \in {"stepStart", "stepStartFlush"}

Uses(t, s) ==
  /\ on[t] = s
  /\ pc[t] \in {"emitFailure", "notifyError", "emitError", "stepEnd", "stepEndFlush"}

StepOnce(s) ==
  /\ \A t \in Threads : Constructs(t, s) => stepState[s] = "starting"
  /\ \A t, u \in Threads : Constructs(t, s) /\ Constructs(u, s) => t = u
  /\ \A t \in Threads : Uses(t, s) => stepState[s] \notin {"absent", "starting"}
  /\ stepState[s] = "absent" \/ (\E t \in Threads : Begins(t, s)) =>
       \A a \in Logged : ~OfStep(a, s)
  /\ stepState[s] # "absent" /\ (\A t \in Threads : ~Begins(t, s)) =>
       StepStart(s) \in Logged
  /\ ~stepEnded[s] => \A a \in Logged : ~IsStepEnd(a, s)

BracketInv ==
  /\ StepTypeOK
  /\ \A s \in Steps : StepOnce(s)
  /\ StepBracket

\* Artifacts are told apart by their kinds and by their steps.
LEMMA Disjoint ==
  ASSUME NEW r \in Steps, NEW s \in Steps
  PROVE  /\ \A a \in RunArtifact : ~OfStep(a, s)
         /\ \A a \in StepArtifact(r) : OfStep(a, s) => r = s
         /\ \A a : IsStepEnd(a, s) => OfStep(a, s)
         /\ OfStep(StepStart(s), s)
         /\ \A a \in {Content(s), Failure(s), StepError(s)} :
              OfStep(a, s) /\ a # StepStart(s) /\ ~IsStepEnd(a, s)
         /\ \A status \in TestStatus : 
              OfStep(StepEnd(s, status), s) /\ StepEnd(s, status) # StepStart(s)
         /\ ~IsStepEnd(StepStart(s), s)
<1>1. \A a \in RunArtifact : a.kind \in {"SchemaVersion", "RunStart", "RunLog", "RunError", "RunEnd"}
  BY DEF RunArtifact, SchemaVersion, RunStart, RunLog, RunError, RunEnd
<1>2. \A x \in Steps : \A a \in StepArtifact(x) :
        a.step = x /\ a.kind \in {"StepStart", "Content", "Failure", "StepError", "StepEnd"}
  BY DEF StepArtifact, StepStart, Content, Failure, StepError, StepEnd
<1>3. \A a \in RunArtifact : ~OfStep(a, s)
  BY <1>1, <1>2 DEF OfStep
<1>4. \A a \in StepArtifact(r) : OfStep(a, s) => r = s
  BY <1>2 DEF OfStep
<1>5. \A a : IsStepEnd(a, s) => OfStep(a, s) /\ a.kind = "StepEnd"
  BY DEF IsStepEnd, OfStep, StepArtifact, StepEnd, TestStatus, Status
<1>6. /\ StepStart(s).kind = "StepStart" /\ Content(s).kind = "Content"
      /\ Failure(s).kind = "Failure" /\ StepError(s).kind = "StepError"
      /\ \A status : StepEnd(s, status).kind = "StepEnd"
  BY DEF StepStart, Content, Failure, StepError, StepEnd
<1>7. /\ OfStep(StepStart(s), s) /\ OfStep(Content(s), s) /\ OfStep(Failure(s), s)
      /\ OfStep(StepError(s), s)
      /\ \A status \in TestStatus : OfStep(StepEnd(s, status), s)
  BY DEF OfStep, StepArtifact, TestStatus, Status
<1> QED BY <1>3, <1>4, <1>5, <1>6, <1>7

\* What a step that writes nothing, or one artifact, does to the log's set.
LEMMA LoggedAppend ==
  ASSUME log \in Seq(Artifact), NEW a, a \in Artifact, log' = Append(log, a)
  PROVE  Logged' = Logged \cup {a}
<1>1. /\ Len(log) \in Nat /\ Len(log') = Len(log) + 1
      /\ \A i \in 1..Len(log) : log'[i] = log[i]
      /\ log'[Len(log) + 1] = a
  BY AppendProperties
<1> QED BY <1>1 DEF Logged, Places

\* The bracket survives an artifact that comes first of its step exactly if
\* it is the start, and that follows no end.
LEMMA BracketAppend ==
  ASSUME log \in Seq(Artifact), NEW a, a \in Artifact, log' = Append(log, a),
         StepBracket,
         \A s \in Steps : OfStep(a, s) =>
           /\ a = StepStart(s) <=> \A b \in Logged : ~OfStep(b, s)
           /\ \A b \in Logged : ~IsStepEnd(b, s)
  PROVE  StepBracket'
<1>1. /\ Len(log) \in Nat /\ Len(log') = Len(log) + 1
      /\ \A i \in 1..Len(log) : log'[i] = log[i]
      /\ log'[Len(log) + 1] = a
  BY AppendProperties
<1>2. SUFFICES ASSUME NEW s \in Steps, NEW i \in 1..(Len(log) + 1), OfStep(log'[i], s)
               PROVE  /\ log'[i] = StepStart(s)
                           <=> \A j \in 1..(i - 1) : ~OfStep(log'[j], s)
                      /\ \A j \in 1..(i - 1) : ~IsStepEnd(log'[j], s)
  BY <1>1 DEF StepBracket, Places, Before
<1>3. CASE i \in 1..Len(log)
  <2>1. /\ log[i] = StepStart(s) <=> \A j \in 1..(i - 1) : ~OfStep(log[j], s)
        /\ \A j \in 1..(i - 1) : ~IsStepEnd(log[j], s)
    BY <1>1, <1>2, <1>3 DEF StepBracket, Places, Before
  <2> QED BY <1>1, <1>3, <2>1
<1>4. CASE i = Len(log) + 1
  <2>1. /\ a = StepStart(s) <=> \A j \in 1..Len(log) : ~OfStep(log[j], s)
        /\ \A j \in 1..Len(log) : ~IsStepEnd(log[j], s)
    BY <1>1, <1>2, <1>4 DEF Logged, Places
  <2> QED BY <1>1, <1>4, <2>1
<1> QED BY <1>1, <1>3, <1>4
\* Nothing is written ...
LEMMA NoArtifact ==
  ASSUME StepBracket, log' = log
  PROVE  StepBracket' /\ Logged' = Logged
BY DEF StepBracket, Logged, Places, Before

\* ... or an artifact of the run ...
LEMMA RunsArtifact ==
  ASSUME BracketInv, Writes(RunArtifact)
  PROVE  /\ StepBracket'
         /\ Logged \subseteq Logged'
         /\ \A a \in Logged' \ Logged : \A s \in Steps : ~OfStep(a, s) /\ ~IsStepEnd(a, s)
<1>1. CASE log' = log
  BY <1>1, NoArtifact DEF BracketInv
<1>2. ASSUME NEW a \in RunArtifact, log' = Append(log, a)
      PROVE  /\ StepBracket'
             /\ Logged' = Logged \cup {a}
             /\ \A s \in Steps : ~OfStep(a, s) /\ ~IsStepEnd(a, s)
  <2>1. log \in Seq(Artifact) /\ a \in Artifact
    BY Kinds DEF BracketInv, StepTypeOK, RunTypeOK, Log!TypeOK
  <2>2. \A s \in Steps : ~OfStep(a, s) /\ ~IsStepEnd(a, s)
    BY Disjoint
  <2> QED BY <1>2, <2>1, <2>2, BracketAppend, LoggedAppend DEF BracketInv
<1> QED BY <1>1, <1>2 DEF Writes

\* ... or one of step s.
LEMMA StepsArtifact ==
  ASSUME BracketInv, NEW s \in Steps, NEW a \in StepArtifact(s), log' = Append(log, a),
         a = StepStart(s) <=> \A b \in Logged : ~OfStep(b, s),
         \A b \in Logged : ~IsStepEnd(b, s)
  PROVE  StepBracket' /\ Logged' = Logged \cup {a}
<1>1. log \in Seq(Artifact) /\ a \in Artifact
  BY Kinds DEF BracketInv, StepTypeOK, RunTypeOK, Log!TypeOK
<1>2. \A r \in Steps : OfStep(a, r) => r = s
  BY Disjoint
<1> QED BY <1>1, <1>2, BracketAppend, LoggedAppend DEF BracketInv

\* A method of step s is no business of another step r.
LEMMA OtherSteps ==
  ASSUME BracketInv, NEW t \in Threads, NEW s \in Steps, NEW r \in Steps \ {s},
         StepEffect(t, s)
  PROVE  StepOnce(r)'
<1>1. /\ Logged \subseteq Logged'
      /\ \A a \in Logged' \ Logged : ~OfStep(a, r) /\ ~IsStepEnd(a, r)
  <2>1. CASE log' = log
    BY <2>1 DEF Logged, Places
  <2>2. ASSUME NEW a \in RunArtifact \cup StepArtifact(s), log' = Append(log, a)
        PROVE  Logged' = Logged \cup {a} /\ ~OfStep(a, r) /\ ~IsStepEnd(a, r)
    <3>1. log \in Seq(Artifact) /\ a \in Artifact
      BY Kinds DEF BracketInv, StepTypeOK, RunTypeOK, Log!TypeOK
    <3>2. ~OfStep(a, r) /\ ~IsStepEnd(a, r)
      BY Disjoint
    <3> QED BY <2>2, <3>1, <3>2, LoggedAppend
  <2> QED BY <2>1, <2>2 DEF StepEffect, Writes
<1>2. /\ \A u \in Threads : Begins(u, r)' <=> Begins(u, r)
      /\ \A u \in Threads : Constructs(u, r)' <=> Constructs(u, r)
      /\ \A u \in Threads : Uses(u, r)' <=> Uses(u, r)
  BY RunAssumption DEF StepEffect, Begins, Constructs, Uses
<1>3. stepState'[r] = stepState[r] /\ stepEnded'[r] = stepEnded[r]
  BY DEF StepEffect
<1> QED BY <1>1, <1>2, <1>3 DEF BracketInv, StepOnce

(***************************************************************************)
(* The methods of a step that is in use: they emit its artifacts while     *)
(* ended_ is false, and the end only with ended_ set.                      *)
(***************************************************************************)
LEMMA UsedStep ==
  ASSUME BracketInv, NEW t \in Threads, NEW s \in Steps, StepEffect(t, s),
         stepState[s] \notin {"absent", "starting"},
         stepState'[s] \notin {"absent", "starting"},
         pc'[t] \notin {"stepStart", "stepStartFlush"},
         stepEnded[s] => stepEnded'[s],
         \/ Writes(RunArtifact)
         \/ /\ ~stepEnded[s]
            /\ \E a \in StepArtifact(s) \ {StepStart(s)} :
                 log' = Append(log, a) /\ (IsStepEnd(a, s) => stepEnded'[s])
  PROVE  StepBracket' /\ StepOnce(s)'
<1>1. \A u \in Threads : ~Constructs(u, s) /\ ~Begins(u, s)
  BY DEF BracketInv, StepOnce, Constructs, Begins
<1>2. \A u \in Threads : ~Constructs(u, s)' /\ ~Begins(u, s)'
  BY <1>1 DEF StepEffect, Constructs, Begins
<1>3. StepStart(s) \in Logged
  BY <1>1 DEF BracketInv, StepOnce
<1>4. ~stepEnded[s] => \A a \in Logged : ~IsStepEnd(a, s)
  BY DEF BracketInv, StepOnce
<1>5. /\ StepBracket' /\ Logged \subseteq Logged'
      /\ ~stepEnded'[s] => \A a \in Logged' \ Logged : ~IsStepEnd(a, s)
  <2>1. CASE Writes(RunArtifact)
    BY <2>1, RunsArtifact
  <2>2. ASSUME ~stepEnded[s], NEW a \in StepArtifact(s) \ {StepStart(s)},
               log' = Append(log, a), IsStepEnd(a, s) => stepEnded'[s]
        PROVE  /\ StepBracket' /\ Logged' = Logged \cup {a}
               /\ ~stepEnded'[s] => ~IsStepEnd(a, s)
    BY <1>3, <1>4, <2>2, StepsArtifact, Disjoint
  <2> QED BY <2>1, <2>2
<1>6. ~stepEnded'[s] => \A a \in Logged' : ~IsStepEnd(a, s)
  BY <1>4, <1>5
<1> QED BY <1>2, <1>3, <1>5, <1>6 DEF StepOnce
\* CheckEndedAndEmitArtifact, of an artifact that is neither start nor end.
LEMMA CheckEndedBracket ==
  ASSUME BracketInv, NEW t \in Threads, NEW s \in Steps, StepEffect(t, s),
         stepState[s] \notin {"absent", "starting"},
         NEW a \in {Content(s), Failure(s), StepError(s)}, NEW next \in {"idle", "relog"},
         CheckEndedAndEmitArtifact(t, s, a, next)
  PROVE  StepBracket' /\ StepOnce(s)'
<1>1. stepState' = stepState /\ stepEnded' = stepEnded
  BY DEF CheckEndedAndEmitArtifact, stepVars
<1>2. pc'[t] \in {"idle", "relog", "dying"}
  BY DEF CheckEndedAndEmitArtifact, Die, CheckFails, Goto, BracketInv, StepTypeOK, RunTypeOK
<1>3. CASE stepEnded[s]
  <2>1. Writes(RunArtifact)
    BY <1>3, CheckFailsEffect
       DEF CheckEndedAndEmitArtifact, Die, BracketInv, StepTypeOK, RunTypeOK
  <2> QED BY <1>1, <1>2, <2>1, UsedStep
<1>4. CASE ~stepEnded[s]
  <2>1. log' = Append(log, a)
    BY <1>4 DEF CheckEndedAndEmitArtifact, Log!Put
  <2>2. a \in StepArtifact(s) \ {StepStart(s)} /\ ~IsStepEnd(a, s)
    BY Disjoint DEF OfStep
  <2> QED BY <1>1, <1>2, <1>4, <2>1, <2>2, UsedStep
<1> QED BY <1>3, <1>4

\* EndStep, whatever calls it.
LEMMA EndStepBracket ==
  ASSUME BracketInv, NEW t \in Threads, NEW s \in Steps, StepEffect(t, s),
         stepState[s] \notin {"absent", "starting"},
         NEW then \in {"live", "destroying"}, EndStep(t, s, then)
  PROVE  StepBracket' /\ StepOnce(s)'
<1>1. stepState'[s] \in {"live", "destroying", "destroyed"}
  BY DEF EndStep, BracketInv, StepTypeOK
<1>2. pc'[t] \in {"idle", "stepEndFlush"}
  BY DEF EndStep, Return, GotoOn, Goto, BracketInv, StepTypeOK, RunTypeOK
<1>3. CASE stepEnded[s]
  BY <1>1, <1>2, <1>3, UsedStep DEF EndStep, logVars, Writes
<1>4. CASE ~stepEnded[s]
  <2>1. stepEnded'[s]
    BY <1>4 DEF EndStep, BracketInv, StepTypeOK
  <2>2. log' = Append(log, StepEnd(s, stepStatus'[s])) /\ stepStatus'[s] \in TestStatus
    BY <1>4 DEF EndStep, Log!Put, BracketInv, StepEffect, StepTypeOK
  <2>3. StepEnd(s, stepStatus'[s]) \in StepArtifact(s) \ {StepStart(s)}
    BY <2>2, Disjoint DEF OfStep
  <2> QED BY <1>1, <1>2, <1>4, <2>1, <2>2, <2>3, UsedStep
<1> QED BY <1>3, <1>4

\* The calls of a step's methods, its constructor included.
LEMMA StepCallBracket ==
  ASSUME BracketInv, NEW t \in Threads, NEW s \in Steps, StepEffect(t, s),
         StepCall(t, s)
  PROVE  StepBracket' /\ StepOnce(s)'
<1> USE DEF CallsStep, Calls, At
<1>1. CASE ConstructStep(t, s)
  <2>1. stepState[s] = "absent" /\ pc[t] = "idle"
    BY <1>1 DEF ConstructStep
  <2>2. /\ \A u \in Threads : ~Constructs(u, s) /\ ~Uses(u, s)
        /\ \A a \in Logged : ~OfStep(a, s)
        /\ ~stepEnded[s] => \A a \in Logged : ~IsStepEnd(a, s)
    BY <2>1 DEF BracketInv, StepOnce
  <2>3. CASE started
    <3>1. /\ log' = log /\ stepEnded' = stepEnded /\ stepState'[s] = "starting"
          /\ pc'[t] = "stepStart" /\ on'[t] = s
      BY <1>1, <2>3
         DEF ConstructStep, logVars, GotoOn, Goto, BracketInv, StepTypeOK, RunTypeOK
    <3>2. StepBracket' /\ Logged' = Logged
      BY <3>1, NoArtifact DEF BracketInv
    <3>3. \A u \in Threads : u # t => ~Constructs(u, s)' /\ ~Uses(u, s)'
      BY <2>2 DEF StepEffect, Constructs, Uses
    <3>4. Constructs(t, s)' /\ Begins(t, s)' /\ ~Uses(t, s)'
      BY <3>1 DEF Constructs, Begins, Uses
    <3> QED BY <2>2, <3>1, <3>2, <3>3, <3>4 DEF StepOnce
  <2>4. CASE ~started
    <3>1. /\ CheckFails(t) /\ on' = [on EXCEPT ![t] = s]
          /\ UNCHANGED <<stepState, stepEnded, runLock>>
      BY <1>1, <2>4 DEF ConstructStep, DieOn, Die, stepVars
    <3>2. pc'[t] = "dying" /\ Writes(RunArtifact)
      BY <3>1, CheckFailsEffect DEF BracketInv, StepTypeOK, RunTypeOK
    <3>3. /\ StepBracket'
          /\ \A a \in Logged' : ~OfStep(a, s)
      BY <2>2, <3>2, RunsArtifact
    <3>4. \A u \in Threads : ~Constructs(u, s)' /\ ~Uses(u, s)' /\ ~Begins(u, s)'
      BY <2>2, <3>2 DEF StepEffect, Constructs, Begins, Uses
    <3> QED BY <2>1, <3>1, <3>3, <3>4, Disjoint DEF StepOnce
  <2> QED BY <2>3, <2>4
<1>2. CASE AddContent(t, s)
  BY <1>2, CheckEndedBracket DEF AddContent
<1>3. CASE AddFatalLog(t, s)
  BY <1>3, CheckEndedBracket DEF AddFatalLog
<1>4. CASE AddFailureDiagnosis(t, s)
  BY <1>4, UsedStep
     DEF AddFailureDiagnosis, GotoOn, Goto, logVars, stepVars, Writes, BracketInv, StepTypeOK, RunTypeOK
<1>5. CASE AddError(t, s)
  BY <1>5, UsedStep
     DEF AddError, GotoOn, Goto, logVars, Writes, BracketInv, StepTypeOK, RunTypeOK
<1>6. CASE SkipStep(t, s)
  BY <1>6, UsedStep
     DEF SkipStep, GotoOn, Goto, logVars, Writes, BracketInv, StepTypeOK, RunTypeOK
<1>7. CASE CallEndStep(t, s)
  BY <1>7, EndStepBracket DEF CallEndStep
<1> QED BY <1>1, <1>2, <1>3, <1>4, <1>5, <1>6, <1>7 DEF StepCall

\* What goes on in them.
LEMMA StepContinueBracket ==
  ASSUME BracketInv, NEW t \in Threads, NEW s \in Steps, StepEffect(t, s),
         StepContinue(t, s)
  PROVE  StepBracket' /\ StepOnce(s)'
<1> USE DEF AtStep, At
<1>1. CASE EmitStepStart(t, s)
  <2>1. /\ Begins(t, s) /\ Constructs(t, s)
        /\ log' = Append(log, StepStart(s)) /\ UNCHANGED <<stepState, stepEnded>>
        /\ pc'[t] = "stepStartFlush" /\ on'[t] = s
    BY <1>1 DEF EmitStepStart, Log!Put, stepVars, GotoOn, Goto, Begins, Constructs,
                BracketInv, StepTypeOK, RunTypeOK
  <2>2. /\ stepState[s] = "starting"
        /\ \A a \in Logged : ~OfStep(a, s) /\ ~IsStepEnd(a, s)
        /\ \A u \in Threads : u # t => ~Constructs(u, s)
        /\ \A u \in Threads : ~Uses(u, s)
    BY <2>1, Disjoint DEF BracketInv, StepOnce
  <2>3. StepBracket' /\ Logged' = Logged \cup {StepStart(s)}
    BY <2>1, <2>2, StepsArtifact, Kinds
  <2>4. /\ \A u \in Threads : u # t => ~Constructs(u, s)'
        /\ \A u \in Threads : ~Uses(u, s)' /\ ~Begins(u, s)'
    BY <2>1, <2>2 DEF StepEffect, Constructs, Begins, Uses
  <2>5. \A a \in Logged' : ~IsStepEnd(a, s)
    BY <2>2, <2>3, Disjoint
  <2> QED BY <2>1, <2>2, <2>3, <2>4, <2>5 DEF StepOnce
<1>2. CASE FlushStepStart(t, s)
  <2>1. /\ Constructs(t, s) /\ ~Begins(t, s)
        /\ log' = log /\ stepEnded' = stepEnded /\ stepState'[s] = "live"
        /\ pc'[t] = "idle"
    BY <1>2 DEF FlushStepStart, Log!Sync, Return, GotoOn, Goto, Begins, Constructs,
                BracketInv, StepTypeOK, RunTypeOK
  <2>2. \A u \in Threads : u # t => ~Constructs(u, s) /\ ~Begins(u, s)
    BY <2>1 DEF BracketInv, StepOnce, Constructs, Begins
  <2>3. /\ StepStart(s) \in Logged
        /\ ~stepEnded[s] => \A a \in Logged : ~IsStepEnd(a, s)
    BY <2>1, <2>2 DEF BracketInv, StepOnce
  <2>4. StepBracket' /\ Logged' = Logged
    BY <2>1, NoArtifact DEF BracketInv
  <2>5. \A u \in Threads : ~Constructs(u, s)' /\ ~Begins(u, s)'
    BY <2>1, <2>2 DEF StepEffect, Constructs, Begins
  <2> QED BY <2>1, <2>3, <2>4, <2>5 DEF StepOnce
<1>3. CASE EmitFailure(t, s)
  <2>1. Uses(t, s)
    BY <1>3 DEF EmitFailure, Uses
  <2> QED BY <1>3, <2>1, CheckEndedBracket DEF EmitFailure, BracketInv, StepOnce
<1>4. CASE NotifyStepError(t, s)
  <2>1. Uses(t, s)
    BY <1>4 DEF NotifyStepError, Uses
  <2>2. stepState[s] \notin {"absent", "starting"}
    BY <2>1 DEF BracketInv, StepOnce
  <2>3. log' = log /\ UNCHANGED <<stepState, stepEnded>> /\ pc'[t] = "emitError"
    BY <1>4 DEF NotifyStepError, GotoOn, Goto, logVars, stepVars, BracketInv, StepTypeOK, RunTypeOK
  <2> QED BY <2>2, <2>3, UsedStep DEF Writes
<1>5. CASE EmitStepError(t, s)
  <2>1. Uses(t, s)
    BY <1>5 DEF EmitStepError, Uses
  <2> QED BY <1>5, <2>1, CheckEndedBracket DEF EmitStepError, BracketInv, StepOnce
<1>6. CASE EndSkippedStep(t, s)
  <2>1. Uses(t, s)
    BY <1>6 DEF EndSkippedStep, Uses
  <2> QED BY <1>6, <2>1, EndStepBracket DEF EndSkippedStep, BracketInv, StepOnce
<1>7. CASE FlushStepEnd(t, s)
  <2>1. Uses(t, s)
    BY <1>7 DEF FlushStepEnd, Uses
  <2>2. stepState[s] \notin {"absent", "starting"}
    BY <2>1 DEF BracketInv, StepOnce
  <2>3. /\ log' = log /\ stepEnded' = stepEnded /\ pc'[t] = "idle"
        /\ stepState'[s] \notin {"absent", "starting"}
    BY <1>7, <2>2 DEF FlushStepEnd, Log!Sync, Return, GotoOn, Goto, BracketInv, StepTypeOK, RunTypeOK
  <2> QED BY <2>2, <2>3, UsedStep DEF Writes
<1> QED BY <1>1, <1>2, <1>3, <1>4, <1>5, <1>6, <1>7 DEF StepContinue

LEMMA InitBracket == StepInit => BracketInv
<1> SUFFICES ASSUME StepInit PROVE BracketInv
  OBVIOUS
<1>1. log = <<>> /\ Len(log) = 0
  BY EmptySeq DEF StepInit, RunInit, Log!Init
<1>2. Places = {} /\ Logged = {}
  BY <1>1 DEF Places, Logged
<1>3. \A t \in Threads : pc[t] = "idle"
  BY DEF StepInit, RunInit
<1>4. \A s \in Steps : stepState[s] = "absent"
  BY DEF StepInit
<1> QED
  BY <1>2, <1>3, <1>4, InitType
     DEF BracketInv, StepOnce, StepBracket, Constructs, Begins, Uses

LEMMA NextBracket == BracketInv /\ [StepsNext]_stepsVars => BracketInv'
<1> SUFFICES ASSUME BracketInv, [StepsNext]_stepsVars PROVE BracketInv'
  OBVIOUS
<1>1. StepTypeOK'
  BY NextType DEF BracketInv
<1>2. ASSUME NEW t \in Threads, RunEffect(t), UNCHANGED <<on, stepVars>>
      PROVE  StepBracket' /\ \A s \in Steps : StepOnce(s)'
  <2>1. /\ StepBracket' /\ Logged \subseteq Logged'
        /\ \A a \in Logged' \ Logged : \A s \in Steps : ~OfStep(a, s) /\ ~IsStepEnd(a, s)
    BY <1>2, RunsArtifact DEF RunEffect
  <2>2. \A u \in Threads, s \in Steps :
          /\ Begins(u, s)' <=> Begins(u, s)
          /\ Constructs(u, s)' <=> Constructs(u, s)
          /\ Uses(u, s)' <=> Uses(u, s)
    BY <1>2 DEF RunEffect, RunLabel, Begins, Constructs, Uses,
                BracketInv, StepTypeOK, RunTypeOK
  <2>3. UNCHANGED <<stepState, stepEnded>>
    BY <1>2 DEF stepVars
  <2> QED BY <2>1, <2>2, <2>3 DEF BracketInv, StepOnce
<1>3. ASSUME NEW t \in Threads, NEW s \in Steps, StepEffect(t, s),
             StepCall(t, s) \/ StepContinue(t, s) \/ DestroyStep(t, s)
      PROVE  StepBracket' /\ \A r \in Steps : StepOnce(r)'
  <2>1. CASE StepCall(t, s)
    BY <1>3, <2>1, StepCallBracket, OtherSteps
  <2>2. CASE StepContinue(t, s)
    BY <1>3, <2>2, StepContinueBracket, OtherSteps
  <2>3. CASE DestroyStep(t, s)
    BY <1>3, <2>3, EndStepBracket, OtherSteps DEF DestroyStep, CallsStep
  <2> QED BY <1>3, <2>1, <2>2, <2>3
<1>4. CASE UNCHANGED stepsVars
  <2>1. UNCHANGED <<log, pc, on, stepState, stepEnded>>
    BY <1>4 DEF stepsVars, stepVars, runVars, logVars
  <2>2. StepBracket' /\ Logged' = Logged
    BY <2>1, NoArtifact DEF BracketInv
  <2> QED
    BY <1>1, <2>1, <2>2 DEF BracketInv, StepOnce, Begins, Constructs, Uses
<1> QED
  BY <1>1, <1>2, <1>3, <1>4, StepCases DEF BracketInv

(***************************************************************************)
(* For any number of threads and steps, whatever races there are between   *)
(* End, Skip, the destructor and the Add methods: every step has one       *)
(* TestStepStart, before all its other artifacts, and nothing follows its  *)
(* one TestStepEnd.                                                        *)
(***************************************************************************)
THEOREM StepsBracketed == StepsSpec => []StepBracket
<1>1. BracketInv => StepBracket
  BY DEF BracketInv
<1> QED BY <1>1, InitBracket, NextBracket, PTL DEF StepsSpec

----------------------------------------------------------------------------
(* Measurement series.                                                     *)

(***************************************************************************)
(* A step of thread t in a method of a series: what it does to the run and *)
(* its steps, and the artifacts it may write.                              *)
(***************************************************************************)
SeriesEffect(t) ==
  /\ StepTypeOK'
  /\ \E l, x : /\ x \in Series \cup {Nobody}
               /\ pc' = [pc EXCEPT ![t] = l] /\ on' = [on EXCEPT ![t] = x]
  /\ UNCHANGED stepVars
  /\ Writes(RunArtifact \cup SeriesArtifact)

\* Every artifact a series writes is an artifact.
LEMMA SeriesKinds ==
  /\ SeriesArtifact \subseteq Artifact
  /\ \A m \in Series : SeriesStart(m) \in SeriesArtifact
  /\ \A m \in Series, n \in Nat : SeriesEnd(m, n) \in SeriesArtifact
  /\ \A m \in Series, n \in Nat, type \in ValueTypes : Element(m, n, type) \in SeriesArtifact
<1>1. SeriesArtifact \subseteq Artifact
  BY DEF Artifact
<1> QED BY <1>1 DEF SeriesArtifact, SeriesStart, SeriesEnd, Element

\* A method of a series that goes on, or returns.
LEMMA GoesOn ==
  ASSUME StepTypeOK, NEW t \in Threads, NEW x \in Series \cup {Nobody}, NEW l,
         GotoOn(t, l, x), StepFrame,
         \/ UNCHANGED logVars \/ Log!Sync
         \/ \E a \in SeriesArtifact : Log!Put(a)
  PROVE  SeriesEffect(t)
<1> USE DEF StepTypeOK, RunTypeOK
<1>1. Log!TypeOK' /\ Writes(RunArtifact \cup SeriesArtifact)
  <2>1. CASE UNCHANGED logVars
    BY <2>1, QuietType DEF Writes
  <2>2. CASE Log!Sync
    BY <2>2, SyncType DEF Writes
  <2>3. ASSUME NEW a \in SeriesArtifact, Log!Put(a)
        PROVE  Log!TypeOK' /\ Writes(RunArtifact \cup SeriesArtifact)
    BY <2>3, SeriesKinds, PutType DEF Writes
  <2> QED BY <2>1, <2>2, <2>3
<1>2. CalculatorTypeOK' /\ RunFrame /\ UNCHANGED stepVars
  BY CalculatorType DEF StepFrame
<1>3. pc' = [pc EXCEPT ![t] = l] /\ on' = [on EXCEPT ![t] = x]
  BY DEF GotoOn, Goto
<1>4. RunTypeOK'
  BY <1>1, <1>2, <1>3, RunTypeKept
<1>5. StepTypeOK'
  <2>1. on' \in [Threads -> Steps \cup Series \cup {Nobody}]
    BY <1>3
  <2> QED BY <1>2, <1>4, <2>1 DEF stepVars
<1> QED BY <1>1, <1>2, <1>3, <1>5 DEF SeriesEffect

\* A CHECK that fails in one, whether the series' lock is taken or not.
LEMMA Dies ==
  ASSUME StepTypeOK, NEW t \in Threads, NEW m \in Series,
         Die(t), on' = [on EXCEPT ![t] = m], UNCHANGED stepVars
  PROVE  SeriesEffect(t) /\ pc' = [pc EXCEPT ![t] = "dying"] /\ Writes(RunArtifact)
<1> USE DEF StepTypeOK, RunTypeOK
<1>1. RunTypeOK' /\ pc' = [pc EXCEPT ![t] = "dying"] /\ Writes(RunArtifact)
  BY CheckFailsEffect DEF Die
<1>2. StepTypeOK'
  <2>1. on' \in [Threads -> Steps \cup Series \cup {Nobody}]
    OBVIOUS
  <2> QED BY <1>1, <2>1 DEF stepVars
<1>3. Writes(RunArtifact \cup SeriesArtifact)
  BY <1>1 DEF Writes
<1> QED BY <1>1, <1>2, <1>3 DEF SeriesEffect
-----------------------------------------------------------------------------
(***************************************************************************)
(* The elements of a series have one type because SetAndCheckSeriesType    *)
(* fixes the series' type before the element has a number, and never again *)
(* afterwards: an element on its way, or in the log, is of the type that   *)
(* the series has.  A series that does not exist yet has no type and no    *)
(* elements.                                                               *)
(***************************************************************************)
InAddElement(t, m) ==
  on[t] = m /\ pc[t] \in {"number", "lockElement", "askStep", "emitElement"}

TypedAsSeries(m, type) ==
  type = serType[m] /\ type # "none" /\ serState[m] # "absent"

TypesInv ==
  /\ SeriesTypeOK
  /\ \A t \in Threads, m \in Series :
       InAddElement(t, m) => TypedAsSeries(m, adding[t].type)
  /\ \A m \in Series : \A a \in Logged :
       IsElement(a, m) => TypedAsSeries(m, a.type)
  /\ \A m \in Series : serState[m] = "absent" => serType[m] = "none"

\* Only series write elements.
LEMMA NoElements ==
  ASSUME NEW m \in Series
  PROVE  /\ \A a \in RunArtifact : ~IsElement(a, m)
         /\ \A s \in Steps : \A a \in StepArtifact(s) : ~IsElement(a, m)
         /\ \A r \in Series : ~IsElement(SeriesStart(r), m)
         /\ \A r \in Series, n \in Nat : ~IsElement(SeriesEnd(r, n), m)
<1>1. \A a \in RunArtifact : a.kind # "Element"
  BY DEF RunArtifact, SchemaVersion, RunStart, RunLog, RunError, RunEnd
<1>2. \A s \in Steps : \A a \in StepArtifact(s) : a.kind # "Element"
  BY DEF StepArtifact, StepStart, Content, Failure, StepError, StepEnd
<1> QED BY <1>1, <1>2 DEF IsElement, SeriesStart, SeriesEnd

WritesNoElement ==
  \E A : /\ A \subseteq Artifact /\ Writes(A)
         /\ \A a \in A, m \in Series : ~IsElement(a, m)

\* A step that adds no element, starts no AddElement and leaves the types alone.
LEMMA TypesKept ==
  ASSUME TypesInv, SeriesTypeOK',
         WritesNoElement,
         \A t \in Threads, m \in Series : InAddElement(t, m)' => InAddElement(t, m),
         \A t \in Threads : adding'[t].type = adding[t].type,
         serType' = serType,
         \A m \in Series : serState'[m] = "absent" => serState[m] = "absent"
  PROVE  TypesInv'
<1>1. \A m \in Series : \A a \in Logged' : IsElement(a, m) => a \in Logged
  <2>1. CASE log' = log
    BY <2>1 DEF Logged, Places
  <2>2. ASSUME NEW a \in Artifact, log' = Append(log, a), \A m \in Series : ~IsElement(a, m)
        PROVE  \A m \in Series : \A b \in Logged' : IsElement(b, m) => b \in Logged
    <3>1. log \in Seq(Artifact)
      BY DEF TypesInv, SeriesTypeOK, StepTypeOK, RunTypeOK, Log!TypeOK
    <3> QED BY <2>2, <3>1, LoggedAppend
  <2> QED BY <2>1, <2>2 DEF Writes, WritesNoElement
<1> QED BY <1>1 DEF TypesInv, TypedAsSeries

\* The methods of the run and its steps leave series alone.
LEMMA StepsKeepTypes ==
  ASSUME TypesInv, StepStep
  PROVE  TypesInv'
<1> USE DEF TypesInv, SeriesTypeOK
<1>1. StepTypeOK /\ [StepsNext]_stepsVars /\ UNCHANGED seriesVars
  BY DEF StepStep, StepsNext
<1>2. SeriesTypeOK'
  BY <1>1, NextType DEF seriesVars
<1>3. ASSUME NEW t \in Threads, RunEffect(t), UNCHANGED <<on, stepVars>>
      PROVE  TypesInv'
  <2>1. \A u \in Threads, m \in Series : InAddElement(u, m)' => InAddElement(u, m)
    BY <1>3 DEF RunEffect, RunLabel, InAddElement, StepTypeOK, RunTypeOK
  <2>2. Writes(RunArtifact) /\ RunArtifact \subseteq Artifact
    BY <1>3, Kinds DEF RunEffect
  <2> QED BY <1>1, <1>2, <2>1, <2>2, NoElements, TypesKept DEF WritesNoElement, seriesVars
<1>4. ASSUME NEW t \in Threads, NEW s \in Steps, StepEffect(t, s)
      PROVE  TypesInv'
  <2>1. \A u \in Threads, m \in Series : InAddElement(u, m)' => InAddElement(u, m)
    BY <1>4, RunAssumption DEF StepEffect, InAddElement
  <2>2. Writes(RunArtifact \cup StepArtifact(s)) /\ RunArtifact \cup StepArtifact(s) \subseteq Artifact
    BY <1>4, Kinds DEF StepEffect
  <2> QED BY <1>1, <1>2, <2>1, <2>2, NoElements, TypesKept DEF WritesNoElement, seriesVars
<1>5. CASE UNCHANGED stepsVars
  <2>1. \A u \in Threads, m \in Series : InAddElement(u, m)' => InAddElement(u, m)
    BY <1>5 DEF InAddElement, stepsVars, runVars
  <2>2. Writes({})
    BY <1>5 DEF stepsVars, runVars, logVars, Writes
  <2> QED BY <1>1, <1>2, <2>1, <2>2, TypesKept DEF WritesNoElement, seriesVars
<1> QED BY <1>1, <1>3, <1>4, <1>5, StepCases

\* The variables of the series stay well formed.
SeriesOK ==
  /\ serState \in [Series -> {"absent", "starting", "live", "destroying", "destroyed"}]
  /\ serType \in [Series -> Types]
  /\ serCount \in [Series -> Nat]
  /\ serEnded \in [Series -> BOOLEAN]
  /\ serLock \in [Series -> Threads \cup {Nobody}]
  /\ adding \in [Threads -> [index : Nat, type : Types]]

\* A method of series m that neither starts an AddElement nor writes an element.
LEMMA QuietMethod ==
  ASSUME TypesInv, NEW t \in Threads, SeriesOK',
         NEW l, NEW x \in Series \cup {Nobody}, GotoOn(t, l, x), StepFrame,
         l \in {"number", "lockElement", "askStep", "emitElement"} => InAddElement(t, x),
         \/ UNCHANGED logVars \/ Log!Sync
         \/ \E m \in Series : Log!Put(SeriesStart(m))
         \/ \E m \in Series, n \in Nat : Log!Put(SeriesEnd(m, n)),
         \A u \in Threads : adding'[u].type = adding[u].type,
         serType' = serType,
         \A m \in Series : serState'[m] = "absent" => serState[m] = "absent"
  PROVE  TypesInv'
<1>1. SeriesEffect(t) /\ SeriesTypeOK'
  <2>1. \/ UNCHANGED logVars \/ Log!Sync
        \/ \E a \in SeriesArtifact : Log!Put(a)
    BY SeriesKinds
  <2>2. SeriesEffect(t)
    BY <2>1, GoesOn DEF TypesInv, SeriesTypeOK
  <2> QED BY <2>2 DEF SeriesEffect, SeriesTypeOK, SeriesOK
<1>2. WritesNoElement
  <2>1. CASE UNCHANGED logVars \/ Log!Sync
    <3>1. Writes({})
      BY <2>1 DEF logVars, Log!Sync, Writes
    <3> QED BY <3>1 DEF WritesNoElement
  <2>2. ASSUME NEW m \in Series, Log!Put(SeriesStart(m))
        PROVE  WritesNoElement
    <3>1. Writes({SeriesStart(m)}) /\ {SeriesStart(m)} \subseteq Artifact
      BY <2>2, SeriesKinds DEF Log!Put, Writes
    <3> QED BY <3>1, NoElements DEF WritesNoElement
  <2>3. ASSUME NEW m \in Series, NEW n \in Nat, Log!Put(SeriesEnd(m, n))
        PROVE  WritesNoElement
    <3>1. Writes({SeriesEnd(m, n)}) /\ {SeriesEnd(m, n)} \subseteq Artifact
      BY <2>3, SeriesKinds DEF Log!Put, Writes
    <3> QED BY <3>1, NoElements DEF WritesNoElement
  <2> QED BY <2>1, <2>2, <2>3
<1>3. \A u \in Threads, m \in Series : InAddElement(u, m)' => InAddElement(u, m)
  BY DEF GotoOn, Goto, InAddElement, TypesInv, SeriesTypeOK, StepTypeOK, RunTypeOK
<1> QED BY <1>1, <1>2, <1>3, TypesKept

\* A method of a series that dies.
LEMMA DeadMethod ==
  ASSUME TypesInv, NEW t \in Threads, NEW m \in Series,
         Die(t), on' = [on EXCEPT ![t] = m], UNCHANGED stepVars,
         SeriesOK', UNCHANGED <<serState, serType, adding>>
  PROVE  TypesInv'
<1>1. SeriesEffect(t) /\ pc' = [pc EXCEPT ![t] = "dying"] /\ Writes(RunArtifact)
  BY Dies DEF TypesInv, SeriesTypeOK
<1>2. SeriesTypeOK'
  BY <1>1 DEF SeriesEffect, SeriesTypeOK, SeriesOK
<1>3. \A u \in Threads, r \in Series : InAddElement(u, r)' => InAddElement(u, r)
  BY <1>1 DEF InAddElement, TypesInv, SeriesTypeOK, StepTypeOK, RunTypeOK
<1> QED BY <1>1, <1>2, <1>3, Kinds, NoElements, TypesKept DEF WritesNoElement

\* The constructor gives the series the type of its validators.
LEMMA ConstructTypes ==
  ASSUME TypesInv, NEW t \in Threads, NEW m \in Series, NEW type \in Types,
         ConstructSeries(t, m, type)
  PROVE  TypesInv'
<1> USE DEF TypesInv, SeriesTypeOK
<1>1. CASE stepEnded[StepOf[m]]
  BY <1>1, DeadMethod DEF ConstructSeries, DieOn, seriesVars, SeriesOK
<1>2. CASE ~stepEnded[StepOf[m]]
  <2>1. /\ serState[m] = "absent" /\ pc[t] = "idle"
        /\ serState' = [serState EXCEPT ![m] = "starting"]
        /\ serType' = [serType EXCEPT ![m] = type]
        /\ GotoOn(t, "seriesStart", m) /\ StepFrame
        /\ UNCHANGED <<log, serCount, serEnded, serLock, adding>> /\ UNCHANGED logVars
    BY <1>2 DEF ConstructSeries, CallsStep, Calls, At, logVars
  <2>2. SeriesTypeOK'
    BY <2>1, GoesOn DEF SeriesEffect
  <2>3. \A u \in Threads, r \in Series : InAddElement(u, r)' => InAddElement(u, r) /\ r # m
    BY <2>1 DEF InAddElement, TypedAsSeries, GotoOn, Goto, StepTypeOK, RunTypeOK
  <2>4. Logged' = Logged /\ \A a \in Logged : ~IsElement(a, m)
    BY <2>1 DEF Logged, Places, TypedAsSeries
  <2>5. \A r \in Series : serState'[r] = "absent" => serType'[r] = "none"
    BY <2>1
  <2>6. \A u \in Threads, r \in Series :
           InAddElement(u, r)' => TypedAsSeries(r, adding[u].type)'
    BY <2>1, <2>3 DEF TypedAsSeries
  <2>7. \A r \in Series : \A a \in Logged' :
           IsElement(a, r) => TypedAsSeries(r, a.type)'
    BY <2>1, <2>4 DEF TypedAsSeries
  <2> QED BY <2>2, <2>5, <2>6, <2>7
<1> QED BY <1>1, <1>2

\* The first element does, if there are no validators; any other has the same type.
LEMMA SetTypes ==
  ASSUME TypesInv, NEW t \in Threads, NEW m \in Series, NEW type \in ValueTypes,
         SetAndCheckSeriesType(t, m, type)
  PROVE  TypesInv'
<1> USE DEF TypesInv, SeriesTypeOK
<1>1. CASE serType[m] \notin {"none", type}
  <2>1. /\ Die(t) /\ on' = [on EXCEPT ![t] = m] /\ UNCHANGED stepVars
        /\ serLock' = [serLock EXCEPT ![m] = t]
        /\ UNCHANGED <<serState, serType, serCount, serEnded, adding>>
    BY <1>1 DEF SetAndCheckSeriesType
  <2>2. SeriesOK'
    BY <2>1 DEF SeriesOK
  <2> QED BY <2>1, <2>2, DeadMethod
<1>2. CASE serType[m] \in {"none", type}
  <2>1. /\ serState[m] = "live" /\ pc[t] = "idle" /\ type # "none"
        /\ serType' = [serType EXCEPT ![m] = type]
        /\ adding' = [adding EXCEPT ![t] = [index |-> 0, type |-> type]]
        /\ GotoOn(t, "number", m) /\ StepFrame
        /\ UNCHANGED <<log, serState, serCount, serEnded, serLock>> /\ UNCHANGED logVars
    BY <1>2, ArtifactsAssumption DEF SetAndCheckSeriesType, CallsSeries, Calls, At, logVars
  <2>2. SeriesTypeOK'
    <3>1. SeriesOK'
      BY <2>1 DEF SeriesOK, Types
    <3> QED BY <2>1, <3>1, GoesOn DEF SeriesEffect, SeriesOK
  <2>3. \A r \in Series : serType[r] # "none" => serType'[r] = serType[r]
    BY <1>2, <2>1
  <2>4. ASSUME NEW u \in Threads, NEW r \in Series, InAddElement(u, r)'
        PROVE  TypedAsSeries(r, adding[u].type)'
    <3>1. CASE u = t
      <4>1. r = m
        BY <2>1, <2>4, <3>1 DEF InAddElement, GotoOn, StepTypeOK
      <4> QED BY <2>1, <3>1, <4>1 DEF TypedAsSeries
    <3>2. CASE u # t
      <4>1. InAddElement(u, r) /\ adding'[u] = adding[u]
        BY <2>1, <2>4, <3>2 DEF InAddElement, GotoOn, Goto, StepTypeOK, RunTypeOK
      <4> QED BY <2>1, <2>3, <4>1 DEF TypedAsSeries
    <3> QED BY <3>1, <3>2
  <2>5. Logged' = Logged
    BY <2>1 DEF Logged, Places
  <2> QED BY <2>1, <2>2, <2>3, <2>4, <2>5 DEF TypedAsSeries
<1> QED BY <1>1, <1>2

\* The element is written with the type its thread has carried along.
LEMMA EmitTypes ==
  ASSUME TypesInv, NEW t \in Threads, NEW m \in Series, EmitElement(t, m)
  PROVE  TypesInv'
<1> USE DEF TypesInv, SeriesTypeOK
<1>1. CASE serEnded[m]
  BY <1>1, DeadMethod DEF EmitElement, DieOn, seriesVars, SeriesOK
<1>2. CASE ~serEnded[m]
  <2> DEFINE a == Element(m, adding[t].index, adding[t].type)
  <2>1. /\ InAddElement(t, m)
        /\ Log!Put(a)
        /\ serLock' = [serLock EXCEPT ![m] = Nobody]
        /\ adding' = [adding EXCEPT ![t] = NoElement]
        /\ Return(t) /\ StepFrame
        /\ UNCHANGED <<serState, serType, serCount, serEnded>>
    BY <1>2 DEF EmitElement, AtSeries, At, InAddElement
  <2>2. TypedAsSeries(m, adding[t].type)
    BY <2>1
  <2>3. a \in SeriesArtifact
    <3>1. adding[t].index \in Nat /\ adding[t].type \in ValueTypes
      BY <2>2 DEF TypedAsSeries, Types
    <3> QED BY <3>1, SeriesKinds
  <2> HIDE DEF a
  <2>4. SeriesTypeOK'
    <3>1. SeriesOK'
      BY <2>1 DEF SeriesOK, Types, NoElement
    <3>2. StepTypeOK'
      BY <2>1, <2>3, GoesOn DEF Return, SeriesEffect
    <3> QED BY <3>1, <3>2 DEF SeriesOK
  <2>5. \A u \in Threads, r \in Series :
          InAddElement(u, r)' => InAddElement(u, r) /\ adding'[u] = adding[u]
    BY <2>1 DEF InAddElement, Return, GotoOn, Goto, StepTypeOK, RunTypeOK
  <2>6. Logged' = Logged \cup {a}
    BY <2>1, <2>3, SeriesKinds, LoggedAppend DEF Log!Put, StepTypeOK, RunTypeOK, Log!TypeOK
  <2>7. \A r \in Series : IsElement(a, r) => TypedAsSeries(r, a.type)
    BY <2>2 DEF a, Element, IsElement
  <2> QED BY <2>1, <2>4, <2>5, <2>6, <2>7 DEF TypedAsSeries
<1> QED BY <1>1, <1>2

\* End and the destructor.
LEMMA EndTypes ==
  ASSUME TypesInv, NEW t \in Threads, NEW m \in Series, NEW then \in {"live", "destroying"},
         EndSeries(t, m, then)
  PROVE  TypesInv'
<1> USE DEF TypesInv, SeriesTypeOK
<1>1. SeriesOK' /\ \A r \in Series : serState'[r] = "absent" => serState[r] = "absent"
  BY DEF EndSeries, SeriesOK
<1>2. UNCHANGED <<serType, adding>> /\ UNCHANGED logVars /\ StepFrame
  BY DEF EndSeries, logVars
<1>3. CASE serEnded[m]
  BY <1>1, <1>2, <1>3, QuietMethod DEF EndSeries, Return
<1>4. CASE ~serEnded[m]
  BY <1>1, <1>2, <1>4, QuietMethod DEF EndSeries
<1> QED BY <1>3, <1>4

\* What goes on in the methods of a series.
LEMMA ContinueTypes ==
  ASSUME TypesInv, NEW t \in Threads, NEW m \in Series, SeriesContinue(t, m)
  PROVE  TypesInv'
<1> USE DEF TypesInv, SeriesTypeOK, SeriesOK
<1>1. CASE EmitSeriesStart(t, m)
  BY <1>1, QuietMethod DEF EmitSeriesStart, seriesVars
<1>2. CASE FlushSeriesStart(t, m)
  BY <1>2, QuietMethod DEF FlushSeriesStart, Return
<1>3. CASE NumberElement(t, m)
  <2>1. SeriesOK' /\ \A u \in Threads : adding'[u].type = adding[u].type
    BY <1>3 DEF NumberElement
  <2> QED BY <1>3, <2>1, QuietMethod DEF NumberElement, AtSeries, At, InAddElement, logVars
<1>4. CASE LockElement(t, m)
  BY <1>4, QuietMethod DEF LockElement, AtSeries, At, InAddElement, logVars
<1>5. CASE AskStep(t, m)
  <2>1. CASE stepEnded[StepOf[m]]
    BY <1>5, <2>1, DeadMethod DEF AskStep, DieOn, seriesVars
  <2>2. CASE ~stepEnded[StepOf[m]]
    BY <1>5, <2>2, QuietMethod DEF AskStep, AtSeries, At, InAddElement, seriesVars
  <2> QED BY <2>1, <2>2
<1>6. CASE EmitElement(t, m)
  BY <1>6, EmitTypes
<1>7. CASE SeriesEndAsksStep(t, m)
  BY <1>7, QuietMethod DEF SeriesEndAsksStep, logVars
<1>8. CASE EmitSeriesEnd(t, m)
  <2>1. /\ SeriesOK' /\ GotoOn(t, "seriesEndFlush", m) /\ StepFrame
        /\ UNCHANGED <<serState, serType, adding>>
    BY <1>8 DEF EmitSeriesEnd
  <2>2. \E r \in Series, n \in Nat : Log!Put(SeriesEnd(r, n))
    BY <1>8 DEF EmitSeriesEnd
  <2> QED BY <2>1, <2>2, QuietMethod
<1>9. CASE FlushSeriesEnd(t, m)
  BY <1>9, QuietMethod DEF FlushSeriesEnd, Return
<1> QED BY <1>1, <1>2, <1>3, <1>4, <1>5, <1>6, <1>7, <1>8, <1>9 DEF SeriesContinue

\* TypesInv is inductive.
LEMMA NextTypes == TypesInv /\ [Next]_resultsVars => TypesInv'
<1> SUFFICES ASSUME TypesInv, [Next]_resultsVars PROVE TypesInv'
  OBVIOUS
<1>1. CASE StepStep
  BY <1>1, StepsKeepTypes
<1>2. ASSUME NEW t \in Threads, NEW m \in Series, SeriesCall(t, m)
      PROVE  TypesInv'
  BY <1>2, ConstructTypes, SetTypes, EndTypes DEF SeriesCall, CallEndSeries
<1>3. ASSUME NEW t \in Threads, NEW m \in Series, SeriesContinue(t, m)
      PROVE  TypesInv'
  BY <1>3, ContinueTypes
<1>4. ASSUME NEW t \in Threads, NEW m \in Series, DestroySeries(t, m)
      PROVE  TypesInv'
  BY <1>4, EndTypes DEF DestroySeries
<1>5. CASE UNCHANGED resultsVars
  <2>1. UNCHANGED stepsVars /\ UNCHANGED seriesVars
    BY <1>5 DEF resultsVars
  <2>2. StepTypeOK'
    BY <2>1, NextType DEF TypesInv, SeriesTypeOK
  <2> QED BY <2>1, <2>2
          DEF TypesInv, SeriesTypeOK, InAddElement, TypedAsSeries, Logged, Places,
              stepsVars, runVars, logVars, seriesVars
<1> QED BY <1>1, <1>2, <1>3, <1>4, <1>5 DEF Next

\* Before the run starts no series has a type and nothing is written.
LEMMA InitTypes == SeriesInit => TypesInv
<1> SUFFICES ASSUME SeriesInit PROVE TypesInv
  OBVIOUS
<1>1. SeriesTypeOK
  BY InitType DEF SeriesInit, SeriesTypeOK, Types, NoElement
<1>2. Logged = {}
  <2>1. log = <<>>
    BY DEF SeriesInit, StepInit, RunInit, Log!Init
  <2> QED BY <2>1, EmptySeq DEF Logged, Places
<1>3. \A t \in Threads : pc[t] = "idle"
  BY DEF SeriesInit, StepInit, RunInit
<1>4. \A m \in Series : serType[m] = "none"
  BY DEF SeriesInit
<1> QED BY <1>1, <1>2, <1>3, <1>4 DEF TypesInv, InAddElement

\* A series that has a type keeps it.
LEMMA TypeFixed ==
  ASSUME TypesInv, [Next]_resultsVars
  PROVE  [\A m \in Series : serType[m] # "none" => serType'[m] = serType[m]]_serType
<1> USE DEF TypesInv, SeriesTypeOK
<1>1. CASE StepStep \/ UNCHANGED resultsVars
  BY <1>1 DEF StepStep, resultsVars, seriesVars
<1>2. ASSUME NEW t \in Threads, NEW m \in Series, SeriesCall(t, m)
      PROVE  \A r \in Series : serType[r] # "none" => serType'[r] = serType[r]
  <2>1. ASSUME NEW type \in Types, ConstructSeries(t, m, type)
        PROVE  \A r \in Series : serType[r] # "none" => serType'[r] = serType[r]
    <3>1. CASE serType' = serType
      BY <3>1
    <3>2. CASE serState[m] = "absent" /\ serType' = [serType EXCEPT ![m] = type]
      BY <3>2
    <3> QED BY <2>1, <3>1, <3>2 DEF ConstructSeries, seriesVars
  <2>2. ASSUME NEW type \in ValueTypes, SetAndCheckSeriesType(t, m, type)
        PROVE  \A r \in Series : serType[r] # "none" => serType'[r] = serType[r]
    <3>1. CASE serType' = serType
      BY <3>1
    <3>2. CASE serType[m] \in {"none", type} /\ serType' = [serType EXCEPT ![m] = type]
      BY <3>2
    <3> QED BY <2>2, <3>1, <3>2 DEF SetAndCheckSeriesType
  <2>3. CASE CallEndSeries(t, m)
    BY <2>3 DEF CallEndSeries, EndSeries
  <2> QED BY <1>2, <2>1, <2>2, <2>3 DEF SeriesCall
<1>3. ASSUME NEW t \in Threads, NEW m \in Series, SeriesContinue(t, m) \/ DestroySeries(t, m)
      PROVE  serType' = serType
  BY <1>3 DEF SeriesContinue, EmitSeriesStart, FlushSeriesStart, NumberElement, LockElement,
              AskStep, EmitElement, SeriesEndAsksStep, EmitSeriesEnd, FlushSeriesEnd,
              DestroySeries, EndSeries, seriesVars
<1> QED BY <1>1, <1>2, <1>3 DEF Next

(***************************************************************************)
(* The state of a program with any number of threads, steps and series     *)
(* stays well formed.                                                      *)
(***************************************************************************)
THEOREM ResultsTypeCorrect == Spec => []SeriesTypeOK
<1>1. TypesInv => SeriesTypeOK
  BY DEF TypesInv
<1> QED BY <1>1, InitTypes, NextTypes, PTL DEF Spec

(***************************************************************************)
(* SetAndCheckSeriesType (measurement_series.cc): whatever threads add the *)
(* elements of a series, the output holds elements of one type, the one    *)
(* that the constructor or the first element has given the series and that *)
(* no step changes.                                                        *)
(***************************************************************************)
THEOREM OneType == Spec => OneTypePerSeries
<1>1. TypesInv => \A m \in Series, i \in Places :
                    IsElement(log[i], m) => log[i].type = serType[m]
  BY DEF TypesInv, TypedAsSeries, Logged
<1>2. TypesInv /\ [Next]_resultsVars =>
        [\A m \in Series : serType[m] # "none" => serType'[m] = serType[m]]_serType
  BY TypeFixed
<1> QED BY <1>1, <1>2, InitTypes, NextTypes, PTL DEF Spec, OneTypePerSeries
-----------------------------------------------------------------------------
(***************************************************************************)
(* The bracket of a series rests on that of its step, which the methods of *)
(* series do not touch, on the constructor being one thread's, and on the  *)
(* lock that End keeps from its question about ended_ to the flush.        *)
(***************************************************************************)
ConstructsSeries(t, m) == on[t] = m /\ pc[t] \in {"seriesStart", "seriesStartFlush"}

BeginsSeries(t, m) == on[t] = m /\ pc[t] = "seriesStart"

UsesSeries(t, m) ==
  /\ on[t] = m
  /\ pc[t] \in {"number", "lockElement", "askStep", "emitElement",
                "seriesEndAskStep", "seriesEnd", "seriesEndFlush"}

Locks(t, m) ==
  on[t] = m /\ pc[t] \in {"askStep", "emitElement", "seriesEndAskStep", "seriesEnd",
                          "seriesEndFlush"}

AsksToEnd(t, m) == on[t] = m /\ pc[t] = "seriesEndAskStep"

Ends(t, m) == on[t] = m /\ pc[t] = "seriesEnd"

Unended(m) == \A a \in Logged : ~IsSeriesEnd(a, m)

SeriesOnce(m) ==
  /\ \A t \in Threads : ConstructsSeries(t, m) => serState[m] = "starting"
  /\ \A t, u \in Threads : ConstructsSeries(t, m) /\ ConstructsSeries(u, m) => t = u
  /\ \A t \in Threads : UsesSeries(t, m) => serState[m] \notin {"absent", "starting"}
  /\ serState[m] = "absent" \/ (\E t \in Threads : BeginsSeries(t, m)) =>
       \A a \in Logged : ~OfSeries(a, m)
  /\ serState[m] # "absent" => StepStart(StepOf[m]) \in Logged
  /\ serState[m] # "absent" /\ (\A t \in Threads : ~BeginsSeries(t, m)) =>
       SeriesStart(m) \in Logged

EndsOnce(m) ==
  /\ \A t \in Threads : Locks(t, m) => serLock[m] = t
  /\ \A t \in Threads : AsksToEnd(t, m) => ~serEnded[m]
  /\ \A t \in Threads : Ends(t, m) => serEnded[m] /\ Unended(m)
  /\ ~serEnded[m] => Unended(m)

SeriesInv ==
  /\ TypesInv
  /\ BracketInv
  /\ \A m \in Series : SeriesOnce(m) /\ EndsOnce(m)
  /\ SeriesBracket

OwnArtifact(m) == {a \in SeriesArtifact : OfSeries(a, m)}

\* The artifacts of runs, steps and series are told apart by kind and series.
LEMMA Apart ==
  ASSUME NEW m \in Series
  PROVE  /\ \A a \in RunArtifact : ~OfSeries(a, m)
         /\ \A s \in Steps : \A a \in StepArtifact(s) : ~OfSeries(a, m)
         /\ \A s \in Steps : \A a \in SeriesArtifact : ~OfStep(a, s) /\ ~IsStepEnd(a, s)
         /\ \A a, r : OfSeries(a, m) /\ OfSeries(a, r) => r = m
         /\ \A a : IsSeriesEnd(a, m) => OfSeries(a, m)
         /\ SeriesStart(m) \in OwnArtifact(m) /\ ~IsSeriesEnd(SeriesStart(m), m)
         /\ \A n \in Nat, type \in ValueTypes :
              /\ Element(m, n, type) \in OwnArtifact(m) \ {SeriesStart(m)}
              /\ ~IsSeriesEnd(Element(m, n, type), m)
         /\ \A n \in Nat : SeriesEnd(m, n) \in OwnArtifact(m) \ {SeriesStart(m)}
<1>1. \A a \in RunArtifact : a.kind \in {"SchemaVersion", "RunStart", "RunLog", "RunError", "RunEnd"}
  BY DEF RunArtifact, SchemaVersion, RunStart, RunLog, RunError, RunEnd
<1>2. \A s \in Steps : \A a \in StepArtifact(s) :
        a.kind \in {"StepStart", "Content", "Failure", "StepError", "StepEnd"}
  BY DEF StepArtifact, StepStart, Content, Failure, StepError, StepEnd
<1>3. \A a, r : OfSeries(a, r) => a.series = r /\ a.kind \in {"SeriesStart", "Element", "SeriesEnd"}
  BY DEF OfSeries, SeriesStart, IsElement, IsSeriesEnd
<1>4. \A a \in SeriesArtifact : a.kind \in {"SeriesStart", "Element", "SeriesEnd"}
  BY DEF SeriesArtifact
<1>5. \A s \in Steps : \A a : IsStepEnd(a, s) => OfStep(a, s)
  BY Disjoint
<1>6. /\ SeriesStart(m).kind = "SeriesStart"
      /\ \A n, type : Element(m, n, type).kind = "Element" /\ Element(m, n, type).series = m
      /\ \A n : SeriesEnd(m, n).kind = "SeriesEnd" /\ SeriesEnd(m, n).series = m
  BY DEF SeriesStart, Element, SeriesEnd
<1>7. /\ OfSeries(SeriesStart(m), m)
      /\ \A n, type : OfSeries(Element(m, n, type), m) /\ ~IsSeriesEnd(Element(m, n, type), m)
      /\ \A n : OfSeries(SeriesEnd(m, n), m)
      /\ ~IsSeriesEnd(SeriesStart(m), m)
  BY <1>6 DEF OfSeries, IsElement, IsSeriesEnd
<1>8. \A a : IsSeriesEnd(a, m) => OfSeries(a, m)
  BY DEF OfSeries
<1>9. /\ SeriesStart(m) \in OwnArtifact(m)
      /\ \A n \in Nat, type \in ValueTypes : Element(m, n, type) \in OwnArtifact(m)
      /\ \A n \in Nat : SeriesEnd(m, n) \in OwnArtifact(m)
  BY <1>7, SeriesKinds DEF OwnArtifact
<1>10. /\ \A n, type : Element(m, n, type) # SeriesStart(m)
       /\ \A n : SeriesEnd(m, n) # SeriesStart(m)
  BY <1>6
<1>11. /\ \A a \in RunArtifact : ~OfSeries(a, m)
       /\ \A s \in Steps : \A a \in StepArtifact(s) : ~OfSeries(a, m)
  BY <1>1, <1>2, <1>3
<1>12. \A s \in Steps : \A a \in SeriesArtifact : ~OfStep(a, s) /\ ~IsStepEnd(a, s)
  BY <1>2, <1>4, <1>5 DEF OfStep
<1>13. \A a, r : OfSeries(a, m) /\ OfSeries(a, r) => r = m
  BY <1>3
<1> QED BY <1>7, <1>8, <1>9, <1>10, <1>11, <1>12, <1>13

(***************************************************************************)
(* What one step of thread t, in a method of series m, does: it touches no *)
(* other thread, no other series and no step, and writes at most one       *)
(* artifact, of the run or of m.                                           *)
(***************************************************************************)
MethodEffect(t, m) ==
  /\ StepTypeOK'
  /\ on[t] = m \/ pc[t] = "idle"
  /\ on'[t] \in {m, Nobody}
  /\ \A u \in Threads \ {t} : pc'[u] = pc[u] /\ on'[u] = on[u]
  /\ \A r \in Series \ {m} :
       serState'[r] = serState[r] /\ serEnded'[r] = serEnded[r] /\ serLock'[r] = serLock[r]
  /\ UNCHANGED stepVars
  /\ Writes(RunArtifact \cup OwnArtifact(m))

\* A method that goes on or returns ...
LEMMA GoingEffect ==
  ASSUME TypesInv, NEW t \in Threads, NEW m \in Series,
         on[t] = m \/ pc[t] = "idle",
         NEW l, NEW x \in {m, Nobody}, GotoOn(t, l, x), StepFrame,
         \/ UNCHANGED logVars \/ Log!Sync
         \/ \E a \in OwnArtifact(m) : Log!Put(a),
         \A r \in Series \ {m} :
           serState'[r] = serState[r] /\ serEnded'[r] = serEnded[r] /\ serLock'[r] = serLock[r]
  PROVE  MethodEffect(t, m) /\ pc'[t] = l
<1>1. SeriesEffect(t)
  BY GoesOn DEF OwnArtifact, TypesInv, SeriesTypeOK
<1>2. Writes(RunArtifact \cup OwnArtifact(m))
  BY DEF logVars, Log!Sync, Log!Put, Writes
<1> QED BY <1>1, <1>2
        DEF MethodEffect, SeriesEffect, GotoOn, Goto, TypesInv, SeriesTypeOK, StepTypeOK, RunTypeOK

\* ... or dies.
LEMMA DyingEffect ==
  ASSUME TypesInv, NEW t \in Threads, NEW m \in Series,
         on[t] = m \/ pc[t] = "idle",
         Die(t), on' = [on EXCEPT ![t] = m], UNCHANGED stepVars,
         \A r \in Series \ {m} :
           serState'[r] = serState[r] /\ serEnded'[r] = serEnded[r] /\ serLock'[r] = serLock[r]
  PROVE  MethodEffect(t, m) /\ pc'[t] = "dying" /\ on'[t] = m /\ Writes(RunArtifact)
<1>1. SeriesEffect(t) /\ pc' = [pc EXCEPT ![t] = "dying"] /\ Writes(RunArtifact)
  BY Dies DEF TypesInv, SeriesTypeOK
<1>2. Writes(RunArtifact \cup OwnArtifact(m))
  BY <1>1 DEF Writes
<1> QED BY <1>1, <1>2
        DEF MethodEffect, SeriesEffect, TypesInv, SeriesTypeOK, StepTypeOK, RunTypeOK

\* The step's bracket is not the business of its series.
LEMMA SeriesKeepSteps ==
  ASSUME BracketInv, NEW t \in Threads, NEW m \in Series, MethodEffect(t, m)
  PROVE  BracketInv' /\ Logged \subseteq Logged'
<1>1. StepTypeOK' /\ UNCHANGED <<stepState, stepEnded>>
  BY DEF MethodEffect, stepVars
<1>2. /\ StepBracket' /\ Logged \subseteq Logged'
      /\ \A a \in Logged' \ Logged : \A s \in Steps : ~OfStep(a, s) /\ ~IsStepEnd(a, s)
  <2>1. CASE Writes(RunArtifact)
    BY <2>1, RunsArtifact
  <2>2. ASSUME NEW a \in OwnArtifact(m), log' = Append(log, a)
        PROVE  <1>2!1 /\ <1>2!2
    <3>1. log \in Seq(Artifact) /\ a \in Artifact
      BY SeriesKinds DEF BracketInv, StepTypeOK, RunTypeOK, Log!TypeOK, OwnArtifact
    <3>2. \A s \in Steps : ~OfStep(a, s) /\ ~IsStepEnd(a, s)
      BY Apart DEF OwnArtifact
    <3> QED BY <2>2, <3>1, <3>2, BracketAppend, LoggedAppend DEF BracketInv
  <2> QED BY <2>1, <2>2 DEF MethodEffect, Writes
<1>3. \A u \in Threads, s \in Steps :
        /\ Begins(u, s)' <=> Begins(u, s)
        /\ Constructs(u, s)' <=> Constructs(u, s)
        /\ Uses(u, s)' <=> Uses(u, s)
  BY RunAssumption DEF MethodEffect, Begins, Constructs, Uses
<1> QED BY <1>1, <1>2, <1>3 DEF BracketInv, StepOnce

\* The bracket survives an artifact that comes first of its series exactly if it is the
\* start, that follows no end, and that follows the start of the step.
LEMMA SeriesAppend ==
  ASSUME log \in Seq(Artifact), NEW a, a \in Artifact, log' = Append(log, a),
         SeriesBracket,
         \A m \in Series : OfSeries(a, m) =>
           /\ a = SeriesStart(m) <=> \A b \in Logged : ~OfSeries(b, m)
           /\ Unended(m)
           /\ StepStart(StepOf[m]) \in Logged
  PROVE  SeriesBracket'
<1>1. /\ Len(log) \in Nat /\ Len(log') = Len(log) + 1
      /\ \A i \in 1..Len(log) : log'[i] = log[i]
      /\ log'[Len(log) + 1] = a
  BY AppendProperties
<1>2. SUFFICES ASSUME NEW m \in Series, NEW i \in 1..(Len(log) + 1), OfSeries(log'[i], m)
               PROVE  /\ log'[i] = SeriesStart(m)
                           <=> \A j \in 1..(i - 1) : ~OfSeries(log'[j], m)
                      /\ \A j \in 1..(i - 1) : ~IsSeriesEnd(log'[j], m)
                      /\ \E j \in 1..(i - 1) : log'[j] = StepStart(StepOf[m])
  BY <1>1 DEF SeriesBracket, Places, Before
<1>3. CASE i \in 1..Len(log)
  <2>1. /\ log[i] = SeriesStart(m) <=> \A j \in 1..(i - 1) : ~OfSeries(log[j], m)
        /\ \A j \in 1..(i - 1) : ~IsSeriesEnd(log[j], m)
        /\ \E j \in 1..(i - 1) : log[j] = StepStart(StepOf[m])
    BY <1>1, <1>2, <1>3, SMTT(30) DEF SeriesBracket, Places, Before
  <2> QED BY <1>1, <1>3, <2>1
<1>4. CASE i = Len(log) + 1
  <2>1. /\ a = SeriesStart(m) <=> \A j \in 1..Len(log) : ~OfSeries(log[j], m)
        /\ \A j \in 1..Len(log) : ~IsSeriesEnd(log[j], m)
        /\ \E j \in 1..Len(log) : log[j] = StepStart(StepOf[m])
    BY <1>1, <1>2, <1>4 DEF Logged, Places, Unended
  <2> QED BY <1>1, <1>4, <2>1
<1> QED BY <1>1, <1>3, <1>4

\* Nothing is written, or an artifact that is of no series.
LEMMA NoSeriesArtifact ==
  ASSUME SeriesInv, NEW A, A \subseteq Artifact, Writes(A),
         \A a \in A, m \in Series : ~OfSeries(a, m)
  PROVE  /\ SeriesBracket' /\ Logged \subseteq Logged'
         /\ \A a \in Logged' \ Logged : \A m \in Series : ~OfSeries(a, m) /\ ~IsSeriesEnd(a, m)
<1>1. CASE log' = log
  BY <1>1 DEF SeriesInv, SeriesBracket, Logged, Places, Before
<1>2. ASSUME NEW a \in A, log' = Append(log, a)
      PROVE  /\ SeriesBracket'
             /\ Logged' = Logged \cup {a}
             /\ \A m \in Series : ~OfSeries(a, m) /\ ~IsSeriesEnd(a, m)
  <2>1. log \in Seq(Artifact) /\ a \in Artifact
    BY DEF SeriesInv, BracketInv, StepTypeOK, RunTypeOK, Log!TypeOK
  <2>2. \A m \in Series : ~OfSeries(a, m) /\ ~IsSeriesEnd(a, m)
    BY Apart
  <2> QED BY <1>2, <2>1, <2>2, SeriesAppend, LoggedAppend DEF SeriesInv
<1> QED BY <1>1, <1>2 DEF Writes

\* One of series m.
LEMMA OwnSeriesArtifact ==
  ASSUME SeriesInv, NEW m \in Series, NEW a \in OwnArtifact(m), log' = Append(log, a),
         a = SeriesStart(m) <=> \A b \in Logged : ~OfSeries(b, m),
         Unended(m), StepStart(StepOf[m]) \in Logged
  PROVE  SeriesBracket' /\ Logged' = Logged \cup {a}
<1>1. log \in Seq(Artifact) /\ a \in Artifact
  BY SeriesKinds
     DEF SeriesInv, BracketInv, StepTypeOK, RunTypeOK, Log!TypeOK, OwnArtifact
<1>2. \A r \in Series : OfSeries(a, r) => r = m
  BY Apart DEF OwnArtifact
<1> QED BY <1>1, <1>2, SeriesAppend, LoggedAppend DEF SeriesInv

\* A step of the program that changes no series but perhaps m: the others stay as they are.
LEMMA SeriesOnceKept ==
  ASSUME SeriesInv, NEW r \in Series,
         Logged \subseteq Logged',
         \A a \in Logged' \ Logged : ~OfSeries(a, r) /\ ~IsSeriesEnd(a, r),
         \A u \in Threads : /\ ConstructsSeries(u, r)' <=> ConstructsSeries(u, r)
                            /\ BeginsSeries(u, r)' <=> BeginsSeries(u, r)
                            /\ UsesSeries(u, r)' <=> UsesSeries(u, r)
                            /\ Locks(u, r)' <=> Locks(u, r)
                            /\ AsksToEnd(u, r)' <=> AsksToEnd(u, r)
                            /\ Ends(u, r)' <=> Ends(u, r),
         serState'[r] = serState[r], serEnded'[r] = serEnded[r], serLock'[r] = serLock[r]
  PROVE  SeriesOnce(r)' /\ EndsOnce(r)'
BY DEF SeriesInv, SeriesOnce, EndsOnce, Unended

\* The methods of the run and its steps.
LEMMA StepsKeepSeries ==
  ASSUME SeriesInv, StepStep
  PROVE  SeriesInv'
<1>1. /\ StepTypeOK /\ [StepsNext]_stepsVars
      /\ UNCHANGED <<serState, serEnded, serLock>>
      /\ TypesInv' /\ BracketInv'
  <2>1. [StepsNext]_stepsVars /\ UNCHANGED seriesVars
    BY DEF StepStep, StepsNext
  <2> QED BY <2>1, StepsKeepTypes, NextBracket DEF SeriesInv, BracketInv, seriesVars
<1>2. ASSUME NEW t \in Threads, RunEffect(t), UNCHANGED <<on, stepVars>>
      PROVE  SeriesInv'
  <2>1. /\ SeriesBracket' /\ Logged \subseteq Logged'
        /\ \A a \in Logged' \ Logged : \A m \in Series : ~OfSeries(a, m) /\ ~IsSeriesEnd(a, m)
    BY <1>2, Kinds, Apart, NoSeriesArtifact DEF RunEffect
  <2>2. \A u \in Threads, r \in Series :
          /\ ConstructsSeries(u, r)' <=> ConstructsSeries(u, r)
          /\ BeginsSeries(u, r)' <=> BeginsSeries(u, r)
          /\ UsesSeries(u, r)' <=> UsesSeries(u, r)
          /\ Locks(u, r)' <=> Locks(u, r)
          /\ AsksToEnd(u, r)' <=> AsksToEnd(u, r)
          /\ Ends(u, r)' <=> Ends(u, r)
    BY <1>1, <1>2 DEF RunEffect, RunLabel, ConstructsSeries, BeginsSeries, UsesSeries, Locks,
                AsksToEnd, Ends, StepTypeOK, RunTypeOK
  <2> QED BY <1>1, <2>1, <2>2, SeriesOnceKept DEF SeriesInv
<1>3. ASSUME NEW t \in Threads, NEW s \in Steps, StepEffect(t, s)
      PROVE  SeriesInv'
  <2>1. /\ SeriesBracket' /\ Logged \subseteq Logged'
        /\ \A a \in Logged' \ Logged : \A m \in Series : ~OfSeries(a, m) /\ ~IsSeriesEnd(a, m)
    <3>1. /\ Writes(RunArtifact \cup StepArtifact(s))
          /\ RunArtifact \cup StepArtifact(s) \subseteq Artifact
      BY <1>3, Kinds DEF StepEffect
    <3> QED BY <3>1, Apart, NoSeriesArtifact
  <2>2. \A u \in Threads, r \in Series :
          /\ ConstructsSeries(u, r)' <=> ConstructsSeries(u, r)
          /\ BeginsSeries(u, r)' <=> BeginsSeries(u, r)
          /\ UsesSeries(u, r)' <=> UsesSeries(u, r)
          /\ Locks(u, r)' <=> Locks(u, r)
          /\ AsksToEnd(u, r)' <=> AsksToEnd(u, r)
          /\ Ends(u, r)' <=> Ends(u, r)
    BY <1>3, RunAssumption
       DEF StepEffect, ConstructsSeries, BeginsSeries, UsesSeries, Locks, AsksToEnd, Ends
  <2> QED BY <1>1, <2>1, <2>2, SeriesOnceKept DEF SeriesInv
<1>4. CASE UNCHANGED stepsVars
  <2>1. UNCHANGED <<log, pc, on>>
    BY <1>4 DEF stepsVars, runVars, logVars
  <2>2. SeriesBracket' /\ Logged' = Logged
    BY <2>1 DEF SeriesInv, SeriesBracket, Logged, Places, Before
  <2> QED BY <1>1, <2>1, <2>2, SeriesOnceKept
          DEF SeriesInv, ConstructsSeries, BeginsSeries, UsesSeries, Locks, AsksToEnd, Ends
<1> QED BY <1>1, <1>2, <1>3, <1>4, StepCases

\* A method of series m leaves the other series alone.
LEMMA OtherSeries ==
  ASSUME SeriesInv, NEW t \in Threads, NEW m \in Series, NEW r \in Series \ {m},
         MethodEffect(t, m)
  PROVE  SeriesOnce(r)' /\ EndsOnce(r)'
<1>1. /\ Logged \subseteq Logged'
      /\ \A a \in Logged' \ Logged : ~OfSeries(a, r) /\ ~IsSeriesEnd(a, r)
  <2>1. CASE log' = log
    BY <2>1 DEF Logged, Places
  <2>2. ASSUME NEW a \in RunArtifact \cup OwnArtifact(m), log' = Append(log, a)
        PROVE  Logged' = Logged \cup {a} /\ ~OfSeries(a, r) /\ ~IsSeriesEnd(a, r)
    <3>1. log \in Seq(Artifact) /\ a \in Artifact
      BY Kinds, SeriesKinds
         DEF SeriesInv, BracketInv, StepTypeOK, RunTypeOK, Log!TypeOK, OwnArtifact
    <3>2. ~OfSeries(a, r) /\ ~IsSeriesEnd(a, r)
      BY Apart DEF OwnArtifact
    <3> QED BY <2>2, <3>1, <3>2, LoggedAppend
  <2> QED BY <2>1, <2>2 DEF MethodEffect, Writes
<1>2. \A u \in Threads :
        /\ ConstructsSeries(u, r)' <=> ConstructsSeries(u, r)
        /\ BeginsSeries(u, r)' <=> BeginsSeries(u, r)
        /\ UsesSeries(u, r)' <=> UsesSeries(u, r)
        /\ Locks(u, r)' <=> Locks(u, r)
        /\ AsksToEnd(u, r)' <=> AsksToEnd(u, r)
        /\ Ends(u, r)' <=> Ends(u, r)
  BY RunAssumption
     DEF MethodEffect, ConstructsSeries, BeginsSeries, UsesSeries, Locks, AsksToEnd, Ends
<1>3. serState'[r] = serState[r] /\ serEnded'[r] = serEnded[r] /\ serLock'[r] = serLock[r]
  BY DEF MethodEffect
<1> QED BY <1>1, <1>2, <1>3, SeriesOnceKept

\* A series in use keeps its bracket: its methods write while it is not ended.
LEMMA UsedSeries ==
  ASSUME SeriesInv, NEW t \in Threads, NEW m \in Series, MethodEffect(t, m),
         serState[m] \notin {"absent", "starting"},
         serState'[m] \notin {"absent", "starting"},
         pc'[t] \notin {"seriesStart", "seriesStartFlush"},
         \/ Writes(RunArtifact)
         \/ Unended(m) /\ \E a \in OwnArtifact(m) \ {SeriesStart(m)} : log' = Append(log, a)
  PROVE  SeriesBracket' /\ SeriesOnce(m)'
<1>1. \A u \in Threads : ~ConstructsSeries(u, m) /\ ~BeginsSeries(u, m)
  BY DEF SeriesInv, SeriesOnce, ConstructsSeries, BeginsSeries
<1>2. \A u \in Threads : ~ConstructsSeries(u, m)' /\ ~BeginsSeries(u, m)'
  BY <1>1 DEF MethodEffect, ConstructsSeries, BeginsSeries
<1>3. SeriesStart(m) \in Logged /\ StepStart(StepOf[m]) \in Logged
  BY <1>1 DEF SeriesInv, SeriesOnce
<1>4. SeriesBracket' /\ Logged \subseteq Logged'
  <2>1. CASE Writes(RunArtifact)
    BY <2>1, Kinds, Apart, NoSeriesArtifact
  <2>2. ASSUME Unended(m), NEW a \in OwnArtifact(m) \ {SeriesStart(m)}, log' = Append(log, a)
        PROVE  SeriesBracket' /\ Logged' = Logged \cup {a}
    <3>1. OfSeries(SeriesStart(m), m)
      BY DEF OfSeries
    <3> QED BY <1>3, <2>2, <3>1, OwnSeriesArtifact
  <2> QED BY <2>1, <2>2
<1> QED BY <1>2, <1>3, <1>4 DEF SeriesOnce

\* So does its end: the lock is with who asks for it.
LEMMA EndKept ==
  ASSUME SeriesInv, NEW t \in Threads, NEW m \in Series, MethodEffect(t, m),
         serEnded'[m] = serEnded[m],
         pc'[t] \notin {"seriesEndAskStep", "seriesEnd"},
         Locks(t, m)' => serLock'[m] = t,
         serLock'[m] = serLock[m] \/ serLock[m] \in {t, Nobody},
         \/ Writes(RunArtifact)
         \/ \E a \in OwnArtifact(m) : log' = Append(log, a) /\ ~IsSeriesEnd(a, m)
  PROVE  EndsOnce(m)'
<1>1. Unended(m) => Unended(m)'
  <2>1. CASE Writes(RunArtifact)
    BY <2>1, Kinds, Apart, NoSeriesArtifact DEF Unended
  <2>2. ASSUME NEW a \in OwnArtifact(m), log' = Append(log, a), ~IsSeriesEnd(a, m)
        PROVE  Unended(m) => Unended(m)'
    <3>1. log \in Seq(Artifact) /\ a \in Artifact
      BY SeriesKinds
         DEF SeriesInv, BracketInv, StepTypeOK, RunTypeOK, Log!TypeOK, OwnArtifact
    <3> QED BY <2>2, <3>1, LoggedAppend DEF Unended
  <2> QED BY <2>1, <2>2
<1>2. /\ ~AsksToEnd(t, m)' /\ ~Ends(t, m)'
      /\ \A u \in Threads \ {t} :
           /\ Locks(u, m)' <=> Locks(u, m)
           /\ AsksToEnd(u, m)' <=> AsksToEnd(u, m)
           /\ Ends(u, m)' <=> Ends(u, m)
  BY DEF MethodEffect, Locks, AsksToEnd, Ends
<1>3. \A u \in Threads \ {t} : Locks(u, m) => serLock'[m] = u
  BY RunAssumption DEF SeriesInv, EndsOnce
<1> QED BY <1>1, <1>2, <1>3 DEF SeriesInv, EndsOnce

\* What the step of a method has to be shown to do.
Keeps(t, m) == MethodEffect(t, m) /\ SeriesBracket' /\ SeriesOnce(m)' /\ EndsOnce(m)'

\* A CHECK fails in a method of a series that is not being constructed.
LEMMA DyingKeeps ==
  ASSUME SeriesInv, NEW t \in Threads, NEW m \in Series,
         pc[t] = "idle" \/ UsesSeries(t, m),
         Die(t), on' = [on EXCEPT ![t] = m], UNCHANGED stepVars,
         UNCHANGED <<serState, serEnded>>,
         \A r \in Series \ {m} : serLock'[r] = serLock[r],
         serLock'[m] = serLock[m] \/ serLock[m] = Nobody
  PROVE  Keeps(t, m)
<1>1. /\ MethodEffect(t, m) /\ pc'[t] = "dying" /\ Writes(RunArtifact)
  BY DyingEffect DEF SeriesInv, UsesSeries
<1>2. EndsOnce(m)'
  BY <1>1, EndKept DEF Locks
<1>3. CASE serState[m] \notin {"absent", "starting"}
  BY <1>1, <1>2, <1>3, UsedSeries DEF Keeps
<1>4. CASE serState[m] \in {"absent", "starting"}
  <2>1. ~UsesSeries(t, m) /\ ~ConstructsSeries(t, m) /\ ~BeginsSeries(t, m)
    BY <1>4 DEF SeriesInv, SeriesOnce, ConstructsSeries, BeginsSeries
  <2>2. \A u \in Threads : /\ ConstructsSeries(u, m)' <=> ConstructsSeries(u, m)
                           /\ BeginsSeries(u, m)' <=> BeginsSeries(u, m)
                           /\ UsesSeries(u, m)' <=> UsesSeries(u, m)
    BY <1>1, <2>1 DEF MethodEffect, ConstructsSeries, BeginsSeries, UsesSeries
  <2>3. /\ SeriesBracket' /\ Logged \subseteq Logged'
        /\ \A a \in Logged' \ Logged : ~OfSeries(a, m)
    BY <1>1, Kinds, Apart, NoSeriesArtifact
  <2> QED BY <1>1, <1>2, <2>2, <2>3 DEF Keeps, SeriesInv, SeriesOnce
<1> QED BY <1>3, <1>4

\* The constructor: the series begins to exist, of a step whose start is logged.
LEMMA ConstructKeeps ==
  ASSUME SeriesInv, NEW t \in Threads, NEW m \in Series, NEW type \in Types,
         ConstructSeries(t, m, type)
  PROVE  Keeps(t, m)
<1>1. pc[t] = "idle" /\ serState[m] = "absent" /\ stepState[StepOf[m]] = "live"
  BY DEF ConstructSeries, CallsStep, Calls, At
<1>2. CASE stepEnded[StepOf[m]]
  BY <1>1, <1>2, DyingKeeps DEF ConstructSeries, DieOn, seriesVars
<1>3. CASE ~stepEnded[StepOf[m]]
  <2>1. /\ serState' = [serState EXCEPT ![m] = "starting"]
        /\ GotoOn(t, "seriesStart", m) /\ StepFrame
        /\ UNCHANGED logVars /\ UNCHANGED <<serEnded, serLock>>
    BY <1>3 DEF ConstructSeries, logVars
  <2>2. MethodEffect(t, m) /\ pc'[t] = "seriesStart"
    BY <1>1, <2>1, GoingEffect DEF SeriesInv, TypesInv, SeriesTypeOK
  <2>3. on'[t] = m /\ serState'[m] = "starting"
    BY <2>1 DEF GotoOn, SeriesInv, TypesInv, SeriesTypeOK, StepTypeOK
  <2>4. Logged' = Logged /\ SeriesBracket' /\ Writes(RunArtifact)
    BY <2>1 DEF logVars, Logged, Places, Before, SeriesInv, SeriesBracket, Writes
  <2>5. EndsOnce(m)'
    BY <2>1, <2>2, <2>4, EndKept DEF Locks
  <2>6. StepStart(StepOf[m]) \in Logged
    <3>1. StepOf[m] \in Steps
      BY ArtifactsAssumption
    <3>2. \A u \in Threads : ~Begins(u, StepOf[m])
      BY <1>1, <3>1 DEF SeriesInv, BracketInv, StepOnce, Begins, Constructs
    <3> QED BY <1>1, <3>1, <3>2 DEF SeriesInv, BracketInv, StepOnce
  <2>7. /\ \A a \in Logged : ~OfSeries(a, m)
        /\ \A u \in Threads : ~ConstructsSeries(u, m) /\ ~UsesSeries(u, m)
    BY <1>1 DEF SeriesInv, SeriesOnce
  <2>8. /\ ConstructsSeries(t, m)' /\ BeginsSeries(t, m)'
        /\ \A u \in Threads : ~UsesSeries(u, m)'
        /\ \A u \in Threads : ConstructsSeries(u, m)' => u = t
    BY <2>2, <2>3, <2>7 DEF MethodEffect, ConstructsSeries, BeginsSeries, UsesSeries
  <2>9. SeriesOnce(m)'
    BY <2>3, <2>4, <2>6, <2>7, <2>8 DEF SeriesOnce
  <2> QED BY <2>2, <2>4, <2>5, <2>9 DEF Keeps
<1> QED BY <1>2, <1>3

\* ... its start is written, by the one thread that constructs it ...
LEMMA EmitStartKeeps ==
  ASSUME SeriesInv, NEW t \in Threads, NEW m \in Series, EmitSeriesStart(t, m)
  PROVE  Keeps(t, m)
<1>1. /\ on[t] = m /\ pc[t] = "seriesStart"
      /\ Log!Put(SeriesStart(m)) /\ GotoOn(t, "seriesStartFlush", m) /\ StepFrame
      /\ UNCHANGED <<serState, serEnded, serLock>>
  BY DEF EmitSeriesStart, AtSeries, At, seriesVars
<1>2. SeriesStart(m) \in OwnArtifact(m) /\ ~IsSeriesEnd(SeriesStart(m), m)
  BY Apart
<1>3. MethodEffect(t, m) /\ pc'[t] = "seriesStartFlush"
  BY <1>1, <1>2, GoingEffect DEF SeriesInv
<1>4. on'[t] = m /\ log' = Append(log, SeriesStart(m))
  BY <1>1 DEF GotoOn, Log!Put, SeriesInv, TypesInv, SeriesTypeOK, StepTypeOK
<1>5. EndsOnce(m)'
  BY <1>1, <1>2, <1>3, <1>4, EndKept DEF Locks
<1>6. /\ ConstructsSeries(t, m) /\ BeginsSeries(t, m)
      /\ serState[m] = "starting"
      /\ \A a \in Logged : ~OfSeries(a, m)
      /\ StepStart(StepOf[m]) \in Logged
      /\ \A u \in Threads : ConstructsSeries(u, m) => u = t
      /\ \A u \in Threads : ~UsesSeries(u, m)
  <2>1. ConstructsSeries(t, m) /\ BeginsSeries(t, m)
    BY <1>1 DEF ConstructsSeries, BeginsSeries
  <2> QED BY <2>1 DEF SeriesInv, SeriesOnce
<1>7. SeriesBracket' /\ Logged' = Logged \cup {SeriesStart(m)}
  BY <1>2, <1>4, <1>6, Apart, OwnSeriesArtifact DEF Unended
<1>8. /\ \A u \in Threads : ConstructsSeries(u, m)' => u = t
      /\ \A u \in Threads : ~UsesSeries(u, m)' /\ ~BeginsSeries(u, m)'
  BY <1>3, <1>6 DEF MethodEffect, ConstructsSeries, BeginsSeries, UsesSeries
<1>9. SeriesOnce(m)'
  BY <1>1, <1>6, <1>7, <1>8 DEF SeriesOnce
<1> QED BY <1>3, <1>5, <1>7, <1>9 DEF Keeps

\* ... and the series is in use.
LEMMA FlushStartKeeps ==
  ASSUME SeriesInv, NEW t \in Threads, NEW m \in Series, FlushSeriesStart(t, m)
  PROVE  Keeps(t, m)
<1>1. /\ on[t] = m /\ pc[t] = "seriesStartFlush"
      /\ Log!Sync /\ Return(t) /\ StepFrame
      /\ serState' = [serState EXCEPT ![m] = "live"]
      /\ UNCHANGED <<serEnded, serLock>>
  BY DEF FlushSeriesStart, AtSeries, At
<1>2. MethodEffect(t, m) /\ pc'[t] = "idle" /\ serState'[m] = "live"
  BY <1>1, GoingEffect DEF Return, SeriesInv, TypesInv, SeriesTypeOK
<1>3. log' = log /\ Logged' = Logged /\ SeriesBracket' /\ Writes(RunArtifact)
  <2>1. log' = log
    BY <1>1 DEF Log!Sync
  <2> QED BY <2>1 DEF Logged, Places, Before, SeriesInv, SeriesBracket, Writes
<1>4. EndsOnce(m)'
  BY <1>1, <1>2, <1>3, EndKept DEF Locks
<1>5. /\ serState[m] = "starting"
      /\ \A u \in Threads : ConstructsSeries(u, m) => u = t
      /\ \A u \in Threads : ~BeginsSeries(u, m)
  <2>1. ConstructsSeries(t, m) /\ ~BeginsSeries(t, m)
    BY <1>1 DEF ConstructsSeries, BeginsSeries
  <2> QED BY <2>1 DEF SeriesInv, SeriesOnce, BeginsSeries, ConstructsSeries
<1>6. SeriesStart(m) \in Logged /\ StepStart(StepOf[m]) \in Logged
  BY <1>5 DEF SeriesInv, SeriesOnce
<1>7. \A u \in Threads : ~ConstructsSeries(u, m)' /\ ~BeginsSeries(u, m)'
  BY <1>2, <1>5 DEF MethodEffect, ConstructsSeries, BeginsSeries
<1>8. SeriesOnce(m)'
  BY <1>2, <1>3, <1>6, <1>7 DEF SeriesOnce
<1> QED BY <1>2, <1>3, <1>4, <1>8 DEF Keeps

\* A method that goes on or returns, of a series in use that it does not end here.
LEMMA GoingKeeps ==
  ASSUME SeriesInv, NEW t \in Threads, NEW m \in Series,
         serState[m] \notin {"absent", "starting"},
         on[t] = m \/ pc[t] = "idle",
         NEW l \in {"idle", "number", "lockElement", "askStep", "emitElement"},
         NEW x \in {m, Nobody}, GotoOn(t, l, x), StepFrame,
         \/ UNCHANGED logVars \/ Log!Sync
         \/ Unended(m) /\ \E a \in OwnArtifact(m) \ {SeriesStart(m)} :
                            Log!Put(a) /\ ~IsSeriesEnd(a, m),
         l \in {"askStep", "emitElement"} => serLock'[m] = t,
         serState'[m] \notin {"absent", "starting"},
         \A r \in Series \ {m} : serState'[r] = serState[r] /\ serLock'[r] = serLock[r],
         serEnded' = serEnded,
         serLock'[m] = serLock[m] \/ serLock[m] \in {t, Nobody}
  PROVE  Keeps(t, m)
<1>1. MethodEffect(t, m) /\ pc'[t] = l
  BY GoingEffect DEF SeriesInv
<1>2. \/ Writes(RunArtifact)
      \/ Unended(m) /\ \E a \in OwnArtifact(m) \ {SeriesStart(m)} :
                         log' = Append(log, a) /\ ~IsSeriesEnd(a, m)
  BY DEF logVars, Log!Sync, Log!Put, Writes
<1>3. SeriesBracket' /\ SeriesOnce(m)'
  BY <1>1, <1>2, UsedSeries
<1>4. EndsOnce(m)'
  BY <1>1, <1>2, EndKept DEF Locks
<1> QED BY <1>1, <1>3, <1>4 DEF Keeps

\* AddElement.
LEMMA AddElementKeeps ==
  ASSUME SeriesInv, NEW t \in Threads, NEW m \in Series,
         \/ \E type \in ValueTypes : SetAndCheckSeriesType(t, m, type)
         \/ NumberElement(t, m) \/ LockElement(t, m) \/ AskStep(t, m) \/ EmitElement(t, m)
  PROVE  Keeps(t, m)
<1> USE DEF AtSeries, At
<1>1. ASSUME on[t] = m,
             pc[t] \in {"number", "lockElement", "askStep", "emitElement"}
      PROVE  UsesSeries(t, m) /\ serState[m] \notin {"absent", "starting"}
  BY <1>1 DEF UsesSeries, SeriesInv, SeriesOnce
<1>2. ASSUME on[t] = m, pc[t] \in {"askStep", "emitElement"}
      PROVE  serLock[m] = t
  BY <1>2 DEF Locks, SeriesInv, EndsOnce
<1>3. serLock \in [Series -> Threads \cup {Nobody}]
  BY DEF SeriesInv, TypesInv, SeriesTypeOK
<1>4. ASSUME NEW type \in ValueTypes, SetAndCheckSeriesType(t, m, type)
      PROVE  Keeps(t, m)
  <2>1. pc[t] = "idle" /\ serState[m] = "live" /\ serLock[m] = Nobody
    BY <1>4 DEF SetAndCheckSeriesType, CallsSeries, Calls
  <2>2. CASE serType[m] \notin {"none", type}
    BY <1>3, <1>4, <2>1, <2>2, DyingKeeps DEF SetAndCheckSeriesType
  <2>3. CASE serType[m] \in {"none", type}
    BY <1>4, <2>1, <2>3, GoingKeeps DEF SetAndCheckSeriesType, logVars
  <2> QED BY <2>2, <2>3
<1>5. CASE NumberElement(t, m)
  BY <1>1, <1>5, GoingKeeps DEF NumberElement, logVars
<1>6. CASE LockElement(t, m)
  BY <1>1, <1>3, <1>6, GoingKeeps DEF LockElement, logVars
<1>7. CASE AskStep(t, m)
  <2>1. CASE stepEnded[StepOf[m]]
    BY <1>1, <1>7, <2>1, DyingKeeps DEF AskStep, DieOn, seriesVars
  <2>2. CASE ~stepEnded[StepOf[m]]
    BY <1>1, <1>2, <1>7, <2>2, GoingKeeps DEF AskStep, seriesVars
  <2> QED BY <2>1, <2>2
<1>8. CASE EmitElement(t, m)
  <2>1. CASE serEnded[m]
    BY <1>1, <1>8, <2>1, DyingKeeps DEF EmitElement, DieOn, seriesVars
  <2>2. CASE ~serEnded[m]
    <3>1. Unended(m)
      BY <2>2 DEF SeriesInv, EndsOnce
    <3> DEFINE a == Element(m, adding[t].index, adding[t].type)
    <3>2. a \in OwnArtifact(m) \ {SeriesStart(m)} /\ ~IsSeriesEnd(a, m)
      <4>1. InAddElement(t, m)
        BY <1>8 DEF EmitElement, InAddElement
      <4>2. adding[t].index \in Nat /\ adding[t].type \in ValueTypes
        BY <4>1 DEF SeriesInv, TypesInv, SeriesTypeOK, TypedAsSeries, Types
      <4> QED BY <4>2, Apart
    <3>3. /\ on[t] = m /\ pc[t] = "emitElement" /\ Log!Put(a)
          /\ GotoOn(t, "idle", Nobody) /\ StepFrame
          /\ serLock' = [serLock EXCEPT ![m] = Nobody]
          /\ UNCHANGED <<serState, serEnded>>
      BY <1>8, <2>2 DEF EmitElement, Return
    <3> HIDE DEF a
    <3> QED BY <1>1, <1>2, <3>1, <3>2, <3>3, GoingKeeps
  <2> QED BY <2>1, <2>2
<1> QED BY <1>4, <1>5, <1>6, <1>7, <1>8

\* End and the destructor: the lock is taken unless the series has ended.
LEMMA EndKeeps ==
  ASSUME SeriesInv, NEW t \in Threads, NEW m \in Series, NEW then \in {"live", "destroying"},
         CallsSeries(t, m), EndSeries(t, m, then)
  PROVE  Keeps(t, m)
<1>1. pc[t] = "idle" /\ serState[m] = "live" /\ serLock[m] = Nobody
  BY DEF CallsSeries, Calls, At, EndSeries
<1>2. /\ serState \in [Series -> {"absent", "starting", "live", "destroying", "destroyed"}]
      /\ serLock \in [Series -> Threads \cup {Nobody}]
  BY DEF SeriesInv, TypesInv, SeriesTypeOK
<1>3. CASE serEnded[m]
  BY <1>1, <1>2, <1>3, GoingKeeps DEF EndSeries, Return, logVars
<1>4. CASE ~serEnded[m]
  <2>1. /\ serState' = [serState EXCEPT ![m] = then]
        /\ serLock' = [serLock EXCEPT ![m] = t]
        /\ GotoOn(t, "seriesEndAskStep", m) /\ StepFrame
        /\ UNCHANGED serEnded /\ UNCHANGED logVars
    BY <1>4 DEF EndSeries, logVars
  <2>2. MethodEffect(t, m) /\ pc'[t] = "seriesEndAskStep"
    BY <1>1, <2>1, GoingEffect DEF SeriesInv, TypesInv, SeriesTypeOK
  <2>3. SeriesBracket' /\ SeriesOnce(m)'
    BY <1>1, <1>2, <2>1, <2>2, UsedSeries DEF logVars, Writes
  <2>4. \A u \in Threads : ~Locks(u, m) /\ ~AsksToEnd(u, m) /\ ~Ends(u, m)
    <3>1. \A u \in Threads : ~Locks(u, m)
      BY <1>1, RunAssumption DEF SeriesInv, EndsOnce
    <3> QED BY <3>1 DEF Locks, AsksToEnd, Ends
  <2>5. /\ \A u \in Threads : Locks(u, m)' => u = t
        /\ \A u \in Threads : ~Ends(u, m)'
    BY <2>2, <2>4 DEF MethodEffect, Locks, Ends
  <2>6. serLock'[m] = t /\ ~serEnded'[m] /\ Logged' = Logged /\ Unended(m)
    BY <1>2, <1>4, <2>1 DEF logVars, Logged, Places, SeriesInv, EndsOnce
  <2>7. EndsOnce(m)'
    BY <2>5, <2>6 DEF EndsOnce, Unended
  <2> QED BY <2>2, <2>3, <2>7 DEF Keeps
<1> QED BY <1>3, <1>4

\* What goes on in them: ended_ is set, the end is written, the lock is given up.
LEMMA EndingKeeps ==
  ASSUME SeriesInv, NEW t \in Threads, NEW m \in Series,
         SeriesEndAsksStep(t, m) \/ EmitSeriesEnd(t, m) \/ FlushSeriesEnd(t, m)
  PROVE  Keeps(t, m)
<1>1. /\ on[t] = m /\ pc[t] \in {"seriesEndAskStep", "seriesEnd", "seriesEndFlush"}
  BY DEF SeriesEndAsksStep, EmitSeriesEnd, FlushSeriesEnd, AtSeries, At
<1>2. /\ UsesSeries(t, m) /\ Locks(t, m)
      /\ serState[m] \notin {"absent", "starting"} /\ serLock[m] = t
      /\ \A u \in Threads : Locks(u, m) => u = t
  <2>1. UsesSeries(t, m) /\ Locks(t, m)
    BY <1>1 DEF UsesSeries, Locks
  <2> QED BY <2>1 DEF SeriesInv, SeriesOnce, EndsOnce
<1>3. /\ serState \in [Series -> {"absent", "starting", "live", "destroying", "destroyed"}]
      /\ serLock \in [Series -> Threads \cup {Nobody}]
      /\ serEnded \in [Series -> BOOLEAN]
      /\ serCount \in [Series -> Nat]
  BY DEF SeriesInv, TypesInv, SeriesTypeOK
<1>4. ASSUME MethodEffect(t, m)
      PROVE  \A u \in Threads \ {t} : ~Locks(u, m)' /\ ~AsksToEnd(u, m)' /\ ~Ends(u, m)'
  BY <1>2, <1>4 DEF MethodEffect, Locks, AsksToEnd, Ends
<1>5. CASE SeriesEndAsksStep(t, m)
  <2>1. /\ pc[t] = "seriesEndAskStep"
        /\ serEnded' = [serEnded EXCEPT ![m] = TRUE]
        /\ GotoOn(t, "seriesEnd", m) /\ StepFrame
        /\ UNCHANGED <<serState, serLock>> /\ UNCHANGED logVars
    BY <1>5 DEF SeriesEndAsksStep, AtSeries, At, logVars
  <2>2. MethodEffect(t, m) /\ pc'[t] = "seriesEnd"
    <3>1. \A r \in Series \ {m} :
            serState'[r] = serState[r] /\ serEnded'[r] = serEnded[r] /\ serLock'[r] = serLock[r]
      BY <1>3, <2>1
    <3>2. TypesInv /\ m \in {m, Nobody}
      BY DEF SeriesInv
    <3> QED BY <1>1, <2>1, <3>1, <3>2, GoingEffect
  <2>3. SeriesBracket' /\ SeriesOnce(m)'
    BY <1>2, <2>1, <2>2, UsedSeries DEF logVars, Writes
  <2>4. Unended(m)
    <3>1. AsksToEnd(t, m)
      BY <1>1, <2>1 DEF AsksToEnd
    <3> QED BY <3>1 DEF SeriesInv, EndsOnce
  <2>5. Logged' = Logged /\ serEnded'[m] /\ serLock'[m] = t /\ ~AsksToEnd(t, m)'
    BY <1>2, <1>3, <2>1, <2>2 DEF logVars, Logged, Places, AsksToEnd
  <2>6. EndsOnce(m)'
    BY <1>4, <2>2, <2>4, <2>5 DEF EndsOnce, Unended
  <2> QED BY <2>2, <2>3, <2>6 DEF Keeps
<1>6. CASE EmitSeriesEnd(t, m)
  <2>1. /\ pc[t] = "seriesEnd"
        /\ Log!Put(SeriesEnd(m, serCount[m]))
        /\ GotoOn(t, "seriesEndFlush", m) /\ StepFrame
        /\ UNCHANGED <<serState, serLock, serEnded>>
    BY <1>6 DEF EmitSeriesEnd, AtSeries, At
  <2>2. SeriesEnd(m, serCount[m]) \in OwnArtifact(m) \ {SeriesStart(m)}
    BY <1>3, Apart
  <2>3. MethodEffect(t, m) /\ pc'[t] = "seriesEndFlush"
    BY <1>1, <2>1, <2>2, GoingEffect DEF SeriesInv
  <2>4. Unended(m) /\ serEnded[m]
    <3>1. Ends(t, m)
      BY <1>1, <2>1 DEF Ends
    <3> QED BY <3>1 DEF SeriesInv, EndsOnce
  <2>5. SeriesBracket' /\ SeriesOnce(m)'
    BY <1>2, <2>1, <2>2, <2>3, <2>4, UsedSeries DEF Log!Put
  <2>6. serEnded'[m] /\ serLock'[m] = t /\ ~AsksToEnd(t, m)' /\ ~Ends(t, m)'
    BY <1>2, <2>1, <2>3, <2>4 DEF AsksToEnd, Ends
  <2>7. EndsOnce(m)'
    BY <1>4, <2>3, <2>6 DEF EndsOnce
  <2> QED BY <2>3, <2>5, <2>7 DEF Keeps
<1>7. CASE FlushSeriesEnd(t, m)
  BY <1>1, <1>2, <1>3, <1>7, GoingKeeps DEF FlushSeriesEnd, Return
<1> QED BY <1>5, <1>6, <1>7

\* Every method of a series does.
LEMMA MethodKeeps ==
  ASSUME SeriesInv, NEW t \in Threads, NEW m \in Series,
         SeriesCall(t, m) \/ SeriesContinue(t, m) \/ DestroySeries(t, m)
  PROVE  Keeps(t, m)
<1>1. CASE SeriesCall(t, m)
  BY <1>1, ConstructKeeps, AddElementKeeps, EndKeeps DEF SeriesCall, CallEndSeries
<1>2. CASE SeriesContinue(t, m)
  BY <1>2, EmitStartKeeps, FlushStartKeeps, AddElementKeeps, EndingKeeps DEF SeriesContinue
<1>3. CASE DestroySeries(t, m)
  BY <1>3, EndKeeps DEF DestroySeries
<1> QED BY <1>1, <1>2, <1>3

\* SeriesInv is inductive.
LEMMA NextSeries == SeriesInv /\ [Next]_resultsVars => SeriesInv'
<1> SUFFICES ASSUME SeriesInv, [Next]_resultsVars PROVE SeriesInv'
  OBVIOUS
<1>1. TypesInv'
  BY NextTypes DEF SeriesInv
<1>2. CASE StepStep
  BY <1>2, StepsKeepSeries
<1>3. ASSUME NEW t \in Threads, NEW m \in Series,
             SeriesCall(t, m) \/ SeriesContinue(t, m) \/ DestroySeries(t, m)
      PROVE  SeriesInv'
  <2>1. Keeps(t, m)
    BY <1>3, MethodKeeps
  <2>2. BracketInv'
    BY <2>1, SeriesKeepSteps DEF Keeps, SeriesInv
  <2>3. \A r \in Series : SeriesOnce(r)' /\ EndsOnce(r)'
    BY <2>1, OtherSeries DEF Keeps
  <2> QED BY <1>1, <2>1, <2>2, <2>3 DEF Keeps, SeriesInv
<1>4. CASE UNCHANGED resultsVars
  <2>1. UNCHANGED stepsVars /\ UNCHANGED <<serState, serEnded, serLock>>
    BY <1>4 DEF resultsVars, seriesVars
  <2>2. UNCHANGED <<log, pc, on>>
    BY <2>1 DEF stepsVars, runVars, logVars
  <2>3. SeriesBracket' /\ Logged' = Logged /\ BracketInv'
    BY <2>1, <2>2, NextBracket DEF SeriesInv, SeriesBracket, Logged, Places, Before
  <2> QED BY <1>1, <2>1, <2>2, <2>3, SeriesOnceKept
          DEF SeriesInv, ConstructsSeries, BeginsSeries, UsesSeries, Locks, AsksToEnd, Ends
<1> QED BY <1>2, <1>3, <1>4 DEF Next

\* ... and no series exists that could be outside its bracket.
LEMMA InitSeries == SeriesInit => SeriesInv
<1> SUFFICES ASSUME SeriesInit PROVE SeriesInv
  OBVIOUS
<1>1. TypesInv /\ BracketInv
  BY InitTypes, InitBracket DEF SeriesInit
<1>2. Places = {} /\ Logged = {}
  <2>1. log = <<>> /\ Len(log) = 0
    BY EmptySeq DEF SeriesInit, StepInit, RunInit, Log!Init
  <2> QED BY <2>1 DEF Logged, Places
<1>3. \A t \in Threads : pc[t] = "idle"
  BY DEF SeriesInit, StepInit, RunInit
<1>4. \A m \in Series : serState[m] = "absent"
  BY DEF SeriesInit
<1> QED BY <1>1, <1>2, <1>3, <1>4
        DEF SeriesInv, SeriesOnce, EndsOnce, Unended, SeriesBracket, ConstructsSeries,
            BeginsSeries, UsesSeries, Locks, AsksToEnd, Ends

(***************************************************************************)
(* For any number of threads, steps and series: a series' artifacts lie    *)
(* between its one MeasurementSeriesStart and its one MeasurementSeriesEnd *)
(* (measurement_series.cc), and its start follows the start of its step.   *)
(***************************************************************************)
THEOREM AllSeriesBracketed == Spec => []SeriesBracket
<1>1. SeriesInv => SeriesBracket
  BY DEF SeriesInv
<1> QED BY <1>1, InitSeries, NextSeries, PTL DEF Spec

(***************************************************************************)
(* Series in use by other threads take nothing from the bracket of a step  *)
(* (test_step.cc): it holds in the whole library as it does without them.  *)
(***************************************************************************)
THEOREM AllStepsBracketed == Spec => []StepBracket
<1>1. SeriesInv => StepBracket
  BY DEF SeriesInv, BracketInv
<1> QED BY <1>1, InitSeries, NextSeries, PTL DEF Spec

-----------------------------------------------------------------------------
\* The labels of the TestRun constructor.
ConstructLabel == {"register", "schema"}

\* The labels of the TestRun destructor.
EndLabel == {"finalize", "runEnd", "runEndFlush"} \cup ClosingLabel

\* Outside every method of the TestRun, in the constructor of another one, or
\* in a process that a failed CHECK is ending.
OutsideLabel == {"idle", "guard", "dying"}

(***************************************************************************)
(* The life of the TestRun: which labels its threads can be at. The        *)
(* constructor and the destructor are one thread's, and the rest of the    *)
(* library is used in between only, except for LOG() and failed CHECKs,    *)
(* which need the sink.                                                    *)
(***************************************************************************)
LifeInv ==
  /\ \A t \in Threads :
       /\ pc[t] \in ConstructLabel => phase = "constructing"
       /\ pc[t] \in EndLabel => phase = "destroying"
       /\ pc[t] \notin OutsideLabel \cup ConstructLabel \cup EndLabel => phase = "alive"
       /\ pc[t] \in {"unset", "close"} => ~sinkOn
       /\ pc[t] = "close" => ~initialized
  /\ \A t, u \in Threads :
       pc[t] \in ConstructLabel \cup EndLabel /\ pc[u] \in ConstructLabel \cup EndLabel => t = u
  /\ phase \in {"absent", "gone"} => ~sinkOn /\ ~initialized
  /\ closed <=> phase = "gone"
  /\ phase \in {"constructing", "alive"} => initialized
  /\ phase = "absent" => file = "open"

(***************************************************************************)
(* The order of the run's artifacts, and what the phase of the TestRun,    *)
(* started and run_mutex_ say about what is logged: an error before the    *)
(* start and the start itself are logged under the lock, so that an error  *)
(* that found the run not started is never behind the start.               *)
(***************************************************************************)
OrderInv ==
  /\ phase \in {"absent", "constructing"} => Logged \subseteq {RunLog}
  /\ phase \notin {"absent", "constructing"} => SchemaVersion \in Logged
  /\ ~started /\ phase = "alive" => RunStart \notin Logged
  /\ started => RunStart \in Logged \/ \E t \in Threads : pc[t] = "runStart"
  /\ \A t \in Threads : pc[t] = "runStart" => started
  /\ \A t \in Threads : pc[t] \in {"preError", "runStart"} => runLock = t
  /\ phase \in {"destroying", "gone"} => RunStart \in Logged
  /\ \A s \in Steps : stepState[s] # "absent" => RunStart \in Logged
  /\ (\E a \in Logged : IsRunEnd(a)) =>
       /\ phase \in {"destroying", "gone"}
       /\ \A t \in Threads : pc[t] \notin {"finalize", "runEnd"}
  /\ RunOrder

\* What the log tells of errors.
ErrorLogged == Logged \cap Errors # {}

\* And of failure diagnoses.
FailureLogged == Logged \cap Failures # {}

(***************************************************************************)
(* Before Finalize: what the calculator was told is what the log tells of, *)
(* but for the threads between the one and the other, and a program that   *)
(* died in between.                                                        *)
(***************************************************************************)
Undecided ==
  /\ runStatus \in {"Unknown", "Error", "Skip"}
  /\ runResult \in {"NotApplicable", "Fail"}
  /\ runStatus # "Unknown" => runResult = "NotApplicable"
  /\ ErrorLogged => runStatus # "Unknown" \/ \E t \in Threads : pc[t] = "preError"
  /\ runStatus = "Error" =>
       ErrorLogged \/ (phase = "alive" /\ \E t \in Threads : pc[t] \in {"emitError", "dying"})
  /\ FailureLogged => runResult = "Fail" \/ runStatus # "Unknown"
  /\ runResult = "Fail" =>
       FailureLogged \/ (phase = "alive" /\ \E t \in Threads : pc[t] \in {"emitFailure", "dying"})

(***************************************************************************)
(* After Finalize nobody is in a method any more: the status and the       *)
(* result are what the log deserves, and but for messages only the end of  *)
(* the run follows.                                                        *)
(***************************************************************************)
Decided ==
  /\ phase \in {"destroying", "gone"} /\ \A t \in Threads : pc[t] # "finalize"
  /\ runStatus = "Complete" => ~ErrorLogged
  /\ runStatus = "Error" => ErrorLogged
  /\ runResult = "Pass" => ~FailureLogged
  /\ runResult = "Fail" => FailureLogged
  /\ runStatus = "Complete" <=> runResult # "NotApplicable"

(***************************************************************************)
(* What the calculator was told, what the log tells, and the threads in    *)
(* between.                                                                *)
(***************************************************************************)
VerdictInv ==
  /\ ~finalized => Undecided
  /\ finalized => Decided
  /\ \A t \in Threads :
       /\ pc[t] = "preError" => RunError \in Logged
       /\ pc[t] = "emitError" => runStatus # "Unknown"
       /\ pc[t] = "emitFailure" => runResult = "Fail" \/ runStatus # "Unknown"
       /\ pc[t] = "runEnd" => finalized
  /\ VerdictMatchesLog

(***************************************************************************)
(* The destructor flushes the end before it gives up the sink and the      *)
(* writer, so that the file holds it whoever still logs.                   *)
(***************************************************************************)
EndInv ==
  /\ \A t \in Threads : pc[t] = "runEndFlush" => \E a \in Logged : IsRunEnd(a)
  /\ DurableAtTheEnd

-----------------------------------------------------------------------------
(***************************************************************************)
(* The steps of the methods of TestRun, and the life of the object.        *)
(***************************************************************************)

\* Everybody but thread t stays where it is.
OnlyMoves(t) == \A u \in Threads \ {t} : pc'[u] = pc[u]

(***************************************************************************)
(* A step of a method of TestRun that matters to none of the properties    *)
(* below: a failed CHECK, a LOG(), a pre-start log, another TestRun as far *)
(* as it comes, or the end of a program that dies.                         *)
(***************************************************************************)
Minor(t) ==
  /\ ~aborted /\ (aborted' => pc[t] = "dying" /\ (sinkOn => Log!Sync))
  /\ UNCHANGED <<calculatorVars, initialized, phase, sinkOn, started>>
  /\ runLock' = runLock \/ runLock = Nobody
  /\ OnlyMoves(t)
  /\ pc[t] \in {"idle", "guard", "schema", "relog", "fatal", "dying"}
  /\ pc'[t] \in {"idle", "guard", "relog", "fatal", "dying"}
  /\ pc[t] = "guard" /\ initialized => pc'[t] = "dying"
  /\ pc[t] = "dying" => pc'[t] = "dying"
  /\ pc'[t] \in {"relog", "fatal"} => phase = "alive"
  /\ \/ UNCHANGED logVars
     \/ (sinkOn \/ phase = "alive") /\ (Log!Sync \/ Log!Put(RunLog))
     \/ phase \notin {"absent", "gone"} /\ pc'[t] = "guard" /\ Log!Truncate

\* A CHECK fails in a method of TestRun; with run_mutex_ held, which dies too.
RunDies(t) ==
  /\ CheckFails(t)
  /\ runLock' = runLock \/ runLock = Nobody

\* A failed CHECK in a method of TestRun is a minor step.
LEMMA DyingIsMinor ==
  ASSUME RunTypeOK, NEW t \in Threads, RunDies(t), ~aborted,
         pc[t] \in {"idle", "guard", "schema", "fatal"}
  PROVE  Minor(t)
BY DEF RunDies, CheckFails, Goto, Minor, OnlyMoves, RunTypeOK

\* The steps of TestRun's methods that do matter.
MajorCall(t) ==
  \/ Construct(t)
  \/ ~started /\ AddPreStartError(t)
  \/ StartAndRegisterDutInfo(t) \/ Skip(t)

\* What goes on in them.
MajorContinue(t) ==
  \/ RegisterLogSink(t) \/ EmitSchemaVersion(t) \/ NotifyPreStartError(t)
  \/ EmitStart(t) \/ EndFinalize(t) \/ EmitEnd(t) \/ FlushEnd(t)
  \/ DeregisterLogSink(t) \/ UnsetInitializationGuard(t) \/ DestroyWriter(t)

\* Every step of a method of TestRun is minor or major.
LEMMA RunCases ==
  ASSUME RunTypeOK, LifeInv, NEW t \in Threads, RunCall(t) \/ RunContinue(t)
  PROVE  Minor(t) \/ MajorCall(t) \/ MajorContinue(t)
<1> USE DEF RunTypeOK
<1>1. CASE ConstructAnother(t)
  BY <1>1 DEF ConstructAnother, At, Goto, Minor, OnlyMoves, lifeVars
<1>2. CASE RejectArgument(t)
  BY <1>2, DyingIsMinor DEF RejectArgument, Die, RunDies, Calls, At
<1>3. CASE AddPreStartError(t)
  <2>1. CASE started
    BY <1>3, <2>1, DyingIsMinor DEF AddPreStartError, RunDies, Calls, At
  <2> QED BY <1>3, <2>1 DEF MajorCall
<1>4. ASSUME NEW fatal \in BOOLEAN, AddPreStartLog(t, fatal)
      PROVE  Minor(t)
  <2>1. CASE started
    BY <1>4, <2>1, DyingIsMinor DEF AddPreStartLog, RunDies, Calls, At
  <2>2. CASE ~started
    BY <1>4, <2>2 DEF AddPreStartLog, Calls, At, Goto, Minor, OnlyMoves
  <2> QED BY <2>1, <2>2
<1>5. CASE LogMessage(t)
  BY <1>5 DEF LogMessage, At, Minor, OnlyMoves, lifeVars
<1>6. CASE RejectRunStart(t)
  BY <1>6, DyingIsMinor DEF RejectRunStart, Die, RunDies, At
<1>7. CASE FlushFatal(t)
  <2>1. phase = "alive"
    BY <1>7 DEF FlushFatal, At, LifeInv, OutsideLabel, ConstructLabel, EndLabel, ClosingLabel
  <2> QED BY <1>7, <2>1 DEF FlushFatal, At, Goto, Minor, OnlyMoves, lifeVars
<1>8. CASE LogFatal(t)
  BY <1>8, DyingIsMinor DEF LogFatal, Die, RunDies, At
<1>9. CASE Abort(t)
  BY <1>9 DEF Abort, At, Minor, OnlyMoves, lifeVars
<1>10. CASE CheckGuard(t)
  <2>1. CASE initialized
    BY <1>10, <2>1, DyingIsMinor DEF CheckGuard, Die, RunDies, At
  <2>2. CASE ~initialized
    BY <1>10, <2>2 DEF CheckGuard, At, Goto, Minor, OnlyMoves, lifeVars
  <2> QED BY <2>1, <2>2
<1> QED
  BY <1>1, <1>2, <1>3, <1>4, <1>5, <1>6, <1>7, <1>8, <1>9, <1>10
     DEF RunCall, RunContinue, MajorCall, MajorContinue

\* A step that changes no more of the run's life than the label of a thread.
LEMMA LifeKept ==
  ASSUME RunTypeOK, LifeInv, NEW t \in Threads, OnlyMoves(t),
         UNCHANGED <<phase, sinkOn, initialized, closed>>,
         file' = file \/ phase # "absent",
         \/ pc'[t] \in OutsideLabel
         \/ phase = "alive" /\ pc'[t] \notin ConstructLabel \cup EndLabel
  PROVE  LifeInv'
BY DEF LifeInv, OnlyMoves, RunTypeOK, OutsideLabel, ConstructLabel, EndLabel, ClosingLabel

\* A failed CHECK, a LOG() and an abort leave the phases of the TestRun alone.
LEMMA MinorLife ==
  ASSUME RunTypeOK, LifeInv, NEW t \in Threads, Minor(t)
  PROVE  LifeInv'
BY LifeKept
   DEF Minor, logVars, Log!Sync, Log!Put, Log!Truncate, OutsideLabel, ConstructLabel, EndLabel, ClosingLabel

\* The constructor begins the life; errors before the start, the start and a skip are in it.
LEMMA MajorCallLife ==
  ASSUME RunTypeOK, LifeInv, NEW t \in Threads, MajorCall(t)
  PROVE  LifeInv'
<1>1. CASE Construct(t)
  BY <1>1
     DEF Construct, At, Goto, logVars, LifeInv, RunTypeOK, OutsideLabel, ConstructLabel,
         EndLabel, ClosingLabel
<1>2. CASE ~started /\ AddPreStartError(t)
  <2>1. /\ phase = "alive" /\ OnlyMoves(t) /\ pc'[t] = "preError"
        /\ UNCHANGED <<phase, sinkOn, initialized, closed, file>>
    BY <1>2 DEF AddPreStartError, Calls, At, Goto, Log!Put, RunTypeOK, OnlyMoves
  <2> QED BY <2>1, LifeKept DEF ConstructLabel, EndLabel, ClosingLabel
<1>3. CASE StartAndRegisterDutInfo(t)
  <2>1. /\ phase = "alive" /\ OnlyMoves(t) /\ pc'[t] = "runStart"
        /\ UNCHANGED <<phase, sinkOn, initialized, closed, file>>
    BY <1>3 DEF StartAndRegisterDutInfo, Calls, At, Goto, logVars, RunTypeOK, OnlyMoves
  <2> QED BY <2>1, LifeKept DEF ConstructLabel, EndLabel, ClosingLabel
<1>4. CASE Skip(t)
  <2>1. /\ OnlyMoves(t) /\ pc'[t] = "idle"
        /\ UNCHANGED <<phase, sinkOn, initialized, closed, file>>
    BY <1>4 DEF Skip, Calls, At, logVars, lifeVars, OnlyMoves
  <2> QED BY <2>1, LifeKept DEF OutsideLabel
<1> QED BY <1>1, <1>2, <1>3, <1>4 DEF MajorCall

\* What goes on in the constructor, before the start, and in the destructor.
LEMMA MajorContinueLife ==
  ASSUME RunTypeOK, LifeInv, NEW t \in Threads, MajorContinue(t)
  PROVE  LifeInv'
<1> USE DEF LifeInv, RunTypeOK, OutsideLabel, ConstructLabel, EndLabel, ClosingLabel, At, Goto
<1>1. CASE RegisterLogSink(t)
  BY <1>1 DEF RegisterLogSink, logVars
<1>2. CASE EmitSchemaVersion(t)
  BY <1>2 DEF EmitSchemaVersion, Log!Put
<1>3. CASE NotifyPreStartError(t)
  BY <1>3 DEF NotifyPreStartError, logVars
<1>4. CASE EmitStart(t)
  BY <1>4 DEF EmitStart, Log!Put
<1>5. CASE EndFinalize(t)
  BY <1>5 DEF EndFinalize, logVars, lifeVars
<1>6. CASE EmitEnd(t)
  BY <1>6 DEF EmitEnd, lifeVars, Log!Put
<1>7. CASE FlushEnd(t)
  BY <1>7 DEF FlushEnd, Log!Sync
<1>8. CASE DeregisterLogSink(t)
  BY <1>8 DEF DeregisterLogSink, logVars
<1>9. CASE UnsetInitializationGuard(t)
  BY <1>9 DEF UnsetInitializationGuard, logVars
<1>10. CASE DestroyWriter(t)
  BY <1>10 DEF DestroyWriter, Log!Close
<1> QED
  BY <1>1, <1>2, <1>3, <1>4, <1>5, <1>6, <1>7, <1>8, <1>9, <1>10 DEF MajorContinue

\* The destructor begins when nobody is in a method.
LEMMA DestroyLife ==
  ASSUME RunTypeOK, LifeInv, NEW t \in Threads, Destroy(t)
  PROVE  LifeInv'
BY DEF Destroy, Calls, At, Goto, Log!Put, logVars, LifeInv, RunTypeOK,
       OutsideLabel, ConstructLabel, EndLabel, ClosingLabel

(***************************************************************************)
(* A step of a method of a test step or of a series, as far as the run can *)
(* tell: it happens while the TestRun lives, and leaves it alone but for   *)
(* what it logs and what it tells the calculator; an error and a failure   *)
(* are told before they are logged.                                        *)
(***************************************************************************)
InnerArtifact == SeriesArtifact \cup UNION {StepArtifact(s) : s \in Steps}

\* The labels of the methods of steps and series.
InnerLabel == StepLabel \cup SeriesLabel \cup {"idle"}

\* A thread between the call that tells the calculator and the artifact it tells of.
Telling == {"emitError", "emitFailure"}

\* Nothing is logged, and nothing told.
Silent(t) ==
  /\ UNCHANGED logVars \/ Log!Sync
  /\ UNCHANGED calculatorVars
  /\ pc'[t] \notin Telling
  /\ pc[t] \in Telling => pc'[t] = "dying"

\* A failed CHECK says so in the log.
Complains(t) ==
  sinkOn /\ Log!Put(RunLog) /\ UNCHANGED calculatorVars /\ pc'[t] = "dying"

\* An artifact is logged, and an error or a failure only by the thread that told it.
Emits(t, a) ==
  /\ Log!Put(a) /\ UNCHANGED calculatorVars
  /\ pc'[t] \notin Telling
  /\ \E s \in Steps : stepState[s] # "absent"
  /\ a \in Errors <=> pc[t] = "emitError"
  /\ a \in Failures <=> pc[t] = "emitFailure"

\* AddError and a failure diagnosis tell the calculator before they log.
Tells(t) ==
  /\ UNCHANGED logVars
  /\ \/ pc[t] = "notifyError" /\ NotifyError /\ pc'[t] = "emitError"
     \/ pc[t] = "idle" /\ NotifyFailureDiagnosis /\ pc'[t] = "emitFailure"

\* A step of a method of a step or series, as the run sees it.
Inner(t) ==
  /\ phase = "alive" /\ ~aborted
  /\ UNCHANGED <<lifeVars, aborted>>
  /\ OnlyMoves(t)
  /\ pc[t] \in InnerLabel /\ pc'[t] \in InnerLabel \cup {"relog", "dying"}
  /\ \A s \in Steps :
       stepState'[s] # "absent" => stepState[s] # "absent" \/ (started /\ runLock = Nobody)
  /\ \/ Silent(t)
     \/ Complains(t)
     \/ \E a \in InnerArtifact : Emits(t, a)
     \/ Tells(t)

\* Which artifacts tell of errors and failures.
LEMMA TellingArtifacts ==
  ASSUME NEW s \in Steps
  PROVE  /\ StepError(s) \in Errors /\ StepError(s) \notin Failures
         /\ Failure(s) \in Failures /\ Failure(s) \notin Errors
         /\ Content(s) \notin Errors \cup Failures
         /\ StepStart(s) \notin Errors \cup Failures
         /\ \A status : StepEnd(s, status) \notin Errors \cup Failures
         /\ \A a \in SeriesArtifact : a \notin Errors \cup Failures
         /\ RunError \in Errors /\ RunError \notin Failures
         /\ \A a \in RunArtifact : a # RunError => a \notin Errors \cup Failures
<1>1. /\ \A a \in Errors : a.kind \in {"RunError", "StepError"}
      /\ \A a \in Failures : a.kind = "Failure"
  BY DEF Errors, Failures, RunError, StepError, Failure
<1>2. \A a \in SeriesArtifact : a.kind \in {"SeriesStart", "Element", "SeriesEnd"}
  BY DEF SeriesArtifact
<1>3. \A a \in RunArtifact : a # RunError =>
        a.kind \in {"SchemaVersion", "RunStart", "RunLog", "RunEnd"}
  BY DEF RunArtifact, SchemaVersion, RunStart, RunLog, RunError, RunEnd
<1>4. /\ StepError(s).kind = "StepError" /\ Failure(s).kind = "Failure"
      /\ Content(s).kind = "Content" /\ StepStart(s).kind = "StepStart"
      /\ \A status : StepEnd(s, status).kind = "StepEnd"
      /\ RunError.kind = "RunError"
  BY DEF RunError, StepError, Failure, Content, StepStart, StepEnd
<1>5. StepError(s) \in Errors /\ Failure(s) \in Failures /\ RunError \in Errors
  BY DEF Errors, Failures
<1> QED BY <1>1, <1>2, <1>3, <1>4, <1>5

\* A failed CHECK in such a method.
LEMMA DeathIsInner ==
  ASSUME StepTypeOK, NEW t \in Threads, Die(t), ~aborted, phase = "alive",
         pc[t] \in InnerLabel, stepState' = stepState
  PROVE  Inner(t)
BY DEF Die, CheckFails, Goto, Inner, Silent, Complains, OnlyMoves, lifeVars, StepTypeOK,
       RunTypeOK, Telling

\* TestStep::CheckEndedAndEmitArtifact, which logs or dies.
LEMMA CheckEndedInner ==
  ASSUME StepTypeOK, NEW t \in Threads, NEW s \in Steps,
         stepState[s] # "absent", ~aborted, phase = "alive", pc[t] \in InnerLabel,
         NEW a \in {Content(s), Failure(s), StepError(s)}, NEW next \in {"idle", "relog"},
         pc[t] = "emitError" <=> a = StepError(s), pc[t] = "emitFailure" <=> a = Failure(s),
         CheckEndedAndEmitArtifact(t, s, a, next)
  PROVE  Inner(t)
<1>1. CASE stepEnded[s]
  BY <1>1, DeathIsInner DEF CheckEndedAndEmitArtifact
<1>2. CASE ~stepEnded[s]
  <2>1. a \in InnerArtifact
    BY Kinds DEF InnerArtifact
  <2>2. (a \in Errors <=> pc[t] = "emitError") /\ (a \in Failures <=> pc[t] = "emitFailure")
    BY TellingArtifacts
  <2>3. /\ Log!Put(a) /\ pc' = [pc EXCEPT ![t] = next]
        /\ UNCHANGED <<calculatorVars, stepState>> /\ RunFrame
    BY <1>2 DEF CheckEndedAndEmitArtifact, Goto, stepVars
  <2>4. pc'[t] = next /\ OnlyMoves(t)
    BY <2>3 DEF OnlyMoves, StepTypeOK, RunTypeOK
  <2>5. Emits(t, a)
    BY <2>2, <2>3, <2>4 DEF Emits, Telling
  <2> QED BY <2>1, <2>3, <2>4, <2>5 DEF Inner, RunFrame, InnerLabel
<1> QED BY <1>1, <1>2

\* TestStep::End and the destructor of a step.
LEMMA EndStepInner ==
  ASSUME StepTypeOK, StepTypeOK', NEW t \in Threads, NEW s \in Steps,
         stepState[s] # "absent", ~aborted, phase = "alive", pc[t] \in {"idle", "stepEnd"},
         NEW then \in {"live", "destroying"}, EndStep(t, s, then)
  PROVE  Inner(t)
<1>1. /\ \A r \in Steps : stepState'[r] # "absent" => stepState[r] # "absent"
      /\ UNCHANGED calculatorVars /\ RunFrame /\ OnlyMoves(t)
      /\ pc'[t] \in {"idle", "stepEndFlush"}
  BY DEF EndStep, Return, GotoOn, Goto, OnlyMoves, StepTypeOK, RunTypeOK
<1>2. CASE stepEnded[s]
  BY <1>1, <1>2 DEF EndStep, Inner, Silent, RunFrame, InnerLabel, StepLabel, Telling
<1>3. CASE ~stepEnded[s]
  <2> DEFINE a == StepEnd(s, stepStatus'[s])
  <2>1. a \in InnerArtifact
    BY DEF InnerArtifact, StepArtifact, Status, TestStatus, StepTypeOK
  <2>2. a \notin Errors /\ a \notin Failures
    BY TellingArtifacts
  <2>3. Log!Put(a)
    BY <1>3 DEF EndStep
  <2> HIDE DEF a
  <2>4. Emits(t, a)
    BY <1>1, <2>2, <2>3 DEF Emits, Telling
  <2> QED BY <1>1, <2>1, <2>4 DEF Inner, RunFrame, InnerLabel, StepLabel
<1> QED BY <1>2, <1>3

\* Every step of a method of TestStep.
LEMMA StepInner ==
  ASSUME BracketInv, StepTypeOK', LifeInv, NEW t \in Threads, NEW s \in Steps,
         StepCall(t, s) \/ StepContinue(t, s) \/ DestroyStep(t, s)
  PROVE  Inner(t)
<1>1. StepTypeOK
  BY DEF BracketInv
<1>2. \A l \in StepLabel : pc[t] = l => phase = "alive"
  BY DEF LifeInv, StepLabel, OutsideLabel, ConstructLabel, EndLabel, ClosingLabel
<1>3. on[t] = s /\ pc[t] \in StepLabel => stepState[s] # "absent"
  BY DEF BracketInv, StepOnce, Constructs, Uses, StepLabel
<1> USE <1>1 DEF InnerLabel, CallsStep, AtStep, Calls, At, StepLabel
<1>4. CASE ConstructStep(t, s)
  <2>1. CASE started
    BY <1>4, <2>1
       DEF ConstructStep, GotoOn, Goto, Inner, Silent, OnlyMoves, RunFrame, Telling,
           StepTypeOK, RunTypeOK
  <2>2. CASE ~started
    BY <1>4, <2>2, DeathIsInner DEF ConstructStep, DieOn, stepVars
  <2> QED BY <2>1, <2>2
<1>5. CASE AddContent(t, s)
  <2>1. Content(s) # Failure(s) /\ Content(s) # StepError(s)
    BY TellingArtifacts
  <2> QED BY <1>5, <2>1, CheckEndedInner DEF AddContent
<1>6. CASE AddFatalLog(t, s)
  <2>1. Content(s) # Failure(s) /\ Content(s) # StepError(s)
    BY TellingArtifacts
  <2> QED BY <1>6, <2>1, CheckEndedInner DEF AddFatalLog
<1>7. CASE AddFailureDiagnosis(t, s)
  BY <1>7
     DEF AddFailureDiagnosis, GotoOn, Goto, Inner, Tells, OnlyMoves, RunFrame, stepVars,
         StepTypeOK, RunTypeOK
<1>8. CASE AddError(t, s)
  BY <1>8
     DEF AddError, GotoOn, Goto, Inner, Silent, OnlyMoves, RunFrame, Telling, StepTypeOK,
         RunTypeOK
<1>9. CASE SkipStep(t, s)
  BY <1>9
     DEF SkipStep, GotoOn, Goto, Inner, Silent, OnlyMoves, RunFrame, Telling, StepTypeOK,
         RunTypeOK
<1>10. CASE CallEndStep(t, s)
  BY <1>10, EndStepInner DEF CallEndStep
<1>11. CASE EmitStepStart(t, s)
  <2>1. StepStart(s) \in InnerArtifact
    BY Kinds DEF InnerArtifact
  <2>2. /\ pc'[t] = "stepStartFlush" /\ OnlyMoves(t)
        /\ pc[t] = "stepStart" /\ phase = "alive" /\ stepState[s] # "absent" /\ ~aborted
        /\ Log!Put(StepStart(s)) /\ UNCHANGED <<calculatorVars, stepState>> /\ RunFrame
    BY <1>2, <1>3, <1>11
       DEF EmitStepStart, GotoOn, Goto, OnlyMoves, stepVars, StepTypeOK, RunTypeOK
  <2>3. Emits(t, StepStart(s))
    BY <2>2, TellingArtifacts DEF Emits, Telling
  <2> QED BY <2>1, <2>2, <2>3 DEF Inner, RunFrame
<1>12. CASE FlushStepStart(t, s)
  BY <1>2, <1>3, <1>12
     DEF FlushStepStart, Return, GotoOn, Goto, Inner, Silent, OnlyMoves, RunFrame, Telling,
         StepTypeOK, RunTypeOK
<1>13. CASE EmitFailure(t, s)
  <2>1. Failure(s) # StepError(s)
    BY TellingArtifacts
  <2> QED BY <1>2, <1>3, <1>13, <2>1, CheckEndedInner DEF EmitFailure
<1>14. CASE NotifyStepError(t, s)
  BY <1>2, <1>3, <1>14
     DEF NotifyStepError, GotoOn, Goto, Inner, Tells, OnlyMoves, RunFrame, stepVars,
         StepTypeOK, RunTypeOK
<1>15. CASE EmitStepError(t, s)
  <2>1. Failure(s) # StepError(s)
    BY TellingArtifacts
  <2> QED BY <1>2, <1>3, <1>15, <2>1, CheckEndedInner DEF EmitStepError
<1>16. CASE EndSkippedStep(t, s)
  BY <1>2, <1>3, <1>16, EndStepInner DEF EndSkippedStep
<1>17. CASE FlushStepEnd(t, s)
  BY <1>2, <1>3, <1>17
     DEF FlushStepEnd, Return, GotoOn, Goto, Inner, Silent, OnlyMoves, RunFrame, Telling,
         StepTypeOK, RunTypeOK
<1>18. CASE DestroyStep(t, s)
  BY <1>18, EndStepInner DEF DestroyStep
<1> QED
  BY <1>4, <1>5, <1>6, <1>7, <1>8, <1>9, <1>10, <1>11, <1>12, <1>13, <1>14, <1>15,
     <1>16, <1>17, <1>18 DEF StepCall, StepContinue

\* A method of a series that goes on, or returns.
LEMMA SeriesGoesInner ==
  ASSUME StepTypeOK, NEW t \in Threads, NEW l \in SeriesLabel \cup {"idle"}, NEW x,
         GotoOn(t, l, x), StepFrame,
         ~aborted, phase = "alive", pc[t] \in SeriesLabel \cup {"idle"},
         \/ UNCHANGED logVars \/ Log!Sync
         \/ /\ \E a \in SeriesArtifact : Log!Put(a)
            /\ \E s \in Steps : stepState[s] # "absent"
  PROVE  Inner(t)
<1>1. /\ pc'[t] = l /\ OnlyMoves(t) /\ UNCHANGED <<calculatorVars, lifeVars, aborted, stepState>>
  BY DEF GotoOn, Goto, StepFrame, RunFrame, OnlyMoves, stepVars, StepTypeOK, RunTypeOK
<1>2. pc[t] \notin Telling /\ pc'[t] \notin Telling
  BY <1>1 DEF SeriesLabel, Telling
<1>3. CASE UNCHANGED logVars \/ Log!Sync
  BY <1>1, <1>2, <1>3 DEF Inner, Silent, InnerLabel
<1>4. ASSUME NEW a \in SeriesArtifact, Log!Put(a), \E s \in Steps : stepState[s] # "absent"
      PROVE  Inner(t)
  <2>1. a \in InnerArtifact
    BY DEF InnerArtifact
  <2>2. a \notin Errors /\ a \notin Failures
    BY <1>4, TellingArtifacts
  <2>3. Emits(t, a)
    BY <1>1, <1>2, <1>4, <2>2 DEF Emits, Telling
  <2> QED BY <1>1, <2>1, <2>3 DEF Inner, InnerLabel
<1> QED BY <1>3, <1>4

\* A CHECK of a series that fails.
LEMMA SeriesDiesInner ==
  ASSUME StepTypeOK, NEW t \in Threads, NEW x, DieOn(t, x),
         ~aborted, phase = "alive", pc[t] \in SeriesLabel \cup {"idle"}
  PROVE  Inner(t)
BY DeathIsInner DEF DieOn, stepVars, InnerLabel

\* Every step of a method of MeasurementSeries.
LEMMA SeriesInner ==
  ASSUME SeriesInv, LifeInv, NEW t \in Threads, NEW m \in Series,
         SeriesCall(t, m) \/ SeriesContinue(t, m) \/ DestroySeries(t, m)
  PROVE  Inner(t)
<1>1. StepTypeOK /\ SeriesTypeOK
  BY DEF SeriesInv, BracketInv, TypesInv
<1>2. pc[t] \in SeriesLabel => phase = "alive"
  BY DEF LifeInv, SeriesLabel, OutsideLabel, ConstructLabel, EndLabel, ClosingLabel
<1>3. on[t] = m /\ pc[t] \in SeriesLabel => \E s \in Steps : stepState[s] # "absent"
  <2>1. SUFFICES ASSUME on[t] = m, pc[t] \in SeriesLabel
                 PROVE  stepState[StepOf[m]] # "absent"
    BY ArtifactsAssumption
  <2>2. serState[m] # "absent"
    BY <2>1 DEF SeriesInv, SeriesOnce, ConstructsSeries, UsesSeries, SeriesLabel
  <2>3. StepStart(StepOf[m]) \in Logged
    BY <2>2 DEF SeriesInv, SeriesOnce
  <2>4. StepOf[m] \in Steps
    BY ArtifactsAssumption
  <2> QED BY <2>3, <2>4, Disjoint DEF SeriesInv, BracketInv, StepOnce
<1> USE <1>1 DEF CallsSeries, CallsStep, AtSeries, Calls, At, SeriesLabel
<1>4. ASSUME NEW then, EndSeries(t, m, then), Calls(t)
      PROVE  Inner(t)
  <2>1. UNCHANGED logVars /\ StepFrame
    BY <1>4 DEF EndSeries, logVars
  <2> QED BY <1>4, <2>1, SeriesGoesInner DEF EndSeries, Return
<1>5. ASSUME NEW type \in Types, ConstructSeries(t, m, type)
      PROVE  Inner(t)
  <2>1. CASE stepEnded[StepOf[m]]
    BY <1>5, <2>1, SeriesDiesInner DEF ConstructSeries
  <2>2. CASE ~stepEnded[StepOf[m]]
    <3>1. UNCHANGED logVars /\ StepFrame /\ GotoOn(t, "seriesStart", m)
      BY <1>5, <2>2 DEF ConstructSeries, logVars
    <3> QED BY <1>5, <3>1, SeriesGoesInner DEF ConstructSeries
  <2> QED BY <2>1, <2>2
<1>6. ASSUME NEW type \in ValueTypes, SetAndCheckSeriesType(t, m, type)
      PROVE  Inner(t)
  <2>1. CASE serType[m] \notin {"none", type}
    BY <1>6, <2>1, SeriesDiesInner DEF SetAndCheckSeriesType, DieOn
  <2>2. CASE serType[m] \in {"none", type}
    <3>1. UNCHANGED logVars /\ StepFrame /\ GotoOn(t, "number", m)
      BY <1>6, <2>2 DEF SetAndCheckSeriesType, logVars
    <3> QED BY <1>6, <3>1, SeriesGoesInner DEF SetAndCheckSeriesType
  <2> QED BY <2>1, <2>2
<1>7. CASE EmitSeriesStart(t, m)
  BY <1>2, <1>3, <1>7, SeriesKinds, SeriesGoesInner DEF EmitSeriesStart
<1>8. CASE FlushSeriesStart(t, m)
  BY <1>2, <1>8, SeriesGoesInner DEF FlushSeriesStart, Return
<1>9. CASE NumberElement(t, m)
  BY <1>2, <1>9, SeriesGoesInner DEF NumberElement, logVars
<1>10. CASE LockElement(t, m)
  BY <1>2, <1>10, SeriesGoesInner DEF LockElement, logVars
<1>11. CASE AskStep(t, m)
  <2>1. CASE stepEnded[StepOf[m]]
    BY <1>2, <1>11, <2>1, SeriesDiesInner DEF AskStep
  <2>2. CASE ~stepEnded[StepOf[m]]
    BY <1>2, <1>11, <2>2, SeriesGoesInner DEF AskStep
  <2> QED BY <2>1, <2>2
<1>12. CASE EmitElement(t, m)
  <2>1. CASE serEnded[m]
    BY <1>2, <1>12, <2>1, SeriesDiesInner DEF EmitElement
  <2>2. CASE ~serEnded[m]
    <3>1. adding[t].index \in Nat /\ adding[t].type \in ValueTypes
      BY <1>12
         DEF EmitElement, SeriesInv, TypesInv, InAddElement, TypedAsSeries, SeriesTypeOK, Types
    <3> QED BY <1>2, <1>3, <1>12, <2>2, <3>1, SeriesKinds, SeriesGoesInner
               DEF EmitElement, Return
  <2> QED BY <2>1, <2>2
<1>13. CASE SeriesEndAsksStep(t, m)
  BY <1>2, <1>13, SeriesGoesInner DEF SeriesEndAsksStep, logVars
<1>14. CASE EmitSeriesEnd(t, m)
  <2>1. serCount[m] \in Nat
    BY DEF SeriesTypeOK
  <2> QED BY <1>2, <1>3, <1>14, <2>1, SeriesKinds, SeriesGoesInner DEF EmitSeriesEnd
<1>15. CASE FlushSeriesEnd(t, m)
  BY <1>2, <1>15, SeriesGoesInner DEF FlushSeriesEnd, Return
<1> QED
  BY <1>4, <1>5, <1>6, <1>7, <1>8, <1>9, <1>10, <1>11, <1>12, <1>13, <1>14, <1>15
     DEF SeriesCall, SeriesContinue, CallEndSeries, DestroySeries

\* Methods of steps and series leave the phases of the TestRun alone.
LEMMA InnerLife ==
  ASSUME RunTypeOK, LifeInv, NEW t \in Threads, Inner(t)
  PROVE  LifeInv'
<1>1. closed' = closed
  BY DEF Inner, Silent, Complains, Emits, Tells, logVars, Log!Sync, Log!Put
<1>2. pc'[t] \notin ConstructLabel \cup EndLabel
  BY DEF Inner, InnerLabel, StepLabel, SeriesLabel, ConstructLabel, EndLabel, ClosingLabel
<1> QED BY <1>1, <1>2, LifeKept DEF Inner, lifeVars

\* The steps of the TestRun that the invariants are about; the destructor only after all steps.
Major(t) ==
  \/ MajorCall(t) \/ MajorContinue(t)
  \/ Destroy(t) /\ \A s \in Steps : stepState[s] \in {"absent", "destroyed"}

\* A step of the TestRun leaves the objects of its steps and series alone.
RunsOwn(t) == (Minor(t) \/ Major(t)) /\ UNCHANGED <<on, stepVars, seriesVars>>

\* The invariant of steps and series, with that of the life of the TestRun.
CoreInv == SeriesInv /\ LifeInv

\* Every step is one of these.
LEMMA Moves ==
  ASSUME CoreInv, [Next]_resultsVars
  PROVE  \/ \E t \in Threads : RunsOwn(t) \/ Inner(t)
         \/ UNCHANGED resultsVars
<1>1. RunTypeOK /\ StepTypeOK /\ SeriesInv /\ LifeInv /\ BracketInv
  BY DEF CoreInv, SeriesInv, BracketInv, StepTypeOK
<1>2. CASE RunStep /\ UNCHANGED seriesVars
  BY <1>1, <1>2, RunCases DEF RunStep, RunsOwn, Major
<1>3. ASSUME NEW t \in Threads, NEW s \in Steps,
             StepCall(t, s) \/ StepContinue(t, s) \/ DestroyStep(t, s)
      PROVE  Inner(t)
  <2>1. StepTypeOK'
    BY <1>1, <1>3, StepCallEffect, StepContinueEffect, DestroyStepEffect DEF StepEffect
  <2> QED BY <1>1, <1>3, <2>1, StepInner
<1>4. ASSUME NEW t \in Threads, NEW m \in Series,
             SeriesCall(t, m) \/ SeriesContinue(t, m) \/ DestroySeries(t, m)
      PROVE  Inner(t)
  BY <1>1, <1>4, SeriesInner
<1> QED BY <1>2, <1>3, <1>4 DEF Next, StepStep

\* Before the TestRun is constructed.
LEMMA InitLife == SeriesInit => LifeInv
BY DEF SeriesInit, StepInit, RunInit, Log!Init, LifeInv, OutsideLabel, ConstructLabel,
       EndLabel, ClosingLabel

\* The core invariant is inductive.
LEMMA NextCore == CoreInv /\ [Next]_resultsVars => CoreInv'
<1> SUFFICES ASSUME CoreInv, [Next]_resultsVars PROVE CoreInv'
  OBVIOUS
<1>1. RunTypeOK /\ SeriesInv /\ LifeInv
  BY DEF CoreInv, SeriesInv, BracketInv, StepTypeOK
<1>2. SeriesInv'
  BY <1>1, NextSeries
<1>3. ASSUME NEW t \in Threads, RunsOwn(t) \/ Inner(t)
      PROVE  LifeInv'
  BY <1>1, <1>3, MinorLife, MajorCallLife, MajorContinueLife, DestroyLife, InnerLife
     DEF RunsOwn, Major
<1>4. CASE UNCHANGED resultsVars
  <2>1. UNCHANGED <<pc, phase, sinkOn, initialized, closed, file>>
    BY <1>4 DEF resultsVars, stepsVars, runVars, logVars, lifeVars
  <2>2. closed \in BOOLEAN /\ sinkOn \in BOOLEAN /\ initialized \in BOOLEAN
    BY <1>1 DEF RunTypeOK, Log!TypeOK
  <2>3. LifeInv'
    BY <1>1, <2>1, <2>2 DEF LifeInv
  <2> QED BY <1>2, <2>3 DEF CoreInv
<1> QED BY <1>2, <1>3, <1>4, Moves DEF CoreInv

-----------------------------------------------------------------------------
(***************************************************************************)
(* The library as the user of one artifact writer: ArtifactLog is          *)
(* implemented.                                                            *)
(***************************************************************************)

\* What the writer allows while it lives: one artifact more, a flush, the
\* close, or the loss of its file to another writer.
LegalLogStep ==
  \/ UNCHANGED logVars
  \/ ~closed /\ Log!Truncate
  \/ ~closed /\ file' = file
     /\ (Log!Sync \/ Log!Close \/ \E a \in Artifact : Log!Put(a))

\* The TestRun uses its writer as the writer allows.
LEMMA RunsLog ==
  ASSUME RunTypeOK, LifeInv, NEW t \in Threads, Minor(t) \/ Major(t)
  PROVE  LegalLogStep
<1> USE DEF LegalLogStep, RunTypeOK, LifeInv, At
<1>1. /\ RunLog \in Artifact /\ RunStart \in Artifact
      /\ RunError \in Artifact /\ SchemaVersion \in Artifact
  BY Kinds
<1>2. CASE Minor(t)
  BY <1>1, <1>2 DEF Minor, Log!Sync, Log!Put
<1>3. CASE MajorCall(t)
  BY <1>1, <1>3
     DEF MajorCall, Construct, AddPreStartError, StartAndRegisterDutInfo, Skip, Calls, Log!Put
<1>4. CASE MajorContinue(t)
  <2>1. RunEnd(runStatus, runResult) \in Artifact
    BY Kinds DEF RunArtifact, CalculatorTypeOK, TestStatus, TestResult, Status, Result
  <2>2. pc[t] \in ConstructLabel \cup EndLabel \cup {"preError", "runStart"} => ~closed
    BY DEF OutsideLabel, ConstructLabel, EndLabel, ClosingLabel
  <2> USE <2>2 DEF OutsideLabel, ConstructLabel, EndLabel, ClosingLabel
  <2>3. CASE EmitSchemaVersion(t) \/ EmitStart(t) \/ EmitEnd(t)
    BY <1>1, <2>1, <2>3 DEF EmitSchemaVersion, EmitStart, EmitEnd, Log!Put
  <2>4. CASE FlushEnd(t) \/ DestroyWriter(t)
    BY <2>4 DEF FlushEnd, DestroyWriter, Log!Sync
  <2> QED
    BY <1>4, <2>3, <2>4
       DEF MajorContinue, RegisterLogSink, NotifyPreStartError, EndFinalize,
           DeregisterLogSink, UnsetInitializationGuard
<1>5. CASE Destroy(t)
  BY <1>1, <1>5 DEF Destroy, Calls, Log!Put
<1> QED BY <1>2, <1>3, <1>4, <1>5 DEF Major

\* So do its steps and series.
LEMMA InnerLog ==
  ASSUME RunTypeOK, LifeInv, NEW t \in Threads, Inner(t)
  PROVE  LegalLogStep
<1>1. ~closed
  BY DEF LifeInv, Inner
<1>2. RunLog \in Artifact /\ InnerArtifact \subseteq Artifact
  BY Kinds, SeriesKinds DEF InnerArtifact
<1> QED
  BY <1>1, <1>2
     DEF Inner, Silent, Complains, Emits, Tells, LegalLogStep, Log!Sync, Log!Put

\* So does the whole library.
LEMMA LegalStep ==
  ASSUME CoreInv, [Next]_resultsVars
  PROVE  LegalLogStep
<1>1. RunTypeOK /\ LifeInv
  BY DEF CoreInv, SeriesInv, BracketInv, StepTypeOK
<1>2. CASE UNCHANGED resultsVars
  BY <1>2 DEF LegalLogStep, resultsVars, stepsVars, runVars, logVars
<1> QED BY <1>1, <1>2, Moves, RunsLog, InnerLog DEF RunsOwn

(***************************************************************************)
(* For any number of threads, steps and series, the run, its steps and its *)
(* series use their ArtifactWriter as the abstract log of ArtifactLog      *)
(* allows: they append, flush and close, and do nothing to it after the    *)
(* close (test_run.cc, artifact_writer.cc); a second TestRun may truncate  *)
(* its file. The library's own steps are mapped, one by one, to a step of  *)
(* the abstract log or to a stutter.                                       *)
(***************************************************************************)
THEOREM WriterUsedLegally == Spec => UsesWriterLegally
<1>1. SeriesInit => CoreInv
  BY InitSeries, InitLife DEF CoreInv
<1>2. SeriesInit => Log!Init
  BY DEF SeriesInit, StepInit, RunInit
<1>3. LegalLogStep => [Log!Next \/ Log!Truncate]_(Log!logVars)
  BY DEF LegalLogStep, Log!Next, Log!Write, Log!Flush, logVars, Log!logVars
<1>4. CoreInv /\ [Next]_resultsVars => [Log!Next \/ Log!Truncate]_(Log!logVars)
  BY <1>3, LegalStep
<1> QED
  BY <1>1, <1>2, <1>4, NextCore, PTL DEF Spec, UsesWriterLegally, Log!SharedSpec

-----------------------------------------------------------------------------
(***************************************************************************)
(* The log grows, and the order of the run is kept.                        *)
(***************************************************************************)

\* The artifacts already written stay where they are, and in the file unless
\* the file is lost.
LogGrows ==
  /\ Len(log) <= Len(log')
  /\ \A i \in Places : log'[i] = log[i]
  /\ file' = "open" => file = "open" /\ durable <= durable'

\* The log only grows, and nothing leaves the file but by a truncation.
LEMMA Grows ==
  ASSUME Log!TypeOK, LegalLogStep
  PROVE  LogGrows
<1>1. Len(log) \in Nat /\ durable \in 0..Len(log)
  BY LenProperties DEF Log!TypeOK
<1>2. ASSUME NEW a \in Artifact, Log!Put(a)
      PROVE  LogGrows
  <2>1. /\ Len(log') = Len(log) + 1
        /\ \A i \in 1..Len(log) : log'[i] = log[i]
    BY <1>2, AppendProperties DEF Log!TypeOK, Log!Put
  <2> QED BY <1>1, <1>2, <2>1 DEF Log!Put, LogGrows, Places
<1>3. CASE Log!Truncate
  BY <1>1, <1>3 DEF Log!Truncate, LogGrows, Places
<1> QED BY <1>1, <1>2, <1>3 DEF LegalLogStep, LogGrows, Places, logVars, Log!Sync, Log!Close

\* What one artifact more does to the places.
LEMMA AppendPlaces ==
  ASSUME log \in Seq(Artifact), NEW a, a \in Artifact, log' = Append(log, a),
         NEW n, n = Len(log) + 1
  PROVE  /\ n \in Nat /\ Places' = Places \cup {n} /\ log'[n] = a
         /\ \A i \in Places : i < n /\ ~(i > n) /\ i # n
         /\ \A i \in Places : log'[i] = log[i] /\ Before(i)' = Before(i)
         /\ Before(n)' = Logged
<1>1. /\ Len(log) \in Nat /\ Len(log') = n
      /\ \A i \in 1..Len(log) : log'[i] = log[i]
      /\ log'[n] = a
  BY AppendProperties
<1>2. ASSUME NEW i \in Places
      PROVE  Before(i)' = Before(i)
  <2>1. \A j \in 1..(i - 1) : log'[j] = log[j]
    BY <1>1 DEF Places
  <2> QED BY <2>1 DEF Before
<1>3. Before(n)' = Logged
  <2>1. 1..(n - 1) = 1..Len(log)
    BY <1>1
  <2> QED BY <1>1, <2>1 DEF Before, Logged, Places
<1>4. /\ n \in Nat /\ Places' = Places \cup {n}
      /\ \A i \in Places : i < n /\ ~(i > n) /\ i # n
      /\ \A i \in Places : log'[i] = log[i]
  BY <1>1 DEF Places
<1> QED BY <1>1, <1>2, <1>3, <1>4

\* Places before a place are places.
LEMMA BeforeLogged ==
  ASSUME Log!TypeOK, NEW i \in Places
  PROVE  Before(i) \subseteq Logged /\ log[i] \in Logged
<1>1. Len(log) \in Nat
  BY LenProperties DEF Log!TypeOK
<1> QED BY <1>1 DEF Before, Logged, Places

\* When one artifact more keeps the order of the run.
LEMMA OrderAppend ==
  ASSUME log \in Seq(Artifact), NEW a, a \in Artifact, log' = Append(log, a), RunOrder,
         a = SchemaVersion => Logged \subseteq {RunLog},
         a # RunLog /\ a # SchemaVersion => SchemaVersion \in Logged,
         a = RunError => RunStart \notin Logged,
         a \notin PreStart => RunStart \in Logged,
         a # RunLog => \A b \in Logged : ~IsRunEnd(b)
  PROVE  RunOrder' /\ Logged' = Logged \cup {a}
<1>1. Logged' = Logged \cup {a}
  BY LoggedAppend
<1>2. PICK n : n = Len(log) + 1
  OBVIOUS
<1>3. /\ n \in Nat /\ Places' = Places \cup {n} /\ log'[n] = a
      /\ \A i \in Places : i < n /\ ~(i > n) /\ i # n
      /\ \A i \in Places : log'[i] = log[i] /\ Before(i)' = Before(i)
      /\ Before(n)' = Logged
  BY <1>2, AppendPlaces
<1>4. ~(n > n)
  BY <1>3
<1>5. \A i \in Places : log[i] \in Logged
  BY DEF Logged
<1>6. RunOrder'
  <2>1. ASSUME NEW i \in Places
        PROVE  /\ log'[i] = SchemaVersion => Before(i)' \subseteq {RunLog}
               /\ log'[i] # RunLog => SchemaVersion \in Before(i)' \cup {log'[i]}
               /\ log'[i] = RunError => RunStart \notin Before(i)'
               /\ log'[i] \notin PreStart => RunStart \in Before(i)'
               /\ IsRunEnd(log'[i]) => \A j \in Places' : j > i => log'[j] = RunLog
    <3>1. IsRunEnd(log'[i]) => \A j \in Places' : j > i => log'[j] = RunLog
      BY <1>3, <1>5 DEF RunOrder
    <3> QED BY <1>3, <3>1 DEF RunOrder
  <2>2. /\ log'[n] = SchemaVersion => Before(n)' \subseteq {RunLog}
        /\ log'[n] # RunLog => SchemaVersion \in Before(n)' \cup {log'[n]}
        /\ log'[n] = RunError => RunStart \notin Before(n)'
        /\ log'[n] \notin PreStart => RunStart \in Before(n)'
        /\ \A j \in Places' : ~(j > n)
    BY <1>3, <1>4
  <2>3. IsRunEnd(log'[n]) => \A j \in Places' : j > n => log'[j] = RunLog
    BY <2>2
  <2>4. ASSUME NEW i \in Places'
        PROVE  /\ log'[i] = SchemaVersion => Before(i)' \subseteq {RunLog}
               /\ log'[i] # RunLog => SchemaVersion \in Before(i)' \cup {log'[i]}
               /\ log'[i] = RunError => RunStart \notin Before(i)'
               /\ log'[i] \notin PreStart => RunStart \in Before(i)'
               /\ IsRunEnd(log'[i]) => \A j \in Places' : j > i => log'[j] = RunLog
    <3>1. CASE i \in Places
      BY <2>1, <3>1
    <3>2. CASE i = n
      BY <2>2, <2>3, <3>2
    <3> QED BY <1>3, <3>1, <3>2
  <2> QED BY <2>4 DEF RunOrder
<1> QED BY <1>1, <1>6

\* The artifacts are told apart.
LEMMA RunArtifactsApart ==
  /\ SchemaVersion # RunLog /\ SchemaVersion # RunStart /\ SchemaVersion # RunError
  /\ RunLog # RunStart /\ RunLog # RunError /\ RunStart # RunError
  /\ ~IsRunEnd(SchemaVersion) /\ ~IsRunEnd(RunLog) /\ ~IsRunEnd(RunStart) /\ ~IsRunEnd(RunError)
  /\ \A x, y : IsRunEnd(RunEnd(x, y))
               /\ RunEnd(x, y).status = x /\ RunEnd(x, y).result = y
  /\ \A a \in InnerArtifact : a \notin PreStart /\ ~IsRunEnd(a)
<1>1. \A a \in InnerArtifact : a.kind \in {"SeriesStart", "Element", "SeriesEnd", "StepStart",
                                          "Content", "Failure", "StepError", "StepEnd"}
  BY DEF InnerArtifact, SeriesArtifact, StepArtifact, StepStart, Content, Failure, StepError,
         StepEnd
<1>2. /\ SchemaVersion.kind = "SchemaVersion" /\ RunLog.kind = "RunLog"
      /\ RunStart.kind = "RunStart" /\ RunError.kind = "RunError"
      /\ \A x, y : RunEnd(x, y).kind = "RunEnd"
  BY DEF SchemaVersion, RunLog, RunStart, RunError, RunEnd
<1>3. \A x, y : RunEnd(x, y).status = x /\ RunEnd(x, y).result = y
  BY DEF RunEnd
<1> QED BY <1>1, <1>2, <1>3 DEF IsRunEnd, PreStart

\* Nothing is written.
LEMMA OrderStays ==
  ASSUME log' = log, RunOrder
  PROVE  RunOrder' /\ Logged' = Logged
BY DEF RunOrder, Places, Before, Logged

\* A log message changes no order.
LEMMA OrderOfLogs ==
  ASSUME Log!TypeOK, RunOrder, Log!Put(RunLog),
         phase \notin {"absent", "constructing"} => SchemaVersion \in Logged
  PROVE  RunOrder' /\ Logged' = Logged \cup {RunLog}
<1>1. log \in Seq(Artifact) /\ RunLog \in Artifact /\ log' = Append(log, RunLog)
  BY Kinds DEF Log!TypeOK, Log!Put
<1>2. RunLog # SchemaVersion /\ RunLog # RunError /\ RunLog \in PreStart
  BY RunArtifactsApart DEF PreStart
<1> QED BY <1>1, <1>2, OrderAppend

\* The labels that say what the log holds.
OrderLabel == {"preError", "runStart", "finalize", "runEnd"}

\* A minor step logs a message at most, which may stand anywhere.
LEMMA MinorOrder ==
  ASSUME RunTypeOK, OrderInv, NEW t \in Threads, Minor(t), stepState' = stepState
  PROVE  OrderInv'
<1>1. RunOrder' /\ (Logged' = Logged \/ Logged' = Logged \cup {RunLog})
  BY OrderStays, OrderOfLogs
     DEF Minor, OrderInv, RunTypeOK, logVars, Log!Sync, Log!Truncate
<1>2. /\ UNCHANGED <<phase, started>>
      /\ \A u \in Threads : pc'[u] \in OrderLabel <=> pc[u] \in OrderLabel
  BY DEF Minor, OnlyMoves, OrderLabel
<1>3. \A u \in Threads : pc'[u] \in OrderLabel => pc'[u] = pc[u]
  BY DEF Minor, OnlyMoves, OrderLabel
<1>4. \A u \in Threads : pc[u] \in OrderLabel => pc'[u] = pc[u]
  BY DEF Minor, OnlyMoves, OrderLabel
<1>5. \A u \in Threads : pc'[u] \in {"preError", "runStart"} => runLock' = u
  BY <1>3, RunAssumption DEF Minor, OrderInv, OrderLabel
<1>6. \A a : IsRunEnd(a) /\ a \in Logged' => a \in Logged
  BY <1>1, RunArtifactsApart
<1>7. SchemaVersion \in Logged' <=> SchemaVersion \in Logged
  BY <1>1, RunArtifactsApart
<1>8. RunStart \in Logged' <=> RunStart \in Logged
  BY <1>1, RunArtifactsApart
<1>9. Logged' \subseteq Logged \cup {RunLog}
  BY <1>1
<1> QED BY <1>1, <1>2, <1>3, <1>4, <1>5, <1>6, <1>7, <1>8, <1>9 DEF OrderInv, OrderLabel

\* The constructor logs nothing yet; an error before the start precedes it under run_mutex_.
LEMMA MajorCallOrder ==
  ASSUME RunTypeOK, LifeInv, OrderInv, NEW t \in Threads, MajorCall(t), stepState' = stepState
  PROVE  OrderInv'
<1>1. CASE Construct(t)
  <2>1. RunOrder' /\ Logged' = Logged
    BY <1>1, OrderStays DEF Construct, OrderInv, logVars
  <2>2. /\ phase = "absent" /\ phase' = "constructing" /\ pc' = [pc EXCEPT ![t] = "register"]
        /\ UNCHANGED <<started, runLock>> /\ pc[t] = "idle"
    BY <1>1 DEF Construct, Goto, At
  <2> QED BY <2>1, <2>2 DEF OrderInv, RunTypeOK
<1>2. CASE ~started /\ AddPreStartError(t)
  <2>1. /\ ~started /\ phase = "alive" /\ runLock = Nobody /\ runLock' = t
        /\ Log!Put(RunError) /\ pc' = [pc EXCEPT ![t] = "preError"]
        /\ UNCHANGED <<phase, started>>
    BY <1>2 DEF AddPreStartError, Calls, Goto
  <2>2. /\ RunStart \notin Logged /\ SchemaVersion \in Logged
        /\ \A a \in Logged : ~IsRunEnd(a)
    BY <2>1 DEF OrderInv
  <2>3. RunOrder' /\ Logged' = Logged \cup {RunError}
    <3>1. RunError \in PreStart /\ RunError # SchemaVersion
      BY RunArtifactsApart DEF PreStart
    <3> QED BY <2>1, <2>2, <3>1, Kinds, OrderAppend DEF OrderInv, RunTypeOK, Log!TypeOK, Log!Put
  <2>4. RunStart \notin Logged' /\ SchemaVersion \in Logged' /\ \A a \in Logged' : ~IsRunEnd(a)
    BY <2>2, <2>3, RunArtifactsApart
  <2>5. \A u \in Threads : pc[u] \notin {"preError", "runStart"}
    BY <2>1, RunAssumption DEF OrderInv
  <2>6. \A s \in Steps : stepState'[s] = "absent"
    BY <2>2 DEF OrderInv
  <2> QED BY <2>1, <2>3, <2>4, <2>5, <2>6 DEF OrderInv, RunTypeOK
<1>3. CASE StartAndRegisterDutInfo(t)
  <2>1. RunOrder' /\ Logged' = Logged
    BY <1>3, OrderStays DEF StartAndRegisterDutInfo, OrderInv, logVars
  <2>2. /\ phase = "alive" /\ runLock = Nobody /\ runLock' = t /\ started'
        /\ pc' = [pc EXCEPT ![t] = "runStart"] /\ phase' = phase
    BY <1>3 DEF StartAndRegisterDutInfo, Calls, Goto
  <2>3. \A u \in Threads : pc[u] \notin {"preError", "runStart"}
    BY <2>2, RunAssumption DEF OrderInv
  <2> QED BY <2>1, <2>2, <2>3 DEF OrderInv, RunTypeOK
<1>4. CASE Skip(t)
  <2>1. RunOrder' /\ Logged' = Logged
    BY <1>4, OrderStays DEF Skip, OrderInv, logVars
  <2>2. UNCHANGED <<phase, started, runLock, pc>>
    BY <1>4 DEF Skip, lifeVars
  <2> QED BY <2>1, <2>2 DEF OrderInv, RunTypeOK
<1> QED BY <1>1, <1>2, <1>3, <1>4 DEF MajorCall

\* Nothing is logged, and the step is not about the order.
LEMMA OrderKept ==
  ASSUME RunTypeOK, OrderInv, NEW t \in Threads, NEW l, pc' = [pc EXCEPT ![t] = l],
         log' = log, UNCHANGED <<started, stepState>>,
         runLock' = runLock \/ pc[t] = "preError",
         phase' = phase \/ (phase = "destroying" /\ phase' = "gone"),
         l \notin OrderLabel \/ (pc[t] = "finalize" /\ l = "runEnd"),
         pc[t] # "runStart"
  PROVE  OrderInv'
<1>0. pc'[t] = l /\ \A u \in Threads \ {t} : pc'[u] = pc[u]
  BY DEF RunTypeOK
<1>1. RunOrder' /\ Logged' = Logged
  BY OrderStays DEF OrderInv
<1>2. \A u \in Threads : pc'[u] \in {"preError", "runStart"} => u # t /\ pc[u] = pc'[u]
  BY <1>0 DEF OrderLabel
<1>3. \A u \in Threads : pc[u] = "runStart" => pc'[u] = "runStart"
  BY <1>0
<1>4. \A u \in Threads : pc'[u] \in {"preError", "runStart"} => runLock' = u
  BY <1>2 DEF OrderInv
<1>5. \A u \in Threads : pc'[u] \in {"finalize", "runEnd"} => pc[u] \in {"finalize", "runEnd"}
  BY <1>0 DEF OrderLabel
<1> QED BY <1>1, <1>2, <1>3, <1>4, <1>5 DEF OrderInv

\* SchemaVersion before anything but messages, RunStart once and under the lock, RunEnd last.
LEMMA MajorContinueOrder ==
  ASSUME RunTypeOK, LifeInv, OrderInv, NEW t \in Threads, MajorContinue(t),
         stepState' = stepState
  PROVE  OrderInv'
<1> USE DEF At, Goto
<1>1. CASE RegisterLogSink(t)
  <2>1. /\ pc[t] = "register" /\ pc' = [pc EXCEPT ![t] = "schema"] /\ log' = log /\ phase' = phase
        /\ UNCHANGED <<started, stepState>>
        /\ runLock' = runLock \/ pc[t] = "preError"
    BY <1>1 DEF RegisterLogSink, logVars, lifeVars
  <2>2. /\ pc[t] # "runStart"
        /\ "schema" \notin OrderLabel \/ (pc[t] = "finalize" /\ "schema" = "runEnd")
    BY <2>1 DEF OrderLabel
  <2> QED BY <2>1, <2>2, OrderKept
<1>2. CASE EmitSchemaVersion(t)
  <2>1. /\ phase = "constructing" /\ Log!Put(SchemaVersion) /\ phase' = "alive"
        /\ pc' = [pc EXCEPT ![t] = "idle"] /\ UNCHANGED <<started, runLock>>
        /\ pc[t] = "schema"
    BY <1>2 DEF EmitSchemaVersion, LifeInv, ConstructLabel
  <2>2. Logged \subseteq {RunLog}
    BY <2>1 DEF OrderInv
  <2>3. RunOrder' /\ Logged' = Logged \cup {SchemaVersion}
    <3>1. SchemaVersion \in PreStart /\ SchemaVersion # RunError
      BY RunArtifactsApart DEF PreStart
    <3> QED BY <2>1, <2>2, <3>1, Kinds, RunArtifactsApart, OrderAppend
               DEF OrderInv, RunTypeOK, Log!TypeOK, Log!Put
  <2>4. \A a \in Logged' : a # RunStart /\ ~IsRunEnd(a)
    BY <2>2, <2>3, RunArtifactsApart
  <2>5. ~started
    <3>1. \A u \in Threads : pc[u] # "runStart"
      BY <2>1 DEF LifeInv, OutsideLabel, ConstructLabel, EndLabel, ClosingLabel
    <3> QED BY <2>2, <3>1, RunArtifactsApart DEF OrderInv
  <2>6. /\ RunStart \notin Logged
        /\ \A s \in Steps : stepState[s] = "absent"
    BY <2>2, RunArtifactsApart DEF OrderInv
  <2> QED BY <2>1, <2>3, <2>4, <2>5, <2>6 DEF OrderInv, RunTypeOK
<1>3. CASE NotifyPreStartError(t)
  <2>1. /\ pc[t] = "preError" /\ pc' = [pc EXCEPT ![t] = "idle"] /\ log' = log /\ phase' = phase
        /\ UNCHANGED <<started, stepState>>
        /\ runLock' = runLock \/ pc[t] = "preError"
    BY <1>3 DEF NotifyPreStartError, logVars, lifeVars
  <2>2. /\ pc[t] # "runStart"
        /\ "idle" \notin OrderLabel \/ (pc[t] = "finalize" /\ "idle" = "runEnd")
    BY <2>1 DEF OrderLabel
  <2> QED BY <2>1, <2>2, OrderKept
<1>4. CASE EmitStart(t)
  <2>2. /\ phase = "alive" /\ Log!Put(RunStart) /\ phase' = phase
        /\ pc' = [pc EXCEPT ![t] = "idle"] /\ pc[t] = "runStart" /\ started' = started
    BY <1>4 DEF EmitStart, LifeInv, OutsideLabel, ConstructLabel, EndLabel, ClosingLabel
  <2>3. started /\ runLock = t /\ SchemaVersion \in Logged /\ \A a \in Logged : ~IsRunEnd(a)
    BY <2>2 DEF OrderInv
  <2>4. RunOrder' /\ Logged' = Logged \cup {RunStart}
    <3>1. RunStart \in PreStart /\ RunStart # RunError /\ RunStart # SchemaVersion
      BY RunArtifactsApart DEF PreStart
    <3> QED BY <2>2, <2>3, <3>1, Kinds, OrderAppend DEF OrderInv, RunTypeOK, Log!TypeOK, Log!Put
  <2>5. \A a \in Logged' : ~IsRunEnd(a)
    BY <2>3, <2>4, RunArtifactsApart
  <2>6. \A u \in Threads : pc'[u] \notin {"preError", "runStart"}
    BY <2>2, <2>3 DEF OrderInv, RunTypeOK
  <2> QED BY <2>2, <2>3, <2>4, <2>5, <2>6 DEF OrderInv, RunTypeOK
<1>5. CASE EndFinalize(t)
  <2>1. /\ pc[t] = "finalize" /\ pc' = [pc EXCEPT ![t] = "runEnd"] /\ log' = log /\ phase' = phase
        /\ UNCHANGED <<started, stepState>>
        /\ runLock' = runLock \/ pc[t] = "preError"
    BY <1>5 DEF EndFinalize, logVars, lifeVars
  <2>2. /\ pc[t] # "runStart"
        /\ "runEnd" \notin OrderLabel \/ (pc[t] = "finalize" /\ "runEnd" = "runEnd")
    BY <2>1 DEF OrderLabel
  <2> QED BY <2>1, <2>2, OrderKept
<1>6. CASE EmitEnd(t)
  <2> DEFINE a == RunEnd(runStatus, runResult)
  <2>1. a \in Artifact /\ IsRunEnd(a) /\ a # SchemaVersion /\ a # RunError
    BY Kinds, RunArtifactsApart
       DEF RunTypeOK, RunArtifact, CalculatorTypeOK, TestStatus, TestResult, Status, Result
  <2>2. /\ phase = "destroying" /\ Log!Put(a) /\ UNCHANGED <<phase, started, runLock>>
        /\ pc' = [pc EXCEPT ![t] = "runEndFlush"] /\ pc[t] = "runEnd"
    BY <1>6 DEF EmitEnd, LifeInv, lifeVars, EndLabel
  <2> HIDE DEF a
  <2>3. RunStart \in Logged /\ SchemaVersion \in Logged /\ \A b \in Logged : ~IsRunEnd(b)
    BY <2>2 DEF OrderInv
  <2>4. RunOrder' /\ Logged' = Logged \cup {a}
    BY <2>1, <2>2, <2>3, OrderAppend DEF OrderInv, RunTypeOK, Log!TypeOK, Log!Put
  <2>5. \A u \in Threads : pc'[u] \notin {"finalize", "runEnd"}
    BY <2>2 DEF LifeInv, EndLabel, RunTypeOK
  <2>6. \A u \in Threads : pc'[u] \in {"preError", "runStart"} => pc'[u] = pc[u]
    BY <2>2 DEF RunTypeOK
  <2>7. \A u \in Threads : pc[u] = "runStart" => pc'[u] = pc[u]
    BY <2>2 DEF RunTypeOK
  <2> QED BY <2>2, <2>3, <2>4, <2>5, <2>6, <2>7 DEF OrderInv, RunTypeOK
<1>7. CASE FlushEnd(t)
  <2>1. \A u \in Threads : pc[u] \notin {"preError", "runStart"}
    BY <1>7 DEF FlushEnd, LifeInv, OutsideLabel, ConstructLabel, EndLabel, ClosingLabel
  <2>2. /\ log' = log /\ UNCHANGED <<started, phase>> /\ pc' = [pc EXCEPT ![t] = "deregister"]
    BY <1>7 DEF FlushEnd, Log!Sync
  <2>3. RunOrder' /\ Logged' = Logged
    BY <2>2, OrderStays DEF OrderInv
  <2> QED BY <2>1, <2>2, <2>3 DEF OrderInv, RunTypeOK
<1>8. CASE DeregisterLogSink(t)
  <2>1. /\ pc[t] = "deregister" /\ pc' = [pc EXCEPT ![t] = "unset"] /\ log' = log /\ phase' = phase
        /\ UNCHANGED <<started, stepState>>
        /\ runLock' = runLock \/ pc[t] = "preError"
    BY <1>8 DEF DeregisterLogSink, logVars, lifeVars
  <2>2. /\ pc[t] # "runStart"
        /\ "unset" \notin OrderLabel \/ (pc[t] = "finalize" /\ "unset" = "runEnd")
    BY <2>1 DEF OrderLabel
  <2> QED BY <2>1, <2>2, OrderKept
<1>9. CASE UnsetInitializationGuard(t)
  <2>1. /\ pc[t] = "unset" /\ pc' = [pc EXCEPT ![t] = "close"] /\ log' = log /\ phase' = phase
        /\ UNCHANGED <<started, stepState>>
        /\ runLock' = runLock \/ pc[t] = "preError"
    BY <1>9 DEF UnsetInitializationGuard, logVars, lifeVars
  <2>2. /\ pc[t] # "runStart"
        /\ "close" \notin OrderLabel \/ (pc[t] = "finalize" /\ "close" = "runEnd")
    BY <2>1 DEF OrderLabel
  <2> QED BY <2>1, <2>2, OrderKept
<1>10. CASE DestroyWriter(t)
  <2>1. phase = "destroying"
    BY <1>10 DEF DestroyWriter, LifeInv, EndLabel, ClosingLabel
  <2>2. /\ pc[t] = "close" /\ pc' = [pc EXCEPT ![t] = "idle"] /\ log' = log /\ phase' = "gone"
        /\ UNCHANGED <<started, stepState>> /\ runLock' = runLock
    BY <1>10 DEF DestroyWriter, Log!Close
  <2>3. pc[t] # "runStart" /\ "idle" \notin OrderLabel
    BY <2>2 DEF OrderLabel
  <2> QED BY <2>1, <2>2, <2>3, OrderKept
<1> QED
  BY <1>1, <1>2, <1>3, <1>4, <1>5, <1>6, <1>7, <1>8, <1>9, <1>10 DEF MajorContinue

\* The destructor starts a run that was never started, before it ends it.
LEMMA DestroyOrder ==
  ASSUME RunTypeOK, LifeInv, OrderInv, NEW t \in Threads, Destroy(t), stepState' = stepState
  PROVE  OrderInv'
<1>1. /\ phase = "alive" /\ phase' = "destroying" /\ started' = started /\ runLock' = t
      /\ pc' = [pc EXCEPT ![t] = "finalize"]
      /\ \A u \in Threads : pc[u] \in {"idle", "guard"}
  BY DEF Destroy, Calls, Goto
<1>2. SchemaVersion \in Logged /\ \A a \in Logged : ~IsRunEnd(a)
  BY <1>1 DEF OrderInv
<1>3. /\ RunOrder' /\ RunStart \in Logged' /\ SchemaVersion \in Logged'
      /\ \A a \in Logged' : ~IsRunEnd(a)
  <2>1. CASE started
    BY <1>1, <1>2, <2>1, OrderStays DEF Destroy, logVars, OrderInv
  <2>2. CASE ~started
    <3>1. RunStart \in PreStart /\ RunStart # RunError /\ RunStart # SchemaVersion
      BY RunArtifactsApart DEF PreStart
    <3>2. RunOrder' /\ Logged' = Logged \cup {RunStart}
      BY <1>2, <2>2, <3>1, Kinds, OrderAppend
         DEF Destroy, OrderInv, RunTypeOK, Log!TypeOK, Log!Put
    <3> QED BY <1>2, <3>2, RunArtifactsApart
  <2> QED BY <2>1, <2>2
<1> QED BY <1>1, <1>3 DEF OrderInv, RunTypeOK

\* Steps exist after the start only, so that what they log follows it.
LEMMA InnerOrder ==
  ASSUME RunTypeOK, LifeInv, OrderInv, NEW t \in Threads, Inner(t)
  PROVE  OrderInv'
<1>1. phase = "alive" /\ UNCHANGED <<phase, started, runLock>>
  BY DEF Inner, lifeVars
<1>2. \A u \in Threads : pc'[u] \in OrderLabel <=> pc[u] \in OrderLabel
  BY DEF Inner, OnlyMoves, OrderLabel, InnerLabel, StepLabel, SeriesLabel
<1>3. \A u \in Threads : pc[u] \in OrderLabel => pc'[u] = pc[u]
  BY DEF Inner, OnlyMoves, OrderLabel, InnerLabel, StepLabel, SeriesLabel
<1>4. SchemaVersion \in Logged /\ \A a \in Logged : ~IsRunEnd(a)
  BY <1>1 DEF OrderInv
<1>5. /\ RunOrder' /\ Logged \subseteq Logged'
      /\ \A a \in Logged' \ Logged : a # RunStart /\ ~IsRunEnd(a)
  <2>1. CASE Silent(t) \/ Tells(t)
    BY <2>1, OrderStays DEF Silent, Tells, logVars, Log!Sync, OrderInv
  <2>2. CASE Complains(t)
    BY <1>4, <2>2, OrderOfLogs, RunArtifactsApart DEF Complains, OrderInv, RunTypeOK
  <2>3. ASSUME NEW a \in InnerArtifact, Emits(t, a)
        PROVE  RunOrder' /\ Logged' = Logged \cup {a} /\ a # RunStart /\ ~IsRunEnd(a)
    <3>1. a \in Artifact /\ a \notin PreStart /\ ~IsRunEnd(a)
      BY Kinds, SeriesKinds, RunArtifactsApart DEF InnerArtifact
    <3>2. RunStart \in Logged
      BY <2>3 DEF Emits, OrderInv
    <3>3. a # RunStart /\ a # RunError /\ a # SchemaVersion
      BY <3>1 DEF PreStart
    <3> QED BY <1>4, <2>3, <3>1, <3>2, <3>3, OrderAppend
               DEF Emits, Log!Put, OrderInv, RunTypeOK, Log!TypeOK
  <2> QED BY <2>1, <2>2, <2>3 DEF Inner
<1>6. \A s \in Steps : stepState'[s] # "absent" => RunStart \in Logged
  <2>1. ASSUME started, runLock = Nobody PROVE RunStart \in Logged
    BY <2>1, RunAssumption DEF OrderInv
  <2> QED BY <2>1 DEF Inner, OrderInv
<1>7. \A a \in Logged' : ~IsRunEnd(a)
  BY <1>4, <1>5
<1> QED BY <1>1, <1>2, <1>3, <1>4, <1>5, <1>6, <1>7 DEF OrderInv, OrderLabel

-----------------------------------------------------------------------------
(***************************************************************************)
(* The verdict in the run's end, and what the log tells.                   *)
(***************************************************************************)

\* When one artifact more keeps the verdict in the log true.
LEMMA VerdictAppend ==
  ASSUME log \in Seq(Artifact), NEW a, a \in Artifact, log' = Append(log, a),
         VerdictMatchesLog,
         IsRunEnd(a) =>
           /\ a.status = "Complete" => ~ErrorLogged
           /\ a.status = "Error" => ErrorLogged
           /\ a.result = "Pass" => ~FailureLogged
           /\ a.result = "Fail" => FailureLogged
           /\ a.status = "Complete" <=> a.result # "NotApplicable"
  PROVE  VerdictMatchesLog' /\ Logged' = Logged \cup {a}
<1>1. PICK n : n = Len(log) + 1
  OBVIOUS
<1>2. /\ Places' = Places \cup {n} /\ log'[n] = a
      /\ \A i \in Places : log'[i] = log[i] /\ Before(i)' = Before(i)
      /\ Before(n)' = Logged
  BY <1>1, AppendPlaces
<1>3. VerdictMatchesLog'
  BY <1>2 DEF VerdictMatchesLog, ErrorLogged, FailureLogged
<1> QED BY <1>3, LoggedAppend

\* Nothing is logged.
LEMMA VerdictStays ==
  ASSUME log' = log, VerdictMatchesLog
  PROVE  VerdictMatchesLog' /\ Logged' = Logged
BY DEF VerdictMatchesLog, Places, Before, Logged

\* The labels that say what the calculator has been told.
VerdictLabel == {"preError", "emitError", "emitFailure", "finalize", "runEnd"}

\* A step of thread t that tells the calculator nothing and logs no error or failure.
LEMMA VerdictKept ==
  ASSUME VerdictInv, NEW t \in Threads, OnlyMoves(t),
         UNCHANGED <<finalized, runStatus, runResult>>,
         pc'[t] \notin VerdictLabel \/ (pc'[t] = "finalize" /\ ~finalized),
         pc[t] \in {"emitError", "emitFailure", "dying"} => pc'[t] = "dying",
         pc[t] # "preError",
         \/ phase' = phase \/ phase # "alive"
         \/ \A u \in Threads : pc[u] \notin {"emitError", "emitFailure", "dying"},
         finalized => phase' \in {"destroying", "gone"},
         Logged \subseteq Logged',
         \A a \in Logged' : a \notin Logged => a \notin Errors /\ a \notin Failures,
         VerdictMatchesLog'
  PROVE  VerdictInv'
<1>1. (ErrorLogged' <=> ErrorLogged) /\ (FailureLogged' <=> FailureLogged)
  BY DEF ErrorLogged, FailureLogged, Errors, Failures
<1>2. \A u \in Threads :
        /\ pc'[u] \in VerdictLabel => pc[u] = pc'[u] \/ (pc'[u] = "finalize" /\ ~finalized)
        /\ pc[u] = "preError" => pc'[u] = "preError"
        /\ pc[u] = "emitError" => pc'[u] \in {"emitError", "dying"}
        /\ pc[u] = "emitFailure" => pc'[u] \in {"emitFailure", "dying"}
        /\ pc[u] = "dying" => pc'[u] = "dying"
  BY DEF OnlyMoves, VerdictLabel
<1>3. ~finalized => Undecided'
  BY <1>1, <1>2 DEF VerdictInv, Undecided
<1>4. finalized => Decided'
  <2>1. finalized => \A u \in Threads : pc'[u] # "finalize"
    BY <1>2 DEF VerdictInv, Decided, VerdictLabel
  <2> QED BY <1>1, <2>1 DEF VerdictInv, Decided
<1>5. \A u \in Threads :
       /\ pc'[u] = "preError" => RunError \in Logged'
       /\ pc'[u] = "emitError" => runStatus' # "Unknown"
       /\ pc'[u] = "emitFailure" => runResult' = "Fail" \/ runStatus' # "Unknown"
       /\ pc'[u] = "runEnd" => finalized'
  BY <1>2 DEF VerdictInv, VerdictLabel
<1> QED BY <1>3, <1>4, <1>5 DEF VerdictInv

\* The run's artifacts other than an error tell nothing, and only the end has a verdict.
LEMMA QuietArtifact ==
  ASSUME RunTypeOK, VerdictMatchesLog, NEW a \in {RunLog, SchemaVersion, RunStart}, Log!Put(a)
  PROVE  /\ VerdictMatchesLog' /\ Logged' = Logged \cup {a}
         /\ a \notin Errors /\ a \notin Failures
<1>1. a \in RunArtifact /\ ~IsRunEnd(a) /\ a # RunError
  BY Kinds, RunArtifactsApart
<1>2. a.kind \in {"RunLog", "SchemaVersion", "RunStart"}
  BY DEF RunLog, SchemaVersion, RunStart
<1>3. a \notin Errors /\ a \notin Failures
  BY <1>2 DEF Errors, Failures, RunError, StepError, Failure
<1> QED BY <1>1, <1>3, Kinds, VerdictAppend DEF RunTypeOK, Log!TypeOK, Log!Put

\* A step that tells nothing: what it writes.
Untold ==
  /\ VerdictMatchesLog'
  /\ Logged \subseteq Logged'
  /\ \A a \in Logged' : a \notin Logged => a \notin Errors /\ a \notin Failures

\* Messages, the schema version and the start of the run tell nothing.
LEMMA QuietWrite ==
  ASSUME RunTypeOK, VerdictMatchesLog,
         log' = log \/ \E a \in {RunLog, SchemaVersion, RunStart} : Log!Put(a)
  PROVE  Untold
BY VerdictStays, QuietArtifact DEF Untold

\* A minor step tells nothing.
LEMMA MinorVerdict ==
  ASSUME RunTypeOK, VerdictInv, NEW t \in Threads, Minor(t)
  PROVE  VerdictInv'
<1>1. Untold
  BY QuietWrite DEF Minor, VerdictInv, logVars, Log!Sync, Log!Truncate
<1> QED BY <1>1, VerdictKept
           DEF Minor, Untold, VerdictLabel, calculatorVars, VerdictInv, Decided

\* The calls of TestRun: of them the error before the start and the skip matter.
LEMMA CallVerdict ==
  ASSUME RunTypeOK, LifeInv, VerdictInv, NEW t \in Threads, MajorCall(t)
  PROVE  VerdictInv'
<1> USE DEF At, Calls, Goto
<1>1. CASE Construct(t)
  <2>1. Untold
    BY <1>1, QuietWrite DEF Construct, VerdictInv, logVars
  <2>2. /\ pc[t] = "idle" /\ pc'[t] = "register" /\ OnlyMoves(t)
        /\ UNCHANGED <<finalized, runStatus, runResult>> /\ ~finalized
        /\ phase = "absent" /\ phase' = "constructing"
    BY <1>1 DEF Construct, calculatorVars, OnlyMoves, RunTypeOK, VerdictInv, Decided
  <2> QED BY <2>1, <2>2, VerdictKept DEF Untold, VerdictLabel
<1>2. CASE ~started /\ AddPreStartError(t)
  <2>1. /\ pc[t] = "idle" /\ pc' = [pc EXCEPT ![t] = "preError"] /\ phase = "alive"
        /\ UNCHANGED <<finalized, runStatus, runResult, phase>> /\ Log!Put(RunError)
    BY <1>2 DEF AddPreStartError, calculatorVars
  <2>2. ~finalized
    BY <2>1 DEF VerdictInv, Decided
  <2>3. VerdictMatchesLog' /\ Logged' = Logged \cup {RunError}
    BY <2>1, Kinds, RunArtifactsApart, VerdictAppend
       DEF VerdictInv, RunTypeOK, Log!TypeOK, Log!Put
  <2>4. RunError \in Errors /\ RunError \notin Failures
    <3>1. RunError.kind = "RunError" /\ \A a \in Failures : a.kind = "Failure"
      BY DEF RunError, Failures, Failure
    <3> QED BY <3>1 DEF Errors
  <2>5. ErrorLogged' /\ (FailureLogged' <=> FailureLogged) /\ pc'[t] = "preError"
    BY <2>1, <2>3, <2>4 DEF ErrorLogged, FailureLogged, Errors, Failures, RunTypeOK
  <2>6. \A u \in Threads : u # t => pc'[u] = pc[u]
    BY <2>1 DEF RunTypeOK
  <2>7. Undecided'
    BY <2>1, <2>2, <2>5, <2>6 DEF VerdictInv, Undecided
  <2> QED BY <2>1, <2>2, <2>3, <2>5, <2>6, <2>7 DEF VerdictInv
<1>3. CASE StartAndRegisterDutInfo(t)
  <2>1. Untold
    BY <1>3, QuietWrite DEF StartAndRegisterDutInfo, VerdictInv, logVars
  <2>2. /\ pc[t] = "idle" /\ pc'[t] = "runStart" /\ OnlyMoves(t) /\ phase' = phase
        /\ UNCHANGED <<finalized, runStatus, runResult>>
    BY <1>3 DEF StartAndRegisterDutInfo, NotifyStartRun, OnlyMoves, RunTypeOK
  <2> QED BY <2>1, <2>2, VerdictKept DEF Untold, VerdictLabel, VerdictInv, Decided
<1>4. CASE Skip(t)
  <2>1. /\ ~finalized /\ UNCHANGED <<finalized, phase, pc>>
        /\ runStatus' = IF runStatus = "Unknown" THEN "Skip" ELSE runStatus
        /\ runResult' = IF runStatus = "Unknown" THEN "NotApplicable" ELSE runResult
    BY <1>4 DEF Skip, NotifySkip, SetStatusOnce, CheckFinalized, lifeVars
  <2>2. VerdictMatchesLog' /\ Logged' = Logged
    BY <1>4, VerdictStays DEF Skip, logVars, VerdictInv
  <2>3. (ErrorLogged' <=> ErrorLogged) /\ (FailureLogged' <=> FailureLogged)
    BY <2>2 DEF ErrorLogged, FailureLogged, Errors, Failures
  <2>4. Undecided'
    BY <2>1, <2>3 DEF VerdictInv, Undecided
  <2> QED BY <2>1, <2>2, <2>4 DEF VerdictInv
<1> QED BY <1>1, <1>2, <1>3, <1>4 DEF MajorCall

\* What goes on in them: NotifyError after the artifact, and Finalize with what was told.
LEMMA ContinueVerdict ==
  ASSUME RunTypeOK, LifeInv, VerdictInv, NEW t \in Threads, MajorContinue(t)
  PROVE  VerdictInv'
<1> USE DEF At, Goto
\* The steps that tell nothing.
<1>0. ASSUME NEW l, pc' = [pc EXCEPT ![t] = l], l \notin VerdictLabel,
             pc[t] \notin {"preError", "emitError", "emitFailure", "dying"},
             UNCHANGED <<finalized, runStatus, runResult>>,
             phase' = phase \/ (phase = "constructing" /\ ~finalized)
               \/ (phase = "destroying" /\ phase' = "gone"),
             Untold
      PROVE  VerdictInv'
  <2>1. pc'[t] = l /\ OnlyMoves(t)
    BY <1>0 DEF OnlyMoves, RunTypeOK
  <2>2. finalized => phase' \in {"destroying", "gone"}
    BY <1>0 DEF VerdictInv, Decided
  <2> QED BY <1>0, <2>1, <2>2, VerdictKept DEF Untold
<1> USE DEF VerdictLabel
<1>1. CASE RegisterLogSink(t)
  <2>1. Untold
    BY <1>1, QuietWrite DEF RegisterLogSink, VerdictInv, logVars
  <2> QED BY <1>1, <2>1, <1>0 DEF RegisterLogSink, calculatorVars
<1>2. CASE EmitSchemaVersion(t)
  <2>1. Untold
    BY <1>2, QuietWrite DEF EmitSchemaVersion, VerdictInv
  <2>2. phase = "constructing" /\ ~finalized
    BY <1>2 DEF EmitSchemaVersion, LifeInv, ConstructLabel, VerdictInv, Decided
  <2> QED BY <1>2, <2>1, <2>2, <1>0 DEF EmitSchemaVersion, calculatorVars
<1>3. CASE NotifyPreStartError(t)
  <2>1. /\ pc[t] = "preError" /\ pc' = [pc EXCEPT ![t] = "idle"] /\ phase' = phase
        /\ ~finalized /\ finalized' = finalized
        /\ runStatus' = IF runStatus = "Unknown" THEN "Error" ELSE runStatus
        /\ runResult' = IF runStatus = "Unknown" THEN "NotApplicable" ELSE runResult
        /\ log' = log
    BY <1>3 DEF NotifyPreStartError, NotifyError, SetStatusOnce, CheckFinalized, logVars
  <2>2. VerdictMatchesLog' /\ Logged' = Logged
    BY <2>1, VerdictStays DEF VerdictInv
  <2>3. (ErrorLogged' <=> ErrorLogged) /\ (FailureLogged' <=> FailureLogged)
    BY <2>2 DEF ErrorLogged, FailureLogged, Errors, Failures
  <2>4. ErrorLogged
    BY <2>1 DEF VerdictInv, ErrorLogged, Errors
  <2>5. \A u \in Threads : pc'[u] \in VerdictLabel => pc'[u] = pc[u]
    BY <2>1 DEF RunTypeOK
  <2>6. \A u \in Threads : pc[u] \in {"emitError", "emitFailure", "dying"} => pc'[u] = pc[u]
    BY <2>1 DEF RunTypeOK
  <2>7. Undecided'
    BY <2>1, <2>3, <2>4, <2>6 DEF VerdictInv, Undecided
  <2> QED BY <2>1, <2>2, <2>5, <2>7 DEF VerdictInv
<1>4. CASE EmitStart(t)
  <2>1. Untold
    BY <1>4, QuietWrite DEF EmitStart, VerdictInv
  <2> QED BY <1>4, <2>1, <1>0 DEF EmitStart, calculatorVars
<1>5. CASE EndFinalize(t)
  <2>1. /\ pc[t] = "finalize" /\ pc' = [pc EXCEPT ![t] = "runEnd"] /\ phase' = phase
        /\ ~finalized /\ finalized' = TRUE /\ log' = log
    BY <1>5 DEF EndFinalize, Finalize, CheckFinalized, logVars, lifeVars
  <2>2. VerdictMatchesLog' /\ Logged' = Logged
    BY <2>1, VerdictStays DEF VerdictInv
  <2>3. (ErrorLogged' <=> ErrorLogged) /\ (FailureLogged' <=> FailureLogged)
    BY <2>2 DEF ErrorLogged, FailureLogged, Errors, Failures
  <2>4. /\ phase = "destroying"
        /\ \A u \in Threads :
             pc'[u] # "finalize" /\ pc[u] \notin {"preError", "emitError", "emitFailure"}
    BY <2>1 DEF LifeInv, RunTypeOK, OutsideLabel, ConstructLabel, EndLabel, ClosingLabel
  <2>5. Undecided
    BY <2>1 DEF VerdictInv
  <2>6. \/ /\ runStatus = "Unknown" /\ runStatus' = "Complete"
           /\ runResult' = IF runResult = "NotApplicable" THEN "Pass" ELSE runResult
        \/ runStatus' = "Skip" /\ runResult' = "NotApplicable"
        \/ runStatus # "Unknown" /\ runStatus' = runStatus /\ runResult' = runResult
    BY <1>5 DEF EndFinalize, Finalize
  <2>7. Decided'
    <3>1. /\ runStatus = "Unknown" => ~ErrorLogged /\ (FailureLogged <=> runResult = "Fail")
          /\ runStatus # "Unknown" => runResult = "NotApplicable"
          /\ runStatus = "Error" => ErrorLogged
          /\ runStatus \in {"Unknown", "Error", "Skip"} /\ runResult \in {"NotApplicable", "Fail"}
      BY <2>4, <2>5 DEF Undecided
    <3> QED BY <2>1, <2>3, <2>4, <2>6, <3>1 DEF Decided
  <2>8. \A u \in Threads : pc'[u] \notin {"preError", "emitError", "emitFailure"}
    BY <2>1, <2>4 DEF RunTypeOK
  <2> QED BY <2>1, <2>2, <2>7, <2>8 DEF VerdictInv
<1>6. CASE EmitEnd(t)
  <2> DEFINE a == RunEnd(runStatus, runResult)
  <2>1. a \in RunArtifact /\ a.status = runStatus /\ a.result = runResult /\ a # RunError
    BY RunArtifactsApart
       DEF RunTypeOK, RunArtifact, CalculatorTypeOK, TestStatus, TestResult, Status, Result
  <2>2. a \notin Errors /\ a \notin Failures
    <3>1. a.kind = "RunEnd"
      BY DEF RunEnd
    <3> QED BY <3>1 DEF Errors, Failures, RunError, StepError, Failure
  <2>3. Decided
    BY <1>6 DEF EmitEnd, VerdictInv
  <2>4. log' = Append(log, a)
    BY <1>6 DEF EmitEnd, Log!Put
  <2> HIDE DEF a
  <2>5. VerdictMatchesLog' /\ Logged' = Logged \cup {a}
    BY <2>1, <2>3, <2>4, Kinds, VerdictAppend DEF VerdictInv, Decided, RunTypeOK, Log!TypeOK
  <2>6. Untold
    BY <2>2, <2>5 DEF Untold
  <2> QED BY <1>6, <2>6, <1>0 DEF EmitEnd, calculatorVars, lifeVars
<1>7. CASE FlushEnd(t)
  <2>1. Untold
    BY <1>7, QuietWrite DEF FlushEnd, Log!Sync, VerdictInv
  <2> QED BY <1>7, <2>1, <1>0 DEF FlushEnd, calculatorVars
<1>8. CASE DeregisterLogSink(t)
  <2>1. Untold
    BY <1>8, QuietWrite DEF DeregisterLogSink, VerdictInv, logVars
  <2> QED BY <1>8, <2>1, <1>0 DEF DeregisterLogSink, calculatorVars
<1>9. CASE UnsetInitializationGuard(t)
  <2>1. Untold
    BY <1>9, QuietWrite DEF UnsetInitializationGuard, VerdictInv, logVars
  <2> QED BY <1>9, <2>1, <1>0 DEF UnsetInitializationGuard, calculatorVars
<1>10. CASE DestroyWriter(t)
  <2>1. Untold
    BY <1>10, QuietWrite DEF DestroyWriter, Log!Close, VerdictInv
  <2>2. phase = "destroying"
    BY <1>10 DEF DestroyWriter, LifeInv, EndLabel, ClosingLabel
  <2> QED BY <1>10, <2>1, <2>2, <1>0 DEF DestroyWriter, calculatorVars
<1> QED
  BY <1>1, <1>2, <1>3, <1>4, <1>5, <1>6, <1>7, <1>8, <1>9, <1>10 DEF MajorContinue

\* The destructor begins when nobody is between telling and logging.
LEMMA DestroyVerdict ==
  ASSUME RunTypeOK, VerdictInv, NEW t \in Threads, Destroy(t)
  PROVE  VerdictInv'
<1>1. Untold
  BY QuietWrite DEF Destroy, VerdictInv, logVars
<1>2. /\ phase = "alive" /\ pc' = [pc EXCEPT ![t] = "finalize"]
      /\ \A u \in Threads : pc[u] \in {"idle", "guard"}
      /\ UNCHANGED <<finalized, runStatus, runResult>>
  BY DEF Destroy, Calls, At, Goto, calculatorVars
<1>3. pc'[t] = "finalize" /\ OnlyMoves(t) /\ ~finalized
  BY <1>2 DEF OnlyMoves, RunTypeOK, VerdictInv, Decided
<1> QED BY <1>1, <1>2, <1>3, VerdictKept DEF Untold

\* Steps tell of an error or a failure first and log it then, while the run is undecided.
LEMMA InnerVerdict ==
  ASSUME RunTypeOK, VerdictInv, NEW t \in Threads, Inner(t)
  PROVE  VerdictInv'
<1>1. /\ phase = "alive" /\ phase' = phase /\ OnlyMoves(t)
      /\ pc[t] \notin {"preError", "dying"}
      /\ pc'[t] \notin {"preError", "finalize", "runEnd"}
  BY DEF Inner, lifeVars, InnerLabel, StepLabel, SeriesLabel
<1>2. ~finalized
  BY <1>1 DEF VerdictInv, Decided
<1>3. ASSUME UNCHANGED calculatorVars, pc'[t] \notin Telling,
             pc[t] \in Telling => pc'[t] = "dying", Untold
      PROVE  VerdictInv'
  BY <1>1, <1>2, <1>3, VerdictKept DEF Untold, VerdictLabel, Telling, calculatorVars
<1>4. CASE Silent(t)
  <2>1. Untold
    BY <1>4, QuietWrite DEF Silent, VerdictInv, logVars, Log!Sync
  <2> QED BY <1>3, <1>4, <2>1 DEF Silent
<1>5. CASE Complains(t)
  <2>1. Untold
    BY <1>5, QuietWrite DEF Complains, VerdictInv
  <2> QED BY <1>3, <1>5, <2>1 DEF Complains, Telling
<1>6. ASSUME NEW a \in InnerArtifact, Emits(t, a)
      PROVE  VerdictInv'
  <2>1. VerdictMatchesLog' /\ Logged' = Logged \cup {a}
    <3>1. a \in Artifact /\ ~IsRunEnd(a)
      BY Kinds, SeriesKinds, RunArtifactsApart DEF InnerArtifact
    <3> QED BY <1>6, <3>1, VerdictAppend DEF Emits, Log!Put, VerdictInv, RunTypeOK, Log!TypeOK
  <2>2. CASE pc[t] \notin Telling
    <3>1. Untold
      BY <1>6, <2>1, <2>2 DEF Untold, Emits, Telling
    <3> QED BY <1>3, <1>6, <2>2, <3>1 DEF Emits
  <2>3. CASE pc[t] \in Telling
    <3>1. /\ UNCHANGED <<finalized, runStatus, runResult>> /\ pc'[t] \notin VerdictLabel
          /\ a \in Errors <=> pc[t] = "emitError"
          /\ a \in Failures <=> pc[t] = "emitFailure"
      BY <1>1, <1>6 DEF Emits, calculatorVars, VerdictLabel, Telling
    <3>2. /\ ErrorLogged' <=> ErrorLogged \/ pc[t] = "emitError"
          /\ FailureLogged' <=> FailureLogged \/ pc[t] = "emitFailure"
      BY <2>1, <3>1 DEF ErrorLogged, FailureLogged, Errors, Failures
    <3>3. \A u \in Threads : pc'[u] \in VerdictLabel => pc'[u] = pc[u]
      BY <1>1, <3>1 DEF OnlyMoves
    <3>4. \A u \in Threads : u # t => pc'[u] = pc[u]
      BY <1>1 DEF OnlyMoves
    <3>5. Undecided'
      BY <1>1, <1>2, <2>3, <3>1, <3>2, <3>4 DEF VerdictInv, Undecided, Telling
    <3> QED BY <1>2, <2>1, <3>1, <3>3, <3>5 DEF VerdictInv, VerdictLabel
  <2> QED BY <2>2, <2>3
<1>7. CASE Tells(t)
  <2>1. VerdictMatchesLog' /\ Logged' = Logged
    BY <1>7, VerdictStays DEF Tells, logVars, VerdictInv
  <2>2. (ErrorLogged' <=> ErrorLogged) /\ (FailureLogged' <=> FailureLogged)
    BY <2>1 DEF ErrorLogged, FailureLogged, Errors, Failures
  <2>3. \A u \in Threads : u # t => pc'[u] = pc[u]
    BY <1>1 DEF OnlyMoves
  <2>4. pc[t] \in {"notifyError", "idle"} /\ finalized' = finalized
    BY <1>7 DEF Tells, NotifyError, SetStatusOnce, NotifyFailureDiagnosis
  <2>5. \/ /\ pc'[t] = "emitError"
           /\ runStatus' = IF runStatus = "Unknown" THEN "Error" ELSE runStatus
           /\ runResult' = IF runStatus = "Unknown" THEN "NotApplicable" ELSE runResult
        \/ /\ pc'[t] = "emitFailure" /\ runStatus' = runStatus
           /\ runResult' = IF runResult = "NotApplicable" /\ runStatus = "Unknown"
                           THEN "Fail" ELSE runResult
    BY <1>7 DEF Tells, NotifyError, SetStatusOnce, NotifyFailureDiagnosis
  <2>6. Undecided'
    BY <1>1, <1>2, <2>2, <2>3, <2>4, <2>5 DEF VerdictInv, Undecided
  <2>7. \A u \in Threads :
         /\ pc'[u] = "preError" => RunError \in Logged'
         /\ pc'[u] = "emitError" => runStatus' # "Unknown"
         /\ pc'[u] = "emitFailure" => runResult' = "Fail" \/ runStatus' # "Unknown"
         /\ pc'[u] = "runEnd" => finalized'
    BY <1>1, <1>2, <2>1, <2>3, <2>4, <2>5 DEF VerdictInv, Undecided
  <2> QED BY <1>2, <2>1, <2>4, <2>6, <2>7 DEF VerdictInv
<1> QED BY <1>4, <1>5, <1>6, <1>7 DEF Inner

-----------------------------------------------------------------------------
(***************************************************************************)
(* What is in the file, and when the end of the run is.                    *)
(***************************************************************************)

\* What is in the log stays there, and what is in a file that is not lost
\* stays in the file.
LEMMA GrowsPlaces ==
  ASSUME Log!TypeOK, Log!TypeOK', LogGrows
  PROVE  /\ Logged \subseteq Logged'
         /\ file' = "open" =>
              /\ file = "open"
              /\ \A i \in 1..durable : i \in 1..durable' /\ log'[i] = log[i]
              /\ durable = Len(log) /\ log' = log => durable' = Len(log')
<1>1. /\ Len(log) \in Nat /\ durable \in 0..Len(log)
      /\ Len(log') \in Nat /\ durable' \in 0..Len(log')
  BY LenProperties DEF Log!TypeOK
<1>2. ASSUME file' = "open", NEW i \in 1..durable
      PROVE  i \in 1..durable' /\ log'[i] = log[i]
  BY <1>1, <1>2 DEF LogGrows, Places
<1>3. ASSUME NEW i \in Places
      PROVE  log[i] \in Logged'
  <2>1. i \in Places' /\ log'[i] = log[i]
    BY <1>1 DEF LogGrows, Places
  <2> QED BY <2>1 DEF Logged
<1>4. file' = "open" =>
        file = "open" /\ (durable = Len(log) /\ log' = log => durable' = Len(log'))
  BY <1>1 DEF LogGrows
<1> QED BY <1>2, <1>3, <1>4 DEF Logged

\* A run that has not come to its end has its file, unless another TestRun
\* has taken it and kills the program.
LossIsFatal ==
  file = "lost" /\ phase \notin {"destroying", "gone"} =>
    \E t \in Threads : pc[t] \in {"guard", "dying"}

\* A step that does not come nearer to the end of the run.
LEMMA FarFromEnd ==
  ASSUME Log!TypeOK, Log!TypeOK', LogGrows, EndInv, LossIsFatal', NEW t \in Threads,
         OnlyMoves(t), pc'[t] # "runEndFlush",
         pc'[t] \in ClosingLabel => pc[t] \in ClosingLabel,
         phase' = "gone" => phase = "gone" /\ log' = log,
         file' = "open" /\ aborted' /\ sinkOn' => durable' = Len(log')
  PROVE  EndInv'
<1>1. /\ Logged \subseteq Logged'
      /\ file' = "open" =>
           /\ file = "open"
           /\ \A i \in 1..durable : i \in 1..durable' /\ log'[i] = log[i]
           /\ durable = Len(log) /\ log' = log => durable' = Len(log')
  BY GrowsPlaces
<1>2. ASSUME NEW u \in Threads, pc'[u] = "runEndFlush"
      PROVE  \E a \in Logged' : IsRunEnd(a)
  BY <1>1, <1>2 DEF EndInv, OnlyMoves
<1>3. ASSUME NEW u \in Threads, pc'[u] \in ClosingLabel, file' = "open"
      PROVE  \E i \in 1..durable' : IsRunEnd(log'[i])
  <2>1. pc[u] \in ClosingLabel
    BY <1>3 DEF OnlyMoves
  <2>2. PICK i \in 1..durable : IsRunEnd(log[i])
    BY <1>1, <1>3, <2>1 DEF EndInv, DurableAtTheEnd
  <2> QED BY <1>1, <1>3, <2>2
<1>4. file' = "open" /\ phase' = "gone" => durable' = Len(log')
  BY <1>1 DEF EndInv, DurableAtTheEnd
<1>5. DurableAtTheEnd'
  BY <1>3, <1>4 DEF DurableAtTheEnd, LossIsFatal
<1>6. (\A u \in Threads : pc[u] = "runEndFlush" => \E a \in Logged : IsRunEnd(a))'
  BY <1>2
<1>7. /\ (\A u \in Threads : pc[u] = "runEndFlush" => \E a \in Logged : IsRunEnd(a))'
      /\ DurableAtTheEnd'
  BY <1>6, <1>5
<1> QED BY <1>7 DEF EndInv

\* A thread that leaves the file as it is.
LEMMA LossStaysFatal ==
  ASSUME LossIsFatal, NEW t \in Threads, OnlyMoves(t), file' = file,
         phase \in {"destroying", "gone"} => phase' \in {"destroying", "gone"},
         pc[t] # "guard", pc[t] = "dying" => pc'[t] = "dying"
  PROVE  LossIsFatal'
BY DEF LossIsFatal, OnlyMoves

\* The methods of TestRun: EmitEnd logs the end, FlushEnd brings it to the file, the writer closes.
LEMMA RunsEnd ==
  ASSUME RunTypeOK, RunTypeOK', LifeInv, LogGrows, EndInv, NEW t \in Threads,
         Minor(t) \/ Major(t)
  PROVE  EndInv'
<1>1. Log!TypeOK /\ Log!TypeOK' /\ ~aborted
  BY DEF RunTypeOK, Minor, Major, MajorCall, MajorContinue, Construct, AddPreStartError,
         StartAndRegisterDutInfo, Skip, RegisterLogSink, EmitSchemaVersion, NotifyPreStartError,
         EmitStart, EndFinalize, EmitEnd, FlushEnd, DeregisterLogSink, UnsetInitializationGuard,
         DestroyWriter, Destroy, Calls, At
<1>0. LossIsFatal
  BY DEF EndInv, DurableAtTheEnd, LossIsFatal
<1>2. CASE Minor(t)
  <2>1. file' = "open" /\ aborted' /\ sinkOn' => durable' = Len(log')
    BY <1>2 DEF Minor, Log!Sync
  <2>2. phase' = "gone" => phase = "gone" /\ log' = log
    BY <1>2 DEF Minor, LifeInv, logVars
  <2>3. OnlyMoves(t) /\ pc'[t] \in {"idle", "guard", "relog", "fatal", "dying"}
    BY <1>2 DEF Minor
  <2>4. pc'[t] # "runEndFlush" /\ pc'[t] \notin ClosingLabel
    BY <2>3 DEF ClosingLabel
  <2>5. LossIsFatal'
    <3>1. CASE pc'[t] \in {"guard", "dying"}
      BY <3>1 DEF LossIsFatal
    <3>2. CASE pc'[t] \notin {"guard", "dying"}
      <4>1. file' = file /\ phase' = phase
        BY <1>2, <3>2 DEF Minor, logVars, Log!Sync, Log!Put
      <4>2. pc[t] # "dying" /\ (pc[t] = "guard" => ~initialized)
        BY <1>2, <3>2 DEF Minor
      <4> QED BY <1>0, <2>3, <4>1, <4>2, LossStaysFatal DEF LossIsFatal, LifeInv, RunTypeOK
    <3> QED BY <3>1, <3>2
  <2> QED BY <1>1, <2>1, <2>2, <2>3, <2>4, <2>5, FarFromEnd
<1>3. CASE MajorCall(t)
  <2>1. /\ aborted' = aborted /\ phase' # "gone" /\ OnlyMoves(t)
        /\ pc'[t] # "runEndFlush" /\ pc'[t] \notin ClosingLabel
    BY <1>3 DEF MajorCall, Construct, AddPreStartError, StartAndRegisterDutInfo, Skip,
                Calls, At, Goto, lifeVars, OnlyMoves, RunTypeOK, ClosingLabel
  <2>2. ~(aborted' /\ sinkOn')
    BY <1>1, <2>1
  <2>3. LossIsFatal'
    <3>1. /\ file' = file /\ pc[t] = "idle"
          /\ phase \in {"destroying", "gone"} => phase' \in {"destroying", "gone"}
      BY <1>3 DEF MajorCall, Construct, AddPreStartError, StartAndRegisterDutInfo, Skip,
                  Calls, At, lifeVars, logVars, Log!Put
    <3> QED BY <1>0, <2>1, <3>1, LossStaysFatal
  <2> QED BY <1>1, <2>1, <2>2, <2>3, FarFromEnd
<1>4. CASE MajorContinue(t)
  <2> USE DEF At, Goto
  <2>1. aborted' = aborted /\ OnlyMoves(t)
    BY <1>4 DEF MajorContinue, RegisterLogSink, EmitSchemaVersion, NotifyPreStartError,
         EmitStart, EndFinalize, EmitEnd, FlushEnd, DeregisterLogSink, UnsetInitializationGuard,
         DestroyWriter, OnlyMoves, RunTypeOK
  <2>0. file' = file /\ pc[t] \notin {"guard", "dying"}
    BY <1>4 DEF MajorContinue, RegisterLogSink, EmitSchemaVersion, NotifyPreStartError,
         EmitStart, EndFinalize, EmitEnd, FlushEnd, DeregisterLogSink, UnsetInitializationGuard,
         DestroyWriter, logVars, Log!Put, Log!Sync
  <2>8. phase \in {"destroying", "gone"} => phase' \in {"destroying", "gone"}
    BY <1>4 DEF MajorContinue, RegisterLogSink, EmitSchemaVersion, NotifyPreStartError,
         EmitStart, EndFinalize, EmitEnd, FlushEnd, DeregisterLogSink, UnsetInitializationGuard,
         DestroyWriter, lifeVars, LifeInv, ConstructLabel
  <2>9. LossIsFatal'
    BY <1>0, <2>0, <2>1, <2>8, LossStaysFatal
  <2>2. CASE RegisterLogSink(t) \/ EmitSchemaVersion(t) \/ NotifyPreStartError(t)
             \/ EmitStart(t) \/ EndFinalize(t)
    <3>1. phase' # "gone" /\ pc'[t] \in {"schema", "idle", "runEnd"}
      BY <2>2
         DEF RegisterLogSink, EmitSchemaVersion, NotifyPreStartError, EmitStart, EndFinalize,
         RunTypeOK, LifeInv, lifeVars, OutsideLabel, ConstructLabel, EndLabel, ClosingLabel
    <3> QED BY <1>1, <2>1, <2>9, <3>1, FarFromEnd DEF ClosingLabel
  <2>3. CASE DeregisterLogSink(t) \/ UnsetInitializationGuard(t)
    <3>1. phase' # "gone" /\ pc'[t] \in {"unset", "close"} /\ pc[t] \in ClosingLabel
      BY <2>3 DEF DeregisterLogSink, UnsetInitializationGuard,
         RunTypeOK, LifeInv, lifeVars, EndLabel, ClosingLabel
    <3> QED BY <1>1, <2>1, <2>9, <3>1, FarFromEnd
  <2>4. /\ pc[t] \in {"runEnd", "runEndFlush", "close"} =>
             /\ phase = "destroying"
             /\ \A u \in Threads : pc[u] \in EndLabel => u = t
    BY DEF LifeInv, EndLabel, ClosingLabel
  <2>5. CASE EmitEnd(t)
    <3>1. RunEnd(runStatus, runResult) \in Artifact
      BY Kinds
         DEF RunTypeOK, RunArtifact, CalculatorTypeOK, TestStatus, TestResult, Status, Result
    <3>2. Logged' = Logged \cup {RunEnd(runStatus, runResult)}
      BY <1>1, <2>5, <3>1, LoggedAppend DEF EmitEnd, Log!Put, Log!TypeOK
    <3>3. \E a \in Logged' : IsRunEnd(a)
      BY <3>2, RunArtifactsApart
    <3>4. /\ phase' = "destroying" /\ pc'[t] = "runEndFlush"
          /\ \A u \in Threads : pc'[u] \notin ClosingLabel
      BY <2>4, <2>5 DEF EmitEnd, lifeVars, RunTypeOK, EndLabel, ClosingLabel
    <3> QED BY <1>1, <2>1, <2>9, <3>3, <3>4 DEF EndInv, DurableAtTheEnd, LossIsFatal
  <2>6. CASE FlushEnd(t)
    <3>1. \E i \in Places : IsRunEnd(log[i])
      BY <2>6 DEF FlushEnd, EndInv, Logged
    <3>2. log' = log /\ (file' = "open" => durable' = Len(log'))
      BY <2>6 DEF FlushEnd, Log!Sync
    <3>3. file' = "open" => \E i \in 1..durable' : IsRunEnd(log'[i])
      BY <3>1, <3>2 DEF Places
    <3>4. \A u \in Threads : pc'[u] # "runEndFlush"
      BY <2>4, <2>6 DEF FlushEnd, RunTypeOK, EndLabel
    <3> QED BY <1>1, <2>1, <2>9, <3>2, <3>3, <3>4 DEF EndInv, DurableAtTheEnd, LossIsFatal
  <2>7. CASE DestroyWriter(t)
    <3>1. log' = log /\ (file' = "open" => durable' = Len(log'))
      BY <2>0, <2>7 DEF DestroyWriter, Log!Close
    <3>2. \A u \in Threads : pc'[u] \notin EndLabel
      BY <2>4, <2>7 DEF DestroyWriter, RunTypeOK, EndLabel, ClosingLabel
    <3> QED BY <2>9, <3>1, <3>2 DEF EndInv, DurableAtTheEnd, LossIsFatal, EndLabel
  <2> QED BY <1>4, <2>2, <2>3, <2>5, <2>6, <2>7 DEF MajorContinue
<1>5. CASE Destroy(t)
  <2>1. /\ aborted' = aborted /\ phase' = "destroying" /\ OnlyMoves(t)
        /\ pc'[t] = "finalize"
    BY <1>5 DEF Destroy, Calls, At, Goto, OnlyMoves, RunTypeOK
  <2>2. LossIsFatal'
    BY <2>1 DEF LossIsFatal
  <2> QED BY <1>1, <2>1, <2>2, FarFromEnd DEF ClosingLabel
<1> QED BY <1>2, <1>3, <1>4, <1>5 DEF Major

\* Methods of steps and series come no nearer to the end of the run.
LEMMA InnerEnd ==
  ASSUME RunTypeOK, RunTypeOK', LifeInv, LogGrows, EndInv, NEW t \in Threads, Inner(t)
  PROVE  EndInv'
<1>1. /\ ~aborted' /\ phase' # "gone" /\ OnlyMoves(t)
      /\ pc'[t] \notin ClosingLabel \cup {"runEndFlush"}
  BY DEF Inner, lifeVars, InnerLabel, StepLabel, SeriesLabel, ClosingLabel
<1>2. LossIsFatal'
  <2>1. LossIsFatal
    BY DEF EndInv, DurableAtTheEnd, LossIsFatal
  <2>2. /\ file' = file /\ phase' = phase
        /\ pc[t] \notin {"guard", "dying"}
    BY DEF Inner, Silent, Complains, Emits, Tells, logVars, lifeVars, Log!Put, Log!Sync,
           InnerLabel, StepLabel, SeriesLabel
  <2> QED BY <1>1, <2>1, <2>2, LossStaysFatal
<1> QED BY <1>1, <1>2, FarFromEnd DEF RunTypeOK

-----------------------------------------------------------------------------
(***************************************************************************)
(* The theorems about the run.                                             *)
(***************************************************************************)

\* The inductive invariant of the run.
RunInv == CoreInv /\ OrderInv /\ VerdictInv /\ EndInv

\* Nothing is logged before the TestRun is constructed.
LEMMA InitRun == SeriesInit => RunInv
<1> SUFFICES ASSUME SeriesInit PROVE RunInv
  OBVIOUS
<1>1. CoreInv
  BY InitSeries, InitLife DEF CoreInv
<1>2. /\ log = <<>> /\ durable = 0 /\ file = "open" /\ phase = "absent" /\ ~started /\ ~aborted
      /\ ~finalized /\ runStatus = "Unknown" /\ runResult = "NotApplicable"
      /\ \A t \in Threads : pc[t] = "idle"
  BY DEF SeriesInit, StepInit, RunInit, Log!Init, CalculatorInit
<1>3. \A s \in Steps : stepState[s] = "absent"
  BY DEF SeriesInit, StepInit
<1>4. Len(log) = 0
  BY <1>2
<1>5. Places = {}
  BY <1>4 DEF Places
<1>6. Logged = {}
  BY <1>5 DEF Logged
<1>7. OrderInv
  BY <1>2, <1>3, <1>5, <1>6 DEF OrderInv, RunOrder
<1>8. VerdictInv
  BY <1>2, <1>5, <1>6 DEF VerdictInv, VerdictMatchesLog, Undecided, ErrorLogged, FailureLogged
<1>9. EndInv
  BY <1>2 DEF EndInv, DurableAtTheEnd, ClosingLabel
<1> QED BY <1>1, <1>7, <1>8, <1>9 DEF RunInv

\* No step of the library takes anything from the log or the file.
LEMMA StepGrows ==
  ASSUME CoreInv, [Next]_resultsVars
  PROVE  LogGrows
BY LegalStep, Grows DEF CoreInv, SeriesInv, BracketInv, StepTypeOK, RunTypeOK

\* The invariant of the run is inductive.
LEMMA NextRun == RunInv /\ [Next]_resultsVars => RunInv'
<1> SUFFICES ASSUME RunInv, [Next]_resultsVars PROVE RunInv'
  OBVIOUS
<1>1. CoreInv' /\ LogGrows /\ RunTypeOK /\ RunTypeOK' /\ LifeInv /\ OrderInv /\ VerdictInv /\ EndInv
  BY NextCore, StepGrows DEF RunInv, CoreInv, SeriesInv, BracketInv, StepTypeOK
<1>2. ASSUME NEW t \in Threads, RunsOwn(t)
      PROVE  OrderInv' /\ VerdictInv' /\ EndInv'
  <2>1. (Minor(t) \/ Major(t)) /\ stepState' = stepState
    BY <1>2 DEF RunsOwn, stepVars
  <2>2. OrderInv'
    BY <1>1, <2>1, MinorOrder, MajorCallOrder, MajorContinueOrder, DestroyOrder DEF Major
  <2>3. VerdictInv'
    BY <1>1, <2>1, MinorVerdict, CallVerdict, ContinueVerdict, DestroyVerdict DEF Major
  <2>4. EndInv'
    BY <1>1, <2>1, RunsEnd
  <2> QED BY <2>2, <2>3, <2>4
<1>3. ASSUME NEW t \in Threads, Inner(t)
      PROVE  OrderInv' /\ VerdictInv' /\ EndInv'
  BY <1>1, <1>3, InnerOrder, InnerVerdict, InnerEnd
<1>4. CASE UNCHANGED resultsVars
  <2>1. UNCHANGED <<log, durable, file, phase, sinkOn, started, runLock, pc, aborted, finalized,
                    runStatus, runResult, stepState>>
    BY <1>4 DEF resultsVars, stepsVars, runVars, logVars, lifeVars, calculatorVars, stepVars
  <2>2. Logged' = Logged /\ RunOrder' /\ VerdictMatchesLog'
    BY <1>1, <2>1, OrderStays, VerdictStays DEF OrderInv, VerdictInv
  <2>3. (ErrorLogged' <=> ErrorLogged) /\ (FailureLogged' <=> FailureLogged)
    BY <2>2 DEF ErrorLogged, FailureLogged, Errors, Failures
  <2>4. started \in BOOLEAN /\ finalized \in BOOLEAN /\ aborted \in BOOLEAN /\ sinkOn \in BOOLEAN
    BY <1>1 DEF RunTypeOK, CalculatorTypeOK
  <2>5. OrderInv'
    BY <1>1, <2>1, <2>2, <2>4 DEF OrderInv
  <2>6. VerdictInv'
    BY <1>1, <2>1, <2>2, <2>3, <2>4 DEF VerdictInv, Undecided, Decided
  <2>7. EndInv'
    BY <1>1, <2>1, <2>2, <2>4 DEF EndInv, DurableAtTheEnd
  <2> QED BY <1>1, <2>5, <2>6, <2>7 DEF RunInv
<1> QED BY <1>1, <1>2, <1>3, <1>4, Moves DEF RunInv

(***************************************************************************)
(* The inductive invariant of the run holds in every reachable state of    *)
(* the library, however its threads interleave and wherever a CHECK ends   *)
(* the program.                                                            *)
(***************************************************************************)
THEOREM RunInvAlways == Spec => []RunInv
BY InitRun, NextRun, PTL DEF Spec

(***************************************************************************)
(* The order of a run's artifacts (test_run.cc), whatever threads report   *)
(* errors, log messages and start the run: nothing but messages before the *)
(* schema version, errors without a step before the start only, everything *)
(* else after it, and nothing but messages after the end.                  *)
(***************************************************************************)
THEOREM RunOrderAlways == Spec => []RunOrder
<1>1. RunInv => RunOrder
  BY DEF RunInv, OrderInv
<1> QED BY <1>1, RunInvAlways, PTL

(***************************************************************************)
(* TestRun's destructor (test_run.cc) ends the run with the verdict that   *)
(* the artifacts before the end deserve: never COMPLETE after an error,    *)
(* nor PASS after a failure diagnosis, and ERROR and FAIL only with        *)
(* something in the log to show for it, although the calculator is told    *)
(* before the artifact is logged or after it, by threads that race.        *)
(***************************************************************************)
THEOREM VerdictMatchesLogAlways == Spec => []VerdictMatchesLog
<1>1. RunInv => VerdictMatchesLog
  BY DEF RunInv, VerdictInv
<1> QED BY <1>1, RunInvAlways, PTL

(***************************************************************************)
(* Unless a second TestRun truncates the file: when the destructor of      *)
(* TestRun (test_run.cc) has flushed, the end of the run is in the file,   *)
(* and when it has returned the whole log is; a program that aborts while  *)
(* the sink is registered leaves a complete file behind (log_sink.h).  And *)
(* a run that has not come to its end is never truncated by a TestRun that *)
(* goes on: the initialization guard kills the program.                    *)
(***************************************************************************)
THEOREM DurableAtTheEndAlways == Spec => []DurableAtTheEnd
<1>1. RunInv => DurableAtTheEnd
  BY DEF RunInv, EndInv
<1> QED BY <1>1, RunInvAlways, PTL

-----------------------------------------------------------------------------
(***************************************************************************)
(* The ends of steps: what they tell, and when they are in the file.       *)
(***************************************************************************)

\* Thread t is in TestStep::End of s, between the artifact and the flush.
Flushes(t, s) == on[t] = s /\ pc[t] = "stepEndFlush"

\* Thread t is in TestStep::AddError of s, between the status and the artifact.
Erring(t, s) == on[t] = s /\ pc[t] \in {"notifyError", "emitError"}

\* The file, unless it is lost, holds the end of step s.
StepEndsInFile(s) == file = "open" => \E i \in 1..durable : IsStepEnd(log[i], s)

\* The start of step s.
StepStartsInFile(s) == file = "open" => \E i \in 1..durable : log[i] = StepStart(s)

\* The status of the end of step s is that of the errors before it.
TellsErrors(s) ==
  \A i \in Places : IsStepEnd(log[i], s) =>
    IF StepError(s) \in Before(i) THEN log[i].status = "Error"
    ELSE log[i].status = "Error" => MidError(s)

(***************************************************************************)
(* Of each step: who flushes its end holds its lock, an end that was       *)
(* emitted is in the file or being flushed, and the status is an error     *)
(* exactly when the log tells of one, or a thread has set it and not       *)
(* logged yet.                                                             *)
(***************************************************************************)
StepEnds(s) ==
  /\ \A t \in Threads : Flushes(t, s) =>
       stepLock[s] = t /\ \E a \in Logged : IsStepEnd(a, s)
  /\ stepEnded[s] => StepEndsInFile(s) \/ \E t \in Threads : Flushes(t, s)
  /\ stepState[s] \notin {"absent", "starting"} => StepStartsInFile(s)
  /\ StepError(s) \in Logged => stepStatus[s] = "Error"
  /\ \A t \in Threads : Erring(t, s) => stepStatus[s] = "Error"
  /\ stepStatus[s] = "Error" => StepError(s) \in Logged \/ MidError(s)
  /\ TellsErrors(s)

\* What is in the file stays there.
LEMMA InFile ==
  ASSUME Log!TypeOK, Log!TypeOK', LogGrows, NEW s \in Steps
  PROVE  /\ StepEndsInFile(s) => StepEndsInFile(s)'
         /\ StepStartsInFile(s) => StepStartsInFile(s)'
<1>1. file' = "open" =>
        file = "open" /\ \A i \in 1..durable : i \in 1..durable' /\ log'[i] = log[i]
  BY GrowsPlaces
<1> QED BY <1>1 DEF StepEndsInFile, StepStartsInFile, IsStepEnd

\* An artifact that is not the step's end leaves what its end tells alone.
LEMMA TellsKept ==
  ASSUME Log!TypeOK, NEW s \in Steps, TellsErrors(s),
         MidError(s) => MidError(s)' \/ \A b \in Logged : ~IsStepEnd(b, s),
         \/ log' = log
         \/ \E a \in Artifact : log' = Append(log, a) /\ ~IsStepEnd(a, s)
  PROVE  TellsErrors(s)'
<1>1. \A i \in Places : IsStepEnd(log[i], s) => (MidError(s) => MidError(s)')
  BY DEF Logged
<1>2. CASE log' = log
  <2>1. Places' = Places /\ \A i \in Places : Before(i)' = Before(i)
    BY <1>2 DEF Places, Before
  <2> QED BY <1>1, <1>2, <2>1 DEF TellsErrors, IsStepEnd
<1>3. ASSUME NEW a \in Artifact, log' = Append(log, a), ~IsStepEnd(a, s)
      PROVE  TellsErrors(s)'
  <2>1. PICK n : n = Len(log) + 1
    OBVIOUS
  <2>2. /\ Places' = Places \cup {n} /\ log'[n] = a
        /\ \A i \in Places : log'[i] = log[i] /\ Before(i)' = Before(i)
    BY <1>3, <2>1, AppendPlaces DEF Log!TypeOK
  <2> QED BY <1>1, <1>3, <2>2 DEF TellsErrors, IsStepEnd
<1> QED BY <1>2, <1>3

\* A step that brings step s nowhere nearer to its end.
LEMMA StepAside ==
  ASSUME Log!TypeOK, Log!TypeOK', LogGrows, NEW s \in Steps, StepEnds(s),
         \A u \in Threads : Flushes(u, s)' <=> Flushes(u, s),
         \A u \in Threads : Erring(u, s)' => Erring(u, s),
         MidError(s) => MidError(s)',
         \/ stepState[s] \notin {"absent", "starting"}
         \/ stepState'[s] \in {"absent", "starting"}
         \/ StepStartsInFile(s)',
         stepStatus'[s] = "Error" <=> stepStatus[s] = "Error",
         stepEnded'[s] = stepEnded[s],
         stepLock'[s] = stepLock[s] \/ stepLock[s] = Nobody,
         \/ log' = log
         \/ \E a \in Artifact : log' = Append(log, a) /\ ~IsStepEnd(a, s) /\ a # StepError(s)
  PROVE  StepEnds(s)'
<1>1. TellsErrors(s)'
  BY TellsKept DEF StepEnds
<1>2. Logged \subseteq Logged' /\ (StepError(s) \in Logged' => StepError(s) \in Logged)
  <2>1. CASE log' = log
    BY <2>1 DEF Logged, Places
  <2>2. ASSUME NEW a \in Artifact, log' = Append(log, a), a # StepError(s)
        PROVE  Logged' = Logged \cup {a}
    BY <2>2, LoggedAppend DEF Log!TypeOK
  <2> QED BY <2>1, <2>2
<1>3. \A u \in Threads : Flushes(u, s)' =>
        stepLock'[s] = u /\ \E a \in Logged' : IsStepEnd(a, s)
  BY <1>2, RunAssumption DEF StepEnds
<1>4. stepEnded'[s] => StepEndsInFile(s)' \/ \E u \in Threads : Flushes(u, s)'
  BY InFile DEF StepEnds
<1>5. stepState'[s] \notin {"absent", "starting"} => StepStartsInFile(s)'
  BY InFile DEF StepEnds
<1>6. /\ StepError(s) \in Logged' => stepStatus'[s] = "Error"
      /\ \A u \in Threads : Erring(u, s)' => stepStatus'[s] = "Error"
      /\ stepStatus'[s] = "Error" => StepError(s) \in Logged' \/ MidError(s)'
  BY <1>2 DEF StepEnds
<1>7. (StepError(s) \in Logged)' <=> StepError(s) \in Logged'
  BY DEF StepError
<1> QED BY <1>1, <1>3, <1>4, <1>5, <1>6, <1>7 DEF StepEnds, IsStepEnd

-----------------------------------------------------------------------------
(***************************************************************************)
(* The methods of one step.                                                *)
(***************************************************************************)

\* Thread t accounts for an error status of s that the log does not tell of yet.
Mid(t, s) == on[t] = s /\ pc[t] \in {"notifyError", "emitError", "dying"}

\* The labels of one thread change, and none of those that matter.
LEMMA LabelsAside ==
  ASSUME NEW t \in Threads, NEW s \in Steps,
         \A u \in Threads \ {t} : pc'[u] = pc[u] /\ on'[u] = on[u],
         ~Flushes(t, s), ~Flushes(t, s)',
         Erring(t, s)' => Erring(t, s),
         Mid(t, s) => Mid(t, s)'
  PROVE  /\ \A u \in Threads : Flushes(u, s)' <=> Flushes(u, s)
         /\ \A u \in Threads : Erring(u, s)' => Erring(u, s)
         /\ MidError(s) => MidError(s)'
BY DEF Flushes, Erring, Mid, MidError

\* A CHECK fails in a method of step s, whether the step's lock is taken or not.
LEMMA StepDies ==
  ASSUME StepTypeOK, Log!TypeOK', LogGrows, NEW t \in Threads, NEW s \in Steps, StepEnds(s),
         CheckFails(t), on' = [on EXCEPT ![t] = s],
         UNCHANGED <<stepState, stepStatus, stepEnded>>,
         pc[t] # "stepEndFlush",
         stepLock'[s] = stepLock[s] \/ stepLock[s] = Nobody
  PROVE  StepEnds(s)'
<1>1. Log!TypeOK
  BY DEF StepTypeOK, RunTypeOK
<1>2. /\ pc'[t] = "dying" /\ on'[t] = s
      /\ \A u \in Threads \ {t} : pc'[u] = pc[u] /\ on'[u] = on[u]
  BY DEF CheckFails, Goto, StepTypeOK, RunTypeOK
<1>3. ~Flushes(t, s) /\ ~Flushes(t, s)' /\ ~Erring(t, s)' /\ Mid(t, s)'
  BY <1>2 DEF Flushes, Erring, Mid
<1>4. RunLog \in Artifact /\ ~IsStepEnd(RunLog, s) /\ RunLog # StepError(s)
  BY Kinds, Disjoint
<1>5. log' = log \/ log' = Append(log, RunLog)
  BY DEF CheckFails, logVars, Log!Put
<1>6. /\ \A u \in Threads : Flushes(u, s)' <=> Flushes(u, s)
      /\ \A u \in Threads : Erring(u, s)' => Erring(u, s)
      /\ MidError(s) => MidError(s)'
  BY <1>2, <1>3, LabelsAside
<1> QED BY <1>1, <1>4, <1>5, <1>6, StepAside

\* CheckEndedAndEmitArtifact of anything but an error.
LEMMA CheckEndedEnds ==
  ASSUME StepTypeOK, Log!TypeOK', LogGrows, NEW t \in Threads, NEW s \in Steps, StepEnds(s),
         pc[t] \in {"idle", "emitFailure"},
         NEW a \in {Content(s), Failure(s)}, NEW next \in {"idle", "relog"},
         CheckEndedAndEmitArtifact(t, s, a, next)
  PROVE  StepEnds(s)'
<1>1. CASE stepEnded[s]
  BY <1>1, StepDies DEF CheckEndedAndEmitArtifact, Die, StepTypeOK
<1>2. CASE ~stepEnded[s]
  <2>1. /\ log' = Append(log, a) /\ UNCHANGED stepVars
        /\ pc'[t] = next /\ \A u \in Threads \ {t} : pc'[u] = pc[u] /\ on'[u] = on[u]
    BY <1>2 DEF CheckEndedAndEmitArtifact, Goto, Log!Put, StepTypeOK, RunTypeOK
  <2>2. ~Flushes(t, s) /\ ~Flushes(t, s)' /\ ~Erring(t, s)' /\ ~Mid(t, s)
    BY <2>1 DEF Flushes, Erring, Mid
  <2>3. /\ \A u \in Threads : Flushes(u, s)' <=> Flushes(u, s)
        /\ \A u \in Threads : Erring(u, s)' => Erring(u, s)
        /\ MidError(s) => MidError(s)'
    BY <2>1, <2>2, LabelsAside
  <2>4. a \in Artifact /\ ~IsStepEnd(a, s) /\ a # StepError(s)
    BY Kinds, Disjoint, TellingArtifacts
  <2>5. UNCHANGED <<stepState, stepStatus, stepEnded, stepLock>> /\ Log!TypeOK
    BY <2>1 DEF stepVars, StepTypeOK, RunTypeOK
  <2> QED BY <2>1, <2>3, <2>4, <2>5, StepAside
<1> QED BY <1>1, <1>2

\* EmitStepError: the artifact of the status set before, or none after the end.
LEMMA EmitErrorEnds ==
  ASSUME BracketInv, Log!TypeOK', LogGrows, NEW t \in Threads, NEW s \in Steps, StepEnds(s),
         EmitStepError(t, s)
  PROVE  StepEnds(s)'
<1>1. StepTypeOK /\ Log!TypeOK
  BY DEF BracketInv, StepTypeOK, RunTypeOK
<1>2. CASE stepEnded[s]
  BY <1>1, <1>2, StepDies
     DEF EmitStepError, AtStep, At, CheckEndedAndEmitArtifact, Die, StepTypeOK
<1>3. CASE ~stepEnded[s]
  <2>1. /\ log' = Append(log, StepError(s)) /\ UNCHANGED stepVars
        /\ pc[t] = "emitError" /\ on[t] = s
        /\ pc'[t] = "idle" /\ \A u \in Threads \ {t} : pc'[u] = pc[u] /\ on'[u] = on[u]
    BY <1>1, <1>3
       DEF EmitStepError, AtStep, At, CheckEndedAndEmitArtifact, Goto, Log!Put, StepTypeOK,
           RunTypeOK
  <2>2. stepStatus[s] = "Error"
    BY <2>1 DEF StepEnds, Erring
  <2>3. \A u \in Threads : Flushes(u, s)' <=> Flushes(u, s)
    BY <2>1 DEF Flushes
  <2>4. StepError(s) \in Artifact /\ ~IsStepEnd(StepError(s), s)
    BY Kinds, Disjoint
  <2>5. UNCHANGED <<stepState, stepStatus, stepEnded, stepLock>>
    BY <2>1 DEF stepVars
  <2>6. Logged' = Logged \cup {StepError(s)}
    BY <1>1, <2>1, <2>4, LoggedAppend DEF Log!TypeOK
  <2>7. \A b \in Logged : ~IsStepEnd(b, s)
    BY <1>3 DEF BracketInv, StepOnce
  <2>8. TellsErrors(s)'
    BY <1>1, <2>1, <2>4, <2>7, TellsKept DEF StepEnds
  <2>9. \A u \in Threads : Flushes(u, s)' =>
          stepLock'[s] = u /\ \E a \in Logged' : IsStepEnd(a, s)
    BY <2>3, <2>5, <2>6 DEF StepEnds
  <2>10. (StepError(s) \in Logged)'
    BY <2>6 DEF StepError
  <2>11. ~stepEnded'[s]
    BY <1>3, <2>5
  <2>12. stepState'[s] \notin {"absent", "starting"} => StepStartsInFile(s)'
    BY <1>1, <2>5, InFile DEF StepEnds
  <2> QED BY <2>2, <2>5, <2>8, <2>9, <2>10, <2>11, <2>12 DEF StepEnds, IsStepEnd
<1> QED BY <1>2, <1>3

\* AddError: a thread is between the status and the artifact.
LEMMA AddErrorEnds ==
  ASSUME StepTypeOK, Log!TypeOK', LogGrows, NEW t \in Threads, NEW s \in Steps, StepEnds(s),
         AddError(t, s)
  PROVE  StepEnds(s)'
<1>1. Log!TypeOK
  BY DEF StepTypeOK, RunTypeOK
<1>2. /\ log' = log /\ UNCHANGED <<stepState, stepEnded, stepLock>>
      /\ stepStatus'[s] = "Error" /\ pc[t] = "idle" /\ pc'[t] = "notifyError" /\ on'[t] = s
      /\ \A u \in Threads \ {t} : pc'[u] = pc[u] /\ on'[u] = on[u]
  BY DEF AddError, CallsStep, Calls, At, GotoOn, Goto, logVars, StepTypeOK, RunTypeOK
<1>3. MidError(s)'
  BY <1>2 DEF MidError
<1>4. \A u \in Threads : Flushes(u, s)' <=> Flushes(u, s)
  BY <1>2 DEF Flushes
<1>5. TellsErrors(s)'
  BY <1>1, <1>2, <1>3, TellsKept DEF StepEnds
<1>6. Logged' = Logged
  BY <1>2 DEF Logged, Places
<1>7. \A u \in Threads : Flushes(u, s)' =>
        stepLock'[s] = u /\ \E a \in Logged' : IsStepEnd(a, s)
  BY <1>2, <1>4, <1>6 DEF StepEnds
<1>8. /\ stepEnded'[s] => StepEndsInFile(s)' \/ \E u \in Threads : Flushes(u, s)'
      /\ stepState'[s] \notin {"absent", "starting"} => StepStartsInFile(s)'
  BY <1>1, <1>2, <1>4, InFile DEF StepEnds
<1> QED BY <1>2, <1>3, <1>5, <1>7, <1>8 DEF StepEnds, IsStepEnd

\* EndStep: the status the end tells is that of the errors before it.
LEMMA EndStepEnds ==
  ASSUME BracketInv, Log!TypeOK', StepTypeOK', LogGrows, NEW t \in Threads, NEW s \in Steps,
         StepEnds(s),
         pc[t] \in {"idle", "stepEnd"}, stepState[s] \notin {"absent", "starting"},
         NEW then \in {"live", "destroying"}, EndStep(t, s, then)
  PROVE  StepEnds(s)'
<1>1. StepTypeOK /\ Log!TypeOK
  BY DEF BracketInv, StepTypeOK, RunTypeOK
<1>2. CASE stepEnded[s]
  <2>1. /\ log' = log /\ UNCHANGED <<stepStatus, stepEnded, stepLock>>
        /\ pc'[t] = "idle" /\ \A u \in Threads \ {t} : pc'[u] = pc[u] /\ on'[u] = on[u]
    BY <1>1, <1>2 DEF EndStep, Return, GotoOn, Goto, logVars, StepTypeOK, RunTypeOK
  <2>2. ~Flushes(t, s) /\ ~Flushes(t, s)' /\ ~Erring(t, s)' /\ ~Mid(t, s)
    BY <2>1 DEF Flushes, Erring, Mid
  <2>3. /\ \A u \in Threads : Flushes(u, s)' <=> Flushes(u, s)
        /\ \A u \in Threads : Erring(u, s)' => Erring(u, s)
        /\ MidError(s) => MidError(s)'
    BY <2>1, <2>2, LabelsAside
  <2> QED BY <1>1, <2>1, <2>3, StepAside
<1>3. CASE ~stepEnded[s]
  <2>0. PICK a : a = StepEnd(s, stepStatus'[s])
    OBVIOUS
  <2>1. /\ log' = Append(log, a) /\ stepLock[s] = Nobody /\ stepLock'[s] = t /\ stepEnded'[s]
        /\ stepStatus'[s] = IF stepStatus[s] = "Unknown" THEN "Complete" ELSE stepStatus[s]
        /\ pc'[t] = "stepEndFlush" /\ on'[t] = s
        /\ \A u \in Threads \ {t} : pc'[u] = pc[u] /\ on'[u] = on[u]
    BY <1>1, <1>3, <2>0 DEF EndStep, GotoOn, Goto, Log!Put, StepTypeOK, RunTypeOK
  <2>2. /\ a \in Artifact /\ IsStepEnd(a, s) /\ a.status = stepStatus'[s] /\ a # StepError(s)
    <3>1. stepStatus'[s] \in TestStatus
      BY DEF StepTypeOK
    <3>2. a \in StepArtifact(s) /\ IsStepEnd(a, s) /\ a.status = stepStatus'[s]
      BY <2>0, <3>1 DEF StepArtifact, StepEnd, IsStepEnd, TestStatus, Status
    <3> QED BY <3>2, Kinds, Disjoint
  <2>3. \A b \in Logged : ~IsStepEnd(b, s)
    BY <1>3 DEF BracketInv, StepOnce
  <2>4. Logged' = Logged \cup {a}
    BY <1>1, <2>1, <2>2, LoggedAppend DEF Log!TypeOK
  <2>5. \A u \in Threads : ~Flushes(u, s)
    BY <2>1, RunAssumption DEF StepEnds
  <2>6. \A u \in Threads : Flushes(u, s)' => u = t
    BY <2>1, <2>5 DEF Flushes
  <2>7. Flushes(t, s)' /\ \E b \in Logged' : IsStepEnd(b, s)
    BY <2>1, <2>2, <2>4 DEF Flushes
  <2>8. MidError(s) => MidError(s)'
    BY <2>1 DEF MidError
  <2>9. \A u \in Threads : Erring(u, s)' => Erring(u, s)
    BY <2>1 DEF Erring
  <2>10. stepStatus'[s] = "Error" <=> stepStatus[s] = "Error"
    BY <2>1
  <2>11. StepError(s) \in Logged' <=> StepError(s) \in Logged
    BY <2>2, <2>4
  <2>12. TellsErrors(s)'
    <3>1. PICK n : n = Len(log) + 1
      OBVIOUS
    <3>2. /\ Places' = Places \cup {n} /\ log'[n] = a
          /\ \A i \in Places : log'[i] = log[i] /\ Before(i)' = Before(i)
          /\ Before(n)' = Logged
      <4>1. log \in Seq(Artifact) /\ a \in Artifact /\ log' = Append(log, a)
        BY <1>1, <2>1, <2>2 DEF Log!TypeOK
      <4> QED BY <3>1, <4>1, AppendPlaces
    <3>3. \A i \in Places : ~IsStepEnd(log'[i], s)
      BY <2>3, <3>2 DEF Logged
    <3>4. IF StepError(s) \in Logged THEN a.status = "Error"
          ELSE a.status = "Error" => MidError(s)'
      BY <2>2, <2>8, <2>10 DEF StepEnds
    <3> QED BY <3>2, <3>3, <3>4 DEF TellsErrors, IsStepEnd
  <2>13. StepStartsInFile(s)'
    BY <1>1, InFile DEF StepEnds
  <2>14. /\ StepError(s) \in Logged' => stepStatus'[s] = "Error"
         /\ \A u \in Threads : Erring(u, s)' => stepStatus'[s] = "Error"
         /\ stepStatus'[s] = "Error" => StepError(s) \in Logged' \/ MidError(s)'
    BY <2>8, <2>9, <2>10, <2>11 DEF StepEnds
  <2> QED BY <2>1, <2>6, <2>7, <2>12, <2>13, <2>14 DEF StepEnds, IsStepEnd
<1> QED BY <1>2, <1>3

\* A step of thread t that brings step s nowhere nearer to its end.
LEMMA AsideEnds ==
  ASSUME StepTypeOK, Log!TypeOK', LogGrows, NEW t \in Threads, NEW s \in Steps, StepEnds(s),
         \A u \in Threads \ {t} : pc'[u] = pc[u] /\ on'[u] = on[u],
         ~Flushes(t, s), ~Flushes(t, s)',
         Erring(t, s)' => Erring(t, s),
         Mid(t, s) => Mid(t, s)',
         \/ stepState[s] \notin {"absent", "starting"}
         \/ stepState'[s] \in {"absent", "starting"}
         \/ StepStartsInFile(s)',
         stepStatus'[s] = "Error" <=> stepStatus[s] = "Error",
         stepEnded'[s] = stepEnded[s],
         stepLock'[s] = stepLock[s],
         \/ log' = log
         \/ \E a \in Artifact : log' = Append(log, a) /\ ~IsStepEnd(a, s) /\ a # StepError(s)
  PROVE  StepEnds(s)'
<1>1. Log!TypeOK
  BY DEF StepTypeOK, RunTypeOK
<1>2. /\ \A u \in Threads : Flushes(u, s)' <=> Flushes(u, s)
      /\ \A u \in Threads : Erring(u, s)' => Erring(u, s)
      /\ MidError(s) => MidError(s)'
  BY LabelsAside
<1> QED BY <1>1, <1>2, StepAside

\* The calls of a step's methods.
LEMMA StepCallEnds ==
  ASSUME BracketInv, StepTypeOK', Log!TypeOK', LogGrows,
         NEW t \in Threads, NEW s \in Steps, StepEnds(s),
         StepCall(t, s) \/ DestroyStep(t, s)
  PROVE  StepEnds(s)'
<1> USE DEF CallsStep, Calls, At
<1>1. StepTypeOK
  BY DEF BracketInv
<1>2. CASE ConstructStep(t, s)
  <2>1. CASE started
    <3>1. /\ log' = log /\ UNCHANGED <<stepStatus, stepEnded, stepLock>>
          /\ stepState'[s] = "starting" /\ pc[t] = "idle" /\ pc'[t] = "stepStart"
          /\ \A u \in Threads \ {t} : pc'[u] = pc[u] /\ on'[u] = on[u]
      BY <1>1, <1>2, <2>1 DEF ConstructStep, logVars, GotoOn, Goto, StepTypeOK, RunTypeOK
    <3>2. ~Flushes(t, s) /\ ~Flushes(t, s)' /\ ~Erring(t, s)' /\ ~Mid(t, s)
      BY <3>1 DEF Flushes, Erring, Mid
    <3> QED BY <1>1, <3>1, <3>2, AsideEnds
  <2>2. CASE ~started
    BY <1>1, <1>2, <2>2, StepDies DEF ConstructStep, DieOn, Die, stepVars
  <2> QED BY <2>1, <2>2
<1>3. CASE AddContent(t, s)
  BY <1>1, <1>3, CheckEndedEnds DEF AddContent
<1>4. CASE AddFatalLog(t, s)
  BY <1>1, <1>4, CheckEndedEnds DEF AddFatalLog
<1>5. CASE AddFailureDiagnosis(t, s)
  <2>1. /\ log' = log /\ UNCHANGED <<stepState, stepStatus, stepEnded, stepLock>>
        /\ pc[t] = "idle" /\ pc'[t] = "emitFailure" /\ stepState[s] = "live"
        /\ \A u \in Threads \ {t} : pc'[u] = pc[u] /\ on'[u] = on[u]
    BY <1>1, <1>5
       DEF AddFailureDiagnosis, logVars, stepVars, GotoOn, Goto, StepTypeOK, RunTypeOK
  <2>2. ~Flushes(t, s) /\ ~Flushes(t, s)' /\ ~Erring(t, s)' /\ ~Mid(t, s)
    BY <2>1 DEF Flushes, Erring, Mid
  <2> QED BY <1>1, <2>1, <2>2, AsideEnds
<1>6. CASE AddError(t, s)
  BY <1>1, <1>6, AddErrorEnds
<1>7. CASE SkipStep(t, s)
  <2>1. /\ log' = log /\ UNCHANGED <<stepState, stepEnded, stepLock>>
        /\ stepStatus'[s] = "Error" <=> stepStatus[s] = "Error"
        /\ pc[t] = "idle" /\ pc'[t] = "stepEnd" /\ stepState[s] = "live"
        /\ \A u \in Threads \ {t} : pc'[u] = pc[u] /\ on'[u] = on[u]
    BY <1>1, <1>7 DEF SkipStep, logVars, GotoOn, Goto, StepTypeOK, RunTypeOK
  <2>2. ~Flushes(t, s) /\ ~Flushes(t, s)' /\ ~Erring(t, s)' /\ ~Mid(t, s)
    BY <2>1 DEF Flushes, Erring, Mid
  <2> QED BY <1>1, <2>1, <2>2, AsideEnds
<1>8. CASE CallEndStep(t, s)
  BY <1>8, EndStepEnds DEF CallEndStep
<1>9. CASE DestroyStep(t, s)
  BY <1>9, EndStepEnds DEF DestroyStep
<1> QED BY <1>2, <1>3, <1>4, <1>5, <1>6, <1>7, <1>8, <1>9 DEF StepCall

\* What goes on in them.
LEMMA StepContinueEnds ==
  ASSUME BracketInv, LifeInv, StepTypeOK', Log!TypeOK', LogGrows,
         NEW t \in Threads, NEW s \in Steps, StepEnds(s), StepContinue(t, s)
  PROVE  StepEnds(s)'
<1> USE DEF AtStep, At
<1>1. StepTypeOK /\ Log!TypeOK
  BY DEF BracketInv, StepTypeOK, RunTypeOK
<1>2. Uses(t, s) => stepState[s] \notin {"absent", "starting"}
  BY DEF BracketInv, StepOnce
<1>3. CASE EmitStepStart(t, s)
  <2>1. /\ log' = Append(log, StepStart(s))
        /\ UNCHANGED <<stepState, stepStatus, stepEnded, stepLock>>
        /\ pc[t] = "stepStart" /\ pc'[t] = "stepStartFlush" /\ on[t] = s
        /\ \A u \in Threads \ {t} : pc'[u] = pc[u] /\ on'[u] = on[u]
    BY <1>1, <1>3 DEF EmitStepStart, Log!Put, stepVars, GotoOn, Goto, StepTypeOK, RunTypeOK
  <2>2. ~Flushes(t, s) /\ ~Flushes(t, s)' /\ ~Erring(t, s)' /\ ~Mid(t, s)
    BY <2>1 DEF Flushes, Erring, Mid
  <2>3. StepStart(s) \in Artifact /\ ~IsStepEnd(StepStart(s), s) /\ StepStart(s) # StepError(s)
    BY Kinds, Disjoint
  <2> QED BY <1>1, <2>1, <2>2, <2>3, AsideEnds
<1>4. CASE FlushStepStart(t, s)
  <2>1. /\ log' = log /\ (file' = "open" => durable' = Len(log)) /\ UNCHANGED <<stepStatus, stepEnded, stepLock>>
        /\ pc[t] = "stepStartFlush" /\ pc'[t] = "idle" /\ on[t] = s
        /\ \A u \in Threads \ {t} : pc'[u] = pc[u] /\ on'[u] = on[u]
    BY <1>1, <1>4 DEF FlushStepStart, Log!Sync, Return, GotoOn, Goto, StepTypeOK, RunTypeOK
  <2>2. ~Flushes(t, s) /\ ~Flushes(t, s)' /\ ~Erring(t, s)' /\ ~Mid(t, s)
    BY <2>1 DEF Flushes, Erring, Mid
  <2>3. StepStart(s) \in Logged
    <3>1. Constructs(t, s)
      BY <2>1 DEF Constructs
    <3>2. stepState[s] = "starting" /\ \A u \in Threads : Constructs(u, s) => u = t
      BY <3>1 DEF BracketInv, StepOnce
    <3>3. \A u \in Threads : ~Begins(u, s)
      BY <2>1, <3>2 DEF Begins, Constructs
    <3> QED BY <3>2, <3>3 DEF BracketInv, StepOnce
  <2>4. StepStartsInFile(s)'
    BY <2>1, <2>3 DEF StepStartsInFile, Logged, Places, StepStart
  <2> QED BY <1>1, <2>1, <2>2, <2>4, AsideEnds
<1>5. CASE EmitFailure(t, s)
  BY <1>1, <1>5, CheckEndedEnds DEF EmitFailure
<1>6. CASE NotifyStepError(t, s)
  <2>1. /\ log' = log /\ UNCHANGED <<stepState, stepStatus, stepEnded, stepLock>>
        /\ pc[t] = "notifyError" /\ pc'[t] = "emitError" /\ on[t] = s /\ on'[t] = s
        /\ \A u \in Threads \ {t} : pc'[u] = pc[u] /\ on'[u] = on[u]
    BY <1>1, <1>6 DEF NotifyStepError, logVars, stepVars, GotoOn, Goto, StepTypeOK, RunTypeOK
  <2>2. ~Flushes(t, s) /\ ~Flushes(t, s)' /\ Erring(t, s) /\ Mid(t, s)'
    BY <2>1 DEF Flushes, Erring, Mid
  <2>3. stepState[s] \notin {"absent", "starting"}
    BY <1>2, <2>1 DEF Uses
  <2> QED BY <1>1, <2>1, <2>2, <2>3, AsideEnds
<1>7. CASE EmitStepError(t, s)
  BY <1>7, EmitErrorEnds
<1>8. CASE EndSkippedStep(t, s)
  <2>1. pc[t] = "stepEnd" /\ EndStep(t, s, "live") /\ Uses(t, s)
    BY <1>8 DEF EndSkippedStep, Uses
  <2> QED BY <1>2, <2>1, EndStepEnds
<1>9. CASE FlushStepEnd(t, s)
  <2>1. /\ log' = log /\ (file' = "open" => durable' = Len(log)) /\ UNCHANGED <<stepStatus, stepEnded>>
        /\ pc[t] = "stepEndFlush" /\ pc'[t] = "idle" /\ on[t] = s
        /\ \A u \in Threads \ {t} : pc'[u] = pc[u] /\ on'[u] = on[u]
    BY <1>1, <1>9 DEF FlushStepEnd, Log!Sync, Return, GotoOn, Goto, StepTypeOK, RunTypeOK
  <2>2. Flushes(t, s) /\ stepState[s] \notin {"absent", "starting"}
    BY <1>2, <2>1 DEF Flushes, Uses
  <2>3. \A u \in Threads : ~Flushes(u, s)'
    <3>1. \A u \in Threads \ {t} : ~Flushes(u, s)
      BY <2>2 DEF StepEnds
    <3> QED BY <2>1, <3>1 DEF Flushes
  <2>4. StepEndsInFile(s)'
    <3>1. \E i \in Places : IsStepEnd(log[i], s)
      BY <2>2 DEF StepEnds, Logged
    <3> QED BY <2>1, <3>1 DEF StepEndsInFile, Places, IsStepEnd
  <2>5. StepStartsInFile(s)'
    BY <1>1, <2>2, InFile DEF StepEnds
  <2>6. /\ \A u \in Threads : Erring(u, s)' => Erring(u, s)
        /\ MidError(s) => MidError(s)'
    BY <2>1 DEF Erring, MidError
  <2>7. TellsErrors(s)'
    BY <1>1, <2>1, <2>6, TellsKept DEF StepEnds
  <2>8. Logged' = Logged
    BY <2>1 DEF Logged, Places
  <2>9. (StepError(s) \in Logged)' <=> StepError(s) \in Logged
    BY <2>8 DEF StepError
  <2> QED BY <2>1, <2>3, <2>4, <2>5, <2>6, <2>7, <2>9 DEF StepEnds
<1> QED BY <1>3, <1>4, <1>5, <1>6, <1>7, <1>8, <1>9 DEF StepContinue

\* The artifacts of the run, of other steps and of series are not those of step s.
LEMMA OthersWrite ==
  ASSUME NEW s \in Steps,
         \/ Writes(RunArtifact)
         \/ \E r \in Steps \ {s} : Writes(RunArtifact \cup StepArtifact(r))
         \/ \E m \in Series : Writes(RunArtifact \cup OwnArtifact(m))
  PROVE  \/ log' = log
         \/ \E a \in Artifact : log' = Append(log, a) /\ ~IsStepEnd(a, s) /\ a # StepError(s)
<1>1. OfStep(StepError(s), s) /\ \A a : IsStepEnd(a, s) => OfStep(a, s)
  BY Disjoint
<1>2. \A a \in RunArtifact : a \in Artifact /\ ~OfStep(a, s)
  BY Kinds, Disjoint
<1>3. \A r \in Steps \ {s} : \A a \in StepArtifact(r) : a \in Artifact /\ ~OfStep(a, s)
  BY Kinds, Disjoint
<1>4. \A m \in Series : \A a \in OwnArtifact(m) : a \in Artifact /\ ~OfStep(a, s)
  BY SeriesKinds, Apart DEF OwnArtifact
<1> QED BY <1>1, <1>2, <1>3, <1>4 DEF Writes

\* A method of the run, of another step or of a series.
LEMMA OthersEnd ==
  ASSUME StepTypeOK, Log!TypeOK', LogGrows, NEW t \in Threads, NEW s \in Steps, StepEnds(s),
         \/ \E r \in Steps \ {s} : StepEffect(t, r)
         \/ \E m \in Series : MethodEffect(t, m)
         \/ RunEffect(t) /\ UNCHANGED <<on, stepVars>> /\ (pc[t] = "dying" => pc'[t] = "dying")
  PROVE  StepEnds(s)'
<1>1. CASE \E r \in Steps \ {s} : StepEffect(t, r)
  <2>1. PICK r \in Steps \ {s} : StepEffect(t, r)
    BY <1>1
  <2>2. ~Flushes(t, s) /\ ~Flushes(t, s)' /\ ~Erring(t, s)' /\ ~Mid(t, s)
    BY <2>1, RunAssumption DEF StepEffect, Flushes, Erring, Mid
  <2>3. /\ \A u \in Threads \ {t} : pc'[u] = pc[u] /\ on'[u] = on[u]
        /\ stepState'[s] = stepState[s] /\ stepEnded'[s] = stepEnded[s]
        /\ stepStatus'[s] = stepStatus[s] /\ stepLock'[s] = stepLock[s]
        /\ Writes(RunArtifact \cup StepArtifact(r))
    BY <2>1 DEF StepEffect
  <2> QED BY <2>2, <2>3, OthersWrite, AsideEnds
<1>2. CASE \E m \in Series : MethodEffect(t, m)
  <2>1. PICK m \in Series : MethodEffect(t, m)
    BY <1>2
  <2>2. ~Flushes(t, s) /\ ~Flushes(t, s)' /\ ~Erring(t, s)' /\ ~Mid(t, s)
    BY <2>1, RunAssumption DEF MethodEffect, Flushes, Erring, Mid
  <2>3. /\ \A u \in Threads \ {t} : pc'[u] = pc[u] /\ on'[u] = on[u]
        /\ UNCHANGED <<stepState, stepEnded, stepStatus, stepLock>>
        /\ Writes(RunArtifact \cup OwnArtifact(m))
    BY <2>1 DEF MethodEffect, stepVars
  <2> QED BY <2>2, <2>3, OthersWrite, AsideEnds
<1>3. CASE RunEffect(t) /\ UNCHANGED <<on, stepVars>> /\ (pc[t] = "dying" => pc'[t] = "dying")
  <2>1. /\ \A u \in Threads \ {t} : pc'[u] = pc[u]
        /\ pc'[t] = pc[t] \/ {pc[t], pc'[t]} \subseteq RunLabel
        /\ UNCHANGED <<on, stepState, stepEnded, stepStatus, stepLock>>
        /\ Writes(RunArtifact)
    BY <1>3 DEF RunEffect, stepVars, StepTypeOK, RunTypeOK
  <2>2. CASE pc'[t] = pc[t]
    <3>1. /\ UNCHANGED <<on, stepState, stepEnded, stepStatus, stepLock>>
          /\ \A u \in Threads : pc'[u] = pc[u]
      BY <2>1, <2>2
    <3>2. /\ \A u \in Threads : Flushes(u, s)' <=> Flushes(u, s)
          /\ \A u \in Threads : Erring(u, s)' => Erring(u, s)
          /\ MidError(s) => MidError(s)'
      BY <3>1 DEF Flushes, Erring, MidError
    <3>3. Log!TypeOK
      BY DEF StepTypeOK, RunTypeOK
    <3> QED BY <2>1, <3>1, <3>2, <3>3, OthersWrite, StepAside
  <2>3. CASE {pc[t], pc'[t]} \subseteq RunLabel
    <3>1. ~Flushes(t, s) /\ ~Flushes(t, s)' /\ ~Erring(t, s)' /\ (Mid(t, s) => Mid(t, s)')
      BY <1>3, <2>1, <2>3 DEF RunLabel, Flushes, Erring, Mid
    <3> QED BY <2>1, <3>1, OthersWrite, AsideEnds
  <2> QED BY <2>1, <2>2, <2>3
<1> QED BY <1>1, <1>2, <1>3

-----------------------------------------------------------------------------
(***************************************************************************)
(* The theorems about steps.                                               *)
(***************************************************************************)

\* The inductive invariant of the ends of steps.
StepsInv == CoreInv /\ \A s \in Steps : StepEnds(s)

\* No step exists before the TestRun is constructed.
LEMMA InitSteps == SeriesInit => StepsInv
<1> SUFFICES ASSUME SeriesInit PROVE StepsInv
  OBVIOUS
<1>1. CoreInv
  BY InitSeries, InitLife DEF CoreInv
<1>2. log = <<>> /\ \A t \in Threads : pc[t] = "idle"
  BY DEF SeriesInit, StepInit, RunInit, Log!Init
<1>3. Len(log) = 0
  BY <1>2
<1>4. Places = {}
  BY <1>3 DEF Places
<1>5. Logged = {}
  BY <1>4 DEF Logged
<1>6. \A s \in Steps : stepState[s] = "absent" /\ stepStatus[s] = "Unknown" /\ ~stepEnded[s]
  BY DEF SeriesInit, StepInit
<1> QED BY <1>1, <1>2, <1>4, <1>5, <1>6
        DEF StepsInv, StepEnds, TellsErrors, Flushes, Erring

\* A thread that a failed CHECK stopped never goes on.
LEMMA DyingStays ==
  ASSUME RunTypeOK, LifeInv, NEW t \in Threads,
         RunCall(t) \/ RunContinue(t) \/ Destroy(t), pc[t] = "dying"
  PROVE  pc'[t] = "dying"
<1>1. CASE Minor(t)
  BY <1>1 DEF Minor
<1>2. ~MajorCall(t)
  BY DEF MajorCall, Construct, AddPreStartError, StartAndRegisterDutInfo, Skip, Calls, At
<1>3. ~MajorContinue(t)
  BY DEF MajorContinue, RegisterLogSink, EmitSchemaVersion, NotifyPreStartError, EmitStart,
         EndFinalize, EmitEnd, FlushEnd, DeregisterLogSink, UnsetInitializationGuard,
         DestroyWriter, At
<1>4. ~Destroy(t)
  BY DEF Destroy, Calls, At
<1> QED BY <1>1, <1>2, <1>3, <1>4, RunCases

\* The invariant of the ends of steps is inductive.
LEMMA NextSteps == StepsInv /\ [Next]_resultsVars => StepsInv'
<1> SUFFICES ASSUME StepsInv, [Next]_resultsVars PROVE StepsInv'
  OBVIOUS
<1>1. CoreInv' /\ LogGrows /\ BracketInv /\ StepTypeOK /\ RunTypeOK /\ LifeInv /\ SeriesInv
  BY NextCore, StepGrows DEF StepsInv, CoreInv, SeriesInv, BracketInv, StepTypeOK
<1>2. StepTypeOK' /\ Log!TypeOK'
  BY <1>1 DEF CoreInv, SeriesInv, BracketInv, StepTypeOK, RunTypeOK
<1>3. SUFFICES ASSUME NEW s \in Steps PROVE StepEnds(s)'
  BY <1>1 DEF StepsInv
<1>4. StepEnds(s)
  BY DEF StepsInv
<1>5. CASE RunStep
  <2>1. PICK t \in Threads : RunCall(t) \/ RunContinue(t) \/ Destroy(t)
    BY <1>5 DEF RunStep
  <2>2. RunEffect(t) /\ (pc[t] = "dying" => pc'[t] = "dying")
    BY <1>1, <2>1, DyingStays, RunCallEffect, RunContinueEffect, DestroyEffect
  <2>3. UNCHANGED <<on, stepVars>>
    BY <1>5 DEF RunStep
  <2> QED BY <1>1, <1>2, <1>4, <2>2, <2>3, OthersEnd
<1>6. ASSUME NEW t \in Threads, NEW r \in Steps,
             StepCall(t, r) \/ StepContinue(t, r) \/ DestroyStep(t, r)
      PROVE  StepEnds(s)'
  <2>1. CASE r = s
    BY <1>1, <1>2, <1>4, <1>6, <2>1, StepCallEnds, StepContinueEnds
  <2>2. CASE r # s
    <3>1. StepEffect(t, r)
      BY <1>1, <1>6, StepCallEffect, StepContinueEffect, DestroyStepEffect
    <3> QED BY <1>1, <1>2, <1>4, <2>2, <3>1, OthersEnd
  <2> QED BY <2>1, <2>2
<1>7. ASSUME NEW t \in Threads, NEW m \in Series,
             SeriesCall(t, m) \/ SeriesContinue(t, m) \/ DestroySeries(t, m)
      PROVE  StepEnds(s)'
  <2>1. MethodEffect(t, m)
    BY <1>1, <1>7, MethodKeeps DEF Keeps
  <2> QED BY <1>1, <1>2, <1>4, <2>1, OthersEnd
<1>8. CASE UNCHANGED resultsVars
  <2>1. UNCHANGED <<log, pc, on, stepState, stepStatus, stepEnded, stepLock>>
    BY <1>8 DEF resultsVars, stepsVars, runVars, logVars, stepVars
  <2>2. /\ \A u \in Threads : Flushes(u, s)' <=> Flushes(u, s)
        /\ \A u \in Threads : Erring(u, s)' => Erring(u, s)
        /\ MidError(s) => MidError(s)'
    BY <2>1 DEF Flushes, Erring, MidError
  <2>3. Log!TypeOK
    BY <1>1 DEF RunTypeOK
  <2> QED BY <1>1, <1>2, <1>4, <2>1, <2>2, <2>3, StepAside
<1> QED BY <1>5, <1>6, <1>7, <1>8 DEF Next, StepStep

(***************************************************************************)
(* The inductive invariant of the ends of steps holds in every reachable   *)
(* state of the library.                                                   *)
(***************************************************************************)
THEOREM StepsInvAlways == Spec => []StepsInv
BY InitSteps, NextSteps, PTL DEF Spec

(***************************************************************************)
(* TestStep::End (test_step.cc) tells of every error of the step that the  *)
(* log holds before it, and of no error that nobody reports: AddError sets *)
(* the status and logs in two critical sections, and the end of another    *)
(* thread may come between.                                                *)
(***************************************************************************)
THEOREM StepEndTellsErrorsAlways == Spec => []StepEndTellsErrors
<1>1. StepsInv => StepEndTellsErrors
  BY DEF StepsInv, StepEnds, TellsErrors, StepEndTellsErrors
<1> QED BY <1>1, StepsInvAlways, PTL

(***************************************************************************)
(* When TestStep::End has returned, in any thread, the step's end is in    *)
(* the file, and a step in use has its start there (test_step.cc), unless  *)
(* a second TestRun has truncated the file (test_run.cc).                  *)
(***************************************************************************)
THEOREM StepEndDurableAlways == Spec => []StepEndDurable
<1>1. StepsInv => StepEndDurable
  BY RunAssumption, ZenonT(60)
     DEF StepsInv, StepEnds, StepEndDurable, StepEndsInFile, StepStartsInFile
<1> QED BY <1>1, StepsInvAlways, PTL

-----------------------------------------------------------------------------
(***************************************************************************)
(* The numbers of elements, the totals of series, and the ends of series.  *)
(***************************************************************************)

\* Thread t is in MeasurementSeries::End of m, between the artifact and the flush.
FlushesEnd(t, m) == on[t] = m /\ pc[t] = "seriesEndFlush"

\* The file, unless it is lost, holds the end of series m.
SeriesEndsInFile(m) == file = "open" => \E i \in 1..durable : IsSeriesEnd(log[i], m)

\* The start of series m.
SeriesStartsInFile(m) == file = "open" => \E i \in 1..durable : log[i] = SeriesStart(m)

(***************************************************************************)
(* Of each series: an end that was emitted is in the file, or a thread is  *)
(* about to emit or to flush it.                                           *)
(***************************************************************************)
SeriesEnds(m) ==
  /\ \A t \in Threads : FlushesEnd(t, m) => ~Unended(m)
  /\ serEnded[m] =>
       SeriesEndsInFile(m) \/ \E t \in Threads : Ends(t, m) \/ FlushesEnd(t, m)
  /\ serState[m] \notin {"absent", "starting"} => SeriesStartsInFile(m)

\* Thread t is in AddElement of m and has taken its number from element_count_.
HasNumber(t, m) ==
  on[t] = m /\ pc[t] \in {"lockElement", "askStep", "emitElement"}

\* Thread t took number n for an element of m: it will log it, or died on the way.
Adds(t, m, n) ==
  /\ on[t] = m /\ adding[t].type # "none" /\ adding[t].index = n
  /\ pc[t] \in {"lockElement", "askStep", "emitElement", "dying"}

\* Every number below the total is of an element in the log, or on its way.
Accounted(m, total) ==
  \A n \in 0..(total - 1) :
    (\E a \in Logged : IsElement(a, m) /\ a.index = n) \/ \E t \in Threads : Adds(t, m, n)

\* No two elements of m in the log have one number.
OneElementPerNumber(m) ==
  \A i, j \in Places :
    IsElement(log[i], m) /\ IsElement(log[j], m) /\ log[i].index = log[j].index => i = j

(***************************************************************************)
(* Of each series: numbers are taken once, from element_count_, which is   *)
(* ahead of all of them; each is of an element in the log or on its way,   *)
(* and the end's total is ahead of the numbers taken before it.            *)
(***************************************************************************)
Numbers(m) ==
  /\ OneElementPerNumber(m)
  /\ \A a \in Logged : IsElement(a, m) => a.index \in Nat /\ a.index < serCount[m]
  /\ \A t \in Threads : HasNumber(t, m) =>
       /\ adding[t].index < serCount[m]
       /\ \A a \in Logged : IsElement(a, m) => a.index # adding[t].index
  /\ \A t, u \in Threads :
       HasNumber(t, m) /\ HasNumber(u, m) /\ adding[t].index = adding[u].index => t = u
  /\ Unended(m) => Accounted(m, serCount[m])
  /\ \A e \in Logged : IsSeriesEnd(e, m) =>
       Accounted(m, e.total) /\ \A a \in Logged : IsElement(a, m) => a.index < e.total

\* What is in the file stays there.
LEMMA InSeriesFile ==
  ASSUME Log!TypeOK, Log!TypeOK', LogGrows, NEW m \in Series
  PROVE  /\ SeriesEndsInFile(m) => SeriesEndsInFile(m)'
         /\ SeriesStartsInFile(m) => SeriesStartsInFile(m)'
<1>1. file' = "open" =>
        file = "open" /\ \A i \in 1..durable : i \in 1..durable' /\ log'[i] = log[i]
  BY GrowsPlaces
<1> QED BY <1>1 DEF SeriesEndsInFile, SeriesStartsInFile, IsSeriesEnd

\* A step writes neither an element nor the end of series m.
WritesAside(m) ==
  \/ log' = log
  \/ \E a \in Artifact : log' = Append(log, a) /\ ~IsElement(a, m) /\ ~IsSeriesEnd(a, m)

\* What a step that writes neither element nor end of series m leaves of them.
LEMMA LoggedAside ==
  ASSUME Log!TypeOK, NEW m \in Series, WritesAside(m)
  PROVE  /\ Logged \subseteq Logged'
         /\ \A a \in Logged' : IsElement(a, m) \/ IsSeriesEnd(a, m) => a \in Logged
         /\ Unended(m)' <=> Unended(m)
         /\ OneElementPerNumber(m) => OneElementPerNumber(m)'
<1>1. CASE log' = log
  <2>1. Places' = Places /\ Logged' = Logged
    BY <1>1 DEF Logged, Places
  <2> QED BY <1>1, <2>1 DEF Unended, OneElementPerNumber, IsElement
<1>2. ASSUME NEW a \in Artifact, log' = Append(log, a), ~IsElement(a, m), ~IsSeriesEnd(a, m)
      PROVE  /\ Logged' = Logged \cup {a}
             /\ OneElementPerNumber(m) => OneElementPerNumber(m)'
  <2>1. log \in Seq(Artifact)
    BY DEF Log!TypeOK
  <2>2. Logged' = Logged \cup {a}
    BY <1>2, <2>1, LoggedAppend
  <2>3. PICK n : n = Len(log) + 1
    OBVIOUS
  <2>4. /\ Places' = Places \cup {n} /\ log'[n] = a
        /\ \A i \in Places : log'[i] = log[i]
    BY <1>2, <2>1, <2>3, AppendPlaces
  <2>5. \A i \in Places' : IsElement(log'[i], m) => i \in Places /\ log'[i] = log[i]
    BY <1>2, <2>4
  <2>6. OneElementPerNumber(m) => OneElementPerNumber(m)'
    BY <2>5 DEF OneElementPerNumber, IsElement
  <2> QED BY <2>2, <2>6
<1>3. /\ Logged \subseteq Logged'
      /\ \A a \in Logged' : IsElement(a, m) \/ IsSeriesEnd(a, m) => a \in Logged
      /\ OneElementPerNumber(m) => OneElementPerNumber(m)'
  BY <1>1, <1>2 DEF WritesAside, Logged, Places, OneElementPerNumber, IsElement
<1> QED BY <1>3 DEF Unended, IsSeriesEnd

\* A step in which series m comes no nearer to its end.
LEMMA EndsAside ==
  ASSUME Log!TypeOK, Log!TypeOK', LogGrows, NEW m \in Series, SeriesEnds(m), WritesAside(m),
         \A u \in Threads : FlushesEnd(u, m)' <=> FlushesEnd(u, m),
         \A u \in Threads : Ends(u, m)' <=> Ends(u, m),
         serEnded'[m] = serEnded[m],
         \/ serState[m] \notin {"absent", "starting"}
         \/ serState'[m] \in {"absent", "starting"}
         \/ SeriesStartsInFile(m)'
  PROVE  SeriesEnds(m)'
<1>1. Unended(m)' <=> Unended(m)
  BY LoggedAside
<1> QED BY <1>1, InSeriesFile DEF SeriesEnds

\* A step in which no element of series m is numbered or written.
LEMMA NumbersAside ==
  ASSUME Log!TypeOK, NEW m \in Series, Numbers(m), WritesAside(m),
         \A u \in Threads : HasNumber(u, m)' =>
           HasNumber(u, m) /\ adding'[u].index = adding[u].index,
         \A u \in Threads : \A n : Adds(u, m, n) => Adds(u, m, n)',
         serCount'[m] = serCount[m]
  PROVE  Numbers(m)'
<1>1. /\ Logged \subseteq Logged'
      /\ \A a \in Logged' : IsElement(a, m) \/ IsSeriesEnd(a, m) => a \in Logged
      /\ Unended(m)' <=> Unended(m)
      /\ OneElementPerNumber(m)'
  BY LoggedAside DEF Numbers
<1>2. \A total : Accounted(m, total) => Accounted(m, total)'
  BY <1>1 DEF Accounted, IsElement
<1>3. Unended(m)' => Accounted(m, serCount[m])'
  BY <1>1, <1>2 DEF Numbers, Accounted
<1>4. /\ \A a \in Logged' : IsElement(a, m) => a.index \in Nat /\ a.index < serCount'[m]
      /\ \A u \in Threads : HasNumber(u, m)' =>
           /\ adding'[u].index < serCount'[m]
           /\ \A a \in Logged' : IsElement(a, m) => a.index # adding'[u].index
      /\ \A t, u \in Threads :
           HasNumber(t, m)' /\ HasNumber(u, m)' /\ adding'[t].index = adding'[u].index => t = u
  BY <1>1 DEF Numbers
<1>5. \A e \in Logged' : IsSeriesEnd(e, m) =>
        Accounted(m, e.total)' /\ \A a \in Logged' : IsElement(a, m) => a.index < e.total
  BY <1>1, <1>2 DEF Numbers
<1>6. (Unended(m) => Accounted(m, serCount[m]))'
  BY <1>3
<1> QED BY <1>1, <1>4, <1>5, <1>6 DEF Numbers, IsElement, IsSeriesEnd

\* The labels of one thread change, and none of those that matter to series m.
LEMMA ThreadAside ==
  ASSUME NEW t \in Threads, NEW m \in Series,
         \A u \in Threads \ {t} : pc'[u] = pc[u] /\ on'[u] = on[u] /\ adding'[u] = adding[u],
         ~FlushesEnd(t, m), ~FlushesEnd(t, m)', ~Ends(t, m), ~Ends(t, m)',
         HasNumber(t, m)' => HasNumber(t, m) /\ adding'[t].index = adding[t].index,
         \A n : Adds(t, m, n) => Adds(t, m, n)'
  PROVE  /\ \A u \in Threads : FlushesEnd(u, m)' <=> FlushesEnd(u, m)
         /\ \A u \in Threads : Ends(u, m)' <=> Ends(u, m)
         /\ \A u \in Threads : HasNumber(u, m)' =>
              HasNumber(u, m) /\ adding'[u].index = adding[u].index
         /\ \A u \in Threads : \A n : Adds(u, m, n) => Adds(u, m, n)'
<1>1. ASSUME NEW u \in Threads, u # t
      PROVE  /\ FlushesEnd(u, m)' <=> FlushesEnd(u, m)
             /\ Ends(u, m)' <=> Ends(u, m)
             /\ HasNumber(u, m)' => HasNumber(u, m) /\ adding'[u].index = adding[u].index
             /\ \A n : Adds(u, m, n) => Adds(u, m, n)'
  BY <1>1 DEF FlushesEnd, Ends, HasNumber, Adds
<1> QED BY <1>1

-----------------------------------------------------------------------------
(***************************************************************************)
(* The methods of one series.                                              *)
(***************************************************************************)

\* What is proved of each series.
SeriesTells(m) == SeriesEnds(m) /\ Numbers(m)

\* The types of what the proofs about series read.
SeriesWellTyped ==
  /\ StepTypeOK /\ Log!TypeOK /\ SeriesTypeOK /\ DOMAIN pc = Threads
  /\ on \in [Threads -> Steps \cup Series \cup {Nobody}]

\* They follow from the invariant of the series.
LEMMA WellTyped == ASSUME SeriesInv PROVE SeriesWellTyped
BY DEF SeriesWellTyped, SeriesInv, TypesInv, SeriesTypeOK, StepTypeOK, RunTypeOK

\* A step of thread t that numbers and writes no element of series m, and does not end it.
LEMMA TellsAside ==
  ASSUME Log!TypeOK, Log!TypeOK', LogGrows, NEW t \in Threads, NEW m \in Series, SeriesTells(m),
         WritesAside(m),
         \A u \in Threads \ {t} : pc'[u] = pc[u] /\ on'[u] = on[u] /\ adding'[u] = adding[u],
         ~FlushesEnd(t, m), ~FlushesEnd(t, m)', ~Ends(t, m), ~Ends(t, m)',
         HasNumber(t, m)' => HasNumber(t, m) /\ adding'[t].index = adding[t].index,
         \A n : Adds(t, m, n) => Adds(t, m, n)',
         serEnded'[m] = serEnded[m], serCount'[m] = serCount[m],
         \/ serState[m] \notin {"absent", "starting"}
         \/ serState'[m] \in {"absent", "starting"}
         \/ SeriesStartsInFile(m)'
  PROVE  SeriesTells(m)'
<1>1. /\ \A u \in Threads : FlushesEnd(u, m)' <=> FlushesEnd(u, m)
      /\ \A u \in Threads : Ends(u, m)' <=> Ends(u, m)
      /\ \A u \in Threads : HasNumber(u, m)' =>
           HasNumber(u, m) /\ adding'[u].index = adding[u].index
      /\ \A u \in Threads : \A n : Adds(u, m, n) => Adds(u, m, n)'
  BY ThreadAside
<1>2. SeriesEnds(m)'
  BY <1>1, EndsAside DEF SeriesTells
<1>3. Numbers(m)'
  BY <1>1, NumbersAside DEF SeriesTells
<1> QED BY <1>2, <1>3 DEF SeriesTells

\* A CHECK fails in a method of series m.
LEMMA DeadTells ==
  ASSUME SeriesInv, Log!TypeOK', LogGrows, NEW t \in Threads, NEW m \in Series, SeriesTells(m),
         Die(t), on' = [on EXCEPT ![t] = m], pc[t] \notin {"seriesEnd", "seriesEndFlush"},
         UNCHANGED <<serState, serCount, serEnded, adding>>
  PROVE  SeriesTells(m)'
<1>1. Log!TypeOK /\ DOMAIN pc = Threads /\ DOMAIN on = Threads
  BY WellTyped DEF SeriesWellTyped
<1>2. /\ pc'[t] = "dying" /\ on'[t] = m
      /\ \A u \in Threads \ {t} : pc'[u] = pc[u] /\ on'[u] = on[u] /\ adding'[u] = adding[u]
  BY <1>1 DEF Die, CheckFails, Goto
<1>3. WritesAside(m)
  <2>1. RunLog \in Artifact /\ ~IsElement(RunLog, m) /\ ~IsSeriesEnd(RunLog, m)
    BY Kinds, Apart DEF OfSeries
  <2> QED BY <2>1 DEF Die, CheckFails, logVars, Log!Put, WritesAside
<1>4. /\ ~FlushesEnd(t, m) /\ ~FlushesEnd(t, m)' /\ ~Ends(t, m) /\ ~Ends(t, m)' /\ ~HasNumber(t, m)'
      /\ \A n : Adds(t, m, n) => Adds(t, m, n)'
  BY <1>2 DEF FlushesEnd, Ends, HasNumber, Adds
<1> QED BY <1>1, <1>2, <1>3, <1>4, TellsAside

\* A method of series m that goes on or returns without numbering or writing an element.
LEMMA GoingTells ==
  ASSUME SeriesInv, Log!TypeOK', LogGrows, NEW t \in Threads, NEW m \in Series, SeriesTells(m),
         NEW l, NEW x \in {m, Nobody}, GotoOn(t, l, x), WritesAside(m),
         l \notin {"seriesEnd", "seriesEndFlush"},
         pc[t] \notin {"seriesEnd", "seriesEndFlush"},
         \A u \in Threads \ {t} : adding'[u] = adding[u],
         \/ /\ l \notin {"lockElement", "askStep", "emitElement"}
            /\ pc[t] \notin {"lockElement", "askStep", "emitElement", "dying"}
         \/ /\ {pc[t], l} \subseteq {"lockElement", "askStep", "emitElement"}
            /\ on[t] = m /\ x = m /\ adding' = adding,
         serEnded'[m] = serEnded[m], serCount'[m] = serCount[m],
         \/ serState[m] \notin {"absent", "starting"}
         \/ serState'[m] \in {"absent", "starting"}
         \/ SeriesStartsInFile(m)'
  PROVE  SeriesTells(m)'
<1>1. Log!TypeOK /\ DOMAIN pc = Threads /\ DOMAIN on = Threads
  BY WellTyped DEF SeriesWellTyped
<1>2. /\ pc'[t] = l /\ on'[t] = x
      /\ \A u \in Threads \ {t} : pc'[u] = pc[u] /\ on'[u] = on[u]
  BY <1>1 DEF GotoOn, Goto
<1>3. /\ ~FlushesEnd(t, m) /\ ~FlushesEnd(t, m)' /\ ~Ends(t, m) /\ ~Ends(t, m)'
      /\ HasNumber(t, m)' => HasNumber(t, m) /\ adding'[t].index = adding[t].index
      /\ \A n : Adds(t, m, n) => Adds(t, m, n)'
  BY <1>2 DEF FlushesEnd, Ends, HasNumber, Adds
<1> QED BY <1>1, <1>2, <1>3, TellsAside

\* element_count_.Next(): the number is new, and the element is on its way.
LEMMA NumberTells ==
  ASSUME SeriesInv, Log!TypeOK', LogGrows, NEW t \in Threads, NEW m \in Series, SeriesTells(m),
         NumberElement(t, m)
  PROVE  SeriesTells(m)'
<1>1. SeriesWellTyped /\ Log!TypeOK
  BY WellTyped DEF SeriesWellTyped
<1>2. PICK count \in Nat : count = serCount[m]
  BY <1>1 DEF SeriesWellTyped, SeriesTypeOK
<1>3. /\ log' = log /\ serEnded' = serEnded /\ serState' = serState
      /\ serCount'[m] = count + 1
      /\ on[t] = m /\ pc[t] = "number" /\ on'[t] = m /\ pc'[t] = "lockElement"
      /\ adding'[t].index = count /\ adding'[t].type = adding[t].type
      /\ \A u \in Threads \ {t} : pc'[u] = pc[u] /\ on'[u] = on[u] /\ adding'[u] = adding[u]
  BY <1>1, <1>2
     DEF NumberElement, AtSeries, At, logVars, GotoOn, Goto, SeriesWellTyped, SeriesTypeOK
<1>4. adding[t].type # "none" /\ serState[m] \notin {"absent", "starting"}
  <2>1. InAddElement(t, m) /\ UsesSeries(t, m)
    BY <1>3 DEF InAddElement, UsesSeries
  <2> QED BY <2>1 DEF SeriesInv, TypesInv, TypedAsSeries, SeriesOnce
<1>5. /\ \A u \in Threads : FlushesEnd(u, m)' <=> FlushesEnd(u, m)
      /\ \A u \in Threads : Ends(u, m)' <=> Ends(u, m)
  BY <1>3 DEF FlushesEnd, Ends
<1>6. WritesAside(m)
  BY <1>3 DEF WritesAside
<1>7. SeriesEnds(m)'
  BY <1>1, <1>3, <1>4, <1>5, <1>6, EndsAside DEF SeriesTells
<1>8. /\ Logged' = Logged /\ (Unended(m)' <=> Unended(m))
      /\ OneElementPerNumber(m)'
  <2>1. OneElementPerNumber(m)' /\ (Unended(m)' <=> Unended(m))
    BY <1>1, <1>6, LoggedAside DEF SeriesTells, Numbers
  <2> QED BY <1>3, <2>1 DEF Logged, Places
<1>9. /\ HasNumber(t, m)' /\ Adds(t, m, count)' /\ \A n : ~Adds(t, m, n)
      /\ \A u \in Threads \ {t} : HasNumber(u, m)' => HasNumber(u, m) /\ adding'[u] = adding[u]
      /\ \A u \in Threads \ {t} : \A n : Adds(u, m, n) => Adds(u, m, n)'
  BY <1>3, <1>4 DEF HasNumber, Adds
<1>10. \A a \in Logged : IsElement(a, m) => a.index \in Nat /\ a.index < count
  BY <1>2 DEF SeriesTells, Numbers
<1>11. \A u \in Threads : HasNumber(u, m) =>
         /\ adding[u].index < count
         /\ \A a \in Logged : IsElement(a, m) => a.index # adding[u].index
  BY <1>2 DEF SeriesTells, Numbers
<1>12. \A u \in Threads : adding[u].index \in Nat
  BY <1>1 DEF SeriesWellTyped, SeriesTypeOK
<1>13. \A u \in Threads : HasNumber(u, m)' =>
         /\ adding'[u].index < count + 1
         /\ \A a \in Logged : IsElement(a, m) => a.index # adding'[u].index
  <2>1. CASE \A u \in Threads : u # t
    BY <2>1
  <2>2. \A a \in Logged : IsElement(a, m) => a.index # adding'[t].index
    BY <1>3, <1>10
  <2>3. ASSUME NEW u \in Threads, u # t, HasNumber(u, m)'
        PROVE  /\ adding'[u].index < count + 1
               /\ \A a \in Logged : IsElement(a, m) => a.index # adding'[u].index
    <3>1. HasNumber(u, m) /\ adding'[u].index = adding[u].index
      BY <1>9, <2>3
    <3> QED BY <1>11, <1>12, <3>1
  <2> QED BY <1>3, <2>2, <2>3
<1>14. \A u, v \in Threads :
         HasNumber(u, m)' /\ HasNumber(v, m)' /\ adding'[u].index = adding'[v].index => u = v
  <2>1. \A u \in Threads : u # t /\ HasNumber(u, m)' => adding'[u].index # count
    <3>1. \A u \in Threads : u # t /\ HasNumber(u, m)' =>
             adding'[u].index = adding[u].index /\ adding[u].index < count
      BY <1>9, <1>11
    <3> QED BY <1>12, <3>1
  <2>2. \A u, v \in Threads : u # t /\ v # t /\ HasNumber(u, m)' /\ HasNumber(v, m)'
           /\ adding'[u].index = adding'[v].index => u = v
    BY <1>9 DEF SeriesTells, Numbers
  <2> QED BY <1>3, <2>1, <2>2
<1>15. \A total : Accounted(m, total) => Accounted(m, total)'
  BY <1>8, <1>9 DEF Accounted, IsElement
<1>16. Unended(m) => Accounted(m, count + 1)'
  <2>1. Unended(m) => Accounted(m, count)'
    BY <1>2, <1>15 DEF SeriesTells, Numbers
  <2>2. \A n \in 0..((count + 1) - 1) : n \in 0..(count - 1) \/ n = count
    OBVIOUS
  <2> QED BY <1>9, <2>1, <2>2 DEF Accounted
<1>17. \A e \in Logged : IsSeriesEnd(e, m) =>
         Accounted(m, e.total)' /\ \A a \in Logged : IsElement(a, m) => a.index < e.total
  BY <1>15 DEF SeriesTells, Numbers
<1>18. \A a \in Logged : IsElement(a, m) => a.index \in Nat /\ a.index < count + 1
  BY <1>10
<1>19. (Unended(m) => Accounted(m, serCount[m]))'
  BY <1>3, <1>8, <1>16 DEF Accounted
<1>20. Numbers(m)'
  BY <1>3, <1>8, <1>13, <1>14, <1>17, <1>18, <1>19 DEF Numbers, IsElement, IsSeriesEnd
<1> QED BY <1>7, <1>20 DEF SeriesTells

\* AddElement writes its element: the number is written once, and accounted for still.
LEMMA EmitElementTells ==
  ASSUME SeriesInv, Log!TypeOK', LogGrows, NEW t \in Threads, NEW m \in Series, SeriesTells(m),
         EmitElement(t, m)
  PROVE  SeriesTells(m)'
<1>1. SeriesWellTyped /\ Log!TypeOK
  BY WellTyped DEF SeriesWellTyped
<1>2. /\ on[t] = m /\ pc[t] = "emitElement"
      /\ HasNumber(t, m) /\ InAddElement(t, m) /\ UsesSeries(t, m)
  BY DEF EmitElement, AtSeries, At, HasNumber, InAddElement, UsesSeries
<1>3. CASE serEnded[m]
  BY <1>2, <1>3, DeadTells DEF EmitElement, DieOn, seriesVars
<1>4. CASE ~serEnded[m]
  <2>1. PICK n \in Nat : n = adding[t].index
    BY <1>1 DEF SeriesWellTyped, SeriesTypeOK
  <2>2. PICK a : a = Element(m, n, adding[t].type)
    OBVIOUS
  <2>3. /\ log' = Append(log, a) /\ serCount' = serCount /\ serState' = serState /\ ~serEnded'[m]
        /\ on'[t] = Nobody
        /\ \A u \in Threads \ {t} : pc'[u] = pc[u] /\ on'[u] = on[u] /\ adding'[u] = adding[u]
    BY <1>1, <1>4, <2>1, <2>2
       DEF EmitElement, Log!Put, Return, GotoOn, Goto, SeriesWellTyped, SeriesTypeOK
  <2>4. a \in Artifact /\ IsElement(a, m) /\ ~IsSeriesEnd(a, m) /\ a.index = n
    <3>1. adding[t].type \in ValueTypes
      BY <1>1, <1>2 DEF SeriesInv, TypesInv, TypedAsSeries, SeriesWellTyped, SeriesTypeOK, Types
    <3>2. a \in Artifact
      BY <2>2, <3>1, SeriesKinds
    <3>3. IsElement(a, m) /\ ~IsSeriesEnd(a, m) /\ a.index = n
      BY <2>2 DEF Element, IsElement, IsSeriesEnd
    <3> QED BY <3>2, <3>3
  <2>5. Unended(m) /\ serState[m] \notin {"absent", "starting"}
    BY <1>2, <1>4 DEF SeriesInv, EndsOnce, SeriesOnce
  <2>6. Logged' = Logged \cup {a}
    BY <1>1, <2>3, <2>4, LoggedAppend DEF Log!TypeOK
  <2>7. \A b \in Logged' : ~IsSeriesEnd(b, m)
    BY <2>4, <2>5, <2>6 DEF Unended
  <2>8. \A u \in Threads : ~FlushesEnd(u, m)'
    <3>1. \A u \in Threads : ~FlushesEnd(u, m)
      BY <2>5 DEF SeriesTells, SeriesEnds
    <3> QED BY <2>3, <3>1, RunAssumption DEF FlushesEnd
  <2>9. SeriesEnds(m)'
    <3>1. SeriesStartsInFile(m)'
      BY <1>1, <2>5, InSeriesFile DEF SeriesTells, SeriesEnds
    <3> QED BY <2>3, <2>8, <3>1 DEF SeriesEnds
  <2>10. /\ n < serCount[m]
         /\ \A b \in Logged : IsElement(b, m) =>
              b.index \in Nat /\ b.index < serCount[m] /\ b.index # n
    BY <1>2, <2>1 DEF SeriesTells, Numbers
  <2>11. \A u \in Threads : HasNumber(u, m)' =>
           u # t /\ HasNumber(u, m) /\ adding'[u] = adding[u] /\ adding[u].index # n
    <3>1. \A u \in Threads : HasNumber(u, m)' => u # t /\ HasNumber(u, m) /\ adding'[u] = adding[u]
      BY <2>3, RunAssumption DEF HasNumber
    <3> QED BY <1>2, <2>1, <3>1 DEF SeriesTells, Numbers
  <2>12. OneElementPerNumber(m)'
    <3>1. PICK p : p = Len(log) + 1
      OBVIOUS
    <3>2. log \in Seq(Artifact)
      BY <1>1 DEF Log!TypeOK
    <3>3. /\ Places' = Places \cup {p} /\ log'[p] = a
          /\ \A i \in Places : log'[i] = log[i]
      BY <2>3, <2>4, <3>1, <3>2, AppendPlaces
    <3>4. \A i \in Places : IsElement(log[i], m) => log[i].index # n
      BY <2>10 DEF Logged
    <3>5. \A i, j \in Places : IsElement(log[i], m) /\ IsElement(log[j], m)
             /\ log[i].index = log[j].index => i = j
      BY DEF SeriesTells, Numbers, OneElementPerNumber
    <3>6. \A i, j \in Places' : IsElement(log'[i], m) /\ IsElement(log'[j], m)
             /\ log'[i].index = log'[j].index => i = j
      BY <2>4, <3>3, <3>4, <3>5
    <3> QED BY <3>6 DEF OneElementPerNumber, IsElement
  <2>13. /\ \A b \in Logged' : IsElement(b, m) => b.index \in Nat /\ b.index < serCount'[m]
         /\ \A u \in Threads : HasNumber(u, m)' =>
              /\ adding'[u].index < serCount'[m]
              /\ \A b \in Logged' : IsElement(b, m) => b.index # adding'[u].index
         /\ \A u, v \in Threads :
              HasNumber(u, m)' /\ HasNumber(v, m)' /\ adding'[u].index = adding'[v].index => u = v
    BY <2>3, <2>4, <2>6, <2>10, <2>11 DEF SeriesTells, Numbers
  <2>14. Accounted(m, serCount[m])'
    <3>1. \A u \in Threads : \A k : Adds(u, m, k) => Adds(u, m, k)' \/ k = n
      BY <2>1, <2>3 DEF Adds
    <3>2. Accounted(m, serCount[m])
      BY <2>5 DEF SeriesTells, Numbers
    <3> QED BY <2>3, <2>4, <2>6, <3>1, <3>2 DEF Accounted, IsElement
  <2>15. Numbers(m)'
    BY <2>7, <2>12, <2>13, <2>14 DEF Numbers, IsElement, IsSeriesEnd
  <2> QED BY <2>9, <2>15 DEF SeriesTells
<1> QED BY <1>3, <1>4

\* EmitEnd: the total of the end accounts for every number there is.
LEMMA EmitEndTells ==
  ASSUME SeriesInv, Log!TypeOK', LogGrows, NEW t \in Threads, NEW m \in Series, SeriesTells(m),
         EmitSeriesEnd(t, m)
  PROVE  SeriesTells(m)'
<1>1. SeriesWellTyped /\ Log!TypeOK
  BY WellTyped DEF SeriesWellTyped
<1>2. PICK count \in Nat : count = serCount[m]
  BY <1>1 DEF SeriesWellTyped, SeriesTypeOK
<1>3. PICK e : e = SeriesEnd(m, count)
  OBVIOUS
<1>4. /\ log' = Append(log, e) /\ serCount'[m] = count + 1 /\ serState' = serState
      /\ serEnded' = serEnded /\ adding' = adding
      /\ on[t] = m /\ pc[t] = "seriesEnd" /\ on'[t] = m /\ pc'[t] = "seriesEndFlush"
      /\ \A u \in Threads \ {t} : pc'[u] = pc[u] /\ on'[u] = on[u]
  BY <1>1, <1>2, <1>3
     DEF EmitSeriesEnd, AtSeries, At, Log!Put, GotoOn, Goto, SeriesWellTyped, SeriesTypeOK
<1>5. e \in Artifact /\ ~IsElement(e, m) /\ IsSeriesEnd(e, m) /\ e.total = count
  <2>1. e \in Artifact
    BY <1>3, SeriesKinds
  <2>2. ~IsElement(e, m) /\ IsSeriesEnd(e, m) /\ e.total = count
    BY <1>3 DEF SeriesEnd, IsElement, IsSeriesEnd
  <2> QED BY <2>1, <2>2
<1>6. Unended(m) /\ serState[m] \notin {"absent", "starting"}
  <2>1. Ends(t, m) /\ UsesSeries(t, m)
    BY <1>4 DEF Ends, UsesSeries
  <2> QED BY <2>1 DEF SeriesInv, EndsOnce, SeriesOnce
<1>7. Logged' = Logged \cup {e}
  BY <1>1, <1>4, <1>5, LoggedAppend DEF Log!TypeOK
<1>8. ~Unended(m)'
  BY <1>5, <1>7 DEF Unended, IsSeriesEnd
<1>9. FlushesEnd(t, m)'
  BY <1>4 DEF FlushesEnd
<1>10. SeriesStartsInFile(m)'
  BY <1>1, <1>6, InSeriesFile DEF SeriesTells, SeriesEnds
<1>11. SeriesEnds(m)'
  BY <1>8, <1>9, <1>10 DEF SeriesEnds
<1>12. /\ \A u \in Threads : HasNumber(u, m)' <=> HasNumber(u, m)
       /\ \A u \in Threads : \A n : Adds(u, m, n) => Adds(u, m, n)'
  BY <1>4 DEF HasNumber, Adds
<1>13. OneElementPerNumber(m)'
  <2>1. PICK p : p = Len(log) + 1
    OBVIOUS
  <2>2. log \in Seq(Artifact)
    BY <1>1 DEF Log!TypeOK
  <2>3. /\ Places' = Places \cup {p} /\ log'[p] = e
        /\ \A i \in Places : log'[i] = log[i]
    BY <1>4, <1>5, <2>1, <2>2, AppendPlaces
  <2>4. \A i \in Places' : IsElement(log'[i], m) => i \in Places /\ log'[i] = log[i]
    BY <1>5, <2>3
  <2>5. OneElementPerNumber(m)
    BY DEF SeriesTells, Numbers
  <2> QED BY <2>4, <2>5 DEF OneElementPerNumber, IsElement
<1>14. Accounted(m, count) /\ \A total : Accounted(m, total) => Accounted(m, total)'
  <2>1. Accounted(m, count)
    BY <1>2, <1>6 DEF SeriesTells, Numbers
  <2> QED BY <1>7, <1>12, <2>1 DEF Accounted, IsElement
<1>15. \A a \in Logged' : IsElement(a, m) => a \in Logged /\ a.index \in Nat /\ a.index < count
  BY <1>2, <1>5, <1>7 DEF SeriesTells, Numbers
<1>16. \A u \in Threads : HasNumber(u, m)' =>
         /\ adding'[u].index \in Nat /\ adding'[u].index < count
         /\ \A a \in Logged' : IsElement(a, m) => a.index # adding'[u].index
  <2>1. \A u \in Threads : adding[u].index \in Nat
    BY <1>1 DEF SeriesWellTyped, SeriesTypeOK
  <2> QED BY <1>2, <1>4, <1>12, <1>15, <2>1 DEF SeriesTells, Numbers
<1>17. \A u, v \in Threads :
         HasNumber(u, m)' /\ HasNumber(v, m)' /\ adding'[u].index = adding'[v].index => u = v
  BY <1>4, <1>12 DEF SeriesTells, Numbers
<1>18. \A d \in Logged' : IsSeriesEnd(d, m) => d = e
  BY <1>6, <1>7 DEF Unended
<1>19. \A d \in Logged' : IsSeriesEnd(d, m) =>
         Accounted(m, d.total)' /\ \A a \in Logged' : IsElement(a, m) => a.index < d.total
  BY <1>5, <1>14, <1>15, <1>18
<1>20. \A a \in Logged' : IsElement(a, m) => a.index \in Nat /\ a.index < serCount'[m]
  BY <1>4, <1>15
<1>21. \A u \in Threads : HasNumber(u, m)' =>
         /\ adding'[u].index < serCount'[m]
         /\ \A a \in Logged' : IsElement(a, m) => a.index # adding'[u].index
  BY <1>4, <1>16
<1>22. Numbers(m)'
  BY <1>8, <1>13, <1>17, <1>19, <1>20, <1>21 DEF Numbers, IsElement, IsSeriesEnd
<1> QED BY <1>11, <1>22 DEF SeriesTells

\* ended_ is set: the end is about to be written.
LEMMA AskedTells ==
  ASSUME SeriesInv, Log!TypeOK', LogGrows, NEW t \in Threads, NEW m \in Series, SeriesTells(m),
         SeriesEndAsksStep(t, m)
  PROVE  SeriesTells(m)'
<1>1. SeriesWellTyped /\ Log!TypeOK
  BY WellTyped DEF SeriesWellTyped
<1>2. /\ log' = log /\ serCount' = serCount /\ serState' = serState /\ adding' = adding
      /\ on[t] = m /\ pc[t] = "seriesEndAskStep" /\ on'[t] = m /\ pc'[t] = "seriesEnd"
      /\ \A u \in Threads \ {t} : pc'[u] = pc[u] /\ on'[u] = on[u]
  BY <1>1 DEF SeriesEndAsksStep, AtSeries, At, logVars, GotoOn, Goto, SeriesWellTyped
<1>3. WritesAside(m)
  BY <1>2 DEF WritesAside
<1>4. /\ Ends(t, m)' /\ \A u \in Threads : FlushesEnd(u, m)' => FlushesEnd(u, m)
      /\ \A u \in Threads : HasNumber(u, m)' =>
           HasNumber(u, m) /\ adding'[u].index = adding[u].index
      /\ \A u \in Threads : \A n : Adds(u, m, n) => Adds(u, m, n)'
  BY <1>2 DEF Ends, FlushesEnd, HasNumber, Adds
<1>5. Unended(m)' <=> Unended(m)
  BY <1>1, <1>3, LoggedAside
<1>6. SeriesStartsInFile(m) => SeriesStartsInFile(m)'
  BY <1>1, InSeriesFile
<1>7. SeriesEnds(m)'
  BY <1>2, <1>4, <1>5, <1>6 DEF SeriesTells, SeriesEnds
<1>8. Numbers(m)'
  BY <1>1, <1>2, <1>3, <1>4, NumbersAside DEF SeriesTells
<1> QED BY <1>7, <1>8 DEF SeriesTells

\* EmitEnd's flush: the end is in the file.
LEMMA FlushedTells ==
  ASSUME SeriesInv, LifeInv, Log!TypeOK', LogGrows, NEW t \in Threads, NEW m \in Series,
         SeriesTells(m), FlushSeriesEnd(t, m)
  PROVE  SeriesTells(m)'
<1>1. SeriesWellTyped /\ Log!TypeOK
  BY WellTyped DEF SeriesWellTyped, LifeInv
<1>2. /\ log' = log /\ (file' = "open" => durable' = Len(log)) /\ serCount' = serCount /\ adding' = adding
      /\ on[t] = m /\ pc[t] = "seriesEndFlush" /\ pc'[t] = "idle" /\ on'[t] = Nobody
      /\ \A u \in Threads \ {t} : pc'[u] = pc[u] /\ on'[u] = on[u]
  BY <1>1 DEF FlushSeriesEnd, AtSeries, At, Log!Sync, Return, GotoOn, Goto, SeriesWellTyped
<1>3. WritesAside(m)
  BY <1>2 DEF WritesAside
<1>4. /\ FlushesEnd(t, m) /\ \A u \in Threads : FlushesEnd(u, m)' => FlushesEnd(u, m)
      /\ \A u \in Threads : HasNumber(u, m)' =>
           HasNumber(u, m) /\ adding'[u].index = adding[u].index
      /\ \A u \in Threads : \A n : Adds(u, m, n) => Adds(u, m, n)'
  BY <1>2 DEF FlushesEnd, HasNumber, Adds
<1>5. Unended(m)' <=> Unended(m)
  BY <1>1, <1>3, LoggedAside
<1>6. SeriesEndsInFile(m)'
  <2>1. \E i \in Places : IsSeriesEnd(log[i], m)
    BY <1>4 DEF SeriesTells, SeriesEnds, Unended, Logged
  <2> QED BY <1>2, <2>1 DEF SeriesEndsInFile, Places, IsSeriesEnd
<1>7. SeriesStartsInFile(m)'
  <2>1. UsesSeries(t, m)
    BY <1>2 DEF UsesSeries
  <2>2. serState[m] \notin {"absent", "starting"}
    BY <2>1 DEF SeriesInv, SeriesOnce
  <2> QED BY <1>1, <2>2, InSeriesFile DEF SeriesTells, SeriesEnds
<1>8. SeriesEnds(m)'
  BY <1>4, <1>5, <1>6, <1>7 DEF SeriesTells, SeriesEnds
<1>9. Numbers(m)'
  BY <1>1, <1>2, <1>3, <1>4, NumbersAside DEF SeriesTells
<1> QED BY <1>8, <1>9 DEF SeriesTells

\* Every method of series m.
LEMMA MethodTells ==
  ASSUME SeriesInv, LifeInv, Log!TypeOK', LogGrows, NEW t \in Threads, NEW m \in Series,
         SeriesTells(m), SeriesCall(t, m) \/ SeriesContinue(t, m) \/ DestroySeries(t, m)
  PROVE  SeriesTells(m)'
<1> USE DEF AtSeries, CallsSeries, CallsStep, Calls, At
<1>1. SeriesWellTyped /\ Log!TypeOK
  BY WellTyped DEF SeriesWellTyped, LifeInv
<1>2. UsesSeries(t, m) => serState[m] \notin {"absent", "starting"}
  BY DEF SeriesInv, SeriesOnce
<1>3. log' = log => WritesAside(m)
  BY DEF WritesAside
<1>4. ASSUME NEW type \in Types, ConstructSeries(t, m, type)
      PROVE  SeriesTells(m)'
  <2>1. CASE stepEnded[StepOf[m]]
    BY <1>4, <2>1, DeadTells DEF ConstructSeries, DieOn, seriesVars
  <2>2. CASE ~stepEnded[StepOf[m]]
    <3>1. /\ pc[t] = "idle" /\ GotoOn(t, "seriesStart", m) /\ log' = log
          /\ UNCHANGED <<serCount, serEnded, adding>> /\ serState'[m] = "starting"
      BY <1>1, <1>4, <2>2 DEF ConstructSeries, logVars, SeriesWellTyped, SeriesTypeOK
    <3> QED BY <1>3, <3>1, GoingTells
  <2> QED BY <2>1, <2>2
<1>5. CASE EmitSeriesStart(t, m)
  <2>1. /\ pc[t] = "seriesStart" /\ GotoOn(t, "seriesStartFlush", m)
        /\ log' = Append(log, SeriesStart(m))
        /\ UNCHANGED <<serState, serCount, serEnded, adding>>
    BY <1>5 DEF EmitSeriesStart, Log!Put, seriesVars
  <2>2. WritesAside(m)
    <3>1. /\ SeriesStart(m) \in Artifact /\ ~IsSeriesEnd(SeriesStart(m), m)
          /\ ~IsElement(SeriesStart(m), m)
      BY SeriesKinds, Apart, NoElements
    <3> QED BY <2>1, <3>1 DEF WritesAside
  <2> QED BY <2>1, <2>2, GoingTells
<1>6. CASE FlushSeriesStart(t, m)
  <2>1. /\ on[t] = m /\ pc[t] = "seriesStartFlush" /\ GotoOn(t, "idle", Nobody)
        /\ log' = log /\ (file' = "open" => durable' = Len(log))
        /\ UNCHANGED <<serCount, serEnded, adding>>
    BY <1>1, <1>6 DEF FlushSeriesStart, Return, Log!Sync
  <2>2. SeriesStart(m) \in Logged
    <3>1. ConstructsSeries(t, m)
      BY <2>1 DEF ConstructsSeries
    <3>2. serState[m] = "starting" /\ \A u \in Threads : ConstructsSeries(u, m) => u = t
      BY <3>1 DEF SeriesInv, SeriesOnce
    <3>3. \A u \in Threads : ~BeginsSeries(u, m)
      BY <2>1, <3>2 DEF BeginsSeries, ConstructsSeries
    <3> QED BY <3>2, <3>3 DEF SeriesInv, SeriesOnce
  <2>3. SeriesStartsInFile(m)'
    BY <2>1, <2>2 DEF SeriesStartsInFile, Logged, Places, SeriesStart
  <2> QED BY <1>3, <2>1, <2>3, GoingTells
<1>7. ASSUME NEW type \in ValueTypes, SetAndCheckSeriesType(t, m, type)
      PROVE  SeriesTells(m)'
  <2>1. CASE serType[m] \notin {"none", type}
    BY <1>7, <2>1, DeadTells DEF SetAndCheckSeriesType
  <2>2. CASE serType[m] \in {"none", type}
    <3>1. /\ pc[t] = "idle" /\ GotoOn(t, "number", m) /\ log' = log /\ serState[m] = "live"
          /\ UNCHANGED <<serCount, serEnded>> /\ \A u \in Threads \ {t} : adding'[u] = adding[u]
      BY <1>1, <1>7, <2>2 DEF SetAndCheckSeriesType, logVars, SeriesWellTyped, SeriesTypeOK
    <3> QED BY <1>3, <3>1, GoingTells
  <2> QED BY <2>1, <2>2
<1>8. CASE NumberElement(t, m)
  BY <1>8, NumberTells
<1>9. CASE LockElement(t, m)
  <2>1. /\ on[t] = m /\ pc[t] = "lockElement" /\ GotoOn(t, "askStep", m) /\ log' = log
        /\ UNCHANGED <<serState, serCount, serEnded, adding>> /\ UsesSeries(t, m)
    BY <1>9 DEF LockElement, logVars, UsesSeries
  <2> QED BY <1>2, <1>3, <2>1, GoingTells
<1>10. CASE AskStep(t, m)
  <2>1. on[t] = m /\ pc[t] = "askStep" /\ UNCHANGED seriesVars /\ UsesSeries(t, m)
    BY <1>10 DEF AskStep, UsesSeries
  <2>2. CASE stepEnded[StepOf[m]]
    BY <1>10, <2>1, <2>2, DeadTells DEF AskStep, DieOn, seriesVars
  <2>3. CASE ~stepEnded[StepOf[m]]
    <3>1. /\ GotoOn(t, "emitElement", m) /\ log' = log
          /\ UNCHANGED <<serState, serCount, serEnded, adding>>
      BY <1>10, <2>1, <2>3 DEF AskStep, logVars, seriesVars
    <3> QED BY <1>2, <1>3, <2>1, <3>1, GoingTells
  <2> QED BY <2>2, <2>3
<1>11. CASE EmitElement(t, m)
  BY <1>11, EmitElementTells
<1>12. ASSUME NEW then \in {"live", "destroying"}, pc[t] = "idle", serState[m] = "live",
              EndSeries(t, m, then)
       PROVE  SeriesTells(m)'
  <2>1. PICK l \in {"idle", "seriesEndAskStep"}, x \in {m, Nobody} : GotoOn(t, l, x)
    BY <1>12 DEF EndSeries, Return
  <2>2. log' = log /\ UNCHANGED <<serCount, serEnded, adding>>
    BY <1>12 DEF EndSeries, logVars
  <2> QED BY <1>3, <1>12, <2>1, <2>2, GoingTells
<1>13. CASE SeriesEndAsksStep(t, m)
  BY <1>13, AskedTells
<1>14. CASE EmitSeriesEnd(t, m)
  BY <1>14, EmitEndTells
<1>15. CASE FlushSeriesEnd(t, m)
  BY <1>15, FlushedTells
<1>16. CASE SeriesCall(t, m)
  BY <1>4, <1>7, <1>12, <1>16 DEF SeriesCall, CallEndSeries
<1>17. CASE SeriesContinue(t, m)
  BY <1>5, <1>6, <1>8, <1>9, <1>10, <1>11, <1>13, <1>14, <1>15, <1>17 DEF SeriesContinue
<1>18. CASE DestroySeries(t, m)
  BY <1>12, <1>18 DEF DestroySeries
<1> QED BY <1>16, <1>17, <1>18

-----------------------------------------------------------------------------
(***************************************************************************)
(* The methods of everything else.                                         *)
(***************************************************************************)

\* A method of series r numbers no element of another series, nor of another thread.
LEMMA MethodNumbers ==
  ASSUME SeriesWellTyped, NEW t \in Threads, NEW r \in Series,
         SeriesCall(t, r) \/ SeriesContinue(t, r) \/ DestroySeries(t, r)
  PROVE  /\ \A u \in Threads \ {t} : adding'[u] = adding[u]
         /\ \A m \in Series \ {r} : serCount'[m] = serCount[m]
<1> USE DEF SeriesWellTyped, SeriesTypeOK
<1>1. CASE SeriesCall(t, r)
  BY <1>1
     DEF SeriesCall, ConstructSeries, SetAndCheckSeriesType, CallEndSeries, EndSeries,
         seriesVars
<1>2. CASE SeriesContinue(t, r)
  <2>1. CASE EmitSeriesStart(t, r) \/ FlushSeriesStart(t, r) \/ LockElement(t, r) \/ AskStep(t, r)
    BY <2>1 DEF EmitSeriesStart, FlushSeriesStart, LockElement, AskStep, seriesVars
  <2>2. CASE NumberElement(t, r) \/ EmitElement(t, r)
    BY <2>2 DEF NumberElement, EmitElement, seriesVars
  <2>3. CASE SeriesEndAsksStep(t, r) \/ EmitSeriesEnd(t, r) \/ FlushSeriesEnd(t, r)
    BY <2>3 DEF SeriesEndAsksStep, EmitSeriesEnd, FlushSeriesEnd
  <2> QED BY <1>2, <2>1, <2>2, <2>3 DEF SeriesContinue
<1>3. CASE DestroySeries(t, r)
  BY <1>3 DEF DestroySeries, EndSeries
<1> QED BY <1>1, <1>2, <1>3

\* The artifacts of the run, of steps and of other series are none of series m.
LEMMA OthersWriteAside ==
  ASSUME NEW m \in Series,
         \/ Writes(RunArtifact)
         \/ \E s \in Steps : Writes(RunArtifact \cup StepArtifact(s))
         \/ \E r \in Series \ {m} : Writes(RunArtifact \cup OwnArtifact(r))
  PROVE  WritesAside(m)
<1>1. \A a : ~OfSeries(a, m) => ~IsElement(a, m) /\ ~IsSeriesEnd(a, m)
  BY DEF OfSeries
<1>2. \A a \in RunArtifact : a \in Artifact /\ ~OfSeries(a, m)
  BY Kinds, Apart
<1>3. \A s \in Steps : \A a \in StepArtifact(s) : a \in Artifact /\ ~OfSeries(a, m)
  BY Kinds, Apart
<1>4. \A r \in Series \ {m} : \A a \in OwnArtifact(r) : a \in Artifact /\ ~OfSeries(a, m)
  BY SeriesKinds, Apart DEF OwnArtifact
<1> QED BY <1>1, <1>2, <1>3, <1>4 DEF Writes, WritesAside

\* A method of the run, of a step or of another series.
LEMMA OthersTell ==
  ASSUME SeriesInv, Log!TypeOK', LogGrows, NEW t \in Threads, NEW m \in Series, SeriesTells(m),
         \/ \E r \in Series \ {m} :
              /\ MethodEffect(t, r) /\ serCount'[m] = serCount[m]
              /\ \A u \in Threads \ {t} : adding'[u] = adding[u]
         \/ UNCHANGED seriesVars /\ \E s \in Steps : StepEffect(t, s)
         \/ /\ RunEffect(t) /\ UNCHANGED <<on, stepVars>> /\ (pc[t] = "dying" => pc'[t] = "dying")
            /\ UNCHANGED seriesVars
  PROVE  SeriesTells(m)'
<1>1. SeriesWellTyped /\ Log!TypeOK
  BY WellTyped DEF SeriesWellTyped
<1>2. ASSUME NEW r \in Series \ {m}, MethodEffect(t, r), serCount'[m] = serCount[m],
             \A u \in Threads \ {t} : adding'[u] = adding[u]
      PROVE  SeriesTells(m)'
  <2>1. /\ ~FlushesEnd(t, m) /\ ~FlushesEnd(t, m)' /\ ~Ends(t, m) /\ ~Ends(t, m)'
        /\ ~HasNumber(t, m)'
        /\ \A n : ~Adds(t, m, n)
    BY <1>2, RunAssumption DEF MethodEffect, FlushesEnd, Ends, HasNumber, Adds
  <2>2. WritesAside(m)
    BY <1>2, OthersWriteAside DEF MethodEffect
  <2>3. /\ \A u \in Threads \ {t} : pc'[u] = pc[u] /\ on'[u] = on[u] /\ adding'[u] = adding[u]
        /\ serState'[m] = serState[m] /\ serEnded'[m] = serEnded[m]
    BY <1>2 DEF MethodEffect
  <2> QED BY <1>1, <1>2, <2>1, <2>2, <2>3, TellsAside
<1>3. ASSUME NEW s \in Steps, StepEffect(t, s), UNCHANGED seriesVars
      PROVE  SeriesTells(m)'
  <2>1. /\ ~FlushesEnd(t, m) /\ ~FlushesEnd(t, m)' /\ ~Ends(t, m) /\ ~Ends(t, m)'
        /\ ~HasNumber(t, m)'
        /\ \A n : ~Adds(t, m, n)
    BY <1>3, RunAssumption DEF StepEffect, FlushesEnd, Ends, HasNumber, Adds
  <2>2. WritesAside(m)
    BY <1>3, OthersWriteAside DEF StepEffect
  <2>3. /\ \A u \in Threads \ {t} : pc'[u] = pc[u] /\ on'[u] = on[u] /\ adding'[u] = adding[u]
        /\ serState'[m] = serState[m] /\ serEnded'[m] = serEnded[m] /\ serCount'[m] = serCount[m]
    BY <1>3 DEF StepEffect, seriesVars
  <2> QED BY <1>1, <2>1, <2>2, <2>3, TellsAside
<1>4. ASSUME RunEffect(t), UNCHANGED <<on, stepVars>>, pc[t] = "dying" => pc'[t] = "dying",
             UNCHANGED seriesVars
      PROVE  SeriesTells(m)'
  <2>1. /\ \A u \in Threads \ {t} : pc'[u] = pc[u]
        /\ pc'[t] = pc[t] \/ {pc[t], pc'[t]} \subseteq RunLabel
        /\ UNCHANGED <<on, serState, serEnded, serCount, adding>>
        /\ Writes(RunArtifact)
    BY <1>1, <1>4 DEF RunEffect, seriesVars, SeriesWellTyped
  <2>2. WritesAside(m)
    BY <2>1, OthersWriteAside
  <2>3. CASE pc'[t] = pc[t]
    <3>1. /\ \A u \in Threads : FlushesEnd(u, m)' <=> FlushesEnd(u, m)
          /\ \A u \in Threads : Ends(u, m)' <=> Ends(u, m)
          /\ \A u \in Threads : HasNumber(u, m)' =>
               HasNumber(u, m) /\ adding'[u].index = adding[u].index
          /\ \A u \in Threads : \A n : Adds(u, m, n) => Adds(u, m, n)'
      BY <2>1, <2>3 DEF FlushesEnd, Ends, HasNumber, Adds
    <3>2. SeriesEnds(m)'
      BY <1>1, <2>1, <2>2, <3>1, EndsAside DEF SeriesTells
    <3>3. Numbers(m)'
      BY <1>1, <2>1, <2>2, <3>1, NumbersAside DEF SeriesTells
    <3> QED BY <3>2, <3>3 DEF SeriesTells
  <2>4. CASE {pc[t], pc'[t]} \subseteq RunLabel
    <3>1. /\ ~FlushesEnd(t, m) /\ ~FlushesEnd(t, m)' /\ ~Ends(t, m) /\ ~Ends(t, m)'
          /\ ~HasNumber(t, m)'
          /\ \A n : Adds(t, m, n) => Adds(t, m, n)'
      BY <1>4, <2>1, <2>4 DEF RunLabel, FlushesEnd, Ends, HasNumber, Adds
    <3> QED BY <1>1, <2>1, <2>2, <3>1, TellsAside
  <2> QED BY <2>1, <2>3, <2>4
<1> QED BY <1>2, <1>3, <1>4

-----------------------------------------------------------------------------
(***************************************************************************)
(* The theorems about series.                                              *)
(***************************************************************************)

\* The inductive invariant of the numbers and ends of series.
SeriesTellInv == CoreInv /\ \A m \in Series : SeriesTells(m)

\* No series exists before the TestRun is constructed.
LEMMA InitTells == SeriesInit => SeriesTellInv
<1> SUFFICES ASSUME SeriesInit PROVE SeriesTellInv
  OBVIOUS
<1>1. CoreInv
  BY InitSeries, InitLife DEF CoreInv
<1>2. log = <<>> /\ \A t \in Threads : pc[t] = "idle"
  BY DEF SeriesInit, StepInit, RunInit, Log!Init
<1>3. Len(log) = 0
  BY <1>2
<1>4. Places = {}
  BY <1>3 DEF Places
<1>5. Logged = {}
  BY <1>4 DEF Logged
<1>6. \A m \in Series : serState[m] = "absent" /\ serCount[m] = 0 /\ ~serEnded[m]
  BY DEF SeriesInit
<1>7. ASSUME NEW m \in Series PROVE SeriesEnds(m) /\ OneElementPerNumber(m)
  BY <1>2, <1>4, <1>6 DEF SeriesEnds, FlushesEnd, OneElementPerNumber
<1>8. ASSUME NEW m \in Series PROVE Accounted(m, serCount[m])
  <2>1. 0..(serCount[m] - 1) = {}
    BY <1>6
  <2> QED BY <2>1 DEF Accounted
<1>9. ASSUME NEW m \in Series PROVE Numbers(m)
  BY <1>2, <1>5, <1>7, <1>8 DEF Numbers, HasNumber
<1> QED BY <1>1, <1>7, <1>9 DEF SeriesTellInv, SeriesTells

\* The invariant of numbers and ends is inductive.
LEMMA NextTells == SeriesTellInv /\ [Next]_resultsVars => SeriesTellInv'
<1> SUFFICES ASSUME SeriesTellInv, [Next]_resultsVars PROVE SeriesTellInv'
  OBVIOUS
<1>1. CoreInv' /\ LogGrows /\ BracketInv /\ StepTypeOK /\ RunTypeOK /\ LifeInv /\ SeriesInv
  BY NextCore, StepGrows DEF SeriesTellInv, CoreInv, SeriesInv, BracketInv, StepTypeOK
<1>2. Log!TypeOK'
  BY <1>1 DEF CoreInv, SeriesInv, BracketInv, StepTypeOK, RunTypeOK
<1>3. SUFFICES ASSUME NEW m \in Series PROVE SeriesTells(m)'
  BY <1>1 DEF SeriesTellInv
<1>4. SeriesTells(m)
  BY DEF SeriesTellInv
<1>5. CASE RunStep /\ UNCHANGED seriesVars
  <2>1. PICK t \in Threads : RunCall(t) \/ RunContinue(t) \/ Destroy(t)
    BY <1>5 DEF RunStep
  <2>2. RunEffect(t) /\ (pc[t] = "dying" => pc'[t] = "dying")
    BY <1>1, <2>1, DyingStays, RunCallEffect, RunContinueEffect, DestroyEffect
  <2>3. UNCHANGED <<on, stepVars>>
    BY <1>5 DEF RunStep
  <2> QED BY <1>1, <1>2, <1>4, <1>5, <2>2, <2>3, OthersTell
<1>6. ASSUME NEW t \in Threads, NEW s \in Steps, UNCHANGED seriesVars,
             StepCall(t, s) \/ StepContinue(t, s) \/ DestroyStep(t, s)
      PROVE  SeriesTells(m)'
  <2>1. StepEffect(t, s)
    BY <1>1, <1>6, StepCallEffect, StepContinueEffect, DestroyStepEffect
  <2> QED BY <1>1, <1>2, <1>4, <1>6, <2>1, OthersTell
<1>7. ASSUME NEW t \in Threads, NEW r \in Series,
             SeriesCall(t, r) \/ SeriesContinue(t, r) \/ DestroySeries(t, r)
      PROVE  SeriesTells(m)'
  <2>1. CASE r = m
    BY <1>1, <1>2, <1>4, <1>7, <2>1, MethodTells
  <2>2. CASE r # m
    <3>1. MethodEffect(t, r)
      BY <1>1, <1>7, MethodKeeps DEF Keeps
    <3>2. serCount'[m] = serCount[m] /\ \A u \in Threads \ {t} : adding'[u] = adding[u]
      BY <1>1, <1>7, <2>2, WellTyped, MethodNumbers
    <3> QED BY <1>1, <1>2, <1>4, <2>2, <3>1, <3>2, OthersTell
  <2> QED BY <2>1, <2>2
<1>8. CASE UNCHANGED resultsVars
  <2>1. UNCHANGED <<log, pc, on, serState, serEnded, serCount, adding>>
    BY <1>8 DEF resultsVars, stepsVars, runVars, logVars, seriesVars
  <2>2. /\ \A u \in Threads : FlushesEnd(u, m)' <=> FlushesEnd(u, m)
        /\ \A u \in Threads : Ends(u, m)' <=> Ends(u, m)
        /\ \A u \in Threads : HasNumber(u, m)' =>
             HasNumber(u, m) /\ adding'[u].index = adding[u].index
        /\ \A u \in Threads : \A n : Adds(u, m, n) => Adds(u, m, n)'
    BY <2>1 DEF FlushesEnd, Ends, HasNumber, Adds
  <2>3. Log!TypeOK /\ WritesAside(m)
    BY <1>1, <2>1 DEF RunTypeOK, WritesAside
  <2>4. SeriesEnds(m)'
    BY <1>1, <1>2, <1>4, <2>1, <2>2, <2>3, EndsAside DEF SeriesTells
  <2>5. Numbers(m)'
    BY <1>4, <2>1, <2>2, <2>3, NumbersAside DEF SeriesTells
  <2> QED BY <2>4, <2>5 DEF SeriesTells
<1> QED BY <1>5, <1>6, <1>7, <1>8 DEF Next, StepStep

(***************************************************************************)
(* The inductive invariant of the numbers and ends of series holds in      *)
(* every reachable state of the library.                                   *)
(***************************************************************************)
THEOREM SeriesTellInvAlways == Spec => []SeriesTellInv
BY InitTells, NextTells, PTL DEF Spec

\* What the invariant says of the end at place i.
LEMMA TotalsHold ==
  ASSUME SeriesInv, NEW m \in Series, SeriesTells(m), NEW i \in Places, IsSeriesEnd(log[i], m)
  PROVE  /\ \A n \in 0..(log[i].total - 1) :
              \/ Cardinality(Numbered(m, n, i)) = 1
              \/ Numbered(m, n, i) = {} /\ IsAdding(m, n)
         /\ \A j \in Places : IsElement(log[j], m) => log[j].index < log[i].total
<1>1. Log!TypeOK
  BY WellTyped DEF SeriesWellTyped
<1>2. log[i] \in Logged /\ Len(log) \in Nat
  BY <1>1, LenProperties DEF Logged, Log!TypeOK
<1>3. /\ Accounted(m, log[i].total)
      /\ \A a \in Logged : IsElement(a, m) => a.index < log[i].total
  BY <1>2 DEF SeriesTells, Numbers
<1>4. \A j \in Places : IsElement(log[j], m) => j \in 1..(i - 1)
  <2>1. SUFFICES ASSUME NEW j \in Places, IsElement(log[j], m) PROVE j \in 1..(i - 1)
    OBVIOUS
  <2>2. i # j
    BY <2>1 DEF IsElement, IsSeriesEnd
  <2>3. ~(i \in 1..(j - 1))
    <3>1. ~\E a \in Before(j) : IsSeriesEnd(a, m)
      BY <2>1 DEF SeriesInv, SeriesBracket, OfSeries
    <3> QED BY <3>1 DEF Before
  <2> QED BY <1>2, <2>2, <2>3 DEF Places
<1>5. ASSUME NEW n \in 0..(log[i].total - 1)
      PROVE  \/ Cardinality(Numbered(m, n, i)) = 1
             \/ Numbered(m, n, i) = {} /\ IsAdding(m, n)
  <2>1. \A j \in Numbered(m, n, i) : j \in Places /\ IsElement(log[j], m) /\ log[j].index = n
    BY <1>2 DEF Numbered, Places
  <2>2. CASE \E j \in Places : IsElement(log[j], m) /\ log[j].index = n
    <3>1. PICK j \in Places : IsElement(log[j], m) /\ log[j].index = n
      BY <2>2
    <3>2. j \in Numbered(m, n, i)
      BY <1>4, <3>1 DEF Numbered
    <3>3. \A k \in Numbered(m, n, i) : k = j
      BY <2>1, <3>1 DEF SeriesTells, Numbers, OneElementPerNumber
    <3>4. Numbered(m, n, i) = {j}
      BY <3>2, <3>3
    <3> QED BY <3>4, FS_Singleton
  <2>3. CASE ~\E j \in Places : IsElement(log[j], m) /\ log[j].index = n
    <3>1. Numbered(m, n, i) = {}
      BY <2>1, <2>3
    <3>2. \E t \in Threads : Adds(t, m, n)
      BY <1>3, <2>3 DEF Accounted, Logged
    <3> QED BY <3>1, <3>2 DEF Adds, IsAdding
  <2> QED BY <2>2, <2>3
<1> QED BY <1>3, <1>5 DEF Logged

(***************************************************************************)
(* The total of a MeasurementSeriesEnd (measurement_series.cc) is the      *)
(* number of elements: below it, every number is that of exactly one       *)
(* element before the end, or of an AddElement still on its way, and no    *)
(* element has a number from it on, although the numbers are taken before  *)
(* the lock that orders the elements.                                      *)
(***************************************************************************)
THEOREM SeriesTotalsAlways == Spec => []SeriesTotals
<1>1. SeriesTellInv => SeriesTotals
  BY TotalsHold DEF SeriesTellInv, CoreInv, SeriesTotals
<1> QED BY <1>1, SeriesTellInvAlways, PTL

(***************************************************************************)
(* When MeasurementSeries::End has returned, in any thread, the series'    *)
(* end is in the file, and a series in use has its start there             *)
(* (measurement_series.cc), unless a second TestRun has truncated the file *)
(* (test_run.cc).                                                          *)
(***************************************************************************)
THEOREM SeriesEndDurableAlways == Spec => []SeriesEndDurable
<1>1. SeriesTellInv => SeriesEndDurable
  <2>1. SUFFICES ASSUME SeriesTellInv, NEW m \in Series
                 PROVE  /\ serEnded[m] /\ serLock[m] = Nobody => SeriesEndsInFile(m)
                        /\ serState[m] \notin {"absent", "starting"} => SeriesStartsInFile(m)
    BY DEF SeriesEndDurable, SeriesEndsInFile, SeriesStartsInFile
  <2>2. \A t \in Threads : Ends(t, m) \/ FlushesEnd(t, m) => serLock[m] = t
    <3>1. \A t \in Threads : Ends(t, m) \/ FlushesEnd(t, m) => Locks(t, m)
      BY DEF Ends, FlushesEnd, Locks
    <3>2. \A t \in Threads : Locks(t, m) => serLock[m] = t
      BY <2>1 DEF SeriesTellInv, CoreInv, SeriesInv, EndsOnce
    <3> QED BY <3>1, <3>2
  <2> QED BY <2>1, <2>2, RunAssumption DEF SeriesTellInv, SeriesTells, SeriesEnds
<1> QED BY <1>1, SeriesTellInvAlways, PTL
=============================================================================
