------------------------------ MODULE TestStep ------------------------------
(***************************************************************************)
(* results/test_step.{h,cc}: TestStep objects of one TestRun, shared by    *)
(* threads.  AddError and a failing AddDiagnosis are several critical      *)
(* sections in a row: the step's status, the run's result calculator, and  *)
(* only then the check that the step has not ended and the artifact.       *)
(***************************************************************************)
EXTENDS TestRun

VARIABLES
  on,                     \* the object a thread's call is about, or Nobody
  stepState,              \* "absent", "starting", "live", "destroying", "destroyed"
  stepStatus,             \* status_
  stepEnded,              \* ended_
  stepLock                \* holder of the step's mutex_, or Nobody

stepVars == <<stepState, stepStatus, stepEnded, stepLock>>

StepLabel ==
  {"stepStart", "stepStartFlush", "notifyError", "emitError", "emitFailure",
   "stepEnd", "stepEndFlush"}

StepTypeOK ==
  /\ RunTypeOK
  /\ on \in [Threads -> Steps \cup Series \cup {Nobody}]
  /\ stepState \in [Steps -> {"absent", "starting", "live", "destroying", "destroyed"}]
  /\ stepStatus \in [Steps -> TestStatus]
  /\ stepEnded \in [Steps -> BOOLEAN]
  /\ stepLock \in [Steps -> Threads \cup {Nobody}]

StepInit ==
  /\ RunInit
  /\ on = [t \in Threads |-> Nobody]
  /\ stepState = [s \in Steps |-> "absent"]
  /\ stepStatus = [s \in Steps |-> "Unknown"]
  /\ stepEnded = [s \in Steps |-> FALSE]
  /\ stepLock = [s \in Steps |-> Nobody]
-----------------------------------------------------------------------------
\* Thread t goes to a label, about object x, or leaves the library.
GotoOn(t, label, x) == Goto(t, label) /\ on' = [on EXCEPT ![t] = x]

Return(t) == GotoOn(t, "idle", Nobody)

\* A CHECK fails in a method of object x.
DieOn(t, x) == Die(t) /\ on' = [on EXCEPT ![t] = x] /\ UNCHANGED stepVars

\* What a step's method leaves alone in the run.
RunFrame == UNCHANGED <<lifeVars, aborted>>

\* A thread outside the library calls a method of step s.
CallsStep(t, s) == Calls(t) /\ stepState[s] = "live"

\* Thread t goes on, in a method of step s.
AtStep(t, label, s) == At(t, label) /\ on[t] = s
-----------------------------------------------------------------------------
\* TestStep::TestStep: CHECK(test_run.Started()), which takes the run's lock.
ConstructStep(t, s) ==
  /\ Calls(t) /\ Room
  /\ stepState[s] = "absent"
  /\ runLock = Nobody
  /\ \/ /\ ~started
        /\ DieOn(t, s)
     \/ /\ started
        /\ stepState' = [stepState EXCEPT ![s] = "starting"]
        /\ GotoOn(t, "stepStart", s)
        /\ UNCHANGED <<logVars, calculatorVars, stepStatus, stepEnded, stepLock>>
        /\ RunFrame

EmitStepStart(t, s) ==
  /\ AtStep(t, "stepStart", s)
  /\ Log!Put(StepStart(s))
  /\ GotoOn(t, "stepStartFlush", s)
  /\ UNCHANGED <<calculatorVars, stepVars>>
  /\ RunFrame

FlushStepStart(t, s) ==
  /\ AtStep(t, "stepStartFlush", s)
  /\ Log!Sync
  /\ stepState' = [stepState EXCEPT ![s] = "live"]
  /\ Return(t)
  /\ UNCHANGED <<calculatorVars, stepStatus, stepEnded, stepLock>>
  /\ RunFrame

\* Mutant: the artifact is emitted without looking at ended_.
EmitUnchecked(t, s, a, next) ==
  /\ stepLock[s] = Nobody
  /\ Log!Put(a)
  /\ Goto(t, next)
  /\ on' = [on EXCEPT ![t] = IF next = "idle" THEN Nobody ELSE s]
  /\ UNCHANGED <<calculatorVars, stepVars>>
  /\ RunFrame

\* CheckEndedAndEmitArtifact, under the step's lock.
CheckEndedAndEmitArtifact(t, s, a, next) ==
  /\ stepLock[s] = Nobody
  /\ \/ /\ stepEnded[s]
        /\ Die(t) /\ on' = [on EXCEPT ![t] = s]
        /\ stepLock' = [stepLock EXCEPT ![s] = t]
        /\ UNCHANGED <<stepState, stepStatus, stepEnded>>
     \/ /\ ~stepEnded[s]
        /\ Log!Put(a)
        /\ Goto(t, next)
        /\ on' = [on EXCEPT ![t] = IF next = "idle" THEN Nobody ELSE s]
        /\ UNCHANGED <<calculatorVars, stepVars>>
        /\ RunFrame

\* AddMeasurement, AddFile, AddExtension, AddLog, AddDiagnosis not of kFail.
AddContent(t, s) ==
  /\ CallsStep(t, s) /\ Room
  /\ CheckEndedAndEmitArtifact(t, s, Content(s), "idle")

\* AddLog with a fatal log: FlushFatal and LogFatal of TestRun follow.
AddFatalLog(t, s) ==
  /\ CallsStep(t, s) /\ Room
  /\ CheckEndedAndEmitArtifact(t, s, Content(s), "relog")

\* Mutant: a failing diagnosis is emitted only.
AddFailureSilently(t, s) ==
  /\ CallsStep(t, s) /\ Room
  /\ GotoOn(t, "emitFailure", s)
  /\ UNCHANGED <<logVars, calculatorVars, stepVars>>
  /\ RunFrame

\* AddDiagnosis of kFail: the calculator is told first ...
AddFailureDiagnosis(t, s) ==
  /\ CallsStep(t, s) /\ Room
  /\ NotifyFailureDiagnosis
  /\ GotoOn(t, "emitFailure", s)
  /\ UNCHANGED <<logVars, stepVars>>
  /\ RunFrame

\* ... the artifact is emitted after.
EmitFailure(t, s) ==
  /\ AtStep(t, "emitFailure", s)
  /\ CheckEndedAndEmitArtifact(t, s, Failure(s), "idle")

\* Mutant: AddError sets the status only of a step that has none.
AddErrorKeepingStatus(t, s) ==
  /\ CallsStep(t, s) /\ Room
  /\ stepLock[s] = Nobody
  /\ stepStatus' = [stepStatus EXCEPT ![s] = IF @ = "Unknown" THEN "Error" ELSE @]
  /\ GotoOn(t, "notifyError", s)
  /\ UNCHANGED <<logVars, calculatorVars, stepState, stepEnded, stepLock>>
  /\ RunFrame

\* AddError: the step's status, in a critical section of its own ...
AddError(t, s) ==
  /\ CallsStep(t, s) /\ Room
  /\ stepLock[s] = Nobody
  /\ stepStatus' = [stepStatus EXCEPT ![s] = "Error"]
  /\ GotoOn(t, "notifyError", s)
  /\ UNCHANGED <<logVars, calculatorVars, stepState, stepEnded, stepLock>>
  /\ RunFrame

\* ... then the run's calculator ...
NotifyStepError(t, s) ==
  /\ AtStep(t, "notifyError", s)
  /\ NotifyError
  /\ GotoOn(t, "emitError", s)
  /\ UNCHANGED <<logVars, stepVars>>
  /\ RunFrame

\* ... then the artifact.
EmitStepError(t, s) ==
  /\ AtStep(t, "emitError", s)
  /\ CheckEndedAndEmitArtifact(t, s, StepError(s), "idle")

\* Skip: the status first, then End.
SkipStep(t, s) ==
  /\ CallsStep(t, s)
  /\ stepLock[s] = Nobody
  /\ stepStatus' = [stepStatus EXCEPT ![s] = IF @ = "Unknown" THEN "Skip" ELSE @]
  /\ GotoOn(t, "stepEnd", s)
  /\ UNCHANGED <<logVars, calculatorVars, stepState, stepEnded, stepLock>>
  /\ RunFrame

\* End, up to the Write of EmitEnd; then is the object's state meanwhile.  An
\* ended step is left as it is.
EndStep(t, s, then) ==
  /\ stepLock[s] = Nobody
  /\ \/ /\ stepEnded[s]
        /\ stepState' = [stepState EXCEPT ![s] =
                           IF then = "destroying" THEN "destroyed" ELSE then]
        /\ Return(t)
        /\ UNCHANGED <<logVars, stepStatus, stepEnded, stepLock>>
     \/ /\ ~stepEnded[s]
        /\ stepEnded' = [stepEnded EXCEPT ![s] = TRUE]
        /\ stepStatus' = [stepStatus EXCEPT ![s] = IF @ = "Unknown" THEN "Complete" ELSE @]
        /\ stepState' = [stepState EXCEPT ![s] = then]
        /\ stepLock' = [stepLock EXCEPT ![s] = t]
        /\ Log!Put(StepEnd(s, stepStatus'[s]))
        /\ GotoOn(t, "stepEndFlush", s)
  /\ UNCHANGED calculatorVars
  /\ RunFrame

CallEndStep(t, s) == CallsStep(t, s) /\ EndStep(t, s, "live")

EndSkippedStep(t, s) == AtStep(t, "stepEnd", s) /\ EndStep(t, s, "live")

\* ~TestStep: no other thread is in a method of the step.
DestroyStep(t, s) ==
  /\ CallsStep(t, s)
  /\ \A u \in Threads : on[u] # s
  /\ EndStep(t, s, "destroying")

\* Mutant: EmitEnd does not flush.
FlushStepEndForgotten(t, s) ==
  /\ AtStep(t, "stepEndFlush", s)
  /\ stepLock' = [stepLock EXCEPT ![s] = Nobody]
  /\ stepState' = [stepState EXCEPT ![s] = IF @ = "destroying" THEN "destroyed" ELSE @]
  /\ Return(t)
  /\ UNCHANGED <<logVars, calculatorVars, stepStatus, stepEnded>>
  /\ RunFrame

\* Mutant: End returns with the step's lock still held.
FlushStepEndLocked(t, s) ==
  /\ AtStep(t, "stepEndFlush", s)
  /\ Log!Sync
  /\ stepState' = [stepState EXCEPT ![s] = IF @ = "destroying" THEN "destroyed" ELSE @]
  /\ Return(t)
  /\ UNCHANGED <<calculatorVars, stepStatus, stepEnded, stepLock>>
  /\ RunFrame

\* The flush that ends EmitEnd; End returns.
FlushStepEnd(t, s) ==
  /\ AtStep(t, "stepEndFlush", s)
  /\ Log!Sync
  /\ stepLock' = [stepLock EXCEPT ![s] = Nobody]
  /\ stepState' = [stepState EXCEPT ![s] = IF @ = "destroying" THEN "destroyed" ELSE @]
  /\ Return(t)
  /\ UNCHANGED <<calculatorVars, stepStatus, stepEnded>>
  /\ RunFrame
-----------------------------------------------------------------------------
StepCall(t, s) ==
  \/ ConstructStep(t, s)
  \/ AddContent(t, s) \/ AddFatalLog(t, s) \/ AddFailureDiagnosis(t, s)
  \/ AddError(t, s) \/ SkipStep(t, s) \/ CallEndStep(t, s)

StepContinue(t, s) ==
  \/ EmitStepStart(t, s) \/ FlushStepStart(t, s)
  \/ EmitFailure(t, s) \/ NotifyStepError(t, s) \/ EmitStepError(t, s)
  \/ EndSkippedStep(t, s) \/ FlushStepEnd(t, s)

\* The TestRun's own methods; a TestRun outlives its steps.
RunStep ==
  /\ \E t \in Threads :
       \/ RunCall(t)
       \/ RunContinue(t)
       \/ Destroy(t) /\ \A s \in Steps : stepState[s] \in {"absent", "destroyed"}
  /\ UNCHANGED <<on, stepVars>>

stepsVars == <<runVars, on, stepVars>>

StepsNext ==
  \/ RunStep
  \/ \E t \in Threads, s \in Steps :
       StepCall(t, s) \/ StepContinue(t, s) \/ DestroyStep(t, s)
  \/ RunOver /\ UNCHANGED stepsVars

\* A program whose test steps have no measurement series.
StepsSpec == StepInit /\ [][StepsNext]_stepsVars
-----------------------------------------------------------------------------
\* The artifacts of a step, those of its series aside.
OfStep(a, s) == a \in StepArtifact(s)

IsStepEnd(a, s) == \E status \in TestStatus : a = StepEnd(s, status)

(***************************************************************************)
(* Every step's artifacts lie between its one TestStepStart and its one    *)
(* TestStepEnd, even when End, Skip or the destructor of one thread races  *)
(* the Add methods of another.                                             *)
(***************************************************************************)
StepBracket ==
  \A s \in Steps, i \in Places : OfStep(log[i], s) =>
    /\ log[i] = StepStart(s) <=> ~\E a \in Before(i) : OfStep(a, s)
    /\ ~\E a \in Before(i) : IsStepEnd(a, s)

\* A thread between an error's status and its artifact, or dead there.
MidError(s) ==
  \E t \in Threads : on[t] = s /\ pc[t] \in {"notifyError", "emitError", "dying"}

(***************************************************************************)
(* The TestStepEnd tells of an error exactly if the step emitted one: an   *)
(* error's artifact is never followed by a better status, and an Error     *)
(* status without its artifact is seen only while the thread that adds it  *)
(* has not come to its artifact, or died for having come too late.         *)
(***************************************************************************)
StepEndTellsErrors ==
  \A s \in Steps, i \in Places : IsStepEnd(log[i], s) =>
    IF StepError(s) \in Before(i) THEN log[i].status = "Error"
    ELSE log[i].status = "Error" => MidError(s)

(***************************************************************************)
(* Once End, Skip or the destructor has returned, the step's TestStepEnd   *)
(* is in the output file; so is the TestStepStart of a step in use.  Both  *)
(* are lost when a second TestRun truncates the file.                      *)
(***************************************************************************)
StepEndDurable ==
  file = "open" => \A s \in Steps :
    /\ stepEnded[s] /\ stepLock[s] = Nobody =>
         \E i \in 1..durable : IsStepEnd(log[i], s)
    /\ stepState[s] \notin {"absent", "starting"} =>
         \E i \in 1..durable : log[i] = StepStart(s)

(***************************************************************************)
(* test_step.h:38 says of AddError: "This will cause both the test step    *)
(* and the test run as whole to gain the error status."                    *)
(***************************************************************************)
ErrorMakesRunError ==
  \A i \in Places :
    IsRunEnd(log[i]) /\ (\E s \in Steps : StepError(s) \in Before(i)) =>
      log[i].status = "Error"
=============================================================================
