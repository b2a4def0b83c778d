------------------------ MODULE TestResultCalculator ------------------------
(***************************************************************************)
(* results/test_result_calculator.{h,cc}: the running verdict of a test    *)
(* run.  Every method holds the calculator's mutex from its first line to  *)
(* its last, so each is one action.                                        *)
(*                                                                         *)
(* TestRun.tla uses the actions; ResultCalculation.tla is the calculator   *)
(* by itself, with callers that may call anything in any order.            *)
(***************************************************************************)
EXTENDS Naturals, Sequences

VARIABLES
  finalized,       \* finalized_
  runStarted,      \* run_started_
  runResult,       \* result_
  runStatus        \* status_

calculatorVars == <<finalized, runStarted, runResult, runStatus>>

TestStatus == {"Unknown", "Complete", "Error", "Skip"}
TestResult == {"NotApplicable", "Pass", "Fail"}

CalculatorTypeOK ==
  /\ finalized \in BOOLEAN
  /\ runStarted \in BOOLEAN
  /\ runResult \in TestResult
  /\ runStatus \in TestStatus

CalculatorInit ==
  /\ finalized = FALSE
  /\ runStarted = FALSE
  /\ runResult = "NotApplicable"
  /\ runStatus = "Unknown"

\* CheckFinalized: past it, the method runs; otherwise the program dies.
CheckFinalized == ~finalized

NotifyStartRun ==
  /\ CheckFinalized
  /\ runStarted' = TRUE
  /\ UNCHANGED <<finalized, runResult, runStatus>>

\* The status is set by the first of NotifySkip and NotifyError.
SetStatusOnce(s) ==
  /\ CheckFinalized
  /\ runStatus' = IF runStatus = "Unknown" THEN s ELSE runStatus
  /\ runResult' = IF runStatus = "Unknown" THEN "NotApplicable" ELSE runResult
  /\ UNCHANGED <<finalized, runStarted>>

NotifySkip == SetStatusOnce("Skip")

\* Mutant: an error replaces a skip.
NotifyErrorAlways ==
  /\ CheckFinalized
  /\ runStatus' = "Error"
  /\ runResult' = "NotApplicable"
  /\ UNCHANGED <<finalized, runStarted>>

NotifyError == SetStatusOnce("Error")

\* Mutant: a failure diagnosis is recorded whatever the status.
NotifyFailureAlways ==
  /\ CheckFinalized
  /\ runResult' = "Fail"
  /\ UNCHANGED <<finalized, runStarted, runStatus>>

NotifyFailureDiagnosis ==
  /\ CheckFinalized
  /\ runResult' = IF runResult = "NotApplicable" /\ runStatus = "Unknown"
                  THEN "Fail" ELSE runResult
  /\ UNCHANGED <<finalized, runStarted, runStatus>>

\* Mutant: a run that never started is a skip even after an error.
FinalizeUnstartedAsSkip ==
  /\ CheckFinalized
  /\ finalized' = TRUE
  /\ IF runStarted /\ runStatus = "Unknown"
     THEN /\ runStatus' = "Complete"
          /\ runResult' = IF runResult = "NotApplicable" THEN "Pass" ELSE runResult
     ELSE IF ~runStarted
     THEN runStatus' = "Skip" /\ runResult' = "NotApplicable"
     ELSE UNCHANGED <<runStatus, runResult>>
  /\ UNCHANGED runStarted

Finalize ==
  /\ CheckFinalized
  /\ finalized' = TRUE
  /\ \/ /\ runStarted /\ runStatus = "Unknown"
        /\ runStatus' = "Complete"
        /\ runResult' = IF runResult = "NotApplicable" THEN "Pass" ELSE runResult
     \/ /\ ~runStarted /\ runStatus # "Error"
        /\ runStatus' = "Skip"
        /\ runResult' = "NotApplicable"
     \/ /\ IF runStarted THEN runStatus # "Unknown" ELSE runStatus = "Error"
        /\ UNCHANGED <<runStatus, runResult>>
  /\ UNCHANGED runStarted
=============================================================================
