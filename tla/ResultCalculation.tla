------------------------- MODULE ResultCalculation -------------------------
(***************************************************************************)
(* The test result calculator with arbitrary callers: any method, any      *)
(* number of times, in any order, until Finalize; a later call kills the   *)
(* program (CheckFinalized).  The history of the calls is kept to compare  *)
(* the verdict with Verdict.tla.                                           *)
(***************************************************************************)
EXTENDS TestResultCalculator

CONSTANT MaxCalls        \* bound on the number of Notify calls

ASSUME CallsAssumption == MaxCalls \in Nat

VARIABLES
  calls,                 \* history: the Notify calls made
  aborted                \* a CHECK failed

vars == <<finalized, runStarted, runResult, runStatus, calls, aborted>>

TypeOK ==
  /\ CalculatorTypeOK
  /\ calls \in Seq({"start", "skip", "error", "fail"})
  /\ aborted \in BOOLEAN

Init == CalculatorInit /\ calls = <<>> /\ aborted = FALSE

Called(c) ==
  /\ ~aborted /\ Len(calls) < MaxCalls
  /\ calls' = Append(calls, c)
  /\ UNCHANGED aborted

Start == NotifyStartRun /\ Called("start")
Skip == NotifySkip /\ Called("skip")
Error == NotifyError /\ Called("error")
Fail == NotifyFailureDiagnosis /\ Called("fail")
Finish == ~aborted /\ Finalize /\ UNCHANGED <<calls, aborted>>

\* Any method called after Finalize.
UseAfterFinalize ==
  /\ ~aborted /\ ~CheckFinalized
  /\ aborted' = TRUE
  /\ UNCHANGED <<calculatorVars, calls>>

Dead == aborted /\ UNCHANGED vars

Next == Start \/ Skip \/ Error \/ Fail \/ Finish \/ UseAfterFinalize \/ Dead

Spec == Init /\ [][Next]_vars
-----------------------------------------------------------------------------
\* The verdict the calculator has published, if Finalize was called.
Published ==
  IF finalized THEN [status |-> runStatus, result |-> runResult]
  ELSE [status |-> "Unknown", result |-> "NotApplicable"]

V == INSTANCE Verdict WITH reports <- calls, verdict <- Published

(***************************************************************************)
(* Status and result, updated call by call, end as the verdict that        *)
(* Verdict.tla defines over the whole history, and are final then.         *)
(***************************************************************************)
ImplementsVerdict == V!Spec

(***************************************************************************)
(* What Status() and Result() return before the end is never taken back,   *)
(* except a failure by a skip or an error: in particular an error is never *)
(* turned into a skip, nor either into completion.                         *)
(***************************************************************************)
ReadingsNeverRetracted ==
  [][/\ runStatus # "Unknown" => UNCHANGED <<runStatus, runResult>>
     /\ runResult = "Fail" => runResult' = "Fail" \/ runStatus' \in {"Skip", "Error"}
    ]_calculatorVars

(***************************************************************************)
(* The inductive invariant: before Finalize the two words are a digest of  *)
(* the history.                                                            *)
(***************************************************************************)
DigestOfHistory ==
  ~finalized =>
    /\ runStarted <=> V!Reported(calls, "start")
    /\ runStatus = "Error" <=> V!CameFirst(calls, "error", {"skip"})
    /\ runStatus = "Skip" <=> V!CameFirst(calls, "skip", {"error"})
    /\ runStatus = "Unknown" <=>
         ~V!Reported(calls, "skip") /\ ~V!Reported(calls, "error")
    /\ runResult = "Fail" <=> runStatus = "Unknown" /\ V!Reported(calls, "fail")
    /\ runResult # "Pass"
    /\ runStatus # "Complete"

IInv ==
  /\ TypeOK
  /\ DigestOfHistory
  /\ finalized => runStatus # "Unknown"
  /\ aborted => finalized
=============================================================================
