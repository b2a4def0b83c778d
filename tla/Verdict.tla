------------------------------ MODULE Verdict ------------------------------
(***************************************************************************)
(* What a test run's verdict should be, as a function of everything that   *)
(* was reported to it, in order: the first skip or error decides the       *)
(* status; without one, a run that never started counts as skipped, and a  *)
(* completed run fails if a failure was diagnosed and passes otherwise.    *)
(* The verdict is decided once.                                            *)
(*                                                                         *)
(* The statement is over the whole history of reports;                     *)
(* TestResultCalculator.tla reaches the same verdict with two words of     *)
(* state, updated report by report.                                        *)
(***************************************************************************)
EXTENDS Naturals, Sequences

VARIABLES reports, verdict

verdictVars == <<reports, verdict>>

Report == {"start", "skip", "error", "fail"}

Undecided == [status |-> "Unknown", result |-> "NotApplicable"]

Reported(h, r) == \E i \in 1..Len(h) : h[i] = r

\* Report r was made, and before any of the reports in others.
CameFirst(h, r, others) ==
  \E i \in 1..Len(h) : /\ h[i] = r
                       /\ \A j \in 1..(i - 1) : h[j] \notin others

VerdictOf(h) ==
  IF CameFirst(h, "error", {"skip"})
  THEN [status |-> "Error", result |-> "NotApplicable"]
  ELSE IF Reported(h, "skip") \/ ~Reported(h, "start")
  THEN [status |-> "Skip", result |-> "NotApplicable"]
  ELSE IF Reported(h, "fail")
  THEN [status |-> "Complete", result |-> "Fail"]
  ELSE [status |-> "Complete", result |-> "Pass"]

Init == reports = <<>> /\ verdict = Undecided

Hear ==
  /\ verdict = Undecided
  /\ \E r \in Report : reports' = Append(reports, r)
  /\ UNCHANGED verdict

Decide ==
  /\ verdict = Undecided
  /\ verdict' = VerdictOf(reports)
  /\ UNCHANGED reports

Next == Hear \/ Decide

Spec == Init /\ [][Next]_verdictVars
=============================================================================
