----------------------------- MODULE Artifacts -----------------------------
(***************************************************************************)
(* The output artifacts of results/data_model/results.proto, as far as the *)
(* results library's own behaviour depends on them: which artifact it is,  *)
(* the object it belongs to, and the fields the library computes.  Fields  *)
(* copied from the caller (names, messages, values) are left out.          *)
(*                                                                         *)
(* A step and a series stand for their ids, which IntIncrementer makes     *)
(* unique by counting under its own mutex.                                 *)
(***************************************************************************)
EXTENDS Naturals, Sequences

CONSTANTS
  Steps,                  \* TestStep objects
  Series,                 \* MeasurementSeries objects
  StepOf,                 \* the step each series is created with
  ValueTypes              \* alternatives of the element value's variant

ASSUME ArtifactsAssumption ==
  /\ StepOf \in [Series -> Steps]
  /\ "none" \notin ValueTypes

\* Test run artifacts.
SchemaVersion == [kind |-> "SchemaVersion"]
RunStart == [kind |-> "RunStart"]
RunLog == [kind |-> "RunLog"]
RunError == [kind |-> "RunError"]
RunEnd(status, result) == [kind |-> "RunEnd", status |-> status, result |-> result]

\* Test step artifacts.  Content is a measurement, a file, an extension, a
\* log or a passing diagnosis: nothing the library decides depends on them.
StepStart(s) == [kind |-> "StepStart", step |-> s]
Content(s) == [kind |-> "Content", step |-> s]
Failure(s) == [kind |-> "Failure", step |-> s]
StepError(s) == [kind |-> "StepError", step |-> s]
StepEnd(s, status) == [kind |-> "StepEnd", step |-> s, status |-> status]

\* Measurement series artifacts.
SeriesStart(m) == [kind |-> "SeriesStart", series |-> m]
Element(m, i, type) == [kind |-> "Element", series |-> m, index |-> i, type |-> type]
SeriesEnd(m, total) == [kind |-> "SeriesEnd", series |-> m, total |-> total]

Status == {"Unknown", "Complete", "Error", "Skip"}
Result == {"NotApplicable", "Pass", "Fail"}

RunArtifact ==
  {SchemaVersion, RunStart, RunLog, RunError}
    \cup {RunEnd(status, result) : status \in Status, result \in Result}

StepArtifact(s) ==
  {StepStart(s), Content(s), Failure(s), StepError(s)}
    \cup {StepEnd(s, status) : status \in Status}

SeriesArtifact ==
  [kind : {"SeriesStart"}, series : Series]
    \cup [kind : {"Element"}, series : Series, index : Nat, type : ValueTypes]
    \cup [kind : {"SeriesEnd"}, series : Series, total : Nat]

Artifact == RunArtifact \cup SeriesArtifact \cup UNION {StepArtifact(s) : s \in Steps}
=============================================================================
