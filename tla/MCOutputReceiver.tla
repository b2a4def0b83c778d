-------------------------- MODULE MCOutputReceiver --------------------------
\* Instance of OutputReceiver for TLC: two steps, the first with two series.
EXTENDS OutputReceiver, TLC

CONSTANTS s1, s2, m1, m2, m3

Owners == m1 :> s1 @@ m2 :> s1 @@ m3 :> s2

SomeArtifacts ==
  {RunLog, RunEnd("Skip", "NotApplicable"), RunEnd("Complete", "Pass"),
   StepError(s1), StepStart(s2), StepEnd(s2, "Complete"),
   SeriesStart(m1), Element(m1, 0, "double"), SeriesEnd(m2, 0), Element(m3, 0, "double")}
=============================================================================
