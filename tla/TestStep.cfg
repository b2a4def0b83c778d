SPECIFICATION StepsSpec
CONSTANTS
  Threads = {t1, t2}
  Nobody = Nobody
  Steps = {s1}
  Series = {}
  ValueTypes = {}
  StepOf <- NoSeries
  LogToResults = TRUE
  FileOfFlags = TRUE
  MaxArtifacts = 6
SYMMETRY Symmetry
INVARIANTS
  RunOrder
  VerdictMatchesLog
  DurableAtTheEnd
  StepBracket
  StepEndTellsErrors
  StepEndDurable
PROPERTY
  UsesWriterLegally
