SPECIFICATION StepsSpec
CONSTANTS
  Threads = {t1}
  Nobody = Nobody
  Steps = {s1}
  Series = {}
  ValueTypes = {}
  StepOf <- NoSeries
  LogToResults = FALSE
  FileOfFlags = TRUE
  MaxArtifacts = 4
INVARIANT
  ErrorMakesRunError
