SPECIFICATION Spec
CONSTANTS
  Threads = {t1, t2}
  Nobody = Nobody
  s1 = s1
  m1 = m1
  Steps = {s1}
  Series = {m1}
  ValueTypes = {"double"}
  StepOf <- OneSeries
  LogToResults = FALSE
  FileOfFlags = TRUE
  MaxArtifacts = 5
INVARIANT
  NothingAddedAfterStepEnd
