SPECIFICATION FairSpec
CONSTANTS
  Threads = {t1, t2}
  Nobody = Nobody
  s1 = s1
  m1 = m1
  Steps = {s1}
  Series = {m1}
  ValueTypes = {double, string}
  StepOf <- OneSeries
  LogToResults = FALSE
  FileOfFlags = FALSE
  MaxArtifacts = 5
INVARIANTS
  SeriesBracket
  SeriesTotals
  SeriesEndDurable
PROPERTIES
  OneTypePerSeries
  CallsReturn
