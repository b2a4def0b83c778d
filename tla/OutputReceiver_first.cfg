SPECIFICATION Spec
CONSTANTS
  s1 = s1
  s2 = s2
  m1 = m1
  m2 = m2
  m3 = m3
  Steps = {s1, s2}
  Series = {m1, m2, m3}
  ValueTypes = {"double"}
  StepOf <- Owners
  Written <- SomeArtifacts
  MaxArtifacts = 4
  MaxBuilds = 1
INVARIANT
  FirstModelMatchesFile
