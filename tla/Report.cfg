SPECIFICATION Spec
CONSTANTS
  Arguments <- MCArguments
  Names = {"", "a", "b"}
  JsonTexts = {"{ a }", "{"}
  MaxInfos = 2
  MaxDuts = 2
  MaxArtifacts = 2
CHECK_DEADLOCK FALSE
INVARIANTS
  NothingLostInTheFile
  ReferencesResolve
  OneTestRunStart
  ValidatorsAreOfOneType
  InclusiveLimitsDecide
