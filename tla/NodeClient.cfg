SPECIFICATION Spec
CONSTANT Inputs <- SomeInputs
INVARIANTS
  LastOverrideDecides
  EveryNodeOrNone
  CallsReachConfiguredBackend
  TopologyIsFaithful
  ErrorsAreThoseOfTheReport
  IdsResolveToTheirIdentifier
  StorageIsComplete
PROPERTY RoutingNeverChanges
CHECK_DEADLOCK FALSE
