SPECIFICATION Spec
CONSTANT MaxCalls = 5
INVARIANT IInv
PROPERTIES
  ImplementsVerdict
  ReadingsNeverRetracted
