SPECIFICATION OrderedFairSpec
CONSTANTS
  Threads = {t1, t2}
  MaxData = 2
  PipeCapacity = 1
  ExitCodes = {0}
INVARIANTS
  AcceptedDataArrives
  OnlyFailedWritesLeaveChildren
  NoDescriptorLeaks
  OneSshCallIsSafe
PROPERTY CallsWhoseDataFitReturn
CHECK_DEADLOCK FALSE
