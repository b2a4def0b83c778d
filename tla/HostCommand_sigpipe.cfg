SPECIFICATION Spec
CONSTANTS
  Threads = {t1, t2}
  MaxData = 1
  PipeCapacity = 1
  ExitCodes = {0, 1}
INVARIANT SigpipeNeverKills
CHECK_DEADLOCK FALSE
