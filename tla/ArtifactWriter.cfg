SPECIFICATION FairSpec
CONSTANTS
  Nobody = Nobody
  Threads = {t1, t2}
  Artifact = {a1, a2}
  Unprintable = {a2}
  HasFile = TRUE
  HasStream = TRUE
  FlushEachMinute = TRUE
  FileMayFail = TRUE
  MaxWrites = 4
INVARIANTS
  IInv
  SequenceNumbersAreFileOrder
  StreamMissesOnlyUnprintable
PROPERTIES
  ImplementsArtifactLog
  EventuallyOnDisk
  DestroyReturns
