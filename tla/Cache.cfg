SPECIFICATION FairCacheSpec
CONSTANTS
  t1 = t1
  t2 = t2
  Callers = {t1, t2}
  LastBlock = 2
  Capacity = 2
  QueueDepth = 2
  EMPTY_LBA = 99
  Nobody = Nobody
  Usages <- Orderly
INVARIANTS CleanMatchesDevice
PROPERTIES ReadsLatest FlushedIsOnDisk FlushReturns
