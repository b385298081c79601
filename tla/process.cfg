CONSTANTS
  s1 = s1
  s2 = s2
  Stream = {s1}
  MaxSeq = 2
  MaxSegId = 2
  MaxUnit = 1
  MaxGroup = 1
  SegCapacity = 1
  ReclaimBatch = 1
  MaxFailures = 2
SPECIFICATION ProcessSpec
INVARIANTS
  TypeOK
  PromisedPending
  ReleasedNeverReturns
  IdentityNeverReused
  MemoryMatchesFiles
  OpenFailsOnlyKnown
PROPERTIES
  RefinesBuffer
