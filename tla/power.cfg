CONSTANTS
  s1 = s1
  s2 = s2
  Stream = {s1}
  MaxSeq = 1
  MaxSegId = 2
  MaxUnit = 1
  MaxGroup = 2
  SegCapacity = 2
  ReclaimBatch = 1
  MaxFailures = 2
SPECIFICATION PowerSpec
INVARIANTS
  AckedAppendDurable
  MemoryMatchesFiles
  OpenFailsOnlyKnown
  TornTailRepairable
  RefinementInv
PROPERTIES
  RefinesBuffer
