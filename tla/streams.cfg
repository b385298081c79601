CONSTANTS
  s1 = s1
  s2 = s2
  Stream = {s1, s2}
  MaxSeq = 0
  MaxSegId = 2
  MaxUnit = 1
  MaxGroup = 2
  SegCapacity = 2
  ReclaimBatch = 2
  MaxFailures = 1
SPECIFICATION PowerSpec
INVARIANTS
  AckedAppendDurable
  MemoryMatchesFiles
  OpenFailsOnlyKnown
  TornTailRepairable
PROPERTIES
  RefinesBuffer
