CONSTANTS
  s1 = s1
  s2 = s2
  Stream = {s1}
  MaxSeq = 3
  MaxSegId = 4
  MaxUnit = 1
  MaxGroup = 1
  SegCapacity = 1
  ReclaimBatch = 1
  MaxFailures = 0
SPECIFICATION ProcessSpec
INVARIANTS
  EpochsAdvanceStreams
