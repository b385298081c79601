CONSTANTS
  s1 = s1
  s2 = s2
  Stream = {s1}
  MaxSeq = 2
  MaxSegId = 2
  MaxUnit = 1
  MaxGroup = 1
  SegCapacity = 2
  ReclaimBatch = 1
  MaxFailures = 1
SPECIFICATION ProcessSpec
INVARIANTS
  InterruptedSealCompletes
