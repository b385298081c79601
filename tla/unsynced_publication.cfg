CONSTANTS
  s1 = s1
  s2 = s2
  Stream = {s1}
  MaxSeq = 1
  MaxSegId = 1
  MaxUnit = 1
  MaxGroup = 1
  SegCapacity = 2
  ReclaimBatch = 1
  MaxFailures = 2
SPECIFICATION Spec
INVARIANTS
  PromisedPending
