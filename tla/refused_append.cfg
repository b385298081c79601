SPECIFICATION Spec
CONSTANTS
  s1 = s1
  s2 = s2
  Stream = {s1, s2}
  Queues <- NewStreamQueues
  WordBits = 2
  TotalBytes = 1260
  SegmentBytes = 800
  MaxReleaseRecords = 2
  ReclaimBatch = 2
  CompactionTrigger = 500
  MaxAppends = 2
PROPERTIES
  ExceededNeverFits
CHECK_DEADLOCK FALSE
