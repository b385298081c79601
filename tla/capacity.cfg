SPECIFICATION Spec
CONSTANTS
  s1 = s1
  s2 = s2
  Stream = {s1, s2}
  Queues <- SmallQueues
  WordBits = 2
  TotalBytes = 1250
  SegmentBytes = 800
  MaxReleaseRecords = 2
  ReclaimBatch = 2
  CompactionTrigger = 500
  MaxAppends = 3
INVARIANTS
  AccountingIsExact
  DiskWithinCapacity
  DrainedRootNeverWaits
  
  ReleaseStateSurvives
PROPERTIES
  AdmissionLeavesHeadroom
  ExceedsIsFinal
CHECK_DEADLOCK FALSE
