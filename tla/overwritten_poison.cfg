SPECIFICATION Spec
CONSTANTS
  c1 = c1
  c2 = c2
  c3 = c3
  p1 = p1
  p2 = p2
  s1 = s1
  s2 = s2
  Callers = {c1, c2, c3}
  Stoppers = {p1, p2}
  Stream = {s1, s2}
  Recovered <- OneRecovered
  Calls <- MixedCalls
  Capacity = 4
  QueueCapacity = 2
  MaxUnits = 3
  MaxGroupSize = 5
  SeqLimit = 2
  BlockWhenFull = TRUE
  MaxEvents = 4
PROPERTY NoWorkAfterPoison
CHECK_DEADLOCK FALSE
