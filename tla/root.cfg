SPECIFICATION Spec
CONSTANTS
  o1 = o1
  o2 = o2
  Openers = {o1, o2}
  Depth = 2
  MaxRoots = 3
SYMMETRY OpenersAreInterchangeable
INVARIANTS
  OpenReportsDurableRoot
  IdentityIsStable
  CreationCompletes
