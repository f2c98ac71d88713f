SPECIFICATION Spec
CONSTANTS
  Workers = {w1}
  None = None
  MaxFaults = 0
  Stray = {}
INVARIANTS
  OutageIsNoFailure
