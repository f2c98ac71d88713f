SPECIFICATION Spec
CONSTANTS
  Percents = {0, 44, 45, 69, 70, 100}
  NaN = NaN
INVARIANT
  NoSlashForATestThatBlowsUp
CHECK_DEADLOCK FALSE
