SPECIFICATION Spec
CONSTANTS
  Percents = {0, 44, 45, 69, 70, 100}
  NaN = NaN
INVARIANTS
  TypeOK
  RejectionsAreEarned
  PassesAreEarned
  DoubtFavoursTheWorker
CHECK_DEADLOCK FALSE
