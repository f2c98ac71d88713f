SPECIFICATION Spec
CONSTANTS
  Buyers = {b1, b2}
  Auths = {a1, a2}
  Tasks = {t1}
  Tests = {s1, s2}
  DemoTask = DemoTask
  DemoTest = DemoTest
  None = None
  Calls <- AllCalls
  MaxFaults = 2
SYMMETRY Symmetry
INVARIANTS
  TypeOK
  NoVerdictUnpaid
  PayerIsTold
  VerdictBindsSeal
  PrecheckedIsJudged
  PaidHttpIsJudged
PROPERTIES
  ImplementsLedger
CHECK_DEADLOCK FALSE
