SPECIFICATION FairSpec
CONSTANTS
  Buyers = {b1, b2}
  Auths = {a1}
  Tasks = {t1}
  Tests = {s1}
  DemoTask = DemoTask
  DemoTest = DemoTest
  None = None
  Calls <- LiveCalls
  MaxFaults = 2
PROPERTIES
  PayerGetsVerdict
CHECK_DEADLOCK FALSE
