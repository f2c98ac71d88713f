SPECIFICATION FairSpec
CONSTANTS
  Processes = {p1, p2}
  Tasks = {t1, t2}
  Sources = {s1, s2}
  Nonces = {n1, n2, n3}
  NoRow = NoRow
INVARIANTS
  TypeOK
  Binding
  AckedIsDurable
  NeverAcceptedAndRefused
  SealsHideReuse
PROPERTIES
  ImplementsLedger
  EveryCallEnds
CHECK_DEADLOCK FALSE
