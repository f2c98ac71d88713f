SPECIFICATION Spec
CONSTANTS
  MarkerPlaces = {"data"}
  FailedSettled = {"absent"}
  MaxMessages = 2
INVARIANTS
  TypeOK
  PaidToolsArePaid
  FreeStaysFree
  ReplayReachesSettlement
  StreamIsHandedOn
PROPERTIES
  PayerIsHonoured
CHECK_DEADLOCK FALSE
