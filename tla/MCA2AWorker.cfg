SPECIFICATION FairSpec
CONSTANTS
  Workers = {w1, w2}
  None = None
  MaxFaults = 1
  Stray = {"applied", "submitted", "completed", "rejected", "disputed"}
INVARIANTS
  TypeOK
  ExitIsTrue
  FundedFirst
  DeliveryIsSound
PROPERTIES
  FundedJobIsDelivered
