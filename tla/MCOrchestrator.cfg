SPECIFICATION Spec
CONSTANTS
  Bounties = {b1, b2, b3}
  Posters = {p1}
  Workers = {p1, w1, w2}
  Nobody = Nobody
  Referee = p1
  Specs = {s1}
  Rewards = {1000}
  AceAnswers = {"free", "paid", "unproven"}
  Past = {0, 3}
  MaxFaults = 1
SYMMETRY Symmetry
INVARIANTS
  TypeOK
  MoneyFollowsVerdict
  StoredIsTrue
  VolumeIsReal
  VolumeIsWatched
  QuarantineMovesNothing
PROPERTIES
  ImplementsEscrow
CHECK_DEADLOCK FALSE
