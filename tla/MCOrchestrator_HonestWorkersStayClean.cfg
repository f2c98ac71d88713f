SPECIFICATION Spec
CONSTANTS
  Bounties = {b1, b2, b3, b4}
  Posters = {p1, p2, p3, p4}
  Workers = {w1}
  Nobody = Nobody
  Referee = p1
  Specs = {s1}
  Rewards = {1000}
  AceAnswers = {"free"}
  Past = {0}
  MaxFaults = 0
SYMMETRY Symmetry
INVARIANTS
  HonestWorkersStayClean
CHECK_DEADLOCK FALSE
