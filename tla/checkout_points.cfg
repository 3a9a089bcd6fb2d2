SPECIFICATION Spec
CONSTANTS
  q1 = q1
  q2 = q2
  d1 = d1
  k1 = k1
  k2 = k2
  c1 = c1
  g1 = g1
  Minters = {q1, q2}
  Tellers = {q1, q2, d1}
  Orders = {q1, q2}
  NoOrder = none
  Keys = {k1, k2}
  NoKey = nokey
  Carts = {c1, g1}
  NoCart = nocart
  NoHold = nohold
  Forms <- TwoTabs
  TierMarks <- Marks
  Opening = 1
  MaxPoints = 1
  PromoLimit = 1
  MaxTries = 2
  MaxDesk = 1
  MaxFaults = 0
INVARIANTS PointsBackIfTaken
CHECK_DEADLOCK FALSE
