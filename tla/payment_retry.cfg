CONSTANTS
  c1 = c1
  c2 = c2
  k1 = k1
  p1 = p1
  s1 = s1
  Callers = {c1, c2}
  Consumers = {k1}
  Pollers = {p1}
  Staff = {}
  AutoAccept = TRUE
  MaxRetries = 1
  MaxFaults = 1
SPECIFICATION Spec
INVARIANTS TypeOK PollerSeesEveryIntent PaidBeforeSweepKept ExtraMeansPaidTwice
SYMMETRY Symmetry
CHECK_DEADLOCK FALSE
