CONSTANTS
  c1 = c1
  c2 = c2
  k1 = k1
  p1 = p1
  s1 = s1
  Callers = {c1}
  Consumers = {}
  Pollers = {p1}
  Staff = {s1}
  AutoAccept = TRUE
  MaxRetries = 1
  MaxFaults = 1
SPECIFICATION FairSpec

PROPERTIES WaitingEnds PaidInTimeConfirms
CHECK_DEADLOCK FALSE
