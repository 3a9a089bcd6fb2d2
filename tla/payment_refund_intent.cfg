CONSTANTS
  c1 = c1
  c2 = c2
  k1 = k1
  p1 = p1
  s1 = s1
  Callers = {c1}
  Consumers = {k1}
  Pollers = {}
  Staff = {s1}
  AutoAccept = TRUE
  MaxRetries = 1
  MaxFaults = 0
SPECIFICATION Spec
INVARIANTS RefundOnPaidIntent

CHECK_DEADLOCK FALSE
