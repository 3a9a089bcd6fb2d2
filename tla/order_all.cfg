SPECIFICATION Spec
CONSTANTS
  w1 = w1
  w2 = w2
  w3 = w3
  Workers = {w1, w2}
  Calls = {"advance", "cancel", "customer_cancel", "pay", "verify", "refund", "rate", "delete"}
  TermsSet <- MixedTerms
  MaxCalls = 2
SYMMETRY Symmetry
CHECK_DEADLOCK FALSE
INVARIANTS TypeOK NoUnpaidKitchen RefundNeedsMoney FinalizedIsStamped DropOffIsKept
PROPERTIES StatusCallsFollowMachine
