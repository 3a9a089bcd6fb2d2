SPECIFICATION Spec
CONSTANTS
  w1 = w1
  w2 = w2
  w3 = w3
  Workers = {w1, w2}
  Calls = {"cancel", "pay"}
  TermsSet <- PrepaidAuto
  MaxCalls = 2
CHECK_DEADLOCK FALSE
PROPERTIES LatePaymentNotFulfilled
