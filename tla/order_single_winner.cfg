SPECIFICATION Spec
CONSTANTS
  w1 = w1
  w2 = w2
  w3 = w3
  Workers = {w1, w2, w3}
  Calls = {"advance", "cancel", "customer_cancel"}
  TermsSet <- HeldTerms
  MaxCalls = 1
SYMMETRY Symmetry
CHECK_DEADLOCK FALSE
INVARIANTS EffectsOwedOnce StockLeavesOnce
PROPERTIES KeepsPromise
