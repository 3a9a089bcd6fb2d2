SPECIFICATION Spec
CONSTANTS
  Handlers = {h1, h2}
  r1 = r1
  Riders = {r1, r2}
  NoRider = none
  Kinds <- PaidKinds
  Cases <- DoorAndCounter
  MaxDeliver = 5
  MaxReports = 2
  MaxFaults = 0
INVARIANTS SettledAsCollected
CHECK_DEADLOCK FALSE
