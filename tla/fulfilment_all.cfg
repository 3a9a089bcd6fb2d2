SPECIFICATION FairSpec
CONSTANTS
  Handlers = {h1, h2}
  r1 = r1
  Riders = {r1, r2}
  NoRider = none
  Kinds <- AllKinds
  Cases <- DoorAndCounter
  MaxDeliver = 5
  MaxReports = 2
  MaxFaults = 1
INVARIANTS TypeOK SettledOnce
PROPERTIES ReleasedByOwnEvent GivenBackNotShown DropOffCloses CollectionCloses TaskTracked
CHECK_DEADLOCK FALSE
