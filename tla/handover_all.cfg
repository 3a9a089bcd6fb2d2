CONSTANTS
  o1 = o1
  o2 = o2
  c1 = c1
  r1 = r1
  Orders = {o1, o2}
  Callers = {c1}
  Replicas = {r1}
  Cases <- TwoOrders
  Batch = 1
  MaxTime = 1
  MaxCalls = 2
  MaxFaults = 2
SPECIFICATION FairSpec
INVARIANTS TypeOK StampIsTold ToldWhenDue
PROPERTIES StampKept CancelledIsFinal DueReachesKitchen
