CHECK_DEADLOCK FALSE
SPECIFICATION FairSpec
CONSTANTS
  g1 = g1
  g2 = g2
  r1 = r1
  r2 = r2
  r3 = r3
  Groups = {g1, g2}
  Replicas = {r1, r2, r3}
  GroupOf <- TwoGroups
  MaxEntries = 3
  MaxFaults = 2
INVARIANTS
  PendingCoversUnfinished
  AbandonedBound
PROPERTIES
  ImplementsGroupDelivery
  EventuallyResolved
