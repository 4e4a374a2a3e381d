SPECIFICATION FairSpec
CONSTANTS
  p1 = p1
  p2 = p2
  Callers = {p1, p2}
  MaxConcurrent = 1
  MaxRetries = 1
  MaxFormatRetries = 1
  One <- MCOne
  Threshold <- MCThreshold
  Replies <- MCReplies
INVARIANTS
  SlotsCounted
  RequestsBounded
  NoFabricatedVerdict
  SecurityIsImportant
PROPERTIES
  EveryCallReturns
