SPECIFICATION Spec
CONSTANTS
  f1 = f1
  f2 = f2
  u1 = u1
  u2 = u2
  c1 = c1
  c2 = c2
  NoFeed = NoFeed
  NoUpdate = NoUpdate
  Feeds = {f1}
  Updates = {u1}
  Messages = {u1}
  Channels = {c1}
  PublishedAt <- OnePublishedAt
  Documents <- OneEntry
  InitialChannels <- MapOne
  Notifiers = {c1}
  Attempts = 2
  Unclassifiable = {}
  Topics <- MCTopics
  Consumers <- MCConsumers
  BufSize = 1
  ReconcileBatch = 1
  HistorySize = 1
  MaxFaults = 1
  MaxLapses = 0
  MaxRemaps = 0
INVARIANTS
  MarkedImpliesDelivered
