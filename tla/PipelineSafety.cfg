SPECIFICATION Spec
CONSTANTS
  f1 = f1
  f2 = f2
  u1 = u1
  u2 = u2
  c1 = c1
  c2 = c2
  NoFeed = NoFeed
  NoUpdate = NoUpdate
  Feeds = {f1, f2}
  Updates = {u1}
  Messages = {u1}
  Channels = {c1, c2}
  PublishedAt <- OnePublishedAt
  Documents <- SharedEntry
  InitialChannels <- MapShared
  Notifiers = {c1}
  Attempts = 2
  Unclassifiable = {}
  Topics <- MCTopics
  Consumers <- MCConsumers
  BufSize = 2
  ReconcileBatch = 1
  HistorySize = 1
  MaxFaults = 1
  MaxLapses = 1
  MaxRemaps = 1
INVARIANTS
  TypeOK
  NoNilVerdict
  DeliveryBound
  FalseRecordsBound
  UndeliveredIsSelectedUnlessRemapped
PROPERTIES
  ImplementsLifecycle
