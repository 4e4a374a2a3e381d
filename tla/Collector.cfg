SPECIFICATION FairSpec
CONSTANTS
  f1 = f1
  f2 = f2
  f3 = f3
  h1 = h1
  h2 = h2
  Feeds = {f1, f2, f3}
  Hosts = {h1, h2}
  HostOf <- MCHostOf
  Retries = 2
  Gap = 2
  BackoffBase = 1
  RetryAfters = {0, 1, 3}
  MaxHops = 2
  MaxBodySize = 2
  MaxInt = 7
  Sizes = {1, 2, 3, 4}
INVARIANTS
  BodyIsWhole
PROPERTIES
  TriesSpaced
  RetryWaits
  FetchReturns
