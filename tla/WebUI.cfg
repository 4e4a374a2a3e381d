SPECIFICATION FairSpec
CONSTANTS
  u1 = u1
  u2 = u2
  u3 = u3
  s1 = s1
  s2 = s2
  Updates = {u1, u2, u3}
  Rank <- MCRank
  CategoryOf <- MCCategoryOf
  Initial = {u1, u2}
  Filters <- MCFilters
  pageSize = 1
  feedMaxItems = 2
  Slots = {s1, s2}
  MaxChanges = 2
  MaxClicks = 2
  MaxFailures = 1
INVARIANTS
  PagingComplete
  FeedComplete
PROPERTIES
  ViewConverges
