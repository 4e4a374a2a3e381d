SPECIFICATION Spec
CONSTANTS
  f1 = f1
  f2 = f2
  a = a
  c = c
  d = d
  l1 = l1
  NoLink = NoLink
  NoDate = NoDate
  Feeds = {f1, f2}
  Items = {a, c, d}
  LinkOf <- MCLinkOf
  DateOf <- MCDateOf
  Dates <- MCDates
  MaxTime = 1
  MaxEdits = 1
INVARIANTS
  OneRowPerDate
  OnlyTwinsDropped
