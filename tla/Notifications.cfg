CHECK_DEADLOCK FALSE
SPECIFICATION FairSpec
CONSTANTS
  c1 = c1
  c2 = c2
  c3 = c3
  c4 = c4
  Called = {c1, c2, c3, c4}
  Notifiers = {c1, c2, c4}
  Up = {c1}
  Reachable = {c1, c4}
  Attempts = 3
  MaxEvents = 2
INVARIANTS
  ReportIsTrue
  FailureIsolated
PROPERTIES
  UpIsServed
  StopEndsDispatch
  ImplementsDispatchCall
