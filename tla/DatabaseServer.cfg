SPECIFICATION FairSpec
CONSTANTS
  f = f
  g = g
  v = v
  d1 = d1
  d2 = d2
  Doid = {d1, d2}
  Field = {f, g}
  Class = {f, g}
  Value = {v}
  Blank = Blank
  Missing = Missing
  Requests <- MCRequests
  Malformed <- MCMalformed
  MaxRequests = 4
INVARIANTS
  RunningIndependent
  NothingStuck
  ArrivalOrder
PROPERTIES
  EventuallyCleared
CHECK_DEADLOCK FALSE
