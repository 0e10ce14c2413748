SPECIFICATION Spec
CONSTANTS
  p = p
  q = q
  u = u
  d = d
  Subscriber <- MCSubscriber
  Local <- MCLocal
  Remote <- MCRemote
  Down = d
  MaxChannel = 6
  Service = 6
  Scenarios <- Overlapping
INVARIANTS
  UpstreamCovers
CHECK_DEADLOCK FALSE
