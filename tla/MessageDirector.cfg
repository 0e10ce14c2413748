SPECIFICATION FairSpec
CONSTANTS
  p = p
  q = q
  u = u
  d = d
  Subscriber <- MCSubscriber
  Local <- MCLocal
  Remote <- MCRemote
  Down = d
  MaxChannel = 6
  Service = 6
  Scenarios <- Working
INVARIANTS
  TypeOK
  UpstreamIsExact
  NoReplyLost
  DeliveredOnce
  PostRemovesSettled
PROPERTIES
  EventuallyRouted
CHECK_DEADLOCK FALSE
