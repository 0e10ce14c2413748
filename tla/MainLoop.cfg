SPECIFICATION Spec
CONSTANTS
  Main = Main
  Router = Router
  Others = {Router}
  MaxQueueSize = 3
  Scenarios <- MCScenarios
INVARIANTS
  NothingLost
  WritesAreCounted
  CallbackOnLiveOperation
PROPERTIES
  EventuallyTold
CHECK_DEADLOCK FALSE
