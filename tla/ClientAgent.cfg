SPECIFICATION Spec
CONSTANTS
  Clients = {1, 2, 3}
  MaxDoid = 4
  m_valid_index = 2
  Scenarios <- MCScenarios
INVARIANTS
  OneOperation
  PromisedSlots
  SoleSession
  NoGhosts
  FriendsAgree
PROPERTIES
  EventuallyServed
CHECK_DEADLOCK FALSE
