SPECIFICATION Spec
CONSTANTS
  Doid = {1, 2}
  Parent = {1, 2}
  Zone = {1, 2}
  InterestId = {0, 1, 2}
  Value = {1, 2}
  Scenarios <- Closing
INVARIANTS
  SeenThroughInterests
CHECK_DEADLOCK FALSE
