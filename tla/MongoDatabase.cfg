SPECIFICATION MCSpec
CONSTANTS
  f = f
  g = g
  z = z
  a = a
  b = b
  Doid <- MCDoid
  Field = {f, g, z}
  Class = {f, g}
  Value = {a, b}
  Blank = Blank
  Missing = Missing
  Worker = {w1, w2}
  NewObject <- MCNewObject
  Requests <- MCRequests
  Malformed <- MCMalformed
  MaxRequests = 3
  MinId = 1
  MaxId = 3
  Allocated = 2
  MaxCreates = 3
  MaxErrors = 1
INVARIANTS
  AnswersAreTrue
  FreshDoids
PROPERTIES
  SerialSpec
  EventuallyAnswered
CHECK_DEADLOCK FALSE
