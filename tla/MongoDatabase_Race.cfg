SPECIFICATION RacingSpec
CONSTANTS
  f = f
  g = g
  z = z
  a = a
  b = b
  Doid <- MCDoid
  Field = {f, g, z}
  Class = {f, g}
  Value = {a, b}
  Blank = Blank
  Missing = Missing
  Worker = {w1, w2}
  NewObject <- MCNewObject
  Requests <- RacingUpdate
  Malformed = {}
  MaxRequests = 1
  MinId = 1
  MaxId = 1
  Allocated = 0
  MaxCreates = 1
  MaxErrors = 0
INVARIANTS
  MismatchIsAMismatch
CHECK_DEADLOCK FALSE
