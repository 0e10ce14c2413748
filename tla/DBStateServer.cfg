SPECIFICATION FairSpec
CONSTANTS
  f = f
  g = g
  Field = {f, g}
  DbField = {f}
  Doid = {1, 2}
  Value = {0, 1, 2, 3}
  Default <- MCDefault
  Blank = Blank
  Missing = Missing
  Scenarios <- MCScenarios
INVARIANTS
  Awaited
  AnsweredOnce
PROPERTIES
  StoredSpec
  EventuallyAnswered
CHECK_DEADLOCK FALSE
