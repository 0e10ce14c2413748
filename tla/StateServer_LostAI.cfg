SPECIFICATION Spec
CONSTANTS
  a = a
  b = b
  c = c
  Doid = {1, 2, 3, 4}
  Zone = {1, 2}
  AI = {a, b}
  Client = {c}
  Scenarios <- LostAI
INVARIANTS
  AIDeletionTold
CHECK_DEADLOCK FALSE
