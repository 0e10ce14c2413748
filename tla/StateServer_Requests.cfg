SPECIFICATION FairSpec
CONSTANTS
  a = a
  b = b
  c = c
  Doid = {1, 2, 3, 4}
  Zone = {1, 2}
  AI = {a, b}
  Client = {c}
  Scenarios <- CrossingAndSettling
INVARIANTS
  TypeOK
  LocationsAgree
  RolesKnown
  AIInherited
  QueriesAnswered
  SubtreesGo
PROPERTIES
  DeletionFinishes
CHECK_DEADLOCK FALSE
