\* Two people, two requests at a time.
SPECIFICATION FairSpec
CONSTANTS
  p1 = p1
  p2 = p2
  Users <- People
  Procs = {p1, p2}
  Bodies <- SomeBodies
  MaxPerUser = 1
  Instances <- SomeInstances
  Nil = Nil
CHECK_DEADLOCK FALSE
INVARIANTS
  AdminRemains
  RecordCurrent
  KeyLimit
PROPERTY RolesSettle
