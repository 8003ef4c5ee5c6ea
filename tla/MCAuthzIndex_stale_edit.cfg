\* A record gets other rights after a decision for it was cached; nothing overlaps.
SPECIFICATION Spec
CONSTANTS
  Records <- MCRecords
  Policies <- MCPolicies
  Nil = Nil
  Contexts <- People
  Anonymous = "anon"
  Key <- OneKeyEach
  Procs = {p1}
  Writers = {}
  SystemDefault = Nil
  MaxDepth = 3
  SeedLink <- Inherited
  SeedOffer <- PublicForAll
  Offers <- NoOffer
  Links <- ToMembers
  Modes <- NoModes
  SeedMode = "odrl"
  MaxWrites = 1
CHECK_DEADLOCK FALSE
INVARIANT EditsInvalidate
