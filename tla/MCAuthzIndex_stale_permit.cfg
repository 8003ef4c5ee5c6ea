\* A decision commits after a policy write cleared the index.
SPECIFICATION Spec
CONSTANTS
  Records <- MCRecords
  Policies <- MCPolicies
  Nil = Nil
  Contexts <- People
  Anonymous = "anon"
  Key <- OneKeyEach
  Procs = {p1}
  Writers = {w1}
  SystemDefault = Nil
  MaxDepth = 3
  SeedLink <- Inherited
  SeedOffer <- Everybody
  Offers <- Shut
  Links <- NoLinks
  Modes <- NoModes
  SeedMode = "odrl"
  MaxWrites = 1
CHECK_DEADLOCK FALSE
INVARIANT AlwaysCoherent
