\* Decisions, reads, settings, managed documents, signing keys and saved searches.
SPECIFICATION AccessSpec
CONSTANTS
  Records <- MCRecords
  Policies <- OnePolicy
  Nil = Nil
  Contexts <- People
  Anonymous = "anon"
  Key <- OneKeyEach
  Procs = {p1, p2}
  Writers = {w1}
  SystemDefault = Nil
  MaxDepth = 3
  SeedLink <- OwnRights
  SeedOffer <- Members
  Offers <- Shut
  Links <- IntoCatalog
  Modes <- BothModes
  SeedMode = "odrl"
  MaxWrites = 2
  Readings <- MCReadings
  Hierarchies <- PartOf
  Askers <- AnyCaller
  MaxEdits = 1
  Servers <- Both
  Readers <- Two
  Home <- OnOne
  Values <- BothModes
  Default = "open"
  CopyTTL = 2
  MaxStored = 2
  Drifted = Drifted
  Managed <- Curated
  Licenses = {"cc"}
  Resources = {"record"}
  Callers <- MCPeople
  Actions = {"read"}
  Bodies <- MCBodies
  Texts <- MCTexts
  SeedBodies <- MCSeeds
  Editors = {"a1", "a2"}
  MaxTime = 2
  MaxSaves = 2
  Calls = {"c1", "c2"}
  Kids = {"k1", "k2"}
  KeyTTL = 2
  MaxLag = 1
  MaxRotations = 3
  Subjects = {"ann", "root"}
  Admins = {"root"}
  Requests = {"q1", "q2"}
  Ids = {"i1"}
  Names = {"n1", "n2"}
CHECK_DEADLOCK FALSE
SYMMETRY Symmetry
INVARIANTS
  IndexCoherent
  PermitsWereGranted
  ReadsEntitled
  CopiesCurrent
  ManagedKept
