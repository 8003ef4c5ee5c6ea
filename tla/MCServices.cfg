\* Requests on one record that overlap at every store call, of which one may raise.
SPECIFICATION Services
CONSTANTS
  Nil = Nil
  Keep = Keep
  root = root
  cat = cat
  ds = ds
  b0 = b0
  b1 = b1
  Records <- MCRecords
  Containers <- MCContainers
  Bodies <- MCBodies
  Handlers = {h1, h2}
  Seed <- SeedWithoutDs
  Requests <- ConcurrentRequests
  Exclusive = FALSE
  MaxRequests = 2
  MaxFaults = 1
  MaxCrashes = 0
  MaxEvents = 3
CHECK_DEADLOCK FALSE
INVARIANT StateGranted
PROPERTIES
  EveryDecisionEnds
  NewsSpreads
  LabelsConverge
