\* Clients never overlap two requests on one record; a call may raise, the process may restart.
SPECIFICATION Spec
CONSTANTS
  Nil = Nil
  Keep = Keep
  root = root
  cat = cat
  ds = ds
  b0 = b0
  b1 = b1
  Records <- MCRecords
  Containers <- MCContainers
  Bodies <- MCBodies
  Handlers = {h1, h2}
  Seed <- SeedWithDs
  Requests <- ExclusiveRequests
  Exclusive = TRUE
  MaxRequests = 3
  MaxFaults = 2
  MaxCrashes = 1
  MaxEvents = 4
INVARIANTS
  LinksAgree
  AuditReplays
  CompensationRestores
PROPERTIES
  NoLostUpdate
  FollowsLifecycle
\* The requests are bounded, so the system comes to rest.
CHECK_DEADLOCK FALSE
