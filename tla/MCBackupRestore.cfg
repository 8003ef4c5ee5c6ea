\* Jobs that overlap with writes, and the one-off commands.
SPECIFICATION OperationsSpec
CONSTANTS
  rec = rec
  meta = meta
  Graphs <- GraphsDef
  Record = rec
  MaxWrite = 2
  Jobs = {1, 2}
  MaxJobs = 1
  Requests <- RequestsDef
  Newest = 2
  MaxEvents = 3
  Nil = Nil
  Invocations = {"r1", "r2"}
  Targets = {"old", "new"}
  SourceRecords = {"root", "a", "b"}
  SourceRoot = "root"
  Elsewhere = {"elsewhere"}
  Trees <- TreesDef
  MaxRecords = 2
  Records = {"a", "b"}
  MaxInvocations = 3
  MaxTries = 2
  MaxStops = 1
  MaxEdits = 1
  MaxRewrites = 2
  MaxArrivals = 1
INVARIANTS
  IdentifiersKept
  FreezeMatches
  DirectoriesOwned
PROPERTIES
  DumpsConsistent
  RestoreAllOrNothing
CHECK_DEADLOCK FALSE
