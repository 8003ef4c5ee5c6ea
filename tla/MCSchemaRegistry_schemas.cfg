\* Two requests at once, one failing call or restart; one schema is seeded, one is new.
SPECIFICATION Spec
CONSTANTS
  Schemas <- MCSchemas
  Bodies <- MCBodies
  Composes <- MCComposes
  Seeded = {"type"}
  SeedBody = "composed"
  Procs = {p1, p2}
  MaxRequests = 3
  MaxFaults = 1
  Nil = Nil
CHECK_DEADLOCK FALSE
SYMMETRY Symmetry
INVARIANTS
  ArtifactsResolve
  ProfileCurrent
  StampsTrue
  CacheCoherent
  TypesResolve
PROPERTY SnapshotsImmutable
