CONSTANTS
  Bundles <- MCBundles
  Licenses <- MCLicenses
  RdShape = "rd shape"
  Slugs <- MCSlugs
  RootSlugs <- MCRootSlugs
  Children <- MCChildren
  SchemaOf <- MCSchemaOf
  Names <- MCNames
  Legacy <- MCLegacy
  Moved <- MCMoved
  AutoApply = TRUE
  Requests = {"r1", "r2"}
  MaxEvents = 2
SPECIFICATION FairSpec
INVARIANTS AllOrNothing CacheCurrent
PROPERTIES MigrationKeeps Served
CHECK_DEADLOCK FALSE
