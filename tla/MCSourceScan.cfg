SPECIFICATION Spec
CONSTANTS
  Manifest <- MCManifest
  ModulePath <- MCModulePath
  ModuleSources <- MCModuleSources
  Deps <- MCDeps
  Variants <- MCVariants
  Findings <- MCFindings
  Workers <- MCWorkers
  MaxEdits = 1
  MaxScans = 2
INVARIANTS
  PoolLosesNothing
  CAbiAsNested
PROPERTIES
  RescanChangesNothing
  ImplementsLifecycle
  PoolEnds
CHECK_DEADLOCK FALSE
