SPECIFICATION CandidatesSpec
CONSTANTS
  Modules <- MCModules
  Deps <- MCDeps
  Required <- MCRequired
  GateTargets <- MCGateTargets
  Words <- MCWords
  Blink <- MCBlink
  Depth <- MCDepth
  Manifests <- MCManifests
  Files <- MCFiles
  Variants <- MCVariants
  Spell <- MCSpell
  MaxEdits <- MCMaxEdits
  Ids <- MCIds
  Rests <- MCRests
  Reports <- MCReports
INVARIANTS
  OwnersAsMeant
  RefusedForAReason
  ComponentsKeepOwners
  ReadyHasNoOuterBlocker
  NoPenaltyMeansCovered
PROPERTIES
  ScanEnds
CHECK_DEADLOCK FALSE
