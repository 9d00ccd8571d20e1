SPECIFICATION Spec
CONSTANTS
  Gates <- MCGates
  Program <- MCProgram
  Inputs <- MCInputs
  Declared <- MCDeclared
  Files <- MCFiles
  Contents <- MCContents
  Programs <- MCPrograms
  Versions <- MCVersions
  Target <- MCTarget
  Revisions <- MCRevisions
  Selections <- MCSelections
  Policies <- MCPolicies
  Empty = {}
  Padded = {}
  Garbled = {}
  GitErrors = {}
  FailFasts = {TRUE, FALSE}
  Restores = FALSE
INVARIANTS
  BundleVerifiable
