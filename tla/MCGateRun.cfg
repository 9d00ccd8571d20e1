SPECIFICATION Spec
CONSTANTS
  Gates <- MCGates
  Program <- MCProgram
  Inputs <- MCInputs
  Declared <- MCDeclared
  Files <- MCFiles
  Contents <- MCContents
  Programs <- MCPrograms
  Versions <- MCVersions
  Target <- MCTarget
  Revisions <- MCRevisions
  Selections <- MCSelections
  Policies <- MCPolicies
  Empty = {4}
  Padded = {3}
  Garbled = {2}
  GitErrors = {"text", "padded"}
  FailFasts = {TRUE, FALSE}
  Restores = FALSE
INVARIANTS
  OwnBundlesVerify
  PassedRanAsRecorded
  PassedCheckoutStands
  EditOfCleanCheckoutFails
PROPERTIES
  RunEnds
