SPECIFICATION CheckSpec
CONSTANTS
  Gates <- MCGates
  Program <- MCProgram
  Empty = {}
  Padded = {}
  Garbled = {}
  ManifestVersions <- MCVersions
  Identity <- MCIdentity
  Definition <- MCDefinition
  Declares <- MCDeclares
  Ready <- MCReady
  Outputs <- MCOutputs
  MaxBundles = 1
INVARIANTS
  AllowedGatesRan
  
