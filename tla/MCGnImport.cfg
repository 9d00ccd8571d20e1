SPECIFICATION ImportSpec
CONSTANTS
  Names <- MCNames
  Default = "default"
  Projects <- MCProjects
  Options <- MCOptions
CHECK_DEADLOCK FALSE
INVARIANTS
  SelectedAsAsked
  EdgesAreNearest
  FailsForAReason
PROPERTY
  ImportEnds
