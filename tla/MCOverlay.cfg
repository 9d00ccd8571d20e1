SPECIFICATION Spec
CONSTANTS
  Paths <- MCPaths
  Above <- MCAbove
  Present = {"examples", "build"}
  Runs <- MCRuns
  Dest <- MCDest
  Package <- MCPackage
  Out <- MCOut
  Host = {"run b"}
  RustDir = "build/rust"
  Adapter = "template"
  UserPaths = {"notes"}
INVARIANTS
  PresentStays
  NothingLeft
  BuildsItsOwn
