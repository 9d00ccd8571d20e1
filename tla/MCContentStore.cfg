SPECIFICATION AttestationSpec
CONSTANTS
  Runs <- MCRuns
  Logs <- MCLogs
  Empty <- MCEmpty
  Output <- MCOutput
  Attempts = 2
  Signed <- MCSigned
  Outputs <- MCOutputs
  Entries <- MCEntries
  Found <- MCFound
  Commands <- MCCommands
  MaxCommands = 2
  Key = "runner"
INVARIANTS
  BundlesAreWhole
  VerifiedMeansSigned
PROPERTIES
  ImplementsObjectStore
  InputsSurvive
CHECK_DEADLOCK FALSE
