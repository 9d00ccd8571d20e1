SPECIFICATION RecordSpec
CONSTANTS
  Revisions <- MCRevisions
  Platforms = {"linux"}
  Cases = {"parses"}
  Suites = {"suite"}
  InBudget <- MCInBudget
  Polarities = {TRUE}
INVARIANTS
  CompleteAtOneRevision
