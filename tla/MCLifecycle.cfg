SPECIFICATION Spec
CONSTANTS
  Modules <- MCModules
  Edges <- MCEdges
  Findings <- MCFindings
  Place <- MCPlace
  Gates <- MCTwoGates
  GateTargets <- MCGateTargets
  Required <- MCRequired
  ImportGate <- MCOneGate
  InferState = TRUE
  Sources <- MCSources
  Mechanisms = {"cxx", "mojo"}
INVARIANTS
  CrossingsAudited
  ApprovalsSafe
  OrderFree
PROPERTIES
  PromotionsIndependent
  DecisionsSurvive
  ImplementsOwnership
