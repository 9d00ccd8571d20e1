SPECIFICATION Spec
CONSTANTS
  Kinds = {"rust_gn", "c_abi", "mojo", "unsafe", "checkout", "coverage"}
  w1 = w1
  w2 = w2
  Writers <- MCWriters
  MaxVersion <- MCVersion
  MaxEdits = 2
  Output <- MCOutput
  Plain <- MCPlain
SYMMETRY Swap
CONSTRAINT OneCommand
INVARIANTS
  PinsOneGeneration
  UntouchedGatePasses
  PassedGateIsCurrent
