SPECIFICATION FbdSpec
CONSTANTS
  GateIds = {g1, g2}
  BlockIds = {b1}
  WireIds = {w1, w2, w3}
  Gates <- TwoGates
  Blocks <- TwoBlocks
  Inputs <- PinsIn
  Outputs <- PinsOut
  Files <- OpenedFiles
  MaxNodes = 3
  MaxEdges = 3
  MaxSelected = 2
SYMMETRY Interchangeable
INVARIANT EveryWireCarries
