SPECIFICATION FbdSpec
CONSTANTS
  GateIds = {g1}
  BlockIds = {b1, b2}
  WireIds = {w1, w2, w3}
  Gates <- TwoGates
  Blocks <- TwoBlocks
  Inputs <- PinsIn
  Outputs <- PinsOut
  Files <- OpenedFiles
  MaxNodes = 3
  MaxEdges = 3
  MaxSelected = 2
SYMMETRY Interchangeable
INVARIANTS TextOrdered LoopsAreReal ValuesArrive
PROPERTY NoWireDangles
