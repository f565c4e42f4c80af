SPECIFICATION Spec
CONSTANTS
  Graphs = {g1, g2, g3}
  NoGraph = NoGraph
  MaxUndo = 4
  MaxWrites = 2
INVARIANT CleanMeansSaved
