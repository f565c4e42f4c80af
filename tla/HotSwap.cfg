SPECIFICATION Spec
CONSTANTS
  c1 = c1  c2 = c2
  p1 = p1  p2 = p2  p3 = p3  broken = broken
  None = None
  Clients <- TwoClients
  Versions <- AllPrograms
  WellFormed <- GoodPrograms
SYMMETRY SwapSymmetry
INVARIANTS TypeOK OutputsRegistered
PROPERTIES NeverReinstalled DiscardedNeverInstalled BoundaryKeepsCommits ImplementsSlot
