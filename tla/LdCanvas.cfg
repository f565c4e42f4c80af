SPECIFICATION CanvasSpec
CONSTANTS
  LeftRail = LeftRail
  RightRail = RightRail
  NoNode = NoNode
  Ids = {e1, e2, e3}
  RungIds = {r1, r2}
  MaxExtras = 1
SYMMETRY Symmetric
INVARIANTS WellFormed TextComplete
PROPERTIES ChainsRewired OtherRungsUntouched
