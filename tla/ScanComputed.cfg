SPECIFICATION FairSpec
CONSTANTS
  i1 = i1  i2 = i2  i3 = i3  o1 = o1  o2 = o2  k = k
  low = low  high = high
  None = None
  Inputs <- ThreeInputs
  Outputs <- TwoOutputs
  Values <- Levels
  Initial = low
  Program <- FollowFirst
  Computed <- OneComputed
  Remote <- TwoInputs
  Direct <- NoSignals
PROPERTY CyclesComplete
