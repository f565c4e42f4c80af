SPECIFICATION FairSpec
CONSTANTS
  c1 = c1  c2 = c2
  Clients <- TwoCallers
INVARIANTS TypeOK PauseHolds CreditCovers
PROPERTIES StepServed StopParkedEnds StopEndsOrHolds
