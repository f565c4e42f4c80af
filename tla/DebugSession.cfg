SPECIFICATION FairSpec
CONSTANTS
  MaxRequests = 4
  Lines <- TwoLines
  Lists <- TwoLists
  Commands <- ThreeCommands
INVARIANTS VerifiedInstalled DisconnectResumes ShownIsTrue
PROPERTY EveryRequestSettles
CHECK_DEADLOCK FALSE
