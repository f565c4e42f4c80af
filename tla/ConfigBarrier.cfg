SPECIFICATION FairSpec
CONSTANTS
  c1 = c1  c2 = c2
  load = load  link = link  param = param
  None = None
  Clients <- TwoClients
  Commands <- AllCommands
  Required <- RequiredLevels
INVARIANTS ExactlyOnceInOrder RejectionsStick
PROPERTIES NothingQueuedAtRun AcceptedIsSettled
