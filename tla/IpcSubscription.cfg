SPECIFICATION IpcSpec
CONSTANTS
  a = a  b = b  s1 = s1
  Conns <- OneConn
  Signals <- OneSignal
  MaxRequests = 3
  MaxQueued = 2
INVARIANT SubscriptionLives
CHECK_DEADLOCK FALSE
