SPECIFICATION IpcFairSpec
CONSTANTS
  a = a  b = b  s1 = s1
  Conns <- TwoConns
  Signals <- OneSignal
  MaxRequests = 3
  MaxQueued = 2
INVARIANT PushedToSubscribersOnly
PROPERTY RequestsAnswered
CHECK_DEADLOCK FALSE
