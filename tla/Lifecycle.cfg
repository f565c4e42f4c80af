SPECIFICATION FairSpec
CONSTANTS
  a = a  b = b
  Children <- TwoChildren
  MaxRetries = 3
  Window = 3
INVARIANT RateLimit
PROPERTY ExitedIsRevived
