SPECIFICATION SessionSpec
CONSTANTS
  Visitors = {u1}
  Null = null
  SignedOut = nobody
  MaxAwaited = 1
PROPERTY MistakesKeepTheSession
CHECK_DEADLOCK FALSE
