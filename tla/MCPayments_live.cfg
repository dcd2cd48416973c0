SPECIFICATION FairSpec
CONSTANTS
  r1 = r1
  r2 = r2
  Requests <- OneTab
  MaxPaymentAttempts = 2
  MaxAttempts = 2
  MaxAgain = 0
  MaxLost = 1
  MaxCrashes = 1
CHECK_DEADLOCK FALSE
PROPERTY PointedPaymentSettles
