SPECIFICATION Spec
CONSTANTS
  r1 = r1
  r2 = r2
  Requests <- OneTab
  MaxPaymentAttempts = 3
  MaxAttempts = 2
  MaxAgain = 1
  MaxLost = 0
  MaxCrashes = 0
CHECK_DEADLOCK FALSE
INVARIANT ChargedOnce
