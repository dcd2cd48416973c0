SPECIFICATION Spec
CONSTANTS
  r1 = r1
  r2 = r2
  Requests <- TwoTabs
  MaxPaymentAttempts = 2
  MaxAttempts = 3
  MaxAgain = 1
  MaxLost = 0
  MaxCrashes = 1
CHECK_DEADLOCK FALSE
SYMMETRY Symmetry
INVARIANTS OneAttemptInFlight OnePayable
PROPERTY ImplementsSettlement
