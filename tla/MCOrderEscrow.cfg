SPECIFICATION Spec
CONSTANTS
  o1 = o1
  a1 = a1
  Orders <- OneOrder
  Admins <- OneAdmin
  HoldDays <- AnyHold
  MaxLost = 1
  MaxCrashes = 1
CHECK_DEADLOCK FALSE
INVARIANTS EscrowMatchesStatus ActiveReturnExcludesDispute DisputedUntilResolved WalletCreditedOnce
PROPERTIES ImplementsCustody CancelledPaysBack EvidenceKept
