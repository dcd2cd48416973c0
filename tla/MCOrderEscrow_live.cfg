SPECIFICATION FairSpec
CONSTANTS
  o1 = o1
  a1 = a1
  Orders <- OneOrder
  Admins <- None
  HoldDays <- AnyHold
  MaxLost = 1
  MaxCrashes = 1
CHECK_DEADLOCK FALSE
PROPERTIES HoldRunsItsCourse OrderMovesOn HeldIsReleased ReceivedReturnDecided RefundDelivered
