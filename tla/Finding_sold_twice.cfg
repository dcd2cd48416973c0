SPECIFICATION Spec
CONSTANTS
  l1 = l1
  l2 = l2
  l3 = l3
  o1 = o1
  o2 = o2
  o3 = o3
  k1 = k1
  k2 = k2
  t1 = t1
  t2 = t2
  Listings <- TwoListings
  Orders <- TwoOrders
  Images <- ImagesDef
  Lists <- ListsDef
  Erasable <- SharedImage
  Flagged <- None
  Bundlable <- None
  Watched <- OneOfThem
  Tabs <- None
  MaxUses = 1
  MaxLate = 1
CHECK_DEADLOCK FALSE
INVARIANTS SoldOnce
