SPECIFICATION Spec
CONSTANTS
  l1 = l1
  l2 = l2
  l3 = l3
  o1 = o1
  o2 = o2
  o3 = o3
  k1 = k1
  k2 = k2
  t1 = t1
  t2 = t2
  Listings <- ListingsDef
  Orders <- OrdersDef
  Images <- OneImage
  Lists <- OneList
  Erasable <- OneImage
  Flagged <- None
  Bundlable <- ListingsDef
  Watched <- None
  Tabs <- TabsDef
  MaxUses = 0
  MaxLate = 1
SYMMETRY BundleSymmetry
CHECK_DEADLOCK FALSE
INVARIANTS BundleOnce
