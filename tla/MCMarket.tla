------------------------------ MODULE MCMarket ------------------------------
(***************************************************************************)
(* Three listings and three orders: a bundle of three, of two and an order *)
(* besides, a coupon with one use left, two buyers and two images.         *)
(***************************************************************************)
EXTENDS Market, TLC

CONSTANTS l1, l2, l3, o1, o2, o3, k1, k2, t1, t2

ListingsDef == {l1, l2, l3}
OrdersDef == {o1, o2, o3}
TabsDef == {t1, t2}
TwoListings == {l1, l2}
TwoOrders == {o1, o2}
OneOfThem == {l1}
ImagesDef == {k1, k2}
\* The watched listing has an image of its own, and one the other names as well.
ListsDef == [l \in TwoListings |-> IF l = l1 THEN {{k1, k2}} ELSE {{k2}}]
SharedImage == {k2}
OneImage == {k1}
OneList == [l \in ListingsDef |-> {OneImage}]
None == {}
Symmetry == Permutations(TwoOrders)
BundleSymmetry ==
  Permutations(ListingsDef) \cup Permutations(OrdersDef) \cup Permutations(TabsDef)
=============================================================================
