----------------------------- MODULE MCPayments -----------------------------
(***************************************************************************)
(* Small instances of Payments: one or two tabs of the buyer.              *)
(***************************************************************************)
EXTENDS Payments, TLC

CONSTANTS r1, r2

OneTab == {r1}
TwoTabs == {r1, r2}
Symmetry == Permutations(TwoTabs)
=============================================================================
