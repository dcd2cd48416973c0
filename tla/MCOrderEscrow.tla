--------------------------- MODULE MCOrderEscrow ----------------------------
(***************************************************************************)
(* Small instances of OrderEscrow. Orders share no row, so one order shows *)
(* every interleaving of the services on its rows. It is created PENDING,  *)
(* or PAID by a coupon; the hold lasts some days or none.                  *)
(***************************************************************************)
EXTENDS OrderEscrow, TLC

CONSTANTS o1, a1

OneOrder == {o1}
None == {}
OneAdmin == {a1}
AnyHold == {0, 2}
SomeHold == {2}
=============================================================================
