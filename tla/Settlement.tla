----------------------------- MODULE Settlement -----------------------------
(***************************************************************************)
(* What the payment services promise the rest of the API about an order    *)
(* that waits for its payment, however many attempts, tabs, webhooks and   *)
(* polls it takes: it is settled or cancelled, once and for good; it is    *)
(* settled only if the buyer paid; and settling it puts its price in the   *)
(* seller's escrow exactly once. Orders!Settle and Orders!CancelPending    *)
(* stand for the two outcomes where the order's later life is modelled.    *)
(***************************************************************************)
EXTENDS Naturals

VARIABLES
  status,  \* Order.status while the payment is open, and what it becomes
  heldBrl, \* how often the order's price was added to pendingBrl
  paid     \* the buyer's money left for some instrument of the order

Init ==
  /\ status = "PENDING"
  /\ heldBrl = 0
  /\ paid = FALSE

BuyerPays ==
  /\ paid' = TRUE
  /\ UNCHANGED <<status, heldBrl>>

Settle ==
  /\ status = "PENDING"
  /\ paid
  /\ status' = "PAID"
  /\ heldBrl' = heldBrl + 1
  /\ UNCHANGED paid

Cancel ==
  /\ status = "PENDING"
  /\ status' = "CANCELLED"
  /\ UNCHANGED <<heldBrl, paid>>

Next == BuyerPays \/ Settle \/ Cancel

Spec == Init /\ [][Next]_<<status, heldBrl, paid>>
=============================================================================
