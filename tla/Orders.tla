------------------------------- MODULE Orders -------------------------------
(***************************************************************************)
(* OrdersService, the force-release and force-hold endpoints of            *)
(* AdminOrdersController, and the PENDING -> PAID settlement as far as an  *)
(* order's escrow sees it. A handler that reads a row and then claims it   *)
(* with the same condition is one action: between the two nothing changes, *)
(* and a lost claim leaves every row as it was.                            *)
(***************************************************************************)
EXTENDS Escrow

\* processApprovedPayment: the claim and the escrow hold commit together.
Settle(o) ==
  /\ Claim(o, "PENDING")
  /\ SetStatus(o, "PAID")
  /\ paymentId' = [paymentId EXCEPT ![o] = TRUE]
  /\ heldBrl' = [heldBrl EXCEPT ![o] = @ + 1]
  /\ UNCHANGED <<delivered, snapshot, dispute, ret, tracked, due, releasedBrl,
                 credits, mpRefunded, calls, faults, late>>

\* cancelByBuyer; cancelStalePendingOrders does the same to the order.
CancelPending(o) ==
  /\ Claim(o, "PENDING")
  /\ SetStatus(o, "CANCELLED")
  /\ PurgeSnapshot(o)
  /\ UNCHANGED <<paymentId, delivered, dispute, ret, tracked, due, money, calls,
                 faults, late>>

MarkShipped(o) ==
  /\ Claim(o, "PAID")
  /\ SetStatus(o, "SHIPPED")
  /\ UNCHANGED <<paymentId, delivered, snapshot, dispute, ret, tracked, due,
                 money, calls, faults, late>>

\* markDeliveredInternal stamps deliveredAt and the dispute deadline.
MarkDelivered(o) ==
  /\ Claim(o, "SHIPPED")
  /\ SetStatus(o, "DELIVERED")
  /\ delivered' = [delivered EXCEPT ![o] = TRUE]
  /\ UNCHANGED <<paymentId, snapshot, dispute, ret, tracked, due, money, calls,
                 faults, late>>

\* The claim DELIVERED -> HELD stamps escrowReleasesAt; with no hold days the
\* same call goes on to finalizeEscrow.
EnterHold(o) ==
  /\ Claim(o, "DELIVERED")
  /\ SetStatus(o, "HELD")
  /\ \E days \in HoldDays :
       IF days = 0
       THEN /\ due' = [due EXCEPT ![o] = @ \cup {"hold"}]
            /\ releasing' = [releasing EXCEPT ![o] = @ \cup {"request"}]
       ELSE /\ due' = [due EXCEPT ![o] = @ \ {"hold"}]
            /\ UNCHANGED releasing
  /\ UNCHANGED <<paymentId, delivered, snapshot, dispute, ret, tracked, money,
                 autoCancel, refunding, rehold, faults, late>>

\* confirmReceipt lets SHIPPED through too, where the claim then fails.
ConfirmReceipt(o) == EnterHold(o)

\* The transaction of finalizeEscrow: its claim accepts HELD alone, and a
\* caller that loses it moves no money.
FinalizeEscrow(o, c) ==
  /\ c \in releasing[o]
  /\ releasing' = [releasing EXCEPT ![o] = @ \ {c}]
  /\ IF Claim(o, "HELD")
     THEN /\ SetStatus(o, "COMPLETED")
          /\ ReleaseToSeller(o)
          /\ PurgeSnapshot(o)
     ELSE UNCHANGED <<status, heldBrl, releasedBrl, snapshot>>
  /\ UNCHANGED <<paymentId, delivered, dispute, ret, tracked, due, credits,
                 mpRefunded, autoCancel, refunding, rehold, faults, late>>

\* forceRelease reads the status and calls finalizeEscrow; it looks at
\* neither the dispute nor the return.
ForceRelease(o) ==
  /\ status[o] = "HELD"
  /\ "request" \notin releasing[o]
  /\ releasing' = [releasing EXCEPT ![o] = @ \cup {"request"}]
  /\ UNCHANGED <<rows, due, money, autoCancel, refunding, rehold, faults, late>>

\* forceHold reads the status outside the transaction ...
ForceHoldRead(a, o) ==
  /\ rehold[a] = {}
  /\ status[o] = "COMPLETED"
  /\ rehold' = [rehold EXCEPT ![a] = {o}]
  /\ UNCHANGED <<rows, due, money, autoCancel, refunding, releasing, faults,
                 late>>

\* ... and the transaction writes without claiming it.
ForceHoldWrite(a, o) ==
  /\ o \in rehold[a]
  /\ rehold' = [rehold EXCEPT ![a] = @ \ {o}]
  /\ heldBrl' = [heldBrl EXCEPT ![o] = @ + 1]
  /\ releasedBrl' = [releasedBrl EXCEPT ![o] = @ - 1]
  /\ SetStatus(o, "HELD")
  /\ due' = [due EXCEPT ![o] = @ \ {"hold"}]
  /\ UNCHANGED <<paymentId, delivered, snapshot, dispute, ret, tracked, credits,
                 mpRefunded, autoCancel, refunding, releasing, faults, late>>
=============================================================================
