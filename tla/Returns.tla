------------------------------ MODULE Returns -------------------------------
(***************************************************************************)
(* ReturnsService: the state machine of an order's return.                 *)
(***************************************************************************)
EXTENDS Escrow

-----------------------------------------------------------------------------
\* create reads the order's status before its transaction and re-checks only
\* the dispute and the return under the lock: as long as there is neither, an
\* order that was delivered, held or completed stays in one of the three.
RequestReturn(o) ==
  /\ status[o] \in {"DELIVERED", "HELD", "COMPLETED"}
  /\ delivered[o]
  /\ "return" \notin due[o]
  /\ NoCase(o)
  /\ ret' = [ret EXCEPT ![o] = "REQUESTED"]
  /\ UNCHANGED <<status, paymentId, delivered, snapshot, dispute, tracked, due,
                 money, calls, faults, late>>

\* approve goes on without a tracking code when no label could be made.
ApproveReturn(o) ==
  /\ ret[o] = "REQUESTED"
  /\ ret' = [ret EXCEPT ![o] = "APPROVED"]
  /\ \E labelled \in BOOLEAN : tracked' = [tracked EXCEPT ![o] = labelled]
  /\ UNCHANGED <<status, paymentId, delivered, snapshot, dispute, due, money,
                 calls, faults, late>>

RejectReturn(o) ==
  /\ ret[o] = "REQUESTED"
  /\ ret' = [ret EXCEPT ![o] = "REJECTED"]
  /\ OpenDisputeForReturn(o)
  /\ MarkLate(o)
  /\ UNCHANGED <<paymentId, delivered, snapshot, tracked, due, money, calls,
                 faults>>

ShipReturn(o) ==
  /\ ret[o] = "APPROVED"
  /\ ret' = [ret EXCEPT ![o] = "SHIPPED"]
  /\ UNCHANGED <<status, paymentId, delivered, snapshot, dispute, tracked, due,
                 money, calls, faults, late>>

\* inspectApprove: the whole transaction rolls back if the ledger has a refund
\* for the order. The refund at the provider comes after the commit.
InspectApprove(o) ==
  /\ ret[o] = "RECEIVED"
  /\ credits[o] = 0
  /\ ret' = [ret EXCEPT ![o] = "REFUNDED"]
  /\ SetStatus(o, "REFUNDED")
  /\ ReverseHold(o)
  /\ credits' = [credits EXCEPT ![o] = @ + 1]
  /\ PurgeSnapshot(o)
  /\ refunding' = [refunding EXCEPT
                     ![o] = IF paymentId[o] THEN "return" ELSE "idle"]
  /\ MarkLate(o)
  /\ UNCHANGED <<paymentId, delivered, dispute, tracked, due, mpRefunded,
                 autoCancel, releasing, rehold, faults>>

InspectReject(o) ==
  /\ ret[o] = "RECEIVED"
  /\ ret' = [ret EXCEPT ![o] = "DISPUTED"]
  /\ OpenDisputeForReturn(o)
  /\ MarkLate(o)
  /\ UNCHANGED <<paymentId, delivered, snapshot, tracked, due, money, calls,
                 faults>>

\* The provider's refund after inspectApprove: a failure is only logged.
RefundReturn(o) ==
  /\ refunding[o] = "return"
  /\ refunding' = [refunding EXCEPT ![o] = "idle"]
  /\ \E ok \in BOOLEAN : RefundCall(o, ok)
  /\ UNCHANGED <<rows, due, heldBrl, releasedBrl, credits, autoCancel,
                 releasing, rehold, crashes, late>>
=============================================================================
