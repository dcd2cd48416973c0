----------------------------- MODULE OrdersCron -----------------------------
(***************************************************************************)
(* The hourly jobs of OrdersCronService and the TrackingPollerService. A   *)
(* job lists the orders it will work on and handles them one by one, so    *)
(* what it listed may be out of date when it gets there. Where the         *)
(* handler claims on every condition that was listed the two steps are one *)
(* action; the two jobs whose claim is weaker than their query keep the    *)
(* listing as a step of its own.                                           *)
(***************************************************************************)
EXTENDS Orders

-----------------------------------------------------------------------------
(* Slips: what a definition below would be with a plausible mistake. No    *)
(* step uses them; each is caught by a property (PROJECT.json, "mutants"). *)

\* Orders with a return are left out of the automatic confirmation.
AutoConfirmUnreturned(o) ==
  "dispute" \in due[o] /\ ret[o] = "none" /\ EnterHold(o)

\* The comparison with escrowReleasesAt is the wrong way round.
ReleasableEarly(o) == status[o] = "HELD" /\ "hold" \notin due[o] /\ NoCase(o)

\* The refund counts as made before the provider has answered.
AfterAttempt(ok) == "source"

\* Only returns of orders still DELIVERED are escalated.
StaleWhileDelivered(o) ==
  ret[o] = "RECEIVED" /\ "inspect" \in due[o] /\ status[o] = "DELIVERED"

-----------------------------------------------------------------------------
\* autoConfirmOrders: past its dispute window a delivered order is held.
AutoConfirm(o) == "dispute" \in due[o] /\ EnterHold(o)

\* releaseHeldEscrow lists held orders that have no dispute and no return
\* row; finalizeEscrow, which comes later, asks for neither.
Releasable(o) == status[o] = "HELD" /\ "hold" \in due[o] /\ NoCase(o)
ListReleasable(o) ==
  /\ Releasable(o)
  /\ "cron" \notin releasing[o]
  /\ releasing' = [releasing EXCEPT ![o] = @ \cup {"cron"}]
  /\ UNCHANGED <<rows, due, money, autoCancel, refunding, rehold, faults, late>>

\* autoCancelUnshippedOrders lists the paid orders past the shipping deadline;
\* with the lock of the jobs lost, a second one lists while the first works,
ListUnshipped(o) ==
  /\ "listed" \notin autoCancel[o]
  /\ status[o] = "PAID"
  /\ "ship" \in due[o]
  /\ autoCancel' = [autoCancel EXCEPT ![o] = @ \cup {"listed"}]
  /\ UNCHANGED <<rows, due, money, refunding, releasing, rehold, faults, late>>

\* ... asks the provider for the refund before any transaction,
AfterRefund(ok) == IF ok THEN "source" ELSE "wallet"
RefundUnshipped(o) ==
  /\ "listed" \in autoCancel[o]
  /\ \/ /\ paymentId[o]
        /\ \E ok \in BOOLEAN :
             /\ RefundCall(o, ok)
             /\ autoCancel' = [autoCancel EXCEPT ![o] = (@ \ {"listed"}) \cup {AfterRefund(ok)}]
     \/ /\ ~paymentId[o]
        /\ autoCancel' = [autoCancel EXCEPT ![o] = (@ \ {"listed"}) \cup {"wallet"}]
        /\ UNCHANGED <<mpRefunded, lost>>
  /\ UNCHANGED <<rows, due, heldBrl, releasedBrl, credits, refunding, releasing,
                 rehold, crashes, late>>

\* ... and only then claims PAID. Losing the claim rolls back the transaction,
\* not the refund.
CancelUnshipped(o) == \E how \in autoCancel[o] \ {"listed"} :
  /\ autoCancel' = [autoCancel EXCEPT ![o] = @ \ {how}]
  /\ IF Claim(o, "PAID")
     THEN /\ SetStatus(o, "CANCELLED")
          /\ ReverseHold(o)
          /\ credits' = IF how = "source" THEN credits
                        ELSE [credits EXCEPT ![o] = @ + 1]
          /\ PurgeSnapshot(o)
     ELSE UNCHANGED <<status, heldBrl, releasedBrl, credits, snapshot>>
  /\ UNCHANGED <<paymentId, delivered, dispute, ret, tracked, due, mpRefunded,
                 refunding, releasing, rehold, faults, late>>

\* escalateStuckShipments opens a dispute for a shipment nobody saw arrive.
EscalateStuck(o) ==
  /\ "stuck" \in due[o]
  /\ Claim(o, "SHIPPED")
  /\ dispute[o] = "none"
  /\ SetStatus(o, "DISPUTED")
  /\ dispute' = [dispute EXCEPT ![o] = "OPEN"]
  /\ UNCHANGED <<paymentId, delivered, snapshot, ret, tracked, due, money,
                 calls, faults, late>>

\* escalateStaleReturns takes a return the seller left uninspected.
StaleReturn(o) == ret[o] = "RECEIVED" /\ "inspect" \in due[o]
EscalateStaleReturn(o) ==
  /\ StaleReturn(o)
  /\ ret' = [ret EXCEPT ![o] = "DISPUTED"]
  /\ OpenDisputeForReturn(o)
  /\ MarkLate(o)
  /\ UNCHANGED <<paymentId, delivered, snapshot, tracked, due, money, calls,
                 faults>>

\* pollInFlightShipments: the carrier reports the parcel delivered. The poller
\* looks back as long as it takes to escalate a stuck shipment.
PollShipment(o) ==
  /\ "stuck" \notin due[o]
  /\ MarkDelivered(o)

\* pollReturns, at the end of a tick that found some order of the marketplace
\* in SHIPPED (a tick that found none returns before it gets here, so nothing
\* promises that this step is ever taken).
PollReturn(o) ==
  /\ ret[o] = "SHIPPED"
  /\ tracked[o]
  /\ ret' = [ret EXCEPT ![o] = "RECEIVED"]
  /\ UNCHANGED <<status, paymentId, delivered, snapshot, dispute, tracked, due,
                 money, calls, faults, late>>
=============================================================================
