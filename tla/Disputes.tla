------------------------------ MODULE Disputes ------------------------------
(***************************************************************************)
(* DisputesService: the buyer's dispute, and its resolution by an          *)
(* administrator. The refund to the buyer follows the transaction that     *)
(* resolves the dispute, as steps of its own: first the provider, then the *)
(* wallet if the provider did not answer that it refunded.                 *)
(***************************************************************************)
EXTENDS Escrow

-----------------------------------------------------------------------------
(* Slips: what a definition below would be with a plausible mistake. No    *)
(* step uses them; each is caught by a property (PROJECT.json, "mutants"). *)

\* A refund the provider refused is taken for made.
AfterAnyAnswer(ok) == "idle"

-----------------------------------------------------------------------------
\* create re-checks its conditions under the lock of the order row. The window it
\* checks before that, on what it read: a dispute written just after the window
\* passed is as one written just before, for all that may come in between is a
\* step that takes the order from DELIVERED, which the re-check sees.
OpenDispute(o) ==
  /\ status[o] = "DELIVERED"
  /\ "dispute" \notin due[o]
  /\ NoCase(o)
  /\ dispute' = [dispute EXCEPT ![o] = "OPEN"]
  /\ SetStatus(o, "DISPUTED")
  /\ UNCHANGED <<paymentId, delivered, snapshot, ret, tracked, due, money,
                 calls, faults, late>>

\* resolve, refund = true: the hold is reversed and the order closed, and the
\* buyer is still to be paid.
ResolveForBuyer(o) ==
  /\ dispute[o] = "OPEN"
  /\ dispute' = [dispute EXCEPT ![o] = "RESOLVED"]
  /\ SetStatus(o, "REFUNDED")
  /\ ReverseHold(o)
  /\ PurgeSnapshot(o)
  /\ refunding' = [refunding EXCEPT
                     ![o] = IF paymentId[o] THEN "dispute" ELSE "fallback"]
  /\ UNCHANGED <<paymentId, delivered, ret, tracked, due, credits, mpRefunded,
                 autoCancel, releasing, rehold, faults, late>>

\* resolve, refund = false.
ResolveForSeller(o) ==
  /\ dispute[o] = "OPEN"
  /\ dispute' = [dispute EXCEPT ![o] = "RESOLVED"]
  /\ SetStatus(o, "COMPLETED")
  /\ ReleaseToSeller(o)
  /\ PurgeSnapshot(o)
  /\ UNCHANGED <<paymentId, delivered, ret, tracked, due, credits, mpRefunded,
                 calls, faults, late>>

\* The refund at the provider, after the commit.
AfterAnswer(ok) == IF ok THEN "idle" ELSE "fallback"
RefundDispute(o) ==
  /\ refunding[o] = "dispute"
  /\ \E ok \in BOOLEAN :
       /\ RefundCall(o, ok)
       /\ refunding' = [refunding EXCEPT ![o] = AfterAnswer(ok)]
  /\ UNCHANGED <<rows, due, heldBrl, releasedBrl, credits, autoCancel,
                 releasing, rehold, crashes, late>>

\* applyWalletRefundFallback: credit the buyer's wallet, unless the ledger has
\* a refund for the order already.
WalletFallback(o) ==
  /\ refunding[o] = "fallback"
  /\ refunding' = [refunding EXCEPT ![o] = "idle"]
  /\ credits' = IF credits[o] > 0 THEN credits
                ELSE [credits EXCEPT ![o] = @ + 1]
  /\ UNCHANGED <<rows, due, heldBrl, releasedBrl, mpRefunded, autoCancel,
                 releasing, rehold, faults, late>>
=============================================================================
