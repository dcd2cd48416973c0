------------------------------ MODULE Payouts -------------------------------
(***************************************************************************)
(* PayoutsService: a seller withdraws wallet balance by PIX. The wallet is *)
(* debited and the PayoutRequest created in one transaction; the call to   *)
(* Mercado Pago, and what is written about its outcome, come after it,     *)
(* while administrators may already be closing the request.                *)
(***************************************************************************)
EXTENDS Integers

CONSTANTS
  Users,        \* the sellers
  Payouts,      \* the payout requests they may make
  Owner,        \* whose request it is
  Amount,       \* and its amountBrl
  Earned,       \* the released balance each seller starts with
  Reviewed,     \* the requests administrators act on
  Ops,          \* the calls of administrators that may be under way at once
  MaxFaults,    \* bound: answers lost, transactions that fail
  MaxCrashes    \* bound: crashes of the API process

ASSUME PayoutsAssumption ==
  /\ Owner \in [Payouts -> Users]
  /\ Amount \in [Payouts -> Nat \ {0}]
  /\ Earned \in [Users -> Nat]
  /\ Reviewed \subseteq Payouts
  /\ MaxFaults \in Nat
  /\ MaxCrashes \in Nat

VARIABLES
  balanceBrl, \* Wallet.balanceBrl
  request,    \* PayoutRequest.status, "none" before there is a row
  refunds,    \* REFUND rows of the wallet that refer to the request
  transfer,   \* external: what became of the transfer at Mercado Pago
  handler,    \* where requestPayout is: calling, or with what outcome
  refunding,  \* how far each administrator's refund of a failed request is
  overwritten, \* history: a result was written over FAILED, and how
  unrefunded, \* history: an administrator's refund was cut off
  faults,
  crashes

payoutVars == <<balanceBrl, request, refunds, transfer, handler, refunding, overwritten,
                unrefunded, faults, crashes>>

Open == {"PENDING", "PROCESSING"}
Terminal == {"COMPLETED", "FAILED"}

PayoutsTypeOK ==
  /\ balanceBrl \in [Users -> Int]
  /\ request \in [Payouts -> {"none"} \cup Open \cup Terminal]
  /\ refunds \in [Payouts -> Nat]
  /\ transfer \in [Payouts -> {"none", "accepted", "paid", "bounced"}]
  /\ handler \in [Payouts -> {"idle", "send", "PROCESSING", "COMPLETED", "error"}]
  /\ refunding \in [Payouts -> [Ops -> {"no", "look", "credit"}]]
  /\ overwritten \in [Payouts -> {"no", "settled", "amid"}]
  /\ unrefunded \subseteq Payouts
  /\ faults \in Nat
  /\ crashes \in Nat

PayoutsInit ==
  /\ balanceBrl = Earned
  /\ request = [p \in Payouts |-> "none"]
  /\ refunds = [p \in Payouts |-> 0]
  /\ transfer = [p \in Payouts |-> "none"]
  /\ handler = [p \in Payouts |-> "idle"]
  /\ refunding = [p \in Payouts |-> [a \in Ops |-> "no"]]
  /\ overwritten = [p \in Payouts |-> "no"]
  /\ unrefunded = {}
  /\ faults = 0
  /\ crashes = 0

-----------------------------------------------------------------------------
(* Slips: what a definition below would be with a plausible mistake. No    *)
(* step uses them; each is caught by a property (PROJECT.json, "mutants"). *)

\* The pre-flight check of the balance is all there is.
PreflightOnly(p) == Earned[Owner[p]] >= Amount[p]

\* The update names the row by its id alone.
OpenById(p) == TRUE

\* The administrator's refund is left to the handler.
NoAdminRefund(p) == FALSE

\* A transfer that is not approved at once is taken for refused.
AsyncAsError == "error"

-----------------------------------------------------------------------------
Covered(p) == balanceBrl[Owner[p]] >= Amount[p]
IsOpen(p) == request[p] \in Open
SetRequest(p, s) == request' = [request EXCEPT ![p] = s]
Fault == faults < MaxFaults /\ faults' = faults + 1

\* Administrators who failed the request and have still to refund it.
Refunders(p) == {a \in Ops : refunding[p][a] # "no"}

\* Credit the wallet and write the REFUND row, in one transaction.
Refund(p) ==
  /\ balanceBrl' = [balanceBrl EXCEPT ![Owner[p]] = @ + Amount[p]]
  /\ refunds' = [refunds EXCEPT ![p] = @ + 1]

\* The transaction of requestPayout: the debit is the conditional update.
RequestPayout(p) ==
  /\ request[p] = "none"
  /\ Covered(p)
  /\ balanceBrl' = [balanceBrl EXCEPT ![Owner[p]] = @ - Amount[p]]
  /\ SetRequest(p, "PENDING")
  /\ handler' = [handler EXCEPT ![p] = "send"]
  /\ UNCHANGED <<refunds, transfer, refunding, overwritten, unrefunded, faults, crashes>>

\* Without the payout contract the row stays PENDING for an administrator.
SendUnavailable(p) ==
  /\ handler[p] = "send"
  /\ handler' = [handler EXCEPT ![p] = "idle"]
  /\ UNCHANGED <<balanceBrl, request, refunds, transfer, refunding, overwritten, unrefunded,
                 faults, crashes>>

\* sendPixPayout: paid at once, accepted for later, or refused.
AsyncStatus == "PROCESSING"
SendPayout(p) ==
  /\ handler[p] = "send"
  /\ \/ /\ transfer' = [transfer EXCEPT ![p] = "paid"]
        /\ handler' = [handler EXCEPT ![p] = "COMPLETED"]
     \/ /\ transfer' = [transfer EXCEPT ![p] = "accepted"]
        /\ handler' = [handler EXCEPT ![p] = AsyncStatus]
     \/ /\ handler' = [handler EXCEPT ![p] = "error"]
        /\ UNCHANGED transfer
  /\ UNCHANGED <<balanceBrl, request, refunds, refunding, overwritten, unrefunded, faults,
                 crashes>>

\* The provider takes the transfer and every retry of the call times out: the
\* catch takes it for a failure.
SendLost(p) ==
  /\ handler[p] = "send"
  /\ Fault
  /\ transfer' = [transfer EXCEPT ![p] = "accepted"]
  /\ handler' = [handler EXCEPT ![p] = "error"]
  /\ UNCHANGED <<balanceBrl, request, refunds, refunding, overwritten, unrefunded, crashes>>

\* The result is written by id, whatever became of the row meanwhile: over
\* FAILED it opens the request again, with or without a refund still to come.
WriteResult(p, how) ==
  /\ handler[p] \in {"PROCESSING", "COMPLETED"}
  /\ SetRequest(p, handler[p])
  /\ overwritten' = [overwritten EXCEPT ![p] = IF request[p] = "FAILED" THEN how ELSE @]

RecordResult(p) ==
  /\ WriteResult(p, IF Refunders(p) = {} THEN "settled" ELSE "amid")
  /\ handler' = [handler EXCEPT ![p] = "idle"]
  /\ UNCHANGED <<balanceBrl, refunds, transfer, refunding, unrefunded, faults, crashes>>

\* That write fails, or commits and its answer is lost: the same catch again.
ResultLost(p) ==
  /\ \/ WriteResult(p, "amid")
     \/ /\ handler[p] \in {"PROCESSING", "COMPLETED"}
        /\ UNCHANGED <<request, overwritten>>
  /\ Fault
  /\ handler' = [handler EXCEPT ![p] = "error"]
  /\ UNCHANGED <<balanceBrl, refunds, transfer, refunding, unrefunded, crashes>>

\* failAndRefund: the claim, the credit and its row in one transaction. It does
\* not look for an earlier refund.
FailAndRefund(p) ==
  /\ handler[p] = "error"
  /\ handler' = [handler EXCEPT ![p] = "idle"]
  /\ IF IsOpen(p)
     THEN SetRequest(p, "FAILED") /\ Refund(p)
     ELSE UNCHANGED <<request, balanceBrl, refunds>>
  /\ UNCHANGED <<transfer, refunding, overwritten, unrefunded, faults, crashes>>

FailAndRefundFails(p) ==
  /\ handler[p] = "error"
  /\ Fault
  /\ handler' = [handler EXCEPT ![p] = "idle"]
  /\ UNCHANGED <<balanceBrl, request, refunds, transfer, refunding, overwritten, unrefunded,
                 crashes>>

\* adminUpdateStatus, to COMPLETED.
AdminComplete(p) ==
  /\ IsOpen(p)
  /\ SetRequest(p, "COMPLETED")
  /\ UNCHANGED <<balanceBrl, refunds, transfer, handler, refunding, overwritten, unrefunded,
                 faults, crashes>>

\* adminUpdateStatus, to FAILED: the claim commits by itself ...
OnRefund(p, a, from, to) ==
  /\ refunding[p][a] = from
  /\ refunding' = [refunding EXCEPT ![p][a] = to]
AdminFail(p, a) ==
  /\ IsOpen(p)
  /\ SetRequest(p, "FAILED")
  /\ OnRefund(p, a, "no", "look")
  /\ UNCHANGED <<balanceBrl, refunds, transfer, handler, overwritten, unrefunded, faults,
                 crashes>>

\* ... refundWalletForFailedPayout looks for a refund in the ledger ...
ToRefund(p) == refunds[p] = 0
AdminLook(p, a) ==
  /\ OnRefund(p, a, "look", IF ToRefund(p) THEN "credit" ELSE "no")
  /\ UNCHANGED <<balanceBrl, request, refunds, transfer, handler, overwritten, unrefunded,
                 faults, crashes>>

\* ... and then credits. READ COMMITTED: the look locks nothing.
AdminCredit(p, a) ==
  /\ OnRefund(p, a, "credit", "no")
  /\ Refund(p)
  /\ UNCHANGED <<request, transfer, handler, overwritten, unrefunded, faults, crashes>>

\* The transaction of the refund fails; the request has been FAILED before it.
AdminRefundFails(p, a) ==
  /\ \E from \in {"look", "credit"} : OnRefund(p, a, from, "no")
  /\ Fault
  /\ unrefunded' = unrefunded \cup {p}
  /\ UNCHANGED <<balanceBrl, request, refunds, transfer, handler, overwritten, crashes>>

\* External: an accepted transfer reaches the seller's bank or bounces.
TransferEnds(p) ==
  /\ transfer[p] = "accepted"
  /\ \E end \in {"paid", "bounced"} : transfer' = [transfer EXCEPT ![p] = end]
  /\ UNCHANGED <<balanceBrl, request, refunds, handler, refunding, overwritten, unrefunded,
                 faults, crashes>>

CrashPayouts ==
  /\ crashes < MaxCrashes
  /\ crashes' = crashes + 1
  /\ handler' = [p \in Payouts |-> "idle"]
  /\ refunding' = [p \in Payouts |-> [a \in Ops |-> "no"]]
  /\ unrefunded' = unrefunded \cup {p \in Payouts : Refunders(p) # {}}
  /\ UNCHANGED <<balanceBrl, request, refunds, transfer, overwritten, faults>>

Handle(p) ==
  \/ SendUnavailable(p) \/ SendPayout(p) \/ SendLost(p)
  \/ RecordResult(p) \/ ResultLost(p)
  \/ FailAndRefund(p) \/ FailAndRefundFails(p)

AdminRefund(p, a) == AdminLook(p, a) \/ AdminCredit(p, a)

PayoutsNext ==
  \/ \E p \in Payouts : RequestPayout(p) \/ Handle(p) \/ TransferEnds(p)
  \/ \E p \in Reviewed :
       \/ AdminComplete(p)
       \/ \E a \in Ops : AdminFail(p, a) \/ AdminRefund(p, a) \/ AdminRefundFails(p, a)
  \/ CrashPayouts

PayoutsSpec == PayoutsInit /\ [][PayoutsNext]_payoutVars

-----------------------------------------------------------------------------
\* However many withdrawals race, no wallet goes below zero.
NoOverdraft == \A u \in Users : balanceBrl[u] >= 0

\* A withdrawal is given back at most once, although the handler's error path and
\* several administrators may be failing it at once, and although the handler's
\* result may open a FAILED request again: unless that write came between an
\* administrator's claim and his credit, or its answer was lost
\* (NeverRefundedTwice). Rests on the claim and on the look at the ledger.
RefundedOnce == \A p \in Payouts : overwritten[p] # "amid" => refunds[p] <= 1

\* The handler gives back only what failed and the provider never took, as long
\* as no answer is lost.
AutomaticRefundIsRight ==
  \A p \in Payouts \ Reviewed :
    refunds[p] > 0 /\ faults = 0
      => request[p] = "FAILED" /\ transfer[p] = "none"

\* A failed withdrawal comes back to the wallet: what requestPayout and the
\* administrators began runs to its end. An administrator's refund is a
\* transaction of its own, after the claim: where it fails or the process dies
\* before it, nothing takes it up again.
FailedIsRefunded ==
  \A p \in Payouts :
    request[p] = "FAILED" ~> refunds[p] > 0 \/ p \in unrefunded

\* What makes RefundedOnce inductive: at most one administrator is about to
\* refund, and only what is FAILED and was not given back; a request given back
\* stays FAILED, until the handler's last write opens it with nobody under way.
OneRefunder(p) == \A a, b \in Refunders(p) : a = b
NotOverwritten(p) ==
  /\ Refunders(p) # {} => request[p] = "FAILED" /\ refunds[p] = 0
  /\ request[p] # "FAILED" => refunds[p] = 0
OpenedLate(p) ==
  /\ handler[p] = "idle"
  /\ Refunders(p) # {} => request[p] = "FAILED"
  /\ \A a \in Ops : refunding[p][a] = "credit" => refunds[p] = 0
RefundInv ==
  /\ PayoutsTypeOK
  /\ RefundedOnce
  /\ \A p \in Payouts :
       /\ request[p] = "none" => handler[p] = "idle" /\ overwritten[p] = "no"
       /\ handler[p] \in {"send", "PROCESSING", "COMPLETED"}
            => request[p] # "PROCESSING" /\ overwritten[p] = "no"
       /\ overwritten[p] # "amid" => OneRefunder(p)
       /\ overwritten[p] = "no" => NotOverwritten(p)
       /\ overwritten[p] = "settled" => OpenedLate(p)

\* payouts: the conditional updateMany makes the transition "single-shot" and the
\* helper is "idempotent by construction", so that no withdrawal is credited twice.
NeverRefundedTwice == \A p \in Payouts : refunds[p] <= 1

\* payouts: a COMPLETED or FAILED request "is already in a terminal state".
TerminalIsFinal ==
  [][\A p \in Payouts : request[p] \in Terminal => request'[p] = request[p]]_payoutVars

\* payouts: a real failure of the provider is refunded "so the ledger reflects
\* reality", so the seller does not get both the refund and the transfer.
NotPaidAndRefunded ==
  \A p \in Payouts : ~(transfer[p] = "paid" /\ refunds[p] > 0)
=============================================================================
