------------------------------- MODULE Escrow -------------------------------
(***************************************************************************)
(* The database rows and the calls in flight that the order, dispute and   *)
(* return services share, and the few updates they have in common.         *)
(*                                                                         *)
(* Money is kept per order, as what the services add to and take from the  *)
(* wallets on its account: the pendingBrl and balanceBrl of a seller's     *)
(* wallet are the sums, over the seller's orders, of heldBrl and           *)
(* releasedBrl, each in units of that order's itemPriceBrl.                *)
(***************************************************************************)
EXTENDS Integers, FiniteSets

CONSTANTS
  Orders,       \* the orders
  Admins,       \* the administrators who may be re-holding an order
  HoldDays,     \* the values a deployment may give ESCROW_HOLD_DAYS
  MaxLost,      \* bound: refund calls the provider executes and we see fail
  MaxCrashes    \* bound: crashes of the API process

ASSUME EscrowAssumption ==
  /\ HoldDays \subseteq Nat
  /\ MaxLost \in Nat
  /\ MaxCrashes \in Nat

VARIABLES
  status,      \* Order.status
  paymentId,   \* Order.paymentId # null, once it is settled: not if it is free
  delivered,   \* Order.deliveredAt # null
  snapshot,    \* the order has an OrderListingSnapshot row
  dispute,     \* Dispute.status of the order's dispute, or "none"
  ret,         \* OrderReturn.status of the order's return, or "none"
  tracked,     \* OrderReturn.returnTrackingCode # null
  due,         \* the deadlines of the order that have passed
  heldBrl,     \* what the order adds to the seller's pendingBrl
  releasedBrl, \* what the order adds to the seller's balanceBrl
  credits,     \* REFUND rows of the order in the buyer's wallet
  mpRefunded,  \* the provider gave the buyer the payment back
  autoCancel,  \* how far the jobs are that auto-cancel the order
  refunding,   \* what is left to do after a refund's transaction
  releasing,   \* who has a call of finalizeEscrow for the order in flight
  rehold,      \* the orders each administrator read as COMPLETED to re-hold
  lost,        \* how many refund calls lost their answer so far
  crashes,     \* how many crashes so far
  late         \* history: orders whose return was decided after the release

rows   == <<status, paymentId, delivered, snapshot, dispute, ret, tracked>>
money  == <<heldBrl, releasedBrl, credits, mpRefunded>>
calls  == <<autoCancel, refunding, releasing, rehold>>
faults == <<lost, crashes>>
vars   == <<rows, due, money, calls, faults, late>>

OrderStatus == {"PENDING", "PAID", "SHIPPED", "DELIVERED", "HELD",
                "COMPLETED", "DISPUTED", "REFUNDED", "CANCELLED"}
DisputeStatus == {"none", "OPEN", "RESOLVED"}
ReturnStatus == {"none", "REQUESTED", "APPROVED", "REJECTED", "SHIPPED",
                 "RECEIVED", "REFUNDED", "DISPUTED"}
ActiveReturn == {"REQUESTED", "APPROVED", "SHIPPED", "RECEIVED"}

\* A deadline is named after the window that closes with it.
Deadline == {"ship", "stuck", "dispute", "return", "hold", "inspect"}

\* finalizeEscrow runs for the hourly cron, or within a request: the force
\* release of an administrator, or enterHold itself when HoldDays is 0.
Callers == {"cron", "request"}

\* The statuses of an order whose item price is in the seller's pendingBrl.
Escrowed == {"PAID", "SHIPPED", "DELIVERED", "HELD", "DISPUTED"}

TypeOK ==
  /\ status \in [Orders -> OrderStatus]
  /\ paymentId \in [Orders -> BOOLEAN]
  /\ delivered \in [Orders -> BOOLEAN]
  /\ snapshot \in [Orders -> BOOLEAN]
  /\ dispute \in [Orders -> DisputeStatus]
  /\ ret \in [Orders -> ReturnStatus]
  /\ tracked \in [Orders -> BOOLEAN]
  /\ due \in [Orders -> SUBSET Deadline]
  /\ heldBrl \in [Orders -> Int]
  /\ releasedBrl \in [Orders -> Int]
  /\ credits \in [Orders -> Nat]
  /\ mpRefunded \in [Orders -> BOOLEAN]
  /\ autoCancel \in [Orders -> SUBSET {"listed", "source", "wallet"}]
  /\ refunding \in [Orders -> {"idle", "dispute", "fallback", "return"}]
  /\ releasing \in [Orders -> SUBSET Callers]
  /\ rehold \in [Admins -> SUBSET Orders]
  /\ lost \in Nat
  /\ crashes \in Nat
  /\ late \subseteq Orders

-----------------------------------------------------------------------------
(* Slips: what a definition below would be with a plausible mistake. No    *)
(* step uses them; each is caught by a property (PROJECT.json, "mutants"). *)

\* The update names the row by its id alone.
ClaimById(o, s) == TRUE

\* The other pipeline is not looked at.
NoOpenDispute(o) == dispute[o] = "none"

\* The dispute is opened and the order stays payable.
OpenDisputeUnparked(o) ==
  /\ dispute' = [dispute EXCEPT ![o] = IF @ = "none" THEN "OPEN" ELSE @]
  /\ UNCHANGED status

-----------------------------------------------------------------------------
\* An order that a coupon pays in full is created with its price in escrow.
HoldAtCreation(o) == IF status[o] = "PAID" THEN 1 ELSE 0

\* A row is written in the transaction that creates the order, with its
\* snapshot: PENDING, or PAID if it is free.
Init ==
  /\ status \in [Orders -> {"PENDING", "PAID"}]
  /\ paymentId = [o \in Orders |-> FALSE]
  /\ heldBrl = [o \in Orders |-> HoldAtCreation(o)]
  /\ snapshot = [o \in Orders |-> TRUE]
  /\ delivered = [o \in Orders |-> FALSE]
  /\ dispute = [o \in Orders |-> "none"]
  /\ ret = [o \in Orders |-> "none"]
  /\ tracked = [o \in Orders |-> FALSE]
  /\ due = [o \in Orders |-> {}]
  /\ releasedBrl = [o \in Orders |-> 0]
  /\ credits = [o \in Orders |-> 0]
  /\ mpRefunded = [o \in Orders |-> FALSE]
  /\ autoCancel = [o \in Orders |-> {}]
  /\ refunding = [o \in Orders |-> "idle"]
  /\ releasing = [o \in Orders |-> {}]
  /\ rehold = [a \in Admins |-> {}]
  /\ lost = 0
  /\ crashes = 0
  /\ late = {}

-----------------------------------------------------------------------------
(* Conditions and updates that several services share.                     *)

\* A claim: the update of a row WHERE status = s, which finds the row or not.
Claim(o, s) == status[o] = s

\* The order has neither a dispute nor a return row.
NoCase(o) == dispute[o] = "none" /\ ret[o] = "none"

SetStatus(o, s) == status' = [status EXCEPT ![o] = s]
PurgeSnapshot(o) == snapshot' = [snapshot EXCEPT ![o] = FALSE]

\* The escrow of an order leaves pendingBrl, towards the seller's balance or
\* back to the buyer.
ReleaseToSeller(o) ==
  /\ heldBrl' = [heldBrl EXCEPT ![o] = @ - 1]
  /\ releasedBrl' = [releasedBrl EXCEPT ![o] = @ + 1]
ReverseHold(o) ==
  /\ heldBrl' = [heldBrl EXCEPT ![o] = @ - 1]
  /\ UNCHANGED releasedBrl

\* A return that is decided once the seller has the money marks the order.
MarkLate(o) == late' = IF status[o] = "COMPLETED" THEN late \cup {o} ELSE late

\* Rejecting or timing out a return opens a dispute for the order, unless it
\* has one, and parks the order whatever its status was.
OpenDisputeForReturn(o) ==
  IF dispute[o] = "none"
  THEN /\ dispute' = [dispute EXCEPT ![o] = "OPEN"]
       /\ SetStatus(o, "DISPUTED")
  ELSE UNCHANGED <<dispute, status>>

\* The outcomes of a refund call to the provider, told apart by what it did
\* and what the caller sees. The call carries the key refund:<id>:<amount>,
\* so executing it again does nothing more.
RefundCall(o, ok) ==
  \/ /\ ok
     /\ mpRefunded' = [mpRefunded EXCEPT ![o] = TRUE]
     /\ UNCHANGED lost
  \/ /\ ~ok
     /\ UNCHANGED <<mpRefunded, lost>>
  \/ /\ ~ok
     /\ lost < MaxLost
     /\ mpRefunded' = [mpRefunded EXCEPT ![o] = TRUE]
     /\ lost' = lost + 1

\* A deadline passes. Each starts with the event that stamps it: creation,
\* shipment, delivery, confirmation, the carrier's delivery of a return.
Running(o, d) ==
  \/ d = "ship"    /\ status[o] = "PAID"
  \/ d = "stuck"   /\ status[o] = "SHIPPED"
  \/ d = "dispute" /\ status[o] = "DELIVERED"
  \/ d = "return"  /\ delivered[o]
  \/ d = "hold"    /\ status[o] = "HELD"
  \/ d = "inspect" /\ ret[o] = "RECEIVED"
Elapse(o, d) ==
  /\ Running(o, d)
  /\ d \notin due[o]
  /\ due' = [due EXCEPT ![o] = @ \cup {d}]
  /\ UNCHANGED <<rows, money, calls, faults, late>>

\* The API process dies and forgets every call it was in the middle of.
Crash ==
  /\ crashes < MaxCrashes
  /\ crashes' = crashes + 1
  /\ autoCancel' = [o \in Orders |-> {}]
  /\ refunding' = [o \in Orders |-> "idle"]
  /\ releasing' = [o \in Orders |-> {}]
  /\ rehold' = [a \in Admins |-> {}]
  /\ UNCHANGED <<rows, due, money, lost, late>>
=============================================================================
