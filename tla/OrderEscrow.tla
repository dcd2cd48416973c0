---------------------------- MODULE OrderEscrow -----------------------------
(***************************************************************************)
(* An order from its creation to the settlement of its escrow: the order,  *)
(* dispute and return services and the hourly jobs, interleaved.           *)
(***************************************************************************)
EXTENDS OrdersCron, Disputes, Returns

OrderStep(o) ==
  \/ Settle(o) \/ CancelPending(o) \/ MarkShipped(o) \/ MarkDelivered(o)
  \/ ConfirmReceipt(o) \/ ForceRelease(o)
  \/ \E c \in Callers : FinalizeEscrow(o, c)

AdminStep ==
  \E a \in Admins, o \in Orders : ForceHoldRead(a, o) \/ ForceHoldWrite(a, o)

CronStep(o) ==
  \/ AutoConfirm(o) \/ ListReleasable(o) \/ ListUnshipped(o)
  \/ RefundUnshipped(o) \/ CancelUnshipped(o) \/ EscalateStuck(o)
  \/ EscalateStaleReturn(o) \/ PollShipment(o) \/ PollReturn(o)

DisputeStep(o) ==
  \/ OpenDispute(o) \/ ResolveForBuyer(o) \/ ResolveForSeller(o)
  \/ RefundDispute(o) \/ WalletFallback(o)

ReturnStep(o) ==
  \/ RequestReturn(o) \/ ApproveReturn(o) \/ RejectReturn(o) \/ ShipReturn(o)
  \/ InspectApprove(o) \/ InspectReject(o) \/ RefundReturn(o)

Next ==
  \/ \E o \in Orders :
       \/ OrderStep(o) \/ CronStep(o) \/ DisputeStep(o) \/ ReturnStep(o)
       \/ \E d \in Deadline : Elapse(o, d)
  \/ AdminStep
  \/ Crash

Spec == Init /\ [][Next]_vars

\* Time passes, the scheduler keeps running the hourly jobs, and a request
\* that was accepted runs to its end unless the process crashes. Nothing makes
\* a buyer, a seller, an administrator or the carrier act.
Fairness ==
  \A o \in Orders :
    /\ \A d \in Deadline : WF_vars(Elapse(o, d))
    /\ WF_vars(AutoConfirm(o))
    /\ WF_vars(ListReleasable(o))
    /\ WF_vars(ListUnshipped(o))
    /\ WF_vars(RefundUnshipped(o))
    /\ WF_vars(CancelUnshipped(o))
    /\ WF_vars(EscalateStuck(o))
    /\ WF_vars(EscalateStaleReturn(o))
    /\ \A c \in Callers : WF_vars(FinalizeEscrow(o, c))
    /\ WF_vars(RefundDispute(o))
    /\ WF_vars(WalletFallback(o))
    /\ WF_vars(RefundReturn(o))

FairSpec == Spec /\ Fairness

-----------------------------------------------------------------------------
(* What the code keeps true. A return that is decided after the seller was *)
(* paid is outside these (late): what it does is EscrowNeverOverdrawn's.   *)

\* The item price is in the seller's pendingBrl exactly while the order's
\* status says it is in escrow, and in balanceBrl exactly when the order is
\* COMPLETED: no claim lost to a job, a second click or a stale list moves it.
EscrowMatchesStatus ==
  \A o \in Orders \ late :
    /\ heldBrl[o] = IF status[o] \in Escrowed THEN 1 ELSE 0
    /\ releasedBrl[o] = IF status[o] = "COMPLETED" THEN 1 ELSE 0

\* The two settlement pipelines never run for one order: while a return is
\* undecided the order has no dispute row, however requests and jobs race.
ActiveReturnExcludesDispute ==
  \A o \in Orders : ret[o] \in ActiveReturn => dispute[o] = "none"

\* An order is parked in DISPUTED exactly while someone can still resolve its
\* dispute: none is stranded there, none is settled around an open dispute.
DisputedUntilResolved ==
  \A o \in Orders :
    /\ status[o] = "DISPUTED" => dispute[o] = "OPEN"
    /\ dispute[o] = "OPEN" /\ o \notin late => status[o] = "DISPUTED"

\* The frozen listing, the buyer's evidence, is never purged by a step that
\* leaves a dispute of the order open.
EvidenceKept ==
  [][\A o \in Orders :
       snapshot[o] /\ ~snapshot'[o] => dispute'[o] # "OPEN"]_vars

\* Whatever refund paths an order goes through, the buyer's wallet is credited
\* at most once for it.
WalletCreditedOnce == \A o \in Orders : credits[o] <= 1

\* Once an order is closed without paying the seller, no late call (the
\* release cron's stale list, a re-hold, the auto-cancel job) reopens it.
SettledIsFinal ==
  [][\A o \in Orders \ late :
       status[o] \in {"CANCELLED", "REFUNDED"} => status'[o] = status[o]]_vars

\* Where the ledger of an order says that its price is; an order that is not in
\* it has its price still to come, or was closed without paying the seller.
Unheld == [PENDING |-> "buyer", CANCELLED |-> "cancelled", REFUNDED |-> "refunded"]
PlaceOf(o) ==
  IF o \in late THEN "late"
  ELSE CASE heldBrl[o] = 1 /\ releasedBrl[o] = 0 -> "escrow"
         [] heldBrl[o] = 0 /\ releasedBrl[o] = 1 -> "seller"
         [] heldBrl[o] = 0 /\ releasedBrl[o] = 0 /\ status[o] \in DOMAIN Unheld ->
              Unheld[status[o]]
         [] OTHER -> "astray"

Place == [o \in Orders |-> PlaceOf(o)]

Promise == INSTANCE Custody WITH place <- Place

\* The services keep the promise of Custody: no late call (the release cron's
\* stale list, a re-hold, the auto-cancel job) moves the price of an order that
\* is closed, moves it twice, or credits a buyer whose seller has the price.
ImplementsCustody == Promise!Spec

\* Only an administrator or the outcome of a dispute pays the seller before the
\* hold window of the order has passed. (A re-hold while the release job still
\* has the order on its list is the exception: the job pays at once.)
HoldRunsItsCourse ==
  [][\A o \in Orders :
       releasedBrl'[o] > releasedBrl[o] =>
         \/ "hold" \in due[o]
         \/ dispute[o] = "OPEN"
         \/ releasing[o] \ releasing'[o] = {"request"}]_vars

\* A paid order is cancelled only together with its refund, in the wallet or at
\* the provider.
CancelledPaysBack ==
  [][\A o \in Orders :
       status[o] = "PAID" /\ status'[o] = "CANCELLED" =>
         mpRefunded'[o] \/ credits'[o] > 0]_vars

\* No order waits for a seller who does not ship, a carrier that never reports
\* or a buyer who never confirms: a deadline moves it.
OrderMovesOn ==
  \A o \in Orders :
    /\ status[o] = "PAID" ~> status[o] # "PAID"
    /\ status[o] = "SHIPPED" ~> status[o] # "SHIPPED"
    /\ status[o] = "DELIVERED" ~> status[o] # "DELIVERED"

\* A hold that neither a dispute nor a return stops ends with the release.
HeldIsReleased ==
  \A o \in Orders :
    status[o] = "HELD" /\ ret[o] = "none" /\ dispute[o] = "none"
      ~> status[o] # "HELD" \/ ret[o] # "none"

\* A returned parcel the seller received is inspected or escalated.
ReceivedReturnDecided ==
  \A o \in Orders : ret[o] = "RECEIVED" ~> ret[o] # "RECEIVED"

\* A buyer whose order is closed as REFUNDED gets the money, at the provider or
\* in the wallet, even if the provider refuses or its answer is lost; the
\* refund follows the commit and does not survive a crash of the process.
RefundDelivered ==
  \A o \in Orders :
    status[o] = "REFUNDED" ~>
      mpRefunded[o] \/ credits[o] > 0 \/ crashes > 0

-----------------------------------------------------------------------------
(* The inductive invariant behind the first three.                         *)

\* Only a delivered order gets a return, and none goes back from there.
ReturnAfterDelivery ==
  \A o \in Orders :
    /\ ret[o] # "none" => delivered[o]
    /\ delivered[o] =>
         status[o] \notin {"PENDING", "PAID", "SHIPPED", "CANCELLED"}

\* While a return is undecided no settlement path but the release is open.
ActiveReturnKeepsStatus ==
  \A o \in Orders \ late :
    ret[o] \in ActiveReturn => status[o] \in {"DELIVERED", "HELD", "COMPLETED"}

\* What an administrator read is still so when the re-hold is written.
ReholdIsCurrent ==
  \A a \in Admins : \A o \in rehold[a] \ late : status[o] = "COMPLETED"

\* The safety of an order's escrow, in the form every step preserves.
EscrowInv ==
  /\ TypeOK
  /\ EscrowMatchesStatus
  /\ ActiveReturnExcludesDispute
  /\ DisputedUntilResolved
  /\ ReturnAfterDelivery
  /\ ActiveReturnKeepsStatus
  /\ ReholdIsCurrent

-----------------------------------------------------------------------------
(* What a comment or a message of the code says, and the code does not do. *)

\* orders-cron: when the order left PAID "the rest of the transaction - wallet
\* reversal, refund - must NOT fire".
RefundOnlyIfCancelled ==
  \A o \in Orders :
    mpRefunded[o] /\ autoCancel[o] = {} =>
      status[o] \in {"CANCELLED", "REFUNDED"}

\* returns: the wallet credit of an approved return is a "fallback refund".
ReturnRefundsOnce ==
  \A o \in Orders :
    ret[o] = "REFUNDED" => ~(mpRefunded[o] /\ credits[o] > 0)

\* returns: approving the inspection "moves escrow money back to buyer", so
\* there is escrow money of the order to move.
EscrowNeverOverdrawn == \A o \in Orders : heldBrl[o] >= 0

\* orders-cron: the release job "skips any order that has an OPEN dispute or an
\* active (non-terminal) return".
CronSkipsActiveReturn ==
  [][\A o \in Orders :
       /\ releasedBrl'[o] > releasedBrl[o]
       /\ releasing[o] \ releasing'[o] = {"cron"}
       => ret[o] \notin ActiveReturn]_vars
=============================================================================
