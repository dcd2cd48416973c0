------------------------- MODULE OrderEscrow_proofs -------------------------
(***************************************************************************)
(* Proofs about OrderEscrow, for any set of orders, any hold and any       *)
(* number of lost answers and crashes: type correctness, and the safety of *)
(* an order's escrow.                                                      *)
(***************************************************************************)
EXTENDS OrderEscrow, TLAPS

-----------------------------------------------------------------------------
(* Type correctness.                                                       *)

\* Every order step keeps the types: claims write statuses of the enum, and
\* the escrow moves by whole item prices.
LEMMA OrderStepType ==
  ASSUME TypeOK, NEW o \in Orders, OrderStep(o)
  PROVE  TypeOK'
<1> USE DEF TypeOK, OrderStatus, SetStatus, PurgeSnapshot, Claim, rows, money,
            calls, faults
<1>1. CASE Settle(o)
  BY <1>1 DEF Settle
<1>2. CASE CancelPending(o)
  BY <1>2 DEF CancelPending
<1>3. CASE MarkShipped(o)
  BY <1>3 DEF MarkShipped
<1>4. CASE MarkDelivered(o)
  BY <1>4 DEF MarkDelivered
<1>5. CASE ConfirmReceipt(o)
  BY <1>5 DEF ConfirmReceipt, EnterHold, Deadline, Callers
<1>6. CASE ForceRelease(o)
  BY <1>6 DEF ForceRelease, Callers
<1>7. ASSUME NEW c \in Callers, FinalizeEscrow(o, c)
      PROVE  TypeOK'
  <2>1. CASE status[o] = "HELD"
    <3>1. heldBrl' \in [Orders -> Int] /\ releasedBrl' \in [Orders -> Int]
      BY <1>7, <2>1 DEF FinalizeEscrow, ReleaseToSeller
    <3>2. releasing' \in [Orders -> SUBSET Callers]
      BY <1>7 DEF FinalizeEscrow
    <3>3. status' \in [Orders -> OrderStatus] /\ snapshot' \in [Orders -> BOOLEAN]
      BY <1>7, <2>1 DEF FinalizeEscrow
    <3> QED
      BY <1>7, <3>1, <3>2, <3>3 DEF FinalizeEscrow
  <2>2. CASE status[o] # "HELD"
    BY <1>7, <2>2 DEF FinalizeEscrow
  <2> QED
    BY <2>1, <2>2
<1> QED
  BY <1>1, <1>2, <1>3, <1>4, <1>5, <1>6, <1>7 DEF OrderStep

\* What a refund call may change keeps its type, whatever the outcome.
LEMMA RefundCallType ==
  ASSUME TypeOK, NEW o \in Orders, NEW ok \in BOOLEAN, RefundCall(o, ok)
  PROVE  mpRefunded' \in [Orders -> BOOLEAN] /\ lost' \in Nat
<1> USE DEF TypeOK
<1>1. CASE mpRefunded' = [mpRefunded EXCEPT ![o] = TRUE] /\ UNCHANGED lost
  BY <1>1
<1>2. CASE UNCHANGED <<mpRefunded, lost>>
  BY <1>2
<1>3. CASE mpRefunded' = [mpRefunded EXCEPT ![o] = TRUE] /\ lost' = lost + 1
  BY <1>3
<1> QED
  BY <1>1, <1>2, <1>3 DEF RefundCall

\* What opening a dispute for a return changes keeps its type.
LEMMA OpenDisputeType ==
  ASSUME TypeOK, NEW o \in Orders, OpenDisputeForReturn(o)
  PROVE  /\ dispute' \in [Orders -> DisputeStatus]
         /\ status' \in [Orders -> OrderStatus]
<1>1. CASE dispute[o] = "none"
  BY <1>1 DEF OpenDisputeForReturn, SetStatus, TypeOK, DisputeStatus, OrderStatus
<1>2. CASE dispute[o] # "none"
  BY <1>2 DEF OpenDisputeForReturn, TypeOK
<1> QED
  BY <1>1, <1>2

\* The marking of late returns adds orders only.
LEMMA MarkLateType ==
  ASSUME TypeOK, NEW o \in Orders, MarkLate(o)
  PROVE  late' \subseteq Orders
BY DEF MarkLate, TypeOK

\* Every step of a job keeps the types.
LEMMA CronStepType ==
  ASSUME TypeOK, NEW o \in Orders, CronStep(o)
  PROVE  TypeOK'
<1> USE DEF TypeOK, SetStatus, PurgeSnapshot, Claim, rows, money, calls, faults
<1>1. CASE AutoConfirm(o)
  BY <1>1 DEF AutoConfirm, EnterHold, Deadline, Callers, OrderStatus
<1>2. CASE ListReleasable(o)
  BY <1>2 DEF ListReleasable, Callers
<1>3. CASE ListUnshipped(o)
  BY <1>3 DEF ListUnshipped
<1>4. CASE RefundUnshipped(o)
  <2>1. mpRefunded' \in [Orders -> BOOLEAN] /\ lost' \in Nat
    BY <1>4, RefundCallType DEF RefundUnshipped
  <2>2. autoCancel' \in [Orders -> SUBSET {"listed", "source", "wallet"}]
    BY <1>4 DEF RefundUnshipped, AfterRefund
  <2> QED
    BY <1>4, <2>1, <2>2 DEF RefundUnshipped
<1>5. CASE CancelUnshipped(o)
  <2>1. CASE status[o] = "PAID"
    <3>1. heldBrl' \in [Orders -> Int] /\ releasedBrl' \in [Orders -> Int]
      BY <1>5, <2>1 DEF CancelUnshipped, ReverseHold
    <3>2. credits' \in [Orders -> Nat]
      BY <1>5, <2>1 DEF CancelUnshipped
    <3>3. status' \in [Orders -> OrderStatus] /\ snapshot' \in [Orders -> BOOLEAN]
      <4>1. /\ status' = [status EXCEPT ![o] = "CANCELLED"]
            /\ snapshot' = [snapshot EXCEPT ![o] = FALSE]
        BY <1>5, <2>1 DEF CancelUnshipped
      <4> QED BY <4>1 DEF OrderStatus
    <3>4. autoCancel' \in [Orders -> SUBSET {"listed", "source", "wallet"}]
      BY <1>5 DEF CancelUnshipped
    <3> QED
      BY <1>5, <3>1, <3>2, <3>3, <3>4 DEF CancelUnshipped
  <2>2. CASE status[o] # "PAID"
    BY <1>5, <2>2 DEF CancelUnshipped
  <2> QED
    BY <2>1, <2>2
<1>6. CASE EscalateStuck(o)
  BY <1>6 DEF EscalateStuck, OrderStatus, DisputeStatus
<1>7. CASE EscalateStaleReturn(o)
  BY <1>7, OpenDisputeType, MarkLateType DEF EscalateStaleReturn, StaleReturn, ReturnStatus
<1>8. CASE PollShipment(o)
  BY <1>8 DEF PollShipment, MarkDelivered, OrderStatus
<1>9. CASE PollReturn(o)
  BY <1>9 DEF PollReturn, ReturnStatus
<1> QED
  BY <1>1, <1>2, <1>3, <1>4, <1>5, <1>6, <1>7, <1>8, <1>9 DEF CronStep

\* Every dispute step keeps the types.
LEMMA DisputeStepType ==
  ASSUME TypeOK, NEW o \in Orders, DisputeStep(o)
  PROVE  TypeOK'
<1> USE DEF TypeOK, SetStatus, PurgeSnapshot, Claim, rows, money, calls, faults
<1>1. CASE OpenDispute(o)
  BY <1>1 DEF OpenDispute, OrderStatus, DisputeStatus
<1>2. CASE ResolveForBuyer(o)
  <2>1. heldBrl' \in [Orders -> Int] /\ releasedBrl' \in [Orders -> Int]
    BY <1>2 DEF ResolveForBuyer, ReverseHold
  <2>2. /\ status' \in [Orders -> OrderStatus]
        /\ dispute' \in [Orders -> DisputeStatus]
        /\ snapshot' \in [Orders -> BOOLEAN]
    BY <1>2 DEF ResolveForBuyer, OrderStatus, DisputeStatus
  <2>3. refunding' \in [Orders -> {"idle", "dispute", "fallback", "return"}]
    BY <1>2 DEF ResolveForBuyer
  <2> QED
    BY <1>2, <2>1, <2>2, <2>3 DEF ResolveForBuyer
<1>3. CASE ResolveForSeller(o)
  <2>1. heldBrl' \in [Orders -> Int] /\ releasedBrl' \in [Orders -> Int]
    BY <1>3 DEF ResolveForSeller, ReleaseToSeller
  <2>2. /\ status' \in [Orders -> OrderStatus]
        /\ dispute' \in [Orders -> DisputeStatus]
        /\ snapshot' \in [Orders -> BOOLEAN]
    BY <1>3 DEF ResolveForSeller, OrderStatus, DisputeStatus
  <2> QED
    BY <1>3, <2>1, <2>2 DEF ResolveForSeller
<1>4. CASE RefundDispute(o)
  <2>1. mpRefunded' \in [Orders -> BOOLEAN] /\ lost' \in Nat
    BY <1>4, RefundCallType DEF RefundDispute
  <2>2. refunding' \in [Orders -> {"idle", "dispute", "fallback", "return"}]
    BY <1>4 DEF RefundDispute, AfterAnswer
  <2> QED
    BY <1>4, <2>1, <2>2 DEF RefundDispute
<1>5. CASE WalletFallback(o)
  BY <1>5 DEF WalletFallback
<1> QED
  BY <1>1, <1>2, <1>3, <1>4, <1>5 DEF DisputeStep

\* Every return step keeps the types.
LEMMA ReturnStepType ==
  ASSUME TypeOK, NEW o \in Orders, ReturnStep(o)
  PROVE  TypeOK'
<1> USE DEF TypeOK, SetStatus, PurgeSnapshot, Claim, rows, money, calls, faults
<1>1. CASE RequestReturn(o)
  BY <1>1 DEF RequestReturn, ReturnStatus
<1>2. CASE ApproveReturn(o)
  BY <1>2 DEF ApproveReturn, ReturnStatus
<1>3. CASE RejectReturn(o)
  BY <1>3, OpenDisputeType, MarkLateType DEF RejectReturn, ReturnStatus
<1>4. CASE ShipReturn(o)
  BY <1>4 DEF ShipReturn, ReturnStatus
<1>5. CASE InspectApprove(o)
  <2>1. /\ heldBrl' \in [Orders -> Int] /\ releasedBrl' \in [Orders -> Int]
        /\ credits' \in [Orders -> Nat]
    BY <1>5 DEF InspectApprove, ReverseHold
  <2>2. /\ status' \in [Orders -> OrderStatus]
        /\ ret' \in [Orders -> ReturnStatus]
        /\ snapshot' \in [Orders -> BOOLEAN]
    BY <1>5 DEF InspectApprove, OrderStatus, ReturnStatus
  <2>3. refunding' \in [Orders -> {"idle", "dispute", "fallback", "return"}]
    BY <1>5 DEF InspectApprove
  <2>4. late' \subseteq Orders
    BY <1>5, MarkLateType DEF InspectApprove
  <2> QED
    BY <1>5, <2>1, <2>2, <2>3, <2>4 DEF InspectApprove
<1>6. CASE InspectReject(o)
  BY <1>6, OpenDisputeType, MarkLateType DEF InspectReject, ReturnStatus
<1>7. CASE RefundReturn(o)
  <2>1. mpRefunded' \in [Orders -> BOOLEAN] /\ lost' \in Nat
    BY <1>7, RefundCallType DEF RefundReturn
  <2>2. refunding' \in [Orders -> {"idle", "dispute", "fallback", "return"}]
    BY <1>7 DEF RefundReturn
  <2> QED
    BY <1>7, <2>1, <2>2 DEF RefundReturn
<1> QED
  BY <1>1, <1>2, <1>3, <1>4, <1>5, <1>6, <1>7 DEF ReturnStep

\* So do the administrators' steps.
LEMMA AdminStepType ==
  ASSUME TypeOK, AdminStep
  PROVE  TypeOK'
<1> USE DEF TypeOK, SetStatus, rows, money, calls, faults
<1>1. ASSUME NEW a \in Admins, NEW o \in Orders, ForceHoldRead(a, o)
      PROVE  TypeOK'
  BY <1>1 DEF ForceHoldRead
<1>2. ASSUME NEW a \in Admins, NEW o \in Orders, ForceHoldWrite(a, o)
      PROVE  TypeOK'
  <2>1. heldBrl' \in [Orders -> Int] /\ releasedBrl' \in [Orders -> Int]
    BY <1>2 DEF ForceHoldWrite
  <2>2. status' \in [Orders -> OrderStatus] /\ due' \in [Orders -> SUBSET Deadline]
    BY <1>2 DEF ForceHoldWrite, OrderStatus
  <2>3. rehold' \in [Admins -> SUBSET Orders]
    BY <1>2 DEF ForceHoldWrite
  <2> QED
    BY <1>2, <2>1, <2>2, <2>3 DEF ForceHoldWrite
<1> QED
  BY <1>1, <1>2 DEF AdminStep

\* The initial rows are well typed.
LEMMA InitType == Init => TypeOK
BY EscrowAssumption
   DEF Init, TypeOK, OrderStatus, DisputeStatus, ReturnStatus, HoldAtCreation

\* Every step of the system keeps the types.
LEMMA TypePreserved ==
  ASSUME TypeOK, [Next]_vars
  PROVE  TypeOK'
<1>1. ASSUME NEW o \in Orders, NEW d \in Deadline, Elapse(o, d)
      PROVE  TypeOK'
  BY <1>1 DEF Elapse, TypeOK, rows, money, calls, faults
<1>2. CASE Crash
  BY <1>2 DEF Crash, TypeOK, rows, money
<1>3. CASE UNCHANGED vars
  BY <1>3 DEF vars, TypeOK, rows, money, calls, faults
<1> QED
  BY <1>1, <1>2, <1>3, OrderStepType, CronStepType, DisputeStepType,
     ReturnStepType, AdminStepType DEF Next

\* The types are right in every reachable state.
THEOREM TypeCorrect == Spec => []TypeOK
BY InitType, TypePreserved, PTL DEF Spec

-----------------------------------------------------------------------------
(* The safety of the escrow. Every step works on one order, so the         *)
(* invariant is taken apart into what it says of one order (OrderOK); a    *)
(* step has to restore it for its own order and to leave the others be.    *)

\* EscrowInv, without the types, for one order.
OrderOK(p) ==
  /\ p \notin late =>
       /\ heldBrl[p] = IF status[p] \in Escrowed THEN 1 ELSE 0
       /\ releasedBrl[p] = IF status[p] = "COMPLETED" THEN 1 ELSE 0
       /\ dispute[p] = "OPEN" => status[p] = "DISPUTED"
       /\ ret[p] \in ActiveReturn => status[p] \in {"DELIVERED", "HELD", "COMPLETED"}
       /\ \A a \in Admins : p \in rehold[a] => status[p] = "COMPLETED"
  /\ ret[p] \in ActiveReturn => dispute[p] = "none"
  /\ status[p] = "DISPUTED" => dispute[p] = "OPEN"
  /\ ret[p] # "none" => delivered[p]
  /\ delivered[p] => status[p] \notin {"PENDING", "PAID", "SHIPPED", "CANCELLED"}

\* A step changes nothing of the orders other than o that OrderOK speaks of,
\* or only drops an intention to re-hold one.
TouchesOnly(o) ==
  \A p \in Orders \ {o} :
    /\ status'[p] = status[p] /\ delivered'[p] = delivered[p]
    /\ dispute'[p] = dispute[p] /\ ret'[p] = ret[p]
    /\ heldBrl'[p] = heldBrl[p] /\ releasedBrl'[p] = releasedBrl[p]
    /\ p \in late' <=> p \in late
    /\ \A a \in Admins : p \in rehold'[a] => p \in rehold[a]

\* The invariant is the types and OrderOK of every order.
LEMMA InvByOrder == EscrowInv <=> TypeOK /\ \A p \in Orders : OrderOK(p)
BY DEF EscrowInv, OrderOK, EscrowMatchesStatus, ActiveReturnExcludesDispute,
       DisputedUntilResolved, ReturnAfterDelivery, ActiveReturnKeepsStatus,
       ReholdIsCurrent, TypeOK

\* In the next state too.
LEMMA InvByOrderNext == ASSUME EscrowInv' PROVE TypeOK' /\ \A p \in Orders : OrderOK(p)'
BY DEF EscrowInv, OrderOK, EscrowMatchesStatus, ActiveReturnExcludesDispute,
       DisputedUntilResolved, ReturnAfterDelivery, ActiveReturnKeepsStatus,
       ReholdIsCurrent, TypeOK

\* An order that a step does not touch stays as it should be.
LEMMA Frame ==
  ASSUME TypeOK, TypeOK', NEW o \in Orders, TouchesOnly(o),
         \A p \in Orders : OrderOK(p), OrderOK(o)'
  PROVE  \A p \in Orders : OrderOK(p)'
<1> SUFFICES ASSUME NEW p \in Orders, p # o PROVE OrderOK(p)'
  OBVIOUS
<1>1. OrderOK(p)
  OBVIOUS
<1> QED
  BY <1>1 DEF TouchesOnly, OrderOK

\* The steps of OrdersService.
LEMMA OrderStepSafe ==
  ASSUME TypeOK, NEW o \in Orders, OrderOK(o), OrderStep(o)
  PROVE  OrderOK(o)' /\ TouchesOnly(o)
<1> USE DEF TypeOK, OrderOK, TouchesOnly, Escrowed, ActiveReturn, SetStatus,
            PurgeSnapshot, Claim, NoCase, rows, money, calls, faults
<1>1. CASE Settle(o)
  BY <1>1 DEF Settle
<1>2. CASE CancelPending(o)
  BY <1>2 DEF CancelPending
<1>3. CASE MarkShipped(o)
  BY <1>3 DEF MarkShipped
<1>4. CASE MarkDelivered(o)
  BY <1>4 DEF MarkDelivered
<1>5. CASE ConfirmReceipt(o)
  BY <1>5 DEF ConfirmReceipt, EnterHold
<1>6. CASE ForceRelease(o)
  BY <1>6 DEF ForceRelease
<1>7. ASSUME NEW c \in Callers, FinalizeEscrow(o, c)
      PROVE  OrderOK(o)' /\ TouchesOnly(o)
  <2>1. CASE status[o] = "HELD"
    BY <1>7, <2>1 DEF FinalizeEscrow, ReleaseToSeller
  <2>2. CASE status[o] # "HELD"
    BY <1>7, <2>2 DEF FinalizeEscrow
  <2> QED
    BY <2>1, <2>2
<1> QED
  BY <1>1, <1>2, <1>3, <1>4, <1>5, <1>6, <1>7 DEF OrderStep

\* The steps of the jobs.
LEMMA CronStepSafe ==
  ASSUME TypeOK, NEW o \in Orders, OrderOK(o), CronStep(o)
  PROVE  OrderOK(o)' /\ TouchesOnly(o)
<1> USE DEF TypeOK, OrderOK, TouchesOnly, Escrowed, ActiveReturn, SetStatus,
            PurgeSnapshot, Claim, NoCase, rows, money, calls, faults
<1>1. CASE AutoConfirm(o)
  BY <1>1 DEF AutoConfirm, EnterHold
<1>2. CASE ListReleasable(o)
  BY <1>2 DEF ListReleasable
<1>3. CASE ListUnshipped(o)
  BY <1>3 DEF ListUnshipped
<1>4. CASE RefundUnshipped(o)
  BY <1>4 DEF RefundUnshipped
<1>5. CASE CancelUnshipped(o)
  BY <1>5 DEF CancelUnshipped, ReverseHold
<1>6. CASE EscalateStuck(o)
  BY <1>6 DEF EscalateStuck
<1>7. CASE EscalateStaleReturn(o)
  BY <1>7 DEF EscalateStaleReturn, StaleReturn, OpenDisputeForReturn, MarkLate
<1>8. CASE PollShipment(o)
  BY <1>8 DEF PollShipment, MarkDelivered
<1>9. CASE PollReturn(o)
  BY <1>9 DEF PollReturn
<1> QED
  BY <1>1, <1>2, <1>3, <1>4, <1>5, <1>6, <1>7, <1>8, <1>9 DEF CronStep

\* The steps of DisputesService.
LEMMA DisputeStepSafe ==
  ASSUME TypeOK, NEW o \in Orders, OrderOK(o), DisputeStep(o)
  PROVE  OrderOK(o)' /\ TouchesOnly(o)
<1> USE DEF TypeOK, OrderOK, TouchesOnly, Escrowed, ActiveReturn, SetStatus,
            PurgeSnapshot, Claim, NoCase, rows, money, calls, faults
<1>1. CASE OpenDispute(o)
  BY <1>1 DEF OpenDispute
<1>2. CASE ResolveForBuyer(o)
  BY <1>2 DEF ResolveForBuyer, ReverseHold
<1>3. CASE ResolveForSeller(o)
  BY <1>3 DEF ResolveForSeller, ReleaseToSeller
<1>4. CASE RefundDispute(o)
  BY <1>4 DEF RefundDispute
<1>5. CASE WalletFallback(o)
  BY <1>5 DEF WalletFallback
<1> QED
  BY <1>1, <1>2, <1>3, <1>4, <1>5 DEF DisputeStep

\* The steps of ReturnsService.
LEMMA ReturnStepSafe ==
  ASSUME TypeOK, NEW o \in Orders, OrderOK(o), ReturnStep(o)
  PROVE  OrderOK(o)' /\ TouchesOnly(o)
<1> USE DEF TypeOK, OrderOK, TouchesOnly, Escrowed, ActiveReturn, SetStatus,
            PurgeSnapshot, Claim, NoCase, rows, money, calls, faults
<1>1. CASE RequestReturn(o)
  BY <1>1 DEF RequestReturn
<1>2. CASE ApproveReturn(o)
  BY <1>2 DEF ApproveReturn
<1>3. CASE RejectReturn(o)
  BY <1>3 DEF RejectReturn, OpenDisputeForReturn, MarkLate
<1>4. CASE ShipReturn(o)
  BY <1>4 DEF ShipReturn
<1>5. CASE InspectApprove(o)
  BY <1>5 DEF InspectApprove, ReverseHold, MarkLate
<1>6. CASE InspectReject(o)
  BY <1>6 DEF InspectReject, OpenDisputeForReturn, MarkLate
<1>7. CASE RefundReturn(o)
  BY <1>7 DEF RefundReturn
<1> QED
  BY <1>1, <1>2, <1>3, <1>4, <1>5, <1>6, <1>7 DEF ReturnStep

\* forceHold: of the administrators who have read an order as COMPLETED and have
\* yet to re-hold it there is one at most.
OneRehold == \A a, b \in Admins : \A o \in rehold[a] \cap rehold[b] : a = b

\* A re-hold writes over the status it finds: when nobody else re-holds the order
\* that is still the COMPLETED it read, unless a return was decided meanwhile.
LEMMA ReholdSafe ==
  ASSUME TypeOK, NEW a \in Admins, NEW o \in Orders, OrderOK(o),
         OneRehold,
         ForceHoldRead(a, o) \/ ForceHoldWrite(a, o)
  PROVE  OrderOK(o)' /\ TouchesOnly(o)
<1> USE DEF TypeOK, OrderOK, TouchesOnly, Escrowed, ActiveReturn, SetStatus,
            rows, money, calls, faults
<1>1. CASE ForceHoldRead(a, o)
  BY <1>1 DEF ForceHoldRead
<1>2. CASE ForceHoldWrite(a, o)
  BY <1>2 DEF ForceHoldWrite, OneRehold
<1> QED
  BY <1>1, <1>2

\* The invariant is inductive.
LEMMA EscrowInductive ==
  ASSUME OneRehold, EscrowInv, [Next]_vars
  PROVE  EscrowInv'
<1> TypeOK /\ \A p \in Orders : OrderOK(p)
  BY InvByOrder
<1>1. TypeOK'
  BY TypePreserved
<1>2. ASSUME NEW o \in Orders,
             OrderStep(o) \/ CronStep(o) \/ DisputeStep(o) \/ ReturnStep(o)
      PROVE  \A p \in Orders : OrderOK(p)'
  <2>1. OrderOK(o)' /\ TouchesOnly(o)
    BY <1>2, OrderStepSafe, CronStepSafe, DisputeStepSafe, ReturnStepSafe
  <2> QED
    BY <1>1, <2>1, Frame
<1>3. ASSUME NEW a \in Admins, NEW o \in Orders,
             ForceHoldRead(a, o) \/ ForceHoldWrite(a, o)
      PROVE  \A p \in Orders : OrderOK(p)'
  <2>1. OrderOK(o)' /\ TouchesOnly(o)
    BY <1>3, ReholdSafe
  <2> QED
    BY <1>1, <2>1, Frame
<1>4. ASSUME NEW o \in Orders, NEW d \in Deadline, Elapse(o, d)
      PROVE  \A p \in Orders : OrderOK(p)'
  BY <1>4 DEF Elapse, OrderOK, rows, money, calls
<1>5. ASSUME Crash, NEW p \in Orders
      PROVE  OrderOK(p)'
  <2>1. OrderOK(p)
    OBVIOUS
  <2> QED
    BY <1>5, <2>1 DEF Crash, OrderOK, rows, money
<1>6. ASSUME UNCHANGED vars, NEW p \in Orders
      PROVE  OrderOK(p)'
  <2>1. OrderOK(p)
    OBVIOUS
  <2> QED
    BY <1>6, <2>1 DEF vars, OrderOK, rows, money, calls
<1>7. \A p \in Orders : OrderOK(p)'
  BY <1>2, <1>3, <1>4, <1>5, <1>6 DEF Next, AdminStep
<1> QED
  BY <1>1, <1>7
     DEF EscrowInv, OrderOK, EscrowMatchesStatus, ActiveReturnExcludesDispute,
         DisputedUntilResolved, ReturnAfterDelivery, ActiveReturnKeepsStatus,
         ReholdIsCurrent, TypeOK

\* It holds at first.
LEMMA EscrowInit == Init => EscrowInv
<1> SUFFICES ASSUME Init PROVE EscrowInv
  OBVIOUS
<1>1. TypeOK
  BY InitType
<1>2. \A p \in Orders : OrderOK(p)
  BY DEF Init, OrderOK, Escrowed, ActiveReturn, HoldAtCreation
<1> QED
  BY <1>1, <1>2, InvByOrder

\* With any number of administrators, as long as no two of them re-hold the same
\* order at once, EscrowInv holds in every reachable state.
THEOREM EscrowSafe == Spec /\ []OneRehold => []EscrowInv
<1>1. OneRehold /\ EscrowInv /\ [Next]_vars => EscrowInv'
  BY EscrowInductive
<1> QED
  BY EscrowInit, <1>1, PTL DEF Spec

\* The price of an order is in the seller's pendingBrl exactly while its status
\* says escrow, and in balanceBrl exactly when it is COMPLETED, unless a return
\* was decided after the release.
THEOREM EscrowMatchesStatusAlways == Spec /\ []OneRehold => []EscrowMatchesStatus
BY EscrowSafe, PTL DEF EscrowInv

\* No order is parked in DISPUTED without an open dispute, and none is settled
\* around one.
THEOREM DisputedUntilResolvedAlways == Spec /\ []OneRehold => []DisputedUntilResolved
BY EscrowSafe, PTL DEF EscrowInv

\* No step of an order's own leaves CANCELLED or REFUNDED: the claims name
\* other statuses, and the steps that claim none (a resolution, the decision of
\* a return, a re-hold) start from rows the invariant ties to other statuses.
LEMMA SettledStep ==
  ASSUME NEW o \in Orders \ late, OrderOK(o),
         status[o] \in {"CANCELLED", "REFUNDED"},
         \/ OrderStep(o) \/ CronStep(o) \/ DisputeStep(o) \/ ReturnStep(o)
         \/ \E a \in Admins : ForceHoldRead(a, o) \/ ForceHoldWrite(a, o)
  PROVE  status'[o] = status[o]
<1> USE DEF OrderOK, ActiveReturn, Claim, rows
<1>1. CASE OrderStep(o)
  BY <1>1 DEF OrderStep, Settle, CancelPending, MarkShipped, MarkDelivered,
              ConfirmReceipt, EnterHold, ForceRelease, FinalizeEscrow
<1>2. CASE CronStep(o)
  BY <1>2 DEF CronStep, AutoConfirm, EnterHold, ListReleasable, ListUnshipped,
              RefundUnshipped, CancelUnshipped, EscalateStuck, PollShipment,
              EscalateStaleReturn, StaleReturn, MarkDelivered, PollReturn
<1>3. CASE DisputeStep(o)
  BY <1>3 DEF DisputeStep, OpenDispute, ResolveForBuyer, ResolveForSeller,
              RefundDispute, WalletFallback
<1>4. CASE ReturnStep(o)
  BY <1>4 DEF ReturnStep, RequestReturn, ApproveReturn, RejectReturn, ShipReturn,
              InspectApprove, InspectReject, RefundReturn
<1>5. ASSUME NEW a \in Admins, ForceHoldRead(a, o) \/ ForceHoldWrite(a, o)
      PROVE  status'[o] = status[o]
  BY <1>5 DEF ForceHoldRead, ForceHoldWrite
<1> QED
  BY <1>1, <1>2, <1>3, <1>4, <1>5

\* An order closed without paying the seller stays closed.
THEOREM SettledIsFinalAlways == Spec /\ []OneRehold => SettledIsFinal
<1> DEFINE Final == \A o \in Orders \ late :
              status[o] \in {"CANCELLED", "REFUNDED"} => status'[o] = status[o]
<1>1. ASSUME OneRehold, EscrowInv, [Next]_vars
      PROVE  [Final]_vars
  <2>1. TypeOK /\ \A p \in Orders : OrderOK(p)
    BY <1>1, InvByOrder
  <2>2. CASE UNCHANGED vars
    BY <2>2
  <2>3. ASSUME NEW p \in Orders \ late,
               status[p] \in {"CANCELLED", "REFUNDED"}, Next
        PROVE  status'[p] = status[p]
    <3>1. ASSUME NEW o \in Orders,
                 \/ OrderStep(o) \/ CronStep(o) \/ DisputeStep(o)
                 \/ ReturnStep(o)
                 \/ \E a \in Admins : ForceHoldRead(a, o) \/ ForceHoldWrite(a, o)
          PROVE  status'[p] = status[p]
      <4>1. TouchesOnly(o)
        BY <1>1, <2>1, <3>1, OrderStepSafe, CronStepSafe, DisputeStepSafe,
           ReturnStepSafe, ReholdSafe
      <4>2. CASE p = o
        BY <2>1, <2>3, <3>1, <4>2, SettledStep
      <4>3. CASE p # o
        BY <4>1, <4>3 DEF TouchesOnly
      <4> QED
        BY <4>2, <4>3
    <3>2. ASSUME NEW o \in Orders, NEW d \in Deadline, Elapse(o, d)
          PROVE  status'[p] = status[p]
      BY <3>2 DEF Elapse, rows
    <3>3. CASE Crash
      BY <3>3 DEF Crash, rows
    <3> QED
      BY <2>3, <3>1, <3>2, <3>3 DEF Next, AdminStep
  <2> QED
    BY <1>1, <2>2, <2>3
<1>2. Spec /\ []OneRehold => [][Final]_vars
  BY <1>1, EscrowSafe, PTL DEF Spec
<1> QED
  BY <1>2 DEF SettledIsFinal

-----------------------------------------------------------------------------
(* The buyer's wallet. Only the auto-cancel job credits it without looking *)
(* at the ledger, and it needs an order that is still PAID; so it is enough *)
(* that an order which can still be PAID was never credited and has no     *)
(* case that could. This needs nothing of the number of administrators.    *)

WalletOK(p) ==
  /\ credits[p] <= 1
  /\ status[p] \in {"PENDING", "PAID"} =>
       /\ credits[p] = 0 /\ refunding[p] = "idle"
       /\ dispute[p] = "none" /\ ret[p] = "none"

\* A step changes nothing that WalletOK speaks of for the orders other than o.
CreditsOnly(o) ==
  \A p \in Orders \ {o} :
    /\ status'[p] = status[p] /\ credits'[p] = credits[p]
    /\ refunding'[p] = refunding[p]
    /\ dispute'[p] = dispute[p] /\ ret'[p] = ret[p]

\* Every step about an order keeps its credits in order, and the others' be.
LEMMA WalletStep ==
  ASSUME TypeOK, NEW o \in Orders, WalletOK(o),
         \/ OrderStep(o) \/ CronStep(o) \/ DisputeStep(o) \/ ReturnStep(o)
         \/ \E a \in Admins : ForceHoldRead(a, o) \/ ForceHoldWrite(a, o)
  PROVE  WalletOK(o)' /\ CreditsOnly(o)
<1> USE DEF TypeOK, WalletOK, CreditsOnly, SetStatus, PurgeSnapshot, Claim, NoCase,
            rows, money, calls, faults
<1>1. CASE OrderStep(o)
  <2>1. CASE Settle(o)
    BY <2>1 DEF Settle
  <2>2. CASE CancelPending(o)
    BY <2>2 DEF CancelPending
  <2>3. CASE MarkShipped(o)
    BY <2>3 DEF MarkShipped
  <2>4. CASE MarkDelivered(o)
    BY <2>4 DEF MarkDelivered
  <2>5. CASE ConfirmReceipt(o)
    BY <2>5 DEF ConfirmReceipt, EnterHold
  <2>6. CASE ForceRelease(o)
    BY <2>6 DEF ForceRelease
  <2>7. ASSUME NEW c \in Callers, FinalizeEscrow(o, c)
        PROVE  WalletOK(o)' /\ CreditsOnly(o)
    BY <2>7 DEF FinalizeEscrow
  <2> QED
    BY <1>1, <2>1, <2>2, <2>3, <2>4, <2>5, <2>6, <2>7 DEF OrderStep
<1>2. CASE CronStep(o)
  <2>1. CASE AutoConfirm(o)
    BY <2>1 DEF AutoConfirm, EnterHold
  <2>2. CASE ListReleasable(o) \/ ListUnshipped(o)
    BY <2>2 DEF ListReleasable, ListUnshipped
  <2>3. CASE RefundUnshipped(o)
    BY <2>3 DEF RefundUnshipped
  <2>4. CASE CancelUnshipped(o)
    BY <2>4 DEF CancelUnshipped
  <2>5. CASE EscalateStuck(o)
    BY <2>5 DEF EscalateStuck
  <2>6. CASE EscalateStaleReturn(o)
    BY <2>6 DEF EscalateStaleReturn, StaleReturn, OpenDisputeForReturn
  <2>7. CASE PollShipment(o)
    BY <2>7 DEF PollShipment, MarkDelivered
  <2>8. CASE PollReturn(o)
    BY <2>8 DEF PollReturn
  <2> QED
    BY <1>2, <2>1, <2>2, <2>3, <2>4, <2>5, <2>6, <2>7, <2>8 DEF CronStep
<1>3. CASE DisputeStep(o)
  <2>1. CASE OpenDispute(o)
    BY <2>1 DEF OpenDispute
  <2>2. CASE ResolveForBuyer(o)
    BY <2>2 DEF ResolveForBuyer
  <2>3. CASE ResolveForSeller(o)
    BY <2>3 DEF ResolveForSeller
  <2>4. CASE RefundDispute(o)
    BY <2>4 DEF RefundDispute
  <2>5. CASE WalletFallback(o)
    BY <2>5 DEF WalletFallback
  <2> QED
    BY <1>3, <2>1, <2>2, <2>3, <2>4, <2>5 DEF DisputeStep
<1>4. CASE ReturnStep(o)
  <2>1. CASE RequestReturn(o)
    BY <2>1 DEF RequestReturn
  <2>2. CASE ApproveReturn(o) \/ ShipReturn(o)
    BY <2>2 DEF ApproveReturn, ShipReturn
  <2>3. CASE RejectReturn(o) \/ InspectReject(o)
    BY <2>3 DEF RejectReturn, InspectReject, OpenDisputeForReturn
  <2>4. CASE InspectApprove(o)
    BY <2>4 DEF InspectApprove
  <2>5. CASE RefundReturn(o)
    BY <2>5 DEF RefundReturn
  <2> QED
    BY <1>4, <2>1, <2>2, <2>3, <2>4, <2>5 DEF ReturnStep
<1>5. ASSUME NEW a \in Admins, ForceHoldRead(a, o) \/ ForceHoldWrite(a, o)
      PROVE  WalletOK(o)' /\ CreditsOnly(o)
  BY <1>5 DEF ForceHoldRead, ForceHoldWrite
<1> QED
  BY <1>1, <1>2, <1>3, <1>4, <1>5

\* The buyer's wallet is credited at most once for an order, whatever the jobs,
\* the dispute, the return, lost answers and crashes do, and for any number of
\* administrators.
THEOREM WalletCreditedOnceAlways == Spec => []WalletCreditedOnce
<1> DEFINE WInv == TypeOK /\ \A p \in Orders : WalletOK(p)
<1>1. Init => WInv
  BY InitType DEF Init, WalletOK
<1>2. ASSUME WInv, [Next]_vars PROVE WInv'
  <2>1. TypeOK'
    BY <1>2, TypePreserved
  <2>2. ASSUME NEW o \in Orders,
               \/ OrderStep(o) \/ CronStep(o) \/ DisputeStep(o) \/ ReturnStep(o)
               \/ \E a \in Admins : ForceHoldRead(a, o) \/ ForceHoldWrite(a, o),
               NEW p \in Orders
        PROVE  WalletOK(p)'
    <3>1. WalletOK(o)' /\ CreditsOnly(o) /\ WalletOK(p)
      BY <1>2, <2>2, WalletStep
    <3> QED
      BY <3>1 DEF CreditsOnly, WalletOK
  <2>3. ASSUME NEW o \in Orders, NEW d \in Deadline, Elapse(o, d), NEW p \in Orders
        PROVE  WalletOK(p)'
    BY <1>2, <2>3 DEF Elapse, WalletOK, rows, money, calls
  <2>4. ASSUME Crash, NEW p \in Orders
        PROVE  WalletOK(p)'
    BY <1>2, <2>4 DEF Crash, WalletOK, rows, money
  <2>5. ASSUME UNCHANGED vars, NEW p \in Orders
        PROVE  WalletOK(p)'
    BY <1>2, <2>5 DEF vars, WalletOK, rows, money, calls
  <2> QED
    BY <1>2, <2>1, <2>2, <2>3, <2>4, <2>5 DEF Next, AdminStep
<1>3. WInv => WalletCreditedOnce
  BY DEF WalletOK, WalletCreditedOnce
<1> QED
  BY <1>1, <1>2, <1>3, PTL DEF Spec

-----------------------------------------------------------------------------
(* The two pipelines and the evidence, for any number of administrators: a *)
(* re-hold, however late, finds an order whose evidence is gone.           *)

\* An order that still has its snapshot was never COMPLETED, so nobody is about
\* to re-hold it, and its open dispute has parked it.
CaseOK(p) ==
  /\ ret[p] \in ActiveReturn => dispute[p] = "none"
  /\ ret[p] # "none" => delivered[p]
  /\ delivered[p] => status[p] \notin {"PENDING", "PAID", "SHIPPED", "CANCELLED"}
  /\ status[p] \in {"PENDING", "PAID", "SHIPPED"} => dispute[p] = "none"
  /\ snapshot[p] => /\ status[p] # "COMPLETED"
                    /\ \A a \in Admins : p \notin rehold[a]
                    /\ dispute[p] = "OPEN" => status[p] = "DISPUTED"

\* What EvidenceKept says of one order.
Kept(p) == snapshot[p] /\ ~snapshot'[p] => dispute'[p] # "OPEN"

\* A step changes nothing that CaseOK speaks of for the orders other than o.
CaseOnly(o) ==
  \A p \in Orders \ {o} :
    /\ status'[p] = status[p] /\ delivered'[p] = delivered[p]
    /\ dispute'[p] = dispute[p] /\ ret'[p] = ret[p]
    /\ snapshot'[p] = snapshot[p]
    /\ \A a \in Admins : p \in rehold'[a] => p \in rehold[a]

\* Every step about an order keeps its cases apart and its evidence.
LEMMA CaseStep ==
  ASSUME TypeOK, NEW o \in Orders, CaseOK(o),
         \/ OrderStep(o) \/ CronStep(o) \/ DisputeStep(o) \/ ReturnStep(o)
         \/ \E a \in Admins : ForceHoldRead(a, o) \/ ForceHoldWrite(a, o)
  PROVE  CaseOK(o)' /\ Kept(o) /\ CaseOnly(o)
<1> USE DEF TypeOK, CaseOK, Kept, CaseOnly, ActiveReturn, SetStatus, PurgeSnapshot,
            Claim, NoCase, rows, money, calls, faults
<1>1. CASE OrderStep(o)
  <2>1. CASE Settle(o)
    BY <2>1 DEF Settle
  <2>2. CASE CancelPending(o)
    BY <2>2 DEF CancelPending
  <2>3. CASE MarkShipped(o)
    BY <2>3 DEF MarkShipped
  <2>4. CASE MarkDelivered(o)
    BY <2>4 DEF MarkDelivered
  <2>5. CASE ConfirmReceipt(o)
    BY <2>5 DEF ConfirmReceipt, EnterHold
  <2>6. CASE ForceRelease(o)
    BY <2>6 DEF ForceRelease
  <2>7. ASSUME NEW c \in Callers, FinalizeEscrow(o, c)
        PROVE  CaseOK(o)' /\ Kept(o) /\ CaseOnly(o)
    BY <2>7 DEF FinalizeEscrow
  <2> QED
    BY <1>1, <2>1, <2>2, <2>3, <2>4, <2>5, <2>6, <2>7 DEF OrderStep
<1>2. CASE CronStep(o)
  <2>1. CASE AutoConfirm(o)
    BY <2>1 DEF AutoConfirm, EnterHold
  <2>2. CASE ListReleasable(o) \/ ListUnshipped(o)
    BY <2>2 DEF ListReleasable, ListUnshipped
  <2>3. CASE RefundUnshipped(o)
    BY <2>3 DEF RefundUnshipped
  <2>4. CASE CancelUnshipped(o)
    BY <2>4 DEF CancelUnshipped
  <2>5. CASE EscalateStuck(o)
    BY <2>5 DEF EscalateStuck
  <2>6. CASE EscalateStaleReturn(o)
    BY <2>6 DEF EscalateStaleReturn, StaleReturn, OpenDisputeForReturn
  <2>7. CASE PollShipment(o)
    BY <2>7 DEF PollShipment, MarkDelivered
  <2>8. CASE PollReturn(o)
    BY <2>8 DEF PollReturn
  <2> QED
    BY <1>2, <2>1, <2>2, <2>3, <2>4, <2>5, <2>6, <2>7, <2>8 DEF CronStep
<1>3. CASE DisputeStep(o)
  <2>1. CASE OpenDispute(o)
    BY <2>1 DEF OpenDispute
  <2>2. CASE ResolveForBuyer(o)
    BY <2>2 DEF ResolveForBuyer
  <2>3. CASE ResolveForSeller(o)
    BY <2>3 DEF ResolveForSeller
  <2>4. CASE RefundDispute(o) \/ WalletFallback(o)
    BY <2>4 DEF RefundDispute, WalletFallback
  <2> QED
    BY <1>3, <2>1, <2>2, <2>3, <2>4 DEF DisputeStep
<1>4. CASE ReturnStep(o)
  <2>1. CASE RequestReturn(o)
    BY <2>1 DEF RequestReturn
  <2>2. CASE ApproveReturn(o) \/ ShipReturn(o)
    BY <2>2 DEF ApproveReturn, ShipReturn
  <2>3. CASE RejectReturn(o) \/ InspectReject(o)
    BY <2>3 DEF RejectReturn, InspectReject, OpenDisputeForReturn
  <2>4. CASE InspectApprove(o)
    BY <2>4 DEF InspectApprove
  <2>5. CASE RefundReturn(o)
    BY <2>5 DEF RefundReturn
  <2> QED
    BY <1>4, <2>1, <2>2, <2>3, <2>4, <2>5 DEF ReturnStep
<1>5. ASSUME NEW a \in Admins, ForceHoldRead(a, o) \/ ForceHoldWrite(a, o)
      PROVE  CaseOK(o)' /\ Kept(o) /\ CaseOnly(o)
  BY <1>5 DEF ForceHoldRead, ForceHoldWrite
<1> QED
  BY <1>1, <1>2, <1>3, <1>4, <1>5

\* The types and the cases of all orders.
CaseInv == TypeOK /\ \A p \in Orders : CaseOK(p)

\* CaseInv is inductive, and no step from it destroys the evidence of a dispute.
LEMMA CaseInductive ==
  ASSUME CaseInv, [Next]_vars
  PROVE  CaseInv' /\ \A p \in Orders : Kept(p)
<1>1. TypeOK'
  BY TypePreserved DEF CaseInv
<1>2. ASSUME NEW o \in Orders,
             \/ OrderStep(o) \/ CronStep(o) \/ DisputeStep(o) \/ ReturnStep(o)
             \/ \E a \in Admins : ForceHoldRead(a, o) \/ ForceHoldWrite(a, o),
             NEW p \in Orders
      PROVE  CaseOK(p)' /\ Kept(p)
  <2>1. CaseOK(o)' /\ Kept(o) /\ CaseOnly(o) /\ CaseOK(p)
    BY <1>2, CaseStep DEF CaseInv
  <2> QED
    BY <2>1 DEF CaseOnly, CaseOK, Kept
<1>3. ASSUME NEW o \in Orders, NEW d \in Deadline, Elapse(o, d), NEW p \in Orders
      PROVE  CaseOK(p)' /\ Kept(p)
  BY <1>3 DEF CaseInv, Elapse, CaseOK, Kept, rows, money, calls
<1>4. ASSUME Crash, NEW p \in Orders
      PROVE  CaseOK(p)' /\ Kept(p)
  BY <1>4 DEF CaseInv, Crash, CaseOK, Kept, rows, money
<1>5. ASSUME UNCHANGED vars, NEW p \in Orders
      PROVE  CaseOK(p)' /\ Kept(p)
  BY <1>5 DEF CaseInv, vars, CaseOK, Kept, rows, money, calls
<1> QED
  BY <1>1, <1>2, <1>3, <1>4, <1>5 DEF Next, AdminStep, CaseInv

\* It holds at first.
LEMMA CaseInit == Init => CaseInv
BY InitType DEF Init, CaseInv, CaseOK, ActiveReturn

\* However requests and jobs race, no order has an undecided return and a
\* dispute at once, for any number of administrators.
THEOREM ReturnExcludesDispute == Spec => []ActiveReturnExcludesDispute
<1>1. CaseInv => ActiveReturnExcludesDispute
  BY DEF CaseInv, CaseOK, ActiveReturnExcludesDispute
<1>2. CaseInv /\ [Next]_vars => CaseInv'
  BY CaseInductive
<1> QED
  BY <1>1, <1>2, CaseInit, PTL DEF Spec

\* No step purges the buyer's evidence and leaves a dispute of the order open.
THEOREM EvidenceKeptAlways == Spec => EvidenceKept
<1> DEFINE AllKept == \A o \in Orders :
              snapshot[o] /\ ~snapshot'[o] => dispute'[o] # "OPEN"
<1>1. CaseInv /\ [Next]_vars => CaseInv' /\ [AllKept]_vars
  BY CaseInductive DEF Kept
<1>2. Spec => [][AllKept]_vars
  BY <1>1, CaseInit, PTL DEF Spec
<1> QED
  BY <1>2 DEF EvidenceKept

-----------------------------------------------------------------------------
(* The money that leaves the order: the refund that goes with an automatic *)
(* cancellation, and the release that waits for the hold.                  *)

\* The job's note that the provider refunded is true.
NoteOK(p) == "source" \in autoCancel[p] => mpRefunded[p]

\* An order on the release job's list has its hold behind it.
ListOK(p) ==
  "cron" \in releasing[p] =>
    /\ "hold" \in due[p]
    /\ status[p] \notin {"PENDING", "PAID", "SHIPPED", "DELIVERED"}

\* What CancelledPaysBack and HoldRunsItsCourse say of one order.
PaysBack(p) ==
  status[p] = "PAID" /\ status'[p] = "CANCELLED" => mpRefunded'[p] \/ credits'[p] > 0
Waits(p) ==
  releasedBrl'[p] > releasedBrl[p] =>
    \/ "hold" \in due[p]
    \/ dispute[p] = "OPEN"
    \/ releasing[p] \ releasing'[p] = {"request"}

\* A step changes nothing that these speak of for the orders other than o.
ReleaseOnly(o) ==
  \A p \in Orders \ {o} :
    /\ status'[p] = status[p] /\ releasedBrl'[p] = releasedBrl[p]
    /\ autoCancel'[p] = autoCancel[p]
    /\ mpRefunded[p] => mpRefunded'[p]
    /\ releasing'[p] = releasing[p] /\ due'[p] = due[p]

\* The provider never takes a refund back.
LEMMA RefundIsKept ==
  ASSUME TypeOK, NEW o \in Orders, NEW ok \in BOOLEAN, RefundCall(o, ok)
  PROVE  /\ \A p \in Orders : mpRefunded[p] => mpRefunded'[p]
         /\ ok => mpRefunded'[o]
BY DEF RefundCall, TypeOK

\* Every step about an order but the re-hold keeps its release in order.
LEMMA ReleaseStep ==
  ASSUME TypeOK, NEW o \in Orders,
         \/ OrderStep(o) \/ CronStep(o) \/ DisputeStep(o) \/ ReturnStep(o)
         \/ \E a \in Admins : ForceHoldRead(a, o)
  PROVE  /\ NoteOK(o) => NoteOK(o)' /\ PaysBack(o)
         /\ ListOK(o) => ListOK(o)' /\ Waits(o)
         /\ ReleaseOnly(o)
<1> DEFINE Note == NoteOK(o) => NoteOK(o)' /\ PaysBack(o)
           List == ListOK(o) => ListOK(o)' /\ Waits(o)
<1> SUFFICES Note /\ List /\ ReleaseOnly(o)
  OBVIOUS
<1> USE DEF TypeOK, NoteOK, ListOK, PaysBack, Waits, ReleaseOnly, SetStatus, PurgeSnapshot,
            Claim, NoCase, rows, money, calls, faults
<1>1. CASE OrderStep(o)
  <2>1. CASE Settle(o)
    BY <2>1 DEF Settle
  <2>2. CASE CancelPending(o)
    BY <2>2 DEF CancelPending
  <2>3. CASE MarkShipped(o)
    BY <2>3 DEF MarkShipped
  <2>4. CASE MarkDelivered(o)
    BY <2>4 DEF MarkDelivered
  <2>5. CASE ConfirmReceipt(o)
    BY <2>5 DEF ConfirmReceipt, EnterHold
  <2>6. CASE ForceRelease(o)
    BY <2>6 DEF ForceRelease
  <2>7. ASSUME NEW c \in Callers, FinalizeEscrow(o, c)
        PROVE  Note /\ List /\ ReleaseOnly(o)
    BY <2>7 DEF FinalizeEscrow, ReleaseToSeller, Callers
  <2> QED
    BY <1>1, <2>1, <2>2, <2>3, <2>4, <2>5, <2>6, <2>7 DEF OrderStep
<1>2. CASE CronStep(o)
  <2>1. CASE AutoConfirm(o)
    BY <2>1 DEF AutoConfirm, EnterHold
  <2>2. CASE ListReleasable(o) \/ ListUnshipped(o)
    BY <2>2 DEF ListReleasable, ListUnshipped, Releasable
  <2>3. CASE RefundUnshipped(o)
    BY <2>3, RefundIsKept DEF RefundUnshipped, AfterRefund
  <2>4. CASE CancelUnshipped(o)
    BY <2>4 DEF CancelUnshipped, ReverseHold
  <2>5. CASE EscalateStuck(o)
    BY <2>5 DEF EscalateStuck
  <2>6. CASE EscalateStaleReturn(o)
    BY <2>6 DEF EscalateStaleReturn, StaleReturn, OpenDisputeForReturn
  <2>7. CASE PollShipment(o)
    BY <2>7 DEF PollShipment, MarkDelivered
  <2>8. CASE PollReturn(o)
    BY <2>8 DEF PollReturn
  <2> QED
    BY <1>2, <2>1, <2>2, <2>3, <2>4, <2>5, <2>6, <2>7, <2>8 DEF CronStep
<1>3. CASE DisputeStep(o)
  <2>1. CASE OpenDispute(o)
    BY <2>1 DEF OpenDispute
  <2>2. CASE ResolveForBuyer(o)
    BY <2>2 DEF ResolveForBuyer, ReverseHold
  <2>3. CASE ResolveForSeller(o)
    BY <2>3 DEF ResolveForSeller, ReleaseToSeller
  <2>4. CASE RefundDispute(o)
    BY <2>4, RefundIsKept DEF RefundDispute
  <2>5. CASE WalletFallback(o)
    BY <2>5 DEF WalletFallback
  <2> QED
    BY <1>3, <2>1, <2>2, <2>3, <2>4, <2>5 DEF DisputeStep
<1>4. CASE ReturnStep(o)
  <2>1. CASE RequestReturn(o)
    BY <2>1 DEF RequestReturn
  <2>2. CASE ApproveReturn(o) \/ ShipReturn(o)
    BY <2>2 DEF ApproveReturn, ShipReturn
  <2>3. CASE RejectReturn(o) \/ InspectReject(o)
    BY <2>3 DEF RejectReturn, InspectReject, OpenDisputeForReturn
  <2>4. CASE InspectApprove(o)
    BY <2>4 DEF InspectApprove, ReverseHold
  <2>5. CASE RefundReturn(o)
    BY <2>5, RefundIsKept DEF RefundReturn
  <2> QED
    BY <1>4, <2>1, <2>2, <2>3, <2>4, <2>5 DEF ReturnStep
<1>5. ASSUME NEW a \in Admins, ForceHoldRead(a, o)
      PROVE  Note /\ List /\ ReleaseOnly(o)
  BY <1>5 DEF ForceHoldRead
<1> QED
  BY <1>1, <1>2, <1>3, <1>4, <1>5

\* A re-hold leaves what the auto-cancel job noted alone.
LEMMA ReholdStep ==
  ASSUME TypeOK, NEW o \in Orders, NEW a \in Admins, ForceHoldWrite(a, o),
         NEW p \in Orders, NoteOK(p)
  PROVE  NoteOK(p)' /\ PaysBack(p)
BY DEF TypeOK, ForceHoldWrite, SetStatus, NoteOK, PaysBack

\* Steps that are about no order, and the passing of a deadline.
LEMMA OtherStep ==
  ASSUME TypeOK, NEW p \in Orders,
         \/ \E o \in Orders, d \in Deadline : Elapse(o, d)
         \/ Crash
         \/ UNCHANGED vars
  PROVE  /\ NoteOK(p) => NoteOK(p)' /\ PaysBack(p)
         /\ ListOK(p) => ListOK(p)' /\ Waits(p)
<1> USE DEF TypeOK, NoteOK, ListOK, PaysBack, Waits, rows, money, calls
<1>1. ASSUME NEW o \in Orders, NEW d \in Deadline, Elapse(o, d)
      PROVE  /\ NoteOK(p) => NoteOK(p)' /\ PaysBack(p)
             /\ ListOK(p) => ListOK(p)' /\ Waits(p)
  BY <1>1 DEF Elapse
<1>2. CASE Crash
  BY <1>2 DEF Crash
<1>3. CASE UNCHANGED vars
  BY <1>3 DEF vars
<1> QED
  BY <1>1, <1>2, <1>3

\* An order that leaves PAID for CANCELLED is paid back in the same step, or
\* was before it: the job's refund at the provider or a credit in the wallet.
THEOREM CancelledPaysBackAlways == Spec => CancelledPaysBack
<1> DEFINE NoteInv == TypeOK /\ \A p \in Orders : NoteOK(p)
           AllPaid == \A o \in Orders :
              status[o] = "PAID" /\ status'[o] = "CANCELLED" =>
                mpRefunded'[o] \/ credits'[o] > 0
<1>1. Init => NoteInv
  BY InitType DEF Init, NoteOK
<1>2. ASSUME NoteInv, [Next]_vars
      PROVE  NoteInv' /\ AllPaid
  <2>1. TypeOK'
    BY <1>2, TypePreserved
  <2>2. ASSUME NEW o \in Orders, NEW p \in Orders,
               \/ OrderStep(o) \/ CronStep(o) \/ DisputeStep(o) \/ ReturnStep(o)
               \/ \E a \in Admins : ForceHoldRead(a, o)
        PROVE  NoteOK(p)' /\ PaysBack(p)
    <3>1. NoteOK(o)' /\ PaysBack(o) /\ ReleaseOnly(o) /\ NoteOK(p)
      BY <1>2, <2>2, ReleaseStep
    <3> QED
      BY <3>1 DEF ReleaseOnly, NoteOK, PaysBack
  <2>3. ASSUME NEW p \in Orders
        PROVE  NoteOK(p)' /\ PaysBack(p)
    <3>1. ASSUME NEW o \in Orders, NEW a \in Admins, ForceHoldWrite(a, o)
          PROVE  NoteOK(p)' /\ PaysBack(p)
      BY <1>2, <3>1, ReholdStep
    <3>2. CASE \/ \E o \in Orders, d \in Deadline : Elapse(o, d)
               \/ Crash
               \/ UNCHANGED vars
      BY <1>2, <3>2, OtherStep
    <3> QED
      BY <1>2, <2>2, <3>1, <3>2 DEF Next, AdminStep
  <2> QED
    BY <2>1, <2>3 DEF PaysBack
<1>3. Spec => [][AllPaid]_vars
  BY <1>1, <1>2, PTL DEF Spec
<1> QED
  BY <1>3 DEF CancelledPaysBack

\* As long as no re-hold is written, no seller is paid by the release job
\* before the hold window of the order has passed: requests, jobs and crashes
\* in any order, and administrators who do anything else.
THEOREM HoldRunsItsCourseAlways ==
  Spec /\ [][\A a \in Admins, o \in Orders : ~ForceHoldWrite(a, o)]_vars
    => HoldRunsItsCourse
<1> DEFINE ListInv == TypeOK /\ \A p \in Orders : ListOK(p)
           NoRehold == \A a \in Admins, o \in Orders : ~ForceHoldWrite(a, o)
           AllWait == \A o \in Orders :
              releasedBrl'[o] > releasedBrl[o] =>
                \/ "hold" \in due[o]
                \/ dispute[o] = "OPEN"
                \/ releasing[o] \ releasing'[o] = {"request"}
<1>1. Init => ListInv
  BY InitType DEF Init, ListOK
<1>2. ASSUME ListInv, [Next]_vars, [NoRehold]_vars
      PROVE  ListInv' /\ AllWait
  <2>1. TypeOK'
    BY <1>2, TypePreserved
  <2>2. ASSUME NEW o \in Orders, NEW p \in Orders,
               \/ OrderStep(o) \/ CronStep(o) \/ DisputeStep(o) \/ ReturnStep(o)
               \/ \E a \in Admins : ForceHoldRead(a, o)
        PROVE  ListOK(p)' /\ Waits(p)
    <3>1. ListOK(o)' /\ Waits(o) /\ ReleaseOnly(o) /\ ListOK(p)
      BY <1>2, <2>2, ReleaseStep
    <3>2. CASE p # o
      <4>1. releasedBrl'[p] = releasedBrl[p] /\ releasedBrl[p] \in Int
        BY <1>2, <3>1, <3>2 DEF ReleaseOnly, TypeOK
      <4> QED
        BY <3>1, <3>2, <4>1 DEF ReleaseOnly, ListOK, Waits
    <3> QED
      BY <3>1, <3>2
  <2>3. ASSUME NEW p \in Orders
        PROVE  ListOK(p)' /\ Waits(p)
    <3>1. CASE \/ \E o \in Orders, d \in Deadline : Elapse(o, d)
               \/ Crash
               \/ UNCHANGED vars
      BY <1>2, <3>1, OtherStep
    <3> QED
      BY <1>2, <2>2, <3>1 DEF Next, AdminStep
  <2> QED
    BY <2>1, <2>3 DEF Waits
<1>3. Spec /\ [][NoRehold]_vars => [][AllWait]_vars
  BY <1>1, <1>2, PTL DEF Spec
<1> QED
  BY <1>3 DEF HoldRunsItsCourse

-----------------------------------------------------------------------------
(* The promise of Custody. A step moves the status of one order, and the   *)
(* ledger with it; so it is enough to say which statuses follow which, and *)
(* when the buyer's wallet is credited.                                    *)

\* A refund after the commit is one of an order that was closed as REFUNDED.
RefundOK(p) ==
  p \notin late /\ refunding[p] \in {"dispute", "fallback"} => status[p] = "REFUNDED"

\* What a step may do to the status and the credits of an order.
Moved(o) ==
  /\ o \in late => o \in late'
  /\ o \in late' /\ o \notin late => status[o] = "COMPLETED"
  /\ o \notin late' =>
       \/ status'[o] = status[o]
       \/ status[o] = "PENDING" /\ status'[o] \in {"PAID", "CANCELLED"}
       \/ /\ status[o] \in Escrowed
          /\ status'[o] \in Escrowed \cup {"COMPLETED", "CANCELLED", "REFUNDED"}
       \/ status[o] = "COMPLETED" /\ status'[o] = "HELD"
  /\ credits'[o] # credits[o] => credits[o] = 0 /\ credits'[o] = 1
  /\ credits'[o] # credits[o] /\ o \notin late' =>
       \/ status[o] \in Escrowed /\ status'[o] \in {"CANCELLED", "REFUNDED"}
       \/ status[o] = "REFUNDED" /\ status'[o] = "REFUNDED"

\* Every step about an order moves it so.
LEMMA MoveStep ==
  ASSUME TypeOK, NEW o \in Orders, OrderOK(o), WalletOK(o), RefundOK(o), OneRehold,
         \/ OrderStep(o) \/ CronStep(o) \/ DisputeStep(o) \/ ReturnStep(o)
         \/ \E a \in Admins : ForceHoldRead(a, o) \/ ForceHoldWrite(a, o)
  PROVE  Moved(o)
<1> USE DEF TypeOK, OrderOK, WalletOK, RefundOK, Moved, Escrowed, ActiveReturn, SetStatus,
            Claim, NoCase, rows, money, calls, faults
<1>1. CASE OrderStep(o)
  <2>1. CASE Settle(o)
    BY <2>1 DEF Settle
  <2>2. CASE CancelPending(o)
    BY <2>2 DEF CancelPending
  <2>3. CASE MarkShipped(o)
    BY <2>3 DEF MarkShipped
  <2>4. CASE MarkDelivered(o)
    BY <2>4 DEF MarkDelivered
  <2>5. CASE ConfirmReceipt(o)
    BY <2>5 DEF ConfirmReceipt, EnterHold
  <2>6. CASE ForceRelease(o)
    BY <2>6 DEF ForceRelease
  <2>7. ASSUME NEW c \in Callers, FinalizeEscrow(o, c)
        PROVE  Moved(o)
    BY <2>7 DEF FinalizeEscrow
  <2> QED
    BY <1>1, <2>1, <2>2, <2>3, <2>4, <2>5, <2>6, <2>7 DEF OrderStep
<1>2. CASE CronStep(o)
  <2>1. CASE AutoConfirm(o)
    BY <2>1 DEF AutoConfirm, EnterHold
  <2>2. CASE ListReleasable(o) \/ ListUnshipped(o)
    BY <2>2 DEF ListReleasable, ListUnshipped
  <2>3. CASE RefundUnshipped(o)
    BY <2>3 DEF RefundUnshipped
  <2>4. CASE CancelUnshipped(o)
    BY <2>4 DEF CancelUnshipped
  <2>5. CASE EscalateStuck(o)
    BY <2>5 DEF EscalateStuck
  <2>6. CASE EscalateStaleReturn(o)
    BY <2>6 DEF EscalateStaleReturn, StaleReturn, OpenDisputeForReturn, MarkLate
  <2>7. CASE PollShipment(o)
    BY <2>7 DEF PollShipment, MarkDelivered
  <2>8. CASE PollReturn(o)
    BY <2>8 DEF PollReturn
  <2> QED
    BY <1>2, <2>1, <2>2, <2>3, <2>4, <2>5, <2>6, <2>7, <2>8 DEF CronStep
<1>3. CASE DisputeStep(o)
  <2>1. CASE OpenDispute(o)
    BY <2>1 DEF OpenDispute
  <2>2. CASE ResolveForBuyer(o)
    BY <2>2 DEF ResolveForBuyer
  <2>3. CASE ResolveForSeller(o)
    BY <2>3 DEF ResolveForSeller
  <2>4. CASE RefundDispute(o)
    BY <2>4 DEF RefundDispute
  <2>5. CASE WalletFallback(o)
    BY <2>5 DEF WalletFallback
  <2> QED
    BY <1>3, <2>1, <2>2, <2>3, <2>4, <2>5 DEF DisputeStep
<1>4. CASE ReturnStep(o)
  <2>1. CASE RequestReturn(o)
    BY <2>1 DEF RequestReturn
  <2>2. CASE ApproveReturn(o) \/ ShipReturn(o)
    BY <2>2 DEF ApproveReturn, ShipReturn
  <2>3. CASE RejectReturn(o) \/ InspectReject(o)
    BY <2>3 DEF RejectReturn, InspectReject, OpenDisputeForReturn, MarkLate
  <2>4. CASE InspectApprove(o)
    BY <2>4 DEF InspectApprove, MarkLate
  <2>5. CASE RefundReturn(o)
    BY <2>5 DEF RefundReturn
  <2> QED
    BY <1>4, <2>1, <2>2, <2>3, <2>4, <2>5 DEF ReturnStep
<1>5. ASSUME NEW a \in Admins, ForceHoldRead(a, o) \/ ForceHoldWrite(a, o)
      PROVE  Moved(o)
  BY <1>5 DEF ForceHoldRead, ForceHoldWrite
<1> QED
  BY <1>1, <1>2, <1>3, <1>4, <1>5

\* And leaves a refund after the commit to an order that is closed as REFUNDED.
LEMMA RefundStep ==
  ASSUME TypeOK, NEW o \in Orders, OrderOK(o), WalletOK(o), RefundOK(o), OneRehold,
         \/ OrderStep(o) \/ CronStep(o) \/ DisputeStep(o) \/ ReturnStep(o)
         \/ \E a \in Admins : ForceHoldRead(a, o) \/ ForceHoldWrite(a, o)
  PROVE  RefundOK(o)'
<1> USE DEF TypeOK, OrderOK, WalletOK, RefundOK, Escrowed, ActiveReturn, SetStatus,
            Claim, NoCase, rows, money, calls, faults
<1>1. CASE OrderStep(o)
  <2>1. CASE Settle(o)
    BY <2>1 DEF Settle
  <2>2. CASE CancelPending(o)
    BY <2>2 DEF CancelPending
  <2>3. CASE MarkShipped(o)
    BY <2>3 DEF MarkShipped
  <2>4. CASE MarkDelivered(o)
    BY <2>4 DEF MarkDelivered
  <2>5. CASE ConfirmReceipt(o)
    BY <2>5 DEF ConfirmReceipt, EnterHold
  <2>6. CASE ForceRelease(o)
    BY <2>6 DEF ForceRelease
  <2>7. ASSUME NEW c \in Callers, FinalizeEscrow(o, c)
        PROVE  RefundOK(o)'
    BY <2>7 DEF FinalizeEscrow
  <2> QED
    BY <1>1, <2>1, <2>2, <2>3, <2>4, <2>5, <2>6, <2>7 DEF OrderStep
<1>2. CASE CronStep(o)
  <2>1. CASE AutoConfirm(o)
    BY <2>1 DEF AutoConfirm, EnterHold
  <2>2. CASE ListReleasable(o) \/ ListUnshipped(o)
    BY <2>2 DEF ListReleasable, ListUnshipped
  <2>3. CASE RefundUnshipped(o)
    BY <2>3 DEF RefundUnshipped
  <2>4. CASE CancelUnshipped(o)
    BY <2>4 DEF CancelUnshipped
  <2>5. CASE EscalateStuck(o)
    BY <2>5 DEF EscalateStuck
  <2>6. CASE EscalateStaleReturn(o)
    BY <2>6 DEF EscalateStaleReturn, StaleReturn, OpenDisputeForReturn, MarkLate
  <2>7. CASE PollShipment(o)
    BY <2>7 DEF PollShipment, MarkDelivered
  <2>8. CASE PollReturn(o)
    BY <2>8 DEF PollReturn
  <2> QED
    BY <1>2, <2>1, <2>2, <2>3, <2>4, <2>5, <2>6, <2>7, <2>8 DEF CronStep
<1>3. CASE DisputeStep(o)
  <2>1. CASE OpenDispute(o)
    BY <2>1 DEF OpenDispute
  <2>2. CASE ResolveForBuyer(o)
    BY <2>2 DEF ResolveForBuyer
  <2>3. CASE ResolveForSeller(o)
    BY <2>3 DEF ResolveForSeller
  <2>4. CASE RefundDispute(o)
    BY <2>4 DEF RefundDispute
  <2>5. CASE WalletFallback(o)
    BY <2>5 DEF WalletFallback
  <2> QED
    BY <1>3, <2>1, <2>2, <2>3, <2>4, <2>5 DEF DisputeStep
<1>4. CASE ReturnStep(o)
  <2>1. CASE RequestReturn(o)
    BY <2>1 DEF RequestReturn
  <2>2. CASE ApproveReturn(o) \/ ShipReturn(o)
    BY <2>2 DEF ApproveReturn, ShipReturn
  <2>3. CASE RejectReturn(o) \/ InspectReject(o)
    BY <2>3 DEF RejectReturn, InspectReject, OpenDisputeForReturn, MarkLate
  <2>4. CASE InspectApprove(o)
    BY <2>4 DEF InspectApprove, MarkLate
  <2>5. CASE RefundReturn(o)
    BY <2>5 DEF RefundReturn
  <2> QED
    BY <1>4, <2>1, <2>2, <2>3, <2>4, <2>5 DEF ReturnStep
<1>5. ASSUME NEW a \in Admins, ForceHoldRead(a, o) \/ ForceHoldWrite(a, o)
      PROVE  RefundOK(o)'
  BY <1>5 DEF ForceHoldRead, ForceHoldWrite
<1> QED
  BY <1>1, <1>2, <1>3, <1>4, <1>5

\* The ledger of an order in order is where its status says.
Placed(p) ==
  /\ p \in late => PlaceOf(p) = "late"
  /\ p \notin late =>
       /\ status[p] \in Escrowed => PlaceOf(p) = "escrow"
       /\ status[p] = "COMPLETED" => PlaceOf(p) = "seller"
       /\ status[p] = "PENDING" => PlaceOf(p) = "buyer"
       /\ status[p] = "CANCELLED" => PlaceOf(p) = "cancelled"
       /\ status[p] = "REFUNDED" => PlaceOf(p) = "refunded"

\* While the ledger matches the status, the one says what the other does.
LEMMA PlaceIs == ASSUME NEW p, OrderOK(p) PROVE Placed(p)
BY DEF OrderOK, Placed, PlaceOf, Unheld, Escrowed

\* In the next state too.
LEMMA PlaceWillBe == ASSUME NEW p, OrderOK(p)' PROVE Placed(p)'
BY DEF OrderOK, Placed, PlaceOf, Unheld, Escrowed

\* A step about an order is one of Custody's about it, or a stutter.
LEMMA PromiseStep ==
  ASSUME TypeOK, TypeOK', NEW o \in Orders, Placed(o), Placed(o)', Moved(o),
         \A p \in Orders \ {o} : PlaceOf(p)' = PlaceOf(p) /\ credits'[p] = credits[p]
  PROVE  [Promise!Next]_<<Place, credits>>
<1>1. /\ Place[o] = PlaceOf(o)
      /\ Place' = [Place EXCEPT ![o] = PlaceOf(o)']
      /\ PlaceOf(o)' = PlaceOf(o) => UNCHANGED Place
  BY DEF Place
<1>2. credits' = [credits EXCEPT ![o] = credits'[o]]
  BY DEF TypeOK
<1>3. UNCHANGED credits \/ Promise!Credited(o)
  <2>1. CASE credits'[o] = credits[o]
    BY <1>2, <2>1 DEF TypeOK
  <2>2. CASE credits'[o] # credits[o]
    BY <1>2, <2>2 DEF Moved, Promise!Credited
  <2> QED BY <2>1, <2>2
<1>4. CASE o \in late
  <2>1. Place[o] = "late" /\ UNCHANGED Place
    BY <1>1, <1>4 DEF Moved, Placed
  <2>2. CASE UNCHANGED credits
    BY <2>1, <2>2
  <2>3. CASE Promise!Credited(o)
    BY <2>1, <2>3 DEF Promise!Next, Promise!CreditLater
  <2> QED BY <1>3, <2>2, <2>3
<1>5. CASE o \notin late /\ o \in late'
  <2>1. Promise!Moves(o, "seller", "late")
    BY <1>1, <1>5 DEF Moved, Placed, Promise!Moves
  <2> QED BY <1>3, <2>1 DEF Promise!Next, Promise!ReturnLate
<1>6. CASE o \notin late /\ o \notin late'
  <2> USE <1>1, <1>6 DEF Moved, Placed
  <2>1. CASE status'[o] = status[o]
    <3>1. UNCHANGED Place
      BY <2>1 DEF TypeOK, OrderStatus, Escrowed
    <3>2. CASE UNCHANGED credits
      BY <3>1, <3>2
    <3>3. CASE Promise!Credited(o)
      <4>1. credits'[o] # credits[o]
        BY <3>3 DEF Promise!Credited, TypeOK
      <4>2. Place[o] = "refunded"
        BY <2>1, <4>1 DEF Escrowed
      <4> QED BY <3>1, <3>3, <4>2 DEF Promise!Next, Promise!CreditLater
    <3> QED BY <1>3, <3>2, <3>3
  <2>2. CASE status[o] = "PENDING" /\ status'[o] \in {"PAID", "CANCELLED"}
    <3>1. UNCHANGED credits
      BY <1>2, <2>2 DEF Escrowed, TypeOK
    <3>2. Promise!Moves(o, "buyer", "escrow") \/ Promise!Moves(o, "buyer", "cancelled")
      BY <2>2 DEF Escrowed, Promise!Moves
    <3> QED BY <3>1, <3>2 DEF Promise!Next, Promise!Hold, Promise!Withdraw
  <2>3. CASE status[o] \in Escrowed /\ status'[o] \in Escrowed \cup {"COMPLETED"}
    <3>1. UNCHANGED credits
      BY <1>2, <2>3 DEF Escrowed, TypeOK
    <3>2. UNCHANGED Place \/ Promise!Moves(o, "escrow", "seller")
      BY <2>3 DEF Promise!Moves
    <3> QED BY <3>1, <3>2 DEF Promise!Next, Promise!Release
  <2>4. CASE status[o] \in Escrowed /\ status'[o] \in {"CANCELLED", "REFUNDED"}
    <3>1. \E closed \in {"cancelled", "refunded"} : Promise!Moves(o, "escrow", closed)
      BY <2>4 DEF Promise!Moves
    <3> QED BY <1>3, <3>1 DEF Promise!Next, Promise!PayBack
  <2>5. CASE status[o] = "COMPLETED" /\ status'[o] = "HELD"
    <3>1. UNCHANGED credits
      BY <1>2, <2>5 DEF Escrowed, TypeOK
    <3>2. Promise!Moves(o, "seller", "escrow")
      BY <2>5 DEF Escrowed, Promise!Moves
    <3> QED BY <3>1, <3>2 DEF Promise!Next, Promise!TakeBack
  <2> QED BY <2>1, <2>2, <2>3, <2>4, <2>5
<1> QED BY <1>4, <1>5, <1>6 DEF Moved

\* As long as no two administrators re-hold the same order at once, the services
\* and their jobs keep the promise of Custody, for any orders and interleavings:
\* the price of an order is in one place, a closed order stays closed, and the
\* buyer is credited once at most and not beside the seller.
THEOREM CustodyKept == Spec /\ []OneRehold => ImplementsCustody
<1> DEFINE Inv == EscrowInv /\ \A p \in Orders : WalletOK(p) /\ RefundOK(p)
<1>1. Init => Inv
  BY EscrowInit, InitType DEF Init, WalletOK, RefundOK
<1>2. Init => Promise!Init
  <2> SUFFICES ASSUME Init PROVE Promise!Init
    OBVIOUS
  <2>1. ASSUME NEW p \in Orders PROVE PlaceOf(p) \in {"buyer", "escrow"}
    <3>1. Placed(p) /\ p \notin late /\ status[p] \in {"PENDING", "PAID"}
      BY EscrowInit, InvByOrder, PlaceIs DEF Init
    <3> QED BY <3>1 DEF Placed, Escrowed
  <2> QED BY <2>1 DEF Promise!Init, Init, Place
<1>3. OneRehold /\ Inv /\ [Next]_vars =>
        Inv' /\ [Promise!Next]_<<Place, credits>>
  <2> SUFFICES ASSUME OneRehold, Inv, [Next]_vars
               PROVE  Inv' /\ [Promise!Next]_<<Place, credits>>
    OBVIOUS
  <2>1. /\ TypeOK /\ TypeOK' /\ EscrowInv'
        /\ \A p \in Orders : OrderOK(p) /\ OrderOK(p)'
    <3>1. EscrowInv'
      BY EscrowInductive
    <3> QED BY <3>1, InvByOrder, InvByOrderNext
  <2>2. \A p \in Orders : Placed(p) /\ Placed(p)'
    BY <2>1, PlaceIs, PlaceWillBe
  <2>3. ASSUME NEW o \in Orders,
               \/ OrderStep(o) \/ CronStep(o) \/ DisputeStep(o) \/ ReturnStep(o)
               \/ \E a \in Admins : ForceHoldRead(a, o) \/ ForceHoldWrite(a, o)
        PROVE  /\ \A p \in Orders : WalletOK(p)' /\ RefundOK(p)'
               /\ [Promise!Next]_<<Place, credits>>
    <3>1. WalletOK(o)' /\ CreditsOnly(o)
      BY <2>1, <2>3, WalletStep
    <3>2. Moved(o) /\ RefundOK(o)'
      BY <2>1, <2>3, MoveStep, RefundStep
    <3>3. TouchesOnly(o)
      BY <2>1, <2>3, OrderStepSafe, CronStepSafe, DisputeStepSafe, ReturnStepSafe,
         ReholdSafe
    <3>4. \A p \in Orders \ {o} : PlaceOf(p)' = PlaceOf(p) /\ credits'[p] = credits[p]
      BY <3>1, <3>3 DEF CreditsOnly, TouchesOnly, PlaceOf
    <3>5. \A p \in Orders : WalletOK(p)' /\ RefundOK(p)'
      BY <3>1, <3>2, <3>3 DEF CreditsOnly, TouchesOnly, WalletOK, RefundOK
    <3> QED BY <2>1, <2>2, <3>2, <3>4, <3>5, PromiseStep
  <2>4. ASSUME \/ \E o \in Orders, d \in Deadline : Elapse(o, d)
               \/ Crash
               \/ UNCHANGED vars
        PROVE  /\ \A p \in Orders : WalletOK(p)' /\ RefundOK(p)'
               /\ UNCHANGED <<Place, credits>>
    <3>1. /\ UNCHANGED <<status, dispute, ret, heldBrl, releasedBrl, credits, late>>
          /\ refunding' = refunding \/ refunding' = [o \in Orders |-> "idle"]
      BY <2>4 DEF Elapse, Crash, vars, rows, money, calls
    <3>2. UNCHANGED Place
      BY <3>1 DEF PlaceOf, Place
    <3>3. \A p \in Orders : WalletOK(p)' /\ RefundOK(p)'
      BY <3>1 DEF WalletOK, RefundOK
    <3> QED BY <3>1, <3>2, <3>3
  <2> QED BY <2>1, <2>3, <2>4 DEF Next, AdminStep
<1> QED
  BY <1>1, <1>2, <1>3, PTL DEF Spec, ImplementsCustody, Promise!Spec
=============================================================================
