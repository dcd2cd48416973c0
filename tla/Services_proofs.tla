-------------------------- MODULE Services_proofs ---------------------------
(***************************************************************************)
(* The services that share no state with one another, side by side         *)
(* (MCServices): for each the invariant of its own, kept by its steps, and *)
(* from all of them together the theorems of the whole. Those of the       *)
(* conversation are proved in Chat_proofs, those of the rows that repeat   *)
(* one another in Rows_proofs; here are the rest, and the composition.     *)
(***************************************************************************)
EXTENDS MCServices, Chat_proofs, Rows_proofs

-----------------------------------------------------------------------------
(* Payouts, for any sellers, requests and amounts and any number of faults *)
(* and crashes.                                                            *)

\* Every step of requestPayout, from the debit on, keeps the types.
LEMMA HandlerType ==
  ASSUME PayoutsTypeOK, NEW p \in Payouts, RequestPayout(p) \/ Handle(p)
  PROVE  PayoutsTypeOK'
<1> USE PayoutsAssumption DEF PayoutsTypeOK, Open, Terminal, SetRequest, Fault
<1>1. CASE RequestPayout(p)
  <2>1. balanceBrl' \in [Users -> Int]
    BY <1>1 DEF RequestPayout
  <2>2. request' \in [Payouts -> {"none"} \cup Open \cup Terminal]
    BY <1>1 DEF RequestPayout
  <2>3. handler' \in [Payouts -> {"idle", "send", "PROCESSING", "COMPLETED", "error"}]
    BY <1>1 DEF RequestPayout
  <2> QED
    BY <1>1, <2>1, <2>2, <2>3 DEF RequestPayout
<1>2. CASE SendUnavailable(p)
  BY <1>2 DEF SendUnavailable
<1>3. CASE SendPayout(p)
  BY <1>3 DEF SendPayout, AsyncStatus
<1>4. CASE SendLost(p)
  BY <1>4 DEF SendLost
<1>5. CASE RecordResult(p)
  BY <1>5 DEF RecordResult, WriteResult
<1>6. CASE ResultLost(p)
  BY <1>6 DEF ResultLost, WriteResult
<1>7. CASE FailAndRefund(p)
  <2>1. CASE IsOpen(p)
    <3>1. balanceBrl' \in [Users -> Int] /\ refunds' \in [Payouts -> Nat]
      BY <1>7, <2>1 DEF FailAndRefund, Refund
    <3>2. request' \in [Payouts -> {"none"} \cup Open \cup Terminal]
      BY <1>7, <2>1 DEF FailAndRefund
    <3>3. handler' \in [Payouts -> {"idle", "send", "PROCESSING", "COMPLETED", "error"}]
      BY <1>7 DEF FailAndRefund
    <3> QED
      BY <1>7, <3>1, <3>2, <3>3 DEF FailAndRefund
  <2>2. CASE ~IsOpen(p)
    BY <1>7, <2>2 DEF FailAndRefund
  <2> QED
    BY <2>1, <2>2
<1>8. CASE FailAndRefundFails(p)
  BY <1>8 DEF FailAndRefundFails
<1> QED
  BY <1>1, <1>2, <1>3, <1>4, <1>5, <1>6, <1>7, <1>8 DEF Handle

\* A step of an administrator about a request.
AdminStep(p) ==
  \/ AdminComplete(p)
  \/ \E a \in Ops : AdminFail(p, a) \/ AdminRefund(p, a) \/ AdminRefundFails(p, a)

\* The administrators' steps keep the types.
LEMMA AdminType ==
  ASSUME PayoutsTypeOK, NEW p \in Payouts, AdminStep(p)
  PROVE  PayoutsTypeOK'
<1> USE PayoutsAssumption DEF PayoutsTypeOK, Open, Terminal, SetRequest, Fault, OnRefund
<1>1. CASE AdminComplete(p)
  BY <1>1 DEF AdminComplete
<1>2. ASSUME NEW a \in Ops, AdminFail(p, a) PROVE PayoutsTypeOK'
  BY <1>2 DEF AdminFail
<1>3. ASSUME NEW a \in Ops, AdminLook(p, a) PROVE PayoutsTypeOK'
  BY <1>3 DEF AdminLook
<1>4. ASSUME NEW a \in Ops, AdminCredit(p, a) PROVE PayoutsTypeOK'
  <2>1. balanceBrl' \in [Users -> Int] /\ refunds' \in [Payouts -> Nat]
    BY <1>4 DEF AdminCredit, Refund
  <2> QED
    BY <1>4, <2>1 DEF AdminCredit
<1>5. ASSUME NEW a \in Ops, AdminRefundFails(p, a) PROVE PayoutsTypeOK'
  BY <1>5 DEF AdminRefundFails
<1> QED
  BY <1>1, <1>2, <1>3, <1>4, <1>5 DEF AdminStep, AdminRefund

\* Every step keeps the types.
LEMMA PayoutsTypeStep ==
  ASSUME PayoutsTypeOK, [PayoutsNext]_payoutVars
  PROVE  PayoutsTypeOK'
<1>1. ASSUME NEW p \in Payouts, TransferEnds(p)
      PROVE  PayoutsTypeOK'
  BY <1>1 DEF TransferEnds, PayoutsTypeOK
<1>2. CASE CrashPayouts
  BY <1>2 DEF CrashPayouts, PayoutsTypeOK
<1>3. CASE UNCHANGED payoutVars
  BY <1>3 DEF payoutVars, PayoutsTypeOK
<1> QED
  BY <1>1, <1>2, <1>3, HandlerType, AdminType, PayoutsAssumption DEF PayoutsNext, AdminStep

\* The types are right in every reachable state.
THEOREM PayoutsTypes == PayoutsSpec => []PayoutsTypeOK
<1>1. PayoutsInit => PayoutsTypeOK
  BY PayoutsAssumption DEF PayoutsInit, PayoutsTypeOK, Open, Terminal
<1> QED
  BY <1>1, PayoutsTypeStep, PTL DEF PayoutsSpec

-----------------------------------------------------------------------------
\* No wallet goes below zero, however many withdrawals race for its balance.
THEOREM NoOverdraftAlways == PayoutsSpec => []NoOverdraft
<1>1. PayoutsInit => NoOverdraft
  BY PayoutsAssumption DEF PayoutsInit, NoOverdraft
<1>2. PayoutsTypeOK /\ NoOverdraft /\ [PayoutsNext]_payoutVars => NoOverdraft'
  <2> SUFFICES ASSUME PayoutsTypeOK, NoOverdraft, [PayoutsNext]_payoutVars, NEW u \in Users
               PROVE  balanceBrl'[u] >= 0
    BY DEF NoOverdraft
  <2>0. balanceBrl[u] \in Int /\ balanceBrl[u] >= 0
    BY DEF PayoutsTypeOK, NoOverdraft
  <2>1. ASSUME NEW p \in Payouts, RequestPayout(p)
        PROVE  balanceBrl'[u] >= 0
    <3>1. Owner[p] \in Users /\ Amount[p] \in Nat
      BY PayoutsAssumption
    <3> QED
      BY <2>0, <2>1, <3>1 DEF RequestPayout, Covered, PayoutsTypeOK
  <2>2. ASSUME NEW p \in Payouts, Refund(p)
        PROVE  balanceBrl'[u] >= 0
    <3>1. Owner[p] \in Users /\ Amount[p] \in Nat
      BY PayoutsAssumption
    <3> QED
      BY <2>0, <2>2, <3>1 DEF Refund, PayoutsTypeOK
  <2>3. CASE UNCHANGED balanceBrl
    BY <2>0, <2>3
  <2>4. ASSUME NEW p \in Payouts, Handle(p)
        PROVE  Refund(p) \/ UNCHANGED balanceBrl
    BY <2>4 DEF Handle, SendUnavailable, SendPayout, SendLost, RecordResult, ResultLost,
                FailAndRefund, FailAndRefundFails
  <2>5. ASSUME NEW p \in Payouts, AdminStep(p)
        PROVE  Refund(p) \/ UNCHANGED balanceBrl
    BY <2>5 DEF AdminStep, AdminComplete, AdminFail, AdminRefund, AdminLook, AdminCredit,
                AdminRefundFails
  <2> QED
    BY <2>1, <2>2, <2>3, <2>4, <2>5, PayoutsAssumption
       DEF PayoutsNext, AdminStep, payoutVars, TransferEnds, CrashPayouts
<1> QED
  BY <1>1, <1>2, PayoutsTypes, PTL DEF PayoutsSpec

-----------------------------------------------------------------------------
(* How often a withdrawal is given back.                                   *)

\* What RefundInv says of one request.
RefundOK(p) ==
  /\ overwritten[p] # "amid" => refunds[p] <= 1
  /\ request[p] = "none" => handler[p] = "idle" /\ overwritten[p] = "no"
  /\ handler[p] \in {"send", "PROCESSING", "COMPLETED"}
       => request[p] # "PROCESSING" /\ overwritten[p] = "no"
  /\ overwritten[p] # "amid" => OneRefunder(p)
  /\ overwritten[p] = "no" => NotOverwritten(p)
  /\ overwritten[p] = "settled" => OpenedLate(p)

\* RefundInv says it of all of them.
LEMMA RefundInvIs == RefundInv <=> PayoutsTypeOK /\ \A p \in Payouts : RefundOK(p)
BY DEF RefundInv, RefundedOnce, RefundOK

\* A step about another request leaves it.
LEMMA RefundOther ==
  ASSUME NEW q \in Payouts, RefundOK(q),
         request'[q] = request[q], refunds'[q] = refunds[q], handler'[q] = handler[q],
         refunding'[q] = refunding[q], overwritten'[q] = overwritten[q]
  PROVE  RefundOK(q)'
BY DEF RefundOK, OneRefunder, Refunders, NotOverwritten, OpenedLate

\* The handler's steps keep it. Only FailAndRefund refunds, and what it finds open
\* was not given back and has nobody else giving it back.
LEMMA HandlerRefundInv ==
  ASSUME PayoutsTypeOK, NEW p \in Payouts, RefundOK(p), RequestPayout(p) \/ Handle(p)
  PROVE  RefundOK(p)'
<1> USE DEF RefundOK, OneRefunder, Refunders, NotOverwritten, OpenedLate, PayoutsTypeOK,
            SetRequest, Fault
<1>1. CASE RequestPayout(p)
  BY <1>1 DEF RequestPayout
<1>2. CASE SendUnavailable(p)
  BY <1>2 DEF SendUnavailable
<1>3. CASE SendPayout(p)
  BY <1>3 DEF SendPayout
<1>4. CASE SendLost(p)
  BY <1>4 DEF SendLost
<1>5. CASE RecordResult(p)
  <2>1. /\ request'[p] = handler[p] /\ handler'[p] = "idle"
        /\ refunds'[p] = refunds[p] /\ refunding'[p] = refunding[p]
        /\ request[p] # "none"
        /\ overwritten'[p] = IF request[p] = "FAILED"
                             THEN IF Refunders(p) = {} THEN "settled" ELSE "amid"
                             ELSE overwritten[p]
    BY <1>5 DEF RecordResult, WriteResult
  <2>2. handler[p] \in {"PROCESSING", "COMPLETED"}
    BY <1>5 DEF RecordResult, WriteResult
  <2>3. CASE request[p] = "FAILED" /\ Refunders(p) = {}
    <3>1. overwritten'[p] = "settled" /\ refunds'[p] <= 1
      BY <2>1, <2>2, <2>3
    <3>2. \A a \in Ops : refunding'[p][a] = "no"
      BY <2>1, <2>3
    <3> QED
      BY <2>1, <2>2, <3>1, <3>2
  <2>4. CASE request[p] = "FAILED" /\ Refunders(p) # {}
    BY <2>1, <2>2, <2>4
  <2>5. CASE request[p] # "FAILED"
    BY <2>1, <2>2, <2>5
  <2> QED
    BY <2>3, <2>4, <2>5
<1>6. CASE ResultLost(p)
  BY <1>6 DEF ResultLost, WriteResult
<1>7. CASE FailAndRefund(p)
  BY <1>7 DEF FailAndRefund, Refund, IsOpen, Open
<1>8. CASE FailAndRefundFails(p)
  BY <1>8 DEF FailAndRefundFails
<1> QED
  BY <1>1, <1>2, <1>3, <1>4, <1>5, <1>6, <1>7, <1>8 DEF Handle

\* The administrators' steps keep it. Who credits has found no refund, and nobody
\* else has one to make meanwhile.
LEMMA AdminRefundInv ==
  ASSUME PayoutsTypeOK, NEW p \in Payouts, RefundOK(p), AdminStep(p)
  PROVE  RefundOK(p)'
<1> USE DEF RefundOK, OneRefunder, Refunders, NotOverwritten, OpenedLate, PayoutsTypeOK,
            SetRequest, Fault, OnRefund
<1>1. CASE AdminComplete(p)
  BY <1>1 DEF AdminComplete, IsOpen, Open
<1>2. ASSUME NEW a \in Ops, AdminFail(p, a) PROVE RefundOK(p)'
  BY <1>2 DEF AdminFail, IsOpen, Open
<1>3. ASSUME NEW a \in Ops, AdminLook(p, a) PROVE RefundOK(p)'
  BY <1>3 DEF AdminLook, ToRefund
<1>4. ASSUME NEW a \in Ops, AdminCredit(p, a) PROVE RefundOK(p)'
  BY <1>4 DEF AdminCredit, Refund
<1>5. ASSUME NEW a \in Ops, AdminRefundFails(p, a) PROVE RefundOK(p)'
  BY <1>5 DEF AdminRefundFails
<1> QED
  BY <1>1, <1>2, <1>3, <1>4, <1>5 DEF AdminStep, AdminRefund

\* Every step about a request leaves what the others have.
LEMMA RefundFrame ==
  ASSUME PayoutsTypeOK, NEW p \in Payouts, NEW q \in Payouts, p # q,
         RequestPayout(p) \/ Handle(p) \/ AdminStep(p) \/ TransferEnds(p)
  PROVE  /\ request'[q] = request[q]
         /\ refunds'[q] = refunds[q]
         /\ handler'[q] = handler[q]
         /\ refunding'[q] = refunding[q]
         /\ overwritten'[q] = overwritten[q]
<1> USE DEF PayoutsTypeOK, SetRequest, OnRefund
<1>1. CASE RequestPayout(p) \/ TransferEnds(p)
  BY <1>1 DEF RequestPayout, TransferEnds
<1>2. CASE Handle(p)
  BY <1>2 DEF Handle, SendUnavailable, SendPayout, SendLost, RecordResult, ResultLost,
              WriteResult, FailAndRefund, FailAndRefundFails, Refund
<1>3. CASE AdminStep(p)
  BY <1>3 DEF AdminStep, AdminComplete, AdminFail, AdminRefund, AdminLook, AdminCredit,
              AdminRefundFails, Refund
<1> QED
  BY <1>1, <1>2, <1>3

\* A withdrawal is given back to the wallet at most once, unless its request was
\* opened again with a refund under way, for any number of administrators.
THEOREM RefundedOnceAlways == PayoutsSpec => []RefundedOnce
<1>1. PayoutsInit => RefundInv
  <2>1. PayoutsInit => PayoutsTypeOK
    BY PayoutsAssumption DEF PayoutsInit, PayoutsTypeOK, Open, Terminal
  <2>2. PayoutsInit => \A p \in Payouts : RefundOK(p)
    BY DEF PayoutsInit, RefundOK, OneRefunder, Refunders, NotOverwritten
  <2> QED
    BY <2>1, <2>2, RefundInvIs
<1>2. RefundInv /\ [PayoutsNext]_payoutVars => RefundInv'
  <2> SUFFICES ASSUME RefundInv, [PayoutsNext]_payoutVars
               PROVE  RefundInv'
    OBVIOUS
  <2>1. PayoutsTypeOK /\ PayoutsTypeOK'
    BY PayoutsTypeStep DEF RefundInv
  <2>2. ASSUME NEW q \in Payouts PROVE RefundOK(q)'
    <3>1. RefundOK(q)
      BY RefundInvIs
    <3>2. ASSUME NEW p \in Payouts,
                 RequestPayout(p) \/ Handle(p) \/ AdminStep(p) \/ TransferEnds(p)
          PROVE  RefundOK(q)'
      <4>1. CASE p # q
        BY <2>1, <3>1, <3>2, <4>1, RefundFrame, RefundOther
      <4>2. CASE p = q /\ TransferEnds(p)
        BY <3>1, <4>2, RefundOther DEF TransferEnds
      <4> QED
        BY <2>1, <3>1, <3>2, <4>1, <4>2, HandlerRefundInv, AdminRefundInv
    <3>3. CASE CrashPayouts
      BY <2>1, <3>1, <3>3
         DEF CrashPayouts, RefundOK, OneRefunder, Refunders, NotOverwritten, OpenedLate
    <3>4. CASE UNCHANGED payoutVars
      BY <3>1, <3>4, RefundOther DEF payoutVars
    <3> QED
      BY <3>2, <3>3, <3>4, PayoutsAssumption DEF PayoutsNext, AdminStep
  <2>3. (\A q \in Payouts : RefundOK(q))'
    BY <2>2
  <2> QED
    BY <2>1, <2>3 DEF RefundInv, RefundedOnce, RefundOK
<1>3. RefundInv => RefundedOnce
  BY DEF RefundInv
<1> QED
  BY <1>1, <1>2, <1>3, PTL DEF PayoutsSpec

-----------------------------------------------------------------------------
(* What the handler gives back by itself.                                  *)

\* Nobody but the handler fails a request that no administrator works on; it
\* does so only from an outcome that, as long as no answer is lost, means that
\* the provider has not taken the transfer.
AutomaticOK(p) ==
  faults = 0 =>
    /\ request[p] = "none" => handler[p] = "idle" /\ transfer[p] = "none"
    /\ request[p] = "none" \/ handler[p] # "idle" => refunds[p] = 0
    /\ handler[p] \in {"send", "error"} => transfer[p] = "none"
    /\ refunds[p] > 0 => request[p] = "FAILED" /\ transfer[p] = "none"

\* Every step about a request keeps that for it, and leaves the others be.
LEMMA AutomaticStep ==
  ASSUME PayoutsTypeOK, NEW p \in Payouts, NEW q \in Payouts \ Reviewed, AutomaticOK(q),
         \/ RequestPayout(p) \/ Handle(p) \/ TransferEnds(p)
         \/ p \in Reviewed /\ AdminStep(p)
  PROVE  AutomaticOK(q)'
<1> USE DEF PayoutsTypeOK, AutomaticOK, SetRequest
<1>1. CASE RequestPayout(p)
  BY <1>1 DEF RequestPayout
<1>2. CASE SendUnavailable(p)
  BY <1>2 DEF SendUnavailable
<1>3. CASE SendPayout(p)
  BY <1>3 DEF SendPayout, AsyncStatus
<1>4. CASE SendLost(p) \/ ResultLost(p) \/ FailAndRefundFails(p)
  BY <1>4 DEF SendLost, ResultLost, FailAndRefundFails, Fault
<1>5. CASE RecordResult(p)
  BY <1>5 DEF RecordResult, WriteResult
<1>6. CASE FailAndRefund(p)
  BY <1>6 DEF FailAndRefund, Refund
<1>7. CASE TransferEnds(p)
  BY <1>7 DEF TransferEnds
<1>8. CASE p \in Reviewed /\ AdminStep(p)
  <2>1. /\ request'[q] = request[q]
        /\ refunds'[q] = refunds[q]
        /\ handler'[q] = handler[q]
    BY <1>8, RefundFrame
  <2>2. UNCHANGED transfer /\ (faults' = 0 => faults = 0)
    BY <1>8 DEF AdminStep, AdminComplete, AdminFail, AdminRefund, AdminLook, AdminCredit,
                AdminRefundFails, Fault
  <2> QED
    BY <2>1, <2>2
<1> QED
  BY <1>1, <1>2, <1>3, <1>4, <1>5, <1>6, <1>7, <1>8 DEF Handle

\* The handler gives back only what failed and the provider never took, as long
\* as no answer is lost.
THEOREM AutomaticRefundAlways == PayoutsSpec => []AutomaticRefundIsRight
<1> DEFINE AInv == PayoutsTypeOK /\ \A q \in Payouts \ Reviewed : AutomaticOK(q)
<1>1. PayoutsInit => AInv
  <2>1. PayoutsInit => PayoutsTypeOK
    BY PayoutsAssumption DEF PayoutsInit, PayoutsTypeOK, Open, Terminal
  <2> QED
    BY <2>1 DEF PayoutsInit, AutomaticOK
<1>2. ASSUME AInv, [PayoutsNext]_payoutVars PROVE AInv'
  <2>1. PayoutsTypeOK'
    BY <1>2, PayoutsTypeStep
  <2>2. ASSUME CrashPayouts, NEW q \in Payouts \ Reviewed
        PROVE  AutomaticOK(q)'
    BY <1>2, <2>2 DEF CrashPayouts, AutomaticOK
  <2>3. ASSUME UNCHANGED payoutVars, NEW q \in Payouts \ Reviewed
        PROVE  AutomaticOK(q)'
    BY <1>2, <2>3 DEF payoutVars, AutomaticOK
  <2> QED
    BY <1>2, <2>1, <2>2, <2>3, AutomaticStep, PayoutsAssumption DEF PayoutsNext, AdminStep
<1>3. AInv => AutomaticRefundIsRight
  BY DEF AutomaticOK, AutomaticRefundIsRight
<1> QED
  BY <1>1, <1>2, <1>3, PTL DEF PayoutsSpec

-----------------------------------------------------------------------------
(* Support: who has stored the answer, and nobody else, tells the user.    *)

Statuses == {"none", "OPEN", "IN_PROGRESS", "RESOLVED"}
TryCalls == [at : {"none", "insert", "move", "won", "tell"}, key : Keys \cup {"none"},
             saw : Statuses, resolved : BOOLEAN]

\* A call of the CRM that has yet to tell the user.
HasToTell(c) == try[c].at \in {"won", "tell"}

SupportInv ==
  /\ {stored, told} \subseteq [Keys -> {0, 1}]
  /\ ticket \in [status : Statuses, resolved : BOOLEAN]
  /\ reply.by \in {"none", "user", "agent"}
  /\ try \in [Tries -> TryCalls]
  /\ \A k \in Keys : told[k] <= stored[k]
  /\ \A c \in Tries : try[c].at # "none" => try[c].key \in Keys /\ try[c].saw # "none"
  /\ \A c \in Tries : HasToTell(c) => stored[try[c].key] = 1 /\ told[try[c].key] = 0
  /\ \A c, d \in Tries : HasToTell(c) /\ HasToTell(d) /\ c # d => try[c].key # try[d].key

\* Every ticket there is has one of the statuses.
LEMMA AllTickets ==
  /\ [status |-> "OPEN", resolved |-> FALSE] \in [status : Statuses, resolved : BOOLEAN]
  /\ [status |-> "RESOLVED", resolved |-> TRUE] \in [status : Statuses, resolved : BOOLEAN]
BY DEF Statuses

\* No answer is given at first.
THEOREM SupportFirst == SupportInit => SupportInv
<1> SUFFICES ASSUME SupportInit PROVE SupportInv
  OBVIOUS
<1>1. NoTry \in TryCalls /\ NoTry.at = "none"
  BY DEF NoTry, TryCalls, Statuses
<1>2. {stored, told} \subseteq [Keys -> {0, 1}] /\ reply.by = "none"
  BY DEF SupportInit, NoReply
<1>3. ticket \in [status : Statuses, resolved : BOOLEAN]
  BY DEF SupportInit, NoTicket, Statuses
<1>4. try \in [Tries -> TryCalls] /\ \A c \in Tries : try[c].at = "none"
  BY <1>1 DEF SupportInit
<1>5. \A k \in Keys : told[k] <= stored[k]
  BY DEF SupportInit
<1> QED BY <1>2, <1>3, <1>4, <1>5 DEF SupportInv, HasToTell

\* A step of the calls under way that stores nothing and tells nobody.
LEMMA TriesGoOn ==
  ASSUME SupportInv, UNCHANGED <<stored, told>>,
         ticket' \in [status : Statuses, resolved : BOOLEAN],
         reply'.by \in {"none", "user", "agent"}, try' \in [Tries -> TryCalls],
         \A c \in Tries :
           /\ try'[c].at # "none" => try'[c].key \in Keys /\ try'[c].saw # "none"
           /\ try'[c].at \in {"won", "tell"} => HasToTell(c) /\ try'[c].key = try[c].key
  PROVE  SupportInv'
BY DEF SupportInv, HasToTell

\* Every step of the CRM, of the user and of the job keeps it.
THEOREM SupportKept == SupportInv /\ [SupportNext]_supportVars => SupportInv'
<1> SUFFICES ASSUME SupportInv, [SupportNext]_supportVars PROVE SupportInv'
  OBVIOUS
<1>1. ASSUME UNCHANGED <<stored, told, try>>,
             ticket' \in [status : Statuses, resolved : BOOLEAN],
             reply'.by \in {"none", "user", "agent"}
      PROVE  SupportInv'
  BY <1>1, TriesGoOn DEF SupportInv, HasToTell
<1>2. CASE OpenTicket \/ ResolveTicket
  <2>1. UNCHANGED <<stored, told, try, reply>>
    BY <1>2 DEF OpenTicket, ResolveTicket
  <2>2. ticket' \in [status : Statuses, resolved : BOOLEAN]
    <3>1. CASE OpenTicket
      BY <3>1, AllTickets DEF OpenTicket
    <3>2. CASE ResolveTicket
      BY <3>2, AllTickets DEF ResolveTicket, Resolved, SupportInv
    <3> QED BY <1>2, <3>1, <3>2
  <2> QED BY <1>1, <2>1, <2>2 DEF SupportInv
<1>3. ASSUME NEW who \in {"user", "agent"}, BeginReply(who) PROVE SupportInv'
  BY <1>1, <1>3 DEF BeginReply, SupportInv
<1>4. CASE EndReply
  <2>1. ticket \in [status : Statuses, resolved : BOOLEAN]
    BY DEF SupportInv
  <2>2. ticket' \in [status : Statuses, resolved : BOOLEAN]
    <3>1. CASE reply.by = "user" /\ reply.saw \in {"RESOLVED", "CLOSED"}
      BY <1>4, <3>1, AllTickets DEF EndReply
    <3>2. CASE reply.by = "user" /\ reply.saw \notin {"RESOLVED", "CLOSED"}
      BY <1>4, <2>1, <3>2 DEF EndReply
    <3>3. CASE reply.by = "agent"
      <4>1. PICK s \in Statuses, r \in BOOLEAN : ticket = [status |-> s, resolved |-> r]
        BY <2>1
      <4> QED BY <1>4, <3>3, <4>1 DEF EndReply, Statuses
    <3> QED BY <1>4, <3>1, <3>2, <3>3 DEF EndReply, SupportInv
  <2> QED BY <1>1, <1>4, <2>2 DEF EndReply, NoReply
<1>5. ASSUME NEW c \in Tries, NEW k \in Keys, BeginTry(c, k) PROVE SupportInv'
  <2> DEFINE next == [at |-> IF stored[k] > 0 THEN "move" ELSE "insert",
                      key |-> k, saw |-> ticket.status, resolved |-> ticket.resolved]
  <2>1. /\ ticket.status # "none" /\ try' = [try EXCEPT ![c] = next]
        /\ UNCHANGED <<stored, told, ticket, reply>>
    BY <1>5 DEF BeginTry
  <2>2. /\ next \in TryCalls /\ next.at \in {"move", "insert"} /\ next.key = k
        /\ next.saw = ticket.status
    BY DEF TryCalls, SupportInv
  <2> HIDE DEF next
  <2>3. /\ try'[c] = next /\ \A d \in Tries \ {c} : try'[d] = try[d]
        /\ try' \in [Tries -> TryCalls]
    BY <2>1, <2>2 DEF SupportInv
  <2> QED BY <2>1, <2>2, <2>3, TriesGoOn DEF SupportInv, HasToTell
<1>6. ASSUME NEW c \in Tries, InsertMessage(c) PROVE SupportInv'
  <2>1. /\ try[c].at = "insert" /\ try[c].key \in Keys /\ try[c].saw # "none"
        /\ try[c] \in TryCalls /\ UNCHANGED <<told, ticket, reply>>
    BY <1>6 DEF InsertMessage, SupportInv
  <2>2. CASE stored[try[c].key] = 0
    <3> DEFINE next == [try[c] EXCEPT !.at = "won"]
    <3>1. next \in TryCalls /\ next.at = "won" /\ next.key = try[c].key /\ next.saw = try[c].saw
      BY <2>1 DEF TryCalls
    <3>2. try' = [try EXCEPT ![c] = next] /\ stored' = [stored EXCEPT ![try[c].key] = 1]
      BY <1>6, <2>2 DEF InsertMessage, SupportInv
    <3> HIDE DEF next
    <3>3. /\ try'[c] = next /\ \A d \in Tries \ {c} : try'[d] = try[d]
          /\ try' \in [Tries -> TryCalls]
          /\ stored' \in [Keys -> {0, 1}] /\ stored'[try[c].key] = 1
          /\ \A k \in Keys \ {try[c].key} : stored'[k] = stored[k]
      BY <2>1, <3>1, <3>2 DEF SupportInv
    <3>4. told[try[c].key] = 0 /\ \A d \in Tries : HasToTell(d) => try[d].key # try[c].key
      BY <2>1, <2>2 DEF SupportInv
    <3>5. \A d \in Tries \ {c} : HasToTell(d)' = HasToTell(d)
      BY <3>3 DEF HasToTell
    <3>6. \A k \in Keys : told'[k] <= stored'[k]
      BY <2>1, <3>3, <3>4 DEF SupportInv
    <3>7. \A d \in Tries : HasToTell(d)' => stored'[try'[d].key] = 1 /\ told'[try'[d].key] = 0
      BY <2>1, <3>1, <3>3, <3>4, <3>5 DEF SupportInv, HasToTell
    <3>8. \A d, e \in Tries : HasToTell(d)' /\ HasToTell(e)' /\ d # e => try'[d].key # try'[e].key
      BY <2>1, <3>1, <3>3, <3>4, <3>5 DEF SupportInv
    <3>9. \A d \in Tries : try'[d].at # "none" => try'[d].key \in Keys /\ try'[d].saw # "none"
      BY <2>1, <3>1, <3>3 DEF SupportInv
    <3> QED BY <2>1, <3>3, <3>6, <3>7, <3>8, <3>9 DEF SupportInv
  <2>3. CASE stored[try[c].key] # 0
    <3> DEFINE next == [try[c] EXCEPT !.at = "move"]
    <3>1. next \in TryCalls /\ next.at = "move" /\ next.key = try[c].key /\ next.saw = try[c].saw
      BY <2>1 DEF TryCalls
    <3>2. try' = [try EXCEPT ![c] = next] /\ stored' = stored
      BY <1>6, <2>3 DEF InsertMessage, SupportInv
    <3> HIDE DEF next
    <3>3. /\ try'[c] = next /\ \A d \in Tries \ {c} : try'[d] = try[d]
          /\ try' \in [Tries -> TryCalls]
      BY <3>1, <3>2 DEF SupportInv
    <3> QED BY <2>1, <3>1, <3>2, <3>3, TriesGoOn DEF SupportInv, HasToTell
  <2> QED BY <2>2, <2>3
<1>7. ASSUME NEW c \in Tries, MoveTicket(c) PROVE SupportInv'
  <2>1. /\ try[c].at \in {"won", "move"} /\ try[c].key \in Keys /\ try[c].saw # "none"
        /\ try[c] \in TryCalls /\ UNCHANGED <<stored, told, reply>>
        /\ ticket \in [status : Statuses, resolved : BOOLEAN]
    BY <1>7 DEF MoveTicket, SupportInv
  <2> DEFINE next == [try[c] EXCEPT !.at = "tell"]
  <2>2. NoTry \in TryCalls /\ NoTry.at = "none"
    BY DEF NoTry, TryCalls, Statuses
  <2>3. next \in TryCalls /\ next.at = "tell" /\ next.key = try[c].key /\ next.saw = try[c].saw
    BY <2>1 DEF TryCalls
  <2>4. \/ try' = [try EXCEPT ![c] = NoTry]
        \/ try[c].at = "won" /\ try' = [try EXCEPT ![c] = next]
    BY <1>7 DEF MoveTicket, MayTell, SupportInv
  <2> HIDE DEF next
  <2>5. ticket' \in [status : Statuses, resolved : BOOLEAN]
    <3>1. CASE try[c].key \in Resolving
      <4>1. ticket' = Resolved(ticket, try[c].resolved)
        BY <1>7, <3>1 DEF MoveTicket
      <4> QED BY <2>1, <4>1, AllTickets DEF Resolved
    <3>2. CASE try[c].key \notin Resolving
      <4>1. ticket' = Moved(ticket, try[c].saw)
        BY <1>7, <3>2 DEF MoveTicket
      <4>2. try[c].saw \in {"OPEN", "IN_PROGRESS", "RESOLVED"}
        BY <2>1 DEF TryCalls, Statuses
      <4>3. CASE try[c].saw = "OPEN"
        BY <2>1, <4>1, <4>3 DEF Moved, Statuses
      <4>4. CASE try[c].saw = "IN_PROGRESS"
        BY <2>1, <4>1, <4>4 DEF Moved
      <4>5. CASE try[c].saw = "RESOLVED"
        BY <4>1, <4>5 DEF Moved, Statuses
      <4> QED BY <4>2, <4>3, <4>4, <4>5
    <3> QED BY <3>1, <3>2
  <2>6. \A d \in Tries \ {c} : try'[d] = try[d]
    BY <2>4 DEF SupportInv
  <2>7. try'[c] = NoTry \/ (try[c].at = "won" /\ try'[c] = next)
    BY <2>4 DEF SupportInv
  <2>8. try' \in [Tries -> TryCalls]
    BY <2>2, <2>3, <2>4 DEF SupportInv
  <2> QED BY <2>1, <2>2, <2>3, <2>5, <2>6, <2>7, <2>8, TriesGoOn DEF SupportInv, HasToTell
<1>8. ASSUME NEW c \in Tries, TellUser(c) PROVE SupportInv'
  <2> DEFINE k == try[c].key
  <2>1. /\ HasToTell(c) /\ k \in Keys /\ stored[k] = 1 /\ told[k] = 0
        /\ told' = [told EXCEPT ![k] = @ + 1] /\ try' = [try EXCEPT ![c] = NoTry]
        /\ UNCHANGED <<stored, ticket, reply>>
    BY <1>8 DEF TellUser, SupportInv, HasToTell
  <2>2. NoTry \in TryCalls /\ NoTry.at = "none"
    BY DEF NoTry, TryCalls, Statuses
  <2>3. \A d \in Tries \ {c} : HasToTell(d) => try[d].key # k
    BY <2>1 DEF SupportInv
  <2> HIDE DEF k
  <2>4. /\ try'[c] = NoTry /\ \A d \in Tries \ {c} : try'[d] = try[d]
        /\ try' \in [Tries -> TryCalls]
        /\ told' \in [Keys -> {0, 1}] /\ told'[k] = 1
        /\ \A j \in Keys \ {k} : told'[j] = told[j]
    BY <2>1, <2>2 DEF SupportInv
  <2>5. ~HasToTell(c)' /\ \A d \in Tries \ {c} : HasToTell(d)' = HasToTell(d)
    BY <2>2, <2>4 DEF HasToTell
  <2>6. \A j \in Keys : told'[j] <= stored'[j]
    BY <2>1, <2>4 DEF SupportInv
  <2>7. \A d \in Tries : HasToTell(d)' => stored'[try'[d].key] = 1 /\ told'[try'[d].key] = 0
    BY <2>1, <2>3, <2>4, <2>5 DEF SupportInv, HasToTell
  <2>8. \A d, e \in Tries : HasToTell(d)' /\ HasToTell(e)' /\ d # e => try'[d].key # try'[e].key
    BY <2>4, <2>5 DEF SupportInv
  <2>9. \A d \in Tries : try'[d].at # "none" => try'[d].key \in Keys /\ try'[d].saw # "none"
    BY <2>2, <2>4 DEF SupportInv
  <2> QED BY <2>1, <2>4, <2>6, <2>7, <2>8, <2>9 DEF SupportInv
<1>9. ASSUME NEW e, Deliver(e) \/ FailWebhook(e) PROVE SupportInv'
  BY <1>1, <1>9 DEF Deliver, FailWebhook, SupportInv
<1>10. CASE CrashSupport
  <2>1. /\ UNCHANGED <<stored, told, ticket>> /\ reply' = NoReply
        /\ try' = [c \in Tries |-> NoTry]
    BY <1>10 DEF CrashSupport
  <2>2. NoTry \in TryCalls /\ NoTry.at = "none" /\ NoReply.by = "none"
    BY DEF NoTry, TryCalls, Statuses, NoReply
  <2>3. try' \in [Tries -> TryCalls] /\ \A c \in Tries : try'[c].at = "none"
    BY <2>1, <2>2
  <2> QED BY <2>1, <2>2, <2>3, TriesGoOn DEF SupportInv
<1>11. CASE Reconcile
  BY <1>1, <1>11 DEF Reconcile, SupportInv
<1>12. CASE UNCHANGED supportVars
  BY <1>1, <1>12 DEF supportVars, SupportInv
<1> QED BY <1>2, <1>3, <1>4, <1>5, <1>6, <1>7, <1>8, <1>9, <1>10, <1>11, <1>12 DEF SupportNext

\* A stored answer is told at most once (AnsweredOnce).
LEMMA SupportThen == SupportInv => AnsweredOnce
BY DEF SupportInv, AnsweredOnce

-----------------------------------------------------------------------------
(* Tracking: the update of a parcel asks whether it is still SHIPPED.      *)

PollInv == stamps \in [Goods \cup Backs -> {0, 1}]

\* No parcel has arrived at first.
THEOREM PollFirst == PollInit => PollInv
BY DEF PollInit, PollInv

\* Whoever stamps a parcel, and as often as he likes.
LEMMA StampKeeps == ASSUME PollInv, NEW p, Stamp(p) PROVE PollInv'
<1>1. CASE p \in Goods \cup Backs /\ Unclaimed(p)
  <2>1. stamps[p] = 0 /\ stamps' = [stamps EXCEPT ![p] = stamps[p] + 1]
    BY <1>1 DEF Stamp, Unclaimed, Shipped
  <2>2. stamps' = [stamps EXCEPT ![p] = 1]
    BY <2>1
  <2> QED BY <2>2 DEF PollInv
<1>2. CASE p \notin Goods \cup Backs
  <2>1. [stamps EXCEPT ![p] = @ + 1] = stamps
    BY <1>2 DEF PollInv
  <2> QED BY <2>1 DEF PollInv, Stamp
<1>3. CASE ~Unclaimed(p)
  BY <1>3 DEF PollInv, Stamp
<1> QED BY <1>1, <1>2, <1>3

\* Every step of the instances and of the buyer keeps it.
THEOREM PollKept == PollInv /\ [PollNext]_pollVars => PollInv'
<1> SUFFICES ASSUME PollInv, [PollNext]_pollVars PROVE PollInv'
  OBVIOUS
<1>1. ASSUME UNCHANGED stamps PROVE PollInv'
  BY <1>1 DEF PollInv
<1>2. ASSUME NEW p, Send(p) \/ Arrive(p) \/ GrowOld(p) PROVE PollInv'
  BY <1>1, <1>2 DEF Send, Arrive, GrowOld
<1>3. ASSUME NEW p, BuyerConfirms(p) PROVE PollInv'
  BY <1>3, StampKeeps DEF BuyerConfirms
<1>4. ASSUME NEW h, Claim(h) PROVE PollInv'
  BY <1>4, StampKeeps DEF Claim
<1>5. ASSUME NEW h, Tick(h) \/ TickUnlocked(h) \/ Ask(h) \/ AskFails(h) PROVE PollInv'
  BY <1>1, <1>5 DEF Tick, TickUnlocked, Ask, AskFails
<1>6. ASSUME NEW h, BeginReturns(h) \/ EndTick(h) \/ HostDies(h) PROVE PollInv'
  BY <1>1, <1>6 DEF BeginReturns, EndTick, HostDies
<1>7. CASE Lapse \/ UNCHANGED pollVars
  BY <1>1, <1>7 DEF Lapse, pollVars
<1> QED BY <1>2, <1>3, <1>4, <1>5, <1>6, <1>7 DEF PollNext

\* A delivery is written once (StampedOnce).
LEMMA PollThen == PollInv => StampedOnce
BY DEF PollInv, StampedOnce

-----------------------------------------------------------------------------
(* Identity: a key is entered for an event before the event is applied.    *)

Sayings == Decisions \cup {"MANUAL_REVIEW", "none"}
Approval(s) == [of |-> s, says |-> "APPROVED"]

IdentityInv ==
  /\ applied \in [CafEvents -> {0, 1}]
  /\ hook \subseteq CafEvents
  /\ decision \in [CafEvents -> [of : CafSessions \cup {"none"}, says : Sayings]]
  /\ session \in [CafSessions -> {"none", "PENDING", "REJECTED"} \cup Decisions]
  /\ \A e \in CafEvents : decision[e].of = "none" => decision[e].says = "none"
  /\ \A e \in CafEvents : e \in hook \/ applied[e] = 1 =>
       decision[e].of # "none" /\ KeyOf(e) \in hooked
  /\ \A e \in hook : applied[e] = 0
  /\ \A s \in CafSessions : session[s] = "APPROVED" =>
       \E e \in CafEvents : decision[e] = Approval(s)
  /\ verified => logs # {}
  /\ "CAF" \in logs => \E e \in CafEvents : decision[e].says = "APPROVED"

\* Nobody has asked anybody at first.
THEOREM IdentityFirst == IdentityInit => IdentityInv
<1> SUFFICES ASSUME IdentityInit PROVE IdentityInv
  OBVIOUS
<1>1. [of |-> "none", says |-> "none"] \in [of : CafSessions \cup {"none"}, says : Sayings]
  BY DEF Sayings
<1>2. decision \in [CafEvents -> [of : CafSessions \cup {"none"}, says : Sayings]]
  BY <1>1 DEF IdentityInit
<1>3. \A e \in CafEvents : decision[e].says = "none"
  BY DEF IdentityInit
<1>4. applied \in [CafEvents -> {0, 1}] /\ \A e \in CafEvents : applied[e] = 0
  BY DEF IdentityInit
<1>5. /\ session \in [CafSessions -> {"none", "PENDING", "REJECTED"} \cup Decisions]
      /\ \A s \in CafSessions : session[s] = "none"
  BY DEF IdentityInit
<1>6. hook = {} /\ logs = {} /\ ~verified
  BY DEF IdentityInit
<1> QED BY <1>2, <1>3, <1>4, <1>5, <1>6 DEF IdentityInv

\* A step of the user or of Serpro, and a death: Caf's part is as it was, but
\* that what was under way may be gone.
LEMMA CafUntouched ==
  ASSUME IdentityInv, UNCHANGED <<session, decision, hooked, applied>>, hook' \subseteq hook,
         \/ UNCHANGED <<verified, logs>>
         \/ verified' /\ logs' = logs \cup {"SERPRO"}
  PROVE  IdentityInv'
<1>1. verified' => logs' # {}
  BY DEF IdentityInv
<1>2. "CAF" \in logs' => "CAF" \in logs
  OBVIOUS
<1>3. \A e \in CafEvents : e \in hook' \/ applied'[e] = 1 =>
        decision'[e].of # "none" /\ KeyOf(e)' \in hooked'
  BY DEF IdentityInv, KeyOf
<1> QED BY <1>1, <1>2, <1>3 DEF IdentityInv

\* Every step of the user, of Serpro and of Caf keeps it.
THEOREM IdentityKept == IdentityInv /\ [IdentityNext]_identityVars => IdentityInv'
<1> SUFFICES ASSUME IdentityInv, [IdentityNext]_identityVars PROVE IdentityInv'
  OBVIOUS
<1>1. CASE SetCpf \/ ForgetCpf
  BY <1>1, CafUntouched DEF SetCpf, ForgetCpf, cafVars
<1>2. ASSUME NEW answer, AskSerpro(answer) PROVE IdentityInv'
  BY <1>2, CafUntouched DEF AskSerpro, cafVars
<1>3. CASE EndSerpro
  <2>1. UNCHANGED <<session, decision, hooked, applied, hook>>
    BY <1>3 DEF EndSerpro, cafVars
  <2>2. UNCHANGED <<verified, logs>> \/ (verified' /\ logs' = logs \cup {"SERPRO"})
    BY <1>3 DEF EndSerpro
  <2> QED BY <2>1, <2>2, CafUntouched
<1>4. CASE IdentityDies
  <2>1. UNCHANGED <<session, decision, hooked, applied, verified, logs>> /\ hook' = {}
    BY <1>4 DEF IdentityDies
  <2> QED BY <2>1, CafUntouched
<1>5. ASSUME NEW s \in CafSessions, OpenSession(s) PROVE IdentityInv'
  <2>1. /\ session' = [session EXCEPT ![s] = "PENDING"]
        /\ UNCHANGED <<verified, logs, decision, hooked, hook, applied>>
    BY <1>5 DEF OpenSession
  <2>2. session' \in [CafSessions -> {"none", "PENDING", "REJECTED"} \cup Decisions]
    BY <2>1 DEF IdentityInv
  <2>3. \A t \in CafSessions : session'[t] = "APPROVED" => session[t] = "APPROVED"
    BY <2>1 DEF IdentityInv
  <2>4. \A e \in CafEvents : KeyOf(e)' = KeyOf(e)
    BY <2>1 DEF KeyOf
  <2> QED BY <2>1, <2>2, <2>3, <2>4 DEF IdentityInv
<1>6. ASSUME NEW e \in CafEvents, NEW s \in CafSessions,
             NEW d \in Decisions \cup {"MANUAL_REVIEW"}, Decide(e, s, d)
      PROVE  IdentityInv'
  <2> DEFINE new == [of |-> s, says |-> d]
  <2>1. /\ decision[e].of = "none" /\ decision' = [decision EXCEPT ![e] = new]
        /\ UNCHANGED <<verified, logs, session, hooked, hook, applied>>
    BY <1>6 DEF Decide
  <2>2. /\ new \in [of : CafSessions \cup {"none"}, says : Sayings]
        /\ new.of # "none"
    BY IdentityAssumption DEF Sayings
  <2> HIDE DEF new
  <2>3. /\ decision' \in [CafEvents -> [of : CafSessions \cup {"none"}, says : Sayings]]
        /\ decision'[e] = new /\ \A f \in CafEvents \ {e} : decision'[f] = decision[f]
    BY <2>1, <2>2 DEF IdentityInv
  <2>4. decision[e].says = "none" /\ e \notin hook /\ applied[e] # 1
    BY <2>1 DEF IdentityInv
  <2>5. \A f \in CafEvents \ {e} : KeyOf(f)' = KeyOf(f)
    BY <2>1, <2>3 DEF KeyOf
  <2>6. \A f \in CafEvents : f \in hook' \/ applied'[f] = 1 =>
          decision'[f].of # "none" /\ KeyOf(f)' \in hooked'
    BY <2>1, <2>3, <2>4, <2>5 DEF IdentityInv
  <2>7. \A t \in CafSessions : session'[t] = "APPROVED" =>
          \E f \in CafEvents : decision'[f] = Approval(t)
    <3> SUFFICES ASSUME NEW t \in CafSessions, session'[t] = "APPROVED"
                 PROVE  \E f \in CafEvents : decision'[f] = Approval(t)
      OBVIOUS
    <3>1. PICK f \in CafEvents : decision[f] = Approval(t)
      BY <2>1 DEF IdentityInv
    <3>2. f # e
      BY <2>4, <3>1 DEF Approval
    <3> QED BY <2>3, <3>1, <3>2
  <2>8. "CAF" \in logs' => \E f \in CafEvents : decision'[f].says = "APPROVED"
    <3> SUFFICES ASSUME "CAF" \in logs PROVE \E f \in CafEvents : decision'[f].says = "APPROVED"
      BY <2>1
    <3>1. PICK f \in CafEvents : decision[f].says = "APPROVED"
      BY DEF IdentityInv
    <3> QED BY <2>3, <2>4, <3>1
  <2>9. \A f \in CafEvents : decision'[f].of = "none" => decision'[f].says = "none"
    BY <2>2, <2>3 DEF IdentityInv
  <2> QED BY <2>1, <2>3, <2>6, <2>7, <2>8, <2>9 DEF IdentityInv
<1>7. ASSUME NEW e \in CafEvents, EnterHook(e) PROVE IdentityInv'
  <2>1. /\ decision[e].of # "none" /\ KeyOf(e) \notin hooked
        /\ hooked' = hooked \cup {KeyOf(e)} /\ hook' = hook \cup {e}
        /\ UNCHANGED <<verified, logs, session, decision, applied>>
    BY <1>7 DEF EnterHook
  <2>2. \A f \in CafEvents : KeyOf(f)' = KeyOf(f)
    BY <2>1 DEF KeyOf
  <2>3. applied[e] = 0
    BY <2>1 DEF IdentityInv
  <2>4. \A f \in CafEvents : f \in hook' \/ applied'[f] = 1 =>
          decision'[f].of # "none" /\ KeyOf(f)' \in hooked'
    BY <2>1, <2>2 DEF IdentityInv
  <2>5. hook' \subseteq CafEvents /\ \A f \in hook' : applied'[f] = 0
    BY <2>1, <2>3 DEF IdentityInv
  <2> QED BY <2>1, <2>4, <2>5 DEF IdentityInv
<1>8. ASSUME NEW e \in CafEvents, ApplyHook(e) PROVE IdentityInv'
  <2> DEFINE s == decision[e].of
             d == decision[e].says
  <2>1. /\ e \in hook /\ hook' = hook \ {e} /\ applied' = [applied EXCEPT ![e] = @ + 1]
        /\ session' = [session EXCEPT ![s] = Normalised(d)]
        /\ UNCHANGED <<decision, hooked>>
    BY <1>8 DEF ApplyHook
  <2>2. IF Normalised(d) = "APPROVED" THEN verified' /\ logs' = logs \cup {"CAF"}
                                      ELSE UNCHANGED <<verified, logs>>
    BY <1>8 DEF ApplyHook
  <2>3. /\ s \in CafSessions /\ KeyOf(e) \in hooked /\ applied[e] = 0
        /\ decision[e] \in [of : CafSessions \cup {"none"}, says : Sayings]
    BY <2>1 DEF IdentityInv
  <2>4. Normalised(d) = "APPROVED" => decision[e] = Approval(s) /\ d = "APPROVED"
    BY <2>3 DEF Normalised, Approval
  <2>5. Normalised(d) \in {"REJECTED"} \cup Decisions
    BY DEF Normalised, Decisions
  <2> HIDE DEF s
  <2>6. /\ applied' \in [CafEvents -> {0, 1}] /\ applied'[e] = 1
        /\ \A f \in CafEvents \ {e} : applied'[f] = applied[f]
    BY <2>1, <2>3 DEF IdentityInv
  <2>7. /\ session' \in [CafSessions -> {"none", "PENDING", "REJECTED"} \cup Decisions]
        /\ session'[s] = Normalised(d)
        /\ \A t \in CafSessions \ {s} : session'[t] = session[t]
    BY <2>1, <2>3, <2>5 DEF IdentityInv
  <2>8. \A f \in CafEvents : KeyOf(f)' = KeyOf(f)
    BY <2>1 DEF KeyOf
  <2>9. \A f \in CafEvents : f \in hook' \/ applied'[f] = 1 =>
          decision'[f].of # "none" /\ KeyOf(f)' \in hooked'
    BY <2>1, <2>6, <2>8 DEF IdentityInv
  <2>10. hook' \subseteq CafEvents /\ \A f \in hook' : applied'[f] = 0
    BY <2>1, <2>6 DEF IdentityInv
  <2>11. \A t \in CafSessions : session'[t] = "APPROVED" =>
           \E f \in CafEvents : decision'[f] = Approval(t)
    BY <2>1, <2>4, <2>7 DEF IdentityInv
  <2>12. /\ verified' => logs' # {}
         /\ "CAF" \in logs' => \E f \in CafEvents : decision'[f].says = "APPROVED"
    BY <2>1, <2>2, <2>4 DEF IdentityInv
  <2> QED BY <2>1, <2>6, <2>7, <2>9, <2>10, <2>11, <2>12 DEF IdentityInv
<1>9. CASE UNCHANGED identityVars
  BY <1>9, CafUntouched DEF identityVars
<1> QED BY <1>1, <1>2, <1>3, <1>4, <1>5, <1>6, <1>7, <1>8, <1>9 DEF IdentityNext

\* Nothing is believed that no provider has said (VerifiedByProvider).
LEMMA IdentityThen == IdentityInv => VerifiedByProvider
BY DEF IdentityInv, VerifiedByProvider, Approval

-----------------------------------------------------------------------------
(* NotaFiscal: what was told once has been settled ever since.             *)

SettledSays == {"autorizado", "rejeitado", "cancelado"}
Documents == {"none", "processando"} \cup SettledSays
Asks == [at : {"idle", "call", "store"}, left : Int, told : Documents]

\* What was heard of the document still holds of it.
Heard(s) == IF s \in SettledSays THEN issued \in SettledSays ELSE s = "processando" /\ issued # "none"

NfeInv ==
  /\ issued \in Documents
  /\ rows \in {0, 1}
  /\ invoice \in {"none", "PENDING", "AUTHORIZED", "REJECTED"}
  /\ invoice = "PENDING" => issued # "none"
  /\ invoice \in {"AUTHORIZED", "REJECTED"} => issued \in SettledSays
  /\ ask \in [Askers -> Asks]
  /\ \A a \in Askers : ask[a].at = "store" => Heard(ask[a].told)
  /\ poll # "idle" => Heard(poll)

\* There is no invoice at first.
THEOREM NfeFirst == NfeInit => NfeInv
<1>1. NoAsk \in Asks /\ NoAsk.at = "idle"
  BY NotaFiscalAssumption DEF NoAsk, Asks, Documents
<1> QED BY <1>1 DEF NfeInit, NfeInv, Documents

\* A document that is known of, or settled, stays so.
LEMMA StillHeard ==
  ASSUME issued \in Documents, issued' \in Documents,
         issued # "none" => issued' # "none",
         issued \in SettledSays => issued' \in SettledSays
  PROVE  \A s : Heard(s) => Heard(s)'
BY DEF Heard

\* A step that writes no invoice, and hears of none but the document.
LEMMA NobodyWrites ==
  ASSUME NfeInv, UNCHANGED <<invoice, rows>>, issued' \in Documents,
         issued # "none" => issued' # "none",
         issued \in SettledSays => issued' \in SettledSays,
         ask' \in [Askers -> Asks],
         \A a \in Askers : ask'[a].at = "store" =>
           \/ ask[a].at = "store" /\ ask'[a].told = ask[a].told
           \/ issued' # "none" /\ ask'[a].told = issued',
         poll' = poll \/ poll' = "idle" \/ (issued' # "none" /\ poll' = issued')
  PROVE  NfeInv'
<1>1. \A s : Heard(s) => Heard(s)'
  BY StillHeard DEF NfeInv
<1>2. issued' # "none" => Heard(issued)'
  BY DEF Heard, Documents
<1>3. \A a \in Askers : ask'[a].at = "store" => Heard(ask[a].told)'
  <2> SUFFICES ASSUME NEW a \in Askers, ask'[a].at = "store" PROVE Heard(ask[a].told)'
    OBVIOUS
  <2>1. CASE ask[a].at = "store" /\ ask'[a].told = ask[a].told
    BY <2>1, <1>1 DEF NfeInv, Heard
  <2>2. CASE issued' # "none" /\ ask'[a].told = issued'
    BY <2>2, <1>2 DEF Heard
  <2> QED BY <2>1, <2>2
<1>4. poll' # "idle" => Heard(poll)'
  BY <1>1, <1>2 DEF NfeInv, Heard
<1> QED BY <1>3, <1>4 DEF NfeInv

\* What is written is what was heard.
LEMMA WritesHeard ==
  ASSUME NEW s, Heard(s)
  PROVE  /\ StatusOf(s) \in {"PENDING", "AUTHORIZED", "REJECTED"}
         /\ issued # "none"
         /\ StatusOf(s) # "PENDING" => issued \in SettledSays
<1>1. CASE s = "autorizado"
  BY <1>1 DEF Heard, StatusOf, SettledSays
<1>2. CASE s \in {"rejeitado", "cancelado"}
  BY <1>2 DEF Heard, StatusOf, SettledSays
<1>3. CASE s = "processando"
  BY <1>3 DEF Heard, StatusOf, SettledSays
<1> QED BY <1>1, <1>2, <1>3 DEF Heard, SettledSays

\* Every step of the askers, of the provider and of the job keeps it.
THEOREM NfeKept == NfeInv /\ [NfeNext]_nfeVars => NfeInv'
<1> SUFFICES ASSUME NfeInv, [NfeNext]_nfeVars PROVE NfeInv'
  OBVIOUS
<1>1. NoAsk \in Asks /\ NoAsk.at = "idle"
  BY NotaFiscalAssumption DEF NoAsk, Asks, Documents
<1>2. issued \in Documents /\ ask \in [Askers -> Asks]
  BY DEF NfeInv
<1>3. CASE Settles
  <2>1. /\ issued' \in Documents
        /\ issued # "none" => issued' # "none"
        /\ issued \in SettledSays => issued' \in SettledSays
        /\ UNCHANGED <<invoice, rows, ask, poll>>
    BY <1>3 DEF Settles, Documents, SettledSays
  <2> QED BY <2>1, <1>2, NobodyWrites
<1>4. CASE PollInvoice
  <2>1. issued # "none" /\ poll' = issued /\ UNCHANGED <<issued, invoice, rows, ask>>
    BY <1>4 DEF PollInvoice, NfeInv
  <2> QED BY <2>1, <1>2, NobodyWrites
<1>5. CASE EndPoll
  <2>1. /\ Heard(poll) /\ poll' = "idle" /\ UNCHANGED <<issued, rows, ask>>
        /\ invoice' = IF StatusOf(poll) # "PENDING" THEN StatusOf(poll) ELSE invoice
    BY <1>5 DEF EndPoll, NfeInv
  <2>2. /\ invoice' \in {"none", "PENDING", "AUTHORIZED", "REJECTED"}
        /\ invoice' \in {"AUTHORIZED", "REJECTED"} => issued \in SettledSays
        /\ invoice' = "PENDING" => issued # "none"
    BY <2>1, WritesHeard DEF NfeInv
  <2>3. \A a \in Askers : ask'[a].at = "store" => Heard(ask[a].told)'
    BY <2>1 DEF NfeInv, Heard
  <2> QED BY <2>1, <2>2, <2>3 DEF NfeInv
<1>6. CASE PollFails
  <2>1. poll' = "idle" /\ UNCHANGED <<issued, invoice, rows, ask>>
    BY <1>6 DEF PollFails
  <2> QED BY <2>1, <1>2, NobodyWrites
<1>7. CASE InvoiceAges \/ UNCHANGED nfeVars
  <2>1. UNCHANGED <<issued, invoice, rows, ask, poll>>
    BY <1>7 DEF InvoiceAges, nfeVars
  <2> QED BY <2>1, <1>2, NobodyWrites
<1>8. ASSUME NEW a \in Askers, AskInvoice(a) PROVE NfeInv'
  <2> DEFINE new == [at |-> "call", left |-> Attempts, told |-> "none"]
  <2>1. new \in Asks /\ new.at = "call"
    BY NotaFiscalAssumption DEF Asks, Documents
  <2>2. ask' = [ask EXCEPT ![a] = new] /\ UNCHANGED <<issued, invoice, rows, poll>>
    BY <1>8 DEF AskInvoice
  <2> HIDE DEF new
  <2>3. /\ ask' \in [Askers -> Asks] /\ ask'[a] = new
        /\ \A b \in Askers \ {a} : ask'[b] = ask[b]
    BY <2>1, <2>2, <1>2
  <2> QED BY <2>1, <2>2, <2>3, <1>2, NobodyWrites
<1>9. ASSUME NEW a \in Askers, CallIssue(a) PROVE NfeInv'
  <2> DEFINE new == [[ask[a] EXCEPT !.at = "store"] EXCEPT !.told = issued']
  <2>1. /\ issued' = IF issued = "none" THEN "processando" ELSE issued
        /\ ask' = [ask EXCEPT ![a] = [@ EXCEPT !.at = "store", !.told = issued']]
        /\ UNCHANGED <<invoice, rows, poll>>
    BY <1>9 DEF CallIssue
  <2>2. /\ issued' \in Documents /\ issued' # "none"
        /\ issued \in SettledSays => issued' \in SettledSays
    BY <2>1, <1>2 DEF Documents, SettledSays
  <2>3. ask[a] \in Asks
    BY <1>2
  <2>4. new \in Asks /\ new.told = issued'
    BY <2>2, <2>3 DEF Asks
  <2>5. ask' = [ask EXCEPT ![a] = new]
    BY <2>1
  <2> HIDE DEF new
  <2>6. /\ ask' \in [Askers -> Asks] /\ ask'[a] = new
        /\ \A b \in Askers \ {a} : ask'[b] = ask[b]
    BY <2>4, <2>5, <1>2
  <2> QED BY <2>1, <2>2, <2>4, <2>6, NobodyWrites
<1>10. ASSUME NEW a \in Askers, CallFails(a) PROVE NfeInv'
  <2> DEFINE new == [ask[a] EXCEPT !.left = ask[a].left - 1]
  <2>1. /\ ask[a].at = "call" /\ ask[a] \in Asks
        /\ issued' \in {issued, IF issued = "none" THEN "processando" ELSE issued}
        /\ UNCHANGED <<invoice, rows, poll>>
    BY <1>10, <1>2 DEF CallFails
  <2>2. /\ issued' \in Documents
        /\ issued # "none" => issued' # "none"
        /\ issued \in SettledSays => issued' \in SettledSays
    BY <2>1, <1>2 DEF Documents, SettledSays
  <2>4. CASE ask[a].left = 1
    <3>1. ask' = [ask EXCEPT ![a] = NoAsk]
      BY <1>10, <2>4 DEF CallFails
    <3>2. /\ ask' \in [Askers -> Asks] /\ ask'[a] = NoAsk
          /\ \A b \in Askers \ {a} : ask'[b] = ask[b]
      BY <3>1, <1>1, <1>2
    <3> QED BY <3>2, <2>1, <2>2, <1>1, NobodyWrites
  <2>5. CASE ask[a].left # 1
    <3>1. ask' = [ask EXCEPT ![a] = new]
      <4>1. ask' = [ask EXCEPT ![a] = IF ask[a].left = 1 THEN NoAsk ELSE new]
        BY <1>10 DEF CallFails
      <4> QED BY <2>5, <4>1
    <3>2. new \in Asks /\ new.at = "call"
      BY <2>1 DEF Asks
    <3> HIDE DEF new
    <3>3. /\ ask' \in [Askers -> Asks] /\ ask'[a] = new
          /\ \A b \in Askers \ {a} : ask'[b] = ask[b]
      BY <3>1, <3>2, <1>2
    <3> QED BY <3>2, <3>3, <2>1, <2>2, NobodyWrites
  <2> QED BY <2>4, <2>5
<1>11. ASSUME NEW a \in Askers, StoreInvoice(a) PROVE NfeInv'
  <2>1. /\ Heard(ask[a].told) /\ ask' = [ask EXCEPT ![a] = NoAsk]
        /\ UNCHANGED <<issued, poll>>
    BY <1>11 DEF StoreInvoice, NfeInv
  <2>2. \/ UNCHANGED <<rows, invoice>>
        \/ rows' = 1 /\ invoice' = StatusOf(ask[a].told)
    BY <1>11 DEF StoreInvoice, NotStored
  <2>3. /\ rows' \in {0, 1} /\ invoice' \in {"none", "PENDING", "AUTHORIZED", "REJECTED"}
        /\ invoice' \in {"AUTHORIZED", "REJECTED"} => issued \in SettledSays
        /\ invoice' = "PENDING" => issued # "none"
    BY <2>1, <2>2, WritesHeard DEF NfeInv
  <2>4. /\ ask' \in [Askers -> Asks] /\ ask'[a] = NoAsk
        /\ \A b \in Askers \ {a} : ask'[b] = ask[b]
    BY <2>1, <1>1, <1>2
  <2>5. \A b \in Askers : ask'[b].at = "store" => Heard(ask[b].told)'
    BY <2>1, <2>4, <1>1 DEF NfeInv, Heard
  <2>6. poll' # "idle" => Heard(poll)'
    BY <2>1 DEF NfeInv, Heard
  <2> QED BY <2>1, <2>3, <2>4, <2>5, <2>6 DEF NfeInv
<1>12. ASSUME NEW a \in Askers, LoseInvoice(a) PROVE NfeInv'
  <2>1. ask' = [ask EXCEPT ![a] = NoAsk] /\ UNCHANGED <<issued, invoice, rows, poll>>
    BY <1>12 DEF LoseInvoice
  <2>2. /\ ask' \in [Askers -> Asks] /\ ask'[a] = NoAsk
        /\ \A b \in Askers \ {a} : ask'[b] = ask[b]
    BY <2>1, <1>1, <1>2
  <2> QED BY <2>1, <2>2, <1>1, <1>2, NobodyWrites
<1> QED BY <1>3, <1>4, <1>5, <1>6, <1>7, <1>8, <1>9, <1>10, <1>11, <1>12 DEF NfeNext

\* An order has one invoice, settled by its issuer (OneInvoice).
LEMMA NfeThen == NfeInv => OneInvoice
BY DEF NfeInv, OneInvoice, SettledSays

-----------------------------------------------------------------------------
(* TwoFactor: a code has one sender and is in Redis once, and every code   *)
(* that goes out has been paid for, or came with a failure.                *)

SenderCalls == [at : {"idle", "make", "set", "text", "floor"}, code : Codes \cup {0},
                to : Phones \cup {"none"}]
UseCalls == [at : {"idle", "take", "write"}, code : Codes \cup {0},
             for : {"none", "enable", "disable", "login"}]

Sending(s) == sender[s].at \in {"make", "set", "text"}
Unset(s) == sender[s].at \in {"make", "set"}

TwoFaTypes ==
  /\ sends \in Int
  /\ misses \in Nat
  /\ recounted \in BOOLEAN
  /\ made \in 0 .. MaxCodes
  /\ code \in 0 .. made
  /\ twoFaPhone \in Phones \cup {"none"}
  /\ sender \in [Senders -> SenderCalls]
  /\ user2fa \in [Users2fa -> UseCalls]
  /\ texted \in [Codes -> Phones \cup {"none"}]
  /\ accepted \in [Codes -> {0, 1}]
  /\ \A u \in Users2fa : user2fa[u].at # "idle" => user2fa[u].code \in Codes /\ user2fa[u].for # "none"
  /\ \A c \in Codes : c > made => texted[c] = "none" /\ accepted[c] = 0

\* What a sender has made is nobody else's, and not in use before he sets it.
CodesApart ==
  /\ \A s \in Senders : Sending(s) => sender[s].code \in 1 .. made /\ texted[sender[s].code] = "none"
  /\ \A s, t \in Senders : Sending(s) /\ Sending(t) /\ s # t => sender[s].code # sender[t].code
  /\ \A s \in Senders : Unset(s) => accepted[sender[s].code] = 0 /\ code # sender[s].code
  /\ code # 0 => accepted[code] = 0

\* The codes that have gone out, or may.
SentCodes ==
  {c \in Codes : texted[c] # "none" \/ \E s \in Senders : Sending(s) /\ sender[s].code = c}
CodesCounted ==
  Cardinality(SentCodes) <= sends + misses /\ Cardinality(SentCodes) <= MaxSends + misses
CodesPaid == recounted \/ CodesCounted

TwoFaInv == TwoFaTypes /\ CodesApart /\ CodesPaid

\* The codes that went out can be counted.
LEMMA SentFinite == IsFiniteSet(SentCodes) /\ Cardinality(SentCodes) \in Nat
<1>1. MaxCodes \in Nat
  BY TwoFactorAssumption
<1>2. IsFiniteSet(Codes)
  BY <1>1, FS_Interval DEF Codes
<1>3. SentCodes \in SUBSET Codes
  BY DEF SentCodes
<1> QED BY <1>2, <1>3, FS_Subset, FS_CardinalityType

\* No code is made at first.
THEOREM TwoFaFirst == TwoFaInit => TwoFaInv
<1> SUFFICES ASSUME TwoFaInit PROVE TwoFaInv
  OBVIOUS
<1>1. NoSender \in SenderCalls /\ NoSender.at = "idle"
  BY DEF NoSender, SenderCalls
<1>2. NoUse \in UseCalls /\ NoUse.at = "idle"
  BY DEF NoUse, UseCalls
<1>3. /\ sender \in [Senders -> SenderCalls] /\ \A s \in Senders : sender[s].at = "idle"
      /\ user2fa \in [Users2fa -> UseCalls] /\ \A u \in Users2fa : user2fa[u].at = "idle"
  BY <1>1, <1>2 DEF TwoFaInit
<1>4. /\ sends = 0 /\ misses = 0
      /\ made \in 0 .. MaxCodes /\ code \in 0 .. made /\ code = 0
  BY TwoFactorAssumption DEF TwoFaInit
<1>10. recounted \in BOOLEAN
  BY DEF TwoFaInit
<1>5. /\ accepted \in [Codes -> {0, 1}] /\ \A c \in Codes : accepted[c] = 0
      /\ texted \in [Codes -> Phones \cup {"none"}] /\ \A c \in Codes : texted[c] = "none"
      /\ twoFaPhone = "none"
  BY DEF TwoFaInit
<1>6. TwoFaTypes
  BY <1>3, <1>4, <1>5, <1>10 DEF TwoFaTypes
<1>7. CodesApart
  BY <1>3, <1>4 DEF CodesApart, Sending, Unset
<1>8. SentCodes = {}
  BY <1>3, <1>5 DEF SentCodes, Sending
<1>9. CodesPaid
  <2>1. Cardinality(SentCodes) = 0 /\ MaxSends \in Nat
    BY <1>8, FS_EmptySet, TwoFactorAssumption
  <2> QED BY <1>4, <2>1 DEF CodesPaid, CodesCounted
<1> QED BY <1>6, <1>7, <1>9 DEF TwoFaInv

\* The types of what is counted.
CountTypes == sends \in Int /\ misses \in Nat /\ recounted \in BOOLEAN

\* A step that sends no code leaves what is paid for paid for: a credit comes back
\* only with a failure.
LEMMA NoNewCode ==
  ASSUME CodesPaid, CountTypes, CountTypes', SentCodes' \subseteq SentCodes,
         recounted => recounted', misses' >= misses, sends' + misses' >= sends + misses
  PROVE  CodesPaid'
<1>1. SentCodes' \in SUBSET SentCodes /\ MaxSends \in Nat
  BY TwoFactorAssumption
<1>2. Cardinality(SentCodes') <= Cardinality(SentCodes) /\ IsFiniteSet(SentCodes')
  BY <1>1, SentFinite, FS_Subset
<1>3. Cardinality(SentCodes') \in Nat
  BY <1>2, FS_CardinalityType
<1>4. {sends, sends', misses, misses'} \subseteq Int
  BY DEF CountTypes
<1>5. CodesCounted => CodesCounted'
  BY <1>1, <1>2, <1>3, <1>4, SentFinite DEF CodesCounted
<1> QED BY <1>5 DEF CodesPaid

\* A step of somebody who presents a code, or of Redis: the senders stay.
LEMMA SendersStay ==
  ASSUME TwoFaInv, UNCHANGED <<made, sends, recounted, misses, sender, texted>>, TwoFaTypes',
         code' \in {0, code},
         \A c \in Codes : accepted'[c] = accepted[c] \/ (c = code /\ code' = 0)
  PROVE  TwoFaInv'
<1>1. UNCHANGED SentCodes
  BY DEF SentCodes, Sending
<1>2. CodesPaid'
  <2>1. CountTypes /\ CountTypes'
    BY DEF TwoFaInv, TwoFaTypes, CountTypes
  <2> QED BY <1>1, <2>1, NoNewCode DEF TwoFaInv, CountTypes
<1>3. \A s \in Senders : Unset(s) => sender[s].code \in Codes /\ code # sender[s].code
  <2>1. made \in 0 .. MaxCodes /\ MaxCodes \in Nat
    BY TwoFactorAssumption DEF TwoFaInv, TwoFaTypes
  <2>2. \A s \in Senders : Unset(s) => sender[s].code \in 1 .. made /\ code # sender[s].code
    BY DEF TwoFaInv, CodesApart, Sending, Unset
  <2> QED BY <2>1, <2>2 DEF Codes
<1>4. \A s \in Senders : Unset(s)' =>
         accepted'[sender'[s].code] = 0 /\ code' # sender'[s].code
  <2> SUFFICES ASSUME NEW s \in Senders, Unset(s)
               PROVE  accepted'[sender[s].code] = 0 /\ code' # sender[s].code
    BY DEF Unset
  <2>1. sender[s].code \in Codes /\ code # sender[s].code /\ accepted[sender[s].code] = 0
    BY <1>3 DEF TwoFaInv, CodesApart
  <2> QED BY <2>1 DEF Codes
<1>5. code' # 0 => accepted'[code'] = 0
  <2>1. made \in 0 .. MaxCodes /\ MaxCodes \in Nat /\ code \in 0 .. made
    BY TwoFactorAssumption DEF TwoFaInv, TwoFaTypes
  <2>2. code # 0 => code \in Codes /\ accepted[code] = 0
    BY <2>1 DEF TwoFaInv, CodesApart, Codes
  <2> QED BY <2>2
<1>6. CodesApart'
  BY <1>4, <1>5 DEF TwoFaInv, CodesApart, Sending
<1> QED BY <1>2, <1>6 DEF TwoFaInv

\* A request for a code: refused, or with a credit and a code of its own.
LEMMA BeginsPaid ==
  ASSUME TwoFaInv, NEW s \in Senders, NEW to \in Phones \cup {"none"}, BeginSend(s, to),
         UNCHANGED <<code, texted, user2fa, accepted>>, twoFaPhone' \in Phones \cup {"none"}
  PROVE  TwoFaInv'
<1>1. /\ sends \in Int /\ misses \in Nat /\ made \in 0 .. MaxCodes
      /\ sends' \in Int /\ misses' \in Nat /\ UNCHANGED recounted
  BY DEF TwoFaInv, TwoFaTypes, BeginSend, Miss
<1>2. NoSender \in SenderCalls /\ NoSender.at = "idle" /\ sender[s] = NoSender
  BY DEF NoSender, SenderCalls, BeginSend
<1>3. sender \in [Senders -> SenderCalls] /\ {MaxSends, MaxCodes} \subseteq Nat
  BY TwoFactorAssumption DEF TwoFaInv, TwoFaTypes
<1>4. ASSUME Goes(s, to),
             \/ sends < MaxSends /\ sends' = sends + 1 /\ misses' = misses
             \/ sends' \in {sends, sends + 1} /\ misses' = misses + 1
      PROVE  TwoFaInv'
  <2> DEFINE new == [at |-> "make", code |-> made + 1, to |-> to]
  <2>1. new \in SenderCalls /\ new.at = "make" /\ new.code = made + 1
    BY <1>1, <1>3, <1>4 DEF SenderCalls, Codes, Goes
  <2>2. sender' = [sender EXCEPT ![s] = new] /\ made' = made + 1
    BY <1>4 DEF Goes
  <2> HIDE DEF new
  <2>3. /\ sender' \in [Senders -> SenderCalls] /\ sender'[s] = new
        /\ \A t \in Senders \ {s} : sender'[t] = sender[t]
    BY <1>3, <2>1, <2>2
  <2>4. /\ Sending(s)' /\ ~Sending(s)
        /\ \A t \in Senders \ {s} : Sending(t)' = Sending(t) /\ Unset(t)' = Unset(t)
    BY <1>2, <2>1, <2>3 DEF Sending, Unset
  <2>5. made + 1 \in Codes /\ texted[made + 1] = "none" /\ accepted[made + 1] = 0
    BY <1>1, <1>3, <1>4 DEF TwoFaInv, TwoFaTypes, Codes, Goes
  <2>6. TwoFaTypes'
    <3>1. made' \in 0 .. MaxCodes /\ code' \in 0 .. made'
      BY <1>1, <1>3, <1>4, <2>2 DEF TwoFaInv, TwoFaTypes, Goes
    <3>2. \A c \in Codes : c > made' => texted'[c] = "none" /\ accepted'[c] = 0
      BY <1>1, <2>2 DEF TwoFaInv, TwoFaTypes, Codes
    <3> QED BY <1>1, <2>3, <3>1, <3>2 DEF TwoFaInv, TwoFaTypes
  <2>7. \A t \in Senders : Sending(t) => sender[t].code \in 1 .. made
    BY DEF TwoFaInv, CodesApart
  <2>8. code \in 0 .. made /\ (code # 0 => accepted[code] = 0)
    BY DEF TwoFaInv, TwoFaTypes, CodesApart
  <2>9. \A t \in Senders : Sending(t)' =>
          sender'[t].code \in 1 .. made' /\ texted'[sender'[t].code] = "none"
    BY <1>1, <2>1, <2>2, <2>3, <2>4, <2>5, <2>7 DEF TwoFaInv, CodesApart
  <2>10. \A t, r \in Senders : Sending(t)' /\ Sending(r)' /\ t # r =>
           sender'[t].code # sender'[r].code
    BY <1>1, <2>1, <2>3, <2>4, <2>7 DEF TwoFaInv, CodesApart
  <2>11. \A t \in Senders : Unset(t)' =>
           accepted'[sender'[t].code] = 0 /\ code' # sender'[t].code
    BY <1>1, <2>1, <2>3, <2>4, <2>5, <2>8 DEF TwoFaInv, CodesApart
  <2>12. CodesApart'
    BY <2>8, <2>9, <2>10, <2>11 DEF CodesApart
  <2>13. SentCodes' = SentCodes \cup {made + 1}
    <3>1. \A c \in Codes : c \in SentCodes' <=> c \in SentCodes \/ c = made + 1
      BY <2>1, <2>3, <2>4 DEF SentCodes
    <3> QED BY <2>5, <3>1 DEF SentCodes
  <2>14. made + 1 \notin SentCodes
    BY <1>1, <2>5, <2>7 DEF SentCodes
  <2>15. CodesPaid'
    <3>1. Cardinality(SentCodes') = Cardinality(SentCodes) + 1
      BY <2>13, <2>14, SentFinite, OneMore
    <3>2. CodesCounted => CodesCounted'
      BY <1>1, <1>3, <1>4, <3>1, SentFinite DEF CodesCounted
    <3> QED BY <1>1, <3>2 DEF TwoFaInv, CodesPaid
  <2> QED BY <2>6, <2>12, <2>15 DEF TwoFaInv
<1>5. CASE sends' = sends + 1 /\ UNCHANGED <<made, sender, misses>>
  <2>1. TwoFaTypes' /\ CodesApart' /\ UNCHANGED SentCodes
    BY <1>1, <1>5 DEF TwoFaInv, TwoFaTypes, CodesApart, SentCodes, Sending, Unset
  <2>2. CountTypes /\ CountTypes'
    BY <2>1 DEF TwoFaInv, TwoFaTypes, CountTypes
  <2> QED BY <1>1, <1>5, <2>1, <2>2, NoNewCode DEF TwoFaInv
<1> QED BY <1>4, <1>5 DEF BeginSend, Miss

\* A step of a sender who has a code already: on with it, or out.
LEMMA SenderGoesOn ==
  ASSUME TwoFaInv, NEW s \in Senders, Sending(s), NEW next \in SenderCalls,
         next.at = "idle" \/ next.code = sender[s].code,
         sender' = [sender EXCEPT ![s] = next],
         UNCHANGED <<made, user2fa, accepted, twoFaPhone>>
  PROVE  /\ sender' \in [Senders -> SenderCalls] /\ sender'[s] = next
         /\ \A t \in Senders \ {s} : sender'[t] = sender[t]
         /\ \A t \in Senders \ {s} : Sending(t)' = Sending(t) /\ Unset(t)' = Unset(t)
         /\ \A t \in Senders \ {s} : Sending(t) => sender[t].code # sender[s].code
         /\ sender[s].code \in 1 .. made /\ sender[s].code \in Codes
         /\ texted[sender[s].code] = "none"
<1>1. sender' \in [Senders -> SenderCalls] /\ sender'[s] = next
  BY DEF TwoFaInv, TwoFaTypes
<1>2. \A t \in Senders \ {s} : sender'[t] = sender[t]
  BY DEF TwoFaInv, TwoFaTypes
<1>3. \A t \in Senders \ {s} : Sending(t) => sender[t].code # sender[s].code
  BY DEF TwoFaInv, CodesApart
<1>4. sender[s].code \in 1 .. made /\ texted[sender[s].code] = "none"
  BY DEF TwoFaInv, CodesApart
<1>5. sender[s].code \in Codes
  BY <1>4, TwoFactorAssumption DEF TwoFaInv, TwoFaTypes, Codes
<1> QED BY <1>1, <1>2, <1>3, <1>4, <1>5 DEF Sending, Unset

\* Every step of the senders, of whoever presents a code and of Redis keeps it.
THEOREM TwoFaKept == TwoFaInv /\ [TwoFaNext]_twoFaVars => TwoFaInv'
<1> SUFFICES ASSUME TwoFaInv, [TwoFaNext]_twoFaVars PROVE TwoFaInv'
  OBVIOUS
<1>1. /\ sender \in [Senders -> SenderCalls] /\ user2fa \in [Users2fa -> UseCalls]
      /\ made \in 0 .. MaxCodes /\ code \in 0 .. made
      /\ CountTypes
      /\ twoFaPhone \in Phones \cup {"none"}
      /\ {MaxSends, MaxCodes} \subseteq Nat
  BY TwoFactorAssumption DEF TwoFaInv, TwoFaTypes, CountTypes
<1>2. NoSender \in SenderCalls /\ NoSender.at = "idle"
  BY DEF NoSender, SenderCalls
<1>3. NoUse \in UseCalls /\ NoUse.at = "idle"
  BY DEF NoUse, UseCalls
<1>4. ASSUME NEW s \in Senders, AskCode(s) PROVE TwoFaInv'
  BY <1>1, <1>4, BeginsPaid DEF AskCode, useVars
<1>5. ASSUME NEW s \in Senders, NEW to \in Phones, SetupSms(s, to) PROVE TwoFaInv'
  <2>1. twoFaPhone' = to /\ UNCHANGED <<code, texted, user2fa, accepted>>
    BY <1>5 DEF SetupSms, useVars
  <2>2. CASE BeginSend(s, to)
    BY <2>1, <2>2, BeginsPaid
  <2>3. CASE UNCHANGED <<sends, recounted, sender, made, misses>>
    <3>1. TwoFaTypes'
      BY <2>1, <2>3 DEF TwoFaInv, TwoFaTypes
    <3> QED BY <2>1, <2>3, <3>1, SendersStay
  <2> QED BY <1>5, <2>2, <2>3 DEF SetupSms
<1>6. ASSUME NEW s \in Senders, DropCode(s) PROVE TwoFaInv'
  <2> DEFINE next == [sender[s] EXCEPT !.at = "set"]
  <2>1. /\ sender[s].at = "make" /\ code' \in {0, code} /\ sender' = [sender EXCEPT ![s] = next]
        /\ UNCHANGED <<twoFaPhone, made, sends, recounted, misses, texted, user2fa, accepted>>
    BY <1>6 DEF DropCode, useVars
  <2>2. next \in SenderCalls /\ next.at = "set" /\ next.code = sender[s].code
    BY <1>1 DEF SenderCalls
  <2> HIDE DEF next
  <2>3. Sending(s) /\ Sending(s)' /\ Unset(s)
    BY <1>1, <2>1, <2>2 DEF Sending, Unset
  <2>4. /\ sender' \in [Senders -> SenderCalls] /\ sender'[s] = next
        /\ \A t \in Senders \ {s} : sender'[t] = sender[t]
        /\ \A t \in Senders \ {s} : Sending(t)' = Sending(t) /\ Unset(t)' = Unset(t)
    BY <2>1, <2>2, <2>3, SenderGoesOn
  <2>5. \A t \in Senders : Sending(t)' = Sending(t) /\ Unset(t)' = Unset(t) /\ sender'[t].code = sender[t].code
    BY <2>2, <2>3, <2>4 DEF Unset, Sending
  <2>6. SentCodes' \subseteq SentCodes
    BY <2>1, <2>5 DEF SentCodes
  <2>7. TwoFaTypes'
    BY <1>1, <2>1, <2>4 DEF TwoFaInv, TwoFaTypes
  <2>10. CountTypes'
    BY <1>1, <2>1 DEF CountTypes
  <2>8. \A t \in Senders : Unset(t) => 0 # sender[t].code
    BY <1>1 DEF TwoFaInv, CodesApart, Sending, Unset
  <2>9. CodesApart'
    BY <2>1, <2>5, <2>8 DEF TwoFaInv, CodesApart
  <2> QED BY <1>1, <2>1, <2>6, <2>7, <2>9, <2>10, NoNewCode DEF TwoFaInv, CountTypes
<1>7. ASSUME NEW s \in Senders, SetCode(s) PROVE TwoFaInv'
  <2> DEFINE next == [sender[s] EXCEPT !.at = "text"]
             c == sender[s].code
  <2>1. /\ sender[s].at = "set" /\ code' \in {code, IF code = 0 THEN c ELSE code}
        /\ sender' = [sender EXCEPT ![s] = next]
        /\ UNCHANGED <<twoFaPhone, made, sends, recounted, misses, texted, user2fa, accepted>>
    BY <1>7 DEF SetCode, useVars
  <2>2. next \in SenderCalls /\ next.at = "text" /\ next.code = c
    BY <1>1 DEF SenderCalls
  <2>3. Sending(s) /\ Unset(s)
    BY <2>1 DEF Sending, Unset
  <2> HIDE DEF next
  <2>4. /\ sender' \in [Senders -> SenderCalls] /\ sender'[s] = next
        /\ \A t \in Senders \ {s} : sender'[t] = sender[t]
        /\ \A t \in Senders \ {s} : Sending(t)' = Sending(t) /\ Unset(t)' = Unset(t)
        /\ \A t \in Senders \ {s} : Sending(t) => sender[t].code # c
        /\ c \in 1 .. made /\ c \in Codes
    BY <2>1, <2>2, <2>3, SenderGoesOn
  <2> HIDE DEF c
  <2>5. /\ \A t \in Senders : Sending(t)' = Sending(t) /\ sender'[t].code = sender[t].code
        /\ ~Unset(s)'
    BY <2>2, <2>3, <2>4 DEF Unset, Sending, c
  <2>6. SentCodes' \subseteq SentCodes
    BY <2>1, <2>5 DEF SentCodes
  <2>7. accepted[c] = 0
    BY <2>3 DEF TwoFaInv, CodesApart, c
  <2>8. code' \in 0 .. made' /\ (code' # 0 => accepted'[code'] = 0)
    BY <1>1, <2>1, <2>4, <2>7 DEF TwoFaInv, CodesApart
  <2>9. TwoFaTypes'
    BY <1>1, <2>1, <2>4, <2>8 DEF TwoFaInv, TwoFaTypes
  <2>10. \A t \in Senders \ {s} : Unset(t) => sender[t].code # c
    BY <2>4 DEF Unset, Sending
  <2>11. \A t \in Senders : Unset(t)' => accepted'[sender'[t].code] = 0 /\ code' # sender'[t].code
    BY <2>1, <2>4, <2>5, <2>10 DEF TwoFaInv, CodesApart
  <2>12. CodesApart'
    BY <2>1, <2>5, <2>8, <2>11 DEF TwoFaInv, CodesApart
  <2>13. CountTypes'
    BY <1>1, <2>1 DEF CountTypes
  <2> QED BY <1>1, <2>1, <2>6, <2>9, <2>12, <2>13, NoNewCode DEF TwoFaInv, CountTypes
<1>8. ASSUME NEW s \in Senders, Text(s) \/ TextFails(s) PROVE TwoFaInv'
  <2> DEFINE c == sender[s].code
             next == sender'[s]
  <2>1. /\ sender[s].at = "text" /\ code' \in {0, code}
        /\ texted' = [texted EXCEPT ![c] = sender[s].to] \/ texted' = texted
        /\ UNCHANGED <<twoFaPhone, made, user2fa, accepted>>
    BY <1>8 DEF Text, TextFails, Texts, useVars
  <2>2. Sending(s) /\ sender[s].to \in Phones \cup {"none"}
    BY <1>1, <2>1 DEF Sending, SenderCalls
  <2>3. /\ sender' = [sender EXCEPT ![s] = NoSender] \/ sender' = [sender EXCEPT ![s] = Below]
        /\ Below \in SenderCalls
    BY <1>8 DEF Text, TextFails, Below, SenderCalls
  <2>4. next \in {NoSender, Below} /\ sender' = [sender EXCEPT ![s] = next]
    BY <1>1, <2>3
  <2>5. next \in SenderCalls /\ next.at \notin {"make", "set", "text"} /\ next.code = 0
    BY <1>2, <2>3, <2>4 DEF NoSender, Below
  <2> HIDE DEF next
  <2>6. /\ sender' \in [Senders -> SenderCalls]
        /\ \A t \in Senders \ {s} : sender'[t] = sender[t]
    BY <1>1, <2>4, <2>5
  <2>7. /\ ~Sending(s)' /\ ~Unset(s)'
        /\ \A t \in Senders \ {s} : Sending(t)' = Sending(t) /\ Unset(t)' = Unset(t)
    BY <1>1, <2>4, <2>5, <2>6 DEF Sending, Unset
  <2>8. /\ \A t \in Senders \ {s} : Sending(t) => sender[t].code # c
        /\ c \in 1 .. made /\ c \in Codes
    BY <1>1, <2>2 DEF TwoFaInv, CodesApart, Codes
  <2> HIDE DEF c
  <2>9. /\ texted' \in [Codes -> Phones \cup {"none"}]
        /\ \A d \in Codes \ {c} : texted'[d] = texted[d]
    BY <2>1, <2>2 DEF TwoFaInv, TwoFaTypes
  <2>10. SentCodes' \subseteq SentCodes
    <3> SUFFICES ASSUME NEW d \in Codes, d \in SentCodes' PROVE d \in SentCodes
      BY DEF SentCodes
    <3>1. CASE d = c
      BY <2>2, <3>1 DEF SentCodes, c
    <3>2. CASE d # c
      BY <2>6, <2>7, <2>9, <3>2 DEF SentCodes
    <3> QED BY <3>1, <3>2
  <2>11. \A d \in Codes : d > made => d # c
    BY <1>1, <2>8 DEF Codes
  <2>12. /\ CountTypes' /\ UNCHANGED recounted
         /\ misses' >= misses /\ sends' + misses' >= sends + misses
    BY <1>1, <1>8 DEF Text, TextFails, Miss, CountTypes
  <2>13. code' \in 0 .. made'
    BY <1>1, <2>1
  <2>14. TwoFaTypes'
    BY <2>1, <2>6, <2>9, <2>11, <2>12, <2>13 DEF TwoFaInv, TwoFaTypes, CountTypes
  <2>15. \A t \in Senders \ {s} : Sending(t) => sender[t].code \in Codes \ {c}
    BY <1>1, <2>8 DEF TwoFaInv, CodesApart, Codes
  <2>16. \A t \in Senders : Sending(t)' =>
           sender'[t].code \in 1 .. made' /\ texted'[sender'[t].code] = "none"
    BY <2>1, <2>6, <2>7, <2>9, <2>15 DEF TwoFaInv, CodesApart
  <2>17. \A t \in Senders : Unset(t) => 0 # sender[t].code
    BY <1>1 DEF TwoFaInv, CodesApart, Sending, Unset
  <2>18. CodesApart'
    BY <2>1, <2>6, <2>7, <2>16, <2>17 DEF TwoFaInv, CodesApart
  <2>19. CodesPaid'
    BY <1>1, <2>10, <2>12, NoNewCode DEF TwoFaInv
  <2> QED BY <2>14, <2>18, <2>19 DEF TwoFaInv
<1>9. ASSUME NEW s \in Senders, FloorSends(s) PROVE TwoFaInv'
  <2>1. /\ sender[s] = Below /\ sender' = [sender EXCEPT ![s] = NoSender]
        /\ UNCHANGED <<twoFaPhone, made, code, misses, texted, user2fa, accepted>>
    BY <1>9 DEF FloorSends, useVars
  <2>2. /\ sender' \in [Senders -> SenderCalls] /\ sender'[s] = NoSender
        /\ \A t \in Senders \ {s} : sender'[t] = sender[t]
    BY <1>1, <1>2, <2>1
  <2>3. ~Sending(s) /\ ~Unset(s) /\ ~Sending(s)' /\ ~Unset(s)'
    BY <1>2, <2>1, <2>2 DEF Sending, Unset, Below
  <2>4. \A t \in Senders : Sending(t)' = Sending(t) /\ Unset(t)' = Unset(t)
    BY <2>2, <2>3 DEF Sending, Unset
  <2>5. SentCodes' \subseteq SentCodes
    BY <2>1, <2>2, <2>3, <2>4 DEF SentCodes
  <2>6. CountTypes'
    <3>1. sends' \in Int /\ misses' \in Nat
      BY <1>1, <1>9, <2>1 DEF FloorSends, CountTypes
    <3>2. recounted' \in BOOLEAN
      BY <1>1, <1>9 DEF FloorSends, CountTypes
    <3> QED BY <3>1, <3>2 DEF CountTypes
  <2>7. TwoFaTypes'
    BY <1>1, <2>1, <2>2, <2>6 DEF TwoFaInv, TwoFaTypes, CountTypes
  <2>8. CodesApart'
    BY <2>1, <2>2, <2>3, <2>4 DEF TwoFaInv, CodesApart
  <2>9. CASE sends' = 0 /\ sends > 0 /\ sends' # sends
    <3>1. recounted'
      BY <1>9, <2>9 DEF FloorSends
    <3> QED BY <2>7, <2>8, <3>1 DEF TwoFaInv, CodesPaid
  <2>10. CASE sends' >= sends
    <3>1. recounted => recounted'
      BY <1>9 DEF FloorSends
    <3>4. {sends, sends', misses, misses'} \subseteq Int /\ misses' = misses
      BY <1>1, <2>1, <2>6 DEF CountTypes
    <3>2. sends' + misses' >= sends + misses /\ misses' >= misses
      BY <2>10, <3>4
    <3>3. CodesPaid'
      BY <1>1, <2>5, <2>6, <3>1, <3>2, NoNewCode DEF TwoFaInv
    <3> QED BY <2>7, <2>8, <3>3 DEF TwoFaInv
  <2>11. sends' = 0 \/ sends' = sends
    BY <1>9 DEF FloorSends
  <2>12. sends \in Int
    BY <1>1 DEF CountTypes
  <2> QED BY <2>9, <2>10, <2>11, <2>12
<1>10. CASE CooldownEnds \/ CodeExpires
  <2>1. /\ code' \in {0, code}
        /\ UNCHANGED <<twoFaPhone, made, sends, recounted, misses, sender, texted, user2fa, accepted>>
    BY <1>10 DEF CooldownEnds, CodeExpires, useVars
  <2>2. TwoFaTypes'
    BY <1>1, <2>1 DEF TwoFaInv, TwoFaTypes
  <2> QED BY <2>1, <2>2, SendersStay
<1>11. ASSUME NEW u \in Users2fa, NEW c \in Codes, NEW for \in {"enable", "disable", "login"},
              Present(u, c, for)
       PROVE  TwoFaInv'
  <2> DEFINE next == [at |-> "take", code |-> c, for |-> for]
  <2>1. /\ user2fa' = [user2fa EXCEPT ![u] = next]
        /\ UNCHANGED <<twoFaPhone, made, code, sends, recounted, misses, sender, texted, accepted>>
    BY <1>11 DEF Present, smsVars
  <2>2. next \in UseCalls /\ next.code = c /\ next.for # "none"
    BY DEF UseCalls
  <2> HIDE DEF next
  <2>3. /\ user2fa' \in [Users2fa -> UseCalls] /\ user2fa'[u] = next
        /\ \A v \in Users2fa \ {u} : user2fa'[v] = user2fa[v]
    BY <1>1, <2>1, <2>2
  <2>4. TwoFaTypes'
    BY <2>1, <2>2, <2>3 DEF TwoFaInv, TwoFaTypes
  <2> QED BY <2>1, <2>4, SendersStay
<1>12. ASSUME NEW u \in Users2fa, TakeCode(u) PROVE TwoFaInv'
  <2>1. /\ user2fa[u].at = "take" /\ code' = 0 /\ user2fa[u].code \in Codes
        /\ UNCHANGED <<twoFaPhone, made, sends, recounted, misses, sender, texted>>
    BY <1>12 DEF TakeCode, CodeLeft, TwoFaInv, TwoFaTypes
  <2>2. CASE code = user2fa[u].code
    <3> DEFINE next == [user2fa[u] EXCEPT !.at = "write"]
    <3>1. accepted' = [accepted EXCEPT ![code] = @ + 1] /\ user2fa' = [user2fa EXCEPT ![u] = next]
      BY <1>12, <2>2 DEF TakeCode
    <3>2. next \in UseCalls /\ next.code \in Codes /\ next.for # "none"
      BY <1>1, <2>1 DEF UseCalls, TwoFaInv, TwoFaTypes
    <3> HIDE DEF next
    <3>3. /\ user2fa' \in [Users2fa -> UseCalls] /\ user2fa'[u] = next
          /\ \A v \in Users2fa \ {u} : user2fa'[v] = user2fa[v]
      BY <1>1, <3>1, <3>2
    <3>4. code \in Codes /\ code # 0
      BY <1>1, <2>1, <2>2 DEF Codes
    <3>5. accepted[code] = 0
      BY <3>4 DEF TwoFaInv, CodesApart
    <3>6. accepted' \in [Codes -> {0, 1}] /\ \A c \in Codes \ {code} : accepted'[c] = accepted[c]
      BY <3>1, <3>4, <3>5 DEF TwoFaInv, TwoFaTypes
    <3>7. \A c \in Codes : c > made => accepted'[c] = 0
      BY <1>1, <3>6 DEF TwoFaInv, TwoFaTypes, Codes
    <3>8. TwoFaTypes'
      BY <1>1, <2>1, <3>2, <3>3, <3>6, <3>7 DEF TwoFaInv, TwoFaTypes
    <3> QED BY <2>1, <3>6, <3>8, SendersStay
  <2>3. CASE code # user2fa[u].code
    <3>1. accepted' = accepted /\ user2fa' = [user2fa EXCEPT ![u] = NoUse]
      BY <1>12, <2>3 DEF TakeCode
    <3>2. /\ user2fa' \in [Users2fa -> UseCalls] /\ user2fa'[u] = NoUse
          /\ \A v \in Users2fa \ {u} : user2fa'[v] = user2fa[v]
      BY <1>1, <1>3, <3>1
    <3>3. TwoFaTypes'
      BY <1>1, <1>3, <2>1, <3>1, <3>2 DEF TwoFaInv, TwoFaTypes
    <3> QED BY <2>1, <3>1, <3>3, SendersStay
  <2> QED BY <2>2, <2>3
<1>13. ASSUME NEW u \in Users2fa, WriteFactor(u) PROVE TwoFaInv'
  <2>1. /\ user2fa' = [user2fa EXCEPT ![u] = NoUse]
        /\ UNCHANGED <<made, code, sends, recounted, misses, sender, texted, accepted>>
    BY <1>13 DEF WriteFactor, smsVars
  <2>2. twoFaPhone' \in Phones \cup {"none"}
    <3>1. CASE user2fa[u].for = "enable"
      BY <1>1, <1>13, <3>1 DEF WriteFactor
    <3>2. CASE user2fa[u].for = "disable"
      BY <1>1, <1>13, <3>2 DEF WriteFactor
    <3>3. CASE user2fa[u].for = "login"
      BY <1>1, <1>13, <3>3 DEF WriteFactor
    <3>4. user2fa[u].for # "none" /\ user2fa[u].for \in {"none", "enable", "disable", "login"}
      BY <1>1, <1>13 DEF WriteFactor, UseCalls, TwoFaInv, TwoFaTypes
    <3> QED BY <3>1, <3>2, <3>3, <3>4
  <2>3. /\ user2fa' \in [Users2fa -> UseCalls] /\ user2fa'[u] = NoUse
        /\ \A v \in Users2fa \ {u} : user2fa'[v] = user2fa[v]
    BY <1>1, <1>3, <2>1
  <2>4. TwoFaTypes'
    BY <1>3, <2>1, <2>2, <2>3 DEF TwoFaInv, TwoFaTypes
  <2> QED BY <2>1, <2>4, SendersStay
<1>15. ASSUME NEW u \in Users2fa, TakeFails(u) PROVE TwoFaInv'
  <2>1. /\ code' \in {0, code} /\ user2fa' = [user2fa EXCEPT ![u] = NoUse]
        /\ UNCHANGED <<twoFaPhone, made, sends, recounted, misses, sender, texted, accepted>>
    BY <1>15 DEF TakeFails
  <2>2. /\ user2fa' \in [Users2fa -> UseCalls] /\ user2fa'[u] = NoUse
        /\ \A v \in Users2fa \ {u} : user2fa'[v] = user2fa[v]
    BY <1>1, <1>3, <2>1
  <2>3. TwoFaTypes'
    BY <1>1, <1>3, <2>1, <2>2 DEF TwoFaInv, TwoFaTypes
  <2> QED BY <2>1, <2>3, SendersStay
<1>14. CASE SetupTotp \/ EnableTotp \/ DisableTotp \/ UNCHANGED twoFaVars
  <2>1. /\ twoFaPhone' \in {"none", twoFaPhone}
        /\ UNCHANGED <<made, code, sends, recounted, misses, sender, texted, user2fa, accepted>>
    BY <1>14 DEF SetupTotp, EnableTotp, DisableTotp, twoFaVars, smsVars, useVars
  <2>2. TwoFaTypes'
    BY <1>1, <2>1 DEF TwoFaInv, TwoFaTypes
  <2> QED BY <2>1, <2>2, SendersStay
<1> QED BY <1>4, <1>5, <1>6, <1>7, <1>8, <1>9, <1>10, <1>11, <1>12, <1>13, <1>14, <1>15
         DEF TwoFaNext

\* A code is accepted once, and what goes out is counted or comes with a failure
\* (CodesUsedOnce).
LEMMA TwoFaThen == TwoFaInv => CodesUsedOnce
<1> SUFFICES ASSUME TwoFaInv PROVE CodesUsedOnce
  OBVIOUS
<1>1. Texted \in SUBSET SentCodes
  BY DEF SentCodes, Texted
<1>2. Cardinality(Texted) <= Cardinality(SentCodes) /\ IsFiniteSet(Texted)
  BY <1>1, SentFinite, FS_Subset
<1>3. Cardinality(Texted) \in Nat /\ MaxSends \in Nat /\ misses \in Nat
  BY <1>2, FS_CardinalityType, TwoFactorAssumption DEF TwoFaInv, TwoFaTypes
<1>4. CodesCounted => Cardinality(Texted) <= MaxSends + misses
  BY <1>2, <1>3, SentFinite DEF CodesCounted
<1>5. \A c \in Codes : accepted[c] <= 1
  BY DEF TwoFaInv, TwoFaTypes
<1> QED BY <1>4, <1>5 DEF TwoFaInv, CodesPaid, CodesUsedOnce

-----------------------------------------------------------------------------
(* Accounts: a registration knows what it displaces, and an address has    *)
(* one row; a link that was redeemed, or lost to another, is used.         *)

AccountRows == [state : {"none", "live", "deleted", "gone"}, here : BOOLEAN,
                verified : BOOLEAN, social : BOOLEAN]
RegisterCalls == [at : {"idle", "displace", "create"}, saw : AccountIds \cup {"none"}]
Somebodys(i) == account[i].verified \/ account[i].social

AddressInv ==
  /\ account \in [AccountIds -> AccountRows]
  /\ register \in [Registrars -> RegisterCalls]
  /\ \A r \in Registrars : register[r].at = "displace" =>
       /\ register[r].saw \in AccountIds /\ account[register[r].saw].state # "none"
       /\ Somebodys(register[r].saw) => register[r].saw \in surprised
  /\ \A i, j \in Live : i = j
  /\ \A i \in AccountIds : account[i].state = "gone" /\ Somebodys(i) => i \in surprised

LinksInv ==
  /\ link \in [Links -> AccountIds \cup {"none", "used"}]
  /\ redeemed \in [Links -> {0, 1}]
  /\ resetting \subseteq Links
  /\ \A l \in Links : redeemed[l] = 1 => link[l] = "used"
  /\ \A l \in Links : l \in stale => link[l] = "used" /\ redeemed[l] = 0

AccountsInv == AddressInv /\ LinksInv

\* No account of the address, and no link, is there at first.
THEOREM AccountsFirst == AccountsInit => AccountsInv
<1> SUFFICES ASSUME AccountsInit PROVE AccountsInv
  OBVIOUS
<1>1. \A state \in {"none", "live"} :
        LET row == [NoAccount EXCEPT !.state = state]
        IN row \in AccountRows /\ ~row.here /\ row.state # "gone"
  BY DEF NoAccount, AccountRows
<1>2. NoRegister \in RegisterCalls /\ NoRegister.at = "idle"
  BY DEF NoRegister, RegisterCalls
<1>3. /\ register \in [Registrars -> RegisterCalls] /\ \A r \in Registrars : register[r].at = "idle"
  BY <1>2 DEF AccountsInit
<1>4. PICK others \in {{}, Elsewhere} : account = [i \in AccountIds |->
        [NoAccount EXCEPT !.state = IF i \in others THEN "live" ELSE "none"]]
  BY DEF AccountsInit
<1>5. /\ account \in [AccountIds -> AccountRows]
      /\ \A i \in AccountIds : ~account[i].here /\ account[i].state # "gone"
  BY <1>1, <1>4
<1>6. AddressInv
  BY <1>3, <1>5 DEF AddressInv, Live
<1>7. LinksInv
  BY DEF AccountsInit, LinksInv
<1> QED BY <1>6, <1>7 DEF AccountsInv

-----------------------------------------------------------------------------
\* A step that begins and ends registrations, and touches no row.
LEMMA RowsStay ==
  ASSUME AddressInv, UNCHANGED <<account, surprised>>,
         register' \in [Registrars -> RegisterCalls],
         \A r \in Registrars : register'[r].at = "displace" =>
           \/ register[r].at = "displace" /\ register'[r].saw = register[r].saw
           \/ register'[r].saw \in Live /\ ~Somebodys(register'[r].saw)
  PROVE  AddressInv'
<1>1. \A i : Somebodys(i)' = Somebodys(i)
  BY DEF Somebodys
<1>2. Live' = Live
  BY DEF Live
<1>3. \A r \in Registrars : register'[r].at = "displace" =>
        /\ register'[r].saw \in AccountIds /\ account[register'[r].saw].state # "none"
        /\ Somebodys(register'[r].saw) => register'[r].saw \in surprised
  <2> SUFFICES ASSUME NEW r \in Registrars, register'[r].at = "displace"
               PROVE  /\ register'[r].saw \in AccountIds /\ account[register'[r].saw].state # "none"
                      /\ Somebodys(register'[r].saw) => register'[r].saw \in surprised
    OBVIOUS
  <2>1. CASE register[r].at = "displace" /\ register'[r].saw = register[r].saw
    BY <2>1 DEF AddressInv
  <2>2. CASE register'[r].saw \in Live /\ ~Somebodys(register'[r].saw)
    BY <2>2 DEF Live
  <2> QED BY <2>1, <2>2
<1> QED BY <1>1, <1>2, <1>3 DEF AddressInv

\* A step that changes one row: one that has the address keeps it or gives it up,
\* another gets it if nobody has it. Whoever it becomes somebody's to, a registration that saw the row, and
\* so may displace it, is noted of.
LEMMA RowChanges ==
  ASSUME AddressInv, NEW i \in AccountIds, NEW row \in AccountRows,
         account' = [account EXCEPT ![i] = row],
         row.state = "none" => account[i].state = "none",
         row.state \in {"live", "deleted"} /\ row.here => i \in Live \/ Live \subseteq {i},
         register' \in [Registrars -> RegisterCalls],
         \A r \in Registrars : register'[r].at = "displace" =>
           register[r].at = "displace" /\ register'[r].saw = register[r].saw,
         surprised \subseteq surprised',
         (row.verified \/ row.social) /\ ~Somebodys(i) /\ account[i].state # "none" =>
           /\ row.state # "gone"
           /\ i \in surprised' \/ \A r \in Registrars : register[r].saw # i,
         row.state = "gone" /\ (row.verified \/ row.social) => i \in surprised'
  PROVE  AddressInv'
<1>1. /\ account' \in [AccountIds -> AccountRows] /\ account'[i] = row
      /\ \A j \in AccountIds \ {i} : account'[j] = account[j]
  BY DEF AddressInv
<1>2. /\ Somebodys(i)' <=> row.verified \/ row.social
      /\ \A j \in AccountIds \ {i} : Somebodys(j)' <=> Somebodys(j)
  BY <1>1 DEF Somebodys
<1>3. \A j, k \in Live' : j = k
  <2>1. CASE Live \subseteq {i}
    <3>1. \A j \in Live' : j = i
      BY <1>1, <2>1 DEF Live
    <3> QED BY <3>1
  <2>2. CASE ~(Live \subseteq {i})
    <3>1. Live' \subseteq Live
      BY <1>1, <2>2 DEF Live
    <3> QED BY <3>1 DEF AddressInv
  <2> QED BY <2>1, <2>2
<1>4. \A r \in Registrars : register'[r].at = "displace" =>
        /\ register'[r].saw \in AccountIds /\ account'[register'[r].saw].state # "none"
        /\ account'[register'[r].saw].verified => register'[r].saw \in surprised'
        /\ account'[register'[r].saw].social => register'[r].saw \in surprised'
  <2> SUFFICES ASSUME NEW r \in Registrars, register'[r].at = "displace"
               PROVE  /\ register'[r].saw \in AccountIds
                      /\ account'[register'[r].saw].state # "none"
                      /\ account'[register'[r].saw].verified => register'[r].saw \in surprised'
                      /\ account'[register'[r].saw].social => register'[r].saw \in surprised'
    OBVIOUS
  <2>1. /\ register'[r].saw = register[r].saw
        /\ register[r].saw \in AccountIds /\ account[register[r].saw].state # "none"
        /\ Somebodys(register[r].saw) => register[r].saw \in surprised
    BY DEF AddressInv
  <2>2. CASE register[r].saw # i
    BY <1>1, <2>1, <2>2 DEF Somebodys
  <2>3. CASE register[r].saw = i
    BY <1>1, <2>1, <2>3 DEF Somebodys
  <2> QED BY <2>2, <2>3
<1>5. \A j \in AccountIds : account'[j].state = "gone" /\ Somebodys(j)' => j \in surprised'
  BY <1>1, <1>2 DEF AddressInv
<1> QED BY <1>1, <1>3, <1>4, <1>5 DEF AddressInv, Somebodys

\* The links know nothing of the rows.
LEMMA LinksStay == ASSUME LinksInv, UNCHANGED linkVars PROVE LinksInv'
BY DEF LinksInv, linkVars

\* A row of one's own, for an address that has none, or none.
LEMMA NewRowKept ==
  ASSUME AddressInv, NEW i \in AccountIds, NEW social \in BOOLEAN, account[i].state = "none",
         IF Live = {} THEN NewAccount(i, social) ELSE UNCHANGED account,
         UNCHANGED surprised, register' \in [Registrars -> RegisterCalls],
         \A r \in Registrars : register'[r].at = "displace" =>
           register[r].at = "displace" /\ register'[r].saw = register[r].saw
  PROVE  AddressInv'
<1>1. CASE Live = {}
  <2> DEFINE row == [NoAccount EXCEPT !.state = "live", !.here = TRUE, !.verified = social,
                                      !.social = social]
  <2>1. row \in AccountRows /\ row.state = "live"
    BY DEF AccountRows, NoAccount
  <2>2. account' = [account EXCEPT ![i] = row]
    BY <1>1 DEF NewAccount
  <2> HIDE DEF row
  <2> QED BY <1>1, <2>1, <2>2, RowChanges
<1>2. CASE Live # {}
  BY <1>2, RowsStay
<1> QED BY <1>1, <1>2

\* Every step of those who register, verify, link and delete keeps the rows.
LEMMA AddressKept == AccountsInv /\ [AccountsNext]_accountsVars => AddressInv'
<1> SUFFICES ASSUME AddressInv, [AccountsNext]_accountsVars PROVE AddressInv'
  BY DEF AccountsInv
<1>1. /\ account \in [AccountIds -> AccountRows] /\ register \in [Registrars -> RegisterCalls]
      /\ \A i \in AccountIds : account[i] \in AccountRows
  BY DEF AddressInv
<1>2. NoRegister \in RegisterCalls /\ NoRegister.at = "idle"
  BY DEF NoRegister, RegisterCalls
<1>3. ASSUME UNCHANGED <<account, register, surprised>> PROVE AddressInv'
  BY <1>1, <1>3, RowsStay
<1>4. ASSUME NEW r \in Registrars, BeginRegister(r) PROVE AddressInv'
  <2>1. UNCHANGED <<account, surprised>> /\ \A i \in Live : Displaced(i)
    BY <1>4 DEF BeginRegister
  <2>2. CASE Live = {}
    <3> DEFINE next == [at |-> "create", saw |-> "none"]
    <3>1. register' = [register EXCEPT ![r] = next]
      BY <1>4, <2>2 DEF BeginRegister
    <3>2. next \in RegisterCalls /\ next.at = "create"
      BY DEF RegisterCalls
    <3> HIDE DEF next
    <3>3. /\ register' \in [Registrars -> RegisterCalls] /\ register'[r] = next
          /\ \A q \in Registrars \ {r} : register'[q] = register[q]
      BY <1>1, <3>1, <3>2
    <3> QED BY <2>1, <3>2, <3>3, RowsStay
  <2>3. CASE Live # {}
    <3> DEFINE i == CHOOSE i \in Live : TRUE
               next == [at |-> "displace", saw |-> i]
    <3>1. i \in Live
      BY <2>3
    <3>2. register' = [register EXCEPT ![r] = next]
      BY <1>4, <2>3 DEF BeginRegister
    <3> HIDE DEF i
    <3>3. next \in RegisterCalls /\ next.saw = i
      BY <3>1 DEF RegisterCalls, Live
    <3>4. ~Somebodys(i)
      BY <2>1, <3>1 DEF Displaced, Somebodys
    <3> HIDE DEF next
    <3>5. /\ register' \in [Registrars -> RegisterCalls] /\ register'[r] = next
          /\ \A q \in Registrars \ {r} : register'[q] = register[q]
      BY <1>1, <3>2, <3>3
    <3> QED BY <2>1, <3>1, <3>3, <3>4, <3>5, RowsStay
  <2> QED BY <2>2, <2>3
<1>5. ASSUME NEW r \in Registrars, Displace(r) PROVE AddressInv'
  <2> DEFINE i == register[r].saw
  <2>1. /\ register[r].at = "displace" /\ surprised' = surprised
        /\ i \in AccountIds /\ account[i].state # "none"
        /\ Somebodys(i) => i \in surprised
    BY <1>5 DEF Displace, AddressInv
  <2>2. CASE account[i].state = "gone"
    <3>1. register' = [register EXCEPT ![r] = NoRegister] /\ UNCHANGED account
      BY <1>5, <2>2 DEF Displace
    <3>2. /\ register' \in [Registrars -> RegisterCalls] /\ register'[r] = NoRegister
          /\ \A q \in Registrars \ {r} : register'[q] = register[q]
      BY <1>1, <1>2, <3>1
    <3> QED BY <1>2, <2>1, <3>1, <3>2, RowsStay
  <2>3. CASE account[i].state # "gone"
    <3> DEFINE next == [at |-> "create", saw |-> "none"]
               row == [account[i] EXCEPT !.state = "gone"]
    <3>1. register' = [register EXCEPT ![r] = next] /\ account' = [account EXCEPT ![i] = row]
      BY <1>5, <2>3 DEF Displace
    <3>2. next \in RegisterCalls /\ next.at = "create"
      BY <1>1 DEF RegisterCalls
    <3>3. /\ row \in AccountRows /\ row.state = "gone"
          /\ row.verified = account[i].verified /\ row.social = account[i].social
      BY <1>1, <2>1 DEF AccountRows
    <3> HIDE DEF next, row, i
    <3>4. /\ register' \in [Registrars -> RegisterCalls] /\ register'[r] = next
          /\ \A q \in Registrars \ {r} : register'[q] = register[q]
      BY <1>1, <3>1, <3>2
    <3>5. row.verified \/ row.social => Somebodys(i)
      BY <3>3 DEF Somebodys
    <3> QED BY <2>1, <3>1, <3>2, <3>3, <3>4, <3>5, RowChanges
  <2> QED BY <2>2, <2>3
<1>6. ASSUME NEW r \in Registrars, NEW i \in AccountIds, Create(r, i) PROVE AddressInv'
  <2>1. /\ register' = [register EXCEPT ![r] = NoRegister] /\ account[i].state = "none"
        /\ IF Live = {} THEN NewAccount(i, FALSE) ELSE UNCHANGED account
        /\ UNCHANGED surprised
    BY <1>6 DEF Create
  <2>2. /\ register' \in [Registrars -> RegisterCalls] /\ register'[r] = NoRegister
        /\ \A q \in Registrars \ {r} : register'[q] = register[q]
    BY <1>1, <1>2, <2>1
  <2>3. FALSE \in BOOLEAN
    OBVIOUS
  <2> QED BY <1>2, <2>1, <2>2, <2>3, NewRowKept
<1>7. ASSUME NEW i \in AccountIds, Verify(i) PROVE AddressInv'
  <2>1. UNCHANGED register
    BY <1>7 DEF Verify
  <2>2. CASE account[i].state = "gone"
    <3>1. UNCHANGED <<account, surprised>>
      BY <1>7, <2>2 DEF Verify
    <3> QED BY <1>3, <2>1, <3>1
  <2>3. CASE account[i].state # "gone"
    <3> DEFINE row == [account[i] EXCEPT !.verified = TRUE]
    <3>1. /\ account' = [account EXCEPT ![i] = row]
          /\ surprised' = IF \E r \in Registrars : register[r].saw = i
                          THEN surprised \cup {i} ELSE surprised
      BY <1>7, <2>3 DEF Verify
    <3>2. row \in AccountRows /\ row.state = account[i].state /\ row.here = account[i].here
      BY <1>1 DEF AccountRows
    <3> HIDE DEF row
    <3>3. row.state \in {"live", "deleted"} /\ row.here => i \in Live
      BY <3>2 DEF Live
    <3> QED BY <1>1, <2>1, <2>3, <3>1, <3>2, <3>3, RowChanges
  <2> QED BY <2>2, <2>3
<1>8. ASSUME NEW i \in AccountIds, CreateSocial(i) PROVE AddressInv'
  <2>1. TRUE \in BOOLEAN
    OBVIOUS
  <2> QED BY <1>1, <1>8, <2>1, NewRowKept DEF CreateSocial
<1>9. ASSUME NEW i \in AccountIds, LinkSocial(i) PROVE AddressInv'
  <2> DEFINE row == [account[i] EXCEPT !.social = TRUE]
  <2>1. /\ account[i].state = "live" /\ UNCHANGED register
        /\ account' = [account EXCEPT ![i] = row]
        /\ surprised' = IF \E r \in Registrars : register[r].saw = i
                        THEN surprised \cup {i} ELSE surprised
    BY <1>9 DEF LinkSocial, Usable
  <2>2. row \in AccountRows /\ row.state = account[i].state /\ row.here = account[i].here
    BY <1>1 DEF AccountRows
  <2> HIDE DEF row
  <2>3. row.state \in {"live", "deleted"} /\ row.here => i \in Live
    BY <2>2 DEF Live
  <2> QED BY <1>1, <2>1, <2>2, <2>3, RowChanges
<1>10. ASSUME NEW i \in AccountIds, RemoveAccount(i) PROVE AddressInv'
  <2> DEFINE row == [account[i] EXCEPT !.state = "deleted", !.here = FALSE, !.social = FALSE]
  <2>1. account[i].state = "live" /\ UNCHANGED <<register, surprised>>
    BY <1>10 DEF RemoveAccount, Usable
  <2>2. account' = [account EXCEPT ![i] = row]
    BY <1>10 DEF RemoveAccount
  <2>3. /\ row \in AccountRows /\ row.state = "deleted" /\ ~row.here
        /\ row.verified = account[i].verified /\ ~row.social
    BY <1>1 DEF AccountRows
  <2> HIDE DEF row
  <2>4. row.verified \/ row.social => Somebodys(i)
    BY <2>3 DEF Somebodys
  <2> QED BY <1>1, <2>1, <2>2, <2>3, <2>4, RowChanges
<1>11. ASSUME NEW i \in AccountIds, CheckVerify(i) PROVE AddressInv'
  BY <1>3, <1>11 DEF CheckVerify
<1>12. ASSUME NEW l \in Links, CheckLink(l) \/ Redeem(l) \/ (\E i \in AccountIds : SendLink(l, i))
       PROVE  AddressInv'
  BY <1>3, <1>12 DEF CheckLink, Redeem, SendLink
<1>13. CASE BeginSocial \/ UNCHANGED accountsVars
  BY <1>3, <1>13 DEF BeginSocial, accountsVars
<1>14. ASSUME NEW i \in AccountIds, NEW to \in BOOLEAN, ChangeAddress(i, to) PROVE AddressInv'
  <2>1. UNCHANGED <<register, surprised>>
    BY <1>14 DEF ChangeAddress
  <2>2. CASE account[i].state = "gone" \/ (to /\ Live \ {i} # {})
    <3>1. UNCHANGED account
      BY <1>14, <2>2 DEF ChangeAddress
    <3> QED BY <1>3, <2>1, <3>1
  <2>3. CASE ~(account[i].state = "gone" \/ (to /\ Live \ {i} # {}))
    <3> DEFINE row == [account[i] EXCEPT !.here = to]
    <3>1. account' = [account EXCEPT ![i] = row]
      BY <1>14, <2>3 DEF ChangeAddress
    <3>2. /\ row \in AccountRows /\ row.state = account[i].state /\ row.here = to
          /\ row.verified = account[i].verified /\ row.social = account[i].social
      BY <1>1 DEF AccountRows
    <3> HIDE DEF row
    <3>3. row.here => Live \subseteq {i}
      BY <2>3, <3>2
    <3>4. row.verified \/ row.social => Somebodys(i)
      BY <3>2 DEF Somebodys
    <3> QED BY <1>1, <2>1, <2>3, <3>1, <3>2, <3>3, <3>4, RowChanges
  <2> QED BY <2>2, <2>3
<1>15. ASSUME NEW i \in AccountIds, CheckChange(i) PROVE AddressInv'
  BY <1>3, <1>15 DEF CheckChange
<1> QED BY <1>4, <1>5, <1>6, <1>7, <1>8, <1>9, <1>10, <1>11, <1>12, <1>13, <1>14, <1>15
        DEF AccountsNext

\* Every step of those who ask for a link and use it keeps the links.
LEMMA LinksKept == AccountsInv /\ [AccountsNext]_accountsVars => LinksInv'
<1> SUFFICES ASSUME LinksInv, [AccountsNext]_accountsVars PROVE LinksInv'
  BY DEF AccountsInv
<1>1. ASSUME NEW r \in Registrars, BeginRegister(r) \/ Displace(r) \/ (\E i \in AccountIds : Create(r, i))
      PROVE  LinksInv'
  BY <1>1, LinksStay DEF BeginRegister, Displace, Create
<1>2. ASSUME NEW i \in AccountIds, CheckVerify(i) \/ Verify(i) \/ CreateSocial(i)
      PROVE  LinksInv'
  BY <1>2, LinksStay DEF CheckVerify, Verify, CreateSocial
<1>3. ASSUME NEW i \in AccountIds, LinkSocial(i) \/ RemoveAccount(i) PROVE LinksInv'
  BY <1>3, LinksStay DEF LinkSocial, RemoveAccount
<1>4. CASE BeginSocial \/ UNCHANGED accountsVars
  BY <1>4, LinksStay DEF BeginSocial, accountsVars, linkVars
<1>5. ASSUME NEW l \in Links, NEW i \in AccountIds, SendLink(l, i) PROVE LinksInv'
  <2>1. /\ link[l] = "none" /\ link' = [link EXCEPT ![l] = i]
        /\ UNCHANGED <<resetting, stale, redeemed>>
    BY <1>5 DEF SendLink
  <2>2. link' \in [Links -> AccountIds \cup {"none", "used"}]
    BY <2>1 DEF LinksInv
  <2>3. \A k \in Links : link[k] = "used" => link'[k] = "used"
    BY <2>1 DEF LinksInv
  <2> QED BY <2>1, <2>2, <2>3 DEF LinksInv
<1>6. ASSUME NEW l \in Links, CheckLink(l) PROVE LinksInv'
  BY <1>6 DEF CheckLink, LinksInv
<1>7. ASSUME NEW l \in Links, Redeem(l) PROVE LinksInv'
  <2>1. resetting' = resetting \ {l}
    BY <1>7 DEF Redeem
  <2>2. CASE Redeemable(l)
    <3> DEFINE others == {k \in Links : k # l /\ link[k] = link[l]}
    <3>1. /\ redeemed' = [redeemed EXCEPT ![l] = @ + 1] /\ stale' = stale \cup others
          /\ link' = [k \in Links |-> IF k \in others \cup {l} THEN "used" ELSE link[k]]
      BY <1>7, <2>2 DEF Redeem
    <3>2. link[l] \in AccountIds /\ link[l] # "used"
      BY <2>2, AccountsAssumption DEF Redeemable, Out
    <3>3. redeemed[l] = 0 /\ l \notin stale
      BY <3>2 DEF LinksInv
    <3>4. \A k \in others : k # l /\ redeemed[k] = 0
      BY <3>2 DEF LinksInv
    <3>5. link' \in [Links -> AccountIds \cup {"none", "used"}]
      BY <3>1 DEF LinksInv
    <3>6. /\ redeemed' \in [Links -> {0, 1}]
          /\ \A k \in Links \ {l} : redeemed'[k] = redeemed[k]
      BY <3>1, <3>3 DEF LinksInv
    <3>7. \A k \in Links : link[k] = "used" \/ k \in others \/ k = l => link'[k] = "used"
      BY <3>1
    <3> HIDE DEF others
    <3>8. \A k \in Links : redeemed'[k] = 1 => link'[k] = "used"
      BY <3>6, <3>7 DEF LinksInv
    <3>9. \A k \in Links : k \in stale' => link'[k] = "used" /\ redeemed'[k] = 0
      BY <3>1, <3>3, <3>4, <3>6, <3>7 DEF LinksInv
    <3> QED BY <2>1, <3>5, <3>6, <3>8, <3>9 DEF LinksInv
  <2>3. CASE ~Redeemable(l)
    BY <1>7, <2>1, <2>3 DEF Redeem, LinksInv
  <2> QED BY <2>2, <2>3
<1>8. ASSUME NEW i \in AccountIds, CheckChange(i) PROVE LinksInv'
  BY <1>8, LinksStay DEF CheckChange
<1>9. ASSUME NEW i \in AccountIds, NEW to \in BOOLEAN, ChangeAddress(i, to) PROVE LinksInv'
  <2> DEFINE out == {l \in Links : link[l] = i}
  <2>1. UNCHANGED <<resetting, redeemed>>
    BY <1>9 DEF ChangeAddress
  <2>2. CASE UNCHANGED <<stale, link>>
    BY <2>1, <2>2 DEF LinksInv
  <2>3. CASE /\ stale' = stale \cup out
             /\ link' = [l \in Links |-> IF l \in out THEN "used" ELSE link[l]]
    <3>1. link' \in [Links -> AccountIds \cup {"none", "used"}]
      BY <2>3 DEF LinksInv
    <3>2. \A l \in Links : link[l] = "used" \/ l \in out => link'[l] = "used"
      BY <2>3
    <3>3. \A l \in out : redeemed[l] = 0
      BY AccountsAssumption DEF LinksInv
    <3> HIDE DEF out
    <3> QED BY <2>1, <2>3, <3>1, <3>2, <3>3 DEF LinksInv
  <2> QED BY <1>9, <2>2, <2>3 DEF ChangeAddress
<1> QED BY <1>1, <1>2, <1>3, <1>4, <1>5, <1>6, <1>7, <1>8, <1>9 DEF AccountsNext

\* Addresses and links are kept by every step of theirs.
THEOREM AccountsKeptOn == AccountsInv /\ [AccountsNext]_accountsVars => AccountsInv'
BY AddressKept, LinksKept DEF AccountsInv

\* An address has one account, and a link is redeemed once (AccountsKept).
LEMMA AccountsThen == AccountsInv => AccountsKept
<1> SUFFICES ASSUME AccountsInv PROVE AccountsKept
  OBVIOUS
<1>1. Cardinality(Live) <= 1
  <2>1. CASE Live = {}
    BY <2>1, FS_EmptySet
  <2>2. CASE Live # {}
    <3>1. PICK i \in Live : Live = {i}
      BY <2>2 DEF AccountsInv, AddressInv
    <3>2. Cardinality({i}) = 1
      BY FS_Singleton
    <3> QED BY <3>1, <3>2
  <2> QED BY <2>1, <2>2
<1>2. \A l \in Links : redeemed[l] <= 1
  BY DEF AccountsInv, LinksInv
<1> QED BY <1>1, <1>2 DEF AccountsInv, AddressInv, LinksInv, AccountsKept, Somebodys

-----------------------------------------------------------------------------
(* Uploads: an upload that was answered has its object and its owner.      *)

UploadTypeOK ==
  /\ bytes \in [ObjectKeys -> Uploaders \cup {"none"}]
  /\ owner \in [ObjectKeys -> Uploaders \cup {"none"}]
  /\ wrote \in [ObjectKeys -> SUBSET Uploaders]
  /\ job \in [Uploaders -> [at : {"idle", "put", "link", "record", "delete", "forget"},
                            kind : {"file", "avatar"}, key : ObjectKeys \cup {"none"},
                            doubt : BOOLEAN]]
  /\ answered \subseteq Uploaders \X ObjectKeys

\* Whoever is past the put of a key, or deletes it, has written it; and what
\* he is about to be answered for, or deletes, is his alone to delete.
JobInv ==
  \A u \in Uploaders : job[u].at # "idle" =>
    /\ job[u].key \in ObjectKeys
    /\ job[u].at = "put" <=> u \notin wrote[job[u].key]
    /\ job[u].at \in {"link", "record"} /\ wrote[job[u].key] = {u}
         => bytes[job[u].key] = u \/ job[u].key \in discarded
    /\ job[u].at \in {"delete", "forget"} => <<u, job[u].key>> \notin answered

UploadInv == UploadTypeOK /\ JobInv /\ AnsweredIsKept

-----------------------------------------------------------------------------
\* Nothing is stored at first.
THEOREM UploadsInit == UploadInit => UploadInv
BY UploadsAssumption
   DEF UploadInit, NoJob, UploadInv, UploadTypeOK, JobInv, AnsweredIsKept

\* The steps that store nothing, take nothing away and answer nothing new.
LEMMA OtherKeeps ==
  ASSUME UploadInv, UploadTypeOK', UNCHANGED <<bytes, owner, wrote, discarded>>,
         answered' \subseteq answered, JobInv'
  PROVE  UploadInv'
BY DEF UploadInv, AnsweredIsKept, UploadTypeOK

\* A job that only goes from link to record, or ends.
LEMMA MoveKeeps ==
  ASSUME UploadInv, UNCHANGED <<bytes, owner, wrote, answered, discarded>>, NEW u \in Uploaders,
         \/ job' = [job EXCEPT ![u] = NoJob]
         \/ job[u].at = "link" /\ job' = [job EXCEPT ![u].at = "record"]
  PROVE  UploadInv'
<1>1. /\ \A v \in Uploaders \ {u} : job'[v] = job[v]
      /\ \/ job'[u] = NoJob
         \/ job[u].at = "link" /\ job'[u].at = "record" /\ job'[u].key = job[u].key
  BY DEF UploadInv, UploadTypeOK
<1>2. UploadTypeOK'
  <2> DEFINE Job == [at : {"idle", "put", "link", "record", "delete", "forget"},
                     kind : {"file", "avatar"}, key : ObjectKeys \cup {"none"}, doubt : BOOLEAN]
  <2>1. job \in [Uploaders -> Job]
    BY DEF UploadInv, UploadTypeOK
  <2>2. NoJob \in Job
    BY DEF NoJob
  <2>3. job[u] \in Job /\ [job[u] EXCEPT !.at = "record"] \in Job
    BY <2>1
  <2>4. job' = [job EXCEPT ![u] = NoJob] \/ job' = [job EXCEPT ![u] = [job[u] EXCEPT !.at = "record"]]
    BY <2>1
  <2> HIDE DEF Job
  <2>5. job' \in [Uploaders -> Job]
    BY <2>1, <2>2, <2>3, <2>4
  <2> QED BY <2>5 DEF UploadInv, UploadTypeOK, Job
<1>3. JobInv'
  BY <1>1 DEF UploadInv, JobInv, NoJob
<1> QED BY <1>2, <1>3, OtherKeeps

\* Every step of the uploads keeps the invariant.
THEOREM UploadsStep == UploadInv /\ [UploadNext]_uploadVars => UploadInv'
<1> SUFFICES ASSUME UploadInv, [UploadNext]_uploadVars PROVE UploadInv'
  OBVIOUS
<1> USE UploadsAssumption
<1>1. ASSUME NEW u \in Uploaders, NEW k \in ObjectKeys, NEW kind \in {"file", "avatar"},
             NEW doubt \in BOOLEAN, BeginUpload(u, kind, k, doubt)
      PROVE  UploadInv'
  <2>1. /\ UNCHANGED <<bytes, owner, wrote, answered, discarded>> /\ u \notin wrote[k]
        /\ job' = [job EXCEPT ![u] = [at |-> "put", kind |-> kind, key |-> k, doubt |-> doubt]]
    BY <1>1 DEF BeginUpload, reviewVars
  <2>2. UploadTypeOK'
    BY <2>1 DEF UploadInv, UploadTypeOK
  <2>3. JobInv'
    BY <2>1 DEF UploadInv, UploadTypeOK, JobInv
  <2> QED BY <2>1, <2>2, <2>3, OtherKeeps
<1>2. ASSUME NEW u \in Uploaders, Put(u) PROVE UploadInv'
  <2> DEFINE k == job[u].key
  <2>1. /\ job[u].at = "put" /\ k \in ObjectKeys /\ u \notin wrote[k]
        /\ bytes' = [bytes EXCEPT ![k] = u]
        /\ wrote' = [wrote EXCEPT ![k] = @ \cup {u}]
        /\ answered' = answered \ {<<u, k>>} /\ UNCHANGED <<owner, discarded>>
        /\ job' = [job EXCEPT ![u].at = "link"]
    BY <1>2 DEF Put, reviewVars, UploadInv, JobInv
  <2>2. UploadTypeOK'
    BY <2>1 DEF UploadInv, UploadTypeOK
  <2>3. /\ \A l \in ObjectKeys \ {k} : bytes'[l] = bytes[l] /\ wrote'[l] = wrote[l]
        /\ bytes'[k] = u /\ wrote'[k] = wrote[k] \cup {u}
        /\ \A v \in Uploaders \ {u} : job'[v] = job[v]
        /\ job'[u].at = "link" /\ job'[u].key = k
    BY <2>1 DEF UploadInv, UploadTypeOK
  <2> HIDE DEF k
  <2>4. JobInv'
    <3> SUFFICES ASSUME NEW v \in Uploaders, job'[v].at # "idle"
                 PROVE  /\ job'[v].key \in ObjectKeys
                        /\ job'[v].at = "put" <=> v \notin wrote'[job'[v].key]
                        /\ job'[v].at \in {"link", "record"} /\ wrote'[job'[v].key] = {v}
                             => bytes'[job'[v].key] = v \/ job'[v].key \in discarded'
                        /\ job'[v].at \in {"delete", "forget"} =>
                             <<v, job'[v].key>> \notin answered'
      BY DEF JobInv
    <3>1. CASE v = u
      BY <3>1, <2>1, <2>3
    <3>2. CASE v # u
      <4>1. /\ job[v].key \in ObjectKeys
            /\ job[v].at = "put" <=> v \notin wrote[job[v].key]
            /\ job[v].at \in {"link", "record"} /\ wrote[job[v].key] = {v}
                 => bytes[job[v].key] = v \/ job[v].key \in discarded
            /\ job[v].at \in {"delete", "forget"} => <<v, job[v].key>> \notin answered
        BY <3>2, <2>3 DEF UploadInv, JobInv
      <4>2. job'[v] = job[v] /\ wrote'[k] # {v}
        BY <3>2, <2>3
      <4> QED BY <3>2, <4>1, <4>2, <2>1, <2>3
    <3> QED BY <3>1, <3>2
  <2>5. AnsweredIsKept'
    <3>1. \A v \in Uploaders, l \in ObjectKeys :
            <<v, l>> \in answered' /\ wrote'[l] = {v} /\ l \notin discarded' => bytes'[l] = v
      BY <2>1, <2>3 DEF UploadInv, AnsweredIsKept
    <3>2. \A l \in ObjectKeys : owner'[l] # "none" => owner'[l] \in wrote'[l]
      BY <2>1, <2>3 DEF UploadInv, AnsweredIsKept
    <3> QED BY <3>1, <3>2 DEF AnsweredIsKept
  <2> QED BY <2>2, <2>4, <2>5 DEF UploadInv
<1>3. ASSUME NEW u \in Uploaders, Link(u) \/ LoseFlag(u) PROVE UploadInv'
  BY <1>3, MoveKeeps DEF Link, LoseFlag, reviewVars
<1>4. ASSUME NEW u \in Uploaders, Record(u) \/ LoseRecord(u) PROVE UploadInv'
  <2> DEFINE k == job[u].key
  <2>1. /\ job[u].at = "record" /\ k \in ObjectKeys /\ u \in wrote[k]
        /\ wrote[k] = {u} => bytes[k] = u \/ k \in discarded
        /\ UNCHANGED <<bytes, wrote, discarded>> /\ answered' = answered \cup {<<u, k>>}
        /\ owner' = owner \/ owner' = [owner EXCEPT ![k] = u]
        /\ job' = [job EXCEPT ![u] = NoJob]
    BY <1>4 DEF Record, LoseRecord, reviewVars, UploadInv, JobInv
  <2>2. UploadTypeOK'
    BY <2>1 DEF UploadInv, UploadTypeOK, NoJob
  <2>3. JobInv'
    BY <2>1 DEF UploadInv, UploadTypeOK, JobInv, NoJob
  <2>4. AnsweredIsKept'
    BY <2>1 DEF UploadInv, UploadTypeOK, AnsweredIsKept
  <2> QED BY <2>2, <2>3, <2>4 DEF UploadInv
<1>5. ASSUME NEW u \in Uploaders, NEW k \in ObjectKeys, BeginDelete(u, k) PROVE UploadInv'
  <2>1. /\ owner[k] = u /\ u \in wrote[k]
        /\ UNCHANGED <<bytes, owner, wrote, discarded>> /\ answered' = answered \ {<<u, k>>}
        /\ job' = [job EXCEPT ![u] = [at |-> "delete", kind |-> "file", key |-> k,
                                      doubt |-> FALSE]]
    <3>1. /\ owner[k] = u /\ UNCHANGED <<bytes, owner, wrote, discarded>>
          /\ answered' = answered \ {<<u, k>>}
          /\ job' = [job EXCEPT ![u] = [at |-> "delete", kind |-> "file", key |-> k,
                                        doubt |-> FALSE]]
      BY <1>5 DEF BeginDelete, Owns, reviewVars
    <3>2. u # "none" /\ \A l \in ObjectKeys : owner[l] # "none" => owner[l] \in wrote[l]
      BY DEF UploadInv, AnsweredIsKept
    <3> QED BY <3>1, <3>2
  <2>2. UploadTypeOK'
    BY <2>1 DEF UploadInv, UploadTypeOK
  <2>3. JobInv'
    BY <2>1 DEF UploadInv, UploadTypeOK, JobInv
  <2> QED BY <2>1, <2>2, <2>3, OtherKeeps
<1>6. ASSUME NEW u \in Uploaders, DeleteObject(u) PROVE UploadInv'
  <2> DEFINE k == job[u].key
  <2>1. /\ job[u].at = "delete" /\ k \in ObjectKeys /\ u \in wrote[k] /\ <<u, k>> \notin answered
        /\ bytes' = [bytes EXCEPT ![k] = "none"]
        /\ UNCHANGED <<owner, wrote, answered, discarded>>
        /\ job' = [job EXCEPT ![u].at = "forget"]
    BY <1>6 DEF DeleteObject, reviewVars, UploadInv, JobInv
  <2>2. UploadTypeOK'
    BY <2>1 DEF UploadInv, UploadTypeOK
  <2>3. JobInv'
    BY <2>1 DEF UploadInv, UploadTypeOK, JobInv
  <2>4. AnsweredIsKept'
    <3>1. /\ \A l \in ObjectKeys \ {k} : bytes'[l] = bytes[l]
          /\ \A l \in ObjectKeys : owner'[l] # "none" => owner'[l] \in wrote'[l]
      BY <2>1 DEF UploadInv, UploadTypeOK, AnsweredIsKept
    <3> HIDE DEF k
    <3>2. ASSUME NEW v \in Uploaders, NEW l \in ObjectKeys, <<v, l>> \in answered', wrote'[l] = {v},
                 l \notin discarded'
          PROVE  bytes'[l] = v
      <4>1. <<v, l>> \in answered /\ wrote[l] = {v} /\ l \notin discarded
        BY <3>2, <2>1
      <4>2. l # k
        BY <4>1, <2>1
      <4> QED BY <4>1, <4>2, <3>1 DEF UploadInv, AnsweredIsKept
    <3> QED BY <3>1, <3>2 DEF AnsweredIsKept
  <2> QED BY <2>2, <2>3, <2>4 DEF UploadInv
<1>7. ASSUME NEW u \in Uploaders, Forget(u) PROVE UploadInv'
  <2> DEFINE k == job[u].key
  <2>1. /\ k \in ObjectKeys /\ UNCHANGED <<bytes, wrote, answered, discarded>>
        /\ owner' = [owner EXCEPT ![k] = IF @ = u THEN "none" ELSE @]
        /\ job' = [job EXCEPT ![u] = NoJob]
    BY <1>7 DEF Forget, reviewVars, UploadInv, JobInv
  <2>2. UploadTypeOK'
    BY <2>1 DEF UploadInv, UploadTypeOK, NoJob
  <2>3. JobInv'
    BY <2>1 DEF UploadInv, UploadTypeOK, JobInv, NoJob
  <2>4. AnsweredIsKept'
    BY <2>1 DEF UploadInv, UploadTypeOK, AnsweredIsKept
  <2> QED BY <2>2, <2>3, <2>4 DEF UploadInv
<1>8. ASSUME NEW u \in Uploaders, Abort(u) PROVE UploadInv'
  BY <1>8, MoveKeeps DEF Abort, reviewVars
<1>9. ASSUME UNCHANGED <<bytes, owner, wrote, job, answered>>, discarded \subseteq discarded'
      PROVE  UploadInv'
  BY <1>9 DEF UploadInv, UploadTypeOK, JobInv, AnsweredIsKept
<1>10. ASSUME NEW k \in ObjectKeys, ShowImage(k) \/ DeleteListing(k) PROVE UploadInv'
  BY <1>9, <1>10 DEF ShowImage, DeleteListing
<1>11. ASSUME NEW a \in Admins, NEW k \in ObjectKeys, BeginReview(a, k) PROVE UploadInv'
  BY <1>9, <1>11 DEF BeginReview
<1>12. ASSUME NEW a \in Admins, NEW rejected \in BOOLEAN, EndReview(a, rejected) PROVE UploadInv'
  BY <1>9, <1>12 DEF EndReview
<1>14. ASSUME NEW k \in ObjectKeys, SweepImage(k) PROVE UploadInv'
  <2>1. /\ k \in discarded /\ bytes' = [bytes EXCEPT ![k] = "none"]
        /\ UNCHANGED <<owner, wrote, job, answered, discarded>>
    BY <1>14 DEF SweepImage, reviewVars
  <2>2. UploadTypeOK'
    BY <2>1 DEF UploadInv, UploadTypeOK
  <2>3. \A l \in ObjectKeys \ {k} : bytes'[l] = bytes[l]
    BY <2>1 DEF UploadInv, UploadTypeOK
  <2>4. JobInv'
    BY <2>1, <2>3 DEF UploadInv, JobInv
  <2>5. AnsweredIsKept'
    BY <2>1, <2>3 DEF UploadInv, AnsweredIsKept
  <2> QED BY <2>2, <2>4, <2>5 DEF UploadInv
<1>13. CASE UNCHANGED uploadVars
  BY <1>9, <1>13 DEF uploadVars
<1> QED
  BY <1>1, <1>2, <1>3, <1>4, <1>5, <1>6, <1>7, <1>8, <1>10, <1>11, <1>12, <1>13, <1>14
     DEF UploadNext

\* An answered upload is kept until its uploader deletes it or a listing that
\* shows it is deleted, unless somebody else got its key, and an owner has put
\* the object (uploadListingImage, recordUploadOwnership, deleteImage,
\* sweepOrphanImages), for any failures on the way.
THEOREM AnsweredAlways == UploadSpec => []AnsweredIsKept
<1>1. UploadInv => AnsweredIsKept
  BY DEF UploadInv
<1> QED BY UploadsInit, UploadsStep, <1>1, PTL DEF UploadSpec

-----------------------------------------------------------------------------
(* The services side by side: who is not the one at work stays as he is.   *)

RowsInv ==
  /\ FavoritesInv /\ RatingInv /\ NoticesInv
  /\ FollowsInv /\ MethodsInv /\ SearchInv
AloneInv ==
  /\ WalletInv /\ SupportInv /\ PollInv /\ IdentityInv
  /\ NfeInv /\ TwoFaInv /\ AccountsInv
ServicesInv == AloneInv /\ RowsInv /\ ChatInv

\* Every service starts as it has to.
THEOREM ServicesFirst == Init => ServicesInv
<1>1. Init => AloneInv
  BY WalletFirst, SupportFirst, PollFirst, IdentityFirst, NfeFirst, TwoFaFirst, AccountsFirst
     DEF Init, AloneInv
<1>2. Init => RowsInv
  BY FavoritesFirst, ReviewsFirst, NoticesFirst, FollowsFirst, MethodsFirst, SearchFirst
     DEF Init, RowsInv
<1>3. Init => ChatInv
  BY WebFirst, PhoneFirst DEF Init, ChatInv
<1> QED BY <1>1, <1>2, <1>3 DEF ServicesInv

\* A step is one of the service, or leaves all it has.
LEMMA OneAtWork ==
  ASSUME [Next]_vars
  PROVE  /\ [WalletNext]_walletVars
         /\ [SupportNext]_supportVars
         /\ [PollNext]_pollVars
         /\ [IdentityNext]_identityVars
         /\ [NfeNext]_nfeVars
         /\ [TwoFaNext]_twoFaVars
         /\ [AccountsNext]_accountsVars
         /\ [FavoritesNext]_favoriteVars
         /\ [ReviewsNext]_ratingVars
         /\ [NoticesNext]_noticeVars
         /\ [FollowsNext]_followVars
         /\ [MethodsNext]_methodVars
         /\ [SearchNext]_searchVars
<1>1. [WalletNext]_walletVars
  BY DEF Next, Step, Rest, Stays, vars
<1>2. [SupportNext]_supportVars
  BY DEF Next, Step, Rest, Stays, vars
<1>3. [PollNext]_pollVars
  BY DEF Next, Step, Rest, Stays, vars
<1>4. [IdentityNext]_identityVars
  BY DEF Next, Step, Rest, Stays, vars
<1>5. [NfeNext]_nfeVars
  BY DEF Next, Step, Rest, Stays, vars
<1>6. [TwoFaNext]_twoFaVars
  BY DEF Next, Step, Rest, Stays, vars
<1>7. [AccountsNext]_accountsVars
  BY DEF Next, Step, Rest, Stays, vars
<1>8. [FavoritesNext]_favoriteVars
  BY DEF Next, Step, Rest, Stays, vars
<1>9. [ReviewsNext]_ratingVars
  BY DEF Next, Step, Rest, Stays, vars
<1>10. [NoticesNext]_noticeVars
  BY DEF Next, Step, Rest, Stays, vars
<1>11. [FollowsNext]_followVars
  BY DEF Next, Step, Rest, Stays, vars
<1>12. [MethodsNext]_methodVars
  BY DEF Next, Step, Rest, Stays, vars
<1>13. [SearchNext]_searchVars
  BY DEF Next, Step, Rest, Stays, vars
<1> QED BY <1>1, <1>2, <1>3, <1>4, <1>5, <1>6, <1>7, <1>8, <1>9, <1>10, <1>11, <1>12, <1>13

\* The conversation is of two: the browser at work, the phone, or neither.
LEMMA ChatAtWork == ASSUME ChatInv, [Next]_vars PROVE ChatInv'
<1>1. CASE Next /\ part = "web"
  <2>1. WebChatNext /\ UNCHANGED phoneVars
    BY <1>1 DEF Next, Step, Rest, Stays
  <2> QED BY <2>1, ChatByWeb
<1>2. CASE Next /\ part = "phone"
  <2>1. PhoneChatNext /\ UNCHANGED webVars
    BY <1>2 DEF Next, Step, Rest, Stays
  <2> QED BY <2>1, ChatByPhone
<1>3. CASE Next /\ part \notin {"web", "phone"}
  <2>1. UNCHANGED <<<<storeVars, drops>>, webVars, phoneVars>>
    BY <1>3 DEF Next, Rest, Stays
  <2>2. UNCHANGED <<author, read, webVars, phoneVars>>
    BY <2>1 DEF storeVars
  <2> QED BY <2>2, ChatStays
<1>4. CASE UNCHANGED vars
  <2>1. UNCHANGED <<webChatVars, phoneVars>>
    BY <1>4 DEF vars, phoneChatVars
  <2>2. UNCHANGED <<author, read, webVars, phoneVars>>
    BY <2>1 DEF webChatVars, storeVars
  <2> QED BY <2>2, ChatStays
<1> QED BY <1>1, <1>2, <1>3, <1>4

\* Whichever service is at work, the invariants of all of them are kept.
THEOREM ServicesStep == ServicesInv /\ [Next]_vars => ServicesInv'
<1> SUFFICES ASSUME ServicesInv, [Next]_vars PROVE ServicesInv'
  OBVIOUS
<1>1. AloneInv'
  BY OneAtWork, WalletKept, SupportKept, PollKept, IdentityKept, NfeKept, TwoFaKept,
     AccountsKeptOn DEF ServicesInv, AloneInv
<1>2. RowsInv'
  BY OneAtWork, FavoritesKept, RatingsKept, NoticesKept, FollowsKept, MethodsKeptOn,
     SearchKept DEF ServicesInv, RowsInv
<1>3. ChatInv'
  BY ChatAtWork DEF ServicesInv
<1> QED BY <1>1, <1>2, <1>3 DEF ServicesInv

\* So they hold throughout.
LEMMA ServicesAlways == Spec => []ServicesInv
BY ServicesFirst, ServicesStep, PTL DEF Spec

\* The pushes and the slots a listing was given are what the wallet and the
\* card were charged for, and no balance goes below zero, however calls and
\* cut-offs interleave (chargeAndRun, activate).
THEOREM WalletAlways == Spec => []WalletAddsUp
<1>1. ServicesInv => WalletAddsUp
  BY DEF ServicesInv, AloneInv, WalletInv
<1> QED BY <1>1, ServicesAlways, PTL

\* A screen shows a message once, in a browser and on a phone, whatever is
\* lost, late or heard twice (newMessage, handleSend).
THEOREM ShownOnceAlways == Spec => []MessagesShownOnce
<1>1. ServicesInv => MessagesShownOnce
  BY WebThen, PhoneThen DEF ServicesInv, ChatInv, MessagesShownOnce
<1> QED BY <1>1, ServicesAlways, PTL

\* An answer of an agent and a delivery are written once, by however many
\* callers and however often retried (agentReply, markDeliveredInternal).
THEOREM WrittenOnceAlways == Spec => []RetriesWriteOnce
<1>1. ServicesInv => RetriesWriteOnce
  BY SupportThen, PollThen DEF ServicesInv, AloneInv, RetriesWriteOnce
<1> QED BY <1>1, ServicesAlways, PTL

\* An identity is verified and an invoice settled only as the provider said,
\* for any number of users, sessions and documents (webhook, pollPending).
THEOREM ProvidersAlways == Spec => []ProvidersBelieved
<1>1. ServicesInv => ProvidersBelieved
  BY IdentityThen, NfeThen DEF ServicesInv, AloneInv, ProvidersBelieved
<1> QED BY <1>1, ServicesAlways, PTL

\* Codes and links are used once and an address has one account, however many
\* sign in, register or reset at once (consumeSmsCode, register).
THEOREM SignInsAlways == Spec => []SignInsKept
<1>1. ServicesInv => SignInsKept
  BY TwoFaThen, AccountsThen DEF ServicesInv, AloneInv, SignInsKept
<1> QED BY <1>1, ServicesAlways, PTL

\* Rows that repeat or choose among others agree with them: favorites,
\* followers, pushes, ratings, payout keys and the index of the search.
THEOREM RowsAlways == Spec => []RowsAgree
<1>1. ServicesInv => RowsAgree
  BY FavoritesThen, PushesThen, RatingThen, MethodsThen, SearchFollows
     DEF ServicesInv, RowsInv, FollowsInv, RowsAgree
<1> QED BY <1>1, ServicesAlways, PTL
=============================================================================
