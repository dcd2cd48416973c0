-------------------------- MODULE Payments_proofs --------------------------
(***************************************************************************)
(* Proofs about Payments, for any tabs of the buyer, any number of         *)
(* attempts and any bounds on retries, lost calls and crashes.             *)
(***************************************************************************)
EXTENDS Payments, TLAPS

\* The initial state satisfies the invariant.
LEMMA InvInit == Init => PaymentsInv
<1> SUFFICES ASSUME Init
             PROVE  PaymentsInv
  OBVIOUS
<1> USE PaymentsAssumption DEF Init, Attempts
<1>1. TypeOK
  BY DEF TypeOK, Step, Source
<1>2. OneAttemptInFlight /\ MintsAnew /\ SettlesApproved /\ Unminted
  BY DEF OneAttemptInFlight, MintsAnew, SettlesApproved, Unminted
<1> QED
  BY <1>1, <1>2 DEF PaymentsInv

\* The steps of a request keep the types.
LEMMA HandleType ==
  ASSUME TypeOK, NEW r \in Requests, Handle(r)
  PROVE  TypeOK'
<1> USE PaymentsAssumption DEF TypeOK, Attempts, Step, Goto, GotoWith, Done,
        order, payments, requests, jobs, bounds
<1>1. CASE ReconcileBeforeMint(r)
  BY <1>1 DEF ReconcileBeforeMint
<1>2. CASE ReconcileOrder(r)
  BY <1>2 DEF ReconcileOrder
<1>3. CASE AdoptInstrument(r)
  BY <1>3 DEF AdoptInstrument
<1>4. CASE RetireStalled(r)
  BY <1>4 DEF RetireStalled
<1>5. CASE ClearExpired(r)
  BY <1>5 DEF ClearExpired
<1>6. CASE ReserveAttempt(r)
  <2>1. CASE Reservable
    <3>1. attempts + 1 \in Attempts /\ attempts' = attempts + 1
      BY <1>6, <2>1 DEF ReserveAttempt
    <3>2. row' \in [Attempts -> {"none", "PENDING", "FAILED", "SUCCEEDED"}]
      BY <1>6, <2>1, <3>1 DEF ReserveAttempt
    <3>3. step' \in [Requests -> Step]
      BY <1>6, <2>1 DEF ReserveAttempt
    <3>4. about' \in [Requests -> {0} \cup Attempts]
      BY <1>6, <2>1, <3>1 DEF ReserveAttempt
    <3> QED
      BY <1>6, <2>1, <3>1, <3>2, <3>3, <3>4 DEF ReserveAttempt
  <2>2. CASE ~Reservable
    BY <1>6, <2>2 DEF ReserveAttempt
  <2> QED
    BY <2>1, <2>2
<1>7. CASE Mint(r)
  <2>1. instrument' \in [Attempts -> {"none", "live", "approved", "dead"}]
    BY <1>7 DEF Mint
  <2>2. lost' \in Nat /\ step' \in [Requests -> Step]
    BY <1>7 DEF Mint
  <2> QED
    BY <1>7, <2>1, <2>2 DEF Mint
<1>8. CASE FinalizeAttempt(r)
  <2>1. provider' \in [Attempts -> {0} \cup Attempts]
    BY <1>8 DEF FinalizeAttempt
  <2>2. paymentId' \in {0} \cup Attempts
    BY <1>8 DEF FinalizeAttempt
  <2> QED
    BY <1>8, <2>1, <2>2 DEF FinalizeAttempt
<1>9. CASE AbandonAttempt(r)
  BY <1>9 DEF AbandonAttempt
<1>10. CASE RetryCancel(r)
  BY <1>10 DEF RetryCancel
<1>11. CASE RetryFail(r)
  BY <1>11 DEF RetryFail
<1>12. CASE RetryUnbind(r)
  BY <1>12 DEF RetryUnbind
<1> QED
  BY <1>1, <1>2, <1>3, <1>4, <1>5, <1>6, <1>7, <1>8, <1>9, <1>10, <1>11,
     <1>12 DEF Handle

\* Every step keeps the types.
LEMMA TypePreserved ==
  ASSUME TypeOK, [Next]_vars
  PROVE  TypeOK'
<1> USE PaymentsAssumption DEF TypeOK, Attempts, Source, Goto,
        order, payments, requests, jobs, bounds
<1>1. ASSUME NEW r \in Requests, CreatePayment(r) \/ RegeneratePixPayment(r)
      PROVE  TypeOK'
  <2>1. CASE CreatePayment(r)
    BY <2>1 DEF CreatePayment, Step
  <2>2. CASE RegeneratePixPayment(r)
    BY <2>2 DEF RegeneratePixPayment, Step
  <2> QED
    BY <1>1, <2>1, <2>2
<1>2. ASSUME NEW r \in Requests, RetryPayment(r)
      PROVE  TypeOK'
  BY <1>2 DEF RetryPayment, Step
<1>3. ASSUME NEW i \in Attempts, Webhook(i)
      PROVE  TypeOK'
  BY <1>3 DEF Webhook, FindOrder
<1>4. ASSUME NEW i \in Attempts, Poll(i)
      PROVE  TypeOK'
  BY <1>4 DEF Poll, FindOrder
<1>5. ASSUME NEW s \in Source, NEW i \in Attempts, SettlePayment(s, i)
      PROVE  TypeOK'
  BY <1>5 DEF SettlePayment
<1>6. ASSUME NEW i \in Attempts, Resolve(i) \/ Age(i)
      PROVE  TypeOK'
  BY <1>6 DEF Resolve, Age
<1>7. CASE CancelByBuyer \/ ListStale \/ CancelStale
  BY <1>7 DEF CancelByBuyer, ListStale, CancelStale
<1>8. CASE Crash
  <2>1. step' \in [Requests -> Step]
    <3>1. "idle" \in Step
      BY DEF Step
    <3>2. step' = [r \in Requests |-> "idle"]
      BY <1>8 DEF Crash
    <3> QED
      BY <3>1, <3>2
  <2>2. /\ about' \in [Requests -> {0} \cup Attempts]
        /\ seen' \in [Requests -> {0} \cup Attempts]
    BY <1>8 DEF Crash
  <2>3. settling' \subseteq Source \X Attempts /\ doomed' \in BOOLEAN
    BY <1>8 DEF Crash
  <2>4. crashes' \in Nat
    BY <1>8 DEF Crash
  <2>5. UNCHANGED <<order, payments, instrument, handled, again, lost>>
    BY <1>8 DEF Crash
  <2> QED
    BY <2>1, <2>2, <2>3, <2>4, <2>5
<1>9. CASE UNCHANGED vars
  BY <1>9 DEF vars
<1> QED
  BY <1>1, <1>2, <1>3, <1>4, <1>5, <1>6, <1>7, <1>8, <1>9, HandleType DEF Next

\* A step that reserves nothing, starts no call, touches no instrument and
\* begins settling only what was approved keeps the invariant.
LEMMA QuietStep ==
  ASSUME PaymentsInv, TypeOK', attempts' = attempts, instrument' = instrument,
         \A i \in Attempts : row'[i] = "PENDING" => row[i] = "PENDING",
         \A r \in Requests :
           step'[r] = "mint" => step[r] = "mint" /\ about'[r] = about[r],
         \A p \in settling' : p \in settling \/ instrument[p[2]] = "approved"
  PROVE  PaymentsInv'
<1>1. OneAttemptInFlight'
  BY DEF PaymentsInv, OneAttemptInFlight
<1>2. MintsAnew'
  BY DEF PaymentsInv, MintsAnew
<1>3. SettlesApproved'
  BY DEF PaymentsInv, SettlesApproved
<1>4. Unminted'
  BY DEF PaymentsInv, Unminted
<1> QED
  BY <1>1, <1>2, <1>3, <1>4 DEF PaymentsInv

\* A reservation is the only PENDING row, and its number is new.
LEMMA ReserveInv ==
  ASSUME PaymentsInv, TypeOK', NEW r \in Requests, ReserveAttempt(r)
  PROVE  PaymentsInv'
<1> USE PaymentsAssumption DEF TypeOK, Attempts
<1>1. TypeOK
  BY DEF PaymentsInv
<1>2. CASE Reservable
  <2>1. /\ attempts + 1 \in Attempts
        /\ attempts' = attempts + 1
        /\ row' = [row EXCEPT ![attempts + 1] = "PENDING"]
        /\ step' = [step EXCEPT ![r] = "mint"]
        /\ about' = [about EXCEPT ![r] = attempts + 1]
        /\ UNCHANGED <<instrument, settling>>
    BY <1>1, <1>2 DEF ReserveAttempt, GotoWith, jobs
  <2>2. OneAttemptInFlight'
    BY <1>1, <1>2, <2>1 DEF Reservable, NoneInFlight, OneAttemptInFlight
  <2>3. instrument[attempts + 1] = "none"
    BY <1>1, <2>1 DEF PaymentsInv, Unminted
  <2>4. MintsAnew'
    <3> SUFFICES ASSUME NEW q \in Requests, step'[q] = "mint"
                 PROVE  /\ about'[q] \in 1..attempts'
                        /\ instrument'[about'[q]] = "none"
                        /\ \A p \in Requests :
                             step'[p] = "mint" /\ about'[p] = about'[q] => p = q
      BY DEF MintsAnew
    <3>1. \A p \in Requests :
            p # r /\ step'[p] = "mint" =>
              /\ step[p] = "mint"
              /\ about'[p] = about[p]
              /\ about[p] \in 1..attempts
      BY <1>1, <2>1 DEF PaymentsInv, MintsAnew
    <3>2. about'[r] = attempts + 1 /\ step'[r] = "mint"
      BY <1>1, <2>1
    <3>3. CASE q = r
      BY <1>1, <2>1, <2>3, <3>1, <3>2, <3>3
    <3>4. CASE q # r
      BY <1>1, <2>1, <3>1, <3>2, <3>4 DEF PaymentsInv, MintsAnew
    <3> QED
      BY <3>3, <3>4
  <2>5. SettlesApproved' /\ Unminted'
    BY <1>1, <2>1 DEF PaymentsInv, SettlesApproved, Unminted
  <2> QED
    BY <2>2, <2>4, <2>5 DEF PaymentsInv
<1>3. CASE ~Reservable
  BY <1>1, <1>3, QuietStep DEF ReserveAttempt, Done, jobs
<1> QED
  BY <1>2, <1>3

\* A call gives an instrument to an attempt that has none: what was approved
\* stays so, and no other call is about that attempt.
LEMMA MintInv ==
  ASSUME PaymentsInv, TypeOK', NEW r \in Requests, Mint(r)
  PROVE  /\ PaymentsInv'
         /\ \A i \in Attempts :
              instrument[i] = "approved" => instrument'[i] = "approved"
<1> USE PaymentsAssumption DEF TypeOK, Attempts
<1>1. TypeOK
  BY DEF PaymentsInv
<1>2. /\ step[r] = "mint"
      /\ about[r] \in 1..attempts
      /\ about[r] \in Attempts
      /\ instrument[about[r]] = "none"
  BY <1>1 DEF Mint, PaymentsInv, MintsAnew
<1>3. /\ \A i \in Attempts : i # about[r] => instrument'[i] = instrument[i]
      /\ UNCHANGED <<attempts, row, about, settling>>
  BY <1>1 DEF Mint, Goto, payments, jobs
<1>4. \A q \in Requests : step'[q] = "mint" => step[q] = "mint" /\ q # r
  BY <1>1 DEF Mint, Goto
<1>5. \A i \in Attempts :
        instrument[i] = "approved" => instrument'[i] = "approved"
  BY <1>2, <1>3
<1>6. OneAttemptInFlight'
  BY <1>3 DEF PaymentsInv, OneAttemptInFlight
<1>7. MintsAnew'
  BY <1>1, <1>2, <1>3, <1>4 DEF PaymentsInv, MintsAnew
<1>8. SettlesApproved'
  BY <1>1, <1>3, <1>5 DEF PaymentsInv, SettlesApproved
<1>9. Unminted'
  BY <1>1, <1>2, <1>3 DEF PaymentsInv, Unminted
<1> QED
  BY <1>5, <1>6, <1>7, <1>8, <1>9 DEF PaymentsInv

\* The other steps of a request are quiet.
LEMMA HandleInv ==
  ASSUME PaymentsInv, TypeOK', NEW r \in Requests, Handle(r)
  PROVE  PaymentsInv'
<1> USE DEF TypeOK, Goto, GotoWith, Done, payments, jobs
<1>1. TypeOK
  BY DEF PaymentsInv
<1>2. CASE ReconcileBeforeMint(r)
  BY <1>1, <1>2, QuietStep DEF ReconcileBeforeMint
<1>3. CASE ReconcileOrder(r)
  BY <1>1, <1>3, QuietStep DEF ReconcileOrder
<1>4. CASE AdoptInstrument(r)
  BY <1>1, <1>4, QuietStep DEF AdoptInstrument
<1>5. CASE RetireStalled(r)
  BY <1>1, <1>5, QuietStep DEF RetireStalled
<1>6. CASE ClearExpired(r)
  BY <1>1, <1>6, QuietStep DEF ClearExpired
<1>7. CASE ReserveAttempt(r)
  BY <1>7, ReserveInv
<1>8. CASE Mint(r)
  BY <1>8, MintInv
<1>9. CASE FinalizeAttempt(r)
  BY <1>1, <1>9, QuietStep DEF FinalizeAttempt
<1>10. CASE AbandonAttempt(r)
  BY <1>1, <1>10, QuietStep DEF AbandonAttempt
<1>11. CASE RetryCancel(r)
  BY <1>1, <1>11, QuietStep DEF RetryCancel
<1>12. CASE RetryFail(r)
  BY <1>1, <1>12, QuietStep DEF RetryFail
<1>13. CASE RetryUnbind(r)
  BY <1>1, <1>13, QuietStep DEF RetryUnbind
<1> QED
  BY <1>2, <1>3, <1>4, <1>5, <1>6, <1>7, <1>8, <1>9, <1>10, <1>11, <1>12,
     <1>13 DEF Handle

\* Every step keeps the invariant.
LEMMA InvPreserved ==
  ASSUME PaymentsInv, [Next]_vars
  PROVE  PaymentsInv'
<1>1. TypeOK /\ TypeOK'
  BY TypePreserved DEF PaymentsInv
<1> USE DEF TypeOK, Goto, payments, requests, jobs
<1>2. ASSUME NEW r \in Requests, CreatePayment(r)
      PROVE  PaymentsInv'
  BY <1>1, <1>2, QuietStep DEF CreatePayment
<1>3. ASSUME NEW r \in Requests, RegeneratePixPayment(r)
      PROVE  PaymentsInv'
  BY <1>1, <1>3, QuietStep DEF RegeneratePixPayment
<1>4. ASSUME NEW r \in Requests, RetryPayment(r)
      PROVE  PaymentsInv'
  <2>1. \A q \in Requests :
          step'[q] = "mint" => step[q] = "mint" /\ about'[q] = about[q]
    BY <1>1, <1>4 DEF RetryPayment
  <2> QED
    BY <1>1, <1>4, <2>1, QuietStep DEF RetryPayment
<1>5. ASSUME NEW i \in Attempts, Webhook(i)
      PROVE  PaymentsInv'
  <2>1. \A p \in settling' : p \in settling \/ instrument[p[2]] = "approved"
    BY <1>5 DEF Webhook, Approved, FindOrder
  <2> QED
    BY <1>1, <1>5, <2>1, QuietStep DEF Webhook
<1>6. ASSUME NEW i \in Attempts, Poll(i)
      PROVE  PaymentsInv'
  <2>1. \A p \in settling' : p \in settling \/ instrument[p[2]] = "approved"
    BY <1>6 DEF Poll, FindOrder
  <2>2. \A j \in Attempts : row'[j] = "PENDING" => row[j] = "PENDING"
    BY <1>1, <1>6 DEF Poll
  <2> QED
    BY <1>1, <1>6, <2>1, <2>2, QuietStep DEF Poll
<1>7. ASSUME NEW s \in Source, NEW i \in Attempts, SettlePayment(s, i)
      PROVE  PaymentsInv'
  <2>1. \A j \in Attempts : row'[j] = "PENDING" => row[j] = "PENDING"
    BY <1>1, <1>7 DEF SettlePayment
  <2> QED
    BY <1>1, <1>7, <2>1, QuietStep DEF SettlePayment
<1>8. ASSUME NEW i \in Attempts, Resolve(i)
      PROVE  PaymentsInv'
  <2>1. /\ \A j \in Attempts : instrument[j] \in {"none", "approved"} =>
                              instrument'[j] = instrument[j]
        /\ UNCHANGED <<attempts, row, step, about, settling>>
    BY <1>1, <1>8 DEF Resolve
  <2>2. OneAttemptInFlight' /\ MintsAnew'
    BY <1>1, <2>1, PaymentsAssumption
       DEF PaymentsInv, OneAttemptInFlight, MintsAnew, Attempts
  <2>3. SettlesApproved' /\ Unminted'
    BY <1>1, <2>1 DEF PaymentsInv, SettlesApproved, Unminted
  <2> QED
    BY <1>1, <2>2, <2>3 DEF PaymentsInv
<1>9. ASSUME NEW i \in Attempts, Age(i)
      PROVE  PaymentsInv'
  BY <1>1, <1>9, QuietStep DEF Age
<1>10. CASE CancelByBuyer
  BY <1>1, <1>10, QuietStep DEF CancelByBuyer
<1>11. CASE ListStale
  BY <1>1, <1>11, QuietStep DEF ListStale
<1>12. CASE CancelStale
  BY <1>1, <1>12, QuietStep DEF CancelStale
<1>13. CASE Crash
  BY <1>1, <1>13, QuietStep DEF Crash
<1>14. CASE UNCHANGED vars
  BY <1>1, <1>14, QuietStep DEF vars
<1> QED
  BY <1>1, <1>2, <1>3, <1>4, <1>5, <1>6, <1>7, <1>8, <1>9, <1>10, <1>11,
     <1>12, <1>13, <1>14, HandleInv DEF Next

\* The strengthened invariant holds in every reachable state.
THEOREM Invariant == Spec => []PaymentsInv
<1>1. PaymentsInv /\ [Next]_vars => PaymentsInv'
  BY InvPreserved
<1> QED
  BY InvInit, <1>1, PTL DEF Spec

\* However many tabs pay the order and however their calls fail, no two of its
\* attempts are in flight: the check under the lock of reserveAttempt is enough.
THEOREM OneAttemptAlways == Spec => []OneAttemptInFlight
<1>1. PaymentsInv => OneAttemptInFlight
  BY DEF PaymentsInv
<1> QED
  BY Invariant, <1>1, PTL

-----------------------------------------------------------------------------
(* The implementation of Settlement.                                       *)

\* No payment is made at first, in the contract either.
LEMMA ContractInit == Init => Contract!Init
BY DEF Init, Contract!Init, Paid

\* What was paid stays paid.
LEMMA PaidStays ==
  ASSUME PaymentsInv, [Next]_vars, Paid
  PROVE  Paid'
<1>1. TypeOK
  BY DEF PaymentsInv
<1> SUFFICES \A i \in Attempts :
               instrument[i] = "approved" => instrument'[i] = "approved"
  BY DEF Paid
<1>2. ASSUME NEW r \in Requests, Mint(r)
      PROVE  \A i \in Attempts :
               instrument[i] = "approved" => instrument'[i] = "approved"
  BY <1>2, MintInv, TypePreserved DEF PaymentsInv
<1>3. ASSUME NEW j \in Attempts, Resolve(j)
      PROVE  \A i \in Attempts :
               instrument[i] = "approved" => instrument'[i] = "approved"
  BY <1>1, <1>3 DEF Resolve, TypeOK
<1>4. CASE UNCHANGED instrument
  BY <1>4
<1>5. ASSUME NEW r \in Requests, Handle(r), ~Mint(r)
      PROVE  UNCHANGED instrument
  BY <1>5 DEF Handle, ReconcileBeforeMint, ReconcileOrder, AdoptInstrument,
     RetireStalled, ClearExpired, ReserveAttempt, FinalizeAttempt,
     AbandonAttempt, RetryCancel, RetryFail, RetryUnbind
<1>6. ASSUME NEW r \in Requests,
             CreatePayment(r) \/ RegeneratePixPayment(r) \/ RetryPayment(r)
      PROVE  UNCHANGED instrument
  BY <1>6 DEF CreatePayment, RegeneratePixPayment, RetryPayment
<1>7. ASSUME NEW i \in Attempts, Webhook(i) \/ Poll(i) \/ Age(i)
      PROVE  UNCHANGED instrument
  BY <1>7 DEF Webhook, Poll, Age
<1>8. ASSUME NEW s \in Source, NEW i \in Attempts, SettlePayment(s, i)
      PROVE  UNCHANGED instrument
  BY <1>8 DEF SettlePayment
<1>9. CASE CancelByBuyer \/ ListStale \/ CancelStale \/ Crash \/ UNCHANGED vars
  BY <1>9 DEF CancelByBuyer, ListStale, CancelStale, Crash, vars
<1> QED
  BY <1>2, <1>3, <1>4, <1>5, <1>6, <1>7, <1>8, <1>9 DEF Next

\* A step either leaves the order's settlement alone, settles it with the
\* buyer's money behind it, or cancels it while it was open.
LEMMA OrderStep ==
  ASSUME PaymentsInv, [Next]_vars
  PROVE  \/ UNCHANGED <<status, heldBrl>>
         \/ /\ status = "PENDING" /\ Paid
            /\ status' = "PAID" /\ heldBrl' = heldBrl + 1
            /\ UNCHANGED instrument
         \/ /\ status = "PENDING" /\ status' = "CANCELLED"
            /\ UNCHANGED <<heldBrl, instrument>>
<1> DEFINE Goal == \/ UNCHANGED <<status, heldBrl>>
                   \/ /\ status = "PENDING" /\ Paid
                      /\ status' = "PAID" /\ heldBrl' = heldBrl + 1
                      /\ UNCHANGED instrument
                   \/ /\ status = "PENDING" /\ status' = "CANCELLED"
                      /\ UNCHANGED <<heldBrl, instrument>>
<1> SUFFICES Goal
  OBVIOUS
<1>1. ASSUME NEW s \in Source, NEW i \in Attempts, SettlePayment(s, i)
      PROVE  Goal
  <2>1. Paid
    BY <1>1 DEF SettlePayment, PaymentsInv, SettlesApproved, Paid
  <2> QED
    BY <1>1, <2>1 DEF SettlePayment, Flip
<1>2. ASSUME NEW r \in Requests, Handle(r)
      PROVE  Goal
  <2>1. CASE RetryCancel(r)
    BY <2>1 DEF RetryCancel
  <2>2. CASE ~RetryCancel(r)
    BY <1>2, <2>2 DEF Handle, ReconcileBeforeMint, ReconcileOrder,
       AdoptInstrument, RetireStalled, ClearExpired, ReserveAttempt, Mint,
       FinalizeAttempt, AbandonAttempt, RetryFail, RetryUnbind, order
  <2> QED
    BY <2>1, <2>2
<1>3. ASSUME NEW r \in Requests,
             CreatePayment(r) \/ RegeneratePixPayment(r) \/ RetryPayment(r)
      PROVE  Goal
  BY <1>3 DEF CreatePayment, RegeneratePixPayment, RetryPayment, order
<1>4. ASSUME NEW i \in Attempts,
             Webhook(i) \/ Poll(i) \/ Age(i) \/ Resolve(i)
      PROVE  Goal
  BY <1>4 DEF Webhook, Poll, Age, Resolve, order
<1>5. CASE CancelByBuyer \/ CancelStale
  BY <1>5 DEF CancelByBuyer, CancelStale
<1>6. CASE ListStale \/ Crash \/ UNCHANGED vars
  BY <1>6 DEF ListStale, Crash, vars, order
<1> QED
  BY <1>1, <1>2, <1>3, <1>4, <1>5, <1>6 DEF Next

\* Each step is a step of Settlement, or leaves its variables alone.
LEMMA ContractStep ==
  ASSUME PaymentsInv, [Next]_vars
  PROVE  [Contract!Next]_<<status, heldBrl, Paid>>
<1>1. Paid \in BOOLEAN /\ Paid' \in BOOLEAN
  BY DEF Paid
<1>2. UNCHANGED instrument => Paid' = Paid
  BY DEF Paid
<1>3. CASE UNCHANGED <<status, heldBrl>>
  <2>1. CASE Paid' = Paid
    BY <1>3, <2>1
  <2>2. CASE Paid' # Paid
    BY <1>1, <1>3, <2>2, PaidStays DEF Contract!Next, Contract!BuyerPays
  <2> QED
    BY <2>1, <2>2
<1>4. CASE /\ status = "PENDING" /\ Paid
           /\ status' = "PAID" /\ heldBrl' = heldBrl + 1
           /\ UNCHANGED instrument
  BY <1>1, <1>2, <1>4 DEF Contract!Next, Contract!Settle
<1>5. CASE /\ status = "PENDING" /\ status' = "CANCELLED"
           /\ UNCHANGED <<heldBrl, instrument>>
  BY <1>2, <1>5 DEF Contract!Next, Contract!Cancel
<1> QED
  BY <1>3, <1>4, <1>5, OrderStep

\* However webhooks, polls, retries, tabs, cancellations and crashes race, the
\* order is settled or cancelled once and for good, settled only if the buyer
\* paid, and its price is held exactly once.
THEOREM Implementation == Spec => ImplementsSettlement
<1>1. PaymentsInv /\ [Next]_vars => [Contract!Next]_<<status, heldBrl, Paid>>
  BY ContractStep
<1> QED
  BY ContractInit, Invariant, <1>1, PTL
     DEF Spec, ImplementsSettlement, Contract!Spec

-----------------------------------------------------------------------------
(* At most one payable instrument.                                         *)

\* No step makes a history calm again.
LEMMA CalmBefore ==
  ASSUME TypeOK, [Next]_vars, Calm'
  PROVE  Calm
<1> USE DEF TypeOK, Calm, bounds
<1>1. ASSUME NEW r \in Requests, Handle(r)
      PROVE  Calm
  <2>1. CASE Mint(r)
    BY <2>1 DEF Mint
  <2>2. CASE ~Mint(r)
    BY <1>1, <2>2 DEF Handle, ReconcileBeforeMint, ReconcileOrder,
       AdoptInstrument, RetireStalled, ClearExpired, ReserveAttempt,
       FinalizeAttempt, AbandonAttempt, RetryCancel, RetryFail, RetryUnbind
  <2> QED
    BY <2>1, <2>2
<1>2. ASSUME NEW r \in Requests,
             CreatePayment(r) \/ RegeneratePixPayment(r) \/ RetryPayment(r)
      PROVE  Calm
  BY <1>2 DEF CreatePayment, RegeneratePixPayment, RetryPayment
<1>3. ASSUME NEW i \in Attempts,
             Webhook(i) \/ Poll(i) \/ Age(i) \/ Resolve(i)
      PROVE  Calm
  BY <1>3 DEF Webhook, Poll, Age, Resolve
<1>4. ASSUME NEW s \in Source, NEW i \in Attempts, SettlePayment(s, i)
      PROVE  Calm
  BY <1>4 DEF SettlePayment
<1>5. CASE CancelByBuyer \/ ListStale \/ CancelStale \/ Crash \/ UNCHANGED vars
  BY <1>5 DEF CancelByBuyer, ListStale, CancelStale, Crash, vars
<1> QED
  BY <1>1, <1>2, <1>3, <1>4, <1>5 DEF Next

\* A step that begins and ends no call, and leaves the pointer, the unbound
\* rows and what has an instrument as they are, keeps the invariant.
LEMMA CalmQuiet ==
  ASSUME CalmInv, Calm, TypeOK,
         paymentId' = paymentId, attempts' = attempts, old' = old,
         provider' = provider,
         \A i \in Attempts :
           /\ row'[i] = "PENDING" /\ provider[i] = 0 <=> Unbound(i)
           /\ instrument'[i] = "none" <=> instrument[i] = "none",
         \A r \in Requests :
           /\ step'[r] # step[r] =>
                /\ step[r] \in {"idle", "pix", "reserve"}
                /\ step'[r] \in {"idle", "pix", "reserve"}
           /\ Calling(r) => about'[r] = about[r]
  PROVE  CalmInv'
<1>1. \A r \in Requests : Calling(r)' <=> Calling(r)
  BY DEF Calling
<1>2. \A r \in Requests : Calling(r)' \/ step'[r] \in {"idle", "pix", "reserve"}
  BY DEF CalmInv, Calling
<1>3. \A r, q \in Requests : Calling(r)' /\ Calling(q)' => r = q
  BY <1>1 DEF CalmInv
<1>4. \A r \in Requests :
        Calling(r)' => /\ about'[r] \in Attempts \ old'
                       /\ Unbound(about[r])'
                       /\ paymentId' = 0
  BY <1>1 DEF CalmInv, Unbound
<1>5. \A i \in Attempts :
        Unbound(i)' => \E r \in Requests : Calling(r)' /\ about'[r] = i
  BY <1>1 DEF CalmInv, Unbound
<1>6. \A i \in Attempts :
        instrument'[i] # "none" =>
          \/ paymentId' = i
          \/ \E r \in Requests : step'[r] = "finalize" /\ about'[r] = i
  BY DEF CalmInv, Calling
<1>7. \A i \in Attempts :
        i > attempts' =>
          row'[i] # "PENDING" /\ provider'[i] = 0 /\ i \notin old'
  BY DEF CalmInv, Unbound
<1> QED
  BY <1>2, <1>3, <1>4, <1>5, <1>6, <1>7 DEF CalmInv

\* The steps of a request, in a calm history.
LEMMA CalmHandle ==
  ASSUME PaymentsInv, TypeOK', CalmInv, Calm, Calm', NEW r \in Requests, Handle(r)
  PROVE  CalmInv'
<1> USE PaymentsAssumption DEF TypeOK, Goto, GotoWith, Done, payments, jobs, order
<1>1. TypeOK
  BY DEF PaymentsInv
<1>2. /\ \A q \in Requests : Calling(q) \/ step[q] \in {"idle", "pix", "reserve"}
      /\ \A q, p \in Requests : Calling(q) /\ Calling(p) => q = p
      /\ \A q \in Requests : Calling(q) => /\ about[q] \in Attempts \ old
                                          /\ Unbound(about[q])
                                          /\ paymentId = 0
      /\ \A i \in Attempts :
           Unbound(i) => \E q \in Requests : Calling(q) /\ about[q] = i
      /\ \A i \in Attempts :
           instrument[i] # "none" =>
             \/ paymentId = i
             \/ \E q \in Requests : step[q] = "finalize" /\ about[q] = i
      /\ \A i \in Attempts :
           i > attempts => row[i] # "PENDING" /\ provider[i] = 0 /\ i \notin old
  BY DEF CalmInv
<1>3. CASE ReconcileBeforeMint(r)
  <2>1. \A i \in Attempts : ~Stalled(i)
    BY <1>2 DEF Stalled
  <2>2. step[r] = "pix" /\ step' = [step EXCEPT ![r] = "reserve"]
    BY <1>3, <2>1 DEF ReconcileBeforeMint
  <2> QED
    BY <1>1, <1>2, <1>3, <2>2, CalmQuiet DEF ReconcileBeforeMint, Calling, Unbound
<1>4. CASE ReserveAttempt(r)
  <2>1. CASE Reservable
    <3>1. /\ step[r] = "reserve"
          /\ attempts + 1 \in Attempts
          /\ attempts' = attempts + 1
          /\ row' = [row EXCEPT ![attempts + 1] = "PENDING"]
          /\ step' = [step EXCEPT ![r] = "mint"]
          /\ about' = [about EXCEPT ![r] = attempts + 1]
          /\ paymentId = 0 /\ UNCHANGED <<paymentId, provider, old, instrument>>
      BY <1>1, <1>4, <2>1 DEF ReserveAttempt, Reservable, Attempts
    <3>2. \A q \in Requests : ~Calling(q)
      BY <1>2, <2>1 DEF Reservable, NoneInFlight, Unbound
    <3>3. \A i \in Attempts : instrument[i] = "none"
      BY <1>2, <3>1, <3>2 DEF Calling, Attempts
    <3>4. \A q \in Requests : Calling(q)' <=> q = r
      BY <1>1, <3>1, <3>2 DEF Calling
    <3>5. about'[r] = attempts + 1 /\ attempts + 1 \notin old
      BY <1>1, <1>2, <3>1 DEF Attempts
    <3>6. \A i \in Attempts : Unbound(i)' <=> i = attempts + 1 /\ provider[i] = 0
      BY <1>1, <2>1, <3>1 DEF Unbound, Reservable, NoneInFlight
    <3>7. provider[attempts + 1] = 0
      BY <1>1, <1>2, <3>1 DEF Attempts
    <3>8. \A q \in Requests : Calling(q)' \/ step'[q] \in {"idle", "pix", "reserve"}
      BY <1>1, <1>2, <3>1, <3>2, <3>4
    <3>9. \A i \in Attempts :
            i > attempts' =>
              row'[i] # "PENDING" /\ provider'[i] = 0 /\ i \notin old'
      <4> SUFFICES ASSUME NEW i \in Attempts, i > attempts + 1
                   PROVE  row'[i] # "PENDING" /\ provider[i] = 0 /\ i \notin old
        BY <3>1
      <4>1. attempts \in Nat /\ i \in Nat
        BY <1>1 DEF Attempts
      <4>2. row[i] # "PENDING" /\ provider[i] = 0 /\ i \notin old
        BY <1>2, <4>1
      <4> QED
        BY <1>1, <3>1, <4>1, <4>2
    <3> QED
      BY <3>1, <3>3, <3>4, <3>5, <3>6, <3>7, <3>8, <3>9 DEF CalmInv
  <2>2. CASE ~Reservable
    BY <1>1, <1>2, <1>4, <2>2, CalmQuiet DEF ReserveAttempt, Calling, Unbound
  <2> QED
    BY <2>1, <2>2
<1>5. CASE Mint(r)
  <2>1. /\ step[r] = "mint" /\ Calling(r)
        /\ \A q \in Requests : q # r => step'[q] = step[q]
        /\ step'[r] = "finalize" \/ (step'[r] = "abandon" /\ instrument' = instrument)
        /\ \A i \in Attempts : i # about[r] => instrument'[i] = instrument[i]
        /\ UNCHANGED <<paymentId, attempts, row, provider, old, about>>
    BY <1>1, <1>5 DEF Mint, Calling, Calm
  <2>2. \A q \in Requests : Calling(q)' <=> Calling(q)
    BY <2>1 DEF Calling
  <2>3. \A i \in Attempts : Unbound(i)' <=> Unbound(i)
    BY <2>1 DEF Unbound
  <2>4. \A q \in Requests :
          Calling(q)' => /\ about'[q] \in Attempts \ old'
                         /\ Unbound(about[q])'
                         /\ paymentId' = 0
    BY <1>2, <2>1, <2>2 DEF Unbound
  <2>5. \A i \in Attempts :
          instrument'[i] # "none" =>
            \/ paymentId' = i
            \/ \E q \in Requests : step'[q] = "finalize" /\ about'[q] = i
    <3> SUFFICES ASSUME NEW i \in Attempts, instrument'[i] # "none"
                 PROVE  \E q \in Requests : step'[q] = "finalize" /\ about'[q] = i
      OBVIOUS
    <3>1. paymentId # i
      BY <1>2, <2>1 DEF Attempts
    <3>2. ~ \E q \in Requests : step[q] = "finalize" /\ about[q] = i
      BY <1>2, <2>1 DEF Calling
    <3>3. instrument[i] = "none"
      BY <1>2, <3>1, <3>2
    <3> QED
      BY <2>1, <3>3
  <2> QED
    BY <1>2, <2>1, <2>2, <2>3, <2>4, <2>5 DEF CalmInv
<1>6. CASE FinalizeAttempt(r)
  <2>1. /\ step[r] = "finalize" /\ Calling(r)
        /\ about[r] \in Attempts /\ about[r] # 0 /\ about[r] <= attempts
        /\ provider' = [provider EXCEPT ![about[r]] = about[r]]
        /\ paymentId' = about[r]
        /\ step' = [step EXCEPT ![r] = "idle"]
        /\ UNCHANGED <<attempts, row, old, instrument>>
    BY <1>1, <1>2, <1>6 DEF FinalizeAttempt, Calling, Attempts, Unbound
  <2>2. \A q \in Requests : ~Calling(q)' /\ step'[q] \in {"idle", "pix", "reserve"}
    BY <1>1, <1>2, <2>1 DEF Calling
  <2>3. \A i \in Attempts : ~Unbound(i)'
    BY <1>1, <1>2, <2>1 DEF Unbound, Attempts
  <2>4. \A i \in Attempts : instrument'[i] # "none" => paymentId' = i
    <3> SUFFICES ASSUME NEW i \in Attempts, instrument[i] # "none"
                 PROVE  about[r] = i
      BY <2>1
    <3>1. paymentId # i
      BY <1>2, <2>1 DEF Attempts
    <3>2. \E q \in Requests : step[q] = "finalize" /\ about[q] = i
      BY <1>2, <3>1
    <3> QED
      BY <1>2, <2>1, <3>2 DEF Calling
  <2>5. \A i \in Attempts :
          i > attempts' =>
            row'[i] # "PENDING" /\ provider'[i] = 0 /\ i \notin old'
    BY <1>1, <1>2, <2>1 DEF Attempts
  <2> QED
    BY <2>2, <2>3, <2>4, <2>5 DEF CalmInv
<1>7. CASE AbandonAttempt(r)
  <2>1. /\ step[r] = "abandon" /\ Calling(r)
        /\ row' = [row EXCEPT ![about[r]] = "FAILED"]
        /\ step' = [step EXCEPT ![r] = "idle"]
        /\ UNCHANGED <<paymentId, attempts, provider, old, instrument>>
    BY <1>7 DEF AbandonAttempt, Calling
  <2>2. \A q \in Requests : ~Calling(q)' /\ step'[q] \in {"idle", "pix", "reserve"}
    BY <1>1, <1>2, <2>1 DEF Calling
  <2>3. \A i \in Attempts : ~Unbound(i)'
    BY <1>1, <1>2, <2>1 DEF Unbound
  <2>4. \A i \in Attempts : instrument'[i] # "none" => paymentId' = i
    BY <1>2, <2>1 DEF Calling
  <2>5. \A i \in Attempts :
          i > attempts' =>
            row'[i] # "PENDING" /\ provider'[i] = 0 /\ i \notin old'
    BY <1>1, <1>2, <2>1
  <2> QED
    BY <2>2, <2>3, <2>4, <2>5 DEF CalmInv
<1> QED
  BY <1>2, <1>3, <1>4, <1>5, <1>6, <1>7
     DEF Handle, ReconcileOrder, AdoptInstrument, RetireStalled, ClearExpired,
         RetryCancel, RetryFail, RetryUnbind, Calling

\* Every step keeps the invariant.
LEMMA CalmPreserved ==
  ASSUME PaymentsInv, CalmInv, [Next]_vars
  PROVE  CalmInv'
<1>1. TypeOK /\ TypeOK'
  BY TypePreserved DEF PaymentsInv
<1> SUFFICES ASSUME Calm'
             PROVE  CalmInv'
  BY DEF CalmInv
<1>2. Calm
  BY <1>1, CalmBefore
<1>3. /\ \A r \in Requests : Calling(r) \/ step[r] \in {"idle", "pix", "reserve"}
      /\ \A r \in Requests : Calling(r) => about[r] \in Attempts
  BY <1>2 DEF CalmInv
<1> USE DEF TypeOK, Goto, order, payments, requests, jobs, bounds
<1>4. ASSUME NEW r \in Requests, Handle(r)
      PROVE  CalmInv'
  BY <1>1, <1>2, <1>4, CalmHandle
<1>5. ASSUME NEW r \in Requests, CreatePayment(r)
      PROVE  CalmInv'
  BY <1>1, <1>2, <1>3, <1>5, CalmQuiet DEF CreatePayment, Unbound
<1>6. ASSUME NEW r \in Requests, RegeneratePixPayment(r) \/ RetryPayment(r)
      PROVE  FALSE
  BY <1>1, <1>2, <1>6 DEF RegeneratePixPayment, RetryPayment, Calm
<1>7. ASSUME NEW i \in Attempts, Webhook(i)
      PROVE  CalmInv'
  BY <1>1, <1>2, <1>3, <1>7, CalmQuiet DEF Webhook, Unbound
<1>8. ASSUME NEW i \in Attempts, Poll(i)
      PROVE  CalmInv'
  <2>1. \A j \in Attempts : row'[j] = "PENDING" /\ provider[j] = 0 <=> Unbound(j)
    BY <1>1, <1>8 DEF Poll, Unbound
  <2> QED
    BY <1>1, <1>2, <1>3, <1>8, <2>1, CalmQuiet DEF Poll
<1>9. ASSUME NEW s \in Source, NEW i \in Attempts, SettlePayment(s, i)
      PROVE  CalmInv'
  <2>1. \A j \in Attempts : row'[j] = "PENDING" /\ provider[j] = 0 <=> Unbound(j)
    BY <1>1, <1>9, PaymentsAssumption DEF SettlePayment, Unbound, Attempts
  <2> QED
    BY <1>1, <1>2, <1>3, <1>9, <2>1, CalmQuiet DEF SettlePayment
<1>10. ASSUME NEW i \in Attempts, Resolve(i)
       PROVE  CalmInv'
  <2>1. \A j \in Attempts : instrument'[j] = "none" <=> instrument[j] = "none"
    BY <1>1, <1>10 DEF Resolve
  <2> QED
    BY <1>1, <1>2, <1>3, <1>10, <2>1, CalmQuiet DEF Resolve, Unbound
<1>11. ASSUME NEW i \in Attempts, Age(i)
       PROVE  CalmInv'
  <2>1. /\ i <= attempts /\ old' = old \cup {i}
        /\ \A r \in Requests : Calling(r) => about[r] # i
        /\ UNCHANGED <<order, attempts, row, provider, instrument, requests>>
    BY <1>11 DEF Age, Calling
  <2>2. \A r \in Requests : Calling(r)' <=> Calling(r)
    BY <2>1 DEF Calling
  <2>3. \A j \in Attempts : Unbound(j)' <=> Unbound(j)
    BY <2>1 DEF Unbound
  <2>4. \A r \in Requests :
          Calling(r) => /\ about[r] \in Attempts \ old'
                        /\ Unbound(about[r])'
                        /\ paymentId = 0
    BY <1>2, <2>1 DEF CalmInv, Unbound
  <2>5. \A j \in Attempts :
          j > attempts => row[j] # "PENDING" /\ provider[j] = 0 /\ j \notin old'
    BY <1>1, <1>2, <2>1, PaymentsAssumption DEF CalmInv, Attempts
  <2> QED
    BY <1>2, <2>1, <2>2, <2>3, <2>4, <2>5 DEF CalmInv
<1>12. CASE CancelByBuyer \/ ListStale \/ CancelStale
  BY <1>1, <1>2, <1>3, <1>12, CalmQuiet
     DEF CancelByBuyer, ListStale, CancelStale, Unbound
<1>13. CASE Crash
  BY <1>1, <1>2, <1>13 DEF Crash, Calm
<1>14. CASE UNCHANGED vars
  BY <1>1, <1>2, <1>3, <1>14, CalmQuiet DEF vars, Unbound
<1> QED
  BY <1>4, <1>5, <1>6, <1>7, <1>8, <1>9, <1>10, <1>11, <1>12, <1>13, <1>14
     DEF Next

\* However many tabs pay the order and however webhooks, polls and cancellations
\* race with them, at most one instrument of it can take the buyer's money, as
\* long as nobody retries or regenerates and no call is lost or cut off.
THEOREM OnePayableAlways == Spec => []OnePayable
<1>1. Init => CalmInv
  BY PaymentsAssumption
     DEF Init, CalmInv, Calling, Unbound, Attempts
<1>2. PaymentsInv /\ CalmInv /\ [Next]_vars => CalmInv'
  BY CalmPreserved
<1>3. PaymentsInv /\ CalmInv => OnePayable
  <2> SUFFICES ASSUME PaymentsInv, CalmInv, Calm,
                      NEW i \in Attempts, instrument[i] # "none",
                      NEW j \in Attempts, instrument[j] # "none"
               PROVE  i = j
    BY DEF OnePayable
  <2>1. \A r, q \in Requests : step[r] = "finalize" /\ step[q] = "finalize" => r = q
    BY DEF CalmInv, Calling
  <2>2. \A r \in Requests : step[r] = "finalize" => paymentId = 0
    BY DEF CalmInv, Calling
  <2>3. i # 0 /\ j # 0
    BY PaymentsAssumption DEF Attempts
  <2> QED
    BY <2>1, <2>2, <2>3 DEF CalmInv
<1> QED
  BY Invariant, <1>1, <1>2, <1>3, PTL DEF Spec
=============================================================================
