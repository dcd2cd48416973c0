------------------------------ MODULE Payments ------------------------------
(***************************************************************************)
(* PaymentsService and PaymentsReconciliationCron, for one PENDING order:  *)
(* the requests that reserve an attempt (a Payment row), mint an           *)
(* instrument for it at Mercado Pago and bind the two, the webhook and the *)
(* poller that settle the order, and the ways it is cancelled.             *)
(*                                                                         *)
(* An attempt is its attemptNumber. The idempotency key is derived from    *)
(* it, so an attempt mints at most one instrument however often the call   *)
(* is retried, and the instrument is named after the attempt; 0 stands for *)
(* null. Ownership, amounts and the texts shown to the buyer are left out. *)
(***************************************************************************)
EXTENDS Naturals

CONSTANTS
  Requests,           \* the request handlers of the buyer's tabs
  MaxPaymentAttempts, \* MAX_PAYMENT_ATTEMPTS
  MaxAttempts,        \* bound: Payment rows of the order
  MaxAgain,           \* bound: calls of retryPayment and regeneratePixPayment
  MaxLost,            \* bound: calls MP executes and we see fail
  MaxCrashes          \* bound: crashes of the API process

ASSUME PaymentsAssumption ==
  /\ MaxPaymentAttempts \in Nat
  /\ MaxAttempts \in Nat
  /\ MaxAgain \in Nat
  /\ MaxLost \in Nat
  /\ MaxCrashes \in Nat

Attempts == 1..MaxAttempts
Source == {"webhook", "poller"}

VARIABLES
  status,     \* Order.status
  paymentId,  \* Order.paymentId
  heldBrl,    \* how often the order's price was added to pendingBrl
  attempts,   \* how many Payment rows the order has
  row,        \* Payment.status
  provider,   \* Payment.providerPaymentId
  old,        \* the rows past the stall window and the poller's grace period
  instrument, \* external: the instruments at Mercado Pago
  step,       \* the next step of each request
  about,      \* the attempt that step is about
  seen,       \* the paymentId a retry read
  settling,   \* processApprovedPayment found the order, and is to settle it
  handled,    \* ProcessedWebhook: the deliveries of an approval, by source
  doomed,     \* cancelStalePendingOrders has the order on its list
  again, lost, crashes

order    == <<status, paymentId, heldBrl>>
payments == <<attempts, row, provider, old>>
requests == <<step, about, seen>>
jobs     == <<settling, handled, doomed>>
bounds   == <<again, lost, crashes>>
vars     == <<order, payments, instrument, requests, jobs, bounds>>

Step == {"idle", "pix", "search", "adopt", "retire", "reserve", "mint",
         "finalize", "abandon", "regenerate", "clear", "cancel", "fail",
         "unbind"}

TypeOK ==
  /\ status \in {"PENDING", "PAID", "CANCELLED"}
  /\ paymentId \in {0} \cup Attempts
  /\ heldBrl \in Nat
  /\ attempts \in {0} \cup Attempts
  /\ row \in [Attempts -> {"none", "PENDING", "FAILED", "SUCCEEDED"}]
  /\ provider \in [Attempts -> {0} \cup Attempts]
  /\ old \subseteq Attempts
  /\ instrument \in [Attempts -> {"none", "live", "approved", "dead"}]
  /\ step \in [Requests -> Step]
  /\ about \in [Requests -> {0} \cup Attempts]
  /\ seen \in [Requests -> {0} \cup Attempts]
  /\ settling \subseteq Source \X Attempts
  /\ handled \subseteq Source \X Attempts
  /\ doomed \in BOOLEAN
  /\ again \in Nat
  /\ lost \in Nat
  /\ crashes \in Nat

Init ==
  /\ status = "PENDING"
  /\ paymentId = 0
  /\ heldBrl = 0
  /\ attempts = 0
  /\ row = [i \in Attempts |-> "none"]
  /\ provider = [i \in Attempts |-> 0]
  /\ old = {}
  /\ instrument = [i \in Attempts |-> "none"]
  /\ step = [r \in Requests |-> "idle"]
  /\ about = [r \in Requests |-> 0]
  /\ seen = [r \in Requests |-> 0]
  /\ settling = {}
  /\ handled = {}
  /\ doomed = FALSE
  /\ again = 0
  /\ lost = 0
  /\ crashes = 0

-----------------------------------------------------------------------------
(* Slips: what a definition below would be with a plausible mistake. No    *)
(* step uses them; each is caught by a property (PROJECT.json, "mutants"). *)

\* The pointer of the order alone is the mutex between two requests.
PointerOnly == TRUE

\* The adopted instrument is bound to the order and to no row.
AttachNothing(i) == FALSE

\* The order found before the transaction is updated by its id.
FlipById == TRUE

-----------------------------------------------------------------------------
(* A request moves from step to step; a rejected one is over.              *)
Goto(r, s) ==
  /\ step' = [step EXCEPT ![r] = s]
  /\ UNCHANGED <<about, seen>>
GotoWith(r, s, i) ==
  /\ step' = [step EXCEPT ![r] = s]
  /\ about' = [about EXCEPT ![r] = i]
  /\ UNCHANGED seen
Done(r) ==
  /\ step' = [step EXCEPT ![r] = "idle"]
  /\ about' = [about EXCEPT ![r] = 0]
  /\ seen' = [seen EXCEPT ![r] = 0]

\* createPixPayment, or createCardPayment and createBoletoPayment, which start
\* by reserving.
CreatePayment(r) ==
  /\ step[r] = "idle"
  /\ \E s \in {"pix", "reserve"} : Goto(r, s)
  /\ UNCHANGED <<order, payments, instrument, jobs, bounds>>

RegeneratePixPayment(r) ==
  /\ step[r] = "idle"
  /\ status = "PENDING"
  /\ again < MaxAgain
  /\ again' = again + 1
  /\ Goto(r, "regenerate")
  /\ UNCHANGED <<order, payments, instrument, jobs, lost, crashes>>

\* A reservation that never got a provider id, and one that is also old.
Unbound(i) == row[i] = "PENDING" /\ provider[i] = 0
Stalled(i) == Unbound(i) /\ i \in old

\* reconcileBeforeMint: nothing to ask about, or the order is asked for first.
ReconcileBeforeMint(r) ==
  /\ step[r] = "pix"
  /\ CASE ~ \E i \in Attempts : Stalled(i) -> Goto(r, "reserve")
       [] (\E i \in Attempts : Stalled(i)) /\ status = "PENDING" -> Goto(r, "search")
       [] OTHER -> Done(r)
  /\ UNCHANGED <<order, payments, instrument, jobs, bounds>>

\* reconcileOrder: the search fails or finds nothing (hold), finds an
\* instrument that is live or approved (adopt), or finds only dead ones
\* (mint). Its index lags, so it may find any part of what there is.
ReconcileOrder(r) ==
  /\ step[r] \in {"search", "regenerate"}
  /\ \/ Done(r)
     \/ \E i \in Attempts :
          /\ step[r] = "search"
          /\ instrument[i] \in {"live", "approved"}
          /\ GotoWith(r, "adopt", i)
     \/ /\ \E i \in Attempts : instrument[i] = "dead"
        /\ Goto(r, IF step[r] = "search" THEN "retire" ELSE "clear")
  /\ UNCHANGED <<order, payments, instrument, jobs, bounds>>

\* adoptInstrument: point the order at it, if it points at none, and attach it
\* to the oldest reservation without a provider id.
AttachTo(i) == Unbound(i) /\ \A j \in Attempts : Unbound(j) => i <= j
AdoptInstrument(r) ==
  /\ step[r] = "adopt"
  /\ paymentId' = IF paymentId = 0 THEN about[r] ELSE paymentId
  /\ provider' = [i \in Attempts |->
                    IF AttachTo(i) THEN about[r] ELSE provider[i]]
  /\ Done(r)
  /\ UNCHANGED <<status, heldBrl, attempts, row, old, instrument, jobs, bounds>>

\* The stalled reservations are retired before a new one is made.
RetireStalled(r) ==
  /\ step[r] = "retire"
  /\ row' = [i \in Attempts |-> IF Stalled(i) THEN "FAILED" ELSE row[i]]
  /\ Goto(r, "reserve")
  /\ UNCHANGED <<order, attempts, provider, old, instrument, jobs, bounds>>

\* regeneratePixPayment, once every instrument it found is dead: unbind the
\* order, fail what is PENDING, and go on as createPixPayment.
ClearExpired(r) ==
  /\ step[r] = "clear"
  /\ paymentId' = IF status = "PENDING" THEN 0 ELSE paymentId
  /\ row' = [i \in Attempts |-> IF row[i] = "PENDING" THEN "FAILED" ELSE row[i]]
  /\ Goto(r, "pix")
  /\ UNCHANGED <<status, heldBrl, attempts, provider, old, instrument, jobs,
                 bounds>>

\* reserveAttempt, under the lock of the order row.
NoneInFlight == \A i \in Attempts : row[i] # "PENDING"
Reservable == status = "PENDING" /\ paymentId = 0 /\ NoneInFlight
ReserveAttempt(r) ==
  /\ step[r] = "reserve"
  /\ \/ /\ Reservable
        /\ attempts < MaxAttempts
        /\ attempts' = attempts + 1
        /\ row' = [row EXCEPT ![attempts + 1] = "PENDING"]
        /\ GotoWith(r, "mint", attempts + 1)
     \/ /\ ~Reservable
        /\ Done(r)
        /\ UNCHANGED <<attempts, row>>
  /\ UNCHANGED <<order, provider, old, instrument, jobs, bounds>>

\* The call of the provider: it answers with an instrument (a card may be
\* charged or declined at once), refuses, or executes a call whose answer
\* never comes.
Mint(r) ==
  /\ step[r] = "mint"
  /\ \/ /\ \E s \in {"live", "approved", "dead"} :
             instrument' = [instrument EXCEPT ![about[r]] = s]
        /\ Goto(r, "finalize")
        /\ UNCHANGED lost
     \/ /\ Goto(r, "abandon")
        /\ UNCHANGED <<instrument, lost>>
     \/ /\ lost < MaxLost
        /\ lost' = lost + 1
        /\ \E s \in {"live", "approved"} :
             instrument' = [instrument EXCEPT ![about[r]] = s]
        /\ Goto(r, "abandon")
  /\ UNCHANGED <<order, payments, jobs, again, crashes>>

\* finalizeAttempt binds row and order whatever they are by now.
FinalizeAttempt(r) ==
  /\ step[r] = "finalize"
  /\ provider' = [provider EXCEPT ![about[r]] = about[r]]
  /\ paymentId' = about[r]
  /\ Done(r)
  /\ UNCHANGED <<status, heldBrl, attempts, row, old, instrument, jobs, bounds>>

\* abandonAttempt, after a call that failed.
AbandonAttempt(r) ==
  /\ step[r] = "abandon"
  /\ row' = [row EXCEPT ![about[r]] = "FAILED"]
  /\ Done(r)
  /\ UNCHANGED <<order, attempts, provider, old, instrument, jobs, bounds>>

-----------------------------------------------------------------------------
(* retryPayment: it reads the order and its last attempt, cancels at the   *)
(* cap, and otherwise fails that attempt, unbinds the order and pays anew. *)
RetryPayment(r) ==
  /\ step[r] = "idle"
  /\ status = "PENDING"
  /\ again < MaxAgain
  /\ again' = again + 1
  /\ seen' = [seen EXCEPT ![r] = paymentId]
  /\ about' = [about EXCEPT ![r] = attempts]
  /\ step' = [step EXCEPT ![r] =
                IF attempts >= MaxPaymentAttempts THEN "cancel" ELSE "fail"]
  /\ UNCHANGED <<order, payments, instrument, jobs, lost, crashes>>

RetryCancel(r) ==
  /\ step[r] = "cancel"
  /\ IF status = "PENDING"
     THEN status' = "CANCELLED" /\ paymentId' = 0
     ELSE UNCHANGED <<status, paymentId>>
  /\ Done(r)
  /\ UNCHANGED <<heldBrl, payments, instrument, jobs, bounds>>

RetryFail(r) ==
  /\ step[r] = "fail"
  /\ row' = [i \in Attempts |->
               IF i = about[r] /\ row[i] = "PENDING" THEN "FAILED" ELSE row[i]]
  /\ Goto(r, "unbind")
  /\ UNCHANGED <<order, attempts, provider, old, instrument, jobs, bounds>>

RetryUnbind(r) ==
  /\ step[r] = "unbind"
  /\ \/ /\ paymentId = seen[r]
        /\ paymentId' = 0
        /\ \E s \in {"pix", "reserve"} : Goto(r, s)
     \/ /\ paymentId # seen[r]
        /\ Done(r)
        /\ UNCHANGED paymentId
  /\ UNCHANGED <<status, heldBrl, payments, instrument, jobs, bounds>>

Handle(r) ==
  \/ ReconcileBeforeMint(r) \/ ReconcileOrder(r) \/ AdoptInstrument(r)
  \/ RetireStalled(r) \/ ClearExpired(r) \/ ReserveAttempt(r) \/ Mint(r)
  \/ FinalizeAttempt(r) \/ AbandonAttempt(r)
  \/ RetryCancel(r) \/ RetryFail(r) \/ RetryUnbind(r)

-----------------------------------------------------------------------------
(* Settlement.                                                             *)

\* processApprovedPayment, before its transaction: an approval of a payment
\* that no PENDING order points at is only noted.
FindOrder(s, i) ==
  IF status = "PENDING" /\ paymentId = i
  THEN settling' = settling \cup {<<s, i>>} /\ UNCHANGED handled
  ELSE handled' = handled \cup {<<s, i>>} /\ UNCHANGED settling

\* The webhook of an approval, delivered again until its delivery is handled.
\* (Deliveries about any other status only note themselves.)
Approved(i) == instrument[i] = "approved"
Webhook(i) ==
  /\ Approved(i)
  /\ <<"webhook", i>> \notin handled
  /\ FindOrder("webhook", i)
  /\ UNCHANGED <<order, payments, instrument, requests, doomed, bounds>>

\* reconcilePendingPayments asks about the rows that are PENDING and bound. (What
\* it does about a row that fails after it was listed, a webhook does too.)
Poll(i) ==
  /\ row[i] = "PENDING"
  /\ i \in old
  /\ provider[i] # 0
  /\ \/ /\ instrument[provider[i]] = "approved"
        /\ FindOrder("poller", provider[i])
        /\ UNCHANGED row
     \/ /\ instrument[provider[i]] = "dead"
        /\ row' = [row EXCEPT ![i] = "FAILED"]
        /\ UNCHANGED <<settling, handled>>
  /\ UNCHANGED <<order, attempts, provider, old, instrument, requests, doomed,
                 bounds>>

\* The transaction: the dedup row, the flip PENDING -> PAID and the escrow
\* commit together or not at all. The flip does not look at paymentId again.
Flip == status = "PENDING"
SettlePayment(s, i) ==
  /\ <<s, i>> \in settling
  /\ settling' = settling \ {<<s, i>>}
  /\ IF <<s, i>> \notin handled /\ Flip
     THEN /\ handled' = handled \cup {<<s, i>>}
          /\ status' = "PAID"
          /\ row' = [j \in Attempts |->
                       IF provider[j] = i THEN "SUCCEEDED" ELSE row[j]]
          /\ heldBrl' = heldBrl + 1
     ELSE UNCHANGED <<handled, status, row, heldBrl>>
  /\ UNCHANGED <<paymentId, attempts, provider, old, instrument, requests,
                 doomed, bounds>>

-----------------------------------------------------------------------------
(* Cancellation, by the buyer and by the hourly job.                       *)
CancelByBuyer ==
  /\ status = "PENDING"
  /\ status' = "CANCELLED"
  /\ UNCHANGED <<paymentId, heldBrl, payments, instrument, requests, jobs,
                 bounds>>

\* cancelStalePendingOrders lists orders past the timeout (any time here) that
\* have no attempt in flight ...
ListStale ==
  /\ status = "PENDING"
  /\ \A i \in Attempts : row[i] \notin {"PENDING", "SUCCEEDED"}
  /\ ~doomed
  /\ doomed' = TRUE
  /\ UNCHANGED <<order, payments, instrument, requests, settling, handled,
                 bounds>>

\* ... and claims them one by one, without looking at the attempts again.
CancelStale ==
  /\ doomed
  /\ doomed' = FALSE
  /\ status' = IF status = "PENDING" THEN "CANCELLED" ELSE status
  /\ UNCHANGED <<paymentId, heldBrl, payments, instrument, requests, settling,
                 handled, bounds>>

-----------------------------------------------------------------------------
(* The environment.                                                        *)

\* The provider approves an instrument, or it expires or is declined.
Resolve(i) ==
  /\ instrument[i] = "live"
  /\ \E s \in {"approved", "dead"} : instrument' = [instrument EXCEPT ![i] = s]
  /\ UNCHANGED <<order, payments, requests, jobs, bounds>>

\* A row gets old. The stall window is longer than any call of the provider, so
\* its request is over by then.
Age(i) ==
  /\ i <= attempts
  /\ i \notin old
  /\ \A r \in Requests :
       step[r] \in {"mint", "finalize", "abandon"} => about[r] # i
  /\ old' = old \cup {i}
  /\ UNCHANGED <<order, attempts, row, provider, instrument, requests, jobs,
                 bounds>>

Crash ==
  /\ crashes < MaxCrashes
  /\ crashes' = crashes + 1
  /\ step' = [r \in Requests |-> "idle"]
  /\ about' = [r \in Requests |-> 0]
  /\ seen' = [r \in Requests |-> 0]
  /\ settling' = {}
  /\ doomed' = FALSE
  /\ UNCHANGED <<order, payments, instrument, handled, again, lost>>

Next ==
  \/ \E r \in Requests :
       CreatePayment(r) \/ RegeneratePixPayment(r) \/ RetryPayment(r) \/ Handle(r)
  \/ \E i \in Attempts : Webhook(i) \/ Poll(i) \/ Resolve(i) \/ Age(i)
  \/ \E s \in Source, i \in Attempts : SettlePayment(s, i)
  \/ CancelByBuyer \/ ListStale \/ CancelStale
  \/ Crash

Spec == Init /\ [][Next]_vars

\* Requests run to their end, rows get old and the poller keeps polling. No
\* webhook is promised.
FairSpec ==
  /\ Spec
  /\ \A r \in Requests : WF_vars(Handle(r))
  /\ \A i \in Attempts : WF_vars(Age(i)) /\ WF_vars(Poll(i))
  /\ \A s \in Source, i \in Attempts : WF_vars(SettlePayment(s, i))

-----------------------------------------------------------------------------
Paid == \E i \in Attempts : instrument[i] = "approved"

\* All of it implements the settlement of an order: once, for good, and only
\* for a buyer who paid, however webhooks, polls, retries and cancellations
\* race.
Contract == INSTANCE Settlement WITH paid <- Paid
ImplementsSettlement == Contract!Spec

\* No two attempts of the order are in flight, however many tabs pay it.
OneAttemptInFlight ==
  \A i, j \in Attempts : row[i] = "PENDING" /\ row[j] = "PENDING" => i = j

\* A request mints for an attempt that is its own and has no instrument yet.
MintsAnew ==
  \A r \in Requests :
    step[r] = "mint" =>
      /\ about[r] \in 1..attempts
      /\ instrument[about[r]] = "none"
      /\ \A q \in Requests : step[q] = "mint" /\ about[q] = about[r] => q = r

\* A settlement under way is about a payment that was approved.
SettlesApproved == \A p \in settling : instrument[p[2]] = "approved"

\* An attempt that was not reserved has no instrument.
Unminted == \A i \in Attempts : i > attempts => instrument[i] = "none"

\* What every step relies on: the types, one attempt in flight, one instrument
\* per attempt and, of the settlements under way, the buyer's money behind them.
PaymentsInv ==
  /\ TypeOK
  /\ OneAttemptInFlight
  /\ MintsAnew
  /\ SettlesApproved
  /\ Unminted

\* The buyer only paid, in any number of tabs, and no call was lost or cut off.
Calm == again = 0 /\ lost = 0 /\ crashes = 0

\* As long as that is so, at most one instrument of the order can take money.
OnePayable ==
  Calm =>
    \A i, j \in Attempts :
      /\ instrument[i] \in {"live", "approved"}
      /\ instrument[j] \in {"live", "approved"}
      => i = j

\* Why: one request at a time is about an attempt, which is PENDING, bound to
\* nothing and not old, so that nobody asks the provider about it; the order
\* points at nothing before and at the one instrument there is after.
Calling(r) == step[r] \in {"mint", "finalize", "abandon"}
CalmInv ==
  Calm =>
    /\ \A r \in Requests : Calling(r) \/ step[r] \in {"idle", "pix", "reserve"}
    /\ \A r, q \in Requests : Calling(r) /\ Calling(q) => r = q
    /\ \A r \in Requests :
         Calling(r) => /\ about[r] \in Attempts \ old
                       /\ Unbound(about[r])
                       /\ paymentId = 0
    /\ \A i \in Attempts :
         Unbound(i) => \E r \in Requests : Calling(r) /\ about[r] = i
    /\ \A i \in Attempts :
         instrument[i] # "none" =>
           \/ paymentId = i
           \/ \E r \in Requests : step[r] = "finalize" /\ about[r] = i
    /\ \A i \in Attempts :
         i > attempts => row[i] # "PENDING" /\ provider[i] = 0 /\ i \notin old

\* An approved payment the order points at settles it without any webhook,
\* unless a request takes the pointer away.
PointedPaymentSettles ==
  \A i \in Attempts :
    status = "PENDING" /\ paymentId = i /\ instrument[i] = "approved"
      ~> status # "PENDING" \/ paymentId # i

\* payments: the lock and the check of reserveAttempt "are what actually enforce
\* one live instrument per order", so the buyer is charged by one.
ChargedOnce ==
  \A i, j \in Attempts :
    instrument[i] = "approved" /\ instrument[j] = "approved" => i = j
=============================================================================
