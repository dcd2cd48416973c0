# Vintage.br: TLA+ specifications of the marketplace

Vintage.br is a second-hand marketplace: a NestJS API (`apps/api`) over
PostgreSQL, Redis, Meilisearch and S3, a Next.js web client (`apps/web`) and a
React Native app (`apps/mobile`). A buyer pays at Mercado Pago, the price of the
item is held in escrow in the seller's wallet, and is released after delivery, or
goes back after a cancellation, a dispute or a return. What can go wrong is in the
API's services, in its scheduled jobs, and in what they do to rows that other
requests and jobs are changing at the same time; and in the few screens that keep a
state of their own beside the server's.

These modules model that logic. TLC checks small instances of it, and TLAPS
proves the main invariants, and one refinement, for every value of the constants.

File names below are relative to `apps/api/src` unless they start elsewhere.

## 1. Inventory

`PROJECT.json` lists every component with its files, its modules and what is left
out of it, and every hazard at its line. In short:

### The money of an order

| component | state | operations | interacts with |
|---|---|---|---|
| orders | `Order.status`, `paymentId`, deadlines, `OrderListingSnapshot` | create, cancelByBuyer, markShipped, markDelivered, confirmReceipt, enterHold, finalizeEscrow | wallets, listings, coupons, payments; called by jobs and administrators |
| orders-cron | lists of orders held during a job | autoConfirmOrders, releaseHeldEscrow, autoCancelUnshippedOrders, cancelStalePendingOrders, escalateStaleReturns, escalateStuckShipments | orders, wallets, disputes, the provider |
| disputes, returns | `Dispute.status`, `OrderReturn.status` | create, resolve; create, approve, reject, ship, inspect | orders, wallets, each other (mutual exclusion), the provider |
| admin-orders | - | forceRelease, forceHold | finalizeEscrow, wallets |
| payments | `Payment` rows, `ProcessedWebhook` | create, retry, regenerate, webhook, reconciliation | orders, wallets, the provider |
| payouts, payout methods | `PayoutRequest.status`, PIX keys and their default | requestPayout, adminUpdateStatus; create, delete, setDefault | wallets, the provider, deletion of accounts |
| wallet | balance and pending balance | referral bonus, bump, spotlight, megaphone | all of the above |
| Mercado Pago (external) | instruments, transfers | mint, refund, transfer | payments, disputes, returns, payouts |

### What is sold

| component | state | operations | interacts with |
|---|---|---|---|
| listings | `Listing.status`, images, favorites, the document in the index | publish, update, remove, nightly jobs, vacation, toggleFavorite, syncSearchIndex | orders, moderation, reports, bundles |
| bundles, coupons | items, `usedCount` | create, removeItem, checkoutBundle; use, release | orders, listings |
| offers | rows of a negotiation | create, accept, reject, counter | deletion of accounts |
| moderation, reports | - | suspend, ban, force a logout, resolve a report or a flag | listings, sessions, uploads |
| uploads | objects, `UploadObject`, `ListingImageFlag`, avatar | upload, link, flag, delete, resolve a flag; the sweep of deleted listings | listings, S3 and Vision (external) |
| search | documents in Meilisearch (external) | index, remove, reindex, search with the fallback to PostgreSQL | listings |
| tracking-poller | batch of parcels, `cron_locks` | pollInFlightShipments, pollReturns | carriers (external), orders, returns |

### Who uses it

| component | state | operations | interacts with |
|---|---|---|---|
| auth | `User`, `RefreshToken`, `tokenVersion`, links, codes in Redis | register, verify, social sign-in, change of address, reset, rotate, sign out, second factors | clients, moderation |
| users | account, followers and their counters, vacation | followUser, deleteAccount, the sweep of expired accounts | listings, orders, everything a user owns |
| identity | CPF, sessions at Caf, logs | verifyCpf, startCaf, handleCafWebhook | Serpro, Caf (external) |
| messages | rows, sockets, rooms, presence | send, page, mark read, connect, join | the two chat screens |
| notifications, push | rows, daily counter in Redis, device tokens | createNotification, register, send | every service |
| support | ticket, messages, audit log | open, reply, agentReply, agentResolve, reconcile | the help desk's CRM (external) |
| reviews, notafiscal | rating, invoice | create; generate, poll | orders, the issuer (external) |

### What is hard about it

* **Everything is concurrent.** The database gives atomic transactions and
  conditional updates; nothing else is locked. A handler reads without a lock,
  decides, and then *claims* the row with `UPDATE ... WHERE status = s`, or writes
  it by its id. What is correct depends on whether the claim repeats every condition
  the read decided on.
* **Jobs work from lists.** By the time a job gets to a row on its list, a request
  may have moved it. Several instances run the jobs, behind a lock that expires.
* **Providers are outside the transaction.** Minting, refunding, transferring,
  issuing, storing, indexing happen before or after the commit. An answer may be
  lost, and a crash leaves one half done.
* **Webhooks and retries** come twice, late, out of order, or not at all.
* **Clients rotate, retry and poll**, and show a result before they have it.
* **Sums beside rows**: counters, ratings and indexes are written in statements of
  their own.
* **Something must happen** to every order nobody touches, and money that left one
  place must arrive in another.

### What makes each component correct

| component | properties |
|---|---|
| orders, orders-cron, admin-orders | the seller's pending and released money match the status of each order; closed orders stay closed; a cancelled order is paid back; the hold runs its course; no order waits for ever |
| disputes, returns | never both for one order; DISPUTED exactly while the dispute is open; evidence outlives the open dispute; at most one wallet credit; a received return is decided; a refund arrives |
| payments | one attempt in flight; one payable instrument; settled or cancelled once, and settled only if the buyer paid; an approved payment settles without webhooks |
| payouts, wallet | no overdraft; given back at most once, only if it failed, and always if it failed; a bonus once, a promotion paid for |
| listings, bundles, coupons | a listing with an open order is SOLD and has that order alone; a coupon's counter counts its orders and keeps its limit; a bundle is checked out once and whole; the sweep spares the images behind an order |
| auth | a login has one live token; a client does not take itself for a thief; what is ended stays ended; a code or a link works once; an address has one account |
| the rest | each relates rows to what was promised of them: section 3 |

## 2. Modules

    Escrow              rows, calls in flight and faults the order services share
      Orders            orders.service, admin-orders
        OrdersCron      orders-cron.service, tracking-poller
      Disputes, Returns
        OrderEscrow     the composition: Next, fairness, properties
          MCOrderEscrow, OrderEscrow_proofs
    Custody             what they promise about the price of an order (abstract)
    Settlement          what payments promise about an order (abstract)
      Payments          payments.service and its reconciliation job
          MCPayments, Payments_proofs
    Stock               listings, orders for them, snapshots, a coupon, a bundle
      Catalog           the writers of listings: seller, moderators, nightly jobs
      Checkout          create, cancellations, bundles, deletion of accounts
        Market          the composition and its properties
          MCMarket, Market_proofs
    Sessions            refresh tokens, and the clients that rotate them
          MCSessions, Sessions_proofs
    Conversation        the rows of a conversation
      WebChat, PhoneChat
        Chat_proofs     with Gateway and Offers
    Payouts, Offers, Gateway, Wallet, Support, TrackingPoller, Uploads, Identity,
    NotaFiscal, TwoFactor, Accounts, Favorites, Reviews, Notices, Follows,
    PayoutMethods, SearchIndex       one service each
          MCServices    checks these and the chat, one after the other
          Rows_proofs   Wallet, Favorites, Reviews, Notices, Follows,
                        PayoutMethods, SearchIndex
            Services_proofs    Payouts, the rest, and all of MCServices together

A database transaction is one action, and so is a handler that reads a row and then
claims it under the same condition: the read decides nothing the claim does not
decide again. (One read is folded into a claim that does not repeat it, the window of
a dispute; `OpenDispute` says why that loses no behaviour.) Where the claim is weaker
than what was read, or a call of a provider lies between, the read, the call and the
write are steps of their own, and the value read is kept in a variable (`releasing`,
`autoCancel`, `settling`, `doomed`, `late`, `try`, `sweep`, `form` ...). A crash
forgets exactly those.

Variables that record history (`late` in Escrow, `touched`, `revived`, `ended`,
`stale`, `stirred`, `askew`, `repair` and their like) are never in the guard of an
action; properties use them to say precisely which behaviours they speak of.

Each module defines a few *slips* beside its definitions: what a definition would be
with a plausible mistake (a claim by id, a forgotten release, a comparison before the
count). No step uses them; `PROJECT.json` ("mutants") says which property catches
each.

### Custody, Escrow, Orders, OrdersCron, Disputes, Returns, OrderEscrow

`status`, `dispute`, `ret`, `snapshot`, `delivered`, `tracked` are columns or the
existence of rows. `paymentId` says that the order has a payment at the provider; it
is set at the settlement, since Payments has the story before it. Money is a ledger
**per order**: `heldBrl[o]` and `releasedBrl[o]` are what order `o` has put into the
seller's `pendingBrl` and `balanceBrl`, in units of its item price, so that a wallet
is the sum over its seller's orders. `credits[o]` counts REFUND rows in the buyer's
wallet. `due[o]` holds the deadlines that have passed; each starts with the event
that stamps it and passes at any time after, so deadlines of different length are
independent. `HoldDays` is the set of values a deployment may give
`ESCROW_HOLD_DAYS`; a hold of zero days goes on to finalizeEscrow within the same
request. Orders share no row in these services, except the wallets, which the ledger
splits by order. So one order shows every interaction, and the proofs are for any
number.

Custody is the abstract specification. It has two variables: who has the price of an
order (the buyer, the escrow, the seller) or how the order was closed, and the credits
of the buyer's wallet. OrderEscrow implements it under `place <- Place`, which reads
the place from the ledger and asks the status only where the ledger is empty; a ledger
that makes no sense is "astray", which no behaviour of Custody is.

### Settlement, Payments

One PENDING order. A tab of the buyer is a request that walks through `step`:
`pix -> search -> adopt | retire -> reserve -> mint -> finalize | abandon`,
`regenerate -> clear`, and for a retry `cancel | fail -> unbind`. `row` and
`provider` are the Payment rows, `instrument` is what exists at Mercado Pago. An
attempt's idempotency key is derived from its number, so an attempt has one
instrument however often the call is repeated. `old` says that a row is past the
stall window (5 minutes, longer than any call with its repetitions); the poller's 15
minutes are taken as the same event, which only lets the poller act earlier. The
search index of the provider is eventually consistent, so a search finds any part of
what exists. `settling` is processApprovedPayment between its unlocked read and its
transaction; `handled` is ProcessedWebhook; `doomed` is the stale list of
cancelStalePendingOrders. Settlement is the abstract specification: an order is open,
settled or cancelled, `heldBrl` counts how often its price was put in escrow, and
`paid` says the buyer's money left. Payments implements it under `paid <- Paid`.

### Stock, Catalog, Checkout, Market

`listing` and `order` are the statuses; an order is "checking" while create is
between its reads and its transaction, and "closed" when what becomes of it no longer
matters here. Handlers that write a listing by its id after a read (`update`,
`unsuspend`, the cron's cleanup, resolved reports) wait in `late`; `touched` remembers
the listings they wrote while an order was open. `create` and `checkoutBundle` are
Serializable transactions whose conditional update of the listing is the claim.

Images are uploads, which any number of listings may name: `shows` are the
ListingImage rows, `object` is what became of each upload in the store, and `evidence`
is what a snapshot holds, which is the images' URLs and no copies of them. An update
that brings images drops the rows there are and writes the others later
(`DropImages`, `FinishRelist`). An image goes out of the store by `EraseUpload`
(`DELETE /uploads/:key`, which asks who uploaded it) and by the nightly sweep:
`sweeping` is its list, each entry a listing and the images it had by then; `Sweep`
asks for the snapshots of that listing alone, and the store may refuse any of the
deletions. `RejectImage` is a moderator upholding a flag: the rows of the image go,
and the listings they were of are suspended by id, whatever was in order for them.

### Sessions

A row of RefreshToken is live, used or revoked; `origin` is the login it descends
from. A *jar* is where a pair of tokens is kept (a phone, a browser's cookies), a
*call* is one request that signs in or refreshes; calls of one page share its
`refreshInFlight`. `current` has the jars and calls whose JWT carries the user's
present `tokenVersion`. refreshToken is find, claim, read of the version, mint and
store, with a crash of the client at any point.

### The services

Payouts keeps rows, transfers and handlers. An administrator who fails a request
commits that first; the refund is a transaction of its own, at READ COMMITTED, that
looks into the ledger and then credits, and each of those is a step (`AdminFail`,
`AdminLook`, `AdminCredit`) of one of the calls in `Ops`. The handler writes its result
by id, so it may open a FAILED request again, for another administrator to fail; that
write may also commit and lose its answer (`ResultLost`). `overwritten` remembers such
a write, and whether a refund was still under way. TwoFactor counts each send before it
is made; Twilio may time out before or after it has taken the text, which the code
cannot tell, and gives the count back either way; Redis may fail to count, which the
code takes for 0 and sends. `misses` counts those calls. Uploads has the sweep too
(`DeleteListing`, `SweepImage`): it deletes by the key in a URL, and never asks who
uploaded that. Accounts has the rows of one address, with one that may come to it or
leave it by a change of address. PayoutMethods has transactions whose
statements read what is committed when they come to it (READ COMMITTED), and which
are seen when they commit. Conversation numbers messages by their place; WebChat polls
and PhoneChat listens to a socket, and both show a message before the API has it.
Gateway is one process: a handler runs alone up to its next await. SearchIndex numbers
each read of the row, so that a sync which is overtaken by a younger one is seen. The
jobs, the vacation, a ban and the deletion of an account each sync a list that they
read before they write (`ReadList`, `BulkWrites`).
Follows, Favorites and Reviews have the rows and the sums beside them. The other
modules' opening comments say what they are about.

MCServices puts them together without composing them: they share no variable, so
`part` is chosen at the start and a behaviour is one of the service that it names.
A service's actions are enabled only in its part; the other variables keep still.

## 3. Runs

| run | instance | what it asks |
|---|---|---|
| `escrow` | one order (paid or free), one administrator, holds of zero or more days, one lost refund answer, one crash; 279,593 states | all the safety and action properties of the escrow |
| `escrow_live` | the same without an administrator, under `FairSpec`; 67,493 states | every order moves on, holds are released, returns decided, refunds arrive; the release waits for the hold |
| `payments` | two tabs, three attempts, one retry or regeneration, one crash; 760,504 states up to symmetry | safety of the attempts; implementation of Settlement |
| `payments_live` | one tab, two attempts, one lost answer, one crash, under `FairSpec`; 10,942 states | an approved payment settles with no webhook at all |
| `market` | two listings (one of them moderated, edited, aged and swept), two orders, a coupon with one use, one write by id under way; 589,190 states up to symmetry | nothing is sold twice, the coupon counts, evidence stays |
| `market_bundle` | a bundle of three, three orders, two tabs; 724,502 states up to symmetry | a bundle is checked out once and whole |
| `sessions` | one phone, two requests at once, four tokens, one killed app; 516,610 states up to symmetry | rotation, reuse, and what ends a session |
| `services` | nineteen services, one after the other, with the faults each of them handles; 758,524 states | twelve properties, a line or more for each service |
| `services_live` | payouts, the chat in a browser, support, tracking and invoices, under `FairSpec`; 61,680 states | what must happen in the end |
| `Finding_*` | as small as the disagreement allows | one property each, see section 6 |

### Properties worth a word

* `EscrowMatchesStatus`: the money of an order and its status are written in one
  transaction, but by eight code paths that start from unlocked reads. It holds
  because each claims the status it read. With a claim by id instead it fails.
* `ImplementsCustody` is a refinement: whatever each actor had read, the price goes
  from the buyer to the escrow, from there to the seller or back, and from the seller
  only to the escrow again; a closed order stays closed; the wallet is credited once,
  and never while the seller has the money. Returns that are decided after the seller
  was paid are the `late` ones, of which it promises only the one credit.
* `ActiveReturnExcludesDispute`, `DisputedUntilResolved`: disputes and returns
  exclude each other by a row lock on the order and by reading both tables under it.
* `HoldRunsItsCourse` is checked without an administrator: when one force-releases
  an order and re-holds it while the release job still has it on its list, the job
  pays it at once.
* `RefundDelivered` and `FailedIsRefunded` except crashes, because the refund
  follows the commit and nothing resumes it.
* `ImplementsSettlement` is a refinement: it covers every race of webhooks, poller,
  retries and cancellations for one order in a single formula.
* `OnePayable` speaks of histories without retries, regenerated codes, lost answers
  and crashes. With them it fails, as section 6 tells.
* `PointedPaymentSettles` rests on adoption (a stalled reservation finds its
  instrument again) and on the poller. It is checked without retries. A retry that
  fails a row whose call is still running leaves an order that points at an approved
  instrument while the row is FAILED, and the poller no longer looks at it.
* `SoldWhileOrdered` excepts the listings somebody wrote by id while an order was
  open: the seller's editor, the moderators and two jobs do that, and
  `Finding_sold_twice` is what comes of it. `EvidenceServed` excepts in the same way a
  listing that was DELETED and is put back.
* `RotationIsNotReuse` excepts pages that were left in the middle: the row was rotated
  and the answer went to nobody. `EndedStaysEnded` excepts, at the moment of the event,
  rotations that are claimed and not minted.
* `OfferChain`: a negotiation is a line of alternating rows, each COUNTERED but the
  last. The counters of both parties, an acceptance and the rejection of everything may
  all have read the same PENDING row.
* `MessagesShownOnce`: a message comes with a page, over the socket and as the
  screen's own. On the phone it holds until a second page is loaded (section 6).
* `WalletAddsUp` is an equation: the balance is what was credited less what runs or ran.
* `RetriesWriteOnce`, `ProvidersBelieved`, `SignInsKept` and `RowsAgree` are each the
  conjunction of one invariant per service; the module of the service states and
  explains it. The history variables in `MethodsKept`, `IndexFollows`, `FollowsAddUp`,
  `FavoritesAddUp` and `RatingKept` say which interleavings break the equation, **and
  which step repairs it again**: the invariant is the weakest the code keeps, so that
  any other way to break it is an error.
* `RefundedOnce` excepts the withdrawals whose FAILED was written over while a refund
  was under way, or by a write whose answer was lost: there the code does credit twice,
  as `Finding_refunded_twice` shows. For all others it is the claim together with the
  look at the ledger that keeps several administrators and the catch apart.
* `FailedIsRefunded` excepts the refunds that were cut off after the claim, by a crash
  or because the second transaction failed: nothing takes them up again.
* `SignInsKept` says of texts: no more go out in an hour than `SMS_MAX_SENDS_PER_HOUR`
  **and one for each failed call** of Twilio or of the counter; without a failure it is
  the limit. The code calls it a hard ceiling (`CeilingHard`, section 6).
* `AnsweredIsKept`: an upload that was answered is there until its uploader deletes
  it or a listing that shows it is deleted, whatever fails half-way. The exception is
  the sweep, whichever seller's listing it was: `OnlyOwnersDelete`, section 6.
* `EvidenceServed` is about the sweep, and about images no other listing names. What
  DELETE /uploads/:key and a shared image do to an order's evidence: `EvidenceStored`,
  section 6.

### Bounds, and why they are enough

`MaxLost`, `MaxFaults`, `MaxFailures`, `MaxLosses`, `MaxDeaths`, `MaxTrouble`,
`MaxAway`, `MaxAdrift`, `MaxDrops`, `MaxBreaks`, `MaxCutOffs`, `MaxMisses`,
`MaxChanges` and `MaxCrashes` are one (in `payments` no answer is lost): a fault
takes a call out between two steps, and which step is chosen freely, so one fault
reaches every such cut. A second one adds only sums of two. `MaxOutages` is two,
since a request for an invoice makes two attempts. `MaxAttempts` is three, since the
third attempt is the first that can coexist with two earlier instruments in different
states. `MaxAgain` is one in the safety run and is also the number the violation
needs. `MaxPaymentAttempts`, `MaxCounters`, `MaxMethods`, `DailyCap`, `MaxSockets`
and `MaxSends` are one or two instead of the code's values, so that the limit is
reached and passed at; three codes are more than one send and one miss allow. Two
calls of administrators (`Ops`) are what two refunds of one withdrawal need. Of two
images one belongs to the listing that is moderated and swept, and the other to both
listings; a moderator upholds the flag of an image once (`Flagged`, in `market`), and
the seller erases one where that is `Erasable` (in `market_bundle` and
`Finding_sold_twice`, for the two together double the states and touch one another
nowhere). Two requests are enough for a race on one row, and three rows for two
answers to one offer, or for a default, its heir and a bystander. Four tokens are a
login, its rotation, another login and its rotation. `MaxEdits`, `MaxWrites`,
`MaxFollows` and `MaxForms` are large enough for a sync, a recount or a request to be
overtaken and for the repair to follow. One administrator is what the theorems show
to suffice: of several, no two may be re-holding one order. `CHECK_DEADLOCK FALSE`,
because orders, payments, requests and negotiations really end.

### Fairness

The scheduler runs the jobs for ever and time passes, so the steps of the jobs,
`Elapse`, `Age`, `Poll`, `Reconcile`, `PollInvoice` and the expiry of a lock (`Lapse`)
are weakly fair. A request that was accepted runs to its end, so the remaining steps
of handlers are weakly fair, and so is a page that is open: it polls. The CRM is up
some time, so that the announcement of a ticket, which the job repeats, is delivered
in the end. **Nothing** is assumed of buyers, sellers, administrators, carriers, or of
Mercado Pago's webhooks. `PollReturn` is not fair: the poller returns early when no
order of the marketplace is SHIPPED, and polls returns only after that. The one
strong fairness is that of `Tick`: every hour the instances try for the lock anew,
and it cannot be that all tries for ever fall into the minutes in which it is held.
Elsewhere the modules assume nothing of the lock: every job may overlap itself, the
auto-cancel among them, which may list an order that an earlier tick is still refunding
(`autoCancel[o]` is a set).

## 4. Proofs

Checked by `tlapm` with Z3, Zenon and LS4. All are for any sets of orders,
administrators, tabs, listings, tokens, sockets and so on, and for any value of the
bounds.

**OrderEscrow_proofs.** `TypeCorrect`; then `EscrowSafe`, that `EscrowInv` is
invariant, and from it `EscrowMatchesStatusAlways`, `DisputedUntilResolvedAlways` and
`SettledIsFinalAlways`. None of these is inductive by itself. Whether `ReverseHold`
is right depends on the status the return was requested in, so `EscrowInv` adds
`ReturnAfterDelivery`, `ActiveReturnKeepsStatus` and, for the re-hold that writes
without a claim, `ReholdIsCurrent`. The last one is true as long as **no two
administrators re-hold the same order at once** (`OneRehold`). These theorems and
`CustodyKept` say `Spec /\ []OneRehold => ...`: there may be any number of
administrators, and the behaviours left out are those in which two of them are
between the read and the write of `forceHold` for one order, which do break the
ledger (section 6).

`CustodyKept` proves `Spec /\ []OneRehold => ImplementsCustody`. The invariant beside
`EscrowInv` is `WalletOK` (an order is credited once at most, and one that is PENDING
or PAID not at all and has no case that could) and `RefundOK` (a refund of a dispute
that is under way is of an order that is REFUNDED or late). `MoveStep` says, for each
step, how it may move the status of its order, the wallet and `late` (`Moved`);
`PlaceIs` that the ledger of the invariant determines the place (`Placed`); and
`PromiseStep` that such a move is a step of Custody or a stutter.

The others need no such condition, since each has an invariant that speaks of no money:

* `WalletCreditedOnceAlways`: an order which can still be PAID was never credited and
  has no case that could.
* `ReturnExcludesDispute` and `EvidenceKeptAlways`, from `CaseInv`: an order that still
  has its snapshot was never COMPLETED, so no administrator is about to re-hold it and
  an open dispute has it parked in DISPUTED, which no sweep takes; once the snapshot is
  gone, what a late re-hold does cannot take it again.
* `CancelledPaysBackAlways`: the note which the auto-cancel keeps between its call and
  its claim, that the provider has refunded, is true (`NoteOK`), and stays true for
  whoever claims the order in between.
* `HoldRunsItsCourseAlways`: what the release job has on its list has its hold behind
  it (`ListOK`). It speaks of the behaviours **in which no re-hold is written**
  (`ForceHoldWrite`): a re-hold starts a new window, and for an order that the job has
  already listed the job does not wait for it. That is the exception the run leaves
  out by having no administrator; the theorem has any number, who do all else.

**Payments_proofs.** `Invariant`: `PaymentsInv` is inductive. It contains the types,
`OneAttemptInFlight`, `MintsAnew` (a call is about an attempt of its own that has no
instrument, so no call overwrites an approved one) and `SettlesApproved` (a
settlement under way has the buyer's money behind it). Most steps touch none of it,
which is one lemma, `QuietStep`; reserving, minting and the provider's own step are
done by hand. `OneAttemptAlways` follows. `Implementation` proves
`Spec => Contract!Spec`: each step settles, cancels or makes the order paid, or
leaves Settlement's variables alone, from `PaidStays` and `OrderStep`.
`OnePayableAlways` needs `CalmInv`: in a history without retries and faults, one
request at a time is about an attempt, the row of that attempt is PENDING and
unbound, nobody finds it stalled, and the order points at nothing before and at the
only instrument after.

**Services_proofs**, on Payouts. `PayoutsTypes`, `NoOverdraftAlways`,
`RefundedOnceAlways`, from `RefundInv` (one administrator at most is about to refund,
and only what is FAILED and was not given back; what was given back stays FAILED
until the handler's last write, and if that comes when no refund is under way the
ledger answers whoever looks later), and `AutomaticRefundAlways`, which adds what a
handler knows of the transfer at each of its steps as long as no answer is lost.

**Market_proofs.** `MarketInv` is the conjunction of `TypeOK`, `Placed` (an order
knows its listing from its checks on), `SoldWhileOrdered`, `CouponInv`, `BundleInv`
and `EvidenceInv`, and is inductive. `CouponInv` adds that a coupon belongs to an
order that has begun; `BundleInv` that a checkout has read every item the bundle
still has, for items only leave; `EvidenceInv` that a listing which the sweep has
listed, or which has lost an image of its own to it, is DELETED unless it was
revived. One lemma per kind of step: the writers of listings share `ListingsKeep`,
`WrittenById` and `WrittenAll`, the ends of orders `EndStepKeeps`; create and the
checkout of a bundle are done by hand. `SoldOnceAlways`, `CouponAlways`,
`BundleAlways` and `EvidenceAlways` follow.

**Sessions_proofs.** `OneLiveAlways` and `EndedAlways`. A rotation in flight is a token
to be: `SessionsInv` says that whatever names a row names one that was made
(`Issuing`), adds to `OneLivePerLogin` that a login has one rotation in flight at most
(`Logins`), and to `EndedStaysEnded` that nothing in flight, nor an answer or a jar
with the present version, descends from an ended login (`Ends`).
`RotationIsNotReuseAlways` adds, as long as no page was left in the middle, that a page
has one refresh at a time, that a token stays with the jar it was made for, and that a
spent token in a jar has a call of that jar which waits to replace it (`PageInv`).
It assumes `OnePage`, one page to a jar, as the app of a phone or a single tab has: the
tabs of one browser share the cookies and not `refreshInFlight`, and one of them **is**
taken for a thief (section 6). The run has the same instance.

**Chat_proofs.** The two screens share the rows, which are only added and only read
(`StoreGrows`); each keeps its invariant when the other's steps, or anybody's, make
them grow (`WebUndisturbed`, `PhoneUndisturbed`). `WebInv`: what a poll has fetched it
has marked read before it answers, so that a row of the other side on the screen is
read and not fetched again; what is shown before the API knows of it is there only
while its send is under way, and never beside its row. `PhoneInv`: neither the screen
nor an event on its way has the row of a send that has yet to show it; it ends with the
second page, as the property does. `OfferChainAlways` adds that a row nobody made is
empty and that what an answer has read of its offer still holds when it claims.
`SocketsAlways`: the two maps of the gateway agree and hold every open socket, and the
count is taken in the step that adds.

**Rows_proofs, Services_proofs.** For each service of MCServices the invariant of its
own: that it holds at first, that its steps keep it, that it implies its part of the
property. `ServicesInv` is all of them together. A step of the composition is one of
the service that `part` names and leaves the others' variables alone (`OneAtWork`,
`ChatAtWork`), so `ServicesStep` is the sum of the components' own theorems, and
`WalletAlways`, `ShownOnceAlways`, `WrittenOnceAlways`, `ProvidersAlways`,
`SignInsAlways` and `RowsAlways` follow. TLC has checked these invariants on the
instance of `services` too. What they add to the properties:

* Wallet: only a megaphone waits to be put on the listing. The equation counts the
  promotions of each kind, so that no sum over a set is needed.
* Favorites: what the requests under way have written and not yet counted, or counted
  and not yet answered, makes up the difference (`FavoritesInv`); what the phone shows
  is the row that its own request will leave (`HeartInv`).
* Reviews: a request that is alone finds the rating as the last one left it.
* Notices: whoever is past the cap was counted, or Redis was away.
* Follows: what the repair script has counted still holds of everybody who was not
  touched since (`CountedRight`).
* PayoutMethods: what a transaction that is alone has read is so when it commits
  (`StillSo`); the keys of a seller are apart, and one is the default.
* SearchIndex: the outcome of the youngest look at a listing is current
  (`NewestIsCurrent`).
* Support: the call that won the insert or the move has to tell, and no other of its
  key has. TrackingPoller: a stamp is 0 or 1 by the claim alone.
* Identity: an event that is applied has its key entered, and a session is APPROVED
  only if an event said so of that session. NotaFiscal: what a request or a poll has
  heard is what the issuer had settled, which stays.
* TwoFactor: a code that was made and not sent has one sender and is not the one in
  Redis (`CodesApart`); every text, and every send under way, has its entry in the
  counter or among the failed calls (`CodesPaid`).
* Accounts: a registration that displaces has seen a row, and a row with a history is
  displaced only if it was verified after that look; an address has one row
  (`AddressInv`). A link that was redeemed, lost to another,
  or out when its account changed its address, is used.
* Uploads (`AnsweredAlways`): whoever is past the put of a key has written it, and if
  nobody else did the object is his unless a deleted listing showed it; what somebody
  deletes is no longer answered to him (`JobInv`).

**Assumptions.** Each module names what it assumes of its constants: limits are
natural numbers, a model value that stands for nothing is not among the things there
are, and `Screens`, `Members` and the like are finite where they are counted. These are
facts of the code's data, and TLC evaluates them on every run. What is
assumed of behaviours is in the statements of the theorems that need it: that no two
re-holds of an order overlap, that a jar has one page, and that no re-hold is written.

Only model-checked: the liveness properties, since fairness and ENABLED are out of the
prover's reach. Every invariant and every action property that a run checks is proved.

## 5. What is not modelled

* Amounts of an order: each moves one item price; the buyer's total, fees and the
  amount check of a webhook are left out. Ownership and input checks, wording,
  formatting and logging. Webhook signatures. Fraud rules: an answer that refuses a
  call is a call that never happened. Chargebacks and refunds made at the provider's
  own desk.
* Components without a module, with their reason in `PROJECT.json`: aggregates that
  are only read (admin-analytics, analytics, metrics, audience, impact,
  seller-insights, health), pure I/O (shipping, email, SMS, the clients of Serpro and
  Caf), single rows and CRUD (authenticity, ads and their partners, consent, feature
  flags, audit log, favorite collections), rules and tooling (fraud, the ESLint
  plugin, seeds, most scripts).
* Most of the screens of `apps/web` and `apps/mobile`, which are half of the code:
  they show what a request answered and keep nothing that races. Those that keep a
  state of their own (conversations, sessions, favorites) are modelled.
* Not asked of any run: addresses (two creates at once make two default addresses;
  deleting one empties `shippingAddressId` of orders under way), price-drop alerts,
  the views of a listing, typing signals, limits per second, trusted devices, lockouts.

## 6. Where code and documentation disagree

Each `Finding_*` run is a property a comment states and the code does not keep:

| run | what happens |
|---|---|
| `Finding_charged_twice` | a retry unbinds an instrument without asking the provider; both instruments take the money |
| `Finding_sold_twice` | the seller's edit was read before the sale and puts the listing on sale again; a second buyer gets the same garment |
| `Finding_refunded_twice` | the handler writes its result over an administrator's FAILED, a second administrator fails the request again, both find no refund in the ledger, and both credit the wallet; or the result's answer is lost and the catch refunds what was refunded |

The modules also define statements of this kind that no run of their own checks; each
is violated by the specification (add it to the run of its module to see the trace):

| statement | module | what the code says | what happens |
|---|---|---|---|
| `RefundOnlyIfCancelled` | OrderEscrow | the auto-cancel refunds what it cancels | it refunds at the provider before it claims the order; the seller ships in between |
| `ReturnRefundsOnce` | OrderEscrow | a return refunds the buyer | the wallet is credited **and** the provider refunds |
| `EscrowNeverOverdrawn` | OrderEscrow | a return reverses the hold | a return of a COMPLETED order takes it from an escrow that is empty |
| `CronSkipsActiveReturn` | OrderEscrow | the release skips orders with a return | the return was requested after the job listed the order |
| `EvidenceStored` | Market | keep "the S3 keys behind them ... alive until every outstanding order reaches COMPLETED / CANCELLED / REFUNDED" | `DELETE /uploads/:key` and the sweep of another listing that names the image take it |
| `TerminalIsFinal` | Payouts | "already in a terminal state" | the handler's result is written by id over an administrator's |
| `NotPaidAndRefunded` | Payouts | a failure is refunded | a transfer that was accepted and whose answer is lost is given back as well |
| `CancelReleases` | Market | a dead PENDING order must not pin "its listing as SOLD forever" | the deletion of the buyer's account cancels the order and leaves the listing |
| `OnSaleHasImages` | Market | the sweep takes the images of what is gone | a DELETED listing is put back between the list and the deletion |
| `ReuseMeansRotated` | Sessions | a reuse means that "the legitimate client has already rotated past this token" | the token was revoked, by a sign-out or a reset |
| `ForceLogoutEnds` | Sessions | "every outstanding JWT (access + refresh) ... is rejected" | it moves `tokenVersion` alone; the next rotation signs in again |
| `ResetEndsAll` | Sessions | "every outstanding session MUST die" | a rotation that was claimed and not minted survives |
| `ResolvedIsResolved` | Support | "Already resolved" | a stale read of OPEN moves a resolved ticket and keeps its resolvedAt |
| `ReturnSeen` | TrackingPoller | returns are polled "as part of the same hourly tick" | not in a tick that finds no order SHIPPED |
| `OwnerIsLastWriter` | Uploads | "ownership is transferred to the last writer" | two uploads of one key record in the other order than they put |
| `OnlyOwnersDelete` | Uploads | "decided ONLY by the server-written UploadObject table" | the sweep deletes whatever a deleted listing named |
| `DoubtfulNotShown` | Uploads | "sign-off before they surface to buyers" | publishing does not look at the flag |
| `ApprovalCounts` | Identity | "sessionId is stable enough" | without an eventId, an approval after another status is taken for a repetition |
| `CeilingHard` | TwoFactor | "Hard ceiling", "if we can't count we refuse to send" | an error of the counter counts as 0; a text that timed out after Twilio took it is given back |
| `DeletedIsForgotten` | Accounts | a deletion anonymizes the e-mail address | a change of address that was checked before it writes the new one to the deleted row |
| `NumberProved` | TwoFactor | nothing is flipped "until the user confirms the code" | any code confirms the number that was given last |
| `FactorUsable` | TwoFactor | what is enabled can be used | two ways of enabling overlap, and one clears what the other needs |

Others, met on the way:

**Orders and payments.** The auto-cancel refund is executed and its answer lost, or
repeated after a crash: the buyer has the money at the provider and in the wallet
(`orders/orders-cron.service.ts:176-178, 240-242`). The evidence of an order is purged
before a late return turns into a dispute (`orders/orders.service.ts:874`). A
REQUESTED, APPROVED or SHIPPED return has no deadline, and blocks the release for as
long as it stays there (`returns/returns.service.ts:23-25`). A re-held order with a
closed dispute or return is never released by the job, which asks for the absence of a
row (`orders/orders-cron.service.ts:104-105`). A HELD order cannot be disputed,
although the hold is documented as the dispute window
(`orders/orders.service.ts:729-730`, `packages/shared/src/constants.ts:43-44`). Two
administrators re-hold the same order twice
(`admin-analytics/admin-orders.controller.ts:122`). A refund is lost when the process
dies after `resolve` commits (`disputes/disputes.service.ts:248`), a payout's when it
dies between the claim and the refund (`wallet/payouts.service.ts:209-210, 251-253`).
Nothing promotes a PROCESSING payout (`payments/mercadopago.client.ts:655-657`). Two
tabs that regenerate a code at once clear each other's fresh instrument
(`payments/payments.service.ts:472-488`). An instrument that is approved after its row
was failed by a retry is never looked at again, and the order is cancelled as stale,
"no money was captured" (`orders/orders-cron.service.ts:308-314`). The price of an
order is that of the read outside create's transaction, its snapshot's that of the
fresh one. Neither client sends an idempotency key at checkout.

**Market.** The nightly job's unconditional ACTIVE puts a DELETED listing back. Two
removals at once leave a bundle below two items. A listing of a banned seller is for
sale again when one of his orders is cancelled, and lifting the ban restores nothing.

**Offers.** The "full negotiation thread" misses the third level. A seller may accept
his own counter-offer, and the buyer cannot accept it. Nothing writes EXPIRED. The
claim of a counter-offer does not look at the expiry again.

**Sessions and accounts.** Two browser tabs each have a `refreshInFlight` of their own,
and one is taken for a thief. A sign-out that crosses a refresh leaves a live token. A
registration may displace a row that is verified after it looked. register stores the
address as it is typed, forgotPassword looks for it in lower case. The counter of the
hour's SMS renews its window with every one; a failing send deletes the code of
another; a wrong guess uses the code up.

**Messages.** "REST poll-fallback still delivers messages", but the phone never polls,
and what is sent over REST is not pushed. An image is stored twice, over REST and over
the socket. A text that failed is shown as sent. A second page that is loaded after a
new message repeats one. Reading any page marks everything read. A socket that joins
after the user's last one has closed stays in the room; presence is announced out of
order.

**Money of the wallet.** Two bumps at once are both debited. A spotlight or megaphone
overwrites `promotedUntil`, and the job that expires promotions wipes a fresh one. A
bonus is lost if the process dies before it is credited.

**Support, tracking, uploads, identity, invoices.** Only `ticket.opened` is repeated to
the CRM; the fifty oldest unannounced tickets can starve the rest. The lock of a job is
never released, so it runs once per five minutes, whatever its schedule. An outage of
Vision makes no flag. Two resolutions of one flag may both act. A CANCELLED invoice
becomes pending. Two concurrent requests for an invoice end in an error for one.

**Rows beside rows.** The sweep of an expired account leaves the follower and favorite
counts of the others inflated, although the script that repairs them says that it stops
new inflation; run while people follow, the script writes counts that are wrong. Two
creates of a PIX key can "both see count < MAX" and "both 'win' the default flag", and
"a concurrent delete" does race "the promotion step": at READ COMMITTED neither
transaction hinders the other. A key that is created while the account is deleted is
kept until the sweep of the thirtieth day. Syncs of the index overtake one another, and
a vacation, a ban and a deletion sync the listings they read and not those they
changed, so that buyers do see
SOLD, PAUSED and DELETED items; the "nightly reindex script" is started by hand, adds
what is missing and removes nothing. The end of a vacation activates what was paused
for other reasons. Reviews that are created at once leave a stale `ratingCount`, and two
replies to one overwrite each other. With
Redis away the daily cap of notifications is not kept, and any refusal of a push deletes
the device's token. The heart of a listing is wrong after a lost tap, and only the first
page of favorites is loaded. Price-drop alerts can be told twice.

## 7. What could follow

1. Payments composed with OrderEscrow and Market, instead of by the events they share
   (a settled order, a cancelled order).
2. Addresses, price-drop alerts and the deduplication of advertisements and fraud
   signals, which are small read-then-write races of the kinds already modelled.
3. The screens of checkout and selling, if they come to keep a state of their own.
