------------------------------ MODULE Checkout ------------------------------
(***************************************************************************)
(* How listings become orders and come back: OrdersService.create with its *)
(* coupon, the bundle, the four ways an order is cancelled, and what the   *)
(* deletion of the buyer's account does to its pending orders.             *)
(***************************************************************************)
EXTENDS Stock

(* Slips: what a definition below would be with a plausible mistake. No    *)
(* step uses them; each is caught by a property (PROJECT.json, "mutants"). *)

\* The transaction trusts what create read before it.
StillActiveUnchecked(l) == TRUE

\* The coupon is checked when it is entered and never again.
UsesLeftUnchecked == TRUE

\* What has been sold meanwhile is left out of the checkout.
ClaimsPartly(t) == bundle = "OPEN"

-----------------------------------------------------------------------------
StillActive(l) == listing[l] = "ACTIVE"
UsesLeft == usedCount < MaxUses

\* The checks create makes before its transaction. A slot that is taken is an
\* idempotency key that was used: the order it has is returned.
CheckListing(o, l, withCoupon) ==
  /\ order[o] = "none"
  /\ listing[l] = "ACTIVE"
  /\ withCoupon => usedCount < MaxUses
  /\ order' = [order EXCEPT ![o] = "checking"]
  /\ item' = [item EXCEPT ![o] = l]
  /\ couponed' = IF withCoupon THEN couponed \cup {o} ELSE couponed
  /\ UNCHANGED <<listingVars, snapshots, evidence, bundled, usedCount,
                 bundleVars, sellerVars>>

\* The transaction of create: everything is checked again under SERIALIZABLE.
\* A coupon may make the order free, and then it is PAID at once.
CreateOrder(o) ==
  /\ order[o] = "checking"
  /\ StillActive(item[o])
  /\ o \in couponed => UsesLeft
  /\ \/ order' = [order EXCEPT ![o] = "PENDING"]
     \/ /\ o \in couponed
        /\ order' = [order EXCEPT ![o] = "PAID"]
  /\ SetListings([listing EXCEPT ![item[o]] = "SOLD"])
  /\ snapshots' = snapshots \cup {o}
  /\ evidence' = [evidence EXCEPT ![o] = shows[item[o]]]
  /\ usedCount' = IF o \in couponed THEN usedCount + 1 ELSE usedCount
  /\ UNCHANGED <<imageVars, touched, item, bundled, couponed, bundleVars,
                 sellerVars>>

\* The transaction is refused.
RefuseOrder(o) ==
  /\ order[o] = "checking"
  /\ ~(StillActive(item[o]) /\ (o \in couponed => UsesLeft))
  /\ order' = [order EXCEPT ![o] = "none"]
  /\ item' = [item EXCEPT ![o] = "none"]
  /\ couponed' = couponed \ {o}
  /\ UNCHANGED <<listingVars, snapshots, evidence, bundled, usedCount,
                 bundleVars, sellerVars>>

-----------------------------------------------------------------------------
(* The end of an order: each of these claims the status it expects.        *)

EndOrders(S, status) == order' = [o \in Orders |-> IF o \in S THEN status ELSE order[o]]
NoLongerNeeded(o) ==
  /\ snapshots' = snapshots \ {o}
  /\ evidence' = [evidence EXCEPT ![o] = {}]

\* cancelByBuyer looks at the listing before it gives it back.
CancelByBuyer(o) ==
  /\ order[o] = "PENDING"
  /\ EndOrders({o}, "CANCELLED")
  /\ SetListings(IF listing[item[o]] = "SOLD"
                 THEN [listing EXCEPT ![item[o]] = "ACTIVE"] ELSE listing)
  /\ NoLongerNeeded(o)
  /\ UNCHANGED <<imageVars, touched, item, bundled, couponVars, bundleVars,
                 sellerVars>>

\* cancelStalePendingOrders, the attempts' cap of retryPayment (PENDING) and
\* autoCancelUnshippedOrders (PAID) give it back whatever it is by then.
CancelByJob(o) ==
  /\ IsOpen(o)
  /\ EndOrders({o}, "CANCELLED")
  /\ SetListings([listing EXCEPT ![item[o]] = "ACTIVE"])
  /\ NoLongerNeeded(o)
  /\ UNCHANGED <<imageVars, touched, item, bundled, couponVars, bundleVars,
                 sellerVars>>

\* deleteAccount of the buyer cancels what is PENDING and no more: all the
\* orders of the bundle are one buyer's, every other order another's.
PendingOf(o) ==
  {p \in Orders : order[p] = "PENDING" /\ (p = o \/ {p, o} \subseteq bundled)}
DeleteBuyer(o) ==
  /\ order[o] = "PENDING"
  /\ EndOrders(PendingOf(o), "CANCELLED")
  /\ UNCHANGED <<listingVars, item, snapshots, evidence, bundled, couponVars,
                 bundleVars, sellerVars>>

\* The payment arrives; and what follows it ends (see OrderEscrow).
Settle(o) ==
  /\ order[o] = "PENDING"
  /\ EndOrders({o}, "PAID")
  /\ UNCHANGED <<listingVars, item, snapshots, evidence, bundled, couponVars,
                 bundleVars, sellerVars>>

CloseOrder(o) ==
  /\ order[o] = "PAID"
  /\ EndOrders({o}, "closed")
  /\ NoLongerNeeded(o)
  /\ UNCHANGED <<listingVars, item, bundled, couponVars, bundleVars, sellerVars>>

-----------------------------------------------------------------------------
(* The bundle.                                                             *)

CreateBundle(S) ==
  /\ bundle = "none"
  /\ \A l \in S : listing[l] = "ACTIVE"
  /\ bundle' = "OPEN"
  /\ items' = S
  /\ UNCHANGED <<listingVars, orderVars, couponVars, checkouts, seen, removals,
                 sellerVars>>

\* removeItem reads the bundle and deletes the row later.
BeginRemoval(l) ==
  /\ bundle = "OPEN"
  /\ l \in items
  /\ Cardinality(items) > 2
  /\ removals' = removals \cup {l}
  /\ UNCHANGED <<listingVars, orderVars, couponVars, bundle, items, checkouts,
                 seen, sellerVars>>

FinishRemoval(l) ==
  /\ l \in removals
  /\ removals' = removals \ {l}
  /\ items' = items \ {l}
  /\ UNCHANGED <<listingVars, orderVars, couponVars, bundle, checkouts, seen,
                 sellerVars>>

\* checkoutBundle reads the bundle, its listings and their images outside the
\* transaction.
BeginCheckout(t) ==
  /\ checkouts[t] = {}
  /\ bundle = "OPEN"
  /\ \A l \in items : listing[l] = "ACTIVE"
  /\ checkouts' = [checkouts EXCEPT ![t] = items]
  /\ seen' = [seen EXCEPT ![t] = [l \in Listings |-> IF l \in items THEN shows[l]
                                                     ELSE {}]]
  /\ UNCHANGED <<listingVars, orderVars, couponVars, bundle, items, removals,
                 sellerVars>>

\* The claims of the transaction: the bundle, then each listing as it was read.
BundleClaimed(t) == bundle = "OPEN"
Claimed(t) == {l \in checkouts[t] : StillActive(l)}
ClaimsHold(t) == BundleClaimed(t) /\ Claimed(t) = checkouts[t]

\* One order for each item that was read, or none at all; f says which slots.
FinishCheckout(t, f) ==
  /\ checkouts[t] # {}
  /\ ClaimsHold(t)
  /\ f \in [Claimed(t) -> {o \in Orders : order[o] = "none"}]
  /\ \A k, l \in Claimed(t) : f[k] = f[l] => k = l
  /\ LET new == {f[l] : l \in Claimed(t)} IN
     /\ order' = [o \in Orders |-> IF o \in new THEN "PENDING" ELSE order[o]]
     /\ item' = [o \in Orders |-> IF o \in new
                                  THEN CHOOSE l \in Claimed(t) : f[l] = o
                                  ELSE item[o]]
     /\ snapshots' = snapshots \cup new
     /\ evidence' = [o \in Orders |-> IF o \in new
                                      THEN seen[t][CHOOSE l \in Claimed(t) : f[l] = o]
                                      ELSE evidence[o]]
     /\ bundled' = bundled \cup new
  /\ SetListings([l \in Listings |-> IF l \in Claimed(t) THEN "SOLD"
                                                         ELSE listing[l]])
  /\ bundle' = "CHECKED_OUT"
  /\ checkouts' = [checkouts EXCEPT ![t] = {}]
  /\ seen' = [seen EXCEPT ![t] = NoImages]
  /\ UNCHANGED <<imageVars, touched, couponVars, items, removals, sellerVars>>

\* A claim finds nothing and everything is rolled back: 409.
LoseCheckout(t) ==
  /\ checkouts[t] # {}
  /\ ~ClaimsHold(t)
  /\ checkouts' = [checkouts EXCEPT ![t] = {}]
  /\ seen' = [seen EXCEPT ![t] = NoImages]
  /\ UNCHANGED <<listingVars, orderVars, couponVars, bundle, items, removals,
                 sellerVars>>

CheckoutNext ==
  \/ \E o \in Orders, l \in Listings, c \in BOOLEAN : CheckListing(o, l, c)
  \/ \E o \in Orders :
       \/ CreateOrder(o) \/ RefuseOrder(o)
       \/ CancelByBuyer(o) \/ CancelByJob(o) \/ DeleteBuyer(o)
       \/ Settle(o) \/ CloseOrder(o)
  \/ \E S \in SUBSET Bundlable : Cardinality(S) >= 2 /\ CreateBundle(S)
  \/ \E l \in Listings : BeginRemoval(l) \/ FinishRemoval(l)
  \/ \E t \in Tabs : BeginCheckout(t) \/ LoseCheckout(t)
  \/ \E t \in Tabs : \E f \in [Claimed(t) -> Orders] : FinishCheckout(t, f)
=============================================================================
