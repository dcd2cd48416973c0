------------------------------- MODULE Market -------------------------------
(***************************************************************************)
(* The listings of a seller, and everything that reads and writes them at  *)
(* once. A listing is one garment: what an order has claimed nobody else   *)
(* may buy.                                                                *)
(***************************************************************************)
EXTENDS Catalog, Checkout

Next == CatalogNext \/ CheckoutNext
Spec == Init /\ [][Next]_vars

-----------------------------------------------------------------------------
\* As long as nobody writes the listing by its id while an order is open, the
\* order has the listing to itself and the listing is SOLD: no interleaving of
\* create, checkoutBundle, the cancellations, vacation, bans, the jobs and the
\* deletion of accounts sells it twice.
SoldWhileOrdered ==
  \A l \in Listings \ touched : \A o \in OpenOrders(l) :
    OpenOrders(l) = {o} /\ listing[l] = "SOLD"

\* create counts a coupon once per order that applied it, and never past its
\* limit, however many buyers entered it while uses were left.
CouponCounts ==
  /\ usedCount = Cardinality({o \in couponed : order[o] # "checking"})
  /\ usedCount <= MaxUses

\* Two tabs, or two clicks, check a bundle out once: one order per item, and
\* no item that is left in it without its order.
BundleOnce ==
  /\ \A o, p \in bundled : item[o] = item[p] => o = p
  /\ bundle = "CHECKED_OUT" => items \subseteq {item[o] : o \in bundled}

\* No other listing may name the image.
Private(l, k) == \A m \in Listings \ {l} : k \notin Names(m)

\* The sweep takes no image that the snapshot of an order names, as long as no
\* other listing names it and the order's listing did not come back from
\* DELETED: sweepOrphanImages works from a list, while edits replace images,
\* orders freeze what they read, and moderators delete what has been sold.
EvidenceServed ==
  \A o \in snapshots : item[o] \notin revived =>
    \A k \in evidence[o] : Private(item[o], k) => object[k] # "swept"

-----------------------------------------------------------------------------
(* What the code says of itself and does not keep.                         *)

\* "one physical garment": never two open orders (bundles.service.ts).
SoldOnce == \A l \in Listings : Cardinality(OpenOrders(l)) <= 1

\* An order that is cancelled gives its listing back (orders-cron.service.ts).
CancelReleases ==
  [][\A o \in Orders : IsOpen(o) /\ order'[o] = "CANCELLED"
       => listing'[item[o]] # "SOLD"]_vars

\* What is on sale has its images (retention-cron.service.ts).
OnSaleHasImages ==
  \A l \in Listings : listing[l] = "ACTIVE" =>
    shows[l] # {} /\ \A k \in shows[l] : object[k] = "stored"

\* The images behind the snapshot of an order are kept alive until the order
\* has ended (listings.service.ts, remove): not by DELETE /uploads/:key, nor by
\* the sweep of another listing that names them.
EvidenceStored ==
  \A o \in snapshots :
    evidence[o] # {} /\ \A k \in evidence[o] : object[k] = "stored"
=============================================================================
