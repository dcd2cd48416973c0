------------------------------- MODULE Stock --------------------------------
(***************************************************************************)
(* The rows that selling is about: the listings of one seller, the orders  *)
(* for them, the snapshot each order keeps as evidence and the uploads it  *)
(* points to, one coupon and one bundle. Catalog holds the writers of      *)
(* listings, Checkout those of orders, Market puts them together.          *)
(***************************************************************************)
EXTENDS Integers, FiniteSets

CONSTANTS
  Listings,   \* the listings of the seller
  Orders,     \* the orders there may be: a slot is an idempotency key too
  Images,     \* the seller's uploads: keys of the object store
  Lists,      \* by listing: the lists of images its seller may give it
  Erasable,   \* bound: the uploads the seller may delete
  Flagged,    \* bound: the images whose flag a moderator may uphold, once each
  Watched,    \* those that are edited, moderated, aged and swept
  Bundlable,  \* those a buyer puts into a bundle
  MaxUses,    \* Coupon.maxUses
  MaxLate,    \* bound: writes by id under way at once
  Tabs        \* the tabs in which the bundle's buyer may check it out

ASSUME StockAssumption ==
  /\ IsFiniteSet(Listings)
  /\ IsFiniteSet(Orders)
  /\ Lists \in [Listings -> SUBSET SUBSET Images]
  /\ {Erasable, Flagged} \subseteq SUBSET Images
  /\ Watched \subseteq Listings
  /\ Bundlable \subseteq Listings
  /\ MaxUses \in Nat
  /\ MaxLate \in Nat

VARIABLES
  listing,    \* Listing.status; "gone" once the row is hard-deleted
  shows,      \* its ListingImage rows: the images they name
  object,     \* by image: in the store, swept from it, or erased by the seller
  flagged,    \* the images that have a PENDING ListingImageFlag
  order,      \* Order.status; "checking" while create is before its transaction
  item,       \* the listing of the order, "none" before there is one
  snapshots,  \* the orders that have an OrderListingSnapshot
  evidence,   \* its imageUrls: the images the listing named, no copies
  couponed,   \* the orders that applied the coupon
  usedCount,  \* Coupon.usedCount
  bundle,     \* Bundle.status
  items,      \* the bundle's items
  bundled,    \* the orders made by its checkout
  checkouts,  \* by tab: the items checkoutBundle read, while it is under way
  seen,       \* by tab: the images of those items as it read them
  removals,   \* removeItem calls that have read the bundle and not deleted yet
  late,       \* handlers that have read a listing and not written it yet
  sweeping,   \* what sweepOrphanImages has listed and not handled yet: a
              \* listing and the images its rows named
  account,    \* the seller's account
  vacation,   \* User.vacationMode
  touched,    \* history: listings written by id while an order was open
  revived     \* history: listings that left DELETED

imageVars == <<shows, object, flagged>>
listingVars == <<listing, shows, object, flagged, touched, revived>>
orderVars == <<order, item, snapshots, evidence, bundled>>
couponVars == <<couponed, usedCount>>
bundleVars == <<bundle, items, checkouts, seen, removals>>
sellerVars == <<late, sweeping, account, vacation>>
vars == <<listing, shows, object, flagged, order, item, snapshots, evidence,
          couponed, usedCount, bundle, items, bundled, checkouts, seen, removals,
          late, sweeping, account, vacation, touched, revived>>

Statuses == {"ACTIVE", "PAUSED", "SOLD", "SUSPENDED", "DELETED"}

\* Which orders keep remove and a second sale away.
OpenStatuses == {"PENDING", "PAID"}

IsOpen(o) == order[o] \in OpenStatuses
OpenOrders(l) == {o \in Orders : IsOpen(o) /\ item[o] = l}

\* A write of a status, whoever makes it.
SetListings(new) ==
  /\ listing' = new
  /\ revived' = revived \cup {l \in Listings : listing[l] = "DELETED"
                                               /\ new[l] \in Statuses \ {"DELETED"}}

\* A write that names one row by its id and looks at nothing else.
WriteById(l, status) ==
  /\ SetListings([listing EXCEPT ![l] = status])
  /\ touched' = IF OpenOrders(l) = {} THEN touched ELSE touched \cup {l}

\* A write that says which status it expects.
MoveAll(from, to) ==
  /\ SetListings([l \in Listings |-> IF listing[l] \in from THEN to ELSE listing[l]])
  /\ UNCHANGED touched

NoImages == [l \in Listings |-> {}]
Names(l) == UNION Lists[l]

Init ==
  /\ listing = [l \in Listings |-> "none"]
  /\ shows = NoImages
  /\ object = [k \in Images |-> "stored"] /\ flagged = Flagged
  /\ order = [o \in Orders |-> "none"]
  /\ item = [o \in Orders |-> "none"]
  /\ snapshots = {} /\ evidence = [o \in Orders |-> {}]
  /\ couponed = {} /\ usedCount = 0
  /\ bundle = "none" /\ items = {} /\ bundled = {}
  /\ checkouts = [t \in Tabs |-> {}] /\ seen = [t \in Tabs |-> NoImages]
  /\ removals = {}
  /\ late = {} /\ sweeping = {}
  /\ account = "open" /\ vacation = FALSE
  /\ touched = {} /\ revived = {}

TypeOK ==
  /\ listing \in [Listings -> Statuses \cup {"none", "gone"}]
  /\ shows \in [Listings -> SUBSET Images] /\ \A l \in Listings : shows[l] \subseteq Names(l)
  /\ object \in [Images -> {"stored", "swept", "erased"}]
  /\ flagged \subseteq Images
  /\ order \in [Orders -> OpenStatuses \cup {"none", "checking", "CANCELLED", "closed"}]
  /\ item \in [Orders -> Listings \cup {"none"}]
  /\ snapshots \subseteq Orders
  /\ evidence \in [Orders -> SUBSET Images]
  /\ couponed \subseteq Orders
  /\ usedCount \in Nat
  /\ bundle \in {"none", "OPEN", "CHECKED_OUT"}
  /\ items \subseteq Listings
  /\ bundled \subseteq Orders
  /\ checkouts \in [Tabs -> SUBSET Listings]
  /\ seen \in [Tabs -> [Listings -> SUBSET Images]]
  /\ removals \subseteq Listings
  /\ \A c \in sweeping : c[1] \in Listings /\ c[2] \subseteq Names(c[1])
  /\ account \in {"open", "banned", "deleted"}
  /\ vacation \in BOOLEAN
  /\ touched \subseteq Listings
  /\ revived \subseteq Listings
=============================================================================
