--------------------------- MODULE Market_proofs ----------------------------
(***************************************************************************)
(* The safety of the market, for any listings, orders, tabs and uses of a  *)
(* coupon, and any number of writes under way.                             *)
(***************************************************************************)
EXTENDS Market, FiniteSetTheorems, TLAPS

\* An order that exists in the database, and not only in a request.
Made(o) == order[o] \notin {"none", "checking"}

\* An order knows its listing from its checks on.
Placed == \A o \in Orders : order[o] # "none" => item[o] \in Listings

\* A slot is given its coupon when it is taken, and loses it when it is refused.
CouponInv == CouponCounts /\ \A o \in couponed : order[o] # "none"

\* A checkout has read every item the bundle still has, for items only leave.
BundleInv ==
  /\ BundleOnce
  /\ \A o \in bundled : Made(o)
  /\ bundle # "CHECKED_OUT" => bundled = {}
  /\ \A t \in Tabs : checkouts[t] # {} =>
       bundle # "none" /\ (bundle = "OPEN" => items \subseteq checkouts[t])

\* A listing that the sweep has listed, or whose own images it has taken, is
\* DELETED: only a write by id, which revived remembers, puts it back on sale.
EvidenceInv ==
  /\ EvidenceServed
  /\ \A o \in snapshots : Made(o)
  /\ \A l \in Listings \ revived, k \in Images :
       Private(l, k) /\ object[k] = "swept" => listing[l] \in {"DELETED", "gone"}
  /\ \A c \in sweeping : c[1] \notin revived => listing[c[1]] \in {"DELETED", "gone"}
  /\ \A l \in Listings : listing[l] = "gone" => \A o \in Orders : Made(o) => item[o] # l

MarketInv == TypeOK /\ Placed /\ SoldWhileOrdered /\ CouponInv /\ BundleInv /\ EvidenceInv

-----------------------------------------------------------------------------
\* Nothing is published, ordered or counted to begin with.
THEOREM MarketInit == Init => MarketInv
<1> SUFFICES ASSUME Init PROVE MarketInv
  OBVIOUS
<1> USE StockAssumption
<1>1. TypeOK
  BY DEF Init, TypeOK, Statuses, OpenStatuses, Names, NoImages
<1>2. CouponInv
  <2>1. {o \in couponed : order[o] # "checking"} = {}
    BY DEF Init
  <2> QED BY <2>1, FS_EmptySet DEF Init, CouponInv, CouponCounts
<1>3. Placed /\ SoldWhileOrdered
  BY DEF Init, Placed, SoldWhileOrdered, OpenOrders, IsOpen, OpenStatuses
<1>4. BundleInv
  BY DEF Init, BundleInv, BundleOnce
<1>5. EvidenceInv
  BY DEF Init, EvidenceInv, EvidenceServed, Made
<1> QED BY <1>1, <1>2, <1>3, <1>4, <1>5 DEF MarketInv

-----------------------------------------------------------------------------
(* Steps that leave the orders alone.                                      *)

OrdersKept == UNCHANGED <<orderVars, couponVars, bundleVars>>

\* What the writers of listings may do to one: not take it from its order
\* unseen, not bring it back from DELETED unseen, not drop images an order's
\* snapshot needs.
ListingStep ==
  /\ touched \subseteq touched' /\ revived \subseteq revived'
  /\ \A l \in Listings \ touched' :
       listing[l] = "SOLD" /\ OpenOrders(l) # {} => listing'[l] = "SOLD"
  /\ \A l \in Listings \ revived' :
       listing[l] \in {"DELETED", "gone"} => listing'[l] \in {"DELETED", "gone"}
  /\ \A c \in sweeping' \ sweeping : listing'[c[1]] = "DELETED"
  /\ \A l \in Listings :
       /\ listing[l] = "gone" => listing'[l] = "gone"
       /\ listing'[l] = "gone" /\ listing[l] # "gone" =>
            \A o \in Orders : Made(o) => item[o] # l
  /\ \A k \in Images : object'[k] = "swept" /\ object[k] # "swept" =>
       \E c \in sweeping : k \in c[2] /\ \A o \in snapshots : item[o] # c[1]

\* Such a step keeps the invariant.
LEMMA ListingsKeep ==
  ASSUME MarketInv, TypeOK', OrdersKept, ListingStep PROVE MarketInv'
<1>1. UNCHANGED <<order, item, snapshots, evidence, bundled, couponed, usedCount, bundle,
                  items, checkouts, seen, removals>>
  BY DEF OrdersKept, orderVars, couponVars, bundleVars
<1>2. Placed' /\ CouponInv' /\ BundleInv'
  BY <1>1 DEF MarketInv, Placed, CouponInv, CouponCounts, BundleInv, BundleOnce, Made
<1>3. \A l \in Listings : OpenOrders(l)' = OpenOrders(l)
  BY <1>1 DEF OpenOrders, IsOpen
<1>4. SoldWhileOrdered'
  <2> SUFFICES ASSUME NEW l \in Listings, l \notin touched', NEW o \in OpenOrders(l)
               PROVE  OpenOrders(l) = {o} /\ listing'[l] = "SOLD"
    BY <1>3 DEF SoldWhileOrdered
  <2>1. l \notin touched
    BY DEF ListingStep
  <2>2. OpenOrders(l) = {o} /\ listing[l] = "SOLD"
    BY <2>1 DEF MarketInv, SoldWhileOrdered
  <2> QED BY <2>2 DEF ListingStep
<1>5. EvidenceInv'
  <2>1. \A l \in Listings : l \notin revived' => l \notin revived
    BY DEF ListingStep
  <2>2. EvidenceServed'
    <3> SUFFICES ASSUME NEW o \in snapshots, item[o] \notin revived', NEW k \in evidence[o],
                        Private(item[o], k), object'[k] = "swept"
                 PROVE  FALSE
      BY <1>1 DEF EvidenceServed, Private
    <3>1. item[o] \in Listings /\ k \in Images
      BY DEF MarketInv, TypeOK, Placed, EvidenceInv, Made
    <3>2. object[k] # "swept"
      BY <3>1, <2>1 DEF MarketInv, EvidenceInv, EvidenceServed
    <3>3. PICK c \in sweeping : k \in c[2] /\ \A p \in snapshots : item[p] # c[1]
      BY <3>1, <3>2 DEF ListingStep
    <3> QED BY <3>3, <3>1 DEF MarketInv, TypeOK, Private
  <2>3. \A o \in snapshots' : Made(o)'
    BY <1>1 DEF MarketInv, EvidenceInv, Made
  <2>4. \A c \in sweeping' : c[1] \notin revived' => listing'[c[1]] \in {"DELETED", "gone"}
    <3> SUFFICES ASSUME NEW c \in sweeping', c[1] \notin revived'
                 PROVE  listing'[c[1]] \in {"DELETED", "gone"}
      OBVIOUS
    <3>1. c[1] \in Listings
      BY DEF TypeOK
    <3>2. CASE c \in sweeping
      BY <3>1, <3>2, <2>1 DEF MarketInv, EvidenceInv, ListingStep
    <3>3. CASE c \notin sweeping
      BY <3>3 DEF ListingStep
    <3> QED BY <3>2, <3>3
  <2>5. \A l \in Listings \ revived', k \in Images :
          Private(l, k) /\ object'[k] = "swept" => listing'[l] \in {"DELETED", "gone"}
    <3> SUFFICES ASSUME NEW l \in Listings \ revived', NEW k \in Images, Private(l, k),
                        object'[k] = "swept"
                 PROVE  listing'[l] \in {"DELETED", "gone"}
      OBVIOUS
    <3>1. CASE object[k] = "swept"
      BY <3>1, <2>1 DEF MarketInv, EvidenceInv, ListingStep
    <3>2. CASE object[k] # "swept"
      <4>1. PICK c \in sweeping : k \in c[2]
        BY <3>2 DEF ListingStep
      <4>2. c[1] = l
        BY <4>1 DEF MarketInv, TypeOK, Private
      <4> QED BY <4>1, <4>2, <2>1 DEF MarketInv, EvidenceInv, ListingStep
    <3> QED BY <3>1, <3>2
  <2>6. \A l \in Listings : listing'[l] = "gone" => \A o \in Orders : Made(o)' => item'[o] # l
    BY <1>1 DEF MarketInv, EvidenceInv, ListingStep, Made
  <2> QED BY <2>2, <2>3, <2>4, <2>5, <2>6 DEF EvidenceInv, Private
<1> QED BY <1>2, <1>4, <1>5 DEF MarketInv

-----------------------------------------------------------------------------
(* The writers of listings.                                                *)

\* A write by id of a row that is there.
LEMMA WrittenById ==
  ASSUME MarketInv, NEW l \in Listings, listing[l] # "gone", NEW s \in Statuses,
         WriteById(l, s), UNCHANGED <<object, sweeping, orderVars>>
  PROVE  /\ ListingStep
         /\ listing' \in [Listings -> Statuses \cup {"none", "gone"}]
         /\ touched' \subseteq Listings /\ revived' \subseteq Listings
<1> USE DEF MarketInv, TypeOK
<1>1. /\ listing' = [listing EXCEPT ![l] = s]
      /\ touched \subseteq touched' /\ touched' \subseteq Listings
      /\ OpenOrders(l) # {} => l \in touched'
      /\ revived' = revived \cup {k \in Listings : listing[k] = "DELETED"
                                   /\ [listing EXCEPT ![l] = s][k] \in Statuses \ {"DELETED"}}
  BY DEF WriteById, SetListings
<1>2. \A k \in Listings \ {l} : listing'[k] = listing[k]
  BY <1>1
<1>3. listing'[l] = s /\ s # "gone"
  BY <1>1 DEF Statuses
<1>4. l \notin revived' /\ listing[l] \in {"DELETED", "gone"} => listing'[l] = "DELETED"
  BY <1>1, <1>3
<1>5. revived \subseteq revived' /\ revived' \subseteq Listings
  BY <1>1
<1>6. ListingStep
  BY <1>1, <1>2, <1>3, <1>4, <1>5 DEF ListingStep
<1> QED BY <1>1, <1>5, <1>6

\* A conditional write that spares what is SOLD or DELETED.
LEMMA WrittenAll ==
  ASSUME MarketInv, NEW from \in SUBSET {"ACTIVE", "PAUSED"}, NEW s \in Statuses,
         MoveAll(from, s), UNCHANGED <<object, sweeping>>
  PROVE  /\ ListingStep
         /\ listing' \in [Listings -> Statuses \cup {"none", "gone"}]
         /\ touched' = touched /\ revived' \subseteq Listings
<1> USE DEF MarketInv, TypeOK
<1>1. /\ \A k \in Listings : listing'[k] = IF listing[k] \in from THEN s ELSE listing[k]
      /\ touched' = touched /\ revived \subseteq revived' /\ revived' \subseteq Listings
      /\ listing' \in [Listings -> Statuses \cup {"none", "gone"}]
  BY DEF MoveAll, SetListings
<1>2. ListingStep
  BY <1>1 DEF ListingStep, Statuses
<1> QED BY <1>1, <1>2

\* The sellers, the jobs and the moderators keep the invariant.
LEMMA CatalogKeeps == ASSUME MarketInv, CatalogNext PROVE MarketInv'
<1> USE StockAssumption
<1>1. ASSUME NEW l \in Listings, Publish(l) PROVE MarketInv'
  <2>1. OrdersKept /\ TypeOK'
    <3>1. PICK S \in Lists[l] : shows' = [shows EXCEPT ![l] = S]
      BY <1>1 DEF Publish
    <3>2. S \in SUBSET Images /\ S \subseteq Names(l)
      BY DEF Names
    <3>3. shows' \in [Listings -> SUBSET Images] /\ \A k \in Listings : shows'[k] \subseteq Names(k)
      BY <3>1, <3>2 DEF MarketInv, TypeOK
    <3>4. listing' \in [Listings -> Statuses \cup {"none", "gone"}]
      BY <1>1 DEF Publish, MarketInv, TypeOK, Statuses
    <3> QED
      BY <1>1, <3>3, <3>4 DEF Publish, OrdersKept, MarketInv, TypeOK, sellerVars, orderVars,
                              couponVars, bundleVars
  <2>2. /\ UNCHANGED <<object, touched, revived, sweeping>>
        /\ \A k \in Listings : listing'[k] = listing[k]
                               \/ (listing[k] = "none" /\ listing'[k] = "ACTIVE")
    BY <1>1 DEF Publish, MarketInv, TypeOK, sellerVars
  <2>3. ListingStep
    BY <2>2 DEF ListingStep
  <2> QED BY <2>1, <2>3, ListingsKeep
<1>2. ASSUME NEW k, RejectImage(k) PROVE MarketInv'
  <2> DEFINE of == {l \in Listings : listing[l] \in Statuses /\ k \in shows[l]}
             new == [l \in Listings |-> IF l \in of THEN "SUSPENDED" ELSE listing[l]]
  <2>1. /\ OrdersKept /\ listing' = new
        /\ touched' = touched \cup {l \in of : OpenOrders(l) # {}}
        /\ revived' = revived \cup {l \in Listings : listing[l] = "DELETED"
                                      /\ new[l] \in Statuses \ {"DELETED"}}
        /\ shows' = [l \in Listings |-> shows[l] \ {k}]
        /\ flagged' = flagged \ {k}
        /\ UNCHANGED <<object, sweeping>>
    BY <1>2 DEF RejectImage, SetListings, OrdersKept, sellerVars
  <2>2. \A l \in Listings : IF l \in of THEN listing'[l] = "SUSPENDED"
                                       ELSE listing'[l] = listing[l]
    BY <2>1
  <2>3. \A l \in of : listing[l] # "gone" /\ (OpenOrders(l) # {} => l \in touched')
    BY <2>1 DEF Statuses
  <2>4. \A l \in of : listing[l] = "DELETED" => l \in revived'
    BY <2>1 DEF Statuses
  <2>5. TypeOK'
    <3>1. listing' \in [Listings -> Statuses \cup {"none", "gone"}]
      BY <2>1 DEF MarketInv, TypeOK, Statuses
    <3>2. shows' \in [Listings -> SUBSET Images]
      BY <2>1 DEF MarketInv, TypeOK
    <3>3. touched' \subseteq Listings /\ revived' \subseteq Listings
      BY <2>1 DEF MarketInv, TypeOK
    <3> QED BY <1>2, <2>1, <3>1, <3>2, <3>3
            DEF RejectImage, MarketInv, TypeOK, sellerVars, orderVars, couponVars, bundleVars
  <2> HIDE DEF of, new
  <2>6. ListingStep
    BY <2>1, <2>2, <2>3, <2>4 DEF ListingStep
  <2> QED BY <2>1, <2>5, <2>6, ListingsKeep
<1>3. ASSUME NEW c \in sweeping, Sweep(c[1], c[2]) PROVE MarketInv'
  <2> DEFINE l == c[1]
  <2>0. l \in Listings
    BY DEF MarketInv, TypeOK
  <2>1. OrdersKept /\ TypeOK'
    <3>1. object' \in [Images -> {"stored", "swept", "erased"}]
      <4>1. CASE \E D \in SUBSET c[2] :
                   object' = [k \in Images |-> IF k \in D /\ object[k] = "stored"
                                              THEN "swept" ELSE object[k]]
        BY <4>1 DEF MarketInv, TypeOK
      <4>2. CASE UNCHANGED object
        BY <4>2 DEF MarketInv, TypeOK
      <4> QED BY <1>3, <4>1, <4>2 DEF Sweep, imageVars
    <3>2. /\ shows' \in [Listings -> SUBSET Images]
          /\ \A k \in Listings : shows'[k] \subseteq Names(k)
          /\ listing' \in [Listings -> Statuses \cup {"none", "gone"}]
      BY <1>3 DEF Sweep, MarketInv, TypeOK, imageVars
    <3>3. OrdersKept /\ sweeping' \subseteq sweeping
          /\ UNCHANGED <<flagged, touched, revived, account, vacation>>
      BY <1>3 DEF Sweep, OrdersKept
    <3> QED BY <3>1, <3>2, <3>3
              DEF OrdersKept, MarketInv, TypeOK, orderVars, couponVars, bundleVars
  <2>2. /\ touched' = touched /\ revived' = revived /\ sweeping' \subseteq sweeping
        /\ \A k \in Listings \ {l} : listing'[k] = listing[k]
    BY <1>3 DEF Sweep, MarketInv, TypeOK
  <2>3. listing'[l] = listing[l] \/ (listing'[l] = "gone" /\ ~HasRows(l))
    BY <1>3, <2>0 DEF Sweep, MarketInv, TypeOK
  <2>4. \A k \in Images : object'[k] = "swept" /\ object[k] # "swept" =>
          k \in c[2] /\ Unreferenced(l)
    BY <1>3 DEF Sweep, imageVars
  <2>5. listing'[l] = "gone" /\ listing[l] # "gone" =>
          (\A o \in Orders : Made(o) => item[o] # l) /\ OpenOrders(l) = {}
    BY <2>3 DEF HasRows, Made, OpenOrders, IsOpen, OpenStatuses
  <2>6. ListingStep
    BY <2>0, <2>2, <2>3, <2>4, <2>5 DEF ListingStep, Unreferenced
  <2> QED BY <2>1, <2>6, ListingsKeep
<1>4. ASSUME NEW l \in Listings, NEW w \in DOMAIN Handlers, BeginWrite(w, l) PROVE MarketInv'
  <2>1. OrdersKept /\ TypeOK' /\ ListingStep
    BY <1>4 DEF BeginWrite, OrdersKept, MarketInv, TypeOK, ListingStep, listingVars, orderVars,
                couponVars, bundleVars
  <2> QED BY <2>1, ListingsKeep
<1>5. ASSUME NEW l \in Listings, NEW w \in DOMAIN Handlers, FinishWrite(w, l) PROVE MarketInv'
  <2>1. OrdersKept /\ UNCHANGED <<shows, object, flagged, sweeping, account, vacation, orderVars>>
    BY <1>5 DEF FinishWrite, OrdersKept, imageVars
  <2>2. CASE listing[l] = "gone"
    <3>1. TypeOK' /\ ListingStep
      BY <1>5, <2>1, <2>2
         DEF FinishWrite, MarketInv, TypeOK, ListingStep, orderVars, couponVars, bundleVars
    <3> QED BY <2>1, <3>1, ListingsKeep
  <2>3. CASE listing[l] # "gone"
    <3>1. PICK s \in Handlers[w].writes : WriteById(l, s)
      BY <1>5, <2>3 DEF FinishWrite
    <3>2. s \in Statuses
      BY <3>1 DEF Handlers, Update, Remove, AutoStaleListings, CleanupPausedListings,
                  SuspendListing, UnsuspendListing, HideListing, Statuses
    <3>3. ListingStep /\ TypeOK'
      BY <1>5, <2>1, <2>3, <3>1, <3>2, WrittenById
         DEF FinishWrite, MarketInv, TypeOK, orderVars, couponVars, bundleVars
    <3> QED BY <2>1, <3>3, ListingsKeep
  <2> QED BY <2>2, <2>3
<1>6. ASSUME NEW on \in BOOLEAN, ToggleVacation(on) PROVE MarketInv'
  <2>1. OrdersKept /\ UNCHANGED <<shows, object, flagged, sweeping, account>> /\ vacation' = on
    BY <1>6 DEF ToggleVacation, OrdersKept, imageVars
  <2>2. PICK from \in SUBSET {"ACTIVE", "PAUSED"}, s \in Statuses : MoveAll(from, s)
    BY <1>6 DEF ToggleVacation, PausedBy, Statuses
  <2>3. ListingStep /\ TypeOK'
    BY <2>1, <2>2, WrittenAll
       DEF OrdersKept, MarketInv, TypeOK, orderVars, couponVars, bundleVars
  <2> QED BY <2>1, <2>3, ListingsKeep
<1>7. ASSUME BanSeller \/ DeleteSeller PROVE MarketInv'
  <2>1. OrdersKept /\ UNCHANGED <<shows, object, flagged, sweeping, vacation>>
        /\ account' \in {"banned", "deleted"}
    BY <1>7 DEF BanSeller, DeleteSeller, OrdersKept, imageVars
  <2>2. PICK from \in SUBSET {"ACTIVE", "PAUSED"}, s \in Statuses : MoveAll(from, s)
    BY <1>7 DEF BanSeller, DeleteSeller, Statuses
  <2>3. ListingStep /\ TypeOK'
    BY <2>1, <2>2, WrittenAll
       DEF OrdersKept, MarketInv, TypeOK, orderVars, couponVars, bundleVars
  <2> QED BY <2>1, <2>3, ListingsKeep
<1>8. ASSUME UnbanSeller \/ ListDeleted PROVE MarketInv'
  <2>1. OrdersKept /\ UNCHANGED listingVars /\ UNCHANGED vacation
        /\ account' \in {account, "open"}
    BY <1>8 DEF UnbanSeller, ListDeleted, OrdersKept
  <2>2. \A c \in sweeping' : \/ c \in sweeping
                             \/ /\ c[1] \in Listings /\ listing[c[1]] = "DELETED"
                                /\ c[2] = shows[c[1]]
    BY <1>8, StockAssumption DEF UnbanSeller, ListDeleted
  <2>3. TypeOK'
    BY <2>1, <2>2 DEF OrdersKept, MarketInv, TypeOK, listingVars, orderVars, couponVars, bundleVars
  <2>4. ListingStep
    BY <2>1, <2>2 DEF ListingStep, listingVars
  <2> QED BY <2>1, <2>3, <2>4, ListingsKeep
<1>9. ASSUME NEW l \in Listings, DropImages(l) PROVE MarketInv'
  <2>1. OrdersKept /\ TypeOK' /\ ListingStep
    BY <1>9 DEF DropImages, OrdersKept, MarketInv, TypeOK, ListingStep, orderVars, couponVars,
                bundleVars
  <2> QED BY <2>1, ListingsKeep
<1>10. ASSUME NEW l \in Listings, FinishRelist(l) PROVE MarketInv'
  <2>1. OrdersKept /\ UNCHANGED <<object, flagged, sweeping, account, vacation, orderVars>>
    BY <1>10 DEF FinishRelist, OrdersKept
  <2>2. shows' \in [Listings -> SUBSET Images] /\ \A k \in Listings : shows'[k] \subseteq Names(k)
    <3>1. CASE UNCHANGED shows
      BY <3>1 DEF MarketInv, TypeOK
    <3>2. CASE \E S \in Lists[l] : shows' = [shows EXCEPT ![l] = shows[l] \cup S]
      <4>1. PICK S \in Lists[l] : shows' = [shows EXCEPT ![l] = shows[l] \cup S]
        BY <3>2
      <4>2. S \subseteq Images /\ S \subseteq Names(l)
        BY DEF Names
      <4> QED BY <4>1, <4>2 DEF MarketInv, TypeOK
    <3> QED BY <1>10, <3>1, <3>2 DEF FinishRelist
  <2>3. CASE UNCHANGED <<listing, touched, revived>>
    <3>1. TypeOK' /\ ListingStep
      BY <2>1, <2>2, <2>3
         DEF OrdersKept, MarketInv, TypeOK, ListingStep, orderVars, couponVars, bundleVars
    <3> QED BY <2>1, <3>1, ListingsKeep
  <2>4. CASE listing[l] # "gone" /\ \E s \in Update.writes : WriteById(l, s)
    <3>1. PICK s \in Statuses : WriteById(l, s)
      BY <2>4 DEF Update, Statuses
    <3>2. ListingStep /\ TypeOK'
      BY <2>1, <2>2, <2>4, <3>1, WrittenById
         DEF OrdersKept, MarketInv, TypeOK, orderVars, couponVars, bundleVars
    <3> QED BY <2>1, <3>2, ListingsKeep
  <2> QED BY <1>10, <2>3, <2>4 DEF FinishRelist
<1>11. ASSUME NEW k \in Images, EraseUpload(k) PROVE MarketInv'
  <2>1. OrdersKept /\ TypeOK' /\ ListingStep
    BY <1>11 DEF EraseUpload, OrdersKept, MarketInv, TypeOK, ListingStep, orderVars, couponVars,
                 bundleVars, sellerVars
  <2> QED BY <2>1, ListingsKeep
<1> QED
  BY <1>1, <1>2, <1>3, <1>4, <1>5, <1>6, <1>7, <1>8, <1>9, <1>10, <1>11 DEF CatalogNext

-----------------------------------------------------------------------------
(* The bundle, up to its checkout.                                         *)

\* Editing the bundle, and reading it, concern nobody else.
LEMMA BundleKeeps ==
  ASSUME MarketInv, UNCHANGED <<listingVars, orderVars, couponVars, sellerVars>>,
         TypeOK', BundleInv'
  PROVE  MarketInv'
<1>1. UNCHANGED <<listing, object, touched, revived, order, item, snapshots, evidence, bundled,
                  couponed, usedCount, sweeping>>
  BY DEF listingVars, orderVars, couponVars, sellerVars
<1>2. Placed' /\ CouponInv' /\ SoldWhileOrdered'
  BY <1>1 DEF MarketInv, Placed, CouponInv, CouponCounts, SoldWhileOrdered, OpenOrders, IsOpen
<1>3. EvidenceInv'
  BY <1>1 DEF MarketInv, EvidenceInv, EvidenceServed, Made, Private
<1> QED BY <1>2, <1>3 DEF MarketInv

\* The types of what is not the bundle's.
LEMMA BundleTypes ==
  ASSUME MarketInv, UNCHANGED <<listingVars, orderVars, couponVars, sellerVars>>,
         bundle' \in {"none", "OPEN", "CHECKED_OUT"}, items' \subseteq Listings,
         checkouts' \in [Tabs -> SUBSET Listings],
         seen' \in [Tabs -> [Listings -> SUBSET Images]], removals' \subseteq Listings
  PROVE  TypeOK'
BY DEF MarketInv, TypeOK, listingVars, orderVars, couponVars, sellerVars

\* createBundle, removeItem and the read of checkoutBundle keep the invariant.
LEMMA EditKeeps ==
  ASSUME MarketInv,
         \/ \E S \in SUBSET Bundlable : CreateBundle(S)
         \/ \E l \in Listings : BeginRemoval(l) \/ FinishRemoval(l)
         \/ \E t \in Tabs : BeginCheckout(t) \/ LoseCheckout(t)
  PROVE  MarketInv'
<1> USE StockAssumption
<1>1. ASSUME NEW S \in SUBSET Bundlable, CreateBundle(S) PROVE MarketInv'
  <2>1. UNCHANGED <<listingVars, orderVars, couponVars, sellerVars>> /\ TypeOK'
    BY <1>1, BundleTypes DEF CreateBundle, MarketInv, TypeOK
  <2>2. BundleInv'
    BY <1>1 DEF CreateBundle, MarketInv, BundleInv, BundleOnce, Made, orderVars
  <2> QED BY <2>1, <2>2, BundleKeeps
<1>2. ASSUME NEW l \in Listings, BeginRemoval(l) PROVE MarketInv'
  <2>1. UNCHANGED <<listingVars, orderVars, couponVars, sellerVars>> /\ TypeOK'
    BY <1>2, BundleTypes DEF BeginRemoval, MarketInv, TypeOK
  <2>2. BundleInv'
    BY <1>2 DEF BeginRemoval, MarketInv, BundleInv, BundleOnce, Made, orderVars
  <2> QED BY <2>1, <2>2, BundleKeeps
<1>3. ASSUME NEW l \in Listings, FinishRemoval(l) PROVE MarketInv'
  <2>1. UNCHANGED <<listingVars, orderVars, couponVars, sellerVars>> /\ TypeOK'
    BY <1>3, BundleTypes DEF FinishRemoval, MarketInv, TypeOK
  <2>2. BundleInv'
    BY <1>3 DEF FinishRemoval, MarketInv, BundleInv, BundleOnce, Made, orderVars
  <2> QED BY <2>1, <2>2, BundleKeeps
<1>4. ASSUME NEW t \in Tabs, BeginCheckout(t) PROVE MarketInv'
  <2>1. UNCHANGED <<listingVars, orderVars, couponVars, sellerVars>> /\ TypeOK'
    <3>1. [l \in Listings |-> IF l \in items THEN shows[l] ELSE {}] \in [Listings -> SUBSET Images]
      BY DEF MarketInv, TypeOK
    <3> QED BY <1>4, <3>1, BundleTypes DEF BeginCheckout, MarketInv, TypeOK
  <2>2. BundleInv'
    BY <1>4 DEF BeginCheckout, MarketInv, TypeOK, BundleInv, BundleOnce, Made, orderVars
  <2> QED BY <2>1, <2>2, BundleKeeps
<1>5. ASSUME NEW t \in Tabs, LoseCheckout(t) PROVE MarketInv'
  <2>1. UNCHANGED <<listingVars, orderVars, couponVars, sellerVars>> /\ TypeOK'
    BY <1>5, BundleTypes DEF LoseCheckout, MarketInv, TypeOK, NoImages
  <2>2. BundleInv'
    BY <1>5 DEF LoseCheckout, MarketInv, TypeOK, BundleInv, BundleOnce, Made, orderVars
  <2> QED BY <2>1, <2>2, BundleKeeps
<1> QED BY <1>1, <1>2, <1>3, <1>4, <1>5

-----------------------------------------------------------------------------
(* An order on its way.                                                    *)

\* The checks of create take a slot, a refusal gives it back: the database
\* does not see either.
LEMMA CheckKeeps ==
  ASSUME MarketInv, NEW o \in Orders,
         \/ \E l \in Listings, c \in BOOLEAN : CheckListing(o, l, c)
         \/ RefuseOrder(o)
  PROVE  MarketInv'
<1> USE StockAssumption
<1>1. /\ UNCHANGED <<listing, shows, object, flagged, touched, revived, snapshots, evidence, bundled,
                     usedCount, bundle, items, checkouts, seen, removals, late, sweeping, account,
                     vacation>>
      /\ \A p \in Orders \ {o} : order'[p] = order[p] /\ item'[p] = item[p]
      /\ {order[o], order'[o]} = {"none", "checking"}
      /\ order'[o] = "checking" => item'[o] \in Listings
  BY DEF CheckListing, RefuseOrder, MarketInv, TypeOK, listingVars, bundleVars, sellerVars
<1>2. order' \in [Orders -> OpenStatuses \cup {"none", "checking", "CANCELLED", "closed"}]
      /\ item' \in [Orders -> Listings \cup {"none"}] /\ couponed' \subseteq Orders
  <2>1. CASE \E l \in Listings, c \in BOOLEAN : CheckListing(o, l, c)
    BY <2>1 DEF CheckListing, MarketInv, TypeOK
  <2>2. CASE RefuseOrder(o)
    BY <2>2 DEF RefuseOrder, MarketInv, TypeOK
  <2> QED BY <2>1, <2>2
<1>3. TypeOK'
  BY <1>1, <1>2 DEF MarketInv, TypeOK
<1>4. Placed'
  BY <1>1 DEF MarketInv, Placed
<1>5. \A p \in Orders : /\ Made(p)' <=> Made(p)
                        /\ Made(p) => item'[p] = item[p]
                        /\ IsOpen(p)' <=> IsOpen(p)
                        /\ IsOpen(p) => item'[p] = item[p]
  BY <1>1 DEF Made, IsOpen, OpenStatuses
<1>6. SoldWhileOrdered'
  <2>1. \A l \in Listings : OpenOrders(l)' = OpenOrders(l)
    BY <1>5 DEF OpenOrders
  <2> QED BY <1>1, <2>1 DEF MarketInv, SoldWhileOrdered
<1>7. CouponInv'
  <2>1. \A p \in couponed' : order'[p] # "none"
    BY <1>1 DEF MarketInv, CouponInv, CheckListing, RefuseOrder, TypeOK
  <2>2. {p \in couponed' : order'[p] # "checking"} = {p \in couponed : order[p] # "checking"}
    <3>1. couponed' \subseteq couponed \cup {o} /\ couponed \subseteq couponed' \cup {o}
      BY DEF CheckListing, RefuseOrder
    <3>2. o \in couponed => order[o] = "checking"
      BY <1>1 DEF MarketInv, CouponInv
    <3>3. o \in couponed' => order'[o] = "checking"
      BY <1>1, <2>1
    <3>4. couponed \subseteq Orders /\ couponed' \subseteq Orders
      BY <1>2 DEF MarketInv, TypeOK
    <3> QED BY <1>1, <3>1, <3>2, <3>3, <3>4
  <2> QED BY <1>1, <2>1, <2>2 DEF MarketInv, CouponInv, CouponCounts
<1>8. BundleInv'
  <2>1. \A p \in bundled : p \in Orders /\ Made(p) /\ Made(p)' /\ item'[p] = item[p]
    BY <1>5 DEF MarketInv, TypeOK, BundleInv
  <2>2. {item'[p] : p \in bundled} = {item[p] : p \in bundled}
    BY <2>1
  <2> QED BY <1>1, <2>1, <2>2 DEF MarketInv, BundleInv, BundleOnce
<1>9. EvidenceInv'
  <2>1. \A p \in snapshots : p \in Orders /\ Made(p) /\ Made(p)' /\ item'[p] = item[p]
    BY <1>5 DEF MarketInv, TypeOK, EvidenceInv
  <2>2. \A l \in Listings : listing'[l] = "gone" => \A p \in Orders : Made(p)' => item'[p] # l
    BY <1>1, <1>5 DEF MarketInv, EvidenceInv
  <2>3. EvidenceServed'
    BY <1>1, <2>1 DEF MarketInv, EvidenceInv, EvidenceServed, Private
  <2> QED BY <1>1, <2>1, <2>2, <2>3 DEF MarketInv, EvidenceInv, Private
<1> QED BY <1>3, <1>4, <1>6, <1>7, <1>8, <1>9 DEF MarketInv

\* The transaction of create: SERIALIZABLE, so its checks hold as it writes.
LEMMA CreateKeeps == ASSUME MarketInv, NEW o \in Orders, CreateOrder(o) PROVE MarketInv'
<1> USE StockAssumption
<1> DEFINE k == item[o]
<1>1. /\ order[o] = "checking" /\ k \in Listings /\ listing[k] = "ACTIVE"
      /\ o \in couponed => usedCount < MaxUses
      /\ UNCHANGED <<shows, object, flagged, touched, item, bundled, couponed, bundle, items, checkouts,
                     seen, removals, late, sweeping, account, vacation>>
      /\ snapshots' = snapshots \cup {o}
      /\ evidence' = [evidence EXCEPT ![o] = shows[k]]
      /\ usedCount' = IF o \in couponed THEN usedCount + 1 ELSE usedCount
  BY DEF CreateOrder, StillActive, UsesLeft, MarketInv, Placed, bundleVars, sellerVars, imageVars
<1>2. /\ order' \in [Orders -> OpenStatuses \cup {"none", "checking", "CANCELLED", "closed"}]
      /\ \A p \in Orders \ {o} : order'[p] = order[p]
      /\ order'[o] \in OpenStatuses
  BY <1>1 DEF CreateOrder, MarketInv, TypeOK, OpenStatuses
<1>3. /\ listing' = [listing EXCEPT ![k] = "SOLD"]
      /\ revived' = revived
  BY <1>1 DEF CreateOrder, SetListings, MarketInv, TypeOK
<1>4. TypeOK'
  <2>1. evidence' \in [Orders -> SUBSET Images]
    BY <1>1 DEF MarketInv, TypeOK
  <2>2. listing' \in [Listings -> Statuses \cup {"none", "gone"}]
    BY <1>3 DEF MarketInv, TypeOK, Statuses
  <2> QED BY <1>1, <1>2, <1>3, <2>1, <2>2 DEF MarketInv, TypeOK
<1>5. Placed'
  BY <1>1, <1>2 DEF MarketInv, Placed
<1>6. /\ \A l \in Listings \ {k} : listing'[l] = listing[l]
      /\ listing'[k] = "SOLD"
  BY <1>1, <1>3 DEF MarketInv, TypeOK
<1>7. SoldWhileOrdered'
  <2>1. \A l \in Listings \ {k} : OpenOrders(l)' = OpenOrders(l)
    BY <1>1, <1>2 DEF OpenOrders, IsOpen
  <2>2. k \notin touched => OpenOrders(k) = {}
    BY <1>1 DEF MarketInv, SoldWhileOrdered
  <2>3. OpenOrders(k)' = OpenOrders(k) \cup {o}
    BY <1>1, <1>2 DEF OpenOrders, IsOpen, OpenStatuses
  <2> QED BY <1>1, <1>6, <2>1, <2>2, <2>3 DEF MarketInv, SoldWhileOrdered
<1>8. CouponInv'
  <2> DEFINE C == {p \in couponed : order[p] # "checking"}
             D == {p \in couponed : order'[p] # "checking"}
  <2>1. IsFiniteSet(C)
    BY FS_Subset DEF MarketInv, TypeOK
  <2>2. usedCount = Cardinality(C) /\ usedCount <= MaxUses /\ usedCount \in Nat
    BY DEF MarketInv, CouponInv, CouponCounts, TypeOK
  <2>3. couponed \subseteq Orders /\ order'[o] # "checking" /\ o \notin C
    BY <1>1, <1>2 DEF MarketInv, TypeOK, OpenStatuses
  <2>4. CASE o \in couponed
    <3>1. D = C \cup {o}
      BY <1>2, <2>3, <2>4
    <3>2. Cardinality(D) = Cardinality(C) + 1
      BY <2>1, <2>3, <3>1, FS_AddElement
    <3>3. usedCount' = Cardinality(D) /\ usedCount' <= MaxUses
      BY <1>1, <2>2, <2>4, <3>2
    <3>4. \A p \in couponed' : order'[p] # "none"
      BY <1>1, <1>2 DEF MarketInv, TypeOK, CouponInv, OpenStatuses
    <3> QED BY <1>1, <3>3, <3>4 DEF CouponInv, CouponCounts
  <2>5. CASE o \notin couponed
    <3>1. D = C
      BY <1>2, <2>3, <2>5
    <3>2. \A p \in couponed' : order'[p] # "none"
      BY <1>1, <1>2, <2>5 DEF MarketInv, TypeOK, CouponInv
    <3> QED BY <1>1, <2>2, <2>5, <3>1, <3>2 DEF CouponInv, CouponCounts
  <2> QED BY <2>4, <2>5
<1>9. BundleInv'
  <2>1. \A p \in bundled : p \in Orders /\ Made(p) /\ p # o
    BY <1>1 DEF MarketInv, TypeOK, BundleInv, Made
  <2>2. \A p \in bundled : Made(p)'
    BY <2>1, <1>2 DEF Made
  <2> QED BY <1>1, <2>1, <2>2 DEF MarketInv, BundleInv, BundleOnce
<1>10. EvidenceInv'
  <2>1. \A p \in snapshots' : p \in Orders /\ Made(p)'
    BY <1>1, <1>2 DEF MarketInv, TypeOK, EvidenceInv, Made, OpenStatuses
  <2>2. k \notin revived => \A i \in Images : Private(k, i) => object[i] # "swept"
    BY <1>1 DEF MarketInv, EvidenceInv
  <2>3. EvidenceServed'
    <3> SUFFICES ASSUME NEW p \in snapshots \cup {o}, item[p] \notin revived,
                        NEW i \in evidence'[p], Private(item[p], i)
                 PROVE  object[i] # "swept"
      BY <1>1, <1>3 DEF EvidenceServed, Private
    <3>1. CASE p = o
      BY <3>1, <1>1, <2>2 DEF MarketInv, TypeOK
    <3>2. CASE p # o
      BY <3>2, <1>1 DEF MarketInv, TypeOK, EvidenceInv, EvidenceServed
    <3> QED BY <3>1, <3>2
  <2>4. /\ \A l \in Listings \ revived', i \in Images :
              Private(l, i) /\ object'[i] = "swept" => listing'[l] \in {"DELETED", "gone"}
        /\ \A c \in sweeping' : c[1] \notin revived' => listing'[c[1]] \in {"DELETED", "gone"}
    <3>1. \A l \in Listings : listing[l] \in {"DELETED", "gone"} => listing'[l] = listing[l]
      BY <1>1, <1>6
    <3>2. \A c \in sweeping : c[1] \in Listings
      BY DEF MarketInv, TypeOK
    <3> QED BY <3>1, <3>2, <1>1, <1>3 DEF MarketInv, EvidenceInv
  <2>5. \A l \in Listings : listing'[l] = "gone" => \A p \in Orders : Made(p)' => item'[p] # l
    BY <1>1, <1>2, <1>6 DEF MarketInv, EvidenceInv, Made
  <2> QED BY <2>1, <2>3, <2>4, <2>5 DEF EvidenceInv, Private
<1> QED BY <1>4, <1>5, <1>7, <1>8, <1>9, <1>10 DEF MarketInv

-----------------------------------------------------------------------------
(* The end of an order.                                                    *)

\* Open orders move on, or end; a cancelled one may put its listing on sale.
EndStep(S, status) ==
  /\ S \subseteq Orders /\ \A p \in S : IsOpen(p)
  /\ status \in {"CANCELLED", "PAID", "closed"}
  /\ EndOrders(S, status)
  /\ snapshots' \subseteq snapshots
  /\ evidence' \in [Orders -> SUBSET Images] /\ \A p \in Orders : evidence'[p] \subseteq evidence[p]
  /\ UNCHANGED <<shows, object, flagged, touched, item, bundled, couponVars, bundleVars, sellerVars>>
  /\ revived \subseteq revived' /\ revived' \subseteq Listings
  /\ listing' \in [Listings -> Statuses \cup {"none", "gone"}]
  /\ \A l \in Listings :
       \/ listing'[l] = listing[l]
       \/ /\ listing'[l] = "ACTIVE" /\ status = "CANCELLED"
          /\ \E p \in S : item[p] = l
          /\ listing[l] = "DELETED" => l \in revived'

\* Such a step keeps the invariant.
LEMMA EndStepKeeps ==
  ASSUME MarketInv, NEW S, NEW status, EndStep(S, status) PROVE MarketInv'
<1> USE StockAssumption
<1>1. /\ UNCHANGED <<shows, object, flagged, touched, item, bundled, couponed, usedCount, bundle, items,
                     checkouts, seen, removals, late, sweeping, account, vacation>>
      /\ \A p \in Orders : order'[p] = IF p \in S THEN status ELSE order[p]
      /\ \A p \in S : p \in Orders /\ order[p] \in OpenStatuses
      /\ status \in {"CANCELLED", "PAID", "closed"}
  BY DEF EndStep, EndOrders, IsOpen, couponVars, bundleVars, sellerVars
<1>2. TypeOK'
  BY <1>1 DEF EndStep, EndOrders, MarketInv, TypeOK, OpenStatuses
<1>3. Placed'
  BY <1>1 DEF MarketInv, Placed, OpenStatuses
<1>4. SoldWhileOrdered'
  <2> SUFFICES ASSUME NEW l \in Listings, l \notin touched, NEW p \in OpenOrders(l)'
               PROVE  OpenOrders(l)' = {p} /\ listing'[l] = "SOLD"
    BY <1>1 DEF SoldWhileOrdered
  <2>1. OpenOrders(l)' \subseteq OpenOrders(l)
    BY <1>1 DEF OpenOrders, IsOpen, OpenStatuses
  <2>2. OpenOrders(l) = {p} /\ listing[l] = "SOLD"
    BY <2>1 DEF MarketInv, SoldWhileOrdered
  <2>3. ASSUME NEW q \in S, item[q] = l, status = "CANCELLED" PROVE FALSE
    <3>1. q \in OpenOrders(l)
      BY <1>1, <2>3 DEF OpenOrders, IsOpen
    <3>2. q = p
      BY <2>2, <3>1
    <3> QED BY <1>1, <2>3, <3>2 DEF OpenOrders, IsOpen, OpenStatuses
  <2> QED BY <2>1, <2>2, <2>3 DEF EndStep
<1>5. CouponInv'
  <2>1. \A p \in couponed : /\ order'[p] = "checking" <=> order[p] = "checking"
                           /\ order'[p] # "none"
    BY <1>1 DEF MarketInv, TypeOK, CouponInv, OpenStatuses
  <2>2. {p \in couponed : order'[p] # "checking"} = {p \in couponed : order[p] # "checking"}
    BY <2>1
  <2> QED BY <1>1, <2>1, <2>2 DEF MarketInv, CouponInv, CouponCounts
<1>6. \A p \in Orders : Made(p) <=> Made(p)'
  BY <1>1 DEF Made, OpenStatuses
<1>7. BundleInv'
  BY <1>1, <1>6 DEF MarketInv, TypeOK, BundleInv, BundleOnce
<1>8. EvidenceInv'
  <2>1. EvidenceServed' /\ \A p \in snapshots' : Made(p)'
    <3>1. \A p \in Orders : evidence'[p] \subseteq evidence[p]
      BY DEF EndStep
    <3>2. \A p \in snapshots' : p \in snapshots /\ p \in Orders
      BY DEF EndStep, MarketInv, TypeOK
    <3>3. revived \subseteq revived'
      BY DEF EndStep
    <3> QED BY <1>1, <1>6, <3>1, <3>2, <3>3 DEF MarketInv, EvidenceInv, EvidenceServed, Private
  <2>2. /\ \A l \in Listings \ revived', i \in Images :
              Private(l, i) /\ object'[i] = "swept" => listing'[l] \in {"DELETED", "gone"}
        /\ \A c \in sweeping' : c[1] \notin revived' => listing'[c[1]] \in {"DELETED", "gone"}
    <3>1. ASSUME NEW l \in Listings, l \notin revived', listing[l] \in {"DELETED", "gone"}
          PROVE  listing'[l] \in {"DELETED", "gone"}
      <4>1. ASSUME NEW p \in S, item[p] = l, listing[l] = "gone" PROVE FALSE
        BY <1>1, <4>1 DEF MarketInv, EvidenceInv, Made, OpenStatuses
      <4> QED BY <3>1, <4>1 DEF EndStep
    <3>2. \A c \in sweeping : c[1] \in Listings
      BY DEF MarketInv, TypeOK
    <3>3. revived \subseteq revived'
      BY DEF EndStep
    <3> QED BY <1>1, <3>1, <3>2, <3>3 DEF MarketInv, EvidenceInv
  <2>3. \A l \in Listings : listing'[l] = "gone" => \A p \in Orders : Made(p)' => item'[p] # l
    BY <1>1, <1>6 DEF EndStep, MarketInv, EvidenceInv
  <2> QED BY <2>1, <2>2, <2>3 DEF EvidenceInv, Private
<1> QED BY <1>2, <1>3, <1>4, <1>5, <1>7, <1>8 DEF MarketInv

\* Every way in which an order ends, or is paid, is such a step.
LEMMA EndKeeps ==
  ASSUME MarketInv, NEW o \in Orders,
         CancelByBuyer(o) \/ CancelByJob(o) \/ DeleteBuyer(o) \/ Settle(o) \/ CloseOrder(o)
  PROVE  MarketInv'
<1> USE StockAssumption DEF MarketInv, TypeOK
<1>1. CASE CancelByBuyer(o) \/ CancelByJob(o)
  <2>1. IsOpen(o) /\ item[o] \in Listings
    BY <1>1 DEF CancelByBuyer, CancelByJob, IsOpen, OpenStatuses, Placed
  <2>2. SetListings(listing) \/ SetListings([listing EXCEPT ![item[o]] = "ACTIVE"])
    BY <1>1 DEF CancelByBuyer, CancelByJob
  <2>3. /\ listing' \in [Listings -> Statuses \cup {"none", "gone"}]
        /\ revived \subseteq revived' /\ revived' \subseteq Listings
        /\ \A l \in Listings \ {item[o]} : listing'[l] = listing[l]
        /\ \/ listing'[item[o]] = listing[item[o]]
           \/ /\ listing'[item[o]] = "ACTIVE"
              /\ listing[item[o]] = "DELETED" => item[o] \in revived'
    BY <2>1, <2>2 DEF SetListings, Statuses
  <2>4. EndStep({o}, "CANCELLED")
    BY <1>1, <2>1, <2>3 DEF EndStep, CancelByBuyer, CancelByJob, NoLongerNeeded, imageVars
  <2> QED BY <2>4, EndStepKeeps
<1>2. CASE DeleteBuyer(o)
  <2>1. EndStep(PendingOf(o), "CANCELLED")
    BY <1>2 DEF EndStep, DeleteBuyer, PendingOf, IsOpen, OpenStatuses, listingVars
  <2> QED BY <2>1, EndStepKeeps
<1>3. CASE Settle(o)
  <2>1. EndStep({o}, "PAID")
    BY <1>3 DEF EndStep, Settle, IsOpen, OpenStatuses, listingVars
  <2> QED BY <2>1, EndStepKeeps
<1>4. CASE CloseOrder(o)
  <2>1. EndStep({o}, "closed")
    BY <1>4 DEF EndStep, CloseOrder, IsOpen, OpenStatuses, listingVars, NoLongerNeeded
  <2> QED BY <2>1, EndStepKeeps
<1> QED BY <1>1, <1>2, <1>3, <1>4

-----------------------------------------------------------------------------
(* The checkout of a bundle.                                               *)

\* One order for each item that was read, while each is still for sale.
LEMMA CheckoutKeeps ==
  ASSUME MarketInv, NEW t \in Tabs, NEW f, FinishCheckout(t, f) PROVE MarketInv'
<1> USE StockAssumption
<1> DEFINE K == checkouts[t]
           new == {f[l] : l \in K}
<1>1. /\ K # {} /\ bundle = "OPEN" /\ Claimed(t) = K
      /\ K \subseteq Listings /\ \A l \in K : listing[l] = "ACTIVE"
      /\ \A l \in K : f[l] \in Orders /\ order[f[l]] = "none"
      /\ \A k, l \in K : f[k] = f[l] => k = l
  BY DEF FinishCheckout, ClaimsHold, BundleClaimed, Claimed, StillActive, MarketInv, TypeOK
<1>2. /\ order' = [o \in Orders |-> IF o \in new THEN "PENDING" ELSE order[o]]
      /\ item' = [o \in Orders |-> IF o \in new THEN CHOOSE l \in K : f[l] = o ELSE item[o]]
      /\ snapshots' = snapshots \cup new /\ bundled' = bundled \cup new
      /\ bundle' = "CHECKED_OUT" /\ checkouts' = [checkouts EXCEPT ![t] = {}]
      /\ SetListings([l \in Listings |-> IF l \in K THEN "SOLD" ELSE listing[l]])
      /\ evidence' = [o \in Orders |-> IF o \in new THEN seen[t][CHOOSE l \in K : f[l] = o]
                                                     ELSE evidence[o]]
      /\ seen' = [seen EXCEPT ![t] = NoImages]
      /\ UNCHANGED <<shows, object, flagged, touched, couponed, usedCount, items, removals, late, sweeping,
                     account, vacation>>
  BY <1>1 DEF FinishCheckout, couponVars, sellerVars, imageVars
<1>3. /\ new \subseteq Orders /\ \A o \in new : order[o] = "none" /\ order'[o] = "PENDING"
      /\ \A o \in Orders \ new : order'[o] = order[o] /\ item'[o] = item[o]
  BY <1>1, <1>2
<1>4. \A l \in K : f[l] \in new /\ item'[f[l]] = l
  <2> SUFFICES ASSUME NEW l \in K PROVE f[l] \in new /\ item'[f[l]] = l
    OBVIOUS
  <2>1. item'[f[l]] = CHOOSE k \in K : f[k] = f[l]
    BY <1>2, <1>3
  <2>2. (CHOOSE k \in K : f[k] = f[l]) = l
    BY <1>1
  <2> QED BY <2>1, <2>2
<1>5. \A o \in new : item'[o] \in K /\ f[item'[o]] = o
  BY <1>4
<1>55. /\ \A o \in new : evidence'[o] = seen[t][item'[o]]
       /\ \A o \in Orders \ new : evidence'[o] = evidence[o]
  BY <1>2, <1>3
<1> HIDE DEF new
<1>6. /\ \A l \in Listings : listing'[l] = IF l \in K THEN "SOLD" ELSE listing[l]
      /\ listing' \in [Listings -> Statuses \cup {"none", "gone"}]
      /\ revived' = revived
  <2>1. listing' = [l \in Listings |-> IF l \in K THEN "SOLD" ELSE listing[l]]
    BY <1>2 DEF SetListings
  <2>2. \A l \in Listings : listing[l] = "DELETED" => listing'[l] = "DELETED"
    BY <1>1, <2>1
  <2>3. revived' = revived
    BY <1>2, <2>1, <2>2 DEF SetListings
  <2> QED BY <2>1, <2>3 DEF MarketInv, TypeOK, Statuses
<1>7. TypeOK'
  <2>1. order' \in [Orders -> OpenStatuses \cup {"none", "checking", "CANCELLED", "closed"}]
    BY <1>2 DEF MarketInv, TypeOK, OpenStatuses
  <2>2. item' \in [Orders -> Listings \cup {"none"}]
    <3>1. \A o \in Orders : item'[o] \in Listings \cup {"none"}
      BY <1>1, <1>3, <1>5 DEF MarketInv, TypeOK
    <3> QED BY <1>2, <3>1
  <2>3. evidence' \in [Orders -> SUBSET Images]
    <3>1. \A o \in Orders : evidence'[o] \in SUBSET Images
      <4>1. \A o \in new : item'[o] \in Listings
        BY <1>1, <1>5
      <4>2. seen[t] \in [Listings -> SUBSET Images] /\ evidence \in [Orders -> SUBSET Images]
        BY DEF MarketInv, TypeOK
      <4> QED BY <1>55, <4>1, <4>2
    <3> QED BY <1>2, <3>1
  <2>4. seen' \in [Tabs -> [Listings -> SUBSET Images]]
    BY <1>2 DEF MarketInv, TypeOK, NoImages
  <2> QED BY <1>2, <1>3, <1>6, <2>1, <2>2, <2>3, <2>4 DEF MarketInv, TypeOK
<1>8. Placed'
  BY <1>1, <1>3, <1>5 DEF MarketInv, Placed
<1>9. SoldWhileOrdered'
  <2> SUFFICES ASSUME NEW l \in Listings, l \notin touched
               PROVE  \A o \in OpenOrders(l)' : OpenOrders(l)' = {o} /\ listing'[l] = "SOLD"
    BY <1>2 DEF SoldWhileOrdered
  <2>1. CASE l \in K
    <3>1. OpenOrders(l) = {}
      BY <1>1, <2>1 DEF MarketInv, SoldWhileOrdered
    <3>2. OpenOrders(l)' \subseteq {f[l]}
      BY <1>3, <1>5, <3>1 DEF OpenOrders, IsOpen
    <3> QED BY <3>2, <1>6, <2>1
  <2>2. CASE l \notin K
    <3>1. OpenOrders(l)' = OpenOrders(l)
      BY <1>3, <1>5, <2>2 DEF OpenOrders, IsOpen, OpenStatuses
    <3> QED BY <3>1, <1>6, <2>2 DEF MarketInv, SoldWhileOrdered
  <2> QED BY <2>1, <2>2
<1>10. CouponInv'
  <2>1. \A o \in couponed : o \in Orders /\ order'[o] = order[o] /\ order[o] # "none"
    BY <1>3 DEF MarketInv, TypeOK, CouponInv
  <2>2. {o \in couponed : order'[o] # "checking"} = {o \in couponed : order[o] # "checking"}
    BY <2>1
  <2> QED BY <1>2, <2>1, <2>2 DEF MarketInv, CouponInv, CouponCounts
<1>11. BundleInv'
  <2>1. bundled' = new
    BY <1>1, <1>2 DEF MarketInv, BundleInv
  <2>2. items \subseteq K
    BY <1>1 DEF MarketInv, BundleInv
  <2>3. BundleOnce'
    <3>1. \A o, p \in bundled' : item'[o] = item'[p] => o = p
      BY <1>5, <2>1
    <3>2. items' \subseteq {item'[o] : o \in bundled'}
      BY <1>2, <1>4, <2>1, <2>2
    <3> QED BY <3>1, <3>2 DEF BundleOnce
  <2>4. \A o \in bundled' : Made(o)'
    BY <1>3, <2>1 DEF Made
  <2>5. \A u \in Tabs : checkouts'[u] # {} => bundle' # "none"
    BY <1>2
  <2> QED BY <1>2, <2>3, <2>4, <2>5 DEF BundleInv
<1>12. EvidenceInv'
  <2>1. \A o \in Orders : Made(o) => Made(o)' /\ o \notin new /\ item'[o] = item[o]
    BY <1>3 DEF Made
  <2>2. \A o \in Orders : Made(o)' => Made(o) \/ o \in new
    BY <1>3 DEF Made
  <2>3. \A o \in snapshots' : o \in Orders /\ Made(o)'
    BY <1>2, <1>3, <2>1 DEF MarketInv, TypeOK, EvidenceInv, Made
  <2>4. \A l \in K \ revived, i \in Images : Private(l, i) => object[i] # "swept"
    BY <1>1 DEF MarketInv, EvidenceInv
  <2>5. EvidenceServed'
    <3> SUFFICES ASSUME NEW o \in snapshots \cup new, item'[o] \notin revived,
                        NEW i \in evidence'[o], Private(item'[o], i)
                 PROVE  object[i] # "swept"
      BY <1>2, <1>6 DEF EvidenceServed, Private
    <3>1. CASE o \in new
      <4>1. i \in Images
        BY <3>1, <1>1, <1>5, <1>55 DEF MarketInv, TypeOK
      <4> QED BY <3>1, <4>1, <1>5, <2>4
    <3>2. CASE o \in snapshots
      <4>1. o \in Orders /\ Made(o)
        BY <3>2 DEF MarketInv, TypeOK, EvidenceInv
      <4>2. item'[o] = item[o] /\ evidence'[o] = evidence[o]
        BY <2>1, <4>1, <1>55
      <4> QED BY <3>2, <4>2 DEF MarketInv, EvidenceInv, EvidenceServed
    <3> QED BY <3>1, <3>2
  <2>6. /\ \A l \in Listings \ revived', i \in Images :
              Private(l, i) /\ object'[i] = "swept" => listing'[l] \in {"DELETED", "gone"}
        /\ \A c \in sweeping' : c[1] \notin revived' => listing'[c[1]] \in {"DELETED", "gone"}
    <3>1. \A l \in Listings : listing[l] \in {"DELETED", "gone"} => listing'[l] = listing[l]
      BY <1>1, <1>6
    <3>2. \A c \in sweeping : c[1] \in Listings
      BY DEF MarketInv, TypeOK
    <3> QED BY <3>1, <3>2, <1>2, <1>6 DEF MarketInv, EvidenceInv
  <2>7. \A l \in Listings : listing'[l] = "gone" => \A o \in Orders : Made(o)' => item'[o] # l
    <3> SUFFICES ASSUME NEW l \in Listings, listing'[l] = "gone", NEW o \in Orders, Made(o)'
                 PROVE  item'[o] # l
      OBVIOUS
    <3>1. l \notin K /\ listing[l] = "gone"
      BY <1>6
    <3>2. CASE o \in new
      BY <3>1, <3>2, <1>5
    <3>3. CASE o \notin new
      BY <3>1, <3>3, <2>1, <2>2 DEF MarketInv, EvidenceInv
    <3> QED BY <3>2, <3>3
  <2> QED BY <2>3, <2>5, <2>6, <2>7 DEF EvidenceInv, Private
<1> QED BY <1>7, <1>8, <1>9, <1>10, <1>11, <1>12 DEF MarketInv

-----------------------------------------------------------------------------
\* Every step of the market keeps the invariant.
THEOREM MarketStep == MarketInv /\ [Next]_vars => MarketInv'
<1> SUFFICES ASSUME MarketInv, [Next]_vars PROVE MarketInv'
  OBVIOUS
<1>1. CASE CatalogNext
  BY <1>1, CatalogKeeps
<1>2. CASE CheckoutNext
  BY <1>2, CheckKeeps, CreateKeeps, EndKeeps, EditKeeps, CheckoutKeeps DEF CheckoutNext
<1>3. CASE UNCHANGED vars
  <2>1. OrdersKept /\ TypeOK' /\ ListingStep
    BY <1>3 DEF vars, OrdersKept, MarketInv, TypeOK, ListingStep, orderVars, couponVars,
                bundleVars
  <2> QED BY <2>1, ListingsKeep
<1> QED BY <1>1, <1>2, <1>3 DEF Next

\* A garment that nobody rewrites by its id is sold to one buyer at a time
\* (create, checkoutBundle, cancelByBuyer and the jobs), for any of them.
THEOREM SoldOnceAlways == Spec => []SoldWhileOrdered
<1>1. MarketInv => SoldWhileOrdered
  BY DEF MarketInv
<1> QED BY MarketInit, MarketStep, <1>1, PTL DEF Spec

\* The counter of a coupon is right and within its limit (create), for any
\* number of orders that entered it at once.
THEOREM CouponAlways == Spec => []CouponCounts
<1>1. MarketInv => CouponCounts
  BY DEF MarketInv, CouponInv
<1> QED BY MarketInit, MarketStep, <1>1, PTL DEF Spec

\* A bundle is checked out once and whole (checkoutBundle, removeItem), for any
\* number of tabs and items.
THEOREM BundleAlways == Spec => []BundleOnce
<1>1. MarketInv => BundleOnce
  BY DEF MarketInv, BundleInv
<1> QED BY MarketInit, MarketStep, <1>1, PTL DEF Spec

\* The sweep never takes an image that the evidence of an order names, as long
\* as no other listing names it and the order's own stayed as it was
\* (sweepOrphanImages), whatever the seller, the moderators and the jobs do.
THEOREM EvidenceAlways == Spec => []EvidenceServed
<1>1. MarketInv => EvidenceServed
  BY DEF MarketInv, EvidenceInv
<1> QED BY MarketInit, MarketStep, <1>1, PTL DEF Spec
=============================================================================
