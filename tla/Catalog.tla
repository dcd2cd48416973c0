------------------------------ MODULE Catalog -------------------------------
(***************************************************************************)
(* Who writes the status of a listing besides its orders: the seller       *)
(* (ListingsService, vacation, account deletion), the nightly jobs         *)
(* (ListingsCronService, sweepOrphanImages) and the moderators             *)
(* (ModerationService, ReportsService). And who takes its images away: the *)
(* seller's edits and DELETE /uploads/:key, and the sweep.                 *)
(***************************************************************************)
EXTENDS Stock

(* Slips: what a definition below would be with a plausible mistake. No    *)
(* step uses them; each is caught by a property (PROJECT.json, "mutants"). *)

\* The sweep trusts the status and does not look for snapshots.
SweepByStatus(l) == TRUE

-----------------------------------------------------------------------------
\* ListingsService.create; only an open account gets past the JWT guard.
Publish(l) ==
  /\ account = "open" /\ ~vacation
  /\ listing[l] = "none"
  /\ listing' = [listing EXCEPT ![l] = "ACTIVE"]
  /\ \E S \in Lists[l] : shows' = [shows EXCEPT ![l] = S]
  /\ UNCHANGED <<object, flagged, touched, revived, orderVars, couponVars,
                 bundleVars, sellerVars>>

(***************************************************************************)
(* The handlers that read the row, decide, and then write it by its id:    *)
(* the statuses they must have seen, and those they write.                 *)
(***************************************************************************)
Update ==
  [sees |-> {"ACTIVE", "PAUSED", "SUSPENDED"}, writes |-> {"ACTIVE", "PAUSED", "SOLD"}]
Remove == [sees |-> Statuses, writes |-> {"DELETED"}]
AutoStaleListings == [sees |-> {"ACTIVE"}, writes |-> {"PAUSED"}]
CleanupPausedListings == [sees |-> {"PAUSED"}, writes |-> {"DELETED"}]
SuspendListing == [sees |-> Statuses \ {"DELETED"}, writes |-> {"SUSPENDED"}]
UnsuspendListing == [sees |-> {"SUSPENDED"}, writes |-> {"ACTIVE"}]
HideListing == [sees |-> Statuses, writes |-> {"DELETED"}]

Handlers == [update |-> Update, remove |-> Remove, stale |-> AutoStaleListings,
             cleanup |-> CleanupPausedListings, suspend |-> SuspendListing,
             unsuspend |-> UnsuspendListing, hide |-> HideListing]
Sellers == {"update", "remove"}

\* The read: remove also counts the open orders.
BeginWrite(w, l) ==
  /\ w \in Sellers => account = "open"
  /\ listing[l] \in Handlers[w].sees
  /\ w = "remove" => OpenOrders(l) = {}
  /\ Cardinality(late) < MaxLate
  /\ late' = late \cup {<<w, l>>}
  /\ UNCHANGED <<listingVars, orderVars, couponVars, bundleVars, sweeping,
                 account, vacation>>

\* The write; on a row that is gone Prisma's update fails and nothing happens.
FinishWrite(w, l) ==
  /\ <<w, l>> \in late
  /\ late' = late \ {<<w, l>>}
  /\ IF listing[l] = "gone" THEN UNCHANGED <<listing, touched, revived>>
     ELSE \E status \in Handlers[w].writes : WriteById(l, status)
  /\ UNCHANGED <<imageVars, orderVars, couponVars, bundleVars, sweeping,
                 account, vacation>>

\* An update that brings images deletes the rows there are, in a statement of
\* its own; the new rows come with the write, which need not set a status.
DropImages(l) ==
  /\ <<"update", l>> \in late
  /\ late' = (late \ {<<"update", l>>}) \cup {<<"relist", l>>}
  /\ shows' = [shows EXCEPT ![l] = {}]
  /\ UNCHANGED <<listing, object, flagged, touched, revived, orderVars,
                 couponVars, bundleVars, sweeping, account, vacation>>

FinishRelist(l) ==
  /\ <<"relist", l>> \in late
  /\ late' = late \ {<<"relist", l>>}
  /\ IF listing[l] = "gone" THEN UNCHANGED <<listing, shows, touched, revived>>
     ELSE /\ \E S \in Lists[l] :
               shows' = [shows EXCEPT ![l] = shows[l] \cup S]
          /\ \/ \E status \in Update.writes : WriteById(l, status)
             \/ UNCHANGED <<listing, touched, revived>>
  /\ UNCHANGED <<object, flagged, orderVars, couponVars, bundleVars, sweeping,
                 account, vacation>>

\* DELETE /uploads/:key asks who uploaded the image, and for nothing else.
EraseUpload(k) ==
  /\ account = "open"
  /\ object[k] = "stored"
  /\ object' = [object EXCEPT ![k] = "erased"]
  /\ UNCHANGED <<listing, shows, flagged, touched, revived, orderVars,
                 couponVars, bundleVars, sellerVars>>

\* resolveImageFlag, REJECT, of a flag that is PENDING: the rows of its image go,
\* and the listings they were of are suspended by id, whatever their status, in
\* one transaction.
RejectImage(k) ==
  LET of == {l \in Listings : listing[l] \in Statuses /\ k \in shows[l]} IN
  /\ k \in flagged
  /\ flagged' = flagged \ {k}
  /\ SetListings([l \in Listings |-> IF l \in of THEN "SUSPENDED" ELSE listing[l]])
  /\ touched' = touched \cup {l \in of : OpenOrders(l) # {}}
  /\ shows' = [l \in Listings |-> shows[l] \ {k}]
  /\ UNCHANGED <<object, orderVars, couponVars, bundleVars, sellerVars>>

\* toggleVacationMode: the flag, then one conditional update of the listings.
PausedBy(on) == IF on THEN {"ACTIVE"} ELSE {"PAUSED"}
ToggleVacation(on) ==
  /\ account = "open"
  /\ vacation' = on
  /\ MoveAll(PausedBy(on), IF on THEN "PAUSED" ELSE "ACTIVE")
  /\ UNCHANGED <<imageVars, orderVars, couponVars, bundleVars, late, sweeping,
                 account>>

\* banUser: the seller and the active listings, in one transaction.
BanSeller ==
  /\ account = "open"
  /\ account' = "banned"
  /\ MoveAll({"ACTIVE"}, "SUSPENDED")
  /\ UNCHANGED <<imageVars, orderVars, couponVars, bundleVars, late, sweeping,
                 vacation>>

\* unbanUser gives the account back and none of the listings.
UnbanSeller ==
  /\ account = "banned"
  /\ account' = "open"
  /\ UNCHANGED <<listingVars, orderVars, couponVars, bundleVars, late, sweeping,
                 vacation>>

\* deleteAccount of the seller.
DeleteSeller ==
  /\ account = "open"
  /\ account' = "deleted"
  /\ MoveAll({"ACTIVE", "PAUSED"}, "DELETED")
  /\ UNCHANGED <<imageVars, orderVars, couponVars, bundleVars, late, sweeping,
                 vacation>>

-----------------------------------------------------------------------------
(* sweepOrphanImages: the candidates and their images are listed first,    *)
(* then handled one by one with a look at the snapshots of the listing, and *)
(* none at its status or at who else names the image.                      *)

\* DELETED for a month: no write that read it before is still under way.
ListDeleted ==
  /\ sweeping = {}
  /\ sweeping' = {<<l, shows[l]>> : l \in {m \in Watched :
                    listing[m] = "DELETED" /\ \A w \in late : w[2] # m}}
  /\ UNCHANGED <<listingVars, orderVars, couponVars, bundleVars, late, account,
                 vacation>>

Unreferenced(l) == \A o \in snapshots : item[o] # l

\* The foreign keys refuse to delete a row that an order, an item of a bundle,
\* a favorite or an offer refers to.
HasRows(l) ==
  \/ l \in items
  \/ \E o \in Orders : order[o] \notin {"none", "checking"} /\ item[o] = l

\* The store may refuse to delete an image: the sweep goes on without it.
Sweep(l, S) ==
  /\ <<l, S>> \in sweeping
  /\ sweeping' = sweeping \ {<<l, S>>}
  /\ \/ /\ Unreferenced(l)
        /\ \E D \in SUBSET S :
             object' = [k \in Images |-> IF k \in D /\ object[k] = "stored"
                                        THEN "swept" ELSE object[k]]
        /\ \/ /\ ~HasRows(l)
              /\ listing' = [listing EXCEPT ![l] = "gone"]
              /\ shows' = [shows EXCEPT ![l] = {}]
           \/ UNCHANGED <<listing, shows>>
     \/ /\ ~Unreferenced(l)
        /\ UNCHANGED <<shows, object, listing>>
  /\ UNCHANGED <<flagged, touched, revived, orderVars, couponVars, bundleVars,
                 late, account, vacation>>

CatalogNext ==
  \/ \E l \in Listings : Publish(l)
  \/ \E l \in Watched : DropImages(l) \/ FinishRelist(l)
  \/ \E k \in Flagged : RejectImage(k)
  \/ \E c \in sweeping : Sweep(c[1], c[2])
  \/ \E k \in Erasable : EraseUpload(k)
  \/ \E l \in Watched, w \in DOMAIN Handlers : BeginWrite(w, l) \/ FinishWrite(w, l)
  \/ \E on \in BOOLEAN : ToggleVacation(on)
  \/ BanSeller \/ UnbanSeller \/ DeleteSeller \/ ListDeleted
=============================================================================
