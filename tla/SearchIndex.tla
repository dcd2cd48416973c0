---------------------------- MODULE SearchIndex -----------------------------
(***************************************************************************)
(* One listing in the database and in the index of Meilisearch: who writes *)
(* the listing then calls syncSearchIndex, which waits for nobody; the     *)
(* jobs and the script of the reindexation go past it. A search asks the   *)
(* index, or the database while the index is away.                         *)
(***************************************************************************)
EXTENDS Integers, FiniteSets

CONSTANTS
  SyncJobs,    \* the syncs under way at once
  MaxEdits,    \* bound: changes of what is indexed
  MaxWrites,   \* bound: changes of the status, and lists read
  MaxAdrift    \* bound: syncs lost to Meilisearch or to a death of the process

ASSUME SearchAssumption == {MaxEdits, MaxWrites, MaxAdrift} \subseteq Nat

VARIABLES
  advert,      \* Listing.status
  edit,       \* which version its title, price, images... are
  indexed,    \* the document in the index: a version, or 0 for none
  sync,       \* each sync: how far it is, what it found, and when it looked
  sweep,      \* the nightly jobs, the bulk updates and the script: what they read
  writes,     \* changes of the status, and lists read, so far
  looks,      \* how often the row was read for the index
  latest,     \* the look whose outcome Meilisearch applied last
  dropped,    \* syncs lost
  repair      \* the look that repairs a sync lost, overtaken or never made; 0 if none

searchVars == <<advert, edit, indexed, sync, sweep, writes, looks, latest, dropped, repair>>
listingRow == <<advert, edit>>
indexState == <<indexed, latest>>

Quiet == [at |-> "idle", doc |-> 0, look |-> 0]
NoSweep == [kind |-> "none", has |-> FALSE, doc |-> 0, look |-> 0]
Syncing == {s \in SyncJobs : sync[s] # Quiet}

\* What belongs in the index: the document of an ACTIVE listing.
Document == IF advert = "ACTIVE" THEN edit ELSE 0

(* Slips: what a definition below would be with a plausible mistake. No    *)
(* step uses them; each is caught by a property (PROJECT.json, "mutants"). *)

\* The document is what the listing was when its writer came to the sync.
SeenBefore(s) == edit
\* A writer that takes the listing from sale and forgets the index.
Forgotten(s, status) == UNCHANGED sync

-----------------------------------------------------------------------------
(* The writers: orders, their jobs, bundles, the seller, moderation and    *)
(* reports. Each writes, and starts a sync.                                *)

SyncAfter(s, status) == sync' = [sync EXCEPT ![s] = [Quiet EXCEPT !.at = "asked"]]

\* It is bought, paused, put back on sale, deleted, suspended and pardoned (GONE:
\* SUSPENDED or DELETED).
SetStatus(s, status) ==
  /\ sync[s] = Quiet
  /\ writes < MaxWrites /\ writes' = writes + 1
  /\ status \in CASE advert \in {"ACTIVE", "PAUSED"} -> {"ACTIVE", "PAUSED", "SOLD", "GONE"}
                   [] advert = "SOLD"                -> {"ACTIVE", "GONE"}
                   [] advert = "GONE"                -> {"ACTIVE"}
  /\ advert' = status
  /\ SyncAfter(s, status)
  /\ UNCHANGED <<edit, indexState, sweep, looks, dropped, repair>>

\* update: what is indexed changes while it is for sale or paused.
EditListing(s) ==
  /\ sync[s] = Quiet
  /\ edit < MaxEdits /\ edit' = edit + 1
  /\ advert \in {"ACTIVE", "PAUSED"}
  /\ SyncAfter(s, advert)
  /\ UNCHANGED <<advert, indexState, sweep, writes, looks, dropped, repair>>

-----------------------------------------------------------------------------
(* syncSearchIndex: it reads the listing again, and sends what it found.   *)

Found(s) == Document
ReadAgain(s) ==
  /\ sync[s].at = "asked"
  /\ looks' = looks + 1
  /\ sync' = [sync EXCEPT ![s] = [at |-> "sent", doc |-> Found(s), look |-> looks + 1]]
  /\ UNCHANGED <<listingRow, indexState, sweep, writes, dropped, repair>>

\* indexListing, removeListing: Meilisearch applies them as they come. One that
\* was overtaken puts back what is past.
Arrives(s) ==
  /\ sync[s].at = "sent"
  /\ indexed' = sync[s].doc
  /\ repair' = IF sync[s].look < latest THEN looks + 1
               ELSE IF sync[s].look >= repair THEN 0 ELSE repair
  /\ latest' = sync[s].look
  /\ sync' = [sync EXCEPT ![s] = Quiet]
  /\ UNCHANGED <<listingRow, sweep, writes, looks, dropped>>

\* Meilisearch is away (warned of and forgotten), or the process dies.
LoseSync(s) ==
  /\ dropped < MaxAdrift /\ dropped' = dropped + 1
  /\ sync[s] # Quiet
  /\ sync' = [sync EXCEPT ![s] = Quiet]
  /\ repair' = looks + 1
  /\ UNCHANGED <<listingRow, indexState, sweep, writes, looks>>

-----------------------------------------------------------------------------
(* Those that work from a list they read before.                           *)

\* What each reads: autoStaleListings and cleanupPausedListings pause a stale
\* listing and delete a long paused one, by id; toggleVacationMode, banUser and
\* deleteAccount update all of a seller's listings at once.
ListOf(kind) == CASE kind \in {"stale", "leave", "ban", "reindex"} -> {"ACTIVE"}
                  [] kind \in {"cleanup", "return"}               -> {"PAUSED"}
                  [] kind = "close"                               -> {"ACTIVE", "PAUSED"}
WrittenBy(kind) == CASE kind \in {"stale", "leave"}          -> "PAUSED"
                     [] kind = "return"                     -> "ACTIVE"
                     [] kind \in {"cleanup", "ban", "close"} -> "GONE"

ReadList(kind) ==
  /\ sweep = NoSweep
  /\ sweep' = [kind |-> kind, has |-> advert \in ListOf(kind), doc |-> Document, look |-> looks + 1]
  /\ looks' = IF kind = "reindex" THEN looks + 1 ELSE looks
  /\ writes < MaxWrites /\ writes' = writes + 1
  /\ UNCHANGED <<listingRow, indexState, sync, dropped, repair>>

\* The jobs write what is on their list and take it from the index unread.
JobWrites(s) ==
  /\ sweep.kind \in {"stale", "cleanup"}
  /\ IF sweep.has
     THEN /\ sync[s] = Quiet
          /\ advert' = WrittenBy(sweep.kind)
          /\ looks' = looks + 1
          /\ sync' = [sync EXCEPT ![s] = [at |-> "sent", doc |-> 0, look |-> looks + 1]]
     ELSE UNCHANGED <<advert, looks, sync>>
  /\ sweep' = NoSweep
  /\ UNCHANGED <<edit, indexState, writes, dropped, repair>>

\* The bulk updates write whatever is in that state by now, and sync their list.
BulkWrites(s) ==
  /\ sweep.kind \in {"leave", "return", "ban", "close"}
  /\ LET hit == advert \in ListOf(sweep.kind)
     IN /\ advert' = IF hit THEN WrittenBy(sweep.kind) ELSE advert
        /\ repair' = IF hit /\ ~sweep.has THEN looks + 1 ELSE repair
  /\ IF sweep.has THEN sync[s] = Quiet /\ SyncAfter(s, advert') ELSE UNCHANGED sync
  /\ sweep' = NoSweep
  /\ UNCHANGED <<edit, indexState, writes, looks, dropped>>

\* reindex-listings adds what was ACTIVE on its page, and removes nothing.
ReindexAdds(s) ==
  /\ sweep.kind = "reindex"
  /\ IF sweep.has
     THEN /\ sync[s] = Quiet
          /\ sync' = [sync EXCEPT ![s] = [at |-> "sent", doc |-> sweep.doc,
                                          look |-> sweep.look]]
     ELSE UNCHANGED sync
  /\ sweep' = NoSweep
  /\ UNCHANGED <<listingRow, indexState, writes, looks, dropped, repair>>

-----------------------------------------------------------------------------
\* search: from the index, or with Meilisearch away from the database.
FromIndex == {indexed} \ {0}
FromDatabase == IF advert = "ACTIVE" THEN {edit} ELSE {}

SearchInit ==
  /\ advert = "ACTIVE" /\ edit = 1 /\ indexed = 1
  /\ sync = [s \in SyncJobs |-> Quiet] /\ sweep = NoSweep
  /\ writes = 0 /\ looks = 0 /\ latest = 0 /\ dropped = 0 /\ repair = 0

SearchNext ==
  \/ \E kind \in {"stale", "cleanup", "leave", "return", "ban", "close", "reindex"} : ReadList(kind)
  \/ \E s \in SyncJobs :
       \/ EditListing(s) \/ ReadAgain(s) \/ Arrives(s) \/ LoseSync(s)
       \/ JobWrites(s) \/ BulkWrites(s) \/ ReindexAdds(s)
       \/ \E status \in {"ACTIVE", "PAUSED", "SOLD", "GONE"} : SetStatus(s, status)

-----------------------------------------------------------------------------
\* When the syncs are through, a search finds the same in the index as in the
\* database, but for a sync that was lost, overtaken or never made, and that
\* only until the next one that looks last and comes through.
IndexFollows == Syncing = {} /\ repair = 0 => FromIndex = FromDatabase
=============================================================================
