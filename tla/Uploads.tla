------------------------------ MODULE Uploads -------------------------------
(***************************************************************************)
(* Images, avatars and videos (UploadsService): bytes in S3, the           *)
(* UploadObject row that says whose they are, the flag of a doubtful image *)
(* (ListingImageFlag), and what an admin makes of it (resolveImageFlag). A *)
(* key is a time and a file name: two uploads can have the same one. A     *)
(* listing may show any of them, and the nightly sweep takes the objects   *)
(* of deleted listings away.                                               *)
(***************************************************************************)
EXTENDS Integers, FiniteSets

CONSTANTS
  Uploaders,
  ObjectKeys,   \* the keys there may be; every listing shows one
  Admins,
  MaxLosses     \* bound: steps of an upload or a deletion that fail

ASSUME UploadsAssumption ==
  /\ MaxLosses \in Nat
  /\ "none" \notin Uploaders \cup ObjectKeys

VARIABLES
  bytes,      \* whose upload the object holds
  owner,      \* UploadObject.uploaderId
  wrote,      \* who has ever put the object
  job,        \* what each uploader is about: how far, what kind, which key
  answered,   \* the uploads that were answered with a URL
  avatar,     \* User.avatarUrl
  flag,       \* ListingImageFlag.status
  shown,      \* the images that a listing shows
  discarded,  \* the images that a deleted listing shows, or has shown
  suspended,  \* the listings (by their image) that are SUSPENDED
  reviewing,  \* resolveImageFlag calls that saw the flag PENDING
  losses

uploadVars == <<bytes, owner, wrote, job, answered, avatar, flag, shown, discarded,
                suspended, reviewing, losses>>
reviewVars == <<flag, shown, discarded, suspended, reviewing>>

NoJob == [at |-> "idle", kind |-> "file", key |-> "none", doubt |-> FALSE]

(* Slips: what a definition below would be with a plausible mistake. No    *)
(* step uses them; each is caught by a property (PROJECT.json, "mutants"). *)

\* It is enough that somebody has uploaded the object.
OwnedBySomeone(u, k) == owner[k] # "none"

-----------------------------------------------------------------------------
(* An upload.                                                              *)

\* Size, type and resolution of an avatar or of another file are in order, and
\* its key is of this millisecond, so that the uploader has it only once.
\* SafeSearch refuses an image, finds it doubtful, or, when it is away, says
\* nothing: then there is no flag.
BeginUpload(u, kind, k, doubt) ==
  /\ job[u] = NoJob /\ u \notin wrote[k]
  /\ doubt => kind = "file"
  /\ job' = [job EXCEPT ![u] = [at |-> "put", kind |-> kind, key |-> k, doubt |-> doubt]]
  /\ UNCHANGED <<bytes, owner, wrote, answered, avatar, reviewVars, losses>>

Put(u) ==
  /\ job[u].at = "put"
  /\ bytes' = [bytes EXCEPT ![job[u].key] = u]
  /\ wrote' = [wrote EXCEPT ![job[u].key] = @ \cup {u}]
  /\ answered' = answered \ {<<u, job[u].key>>}
  /\ job' = [job EXCEPT ![u].at = "link"]
  /\ UNCHANGED <<owner, avatar, reviewVars, losses>>

\* flagIfFlagged, and the row of the user of an avatar.
Link(u) ==
  /\ job[u].at = "link"
  /\ avatar' = IF job[u].kind = "avatar" THEN [avatar EXCEPT ![u] = job[u].key] ELSE avatar
  /\ flag' = IF job[u].doubt THEN [flag EXCEPT ![job[u].key] = "PENDING"] ELSE flag
  /\ job' = [job EXCEPT ![u].at = "record"]
  /\ UNCHANGED <<bytes, owner, wrote, answered, shown, discarded, suspended, reviewing,
                 losses>>

\* The flag is not written, and the upload goes on without one.
LoseFlag(u) ==
  /\ job[u].at = "link" /\ job[u].doubt
  /\ losses < MaxLosses
  /\ losses' = losses + 1
  /\ job' = [job EXCEPT ![u].at = "record"]
  /\ UNCHANGED <<bytes, owner, wrote, answered, avatar, reviewVars>>

\* recordUploadOwnership, and the answer.
Record(u) ==
  /\ job[u].at = "record"
  /\ owner' = [owner EXCEPT ![job[u].key] = u]
  /\ answered' = answered \cup {<<u, job[u].key>>}
  /\ job' = [job EXCEPT ![u] = NoJob]
  /\ UNCHANGED <<bytes, wrote, avatar, reviewVars, losses>>

\* The row is not written: the upload is answered, and stays for ever.
LoseRecord(u) ==
  /\ job[u].at = "record"
  /\ losses < MaxLosses
  /\ losses' = losses + 1
  /\ answered' = answered \cup {<<u, job[u].key>>}
  /\ job' = [job EXCEPT ![u] = NoJob]
  /\ UNCHANGED <<bytes, owner, wrote, avatar, reviewVars>>

-----------------------------------------------------------------------------
(* A deletion.                                                             *)

\* assertCanDelete.
Owns(u, k) == owner[k] = u
BeginDelete(u, k) ==
  /\ job[u] = NoJob
  /\ Owns(u, k)
  /\ job' = [job EXCEPT ![u] = [at |-> "delete", kind |-> "file", key |-> k, doubt |-> FALSE]]
  /\ answered' = answered \ {<<u, k>>}
  /\ UNCHANGED <<bytes, owner, wrote, avatar, reviewVars, losses>>

DeleteObject(u) ==
  /\ job[u].at = "delete"
  /\ bytes' = [bytes EXCEPT ![job[u].key] = "none"]
  /\ job' = [job EXCEPT ![u].at = "forget"]
  /\ UNCHANGED <<owner, wrote, answered, avatar, reviewVars, losses>>

Forget(u) ==
  /\ job[u].at = "forget"
  /\ owner' = [owner EXCEPT ![job[u].key] = IF @ = u THEN "none" ELSE @]
  /\ job' = [job EXCEPT ![u] = NoJob]
  /\ UNCHANGED <<bytes, wrote, answered, avatar, reviewVars, losses>>

\* The process dies, or S3 or the database is away.
Abort(u) ==
  /\ job[u] # NoJob
  /\ losses < MaxLosses
  /\ losses' = losses + 1
  /\ job' = [job EXCEPT ![u] = NoJob]
  /\ UNCHANGED <<bytes, owner, wrote, answered, avatar, reviewVars>>

-----------------------------------------------------------------------------
(* Moderation.                                                             *)

\* A listing is published with an image, or edited to show it, whatever its flag
\* and whoever has put it: only the host of the URL is looked at.
ShowImage(k) ==
  /\ shown' = shown \cup {k}
  /\ UNCHANGED <<bytes, owner, wrote, job, answered, avatar, flag, discarded, suspended,
                 reviewing, losses>>

BeginReview(a, k) ==
  /\ flag[k] = "PENDING"
  /\ reviewing' = [reviewing EXCEPT ![a] = k]
  /\ UNCHANGED <<bytes, owner, wrote, job, answered, avatar, flag, shown, discarded,
                 suspended, losses>>

\* The transaction, which names the flag and not its status.
EndReview(a, rejected) ==
  LET k == reviewing[a] IN
  /\ k # "none"
  /\ reviewing' = [reviewing EXCEPT ![a] = "none"]
  /\ flag' = [flag EXCEPT ![k] = IF rejected THEN "REJECTED" ELSE "DISMISSED"]
  /\ IF rejected /\ k \in shown
     THEN shown' = shown \ {k} /\ suspended' = suspended \cup {k}
     ELSE UNCHANGED <<shown, suspended>>
  /\ UNCHANGED <<bytes, owner, wrote, job, answered, avatar, discarded, losses>>

-----------------------------------------------------------------------------
(* Deleted listings.                                                       *)

\* A listing is deleted: by its seller, the job that cleans up, a moderator or
\* the deletion of an account. Others may go on showing its images.
DeleteListing(k) ==
  /\ k \in shown \cup suspended
  /\ discarded' = discarded \cup {k}
  /\ shown' \in {shown, shown \ {k}}
  /\ suspended' \in {suspended, suspended \ {k}}
  /\ UNCHANGED <<bytes, owner, wrote, job, answered, avatar, flag, reviewing, losses>>

\* sweepOrphanImages, when no snapshot refers to the listing: the object goes by
\* the key in the URL, its row in UploadObject stays.
SweepImage(k) ==
  /\ k \in discarded
  /\ bytes' = [bytes EXCEPT ![k] = "none"]
  /\ UNCHANGED <<owner, wrote, job, answered, avatar, reviewVars, losses>>

-----------------------------------------------------------------------------
UploadInit ==
  /\ bytes = [k \in ObjectKeys |-> "none"] /\ owner = [k \in ObjectKeys |-> "none"]
  /\ wrote = [k \in ObjectKeys |-> {}]
  /\ job = [u \in Uploaders |-> NoJob]
  /\ answered = {} /\ avatar = [u \in Uploaders |-> "none"]
  /\ flag = [k \in ObjectKeys |-> "none"] /\ shown = {}
  /\ discarded = {} /\ suspended = {}
  /\ reviewing = [a \in Admins |-> "none"]
  /\ losses = 0

UploadNext ==
  \/ \E u \in Uploaders :
       \/ Put(u) \/ Link(u) \/ LoseFlag(u) \/ Record(u) \/ LoseRecord(u)
       \/ DeleteObject(u) \/ Forget(u) \/ Abort(u)
       \/ \E k \in ObjectKeys :
            \/ BeginDelete(u, k)
            \/ \E kind \in {"file", "avatar"}, doubt \in BOOLEAN :
                 BeginUpload(u, kind, k, doubt)
  \/ \E a \in Admins :
       \/ \E k \in ObjectKeys : BeginReview(a, k)
       \/ \E rejected \in BOOLEAN : EndReview(a, rejected)
  \/ \E k \in ObjectKeys : ShowImage(k) \/ DeleteListing(k) \/ SweepImage(k)

UploadSpec == UploadInit /\ [][UploadNext]_uploadVars

-----------------------------------------------------------------------------
\* Whatever fails on the way: an upload that was answered is there until its
\* uploader deletes it or a listing that shows it is deleted, unless somebody
\* else has got the same key; and only who has put an object is recorded as its
\* owner.
AnsweredIsKept ==
  /\ \A u \in Uploaders, k \in ObjectKeys :
       <<u, k>> \in answered /\ wrote[k] = {u} /\ k \notin discarded => bytes[k] = u
  /\ \A k \in ObjectKeys : owner[k] # "none" => owner[k] \in wrote[k]

-----------------------------------------------------------------------------
(* What the code says of itself and does not keep.                         *)

\* "ownership is transferred to the last writer" (recordUploadOwnership): two
\* uploads of one key can record in the other order than they put.
OwnerIsLastWriter ==
  \A k \in ObjectKeys :
    (\A u \in Uploaders : job[u] = NoJob) /\ bytes[k] # "none" /\ losses = 0
      => owner[k] = bytes[k]

\* "Ownership is decided ONLY by the server-written UploadObject table"
\* (deleteImage), so that nobody deletes another's object: the sweep deletes what
\* a deleted listing shows, by the URL its seller gave.
OnlyOwnersDelete ==
  \A u \in Uploaders, k \in ObjectKeys :
    <<u, k>> \in answered /\ wrote[k] = {u} => bytes[k] = u

\* "sign-off before they surface to buyers" (uploadListingImage): publishing
\* does not look at the flag.
DoubtfulNotShown == \A k \in shown : flag[k] # "PENDING"
=============================================================================
