------------------------------ MODULE Notices -------------------------------
(***************************************************************************)
(* What a user is told (NotificationsService, PushService): a row for the  *)
(* bell, and a push to every device, at most notifDailyCap of a category   *)
(* on a day, counted in Redis.                                             *)
(***************************************************************************)
EXTENDS Integers, FiniteSets

CONSTANTS
  Causes,       \* the calls of createNotification of one category on one day
  Urgent,       \* those of them that have no category
  DailyCap,     \* notifDailyCap, 0 for no limit
  Devices,      \* the device tokens
  DeviceUsers,    \* the users of these devices, the one who is told among them
  Addressee,        \* the user who is told
  MaxAway       \* bound: calls that find Redis or the push service away

ASSUME NoticesAssumption ==
  /\ {DailyCap, MaxAway} \subseteq Nat
  /\ Urgent \subseteq Causes
  /\ Addressee \in DeviceUsers /\ "nobody" \notin DeviceUsers

VARIABLES
  wanted,     \* the toggle of the category
  pushing,    \* pushEnabled
  bell,       \* the causes that have a Notification row
  notice,     \* createNotification: how far, and if it pushes
  counter,    \* the key of the category and the day in Redis
  pushes,     \* the causes pushed that have a category
  tokens,     \* whose each device token is
  aiming,     \* the devices a push under way was aimed at
  away

noticeVars == <<wanted, pushing, bell, notice, counter, pushes, tokens, aiming, away>>
deviceVars == <<tokens, aiming>>

(* Slips: what a definition below would be with a plausible mistake. No    *)
(* step uses them; each is caught by a property (PROJECT.json, "mutants"). *)

\* The counter is compared before it is counted up.
CountedAfter == counter > DailyCap

-----------------------------------------------------------------------------
(* Settings and devices.                                                   *)

ChangePrefs ==
  /\ \/ wanted' = ~wanted /\ UNCHANGED pushing
     \/ pushing' = ~pushing /\ UNCHANGED wanted
  /\ UNCHANGED <<bell, notice, counter, pushes, deviceVars, away>>

\* registerDeviceToken, and removeDeviceToken on signing out.
RegisterDevice(t, u) ==
  /\ tokens[t] # u
  /\ tokens' = [tokens EXCEPT ![t] = u]
  /\ UNCHANGED <<wanted, pushing, bell, notice, counter, pushes, aiming, away>>

RemoveDevice(t) ==
  /\ tokens[t] # "nobody"
  /\ tokens' = [tokens EXCEPT ![t] = "nobody"]
  /\ UNCHANGED <<wanted, pushing, bell, notice, counter, pushes, aiming, away>>

-----------------------------------------------------------------------------
(* createNotification.                                                     *)

\* The settings are read; who does not want the category is not told.
BeginNotice(c) ==
  /\ notice[c] = "none"
  /\ notice' = [notice EXCEPT ![c] =
       IF c \notin Urgent /\ ~wanted THEN "over" ELSE IF pushing THEN "loud" ELSE "quiet"]
  /\ UNCHANGED <<wanted, pushing, bell, counter, pushes, deviceVars, away>>

RingBell(c) ==
  /\ notice[c] \in {"loud", "quiet"}
  /\ bell' = bell \cup {c}
  /\ notice' = [notice EXCEPT ![c] =
       IF @ = "quiet" THEN "over" ELSE IF c \in Urgent THEN "push" ELSE "count"]
  /\ UNCHANGED <<wanted, pushing, counter, pushes, deviceVars, away>>

\* isOverDailyCap: counted and compared in one, or not at all.
OverCap == counter + 1 > DailyCap
CountNotice(c) ==
  /\ notice[c] = "count"
  /\ IF DailyCap = 0
     THEN notice' = [notice EXCEPT ![c] = "push"] /\ UNCHANGED counter
     ELSE /\ counter' = counter + 1
          /\ notice' = [notice EXCEPT ![c] = IF OverCap THEN "over" ELSE "push"]
  /\ UNCHANGED <<wanted, pushing, bell, pushes, deviceVars, away>>

\* Redis is away: a count of zero is below every cap.
CountUnknown(c) ==
  /\ notice[c] = "count"
  /\ away < MaxAway
  /\ away' = away + 1
  /\ notice' = [notice EXCEPT ![c] = "push"]
  /\ UNCHANGED <<wanted, pushing, bell, counter, pushes, deviceVars>>

-----------------------------------------------------------------------------
(* sendPushNotification.                                                   *)

\* The devices are read, and then the push is sent.
Aim(c) ==
  /\ notice[c] = "push"
  /\ notice' = [notice EXCEPT ![c] = "send"]
  /\ aiming' = [aiming EXCEPT ![c] = {t \in Devices : tokens[t] = Addressee}]
  /\ UNCHANGED <<wanted, pushing, bell, counter, pushes, tokens, away>>

PushOut(c) ==
  /\ notice[c] = "send"
  /\ pushes' = IF aiming[c] # {} /\ c \notin Urgent THEN pushes \cup {c} ELSE pushes
  /\ notice' = [notice EXCEPT ![c] = "over"]
  /\ aiming' = [aiming EXCEPT ![c] = {}]
  /\ UNCHANGED <<wanted, pushing, bell, counter, tokens, away>>

\* A device that the push does not reach, for whatever reason, is taken off the
\* user, if it is still his.
PushFails(c, t) ==
  /\ notice[c] = "send" /\ t \in aiming[c]
  /\ away < MaxAway
  /\ away' = away + 1
  /\ aiming' = [aiming EXCEPT ![c] = @ \ {t}]
  /\ tokens' = [tokens EXCEPT ![t] = IF @ = Addressee THEN "nobody" ELSE @]
  /\ UNCHANGED <<wanted, pushing, bell, notice, counter, pushes>>

-----------------------------------------------------------------------------
NoticesInit ==
  /\ wanted = TRUE /\ pushing = TRUE
  /\ bell = {} /\ notice = [c \in Causes |-> "none"]
  /\ counter = 0 /\ pushes = {}
  /\ tokens = [t \in Devices |-> "nobody"]
  /\ aiming = [c \in Causes |-> {}]
  /\ away = 0

NoticesNext ==
  \/ ChangePrefs
  \/ \E t \in Devices : RemoveDevice(t) \/ \E u \in DeviceUsers : RegisterDevice(t, u)
  \/ \E c \in Causes :
       \/ BeginNotice(c) \/ RingBell(c) \/ CountNotice(c) \/ CountUnknown(c)
       \/ Aim(c) \/ PushOut(c)
       \/ \E t \in Devices : PushFails(c, t)

-----------------------------------------------------------------------------
\* However many notifications cross, whatever the user changes meanwhile: a
\* category pushes no more than its cap, but for the calls Redis did not count;
\* nobody is pushed what the bell does not have; and what is urgent is never
\* held back by the cap (isOverDailyCap).
PushesCapped ==
  /\ DailyCap > 0 => Cardinality(pushes) <= DailyCap + away
  /\ pushes \subseteq bell
  /\ \A c \in Urgent : notice[c] # "count"
=============================================================================
