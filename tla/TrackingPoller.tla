--------------------------- MODULE TrackingPoller ---------------------------
(***************************************************************************)
(* The hourly job that asks the carriers about parcels (TrackingPoller-    *)
(* Service), on several instances of the API that keep it to one at a time *)
(* with a lock in the database (CronLockService).                          *)
(***************************************************************************)
EXTENDS Integers, Sequences, FiniteSets
LOCAL INSTANCE SequencesExt

CONSTANTS
  Hosts,       \* the instances of the API
  Goods,       \* the orders that are sent
  Backs,       \* the returns that are sent back
  BatchSize,   \* TRACKING_POLL_BATCH_SIZE
  MaxTrouble   \* bound: carrier calls that fail, instances that die and
               \* acquisitions that fail because the database is away

ASSUME TrackingPollerAssumption ==
  /\ BatchSize \in Nat \ {0} /\ MaxTrouble \in Nat
  /\ Goods \cap Backs = {}

VARIABLES
  sent,      \* the parcels in the order of their shippedAt
  arrived,   \* those of which the carrier reports the delivery
  gone,      \* those that were shipped more than lookbackDays ago
  stamps,    \* how often deliveredAt or receivedAt of a parcel was written
  lock,      \* the row of cron_locks: free, held, or held past lockedUntil
  run,       \* each instance: what it polls, what is left of it, how far it is
  trouble

pollVars == <<sent, arrived, gone, stamps, lock, run, trouble>>
parcelVars == <<sent, arrived, gone>>

NoRun == [of |-> "none", left |-> <<>>, claiming |-> FALSE]
Shipped(p) == stamps[p] = 0

(* Slips: what a definition below would be with a plausible mistake. No    *)
(* step uses them; each is caught by a property (PROJECT.json, "mutants"). *)

\* Only a lock that somebody has released can be taken.
FreeIfReleased == lock = "free"

\* markDelivered trusts the status it read.
ClaimedByRead(p) == TRUE

-----------------------------------------------------------------------------
(* The parcels.                                                            *)

Send(p) ==
  /\ ~Contains(sent, p)
  /\ sent' = Append(sent, p)
  /\ UNCHANGED <<arrived, gone, stamps, lock, run, trouble>>

Arrive(p) ==
  /\ Contains(sent, p)
  /\ arrived' = arrived \cup {p}
  /\ UNCHANGED <<sent, gone, stamps, lock, run, trouble>>

GrowOld(p) ==
  /\ Contains(sent, p)
  /\ gone' = gone \cup {p}
  /\ UNCHANGED <<sent, arrived, stamps, lock, run, trouble>>

\* The conditional update of markDelivered, which the buyer may ask for too,
\* and of markReceivedByTracking.
Unclaimed(p) == Shipped(p)
Stamp(p) == stamps' = IF Unclaimed(p) THEN [stamps EXCEPT ![p] = @ + 1] ELSE stamps

BuyerConfirms(p) ==
  /\ p \in Goods /\ Contains(sent, p) /\ Shipped(p)
  /\ Stamp(p)
  /\ UNCHANGED <<parcelVars, lock, run, trouble>>

-----------------------------------------------------------------------------
(* The lock.                                                               *)

Free == lock # "held"

\* lockedUntil passes, whether the job has ended or not. No job releases.
Lapse ==
  /\ lock = "held"
  /\ lock' = "lapsed"
  /\ UNCHANGED <<parcelVars, stamps, run, trouble>>

-----------------------------------------------------------------------------
(* A tick.                                                                 *)

\* The batch: the oldest that are still on their way.
Due(kind) ==
  LET due == SelectSeq(sent, LAMBDA p : p \in kind /\ Shipped(p) /\ p \notin gone)
  IN  SubSeq(due, 1, IF Len(due) < BatchSize THEN Len(due) ELSE BatchSize)

\* Without an order on its way the tick ends here.
Begin(h) ==
  run' = [run EXCEPT ![h] = IF Due(Goods) = <<>> THEN NoRun
                            ELSE [NoRun EXCEPT !.of = "orders", !.left = Due(Goods)]]

\* acquire: the row is inserted or taken over.
Tick(h) ==
  /\ run[h] = NoRun
  /\ Free
  /\ lock' = "held"
  /\ Begin(h)
  /\ UNCHANGED <<parcelVars, stamps, trouble>>

\* acquire fails, and lets the job run.
TickUnlocked(h) ==
  /\ trouble < MaxTrouble
  /\ trouble' = trouble + 1
  /\ run[h] = NoRun
  /\ Begin(h)
  /\ UNCHANGED <<parcelVars, stamps, lock>>

\* The carrier answers, and markDelivered reads the order.
Ask(h) ==
  /\ run[h].left # <<>> /\ ~run[h].claiming
  /\ LET p == Head(run[h].left) IN
     run' = [run EXCEPT ![h] = IF p \in arrived /\ Shipped(p)
                               THEN [@ EXCEPT !.claiming = TRUE]
                               ELSE [@ EXCEPT !.left = Tail(@)]]
  /\ UNCHANGED <<parcelVars, stamps, lock, trouble>>

Claim(h) ==
  /\ run[h].claiming
  /\ Stamp(Head(run[h].left))
  /\ run' = [run EXCEPT ![h] = [@ EXCEPT !.left = Tail(@), !.claiming = FALSE]]
  /\ UNCHANGED <<parcelVars, lock, trouble>>

\* What fails is logged, and the next parcel asked for.
AskFails(h) ==
  /\ trouble < MaxTrouble
  /\ trouble' = trouble + 1
  /\ run[h].left # <<>>
  /\ run' = [run EXCEPT ![h] = [@ EXCEPT !.left = Tail(@), !.claiming = FALSE]]
  /\ UNCHANGED <<parcelVars, stamps, lock>>

\* pollReturns, when the orders are done.
BeginReturns(h) ==
  /\ run[h].of = "orders" /\ run[h].left = <<>>
  /\ run' = [run EXCEPT ![h] = [NoRun EXCEPT !.of = "returns", !.left = Due(Backs)]]
  /\ UNCHANGED <<parcelVars, stamps, lock, trouble>>

EndTick(h) ==
  /\ run[h].of = "returns" /\ run[h].left = <<>>
  /\ run' = [run EXCEPT ![h] = NoRun]
  /\ UNCHANGED <<parcelVars, stamps, lock, trouble>>

HostDies(h) ==
  /\ trouble < MaxTrouble
  /\ trouble' = trouble + 1
  /\ run[h] # NoRun
  /\ run' = [run EXCEPT ![h] = NoRun]
  /\ UNCHANGED <<parcelVars, stamps, lock>>

-----------------------------------------------------------------------------
Poll(h) == Ask(h) \/ Claim(h) \/ BeginReturns(h) \/ EndTick(h)

PollInit ==
  /\ sent = <<>> /\ arrived = {} /\ gone = {}
  /\ stamps = [p \in Goods \cup Backs |-> 0]
  /\ lock = "free"
  /\ run = [h \in Hosts |-> NoRun]
  /\ trouble = 0

PollNext ==
  \/ \E p \in Goods \cup Backs : Send(p) \/ Arrive(p) \/ GrowOld(p) \/ BuyerConfirms(p)
  \/ Lapse
  \/ \E h \in Hosts :
       \/ Tick(h) \/ TickUnlocked(h) \/ Ask(h) \/ Claim(h) \/ AskFails(h)
       \/ BeginReturns(h) \/ EndTick(h) \/ HostDies(h)

-----------------------------------------------------------------------------
\* Instances and the buyer may all report one delivery: it is written once, so
\* that the dispute window starts once (markDeliveredInternal).
StampedOnce == \A p \in DOMAIN stamps : stamps[p] <= 1

\* With a batch that holds them all, an order that has arrived is DELIVERED in
\* the end, unless it grows too old to be asked for (pollInFlightShipments).
DeliverySeen == \A p \in Goods : p \in arrived ~> stamps[p] > 0 \/ p \in gone

-----------------------------------------------------------------------------
(* What the code says of itself and does not keep.                         *)

\* "Same logic ... for return shipments ... Runs as part of the same hourly
\* tick" (pollReturns): but not in a tick that finds no order on its way.
ReturnSeen == \A p \in Backs : p \in arrived ~> stamps[p] > 0 \/ p \in gone
=============================================================================
