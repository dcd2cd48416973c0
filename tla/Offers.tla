------------------------------- MODULE Offers -------------------------------
(***************************************************************************)
(* Negotiations (OffersService): a counter-offer is a row that points at   *)
(* the row it answers, and both parties may answer at once. Every answer   *)
(* reads the row, checks it, and claims it later.                          *)
(***************************************************************************)
EXTENDS Integers, FiniteSets

CONSTANTS
  Slots,       \* the rows there may be
  MaxCounters  \* MAX_OFFER_COUNTERS

ASSUME OffersAssumption ==
  /\ MaxCounters \in Nat
  /\ "none" \notin Slots

VARIABLES
  offer,     \* the Offer rows
  expired,   \* those whose expiresAt has passed
  answers    \* the answers that have read their offer and not claimed it yet

offersVars == <<offer, expired, answers>>

Parties == {"buyer", "seller"}
NoOffer == [status |-> "none", parent |-> "none", by |-> "buyer", counters |-> 0]
Pending(o) == offer[o].status = "PENDING"

(* Slips: what a definition below would be with a plausible mistake. No    *)
(* step uses them; each is caught by a property (PROJECT.json, "mutants"). *)

\* The write names the offer and not the state it was read in.
ClaimedAnyway(o) == TRUE

-----------------------------------------------------------------------------
\* create: a buyer may open as many negotiations as he likes.
MakeOffer(o) ==
  /\ offer[o].status = "none"
  /\ offer' = [offer EXCEPT ![o].status = "PENDING"]
  /\ UNCHANGED <<expired, answers>>

OfferExpires(o) ==
  /\ offer[o].status # "none"
  /\ expired' = expired \cup {o}
  /\ UNCHANGED <<offer, answers>>

\* The read of accept, counter and reject. Only the seller accepts and rejects,
\* whoever made the offer; only the party that did not make it counters it.
BeginAnswer(kind, o, who) ==
  /\ Pending(o)
  /\ kind \in {"accept", "reject"} => who = "seller"
  /\ kind = "counter" => who # offer[o].by /\ offer[o].counters < MaxCounters
  /\ kind # "reject" => o \notin expired
  /\ answers' = answers \cup {<<kind, o, who>>}
  /\ UNCHANGED <<offer, expired>>

\* The conditional update that every answer makes before anything else.
Claimable(o) == Pending(o)

AcceptOffer(o) ==
  /\ <<"accept", o, "seller">> \in answers
  /\ Claimable(o) /\ o \notin expired
  /\ offer' = [offer EXCEPT ![o].status = "ACCEPTED"]
  /\ answers' = answers \ {<<"accept", o, "seller">>}
  /\ UNCHANGED expired

RejectOffer(o) ==
  /\ <<"reject", o, "seller">> \in answers
  /\ Claimable(o)
  /\ offer' = [offer EXCEPT ![o].status = "REJECTED"]
  /\ answers' = answers \ {<<"reject", o, "seller">>}
  /\ UNCHANGED expired

\* counter: the claim and the new row, in one transaction. It does not look at
\* the expiry again.
CounterOffer(o, new, who) ==
  /\ <<"counter", o, who>> \in answers
  /\ Claimable(o)
  /\ offer[new].status = "none"
  /\ offer' = [offer EXCEPT
       ![o].status = "COUNTERED",
       ![new] = [status |-> "PENDING", parent |-> o, by |-> who,
                 counters |-> offer[o].counters + 1]]
  /\ answers' = answers \ {<<"counter", o, who>>}
  /\ UNCHANGED expired

\* The claim finds nothing: 409.
LoseOffer(kind, o, who) ==
  /\ <<kind, o, who>> \in answers
  /\ ~Claimable(o) \/ (kind = "accept" /\ o \in expired)
  /\ answers' = answers \ {<<kind, o, who>>}
  /\ UNCHANGED <<offer, expired>>

\* deleteAccount of the buyer.
RejectAllOffers ==
  /\ offer' = [o \in Slots |-> IF Pending(o) THEN [offer[o] EXCEPT !.status = "REJECTED"]
                                             ELSE offer[o]]
  /\ UNCHANGED <<expired, answers>>

-----------------------------------------------------------------------------
OffersInit ==
  /\ offer = [o \in Slots |-> NoOffer]
  /\ expired = {} /\ answers = {}

OffersNext ==
  \/ \E o \in Slots : MakeOffer(o) \/ OfferExpires(o) \/ AcceptOffer(o) \/ RejectOffer(o)
  \/ \E o, new \in Slots, who \in Parties : CounterOffer(o, new, who)
  \/ \E o \in Slots, who \in Parties, kind \in {"accept", "counter", "reject"} :
       BeginAnswer(kind, o, who) \/ LoseOffer(kind, o, who)
  \/ RejectAllOffers

OffersSpec == OffersInit /\ [][OffersNext]_offersVars

-----------------------------------------------------------------------------
OffersTypeOK ==
  /\ offer \in [Slots -> [status : {"none", "PENDING", "ACCEPTED", "REJECTED", "COUNTERED"},
                          parent : Slots \cup {"none"}, by : Parties, counters : Nat]]
  /\ expired \subseteq Slots
  /\ answers \subseteq {"accept", "counter", "reject"} \X Slots \X Parties

\* A negotiation is a line: each row answers one that was COUNTERED, made by
\* the other party and one counter shorter; no row is answered twice, so that
\* at most its last row is open or accepted, and it ends at MaxCounters.
OfferChain ==
  \A o \in Slots : offer[o].parent # "none" =>
    LET p == offer[o].parent IN
    /\ offer[p].status = "COUNTERED"
    /\ offer[p].by # offer[o].by
    /\ offer[o].counters = offer[p].counters + 1
    /\ offer[o].counters <= MaxCounters
    /\ \A q \in Slots : offer[q].parent = p => q = o
=============================================================================
