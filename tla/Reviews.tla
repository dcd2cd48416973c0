------------------------------ MODULE Reviews -------------------------------
(***************************************************************************)
(* The reviews of one seller (ReviewsService): create stores a review,     *)
(* sums up all there are, and writes the sum to the seller, in three       *)
(* statements.                                                             *)
(***************************************************************************)
EXTENDS Integers, FiniteSets

CONSTANTS
  Completed,    \* the seller's COMPLETED orders
  Clicks,       \* the requests under way of the buyer of an order
  MaxCutOffs    \* bound: requests that a death of the process cuts off

ASSUME ReviewsAssumption == MaxCutOffs \in Nat /\ "none" \notin Completed

VARIABLES
  reviews,    \* the orders that have a Review row
  rated,      \* the reviews that ratingAvg and ratingCount sum up
  rating,     \* create: how far it is, for which order, what it has summed up
  raters,     \* the orders whose create has written the seller, the last first
  mixed,      \* two requests were at it at once
  cutOffs

ratingVars == <<reviews, rated, rating, raters, mixed, cutOffs>>

NoRating == [at |-> "idle", of |-> "none", sum |-> {}]
Rating == {c \in DOMAIN rating : rating[c] # NoRating}

(* Slips: what a definition below would be with a plausible mistake. No    *)
(* step uses them; each is caught by a property (PROJECT.json, "mutants"). *)

\* The sum is made up from the one before.
SummedBefore(o) == rated

-----------------------------------------------------------------------------
\* The order is COMPLETED, the buyer's, and not reviewed yet.
BeginRating(c, o) ==
  /\ rating[c] = NoRating
  /\ o \notin reviews
  /\ rating' = [rating EXCEPT ![c] = [at |-> "insert", of |-> o, sum |-> {}]]
  /\ mixed' = (mixed \/ Rating # {})
  /\ UNCHANGED <<reviews, rated, raters, cutOffs>>

\* orderId and reviewerId are unique together.
InsertReview(c) ==
  /\ rating[c].at = "insert"
  /\ IF rating[c].of \in reviews
     THEN rating' = [rating EXCEPT ![c] = NoRating] /\ UNCHANGED reviews
     ELSE /\ reviews' = reviews \cup {rating[c].of}
          /\ rating' = [rating EXCEPT ![c].at = "sum"]
  /\ UNCHANGED <<rated, raters, mixed, cutOffs>>

SumOf(o) == reviews
SumUp(c) ==
  /\ rating[c].at = "sum"
  /\ rating' = [rating EXCEPT ![c] = [@ EXCEPT !.at = "write", !.sum = SumOf(rating[c].of)]]
  /\ UNCHANGED <<reviews, rated, raters, mixed, cutOffs>>

RateSeller(c) ==
  /\ rating[c].at = "write"
  /\ rated' = rating[c].sum
  /\ raters' = <<rating[c].of>>
  /\ rating' = [rating EXCEPT ![c] = NoRating]
  /\ UNCHANGED <<reviews, mixed, cutOffs>>

\* The next review of the seller makes up for it.
CutOff(c) ==
  /\ rating[c] # NoRating
  /\ cutOffs < MaxCutOffs
  /\ cutOffs' = cutOffs + 1
  /\ rating' = [rating EXCEPT ![c] = NoRating]
  /\ UNCHANGED <<reviews, rated, raters, mixed>>

-----------------------------------------------------------------------------
ReviewsInit ==
  /\ reviews = {} /\ rated = {} /\ raters = <<>>
  /\ rating = [c \in Clicks |-> NoRating]
  /\ mixed = FALSE /\ cutOffs = 0

ReviewsNext ==
  \E c \in Clicks :
    \/ InsertReview(c) \/ SumUp(c) \/ RateSeller(c) \/ CutOff(c)
    \/ \E o \in Completed : BeginRating(c, o)

-----------------------------------------------------------------------------
\* A seller's rating counts only reviews there are, and that of the buyer who
\* wrote it last; and all of them, if no two buyers reviewed at the same time
\* and nothing was cut off (create).
RatingKept ==
  /\ rated \subseteq reviews
  /\ \A i \in DOMAIN raters : raters[i] \in rated
  /\ ~mixed /\ cutOffs = 0 /\ Rating = {} => rated = reviews
=============================================================================
