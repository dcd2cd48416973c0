---------------------------- MODULE Rows_proofs -----------------------------
(***************************************************************************)
(* The rows that repeat or choose among others: for each of them the       *)
(* invariant of its service is shown to be kept by every step, for any     *)
(* number of requests, rows and losses. Services_proofs puts the services  *)
(* together.                                                               *)
(***************************************************************************)
EXTENDS Wallet, Favorites, Reviews, Notices, Follows, PayoutMethods, SearchIndex,
        FiniteSetTheorems, TLAPS

\* What one more element, or one less, does to the size of a finite set.
LEMMA OneMore ==
  ASSUME NEW S, IsFiniteSet(S), NEW x, x \notin S
  PROVE  /\ IsFiniteSet(S \cup {x}) /\ Cardinality(S \cup {x}) = Cardinality(S) + 1
         /\ Cardinality(S) \in Nat
BY FS_AddElement, FS_CardinalityType

\* One element less is one row less.
LEMMA OneLess ==
  ASSUME NEW S, IsFiniteSet(S), NEW x \in S
  PROVE  /\ IsFiniteSet(S \ {x}) /\ Cardinality(S \ {x}) = Cardinality(S) - 1
         /\ Cardinality(S) \in Nat
BY FS_RemoveElement, FS_CardinalityType

\* Arithmetic the provers see best on its own.
LEMMA Times ==
  ASSUME NEW p \in Nat, NEW n \in Nat
  PROVE  p * (n + 1) = p * n + p /\ p * n \in Nat /\ p * 0 = 0
OBVIOUS

-----------------------------------------------------------------------------
(* The wallet: what the promotions cost is counted by their kind.          *)

\* Only a megaphone waits to be put on the listing.
WalletInv ==
  /\ balance \in Int
  /\ ad \in [Ads -> {"none", "asked", "unlisted", "running", "over"}]
  /\ adKind \in [Ads -> Kinds]
  /\ \A a \in Ads : ad[a] = "unlisted" => adKind[a] = "MEGAFONE"
  /\ WalletAddsUp

\* There are three kinds, each with its price.
LEMMA ThreeKinds ==
  /\ Kinds = {"BUMP", "SPOTLIGHT", "MEGAFONE"}
  /\ \A k \in Kinds : PriceOf[k] \in Nat
BY WalletAssumption DEF Kinds

\* What is bought of a kind is finite, and its cost a number.
LEMMA BoughtType ==
  ASSUME NEW k \in Kinds
  PROVE  IsFiniteSet(Bought(k)) /\ Cardinality(Bought(k)) \in Nat /\ CostOf(k) \in Nat
<1>1. Bought(k) \in SUBSET Ads /\ IsFiniteSet(Ads)
  BY WalletAssumption DEF Bought
<1>2. IsFiniteSet(Bought(k)) /\ Cardinality(Bought(k)) \in Nat
  BY <1>1, FS_Subset, FS_CardinalityType
<1> QED BY <1>2, ThreeKinds DEF CostOf

\* One more of a kind costs its price, and nothing of the others.
LEMMA BuysOne ==
  ASSUME NEW k \in Kinds, NEW a, a \notin Bought(k),
         Bought(k)' = Bought(k) \cup {a},
         \A j \in Kinds \ {k} : Bought(j)' = Bought(j)
  PROVE  /\ CostOf(k)' = CostOf(k) + PriceOf[k]
         /\ \A j \in Kinds \ {k} : CostOf(j)' = CostOf(j)
<1>1. Cardinality(Bought(k)') = Cardinality(Bought(k)) + 1
  BY BoughtType, OneMore
<1>2. \A n \in Nat : PriceOf[k] * (n + 1) = PriceOf[k] * n + PriceOf[k]
  BY ThreeKinds, Times
<1> QED BY <1>1, <1>2, BoughtType DEF CostOf

\* Nothing is bought, and nothing there, at first.
THEOREM WalletFirst == WalletInit => WalletInv
<1> SUFFICES ASSUME WalletInit PROVE WalletInv
  OBVIOUS
<1>1. \A k \in Kinds : Bought(k) = {}
  BY DEF WalletInit, Bought
<1>2. \A k \in Kinds : CostOf(k) = 0
  BY <1>1, ThreeKinds, FS_EmptySet, Times DEF CostOf
<1> QED BY <1>2, ThreeKinds DEF WalletInit, WalletInv, WalletAddsUp

\* A bonus is credited as the referral becomes credited, and a promotion paid
\* for as it starts running; nothing else moves either side.
THEOREM WalletKept == WalletInv /\ [WalletNext]_walletVars => WalletInv'
<1> SUFFICES ASSUME WalletInv, [WalletNext]_walletVars PROVE WalletInv'
  OBVIOUS
<1> USE ThreeKinds, BoughtType
<1>1. ASSUME UNCHANGED <<ad, adKind>>,
             \/ UNCHANGED <<balance, referral>>
             \/ referral = "none" /\ referral' = "pending" /\ UNCHANGED balance
             \/ referral = "pending" /\ referral' = "credited" /\ balance' = balance + Reward
      PROVE  WalletInv'
  <2>1. \A k \in Kinds : CostOf(k)' = CostOf(k)
    BY <1>1 DEF CostOf, Bought
  <2> QED BY <1>1, <2>1, WalletAssumption DEF WalletInv, WalletAddsUp
<1>2. ASSUME NEW a \in Ads, UNCHANGED <<balance, referral>>,
             \A b \in Ads \ {a} : ad'[b] = ad[b] /\ adKind'[b] = adKind[b],
             ad' \in [Ads -> {"none", "asked", "unlisted", "running", "over"}],
             adKind' \in [Ads -> Kinds],
             ad'[a] = "unlisted" => adKind'[a] = "MEGAFONE",
             \/ /\ ad[a] \in {"none", "asked"} /\ ad'[a] \in {"none", "asked", "unlisted"}
             \/ /\ ad[a] \in {"running", "over"} /\ ad'[a] \in {"running", "over"}
                /\ adKind'[a] = adKind[a]
      PROVE  WalletInv'
  <2>1. \A b \in Ads : \A k \in Kinds :
          ad'[b] \in {"running", "over"} /\ adKind'[b] = k
            <=> ad[b] \in {"running", "over"} /\ adKind[b] = k
    BY <1>2
  <2>2. \A k \in Kinds : Bought(k)' = Bought(k)
    BY <2>1 DEF Bought
  <2>3. \A k \in Kinds : CostOf(k)' = CostOf(k)
    BY <2>2 DEF CostOf
  <2> QED BY <1>2, <2>3 DEF WalletInv, WalletAddsUp
<1>3. ASSUME NEW a \in Ads, NEW s \in {"running", "over"},
             ad[a] \in {"asked", "unlisted"}, adKind[a] \in Kinds,
             ad' = [ad EXCEPT ![a] = s], UNCHANGED <<adKind, referral>>,
             balance' = balance - PriceOf[adKind[a]],
             balance >= PriceOf[adKind[a]]
      PROVE  WalletInv'
  <2>1. /\ a \notin Bought(adKind[a])
        /\ Bought(adKind[a])' = Bought(adKind[a]) \cup {a}
        /\ \A j \in Kinds \ {adKind[a]} : Bought(j)' = Bought(j)
    BY <1>3 DEF Bought, WalletInv
  <2>2. /\ CostOf(adKind[a])' = CostOf(adKind[a]) + PriceOf[adKind[a]]
        /\ \A j \in Kinds \ {adKind[a]} : CostOf(j)' = CostOf(j)
    BY <1>3, <2>1, BuysOne
  <2>3. WalletAddsUp'
    <3>1. \A k \in Kinds : CostOf(k) \in Nat /\ PriceOf[k] \in Nat
      OBVIOUS
    <3> QED BY <1>3, <2>2, <3>1, WalletAssumption DEF WalletInv, WalletAddsUp
  <2> QED BY <1>3, <2>3 DEF WalletInv
<1>4. ASSUME LinkReferral \/ CompleteOrder \/ Credit \/ LoseCredit
      PROVE  WalletInv'
  BY <1>1, <1>4 DEF LinkReferral, CompleteOrder, Credit, StillUncredited, LoseCredit, adVars
<1>5. ASSUME NEW a \in Ads, NEW k \in Kinds, AskAd(a, k)
      PROVE  WalletInv'
  BY <1>2, <1>5 DEF AskAd, WalletInv, referralVars
<1>6. ASSUME NEW a \in Ads, StartAd(a)
      PROVE  WalletInv'
  BY <1>2, <1>3, <1>6 DEF StartAd, Covers, WalletInv, referralVars
<1>7. ASSUME NEW a \in Ads, StartMegafone(a)
      PROVE  WalletInv'
  BY <1>2, <1>7 DEF StartMegafone, WalletInv, referralVars
<1>8. ASSUME NEW a \in Ads, ListMegafone(a)
      PROVE  WalletInv'
  <2>1. adKind[a] = "MEGAFONE" /\ PriceOf[adKind[a]] = 0 /\ balance \in Int /\ balance >= 0
    BY <1>8, WalletAssumption DEF ListMegafone, WalletInv, WalletAddsUp
  <2>2. balance' = balance - PriceOf[adKind[a]] /\ balance >= PriceOf[adKind[a]]
    BY <1>8, <2>1 DEF ListMegafone
  <2> QED BY <1>3, <1>8, <2>1, <2>2 DEF ListMegafone, referralVars
<1>9. ASSUME NEW a \in Ads, EndAd(a)
      PROVE  WalletInv'
  <2>1. CASE ad[a] = "running"
    BY <1>2, <1>9, <2>1 DEF EndAd, WalletInv, referralVars
  <2>2. CASE ad[a] = "unlisted"
    <3>1. adKind[a] = "MEGAFONE" /\ PriceOf[adKind[a]] = 0 /\ balance \in Int /\ balance >= 0
      BY <2>2, WalletAssumption DEF WalletInv, WalletAddsUp
    <3>2. balance' = balance - PriceOf[adKind[a]] /\ balance >= PriceOf[adKind[a]]
      BY <1>9, <3>1 DEF EndAd
    <3> QED BY <1>3, <1>9, <2>2, <3>1, <3>2 DEF EndAd, referralVars
  <2> QED BY <1>9, <2>1, <2>2 DEF EndAd, Runs
<1>10. ASSUME ListExpired \/ ClearExpired \/ UNCHANGED walletVars
       PROVE  WalletInv'
  BY <1>1, <1>10 DEF ListExpired, ClearExpired, walletVars, referralVars
<1> QED BY <1>4, <1>5, <1>6, <1>7, <1>8, <1>9, <1>10 DEF WalletNext

-----------------------------------------------------------------------------
(* The reviews of a seller: what a request that has summed up will write.  *)

\* A request that is alone finds the rating as the last one left it, and leaves
\* it as the reviews are.
RatingInv ==
  /\ reviews \subseteq Completed
  /\ rating \in [Clicks -> [at : {"idle", "insert", "sum", "write"},
                            of : Completed \cup {"none"}, sum : SUBSET Completed]]
  /\ cutOffs \in Nat
  /\ \A c \in Clicks :
       /\ rating[c].at = "idle" => rating[c] = NoRating
       /\ rating[c].at # "idle" => rating[c].of \in Completed
       /\ rating[c].at = "sum" => rating[c].of \in reviews
       /\ rating[c].at = "write" =>
            rating[c].of \in rating[c].sum /\ rating[c].sum \subseteq reviews
  /\ rated \subseteq reviews
  /\ \A i \in DOMAIN raters : raters[i] \in rated
  /\ ~mixed => \A c, d \in Rating : c = d
  /\ ~mixed /\ cutOffs = 0 =>
       /\ Rating = {} => rated = reviews
       /\ \A c \in Clicks : /\ rating[c].at = "insert" => rated = reviews
                            /\ rating[c].at = "write" => rating[c].sum = reviews

\* A request is at it unless it is idle.
LEMMA RatingIs ==
  ASSUME RatingInv
  PROVE  Rating = {c \in Clicks : rating[c].at # "idle"} /\ Rating \subseteq Clicks
<1>1. DOMAIN rating = Clicks
  BY DEF RatingInv
<1>2. \A c \in Clicks : rating[c] # NoRating <=> rating[c].at # "idle"
  BY DEF RatingInv, NoRating
<1> QED BY <1>1, <1>2 DEF Rating

\* Nobody has reviewed the seller at first.
THEOREM ReviewsFirst == ReviewsInit => RatingInv
<1> SUFFICES ASSUME ReviewsInit PROVE RatingInv
  OBVIOUS
<1>1. /\ rating \in [Clicks -> [at : {"idle", "insert", "sum", "write"},
                               of : Completed \cup {"none"}, sum : SUBSET Completed]]
      /\ \A c \in Clicks : rating[c] = NoRating /\ rating[c].at = "idle"
  BY DEF ReviewsInit, NoRating
<1>2. Rating = {}
  BY <1>1 DEF Rating
<1>3. \A i \in DOMAIN raters : raters[i] \in rated
  BY DEF ReviewsInit
<1> QED BY <1>1, <1>2, <1>3 DEF ReviewsInit, RatingInv

\* Every step of create keeps the ratings right.
THEOREM RatingsKept == RatingInv /\ [ReviewsNext]_ratingVars => RatingInv'
<1> SUFFICES ASSUME RatingInv, [ReviewsNext]_ratingVars PROVE RatingInv'
  OBVIOUS
<1> USE RatingIs, ReviewsAssumption
<1>1. ASSUME NEW c \in Clicks, NEW o \in Completed, BeginRating(c, o)
      PROVE  RatingInv'
  <2>1. /\ rating[c].at = "idle" /\ rating'[c] = [at |-> "insert", of |-> o, sum |-> {}]
        /\ \A d \in Clicks \ {c} : rating'[d] = rating[d]
        /\ rating' \in [Clicks -> [at : {"idle", "insert", "sum", "write"},
                                   of : Completed \cup {"none"}, sum : SUBSET Completed]]
    BY <1>1 DEF BeginRating, RatingInv, NoRating
  <2>2. Rating' = Rating \cup {c}
    BY <2>1 DEF Rating, RatingInv, NoRating
  <2>3. mixed' = (mixed \/ Rating # {}) /\ UNCHANGED <<reviews, rated, raters, cutOffs>>
    BY <1>1 DEF BeginRating
  <2>4. \A d \in Clicks :
          /\ rating'[d].at = "idle" => rating'[d] = NoRating
          /\ rating'[d].at # "idle" => rating'[d].of \in Completed
          /\ rating'[d].at = "sum" => rating'[d].of \in reviews
          /\ rating'[d].at = "write" =>
               rating'[d].of \in rating'[d].sum /\ rating'[d].sum \subseteq reviews
    BY <2>1 DEF RatingInv
  <2>5. ASSUME ~mixed'
        PROVE  /\ Rating' = {c} /\ Rating = {} /\ ~mixed
               /\ \A d \in Clicks \ {c} : rating'[d].at = "idle"
    BY <2>1, <2>2, <2>3, <2>5
  <2>6. ASSUME ~mixed', cutOffs' = 0
        PROVE  \A d \in Clicks : /\ rating'[d].at = "insert" => rated' = reviews'
                                 /\ rating'[d].at = "write" => rating'[d].sum = reviews'
    BY <2>1, <2>3, <2>5, <2>6 DEF RatingInv
  <2> QED BY <2>1, <2>3, <2>4, <2>5, <2>6 DEF RatingInv
<1>2. ASSUME NEW c \in Clicks, InsertReview(c)
      PROVE  RatingInv'
  <2>1. /\ rating[c].at = "insert" /\ rating[c].of \in Completed
        /\ \A d \in Clicks \ {c} : rating'[d] = rating[d]
        /\ \/ rating[c].of \in reviews /\ rating'[c] = NoRating /\ reviews' = reviews
           \/ /\ rating'[c].at = "sum" /\ rating'[c].of = rating[c].of
              /\ reviews' = reviews \cup {rating[c].of}
        /\ rating' \in [Clicks -> [at : {"idle", "insert", "sum", "write"},
                                   of : Completed \cup {"none"}, sum : SUBSET Completed]]
    <3>1. rating[c].at = "insert" /\ rating[c].of \in Completed
      BY <1>2 DEF InsertReview, RatingInv
    <3>2. CASE rating[c].of \in reviews
      BY <1>2, <3>1, <3>2 DEF InsertReview, RatingInv, NoRating
    <3>3. CASE rating[c].of \notin reviews
      <4>1. rating' = [rating EXCEPT ![c].at = "sum"] /\ reviews' = reviews \cup {rating[c].of}
        BY <1>2, <3>3 DEF InsertReview
      <4> QED BY <3>1, <4>1 DEF RatingInv
    <3> QED BY <3>2, <3>3
  <2>2. Rating' \subseteq Rating /\ (c \in Rating' => rating'[c].at = "sum") /\ c \in Rating
    BY <2>1 DEF Rating, RatingInv, NoRating
  <2>3. UNCHANGED <<rated, raters, mixed, cutOffs>>
    BY <1>2 DEF InsertReview
  <2>4. /\ reviews' \subseteq Completed /\ rated' \subseteq reviews'
        /\ \A d \in Clicks :
             /\ rating'[d].at = "idle" => rating'[d] = NoRating
             /\ rating'[d].at # "idle" => rating'[d].of \in Completed
             /\ rating'[d].at = "sum" => rating'[d].of \in reviews'
             /\ rating'[d].at = "write" =>
                  rating'[d].of \in rating'[d].sum /\ rating'[d].sum \subseteq reviews'
    BY <2>1, <2>3 DEF RatingInv, NoRating
  <2>5. ASSUME ~mixed, cutOffs = 0
        PROVE  /\ Rating' = {} => rated' = reviews'
               /\ \A d \in Clicks : rating'[d].at \notin {"insert", "write"}
    <3>1. Rating = {c}
      BY <2>2, <2>5 DEF RatingInv
    <3>2. \A d \in Clicks \ {c} : rating'[d].at = "idle"
      BY <2>1, <3>1 DEF RatingInv
    <3>3. Rating' = {} => rated' = reviews'
      BY <2>1, <2>3, <2>5 DEF RatingInv, Rating, NoRating
    <3> QED BY <2>1, <3>2, <3>3 DEF NoRating
  <2> QED BY <2>1, <2>2, <2>3, <2>4, <2>5 DEF RatingInv
<1>3. ASSUME NEW c \in Clicks, SumUp(c)
      PROVE  RatingInv'
  <2>1. /\ rating[c].at = "sum" /\ rating'[c].at = "write" /\ rating'[c].of = rating[c].of
        /\ rating'[c].sum = reviews
        /\ \A d \in Clicks \ {c} : rating'[d] = rating[d]
        /\ rating' \in [Clicks -> [at : {"idle", "insert", "sum", "write"},
                                   of : Completed \cup {"none"}, sum : SUBSET Completed]]
    <3>1. rating[c].at = "sum" /\ rating[c] \in [at : {"idle", "insert", "sum", "write"},
                               of : Completed \cup {"none"}, sum : SUBSET Completed]
      BY <1>3 DEF SumUp, RatingInv
    <3>2. rating' = [rating EXCEPT ![c] =
                      [[rating[c] EXCEPT !.at = "write"] EXCEPT !.sum = reviews]]
      BY <1>3, <3>1 DEF SumUp, SumOf
    <3> DEFINE Req == [at : {"idle", "insert", "sum", "write"},
                       of : Completed \cup {"none"}, sum : SUBSET Completed]
               new == [[rating[c] EXCEPT !.at = "write"] EXCEPT !.sum = reviews]
    <3>3. /\ new.at = "write" /\ new.of = rating[c].of /\ new.sum = reviews
          /\ new \in Req
      BY <3>1 DEF RatingInv
    <3>4. rating \in [Clicks -> Req] /\ rating' = [rating EXCEPT ![c] = new]
      BY <3>2 DEF RatingInv
    <3> HIDE DEF Req, new
    <3>5. /\ rating'[c] = new /\ rating' \in [Clicks -> Req]
          /\ \A d \in Clicks \ {c} : rating'[d] = rating[d]
      BY <3>3, <3>4
    <3> QED BY <3>1, <3>3, <3>5 DEF Req
  <2>2. Rating' = Rating
    BY <2>1 DEF Rating, RatingInv, NoRating
  <2>3. UNCHANGED <<reviews, rated, raters, mixed, cutOffs>>
    BY <1>3 DEF SumUp
  <2> QED BY <2>1, <2>2, <2>3 DEF RatingInv
<1>4. ASSUME NEW c \in Clicks, RateSeller(c)
      PROVE  RatingInv'
  <2>1. /\ rating[c].at = "write" /\ rating'[c] = NoRating
        /\ \A d \in Clicks \ {c} : rating'[d] = rating[d]
        /\ rated' = rating[c].sum /\ raters' = <<rating[c].of>>
        /\ rating' \in [Clicks -> [at : {"idle", "insert", "sum", "write"},
                                   of : Completed \cup {"none"}, sum : SUBSET Completed]]
    BY <1>4 DEF RateSeller, RatingInv, NoRating
  <2>2. Rating' = Rating \ {c} /\ c \in Rating
    BY <2>1 DEF Rating, RatingInv, NoRating
  <2>3. UNCHANGED <<reviews, mixed, cutOffs>>
    BY <1>4 DEF RateSeller
  <2>4. \A i \in DOMAIN raters' : raters'[i] \in rated'
    BY <2>1 DEF RatingInv
  <2>5. ASSUME ~mixed, cutOffs = 0
        PROVE  rated' = reviews' /\ \A d \in Clicks : rating'[d].at = "idle"
    BY <2>1, <2>2, <2>3, <2>5 DEF RatingInv, NoRating
  <2> QED BY <2>1, <2>2, <2>3, <2>4, <2>5 DEF RatingInv, NoRating
<1>5. ASSUME NEW c \in Clicks, CutOff(c)
      PROVE  RatingInv'
  <2>1. /\ rating'[c] = NoRating
        /\ \A d \in Clicks \ {c} : rating'[d] = rating[d]
        /\ rating' \in [Clicks -> [at : {"idle", "insert", "sum", "write"},
                                   of : Completed \cup {"none"}, sum : SUBSET Completed]]
        /\ cutOffs' = cutOffs + 1
    BY <1>5 DEF CutOff, RatingInv, NoRating
  <2>2. Rating' \subseteq Rating
    BY <2>1 DEF Rating, RatingInv, NoRating
  <2>3. UNCHANGED <<reviews, rated, raters, mixed>>
    BY <1>5 DEF CutOff
  <2> QED BY <2>1, <2>2, <2>3 DEF RatingInv, NoRating
<1>6. CASE UNCHANGED ratingVars
  BY <1>6 DEF ratingVars, RatingInv, Rating
<1> QED BY <1>1, <1>2, <1>3, <1>4, <1>5, <1>6 DEF ReviewsNext

-----------------------------------------------------------------------------
(* Notifications: whoever is let past the cap was counted, or Redis away.  *)

\* The calls of a category that push, will push, or have pushed.
LetPast == {c \in Causes \ Urgent : notice[c] \in {"push", "send"}} \cup pushes

NoticesInv ==
  /\ notice \in [Causes -> {"none", "loud", "quiet", "count", "push", "send", "over"}]
  /\ {counter, away} \subseteq Nat
  /\ pushes \subseteq Causes \ Urgent
  /\ pushes \subseteq bell
  /\ \A c \in pushes : notice[c] = "over"
  /\ \A c \in Causes : notice[c] \in {"count", "push", "send"} => c \in bell
  /\ \A c \in Urgent : notice[c] # "count"
  /\ IsFiniteSet(LetPast)
  /\ DailyCap > 0 => /\ Cardinality(LetPast) <= counter + away
                     /\ Cardinality(LetPast) <= DailyCap + away

\* A step that lets nobody past.
LEMMA NobodyPast ==
  ASSUME NoticesInv, LetPast' \subseteq LetPast, {counter', away'} \subseteq Nat,
         counter' >= counter, away' >= away
  PROVE  /\ IsFiniteSet(LetPast')
         /\ DailyCap > 0 => /\ Cardinality(LetPast') <= counter' + away'
                            /\ Cardinality(LetPast') <= DailyCap + away'
<1>1. LetPast' \in SUBSET LetPast
  OBVIOUS
<1>2. IsFiniteSet(LetPast') /\ Cardinality(LetPast') <= Cardinality(LetPast)
  BY <1>1, FS_Subset DEF NoticesInv
<1>3. Cardinality(LetPast') \in Nat /\ Cardinality(LetPast) \in Nat
  BY <1>2, FS_CardinalityType DEF NoticesInv
<1> QED BY <1>2, <1>3, NoticesAssumption DEF NoticesInv

\* A step that lets one more past has counted it, below the cap, or Redis was
\* away for it.
LEMMA OnePast ==
  ASSUME NoticesInv, NEW c, LetPast' = LetPast \cup {c}, {counter', away'} \subseteq Nat,
         DailyCap > 0 => \/ counter' = counter + 1 /\ counter + 1 <= DailyCap /\ away' = away
                         \/ counter' = counter /\ away' = away + 1
  PROVE  /\ IsFiniteSet(LetPast')
         /\ DailyCap > 0 => /\ Cardinality(LetPast') <= counter' + away'
                            /\ Cardinality(LetPast') <= DailyCap + away'
<1>1. /\ IsFiniteSet(LetPast') /\ Cardinality(LetPast) \in Nat
      /\ \/ Cardinality(LetPast') = Cardinality(LetPast)
         \/ Cardinality(LetPast') = Cardinality(LetPast) + 1
  BY FS_AddElement, FS_CardinalityType DEF NoticesInv
<1> QED BY <1>1, NoticesAssumption DEF NoticesInv

\* Nobody was told at first.
THEOREM NoticesFirst == NoticesInit => NoticesInv
<1> SUFFICES ASSUME NoticesInit PROVE NoticesInv
  OBVIOUS
<1>1. LetPast = {}
  BY DEF NoticesInit, LetPast
<1> QED BY <1>1, FS_EmptySet, NoticesAssumption DEF NoticesInit, NoticesInv

\* Every step of a notification keeps what is counted.
THEOREM NoticesKept == NoticesInv /\ [NoticesNext]_noticeVars => NoticesInv'
<1> SUFFICES ASSUME NoticesInv, [NoticesNext]_noticeVars PROVE NoticesInv'
  OBVIOUS
<1> USE NoticesAssumption
<1> DEFINE Stages == {"none", "loud", "quiet", "count", "push", "send", "over"}
<1>1. ASSUME UNCHANGED <<notice, counter, pushes, bell>>, away' \in {away, away + 1}
      PROVE  NoticesInv'
  <2>1. LetPast' = LetPast
    BY <1>1 DEF LetPast
  <2> QED BY <1>1, <2>1, NobodyPast DEF NoticesInv
<1>2. ASSUME NEW c \in Causes, BeginNotice(c) PROVE NoticesInv'
  <2>1. notice' \in [Causes -> Stages] /\ LetPast' = LetPast
    BY <1>2 DEF BeginNotice, LetPast, NoticesInv
  <2> QED BY <1>2, <2>1, NobodyPast DEF BeginNotice, NoticesInv
<1>3. ASSUME NEW c \in Causes, RingBell(c) PROVE NoticesInv'
  <2>1. notice' \in [Causes -> Stages] /\ LetPast' = LetPast
    BY <1>3 DEF RingBell, LetPast, NoticesInv
  <2> QED BY <1>3, <2>1, NobodyPast DEF RingBell, NoticesInv
<1>4. ASSUME NEW c \in Causes, CountNotice(c) PROVE NoticesInv'
  <2>1. /\ notice' = [notice EXCEPT ![c] = notice'[c]] /\ notice'[c] \in {"push", "over"}
        /\ notice[c] = "count" /\ c \notin Urgent
        /\ UNCHANGED <<pushes, bell, away>>
        /\ DailyCap > 0 => counter' = counter + 1
        /\ counter' \in Nat /\ counter' >= counter
        /\ DailyCap > 0 /\ notice'[c] = "push" => counter + 1 <= DailyCap
    BY <1>4 DEF CountNotice, OverCap, NoticesInv
  <2>2. /\ notice'[c] = "push" => LetPast' = LetPast \cup {c}
        /\ notice'[c] = "over" => LetPast' = LetPast
    BY <2>1 DEF LetPast, NoticesInv
  <2>3. /\ IsFiniteSet(LetPast')
        /\ DailyCap > 0 => /\ Cardinality(LetPast') <= counter' + away'
                           /\ Cardinality(LetPast') <= DailyCap + away'
    BY <2>1, <2>2, NobodyPast, OnePast DEF NoticesInv
  <2> QED BY <2>1, <2>3 DEF NoticesInv
<1>5. ASSUME NEW c \in Causes, CountUnknown(c) PROVE NoticesInv'
  <2>1. c \notin Urgent
    BY <1>5 DEF CountUnknown, NoticesInv
  <2>2. notice' \in [Causes -> Stages] /\ LetPast' = LetPast \cup {c}
    BY <1>5, <2>1 DEF CountUnknown, LetPast, NoticesInv
  <2>3. UNCHANGED <<counter, pushes, bell>> /\ away' = away + 1
    BY <1>5 DEF CountUnknown
  <2>4. /\ IsFiniteSet(LetPast')
        /\ DailyCap > 0 => /\ Cardinality(LetPast') <= counter' + away'
                           /\ Cardinality(LetPast') <= DailyCap + away'
    <3>1. {counter', away'} \subseteq Nat
      BY <2>3 DEF NoticesInv
    <3> QED BY <2>2, <2>3, <3>1, OnePast
  <2> QED BY <1>5, <2>2, <2>3, <2>4 DEF CountUnknown, NoticesInv
<1>6. ASSUME NEW c \in Causes, Aim(c) PROVE NoticesInv'
  <2>1. notice' \in [Causes -> Stages] /\ LetPast' = LetPast
    BY <1>6 DEF Aim, LetPast, NoticesInv
  <2> QED BY <1>6, <2>1, NobodyPast DEF Aim, NoticesInv
<1>7. ASSUME NEW c \in Causes, PushOut(c) PROVE NoticesInv'
  <2>1. notice' \in [Causes -> Stages] /\ LetPast' \subseteq LetPast
    BY <1>7 DEF PushOut, LetPast, NoticesInv
  <2> QED BY <1>7, <2>1, NobodyPast DEF PushOut, NoticesInv
<1>8. ASSUME \/ ChangePrefs
             \/ \E t \in Devices : RemoveDevice(t) \/ \E u \in DeviceUsers : RegisterDevice(t, u)
             \/ \E c \in Causes, t \in Devices : PushFails(c, t)
             \/ UNCHANGED noticeVars
      PROVE  NoticesInv'
  BY <1>1, <1>8 DEF ChangePrefs, RemoveDevice, RegisterDevice, PushFails, noticeVars, deviceVars
<1> QED BY <1>2, <1>3, <1>4, <1>5, <1>6, <1>7, <1>8 DEF NoticesNext

-----------------------------------------------------------------------------
(* The favorites of one user: what is under way is counted by its step.    *)

ToggleSteps == {"idle", "sent", "create", "delete", "up", "down", "done", "failed"}

\* Only the phone was ever tapped, and nothing came in its way.
PhoneAlone == tapped \subseteq {Handset} /\ broken = 0 /\ ~crossed

\* What the phone shows is what the row will be when its request is through.
HeartInv ==
  /\ hydrating # "no" => toggle[Handset] = "idle" /\ (hydrating = "with") = favorite
  /\ toggle[Handset] = "idle" /\ hydrating = "no" => heart = favorite
  /\ toggle[Handset] = "sent" => heart = ~favorite
  /\ toggle[Handset] = "create" => heart /\ ~favorite
  /\ toggle[Handset] = "delete" => ~heart /\ favorite
  /\ toggle[Handset] \in {"up", "down", "done"} => heart = favorite
  /\ toggle[Handset] # "failed"

FavoritesInv ==
  /\ {favorite, heart, crossed} \subseteq BOOLEAN
  /\ {favorites, halved} \subseteq Int /\ broken \in Nat
  /\ toggle \in [Screens -> ToggleSteps]
  /\ hydrating \in {"no", "with", "without"}
  /\ \A s \in Screens : toggle[s] # "idle" => s \in tapped
  /\ favorites = (IF favorite THEN 1 ELSE 0) + Count("down") - Count("up") - halved
  /\ PhoneAlone => HeartInv

\* The screens at a step are finitely many.
LEMMA CountType ==
  ASSUME NEW at PROVE IsFiniteSet({s \in Screens : toggle[s] = at}) /\ Count(at) \in Nat
<1>1. {s \in Screens : toggle[s] = at} \in SUBSET Screens /\ IsFiniteSet(Screens)
  BY FavoritesAssumption
<1> QED BY <1>1, FS_Subset, FS_CardinalityType DEF Count

\* A request that goes from one step to another is counted there instead.
LEMMA MovesOn ==
  ASSUME NEW s \in Screens, NEW next, DOMAIN toggle = Screens, next # toggle[s],
         toggle' = [toggle EXCEPT ![s] = next], NEW at
  PROVE  Count(at)' = IF at = toggle[s] THEN Count(at) - 1
                      ELSE IF at = next THEN Count(at) + 1 ELSE Count(at)
<1> DEFINE Now == {x \in Screens : toggle[x] = at}
           Then == {x \in Screens : toggle'[x] = at}
<1>1. IsFiniteSet(Now) /\ Count(at) = Cardinality(Now) /\ Count(at)' = Cardinality(Then)
  BY CountType DEF Count
<1>2. /\ at = toggle[s] => s \in Now /\ Then = Now \ {s}
      /\ at = next => s \notin Now /\ Then = Now \cup {s}
      /\ at # toggle[s] /\ at # next => Then = Now
  OBVIOUS
<1> HIDE DEF Now, Then
<1> QED BY <1>1, <1>2, OneMore, OneLess

\* The same of the two steps that the count lags behind at.
LEMMA MovesUpDown ==
  ASSUME NEW s \in Screens, NEW next, DOMAIN toggle = Screens, next # toggle[s],
         toggle' = [toggle EXCEPT ![s] = next]
  PROVE  /\ Count("up")' = IF "up" = toggle[s] THEN Count("up") - 1
                           ELSE IF "up" = next THEN Count("up") + 1 ELSE Count("up")
         /\ Count("down")' = IF "down" = toggle[s] THEN Count("down") - 1
                             ELSE IF "down" = next THEN Count("down") + 1 ELSE Count("down")
BY MovesOn

\* No screen is tapped, and no row there, at first.
THEOREM FavoritesFirst == FavoritesInit => FavoritesInv
<1> SUFFICES ASSUME FavoritesInit PROVE FavoritesInv
  OBVIOUS
<1>1. /\ {s \in Screens : toggle[s] = "up"} = {}
      /\ {s \in Screens : toggle[s] = "down"} = {}
  BY DEF FavoritesInit
<1>2. Count("up") = 0 /\ Count("down") = 0
  BY <1>1, FS_EmptySet DEF Count
<1>3. toggle \in [Screens -> ToggleSteps] /\ \A s \in Screens : toggle[s] = "idle"
  BY DEF FavoritesInit, ToggleSteps
<1>4. HeartInv
  BY <1>3, FavoritesAssumption DEF FavoritesInit, HeartInv
<1>5. favorites = (IF favorite THEN 1 ELSE 0) + Count("down") - Count("up") - halved
  BY <1>2 DEF FavoritesInit
<1>6. {favorite, heart, crossed} \subseteq BOOLEAN
  BY DEF FavoritesInit
<1> QED BY <1>3, <1>4, <1>5, <1>6 DEF FavoritesInit, FavoritesInv

\* Every step of the screens and of the API keeps row, count and heart.
THEOREM FavoritesKept == FavoritesInv /\ [FavoritesNext]_favoriteVars => FavoritesInv'
<1> SUFFICES ASSUME FavoritesInv, [FavoritesNext]_favoriteVars PROVE FavoritesInv'
  OBVIOUS
<1> USE FavoritesAssumption
<1>a. Count("up") \in Nat /\ Count("down") \in Nat
  BY CountType
<1>b. /\ DOMAIN toggle = Screens
      /\ favorites = (IF favorite THEN 1 ELSE 0) + Count("down") - Count("up") - halved
      /\ favorites \in Int /\ halved \in Int /\ favorite \in BOOLEAN
  BY DEF FavoritesInv
<1>1. ASSUME UNCHANGED <<rowVars, toggle, tapped, broken, halved>>,
             {heart', crossed'} \subseteq BOOLEAN, hydrating' \in {"no", "with", "without"},
             PhoneAlone' /\ PhoneAlone => HeartInv', PhoneAlone' => PhoneAlone
      PROVE  FavoritesInv'
  BY <1>1 DEF FavoritesInv, rowVars, Count
<1>2. ASSUME NEW s \in Screens, NEW next \in ToggleSteps \ {"up", "down"},
             toggle[s] \notin {"up", "down"}, toggle[s] # next,
             toggle' = [toggle EXCEPT ![s] = next], s \in tapped', tapped \subseteq tapped',
             UNCHANGED <<rowVars, hydrating, halved>>, broken' \in {broken, broken + 1},
             {heart', crossed'} \subseteq BOOLEAN,
             PhoneAlone' => HeartInv'
      PROVE  FavoritesInv'
  <2>1. Count("up")' = Count("up") /\ Count("down")' = Count("down")
    BY <1>2, MovesUpDown DEF FavoritesInv
  <2>2. toggle' \in [Screens -> ToggleSteps]
    BY <1>2 DEF FavoritesInv
  <2>3. \A x \in Screens : toggle'[x] # "idle" => x \in tapped'
    BY <1>2 DEF FavoritesInv
  <2> QED BY <1>2, <2>1, <2>2, <2>3 DEF FavoritesInv, rowVars
<1>3. ASSUME NEW s \in Screens, Tap(s) PROVE FavoritesInv'
  <2>1. PhoneAlone' => HeartInv'
    BY <1>3 DEF Tap, PhoneAlone, HeartInv, FavoritesInv, rowVars
  <2> QED BY <1>2, <1>3, <2>1 DEF Tap, FavoritesInv, ToggleSteps
<1>4. ASSUME NEW s \in Screens, Answered(s) PROVE FavoritesInv'
  <2>1. PhoneAlone' => HeartInv'
    BY <1>4 DEF Answered, PhoneAlone, HeartInv, FavoritesInv, rowVars
  <2> QED BY <1>2, <1>4, <2>1 DEF Answered, FavoritesInv, ToggleSteps
<1>5. CASE Hydrate
  BY <1>1, <1>5 DEF Hydrate, PhoneAlone, HeartInv, FavoritesInv, rowVars
<1>6. CASE EndHydrate
  BY <1>1, <1>6 DEF EndHydrate, PhoneAlone, HeartInv, FavoritesInv, rowVars
<1>7. ASSUME NEW s \in Screens, FindFavorite(s) PROVE FavoritesInv'
  <2>1. PhoneAlone' => HeartInv'
    BY <1>7 DEF FindFavorite, PhoneAlone, HeartInv, FavoritesInv, rowVars, phoneSideVars
  <2> QED BY <1>2, <1>7, <2>1 DEF FindFavorite, FavoritesInv, ToggleSteps, phoneSideVars
<1>8. ASSUME NEW s \in Screens, WriteFavorite(s) PROVE FavoritesInv'
  <2>1. PhoneAlone' => HeartInv'
    BY <1>8 DEF WriteFavorite, Writable, PhoneAlone, HeartInv, FavoritesInv, phoneSideVars
  <2>2. CASE Writable(s)
    <3>1. \/ /\ toggle[s] = "create" /\ ~favorite /\ favorite'
             /\ toggle' = [toggle EXCEPT ![s] = "up"]
          \/ /\ toggle[s] = "delete" /\ favorite /\ ~favorite'
             /\ toggle' = [toggle EXCEPT ![s] = "down"]
      BY <1>8, <2>2 DEF WriteFavorite, Writable, FavoritesInv
    <3>2. \/ /\ toggle[s] = "create"
             /\ Count("up")' = Count("up") + 1 /\ Count("down")' = Count("down")
          \/ /\ toggle[s] = "delete"
             /\ Count("down")' = Count("down") + 1 /\ Count("up")' = Count("up")
      BY <1>b, <3>1, MovesUpDown
    <3>3. toggle' \in [Screens -> ToggleSteps]
      BY <3>1 DEF FavoritesInv, ToggleSteps
    <3>5. \A x \in Screens : toggle'[x] # "idle" => x \in tapped
      BY <3>1 DEF FavoritesInv
    <3>6. favorite' \in BOOLEAN
      BY <1>8, <2>2 DEF WriteFavorite
    <3>4. favorites' = (IF favorite' THEN 1 ELSE 0) + Count("down")' - Count("up")' - halved'
      BY <1>a, <1>b, <1>8, <3>1, <3>2 DEF WriteFavorite
    <3> QED BY <1>8, <2>1, <3>3, <3>4, <3>5, <3>6 DEF FavoritesInv, WriteFavorite, phoneSideVars
  <2>3. CASE ~Writable(s)
    BY <1>2, <1>8, <2>1, <2>3 DEF WriteFavorite, FavoritesInv, ToggleSteps, rowVars, phoneSideVars
  <2> QED BY <2>2, <2>3
<1>9. ASSUME NEW s \in Screens, CountFavorite(s) PROVE FavoritesInv'
  <2>1. PhoneAlone' => HeartInv'
    BY <1>9 DEF CountFavorite, PhoneAlone, HeartInv, FavoritesInv, phoneSideVars
  <2>2. \/ toggle[s] = "up" /\ favorites' = favorites + 1
        \/ toggle[s] = "down" /\ favorites' = favorites - 1
    BY <1>9 DEF CountFavorite, FavoritesInv
  <2>3. \/ /\ toggle[s] = "up"
           /\ Count("up")' = Count("up") - 1 /\ Count("down")' = Count("down")
        \/ /\ toggle[s] = "down"
           /\ Count("down")' = Count("down") - 1 /\ Count("up")' = Count("up")
    <3>1. toggle' = [toggle EXCEPT ![s] = "done"] /\ toggle[s] \in {"up", "down"}
      BY <1>9 DEF CountFavorite
    <3>2. /\ Count("up")' = IF "up" = toggle[s] THEN Count("up") - 1
                           ELSE IF "up" = "done" THEN Count("up") + 1 ELSE Count("up")
          /\ Count("down")' = IF "down" = toggle[s] THEN Count("down") - 1
                             ELSE IF "down" = "done" THEN Count("down") + 1 ELSE Count("down")
      BY <1>b, <3>1, MovesUpDown
    <3> QED BY <3>1, <3>2
  <2>4. favorites' = (IF favorite THEN 1 ELSE 0) + Count("down")' - Count("up")' - halved
    BY <1>a, <1>b, <2>2, <2>3
  <2>5. toggle' \in [Screens -> ToggleSteps]
    BY <1>9 DEF CountFavorite, FavoritesInv, ToggleSteps
  <2>6. \A x \in Screens : toggle'[x] # "idle" => x \in tapped
    BY <1>9 DEF CountFavorite, FavoritesInv
  <2> QED BY <1>9, <2>1, <2>2, <2>4, <2>5, <2>6 DEF CountFavorite, FavoritesInv, phoneSideVars
<1>10. ASSUME NEW s \in Screens, LoseToggle(s) PROVE FavoritesInv'
  <2>1. ~PhoneAlone'
    BY <1>10 DEF LoseToggle, PhoneAlone, FavoritesInv
  <2> QED BY <1>2, <1>10, <2>1 DEF LoseToggle, FavoritesInv, ToggleSteps, phoneSideVars
<1>11. ASSUME NEW s \in Screens, DieInToggle(s) PROVE FavoritesInv'
  <2>1. ~PhoneAlone'
    BY <1>11 DEF DieInToggle, PhoneAlone, FavoritesInv
  <2>2. CASE toggle[s] \in {"create", "delete"}
    <3>1. halved' = halved
      BY <1>11, <2>2 DEF DieInToggle, FavoritesInv
    <3> QED BY <1>2, <1>11, <2>1, <2>2, <3>1 DEF DieInToggle, FavoritesInv, ToggleSteps, phoneSideVars
  <2>3. CASE toggle[s] \in {"up", "down"}
    <3>1. \/ toggle[s] = "up" /\ halved' = halved + 1
          \/ toggle[s] = "down" /\ halved' = halved - 1
      BY <1>11, <2>3 DEF DieInToggle
    <3>2. \/ /\ toggle[s] = "up"
             /\ Count("up")' = Count("up") - 1 /\ Count("down")' = Count("down")
          \/ /\ toggle[s] = "down"
             /\ Count("down")' = Count("down") - 1 /\ Count("up")' = Count("up")
      <4>1. toggle' = [toggle EXCEPT ![s] = "failed"]
        BY <1>11 DEF DieInToggle
      <4>2. /\ Count("up")' = IF "up" = toggle[s] THEN Count("up") - 1
                             ELSE IF "up" = "failed" THEN Count("up") + 1 ELSE Count("up")
            /\ Count("down")' = IF "down" = toggle[s] THEN Count("down") - 1
                               ELSE IF "down" = "failed" THEN Count("down") + 1
                               ELSE Count("down")
        BY <1>b, <2>3, <4>1, MovesUpDown
      <4> QED BY <2>3, <4>2
    <3>3. favorites = (IF favorite THEN 1 ELSE 0) + Count("down")' - Count("up")' - halved'
      BY <1>a, <1>b, <3>1, <3>2
    <3>4. toggle' \in [Screens -> ToggleSteps]
      BY <1>11 DEF DieInToggle, FavoritesInv, ToggleSteps
    <3>5. \A x \in Screens : toggle'[x] # "idle" => x \in tapped
      BY <1>11 DEF DieInToggle, FavoritesInv
    <3> QED BY <1>11, <2>1, <3>1, <3>3, <3>4, <3>5
            DEF DieInToggle, FavoritesInv, rowVars, phoneSideVars
  <2> QED BY <1>11, <2>2, <2>3 DEF DieInToggle
<1>12. CASE UNCHANGED favoriteVars
  BY <1>12 DEF favoriteVars, FavoritesInv, Count, PhoneAlone, HeartInv
<1> QED BY <1>3, <1>4, <1>5, <1>6, <1>7, <1>8, <1>9, <1>10, <1>11, <1>12 DEF FavoritesNext

-----------------------------------------------------------------------------
(* Followers: what the script counted holds of whoever was not touched.    *)

Recounts == [at : {"idle", "out", "in", "page", "write"},
             in : [Members -> Nat] \cup {<<>>}, out : [Members -> Nat] \cup {<<>>},
             page : [Members -> Int \X Int] \cup {<<>>}, todo : SUBSET Members]

\* What the counters, the script and the sweep hold.
FollowsTypeOK ==
  /\ edges \subseteq Members \X Members
  /\ {followers, followings} \subseteq [Members -> Int]
  /\ orphaned \in [Members -> [in : Int, out : Int]]
  /\ recount \in Recounts
  /\ recount.at = "idle" <=> recount = NoRecount
  /\ recount.at \in {"out", "page", "write"} => recount.in \in [Members -> Nat]
  /\ recount.at \in {"in", "page", "write"} => recount.out \in [Members -> Nat]
  /\ recount.at = "write" => recount.page \in [Members -> Int \X Int] /\ recount.todo # {}

\* A user untouched since the script began is as it counted him; and as its page
\* has him, until it comes to him.
CountedRight ==
  \A u \in Members \ stirred :
    /\ recount.at \in {"out", "page", "write"} =>
         recount.in[u] = Cardinality(FollowersOf(u))
    /\ recount.at \in {"in", "page", "write"} =>
         recount.out[u] = Cardinality(FollowedBy(u))
    /\ recount.at = "write" /\ u \in recount.todo =>
         recount.page[u] = <<followers[u], followings[u]>>

FollowsInv == FollowsTypeOK /\ CountedRight /\ FollowsAddUp

\* What is taken out of a finite set is missing from its size.
LEMMA CutOut ==
  ASSUME NEW A, NEW B \in SUBSET A, IsFiniteSet(A)
  PROVE  Cardinality(A \ B) = Cardinality(A) - Cardinality(B)
<1>1. A \cap B = B
  OBVIOUS
<1> QED BY <1>1, FS_Difference

\* The followers and the followed of a user are finitely many.
LEMMA Degrees ==
  ASSUME NEW u
  PROVE  /\ IsFiniteSet(FollowersOf(u)) /\ Cardinality(FollowersOf(u)) \in Nat
         /\ IsFiniteSet(FollowedBy(u)) /\ Cardinality(FollowedBy(u)) \in Nat
<1>1. FollowersOf(u) \in SUBSET Members /\ FollowedBy(u) \in SUBSET Members
  BY DEF FollowersOf, FollowedBy
<1> QED BY <1>1, FollowsAssumption, FS_Subset, FS_CardinalityType

\* Nobody follows anybody at first.
THEOREM FollowsFirst == FollowsInit => FollowsInv
<1> SUFFICES ASSUME FollowsInit PROVE FollowsInv
  OBVIOUS
<1>1. \A u \in Members : FollowersOf(u) = {} /\ FollowedBy(u) = {}
  BY DEF FollowsInit, FollowersOf, FollowedBy
<1>2. FollowsAddUp
  BY <1>1, FS_EmptySet DEF FollowsInit, FollowsAddUp
<1>3. NoRecount \in Recounts /\ NoRecount.at = "idle"
  BY DEF NoRecount, Recounts
<1>4. FollowsTypeOK
  BY <1>3 DEF FollowsInit, FollowsTypeOK
<1>5. CountedRight
  BY <1>3 DEF FollowsInit, CountedRight
<1> QED BY <1>2, <1>4, <1>5 DEF FollowsInv

\* A step that moves rows, and counters or what was orphaned with them.
LEMMA MovesRows ==
  ASSUME FollowsInv, NEW users, Touches(users), UNCHANGED <<recount, miscounted>>,
         edges' \subseteq Members \X Members,
         {followers', followings'} \subseteq [Members -> Int],
         orphaned' \in [Members -> [in : Int, out : Int]],
         \A u \in Members \ users :
           /\ FollowersOf(u)' = FollowersOf(u) /\ FollowedBy(u)' = FollowedBy(u)
           /\ followers'[u] = followers[u] /\ followings'[u] = followings[u],
         FollowsAddUp'
  PROVE  FollowsInv'
<1>1. FollowsTypeOK'
  BY DEF FollowsInv, FollowsTypeOK
<1>2. CountedRight'
  <2>1. CASE recount = NoRecount
    BY <2>1 DEF CountedRight, NoRecount, FollowsInv
  <2>2. CASE recount # NoRecount
    <3>1. stirred' = stirred \cup users
      BY <2>2 DEF Touches
    <3> QED BY <3>1 DEF CountedRight, FollowsInv
  <2> QED BY <2>1, <2>2
<1> QED BY <1>1, <1>2 DEF FollowsInv

\* Every step of the users, the sweep and the script keeps the counters.
THEOREM FollowsKept == FollowsInv /\ [FollowsNext]_followVars => FollowsInv'
<1> SUFFICES ASSUME FollowsInv, [FollowsNext]_followVars PROVE FollowsInv'
  OBVIOUS
<1> USE FollowsAssumption
<1>1. ASSUME NEW a \in Members, NEW b \in Members, Follow(a, b) PROVE FollowsInv'
  <2>1. /\ <<a, b>> \notin edges /\ a # b /\ edges' = edges \cup {<<a, b>>}
        /\ followers' = [followers EXCEPT ![b] = @ + 1]
        /\ followings' = [followings EXCEPT ![a] = @ + 1]
        /\ Touches({a, b}) /\ UNCHANGED <<recount, orphaned, miscounted>>
    BY <1>1 DEF Follow, NewEdge
  <2>2. /\ a \notin FollowersOf(b) /\ FollowersOf(b)' = FollowersOf(b) \cup {a}
        /\ b \notin FollowedBy(a) /\ FollowedBy(a)' = FollowedBy(a) \cup {b}
        /\ \A u \in Members \ {b} : FollowersOf(u)' = FollowersOf(u)
        /\ \A u \in Members \ {a} : FollowedBy(u)' = FollowedBy(u)
    BY <2>1 DEF FollowersOf, FollowedBy
  <2>3. /\ Cardinality(FollowersOf(b)') = Cardinality(FollowersOf(b)) + 1
        /\ Cardinality(FollowedBy(a)') = Cardinality(FollowedBy(a)) + 1
    BY <2>2, Degrees, OneMore
  <2>4. /\ {followers', followings'} \subseteq [Members -> Int]
        /\ followers'[b] = followers[b] + 1 /\ followings'[a] = followings[a] + 1
        /\ \A u \in Members \ {b} : followers'[u] = followers[u]
        /\ \A u \in Members \ {a} : followings'[u] = followings[u]
    BY <2>1 DEF FollowsInv, FollowsTypeOK
  <2>5. FollowsAddUp'
    <3> SUFFICES ASSUME NEW u \in Members \ miscounted
                 PROVE  /\ followers'[u] = Cardinality(FollowersOf(u)') + orphaned[u].in
                        /\ followings'[u] = Cardinality(FollowedBy(u)') + orphaned[u].out
      BY <2>1 DEF FollowsAddUp
    <3>1. /\ followers[u] = Cardinality(FollowersOf(u)) + orphaned[u].in
          /\ followings[u] = Cardinality(FollowedBy(u)) + orphaned[u].out
          /\ orphaned[u].in \in Int /\ orphaned[u].out \in Int
      BY DEF FollowsInv, FollowsAddUp, FollowsTypeOK
    <3>2. /\ Cardinality(FollowersOf(u)) \in Nat /\ Cardinality(FollowedBy(u)) \in Nat
      BY Degrees
    <3>3. followers'[u] = Cardinality(FollowersOf(u)') + orphaned[u].in
      <4>1. CASE u = b
        BY <2>3, <2>4, <3>1, <3>2, <4>1
      <4>2. CASE u # b
        BY <2>2, <2>4, <3>1, <4>2
      <4> QED BY <4>1, <4>2
    <3>4. followings'[u] = Cardinality(FollowedBy(u)') + orphaned[u].out
      <4>1. CASE u = a
        BY <2>3, <2>4, <3>1, <3>2, <4>1
      <4>2. CASE u # a
        BY <2>2, <2>4, <3>1, <4>2
      <4> QED BY <4>1, <4>2
    <3> QED BY <3>3, <3>4
  <2>6. edges' \subseteq Members \X Members /\ orphaned' \in [Members -> [in : Int, out : Int]]
    BY <2>1 DEF FollowsInv, FollowsTypeOK
  <2> QED BY <2>1, <2>2, <2>4, <2>5, <2>6, MovesRows
<1>2. ASSUME NEW a \in Members, NEW b \in Members, Unfollow(a, b) PROVE FollowsInv'
  <2>1. /\ <<a, b>> \in edges /\ a # b /\ edges' = edges \ {<<a, b>>}
        /\ followers' = [followers EXCEPT ![b] = @ - 1]
        /\ followings' = [followings EXCEPT ![a] = @ - 1]
        /\ Touches({a, b}) /\ UNCHANGED <<recount, orphaned, miscounted>>
    BY <1>2 DEF Unfollow, OldEdge
  <2>2. /\ a \in FollowersOf(b) /\ FollowersOf(b)' = FollowersOf(b) \ {a}
        /\ b \in FollowedBy(a) /\ FollowedBy(a)' = FollowedBy(a) \ {b}
        /\ \A u \in Members \ {b} : FollowersOf(u)' = FollowersOf(u)
        /\ \A u \in Members \ {a} : FollowedBy(u)' = FollowedBy(u)
    BY <2>1 DEF FollowersOf, FollowedBy
  <2>3. /\ Cardinality(FollowersOf(b)') = Cardinality(FollowersOf(b)) - 1
        /\ Cardinality(FollowedBy(a)') = Cardinality(FollowedBy(a)) - 1
    BY <2>2, Degrees, OneLess
  <2>4. /\ {followers', followings'} \subseteq [Members -> Int]
        /\ followers'[b] = followers[b] - 1 /\ followings'[a] = followings[a] - 1
        /\ \A u \in Members \ {b} : followers'[u] = followers[u]
        /\ \A u \in Members \ {a} : followings'[u] = followings[u]
    BY <2>1 DEF FollowsInv, FollowsTypeOK
  <2>5. FollowsAddUp'
    <3> SUFFICES ASSUME NEW u \in Members \ miscounted
                 PROVE  /\ followers'[u] = Cardinality(FollowersOf(u)') + orphaned[u].in
                        /\ followings'[u] = Cardinality(FollowedBy(u)') + orphaned[u].out
      BY <2>1 DEF FollowsAddUp
    <3>1. /\ followers[u] = Cardinality(FollowersOf(u)) + orphaned[u].in
          /\ followings[u] = Cardinality(FollowedBy(u)) + orphaned[u].out
          /\ orphaned[u].in \in Int /\ orphaned[u].out \in Int
      BY DEF FollowsInv, FollowsAddUp, FollowsTypeOK
    <3>2. /\ Cardinality(FollowersOf(u)) \in Nat /\ Cardinality(FollowedBy(u)) \in Nat
      BY Degrees
    <3>3. followers'[u] = Cardinality(FollowersOf(u)') + orphaned[u].in
      <4>1. CASE u = b
        BY <2>3, <2>4, <3>1, <3>2, <4>1
      <4>2. CASE u # b
        BY <2>2, <2>4, <3>1, <4>2
      <4> QED BY <4>1, <4>2
    <3>4. followings'[u] = Cardinality(FollowedBy(u)') + orphaned[u].out
      <4>1. CASE u = a
        BY <2>3, <2>4, <3>1, <3>2, <4>1
      <4>2. CASE u # a
        BY <2>2, <2>4, <3>1, <4>2
      <4> QED BY <4>1, <4>2
    <3> QED BY <3>3, <3>4
  <2>6. edges' \subseteq Members \X Members /\ orphaned' \in [Members -> [in : Int, out : Int]]
    BY <2>1 DEF FollowsInv, FollowsTypeOK
  <2> QED BY <2>1, <2>2, <2>4, <2>5, <2>6, MovesRows
<1>3. ASSUME NEW u \in Members, Sweep(u) PROVE FollowsInv'
  <2> DEFINE In(x) == {a \in FollowersOf(x) : u \in {a, x}}
             Out(x) == {b \in FollowedBy(x) : u \in {x, b}}
             Gone == FollowersOf(u) \cup FollowedBy(u) \cup {u}
  <2>1. /\ edges' = {e \in edges : u \notin {e[1], e[2]}}
        /\ orphaned' = [x \in Members |-> [in  |-> orphaned[x].in + Cardinality(In(x)),
                                           out |-> orphaned[x].out + Cardinality(Out(x))]]
        /\ Touches(Gone) /\ UNCHANGED <<counterVars, recount, miscounted>>
    BY <1>3 DEF Sweep
  <2>2. \A x : FollowersOf(x)' = FollowersOf(x) \ In(x) /\ FollowedBy(x)' = FollowedBy(x) \ Out(x)
    BY <2>1 DEF FollowersOf, FollowedBy
  <2>3. \A x \in Members \ Gone : In(x) = {} /\ Out(x) = {}
    BY DEF FollowersOf, FollowedBy
  <2>4. ASSUME NEW x \in Members
        PROVE  /\ Cardinality(FollowersOf(x)') = Cardinality(FollowersOf(x)) - Cardinality(In(x))
               /\ Cardinality(FollowedBy(x)') = Cardinality(FollowedBy(x)) - Cardinality(Out(x))
               /\ Cardinality(In(x)) \in Nat /\ Cardinality(Out(x)) \in Nat
    <3>1. In(x) \in SUBSET FollowersOf(x) /\ Out(x) \in SUBSET FollowedBy(x)
      OBVIOUS
    <3>2. IsFiniteSet(In(x)) /\ IsFiniteSet(Out(x))
      BY <3>1, Degrees, FS_Subset
    <3> HIDE DEF In, Out
    <3>3. IsFiniteSet(FollowersOf(x)) /\ IsFiniteSet(FollowedBy(x))
      BY Degrees
    <3>4. Cardinality(FollowersOf(x) \ In(x)) = Cardinality(FollowersOf(x)) - Cardinality(In(x))
      BY <3>1, <3>3, CutOut
    <3>5. Cardinality(FollowedBy(x) \ Out(x)) = Cardinality(FollowedBy(x)) - Cardinality(Out(x))
      BY <3>1, <3>3, CutOut
    <3>6. Cardinality(In(x)) \in Nat /\ Cardinality(Out(x)) \in Nat
      BY <3>2, FS_CardinalityType
    <3>7. /\ Cardinality(FollowersOf(x)') = Cardinality(FollowersOf(x) \ In(x))
          /\ Cardinality(FollowedBy(x)') = Cardinality(FollowedBy(x) \ Out(x))
      BY <2>2
    <3> QED BY <3>4, <3>5, <3>6, <3>7
  <2>5. \A x \in Members : orphaned[x].in \in Int /\ orphaned[x].out \in Int
    BY DEF FollowsInv, FollowsTypeOK
  <2>6. /\ orphaned' \in [Members -> [in : Int, out : Int]]
        /\ \A x \in Members : /\ orphaned'[x].in = orphaned[x].in + Cardinality(In(x))
                              /\ orphaned'[x].out = orphaned[x].out + Cardinality(Out(x))
    <3> HIDE DEF In, Out
    <3> QED BY <2>1, <2>4, <2>5
  <2>7. FollowsAddUp'
    <3> SUFFICES ASSUME NEW x \in Members \ miscounted
                 PROVE  /\ followers[x] = Cardinality(FollowersOf(x)') + orphaned'[x].in
                        /\ followings[x] = Cardinality(FollowedBy(x)') + orphaned'[x].out
      BY <2>1 DEF FollowsAddUp, counterVars
    <3>1. /\ followers[x] = Cardinality(FollowersOf(x)) + orphaned[x].in
          /\ followings[x] = Cardinality(FollowedBy(x)) + orphaned[x].out
      BY DEF FollowsInv, FollowsAddUp
    <3> HIDE DEF In, Out
    <3> QED BY <2>4, <2>5, <2>6, <3>1, Degrees
  <2>8. \A x \in Members \ Gone : /\ FollowersOf(x)' = FollowersOf(x)
                                  /\ FollowedBy(x)' = FollowedBy(x)
                                  /\ followers'[x] = followers[x] /\ followings'[x] = followings[x]
    <3> HIDE DEF In, Out, Gone
    <3> QED BY <2>1, <2>2, <2>3 DEF counterVars
  <2>9. edges' \subseteq Members \X Members /\ {followers', followings'} \subseteq [Members -> Int]
    BY <2>1 DEF FollowsInv, FollowsTypeOK, counterVars
  <2> HIDE DEF In, Out, Gone
  <2> QED BY <2>1, <2>6, <2>7, <2>8, <2>9, MovesRows
<1>4. CASE CountEdges
  <2>1. UNCHANGED <<edges, counterVars, orphaned, miscounted>>
    BY <1>4 DEF CountEdges
  <2>2. InDegrees \in [Members -> Nat] /\ OutDegrees \in [Members -> Nat]
    BY Degrees DEF InDegrees, OutDegrees
  <2>3. \A x \in Members : /\ InDegrees[x] = Cardinality(FollowersOf(x))
                           /\ OutDegrees[x] = Cardinality(FollowedBy(x))
    BY DEF InDegrees, OutDegrees
  <2>4. FollowsTypeOK' /\ CountedRight'
    <3>1. \/ /\ recount'.at = "out" /\ recount'.in = InDegrees /\ stirred' = {}
          \/ /\ recount'.at = "in" /\ recount'.out = OutDegrees /\ stirred' = {}
          \/ /\ recount.at = "out" /\ recount'.at = "page" /\ recount'.in = recount.in
             /\ recount'.out = OutDegrees /\ stirred' = stirred
          \/ /\ recount.at = "in" /\ recount'.at = "page" /\ recount'.out = recount.out
             /\ recount'.in = InDegrees /\ stirred' = stirred
      BY <1>4 DEF CountEdges, FollowsInv, FollowsTypeOK, Recounts, NoRecount
    <3>2. recount' \in Recounts
      BY <1>4, <2>2 DEF CountEdges, FollowsInv, FollowsTypeOK, Recounts, NoRecount
    <3>3. \A x : FollowersOf(x)' = FollowersOf(x) /\ FollowedBy(x)' = FollowedBy(x)
      BY <2>1 DEF FollowersOf, FollowedBy
    <3>4. FollowsTypeOK'
      <4>1. /\ recount'.at = "idle" <=> recount' = NoRecount
            /\ recount'.at # "write"
        BY <3>1 DEF NoRecount
      <4>2. /\ recount'.at \in {"out", "page", "write"} => recount'.in \in [Members -> Nat]
            /\ recount'.at \in {"in", "page", "write"} => recount'.out \in [Members -> Nat]
        BY <2>2, <3>1 DEF FollowsInv, FollowsTypeOK
      <4> QED BY <2>1, <3>2, <4>1, <4>2 DEF FollowsInv, FollowsTypeOK, counterVars
    <3>5. CountedRight'
      BY <2>3, <3>1, <3>3 DEF FollowsInv, CountedRight
    <3> QED BY <3>4, <3>5
  <2> QED BY <2>1, <2>4 DEF FollowsInv, FollowsAddUp, counterVars, FollowersOf, FollowedBy
<1>5. CASE ReadPage
  <2>1. UNCHANGED <<edges, counterVars, orphaned, miscounted, stirred>>
    BY <1>5 DEF ReadPage
  <2>2. /\ recount.at = "page" /\ recount'.at = "write"
        /\ recount'.in = recount.in /\ recount'.out = recount.out /\ recount'.todo = Members
        /\ recount'.page = [u \in Members |-> <<followers[u], followings[u]>>]
    BY <1>5 DEF ReadPage, FollowsInv, FollowsTypeOK, Recounts
  <2>3. recount'.page \in [Members -> Int \X Int]
    BY <2>2 DEF FollowsInv, FollowsTypeOK
  <2>4. recount' \in Recounts
    BY <1>5, <2>2, <2>3 DEF ReadPage, FollowsInv, FollowsTypeOK, Recounts
  <2>5. FollowsTypeOK'
    <3>1. recount'.at = "idle" <=> recount' = NoRecount
      BY <2>2 DEF NoRecount
    <3>2. recount'.in \in [Members -> Nat] /\ recount'.out \in [Members -> Nat]
      BY <2>2 DEF FollowsInv, FollowsTypeOK
    <3> QED BY <2>1, <2>2, <2>3, <2>4, <3>1, <3>2, FollowsAssumption
            DEF FollowsInv, FollowsTypeOK, counterVars
  <2>6. CountedRight'
    <3>1. \A x : FollowersOf(x)' = FollowersOf(x) /\ FollowedBy(x)' = FollowedBy(x)
      BY <2>1 DEF FollowersOf, FollowedBy
    <3>2. \A x \in Members : recount'.page[x] = <<followers'[x], followings'[x]>>
      BY <2>1, <2>2 DEF counterVars
    <3> QED BY <2>1, <2>2, <3>1, <3>2 DEF FollowsInv, CountedRight
  <2> QED BY <2>1, <2>5, <2>6 DEF FollowsInv, FollowsAddUp, counterVars, FollowersOf, FollowedBy
<1>6. CASE Repair
  <2> DEFINE u == CHOOSE x \in recount.todo : TRUE
             in == recount.in[u]
             out == recount.out[u]
             off == recount.page[u] # <<in, out>>
  <2>1. /\ recount.at = "write" /\ u \in recount.todo /\ u \in Members
        /\ recount.in \in [Members -> Nat] /\ recount.out \in [Members -> Nat]
        /\ in \in Nat /\ out \in Nat
    BY <1>6 DEF Repair, FollowsInv, FollowsTypeOK, Recounts
  <2>2. /\ followers' = IF off THEN [followers EXCEPT ![u] = in] ELSE followers
        /\ followings' = IF off THEN [followings EXCEPT ![u] = out] ELSE followings
        /\ orphaned' = IF u \notin stirred
                       THEN [orphaned EXCEPT ![u] = [in |-> 0, out |-> 0]] ELSE orphaned
        /\ u \notin stirred => miscounted' = miscounted \ {u}
        /\ u \in stirred /\ off => miscounted' = miscounted \cup {u}
        /\ u \in stirred /\ ~off => miscounted' = miscounted
        /\ recount' = IF recount.todo = {u} THEN NoRecount
                      ELSE [recount EXCEPT !.todo = @ \ {u}]
        /\ UNCHANGED <<edges, stirred>>
    <3>1. <<in, out>>[1] = in /\ <<in, out>>[2] = out
      OBVIOUS
    <3> HIDE DEF u
    <3>2. /\ followers' = IF off THEN [followers EXCEPT ![u] = in] ELSE followers
          /\ followings' = IF off THEN [followings EXCEPT ![u] = out] ELSE followings
      BY <1>6, <3>1 DEF Repair, u
    <3>3. /\ u \notin stirred => miscounted' = miscounted \ {u}
          /\ u \in stirred /\ off => miscounted' = miscounted \cup {u}
          /\ u \in stirred /\ ~off => miscounted' = miscounted
      BY <1>6 DEF Repair, u
    <3>4. /\ orphaned' = IF u \notin stirred
                         THEN [orphaned EXCEPT ![u] = [in |-> 0, out |-> 0]] ELSE orphaned
          /\ recount' = IF recount.todo = {u} THEN NoRecount
                        ELSE [recount EXCEPT !.todo = @ \ {u}]
          /\ UNCHANGED <<edges, stirred>>
      BY <1>6 DEF Repair, u
    <3> QED BY <3>2, <3>3, <3>4
  <2> HIDE DEF u
  <2>3. \A x : FollowersOf(x)' = FollowersOf(x) /\ FollowedBy(x)' = FollowedBy(x)
    BY <2>2 DEF FollowersOf, FollowedBy
  <2>4. /\ {followers', followings'} \subseteq [Members -> Int]
        /\ orphaned' \in [Members -> [in : Int, out : Int]]
        /\ \A x \in Members \ {u} : /\ followers'[x] = followers[x]
                                    /\ followings'[x] = followings[x]
                                    /\ orphaned'[x] = orphaned[x]
    <3> HIDE DEF in, out, off
    <3> QED BY <2>1, <2>2 DEF FollowsInv, FollowsTypeOK
  <2>5. \/ recount' = NoRecount
        \/ /\ recount'.at = "write" /\ recount'.todo = recount.todo \ {u} /\ recount'.todo # {}
           /\ recount'.in = recount.in /\ recount'.out = recount.out
           /\ recount'.page = recount.page
    <3>1. CASE recount.todo = {u}
      BY <2>2, <3>1
    <3>2. CASE recount.todo # {u}
      <4>1. recount' = [recount EXCEPT !.todo = @ \ {u}]
        BY <2>2, <3>2
      <4>2. recount \in Recounts /\ recount.todo \ {u} # {}
        BY <2>1, <3>2 DEF FollowsInv, FollowsTypeOK
      <4> HIDE DEF in, out, off
      <4> QED BY <2>1, <4>1, <4>2 DEF Recounts
    <3> QED BY <3>1, <3>2
  <2>6. recount' \in Recounts
    BY <2>1, <2>2 DEF FollowsInv, FollowsTypeOK, Recounts, NoRecount
  <2>7. FollowsTypeOK'
    <3>1. edges' \subseteq Members \X Members
      BY <2>2 DEF FollowsInv, FollowsTypeOK
    <3>2. NoRecount.at = "idle"
      BY DEF NoRecount
    <3>3. /\ recount'.at = "idle" <=> recount' = NoRecount
          /\ recount'.at \in {"out", "page", "write"} => recount'.in \in [Members -> Nat]
          /\ recount'.at \in {"in", "page", "write"} => recount'.out \in [Members -> Nat]
          /\ recount'.at = "write" =>
               recount'.page \in [Members -> Int \X Int] /\ recount'.todo # {}
      <4> HIDE DEF in, out, off
      <4> QED BY <2>1, <2>5, <3>2 DEF FollowsInv, FollowsTypeOK
    <3> HIDE DEF in, out, off
    <3> QED BY <2>4, <2>6, <3>1, <3>3 DEF FollowsTypeOK
  <2>8. CountedRight'
    BY <2>1, <2>2, <2>3, <2>4, <2>5 DEF FollowsInv, CountedRight, NoRecount
  <2>9. ASSUME u \notin miscounted'
        PROVE  /\ followers'[u] = Cardinality(FollowersOf(u)) + orphaned'[u].in
               /\ followings'[u] = Cardinality(FollowedBy(u)) + orphaned'[u].out
    <3>1. CASE u \notin stirred
      <4>1. /\ in = Cardinality(FollowersOf(u)) /\ out = Cardinality(FollowedBy(u))
            /\ recount.page[u] = <<followers[u], followings[u]>>
        BY <2>1, <3>1 DEF FollowsInv, CountedRight
      <4>2. followers'[u] = in /\ followings'[u] = out
        BY <2>1, <2>2, <4>1 DEF FollowsInv, FollowsTypeOK
      <4>3. orphaned'[u] = [in |-> 0, out |-> 0]
        BY <2>1, <2>2, <3>1 DEF FollowsInv, FollowsTypeOK
      <4> QED BY <2>1, <4>1, <4>2, <4>3
    <3>2. CASE u \in stirred
      <4>1. ~off /\ u \notin miscounted
        BY <2>2, <2>9, <3>2
      <4> QED BY <2>1, <2>2, <3>2, <4>1 DEF FollowsInv, FollowsAddUp
    <3> QED BY <3>1, <3>2
  <2>10. FollowsAddUp'
    <3> SUFFICES ASSUME NEW x \in Members \ miscounted'
                 PROVE  /\ followers'[x] = Cardinality(FollowersOf(x)') + orphaned'[x].in
                        /\ followings'[x] = Cardinality(FollowedBy(x)') + orphaned'[x].out
      BY DEF FollowsAddUp
    <3>1. CASE x = u
      BY <2>3, <2>9, <3>1
    <3>2. CASE x # u
      <4>1. x \notin miscounted
        BY <2>2, <3>2
      <4> QED BY <2>3, <2>4, <3>2, <4>1 DEF FollowsInv, FollowsAddUp
    <3> QED BY <3>1, <3>2
  <2> QED BY <2>7, <2>8, <2>10 DEF FollowsInv
<1>7. ASSUME UNCHANGED <<edges, counterVars, recount, orphaned, stirred, miscounted>>
      PROVE  FollowsInv'
  <2>1. FollowsTypeOK'
    BY <1>7 DEF FollowsInv, FollowsTypeOK, counterVars
  <2>2. \A x : FollowersOf(x)' = FollowersOf(x) /\ FollowedBy(x)' = FollowedBy(x)
    BY <1>7 DEF FollowersOf, FollowedBy
  <2>3. CountedRight' /\ FollowsAddUp'
    BY <1>7, <2>2 DEF FollowsInv, CountedRight, FollowsAddUp, counterVars
  <2> QED BY <2>1, <2>3 DEF FollowsInv
<1>8. ASSUME NEW u \in Members, DeleteMember(u) PROVE FollowsInv'
  BY <1>7, <1>8 DEF DeleteMember
<1>9. CASE UNCHANGED followVars
  BY <1>7, <1>9 DEF followVars, counterVars
<1> QED BY <1>1, <1>2, <1>3, <1>4, <1>5, <1>6, <1>8, <1>9 DEF FollowsNext

-----------------------------------------------------------------------------
(* PIX keys: a request that is alone finds what it read when it commits.   *)

Requests == [call : {"none", "create", "delete", "default"}, key : PixKeys \cup {"none"},
             at : {"idle", "reads", "commit"}, marked : BOOLEAN,
             was : SUBSET PixKeys, next : SUBSET PixKeys]

\* What a request that is alone has read is still so.
StillSo(f) ==
  /\ form[f].call = "create" =>
       /\ form[f].key \notin Saved /\ Len(saved) < MaxMethods
       /\ saved = <<>> => form[f].marked
  /\ form[f].call = "delete" => form[f].marked = (form[f].key \in default)
  /\ form[f].call = "default" => form[f].marked
  /\ form[f].at = "commit" => form[f].was = Demoted(f) /\ form[f].next = Promoted(f)

MethodsInv ==
  /\ saved \in Seq(PixKeys)
  /\ \A i, j \in DOMAIN saved : saved[i] = saved[j] => i = j
  /\ form \in [Forms -> Requests]
  /\ \A f \in Forms : /\ form[f].at = "idle" <=> form[f] = Blank
                      /\ form[f].key \notin form[f].next
                      /\ form[f] # Blank => form[f].key \in PixKeys
  /\ default \subseteq Saved
  /\ saved # <<>> /\ ~askew => \E k \in default : default = {k}
  /\ beyond \/ Len(saved) <= MaxMethods
  /\ closed => saved = <<>> \/ outlived
  /\ closed => outlived \/ \A f \in Underway : form[f].call # "create"
  /\ \A f \in Underway \ together : Underway = {f} /\ ~closed /\ StillSo(f)

\* The rows without one of them.
LEMMA OthersAre ==
  ASSUME saved \in Seq(PixKeys), \A i, j \in DOMAIN saved : saved[i] = saved[j] => i = j, NEW k
  PROVE  /\ OtherMethods(k) \in Seq(PixKeys)
         /\ \A i, j \in DOMAIN OtherMethods(k) : OtherMethods(k)[i] = OtherMethods(k)[j] => i = j
         /\ ToSet(OtherMethods(k)) = Saved \ {k}
         /\ Len(OtherMethods(k)) <= Len(saved)
         /\ OtherMethods(k) # <<>> => OtherMethods(k)[Len(OtherMethods(k))] \in Saved \ {k}
<1>1. CASE k \notin Saved
  <2>1. OtherMethods(k) = saved
    BY <1>1 DEF OtherMethods
  <2> QED BY <1>1, <2>1 DEF Saved, ToSet
<1>2. CASE k \in Saved
  <2>1. PICK at \in DOMAIN saved :
          /\ saved[at] = k
          /\ OtherMethods(k) = [i \in 1 .. Len(saved) - 1 |-> saved[IF i < at THEN i ELSE i + 1]]
    BY <1>2 DEF OtherMethods, Saved, ToSet
  <2> DEFINE n == Len(saved)
             others == [i \in 1 .. n - 1 |-> saved[IF i < at THEN i ELSE i + 1]]
  <2>2. /\ n \in Nat \ {0} /\ at \in 1 .. n /\ DOMAIN saved = 1 .. n
        /\ \A i \in 1 .. n : saved[i] \in PixKeys
    BY <2>1
  <2>3. \A i \in 1 .. n - 1 : others[i] = saved[IF i < at THEN i ELSE i + 1]
    OBVIOUS
  <2>4. \A i \in 1 .. n - 1 : (IF i < at THEN i ELSE i + 1) \in (1 .. n) \ {at}
    BY <2>2
  <2>5. others \in [1 .. n - 1 -> PixKeys]
    BY <2>2, <2>4
  <2>6. others \in Seq(PixKeys) /\ Len(others) = n - 1 /\ DOMAIN others = 1 .. n - 1
    BY <2>2, <2>5
  <2>7. \A i, j \in 1 .. n - 1 : others[i] = others[j] => i = j
    <3> SUFFICES ASSUME NEW i \in 1 .. n - 1, NEW j \in 1 .. n - 1, others[i] = others[j]
                 PROVE  i = j
      OBVIOUS
    <3>1. (IF i < at THEN i ELSE i + 1) = (IF j < at THEN j ELSE j + 1)
      BY <2>2, <2>3, <2>4
    <3> QED BY <3>1, <2>2
  <2>8. {others[i] : i \in 1 .. n - 1} = Saved \ {k}
    <3>1. ASSUME NEW i \in 1 .. n - 1 PROVE others[i] \in Saved \ {k}
      <4>1. (IF i < at THEN i ELSE i + 1) \in (1 .. n) \ {at}
        BY <2>4
      <4>2. \A j \in (1 .. n) \ {at} : saved[j] \in Saved /\ saved[j] # k
        BY <2>1, <2>2 DEF Saved, ToSet
      <4> QED BY <2>3, <4>1, <4>2
    <3>2. ASSUME NEW x \in Saved \ {k} PROVE \E i \in 1 .. n - 1 : others[i] = x
      <4>1. PICK j \in 1 .. n : saved[j] = x /\ j # at
        BY <2>1, <2>2 DEF Saved, ToSet
      <4>2. CASE j < at
        BY <2>2, <2>3, <4>1, <4>2
      <4>3. CASE j > at
        <5>1. j - 1 \in 1 .. n - 1 /\ ~(j - 1 < at) /\ (j - 1) + 1 = j
          BY <2>2, <4>3
        <5> QED BY <2>3, <4>1, <5>1
      <4> QED BY <2>2, <4>1, <4>2, <4>3
    <3> HIDE DEF others
    <3> QED BY <3>1, <3>2
  <2> HIDE DEF others
  <2>9. OtherMethods(k) = others
    BY <2>1 DEF others
  <2>10. others # <<>> => n - 1 \in 1 .. n - 1
    BY <2>2, <2>6
  <2>11. \A i \in 1 .. n - 1 : others[i] \in Saved \ {k}
    BY <2>8
  <2>12. ToSet(others) = Saved \ {k}
    BY <2>6, <2>8 DEF ToSet
  <2>13. /\ others \in Seq(PixKeys) /\ Len(others) <= Len(saved)
         /\ \A i, j \in DOMAIN others : others[i] = others[j] => i = j
         /\ others # <<>> => others[Len(others)] \in Saved \ {k}
    BY <2>2, <2>6, <2>7, <2>10, <2>11
  <2> HIDE DEF n
  <2> QED BY <2>9, <2>12, <2>13
<1> QED BY <1>1, <1>2

\* No key is saved at first.
THEOREM MethodsFirst == MethodsInit => MethodsInv
<1> SUFFICES ASSUME MethodsInit PROVE MethodsInv
  OBVIOUS
<1>1. /\ form \in [Forms -> Requests]
      /\ \A f \in Forms : form[f] = Blank /\ form[f].at = "idle" /\ form[f].next = {}
  BY DEF MethodsInit, Blank, Requests
<1>2. Underway = {}
  BY <1>1 DEF Underway
<1>3. saved = <<>> /\ Len(saved) = 0 /\ Saved = {}
  BY DEF MethodsInit, Saved, ToSet
<1> QED BY <1>1, <1>2, <1>3, PayoutMethodsAssumption DEF MethodsInit, MethodsInv

\* What a request would demote and promote are saved keys, and not its own.
LEMMA ReadsSaved ==
  ASSUME MethodsInv, NEW f \in Forms
  PROVE  /\ Demoted(f) \subseteq Saved \ {form[f].key}
         /\ Promoted(f) \subseteq Saved \ {form[f].key}
         /\ Saved \subseteq PixKeys
<1>1. Demoted(f) \subseteq Saved \ {form[f].key}
  BY DEF Demoted, MethodsInv
<1>2. Promoted(f) \subseteq Saved \ {form[f].key}
  BY OthersAre DEF Promoted, Last, MethodsInv
<1>3. Saved \subseteq PixKeys
  BY DEF Saved, ToSet, MethodsInv
<1> QED BY <1>1, <1>2, <1>3

\* What is read of the rows is the same if they, and the request, are.
LEMMA SameReads ==
  ASSUME NEW f \in Forms, UNCHANGED <<saved, default>>,
         form'[f].call = form[f].call, form'[f].key = form[f].key,
         form'[f].marked = form[f].marked
  PROVE  Demoted(f)' = Demoted(f) /\ Promoted(f)' = Promoted(f) /\ Saved' = Saved
BY DEF Demoted, Promoted, OtherMethods, Saved

\* A step that blanks a request, and whose rows are as they should be.
LEMMA EndsRequest ==
  ASSUME MethodsInv, NEW f \in Forms, form' = [form EXCEPT ![f] = Blank], form[f] # Blank,
         together' = together, closed' = closed, outlived' = outlived,
         saved' \in Seq(PixKeys),
         \A i, j \in DOMAIN saved' : saved'[i] = saved'[j] => i = j,
         default' \subseteq Saved',
         saved' # <<>> /\ ~askew' => \E k \in default' : default' = {k},
         beyond' \/ Len(saved') <= MaxMethods,
         closed => saved' = <<>> \/ outlived
  PROVE  MethodsInv'
<1>1. /\ form'[f] = Blank /\ \A g \in Forms \ {f} : form'[g] = form[g]
      /\ form' \in [Forms -> Requests]
  BY DEF MethodsInv, Blank, Requests
<1>2. /\ \A g \in Forms : /\ form'[g].at = "idle" <=> form'[g] = Blank
                          /\ form'[g].key \notin form'[g].next
                          /\ form'[g] # Blank => form'[g].key \in PixKeys
      /\ Blank.call = "none"
  BY <1>1 DEF MethodsInv, Blank
<1>3. Underway' = Underway \ {f} /\ f \in Underway
  BY <1>1 DEF Underway
<1>4. \A g \in Underway' \ together' : FALSE
  BY <1>3 DEF MethodsInv
<1>5. closed => outlived \/ \A g \in Underway' : form'[g].call # "create"
  BY <1>1, <1>3 DEF MethodsInv
<1> QED BY <1>1, <1>2, <1>4, <1>5 DEF MethodsInv

\* A request starts: alone, or in the company of all that are under way.
LEMMA StartsRequest ==
  ASSUME MethodsInv, NEW f \in Forms, NEW call \in {"create", "delete", "default"},
         NEW k \in PixKeys, NEW marked \in BOOLEAN, Start(f, call, k, marked),
         call = "create" =>
           k \notin Saved /\ Len(saved) < MaxMethods /\ (saved = <<>> => marked),
         call = "delete" => marked = (k \in default),
         call = "default" => marked
  PROVE  MethodsInv'
<1> DEFINE new == [call |-> call, key |-> k, at |-> "reads", marked |-> marked,
                   was |-> {}, next |-> {}]
<1>1. /\ form[f] = Blank /\ ~closed /\ form' = [form EXCEPT ![f] = new]
      /\ together' = IF Underway = {} THEN together \ {f} ELSE together \cup Underway \cup {f}
      /\ UNCHANGED <<saved, default, closed, askew, beyond, outlived>>
  BY DEF Start, methodRows
<1>2. new \in Requests /\ new.at = "reads" /\ new.next = {} /\ new # Blank
  BY DEF Requests, Blank
<1>3. /\ form'[f] = new /\ \A g \in Forms \ {f} : form'[g] = form[g]
      /\ form' \in [Forms -> Requests]
  <2> HIDE DEF new
  <2> QED BY <1>1, <1>2 DEF MethodsInv
<1>4. Underway' = Underway \cup {f} /\ f \notin Underway
  BY <1>1, <1>2, <1>3 DEF Underway
<1>5. Saved' = Saved
  BY <1>1 DEF Saved
<1>6. ASSUME NEW g \in Underway' \ together'
      PROVE  Underway' = {g} /\ StillSo(g)'
  <2>1. Underway = {} /\ g = f
    BY <1>1, <1>4, <1>6
  <2>2. StillSo(f)'
    BY <1>1, <1>3, <1>5 DEF StillSo
  <2> QED BY <1>4, <2>1, <2>2
<1>7. \A g \in Forms : /\ form'[g].at = "idle" <=> form'[g] = Blank
                       /\ form'[g].key \notin form'[g].next
                       /\ form'[g] # Blank => form'[g].key \in PixKeys
  <2>1. new.key = k
    OBVIOUS
  <2> HIDE DEF new
  <2> QED BY <2>1, <1>2, <1>3 DEF MethodsInv
<1> HIDE DEF new
<1> QED BY <1>1, <1>3, <1>5, <1>6, <1>7 DEF MethodsInv

\* Every step of the requests and of the deletion of the account keeps the keys.
THEOREM MethodsKeptOn == MethodsInv /\ [MethodsNext]_methodVars => MethodsInv'
<1> SUFFICES ASSUME MethodsInv, [MethodsNext]_methodVars PROVE MethodsInv'
  OBVIOUS
<1> USE PayoutMethodsAssumption
<1>1. ASSUME NEW f \in Forms, NEW k \in PixKeys, NEW asked \in BOOLEAN, BeginCreate(f, k, asked)
      PROVE  MethodsInv'
  <2>1. (asked \/ saved = <<>>) \in BOOLEAN
    OBVIOUS
  <2> QED BY <1>1, <2>1, StartsRequest DEF BeginCreate
<1>2. ASSUME NEW f \in Forms, NEW k \in PixKeys, BeginDeleteMethod(f, k)
      PROVE  MethodsInv'
  <2>1. (k \in default) \in BOOLEAN
    OBVIOUS
  <2> QED BY <1>2, <2>1, StartsRequest DEF BeginDeleteMethod
<1>3. ASSUME NEW f \in Forms, NEW k \in PixKeys, BeginSetDefault(f, k)
      PROVE  MethodsInv'
  BY <1>3, StartsRequest DEF BeginSetDefault
<1>4. ASSUME NEW f \in Forms, FindRows(f) PROVE MethodsInv'
  <2>1. /\ form[f].at = "reads" /\ form[f] # Blank
        /\ form' = [form EXCEPT ![f].at = "commit", ![f].was = Demoted(f),
                                ![f].next = Promoted(f)]
        /\ UNCHANGED <<saved, default, closed, together, askew, beyond, outlived>>
    BY <1>4 DEF FindRows, methodRows, methodGhosts, MethodsInv
  <2>2. /\ form'[f].at = "commit" /\ form'[f].was = Demoted(f) /\ form'[f].next = Promoted(f)
        /\ form'[f].call = form[f].call /\ form'[f].key = form[f].key
        /\ form'[f].marked = form[f].marked
        /\ \A g \in Forms \ {f} : form'[g] = form[g]
    BY <2>1 DEF MethodsInv, Requests
  <2>3. form' \in [Forms -> Requests]
    <3>1. Demoted(f) \in SUBSET PixKeys /\ Promoted(f) \in SUBSET PixKeys
      BY ReadsSaved
    <3> DEFINE new == [[[form[f] EXCEPT !.at = "commit"] EXCEPT !.was = Demoted(f)]
                         EXCEPT !.next = Promoted(f)]
    <3>2. form[f] \in Requests /\ form \in [Forms -> Requests]
      BY DEF MethodsInv
    <3>3. new \in Requests
      BY <3>1, <3>2 DEF Requests
    <3>4. form' = [form EXCEPT ![f] = new]
      BY <2>1, <3>2
    <3> HIDE DEF new
    <3> QED BY <3>2, <3>3, <3>4
  <2>4. /\ Demoted(f)' = Demoted(f) /\ Promoted(f)' = Promoted(f) /\ Saved' = Saved
    BY <2>1, <2>2, SameReads
  <2>a. form'[f] # Blank /\ Blank.at = "idle"
    BY <2>2 DEF Blank
  <2>5. Underway' = Underway
    BY <2>1, <2>2, <2>a DEF Underway
  <2>6. \A g \in Forms : /\ form'[g].at = "idle" <=> form'[g] = Blank
                         /\ form'[g].key \notin form'[g].next
                         /\ form'[g] # Blank => form'[g].key \in PixKeys
    BY <2>1, <2>2, <2>a, ReadsSaved DEF MethodsInv
  <2>7. ASSUME NEW g \in Underway' \ together'
        PROVE  Underway' = {g} /\ ~closed' /\ StillSo(g)'
    <3>1. Underway = {g} /\ ~closed /\ StillSo(g) /\ g \in Forms
      BY <2>1, <2>5, <2>7 DEF MethodsInv, Underway
    <3>2. f \in Underway
      BY <2>1 DEF Underway
    <3>3. g = f
      BY <3>1, <3>2
    <3>4. StillSo(f)'
      BY <2>1, <2>2, <2>4, <3>1, <3>3 DEF StillSo
    <3> QED BY <2>1, <2>5, <3>1, <3>3, <3>4
  <2>8. closed' => outlived' \/ \A g \in Underway' : form'[g].call # "create"
    BY <2>1, <2>2, <2>5 DEF MethodsInv, Underway
  <2> QED BY <2>1, <2>3, <2>4, <2>6, <2>7, <2>8 DEF MethodsInv
<1>5. ASSUME NEW f \in Forms, Commit(f) PROVE MethodsInv'
  <2>1. /\ form[f].at = "commit" /\ form[f] # Blank
        /\ form' = [form EXCEPT ![f] = Blank]
        /\ UNCHANGED <<closed, together, outlived>>
        /\ beyond' = (beyond \/ (form[f].call = "create" /\ f \in together))
        /\ f \in together => askew'
        /\ f \notin together /\ form[f].call # "delete" /\ form[f].marked => ~askew'
        /\ f \notin together /\ (form[f].call = "delete" \/ ~form[f].marked) => askew' = askew
    BY <1>5 DEF Commit, MethodsInv, Blank
  <2>2. f \notin together => /\ Underway = {f} /\ ~closed /\ StillSo(f)
                             /\ form[f].was = Demoted(f) /\ form[f].next = Promoted(f)
    BY <2>1 DEF MethodsInv, Underway, StillSo
  <2>3. form[f] \in Requests /\ form[f].key \notin form[f].next
    BY DEF MethodsInv
  <2>4. CASE CommitsCreate(f)
    <3>1. /\ form[f].call = "create" /\ form[f].key \notin Saved
          /\ saved' = Append(saved, form[f].key)
          /\ default' = (default \ form[f].was) \cup
                          (IF form[f].marked THEN {form[f].key} ELSE {})
      BY <2>4 DEF CommitsCreate
    <3>2. /\ saved' \in Seq(PixKeys) /\ Len(saved') = Len(saved) + 1 /\ saved' # <<>>
          /\ \A i \in DOMAIN saved : saved'[i] = saved[i]
          /\ saved'[Len(saved')] = form[f].key
          /\ DOMAIN saved' = 1 .. Len(saved) + 1 /\ DOMAIN saved = 1 .. Len(saved)
          /\ Len(saved) \in Nat
      <4>1. form[f].key \in PixKeys
        BY <2>1 DEF MethodsInv
      <4> QED BY <3>1, <4>1 DEF MethodsInv
    <3>3. Saved' = Saved \cup {form[f].key}
      BY <3>2 DEF Saved, ToSet
    <3>4. \A i, j \in DOMAIN saved' : saved'[i] = saved'[j] => i = j
      BY <3>1, <3>2 DEF MethodsInv, Saved, ToSet
    <3>5. default' \subseteq Saved'
      BY <3>1, <3>3 DEF MethodsInv
    <3>6. ASSUME ~askew' PROVE \E k \in default' : default' = {k}
      <4>1. CASE form[f].marked
        <5>1. form[f].was = default \ {form[f].key}
          BY <2>1, <2>2, <3>1, <3>6, <4>1 DEF Demoted
        <5>2. default' = {form[f].key}
          BY <3>1, <4>1, <5>1
        <5> QED BY <5>2
      <4>2. CASE ~form[f].marked
        <5>1. form[f].was = {} /\ saved # <<>> /\ ~askew
          BY <2>1, <2>2, <3>1, <3>6, <4>2 DEF Demoted, StillSo
        <5> QED BY <3>1, <4>2, <5>1 DEF MethodsInv
      <4> QED BY <4>1, <4>2
    <3>7. beyond' \/ Len(saved') <= MaxMethods
      <4>1. CASE f \in together
        BY <2>1, <3>1, <4>1
      <4>2. CASE f \notin together
        BY <2>2, <3>1, <3>2, <4>2 DEF StillSo
      <4> QED BY <4>1, <4>2
    <3>8. closed => outlived
      BY <2>1, <3>1 DEF MethodsInv, Underway
    <3> QED BY <2>1, <3>2, <3>4, <3>5, <3>6, <3>7, <3>8, EndsRequest
  <2>5. CASE CommitsDelete(f)
    <3>1. /\ form[f].call = "delete" /\ {form[f].key} \cup form[f].next \subseteq Saved
          /\ saved' = OtherMethods(form[f].key)
          /\ default' = (default \ {form[f].key}) \cup form[f].next
      BY <2>5 DEF CommitsDelete
    <3>2. /\ saved' \in Seq(PixKeys) /\ ToSet(saved') = Saved \ {form[f].key}
          /\ Len(saved') <= Len(saved)
          /\ \A i, j \in DOMAIN saved' : saved'[i] = saved'[j] => i = j
      BY <3>1, OthersAre DEF MethodsInv
    <3>3. Saved' = Saved \ {form[f].key}
      BY <3>2 DEF Saved
    <3>4. default' \subseteq Saved'
      BY <2>3, <3>1, <3>3 DEF MethodsInv
    <3>5. saved # <<>>
      BY <3>1 DEF Saved, ToSet
    <3>6. ASSUME ~askew', saved' # <<>> PROVE \E k \in default' : default' = {k}
      <4>1. /\ ~askew /\ f \notin together /\ form[f].next = Promoted(f)
            /\ form[f].marked = (form[f].key \in default)
        BY <2>1, <2>2, <3>1, <3>6 DEF StillSo
      <4>2. PICK k : default = {k}
        BY <3>5, <4>1 DEF MethodsInv
      <4>3. CASE form[f].key = k
        <5>1. \E l : form[f].next = {l}
          BY <3>1, <3>6, <4>1, <4>2, <4>3 DEF Promoted
        <5> QED BY <3>1, <4>2, <4>3, <5>1
      <4>4. CASE form[f].key # k
        <5>1. form[f].next = {}
          BY <3>1, <4>1, <4>2, <4>4 DEF Promoted
        <5> QED BY <3>1, <4>2, <4>4, <5>1
      <4> QED BY <4>3, <4>4
    <3>7. Len(saved') \in Nat /\ Len(saved) \in Nat /\ (beyond \/ Len(saved) <= MaxMethods)
      BY <3>2 DEF MethodsInv
    <3>8. closed => outlived
      BY <3>5 DEF MethodsInv
    <3>9. beyond' \/ Len(saved') <= MaxMethods
      <4>1. beyond => beyond'
        BY <2>1
      <4> QED BY <3>2, <3>7, <4>1
    <3> QED BY <2>1, <3>2, <3>4, <3>6, <3>8, <3>9, EndsRequest
  <2>6. CASE CommitsDefault(f)
    <3>1. /\ form[f].call = "default" /\ form[f].key \in Saved
          /\ default' = (default \ form[f].was) \cup {form[f].key} /\ saved' = saved
      BY <2>6 DEF CommitsDefault
    <3>2. Saved' = Saved
      BY <3>1 DEF Saved
    <3>3. default' \subseteq Saved'
      BY <3>1, <3>2 DEF MethodsInv
    <3>4. ASSUME ~askew' PROVE \E k \in default' : default' = {k}
      <4>1. form[f].marked /\ form[f].was = Demoted(f)
        BY <2>1, <2>2, <3>1, <3>4 DEF StillSo
      <4>2. form[f].was = default \ {form[f].key}
        BY <3>1, <4>1 DEF Demoted
      <4>3. default' = {form[f].key}
        BY <3>1, <4>2
      <4> QED BY <4>3
    <3>5. beyond' \/ Len(saved') <= MaxMethods
      BY <2>1, <3>1 DEF MethodsInv
    <3> QED BY <2>1, <3>1, <3>3, <3>4, <3>5, EndsRequest DEF MethodsInv
  <2> QED BY <1>5, <2>4, <2>5, <2>6 DEF Commit
<1>6. ASSUME NEW f \in Forms, RollBack(f) PROVE MethodsInv'
  <2>1. /\ form[f] # Blank /\ form' = [form EXCEPT ![f] = Blank]
        /\ UNCHANGED <<saved, default, closed, together, askew, beyond, outlived>>
    BY <1>6 DEF RollBack, methodRows, methodGhosts
  <2>2. Saved' = Saved
    BY <2>1 DEF Saved
  <2> QED BY <2>1, <2>2, EndsRequest DEF MethodsInv
<1>7. CASE CloseAccount
  <2>1. /\ closed' /\ saved' = <<>> /\ default' = {} /\ together' = together \cup Underway
        /\ outlived' = \E f \in Underway : form[f].call = "create"
        /\ UNCHANGED <<form, askew, beyond>>
    BY <1>7 DEF CloseAccount
  <2>2. Underway' = Underway
    BY <2>1 DEF Underway
  <2>3. Len(saved') = 0 /\ saved' \in Seq(PixKeys) /\ Saved' = {} /\ DOMAIN saved' = {}
    BY <2>1 DEF Saved, ToSet
  <2>4. closed' => outlived' \/ \A f \in Underway' : form'[f].call # "create"
    BY <2>1, <2>2
  <2> QED BY <2>1, <2>2, <2>3, <2>4 DEF MethodsInv
<1>8. CASE SweepMethods
  <2>1. /\ closed /\ Underway = {} /\ saved' = <<>> /\ default' = {}
        /\ UNCHANGED <<form, closed, together, askew, beyond>>
    BY <1>8 DEF SweepMethods
  <2>2. Underway' = {}
    BY <2>1 DEF Underway
  <2>3. Len(saved') = 0 /\ saved' \in Seq(PixKeys) /\ Saved' = {} /\ DOMAIN saved' = {}
    BY <2>1 DEF Saved, ToSet
  <2> QED BY <2>1, <2>2, <2>3 DEF MethodsInv
<1>9. CASE UNCHANGED methodVars
  <2>1. UNCHANGED <<saved, default, form, closed, together, askew, beyond, outlived>>
    BY <1>9 DEF methodVars
  <2>2. Saved' = Saved /\ Underway' = Underway
    BY <2>1 DEF Saved, Underway
  <2>3. \A f \in Forms : StillSo(f)' = StillSo(f)
    BY <2>1, <2>2, SameReads DEF StillSo
  <2>4. Underway \subseteq Forms
    BY DEF Underway
  <2> QED BY <2>1, <2>2, <2>3, <2>4 DEF MethodsInv
<1> QED BY <1>1, <1>2, <1>3, <1>4, <1>5, <1>6, <1>7, <1>8, <1>9 DEF MethodsNext

-----------------------------------------------------------------------------
(* The index: the outcome of the look that is the newest is current.       *)

SweepKinds == {"none", "stale", "cleanup", "leave", "return", "ban", "close", "reindex"}
Syncs == [at : {"idle", "asked", "sent"}, doc : Nat, look : Nat]

SearchTypeOK ==
  /\ edit \in Nat \ {0} /\ {looks, latest, repair, indexed} \subseteq Nat
  /\ sync \in [SyncJobs -> Syncs]
  /\ \A s \in SyncJobs : /\ sync[s].at = "idle" <=> sync[s] = Quiet
                         /\ sync[s].look <= looks
  /\ latest <= looks /\ repair <= looks + 1
  /\ sweep \in [kind : SweepKinds, has : BOOLEAN, doc : Nat, look : Nat]
  /\ sweep.kind = "reindex" => sweep.look <= looks

\* Nothing that was applied, or is on its way, has looked later.
Newest(l) == latest <= l /\ \A s \in SyncJobs : sync[s].at = "sent" => sync[s].look <= l

\* Unless a sync is yet to look: what the newest look found is what belongs in
\* the index, if nothing was lost since.
NewestIsCurrent ==
  (\A s \in SyncJobs : sync[s].at # "asked") =>
    /\ Newest(latest) /\ latest >= repair => indexed = Document
    /\ \A s \in SyncJobs :
         sync[s].at = "sent" /\ Newest(sync[s].look) /\ sync[s].look >= repair =>
           sync[s].doc = Document
    /\ sweep.kind = "reindex" /\ sweep.has /\ Newest(sweep.look) /\ sweep.look >= repair =>
         sweep.doc = Document

SearchInv == SearchTypeOK /\ NewestIsCurrent

\* What belongs in the index is a version, or none.
LEMMA DocumentType == ASSUME SearchInv PROVE Document \in Nat
BY DEF SearchInv, SearchTypeOK, Document

\* With all syncs through and nothing to repair, the last look was the newest.
THEOREM SearchFollows == SearchInv => IndexFollows
<1> SUFFICES ASSUME SearchInv, Syncing = {}, repair = 0 PROVE FromIndex = FromDatabase
  BY DEF IndexFollows
<1>1. \A s \in SyncJobs : sync[s].at = "idle"
  BY DEF Syncing, SearchInv, SearchTypeOK
<1>2. latest >= repair /\ Newest(latest)
  BY <1>1 DEF Newest, SearchInv, SearchTypeOK
<1>3. indexed = Document
  BY <1>1, <1>2 DEF SearchInv, NewestIsCurrent
<1> QED BY <1>3 DEF FromIndex, FromDatabase, Document, SearchInv, SearchTypeOK

\* The listing is in the index as it is, at first.
THEOREM SearchFirst == SearchInit => SearchInv
<1> SUFFICES ASSUME SearchInit PROVE SearchInv
  OBVIOUS
<1>1. SearchTypeOK
  BY DEF SearchInit, SearchTypeOK, Syncs, Quiet, NoSweep, SweepKinds
<1>2. NewestIsCurrent
  BY DEF SearchInit, NewestIsCurrent, Quiet, NoSweep, Document
<1> QED BY <1>1, <1>2 DEF SearchInv

\* A step after which a sync is yet to look.
LEMMA AsksAgain ==
  ASSUME SearchInv, NEW s \in SyncJobs, sync[s] = Quiet, NEW status, SyncAfter(s, status),
         edit' \in Nat \ {0}, UNCHANGED <<indexState, looks>>,
         repair' \in Nat, repair' <= looks + 1, sweep' = sweep \/ sweep' = NoSweep
  PROVE  SearchInv'
<1> DEFINE new == [Quiet EXCEPT !.at = "asked"]
<1>1. new \in Syncs /\ new.at = "asked" /\ new.look = 0 /\ new # Quiet
  BY DEF Syncs, Quiet
<1>2. sync' = [sync EXCEPT ![s] = new]
  BY DEF SyncAfter
<1> HIDE DEF new
<1>3. /\ sync'[s] = new /\ \A t \in SyncJobs \ {s} : sync'[t] = sync[t]
      /\ sync' \in [SyncJobs -> Syncs]
  BY <1>1, <1>2 DEF SearchInv, SearchTypeOK
<1>4. SearchTypeOK'
  <2>1. /\ sweep' \in [kind : SweepKinds,
                       has : BOOLEAN, doc : Nat, look : Nat]
        /\ sweep'.kind = "reindex" => sweep'.look <= looks
    <3>1. /\ NoSweep \in [kind : SweepKinds,
                          has : BOOLEAN, doc : Nat, look : Nat]
          /\ NoSweep.kind = "none"
      BY DEF NoSweep, SweepKinds
    <3> QED BY <3>1 DEF SearchInv, SearchTypeOK
  <2>2. \A t \in SyncJobs : /\ sync'[t].at = "idle" <=> sync'[t] = Quiet
                            /\ sync'[t].look <= looks
    BY <1>1, <1>3 DEF SearchInv, SearchTypeOK, Quiet, Syncs
  <2>3. {looks', latest', repair', indexed'} \subseteq Nat /\ latest' <= looks' /\ repair' <= looks' + 1
    BY DEF SearchInv, SearchTypeOK, indexState
  <2> QED BY <1>3, <2>1, <2>2, <2>3 DEF SearchInv, SearchTypeOK
<1>5. NewestIsCurrent'
  BY <1>1, <1>3 DEF NewestIsCurrent
<1> QED BY <1>4, <1>5 DEF SearchInv

\* A step that sends what belongs in the index, looked up last.
LEMMA LooksLast ==
  ASSUME SearchInv, NEW s \in SyncJobs, looks' = looks + 1,
         sync' = [sync EXCEPT ![s] = [at |-> "sent", doc |-> Document', look |-> looks + 1]],
         UNCHANGED <<edit, indexState, repair>>, sweep' = sweep \/ sweep' = NoSweep
  PROVE  SearchInv'
<1> DEFINE new == [at |-> "sent", doc |-> Document', look |-> looks + 1]
<1>1. Document' \in Nat /\ looks \in Nat
  BY DEF SearchInv, SearchTypeOK, Document
<1>2. new \in Syncs /\ new.at = "sent" /\ new.doc = Document' /\ new.look = looks + 1 /\ new # Quiet
  BY <1>1 DEF Syncs, Quiet
<1> HIDE DEF new
<1>3. /\ sync'[s] = new /\ \A t \in SyncJobs \ {s} : sync'[t] = sync[t]
      /\ sync' \in [SyncJobs -> Syncs]
  BY <1>2 DEF SearchInv, SearchTypeOK, new
<1>4. SearchTypeOK'
  <2>1. /\ sweep' \in [kind : SweepKinds,
                       has : BOOLEAN, doc : Nat, look : Nat]
        /\ sweep'.kind = "reindex" => sweep'.look <= looks
    <3>1. /\ NoSweep \in [kind : SweepKinds,
                          has : BOOLEAN, doc : Nat, look : Nat]
          /\ NoSweep.kind = "none"
      BY DEF NoSweep, SweepKinds
    <3> QED BY <3>1 DEF SearchInv, SearchTypeOK
  <2>2. \A t \in SyncJobs : /\ sync'[t].at = "idle" <=> sync'[t] = Quiet
                            /\ sync'[t].look <= looks + 1
    BY <1>1, <1>2, <1>3 DEF SearchInv, SearchTypeOK, Quiet, Syncs
  <2>3. {looks', latest', repair', indexed'} \subseteq Nat /\ latest' <= looks' /\ repair' <= looks' + 1
    BY DEF SearchInv, SearchTypeOK, indexState
  <2>4. sweep'.kind = "reindex" => sweep'.look <= looks + 1
    BY <1>1, <2>1
  <2> QED BY <1>1, <1>3, <2>1, <2>2, <2>3, <2>4 DEF SearchInv, SearchTypeOK
<1>5. NewestIsCurrent'
  <2>1. \A l \in Nat : l <= looks => ~Newest(l)'
    BY <1>1, <1>2, <1>3 DEF Newest
  <2>2. /\ \A t \in SyncJobs \ {s} : sync'[t].look \in Nat /\ sync'[t].look <= looks
        /\ latest' \in Nat /\ latest' <= looks
        /\ sweep'.kind = "reindex" => sweep'.look \in Nat /\ sweep'.look <= looks
    BY <1>3 DEF SearchInv, SearchTypeOK, NoSweep, indexState, Syncs
  <2> QED BY <1>2, <1>3, <2>1, <2>2 DEF NewestIsCurrent
<1> QED BY <1>4, <1>5 DEF SearchInv

\* A step that something is to be repaired after.
LEMMA ToRepair ==
  ASSUME SearchTypeOK', repair' = looks' + 1
  PROVE  SearchInv'
<1>1. /\ ~(latest' >= repair') /\ \A s \in SyncJobs : ~(sync'[s].look >= repair')
      /\ sweep'.kind = "reindex" => ~(sweep'.look >= repair')
  BY DEF SearchTypeOK, Syncs
<1> QED BY <1>1 DEF SearchInv, NewestIsCurrent

\* Every step of the writers, the syncs and the jobs keeps the newest look.
THEOREM SearchKept == SearchInv /\ [SearchNext]_searchVars => SearchInv'
<1> SUFFICES ASSUME SearchInv, [SearchNext]_searchVars PROVE SearchInv'
  OBVIOUS
<1>1. ASSUME NEW s \in SyncJobs, NEW status, SetStatus(s, status) PROVE SearchInv'
  BY <1>1, AsksAgain DEF SetStatus, SearchInv, SearchTypeOK
<1>2. ASSUME NEW s \in SyncJobs, EditListing(s) PROVE SearchInv'
  <2>1. edit' \in Nat \ {0}
    BY <1>2 DEF EditListing, SearchInv, SearchTypeOK
  <2> QED BY <1>2, <2>1, AsksAgain DEF EditListing, SearchInv, SearchTypeOK
<1>3. ASSUME NEW s \in SyncJobs, ReadAgain(s) PROVE SearchInv'
  <2>1. Found(s) = Document'
    BY <1>3 DEF ReadAgain, Found, Document, listingRow
  <2> QED BY <1>3, <2>1, LooksLast DEF ReadAgain, listingRow
<1>4. ASSUME NEW s \in SyncJobs, Arrives(s) PROVE SearchInv'
  <2> DEFINE l == sync[s].look
  <2>1. /\ sync[s].at = "sent" /\ indexed' = sync[s].doc /\ latest' = l
        /\ sync' = [sync EXCEPT ![s] = Quiet]
        /\ l < latest => repair' = looks + 1
        /\ ~(l < latest) /\ l >= repair => repair' = 0
        /\ ~(l < latest) /\ ~(l >= repair) => repair' = repair
        /\ UNCHANGED <<advert, edit, sweep, looks>>
    BY <1>4 DEF Arrives, listingRow
  <2>2. l \in Nat /\ l <= looks /\ latest \in Nat /\ repair \in Nat /\ sync[s].doc \in Nat
    BY DEF SearchInv, SearchTypeOK, Syncs
  <2>3. Quiet \in Syncs /\ Quiet.at = "idle" /\ Quiet.look = 0
    BY DEF Quiet, Syncs
  <2>4. /\ sync'[s] = Quiet /\ \A t \in SyncJobs \ {s} : sync'[t] = sync[t]
        /\ sync' \in [SyncJobs -> Syncs]
    BY <2>1, <2>3 DEF SearchInv, SearchTypeOK
  <2> HIDE DEF l
  <2>5. SearchTypeOK'
    BY <2>1, <2>2, <2>3, <2>4 DEF SearchInv, SearchTypeOK
  <2>6. CASE l < latest
    BY <2>1, <2>5, <2>6, ToRepair
  <2>7. CASE ~(l < latest)
    <3>1. Document' = Document
      BY <2>1 DEF Document
    <3>2. \A m \in Nat : Newest(m)' => Newest(m)
      BY <2>1, <2>2, <2>4, <2>7 DEF Newest, l
    <3>3. \A m \in Nat : Newest(m)' => m >= l
      BY <2>1 DEF Newest
    <3>4. \A m \in Nat : Newest(m)' /\ m >= repair' => m >= repair
      BY <2>1, <2>2, <2>7, <3>3
    <3>5. \A t \in SyncJobs : sync'[t].look \in Nat
      BY <2>4 DEF Syncs
    <3>6. sweep.look \in Nat
      BY DEF SearchInv, SearchTypeOK
    <3>7. ASSUME \A t \in SyncJobs : sync'[t].at # "asked"
          PROVE  \A t \in SyncJobs : sync[t].at # "asked"
      BY <2>1, <2>4, <3>7
    <3>8. ASSUME \A t \in SyncJobs : sync'[t].at # "asked"
          PROVE  Newest(latest)' /\ latest' >= repair' => indexed' = Document
      BY <2>1, <2>2, <3>2, <3>4, <3>7, <3>8 DEF SearchInv, NewestIsCurrent, l
    <3>9. ASSUME \A t \in SyncJobs : sync'[t].at # "asked", NEW t \in SyncJobs,
                 sync'[t].at = "sent", Newest(sync[t].look)', sync'[t].look >= repair'
          PROVE  sync'[t].doc = Document
      BY <2>3, <2>4, <3>2, <3>4, <3>5, <3>7, <3>9 DEF SearchInv, NewestIsCurrent
    <3>10. ASSUME \A t \in SyncJobs : sync'[t].at # "asked", sweep.kind = "reindex", sweep.has,
                  Newest(sweep.look)', sweep.look >= repair'
           PROVE  sweep.doc = Document
      BY <2>1, <3>2, <3>4, <3>6, <3>7, <3>10 DEF SearchInv, NewestIsCurrent
    <3> QED BY <2>1, <2>5, <3>1, <3>8, <3>9, <3>10 DEF SearchInv, NewestIsCurrent
  <2> QED BY <2>6, <2>7
<1>5. ASSUME NEW s \in SyncJobs, LoseSync(s) PROVE SearchInv'
  <2>1. /\ sync' = [sync EXCEPT ![s] = Quiet] /\ repair' = looks + 1
        /\ UNCHANGED <<edit, indexed, latest, sweep, looks>>
    BY <1>5 DEF LoseSync, listingRow, indexState
  <2>2. Quiet \in Syncs /\ Quiet.at = "idle" /\ Quiet.look = 0
    BY DEF Quiet, Syncs
  <2>3. SearchTypeOK'
    BY <2>1, <2>2 DEF SearchInv, SearchTypeOK
  <2> QED BY <2>1, <2>3, ToRepair
<1>6. ASSUME NEW kind \in {"stale", "cleanup", "leave", "return", "ban", "close", "reindex"}, ReadList(kind)
      PROVE  SearchInv'
  <2>1. /\ sweep'.kind = kind /\ sweep'.has \in BOOLEAN /\ sweep'.doc = Document
        /\ sweep'.look = looks + 1
        /\ sweep' \in [kind : SweepKinds,
                       has : BOOLEAN, doc : Nat, look : Nat]
        /\ looks' = IF kind = "reindex" THEN looks + 1 ELSE looks
        /\ UNCHANGED <<advert, edit, indexed, latest, sync, repair>>
    BY <1>6, DocumentType DEF ReadList, ListOf, SweepKinds, listingRow, indexState, SearchInv, SearchTypeOK
  <2>2. SearchTypeOK'
    BY <2>1 DEF SearchInv, SearchTypeOK, Syncs
  <2>3. Document' = Document /\ \A m : Newest(m)' = Newest(m)
    BY <2>1 DEF Document, Newest
  <2> QED BY <2>1, <2>2, <2>3 DEF SearchInv, NewestIsCurrent
<1>7. ASSUME NEW s \in SyncJobs, JobWrites(s) PROVE SearchInv'
  <2>1. CASE sweep.has
    <3>1. Document' = 0
      BY <1>7, <2>1 DEF JobWrites, WrittenBy, Document
    <3> QED BY <1>7, <2>1, <3>1, LooksLast DEF JobWrites
  <2>2. CASE ~sweep.has
    <3>1. /\ UNCHANGED <<advert, edit, indexed, latest, looks, sync, repair>>
          /\ sweep' = NoSweep
      BY <1>7, <2>2 DEF JobWrites, indexState
    <3>2. Document' = Document /\ \A m : Newest(m)' = Newest(m)
      BY <3>1 DEF Document, Newest
    <3> QED BY <3>1, <3>2 DEF SearchInv, SearchTypeOK, NewestIsCurrent, NoSweep, SweepKinds
  <2> QED BY <2>1, <2>2
<1>8. ASSUME NEW s \in SyncJobs, BulkWrites(s) PROVE SearchInv'
  <2>1. /\ UNCHANGED <<edit, indexed, latest, looks>> /\ sweep' = NoSweep
        /\ repair' = looks + 1 \/ (repair' = repair /\ (advert' = advert \/ sweep.has))
        /\ sweep.has => sync[s] = Quiet /\ SyncAfter(s, advert')
        /\ ~sweep.has => UNCHANGED sync
    BY <1>8 DEF BulkWrites, indexState
  <2>2. CASE sweep.has
    BY <2>1, <2>2, AsksAgain DEF SearchInv, SearchTypeOK, indexState
  <2>3. CASE ~sweep.has
    <3>1. SearchTypeOK'
      BY <2>1, <2>3 DEF SearchInv, SearchTypeOK, NoSweep, SweepKinds
    <3>2. CASE repair' = looks + 1
      BY <2>1, <3>1, <3>2, ToRepair
    <3>3. CASE repair' = repair /\ advert' = advert
      <4>1. Document' = Document /\ \A m : Newest(m)' = Newest(m)
        BY <2>1, <2>3, <3>3 DEF Document, Newest
      <4> QED BY <2>1, <2>3, <3>1, <3>3, <4>1 DEF SearchInv, NewestIsCurrent, NoSweep
    <3> QED BY <2>1, <2>3, <3>2, <3>3
  <2> QED BY <2>2, <2>3
<1>9. ASSUME NEW s \in SyncJobs, ReindexAdds(s) PROVE SearchInv'
  <2>1. /\ sweep.kind = "reindex" /\ sweep' = NoSweep
        /\ UNCHANGED <<advert, edit, indexed, latest, looks, repair>>
    BY <1>9 DEF ReindexAdds, listingRow, indexState
  <2>2. Document' = Document
    BY <2>1 DEF Document
  <2>3. CASE sweep.has
    <3> DEFINE new == [at |-> "sent", doc |-> sweep.doc, look |-> sweep.look]
    <3>1. sync[s] = Quiet /\ sync' = [sync EXCEPT ![s] = new]
      BY <1>9, <2>3 DEF ReindexAdds
    <3>2. /\ new \in Syncs /\ new.at = "sent" /\ new.look = sweep.look /\ new.doc = sweep.doc
          /\ new # Quiet /\ sweep.look <= looks
      BY <2>1 DEF Syncs, Quiet, SearchInv, SearchTypeOK
    <3> HIDE DEF new
    <3>3. /\ sync'[s] = new /\ \A t \in SyncJobs \ {s} : sync'[t] = sync[t]
          /\ sync' \in [SyncJobs -> Syncs]
      BY <3>1, <3>2 DEF SearchInv, SearchTypeOK
    <3>4. SearchTypeOK'
      BY <2>1, <3>2, <3>3 DEF SearchInv, SearchTypeOK, NoSweep, SweepKinds
    <3>5. \A m \in Nat : Newest(m)' => Newest(m)
      BY <2>1, <3>1, <3>3 DEF Newest, Quiet
    <3>6. ASSUME \A t \in SyncJobs : sync'[t].at # "asked"
          PROVE  \A t \in SyncJobs : sync[t].at # "asked"
      BY <3>1, <3>3, <3>6 DEF Quiet
    <3>7. NewestIsCurrent'
      <4> SUFFICES ASSUME \A t \in SyncJobs : sync'[t].at # "asked"
                   PROVE  /\ Newest(latest)' /\ latest' >= repair' => indexed' = Document
                          /\ \A t \in SyncJobs :
                               sync'[t].at = "sent" /\ Newest(sync[t].look)'
                                 /\ sync'[t].look >= repair' => sync'[t].doc = Document
        BY <2>1, <2>2 DEF NewestIsCurrent, NoSweep
      <4>1. Newest(latest)' /\ latest' >= repair' => indexed' = Document
        BY <2>1, <3>5, <3>6 DEF SearchInv, SearchTypeOK, NewestIsCurrent
      <4>2. ASSUME NEW t \in SyncJobs \ {s}, sync'[t].at = "sent", Newest(sync[t].look)',
                   sync'[t].look >= repair'
            PROVE  sync'[t].doc = Document
        BY <2>1, <3>3, <3>5, <3>6, <4>2 DEF SearchInv, SearchTypeOK, NewestIsCurrent, Syncs
      <4>3. ASSUME Newest(sync[s].look)', sync'[s].look >= repair'
            PROVE  sync'[s].doc = Document
        BY <2>1, <2>3, <3>2, <3>3, <3>5, <3>6, <4>3 DEF SearchInv, SearchTypeOK, NewestIsCurrent
      <4> QED BY <4>1, <4>2, <4>3
    <3> QED BY <3>4, <3>7 DEF SearchInv
  <2>4. CASE ~sweep.has
    <3>1. UNCHANGED sync
      BY <1>9, <2>4 DEF ReindexAdds
    <3>2. \A m : Newest(m)' = Newest(m)
      BY <2>1, <3>1 DEF Newest
    <3> QED BY <2>1, <2>2, <3>1, <3>2 DEF SearchInv, SearchTypeOK, NewestIsCurrent, NoSweep, SweepKinds
  <2> QED BY <2>3, <2>4
<1>10. CASE UNCHANGED searchVars
  <2>1. UNCHANGED <<advert, edit, indexed, latest, looks, sync, repair, sweep>>
    BY <1>10 DEF searchVars
  <2>2. Document' = Document /\ \A m : Newest(m)' = Newest(m)
    BY <2>1 DEF Document, Newest
  <2> QED BY <2>1, <2>2 DEF SearchInv, SearchTypeOK, NewestIsCurrent
<1> QED BY <1>1, <1>2, <1>3, <1>4, <1>5, <1>6, <1>7, <1>8, <1>9, <1>10 DEF SearchNext

-----------------------------------------------------------------------------
(* What the invariants say of the rows.                                    *)

\* The rating is of the reviews there are, and of all of them (RatingKept).
LEMMA RatingThen == RatingInv => RatingKept
BY DEF RatingInv, RatingKept

\* Who was pushed was let past (PushesCapped).
LEMMA PushesThen == NoticesInv => PushesCapped
<1> SUFFICES ASSUME NoticesInv PROVE PushesCapped
  OBVIOUS
<1>1. pushes \in SUBSET LetPast /\ IsFiniteSet(LetPast)
  BY DEF LetPast, NoticesInv
<1>2. /\ Cardinality(pushes) <= Cardinality(LetPast)
      /\ Cardinality(pushes) \in Nat /\ Cardinality(LetPast) \in Nat
  BY <1>1, FS_Subset, FS_CardinalityType
<1>3. DailyCap > 0 => Cardinality(pushes) <= DailyCap + away
  BY <1>2, NoticesAssumption DEF NoticesInv
<1> QED BY <1>3 DEF NoticesInv, PushesCapped

\* A phone alone shows what the row is when its request is through
\* (FavoritesAddUp).
LEMMA FavoritesThen == FavoritesInv => FavoritesAddUp
BY DEF FavoritesInv, FavoritesAddUp, PhoneAlone, HeartInv

\* One default is a set of one (MethodsKept).
LEMMA MethodsThen == MethodsInv => MethodsKept
<1> SUFFICES ASSUME MethodsInv PROVE MethodsKept
  OBVIOUS
<1>1. saved # <<>> /\ ~askew => Cardinality(default) = 1
  BY FS_Singleton DEF MethodsInv
<1> QED BY <1>1 DEF MethodsInv, MethodsKept

=============================================================================
