------------------------------- MODULE Wallet -------------------------------
(***************************************************************************)
(* What moves the balance of a wallet besides sales and payouts: the bonus *)
(* of an invitation (ReferralsService) and the promotions of one listing   *)
(* (PromotionsService, expirePromotions). Amounts are in units.            *)
(***************************************************************************)
EXTENDS Integers, FiniteSets

CONSTANTS
  Ads,             \* the Promotion rows there may be
  Reward,          \* REFERRAL_REWARD_BRL
  PriceOf,         \* what each kind of promotion costs
  MaxCompletions   \* bound: orders of the invited buyer that complete

ASSUME WalletAssumption ==
  /\ IsFiniteSet(Ads)
  /\ {Reward, MaxCompletions} \subseteq Nat
  /\ PriceOf \in [{"BUMP", "SPOTLIGHT", "MEGAFONE"} -> Nat]
  /\ PriceOf["MEGAFONE"] = 0
  /\ "none" \notin Ads

VARIABLES
  balance,      \* Wallet.balanceBrl
  referral,     \* the Referral row: none, pending or credited
  completions,  \* orders of the buyer that have completed
  rewarding,    \* creditIfEligible calls that saw the referral pending
  ad,           \* the Promotion rows; a request that has checked is "asked"
  adKind,       \* their types
  promotedBy,   \* the row that Listing.promotedUntil was copied from
  expiring      \* expirePromotions has listed the listing

walletVars == <<balance, referral, completions, rewarding, ad, adKind, promotedBy,
                expiring>>
referralVars == <<referral, completions, rewarding>>
adVars == <<ad, adKind, promotedBy, expiring>>

Kinds == DOMAIN PriceOf

(* Slips: what a definition below would be with a plausible mistake. No    *)
(* step uses them; each is caught by a property (PROJECT.json, "mutants"). *)

\* The wallet is debited on the strength of what was read before.
DebitedAnyway(price) == TRUE

\* The bonus is credited on the strength of the Referral that was read.
CreditedAnyway == TRUE

-----------------------------------------------------------------------------
(* The invitation.                                                         *)

\* linkReferralAtSignup: refereeId is unique, so there is one row at most.
LinkReferral ==
  /\ referral = "none"
  /\ referral' = "pending"
  /\ UNCHANGED <<balance, completions, rewarding, adVars>>

\* finalizeEscrow has completed an order of the invited buyer; the bonus is
\* fired and forgotten. The call reads the row first.
CompleteOrder ==
  /\ completions < MaxCompletions
  /\ completions' = completions + 1
  /\ rewarding' = IF referral = "pending" THEN rewarding + 1 ELSE rewarding
  /\ UNCHANGED <<balance, referral, adVars>>

\* The transaction, which claims the row, or finds it claimed.
StillUncredited == referral = "pending"
Credit ==
  /\ rewarding > 0
  /\ rewarding' = rewarding - 1
  /\ IF StillUncredited
     THEN referral' = "credited" /\ balance' = balance + Reward
     ELSE UNCHANGED <<referral, balance>>
  /\ UNCHANGED <<completions, adVars>>

\* The process dies in the middle: the bonus waits for the next order.
LoseCredit ==
  /\ rewarding > 0
  /\ rewarding' = 0
  /\ UNCHANGED <<balance, referral, completions, adVars>>

-----------------------------------------------------------------------------
(* The promotions.                                                         *)

Runs(a) == ad[a] \in {"unlisted", "running"}

\* The checks of createMegafone, createBump and createSpotlight: none of the
\* kind is running and the balance is enough.
AskAd(a, k) ==
  /\ ad[a] = "none"
  /\ \A b \in Ads : Runs(b) => adKind[b] # k
  /\ balance >= PriceOf[k]
  /\ ad' = [ad EXCEPT ![a] = "asked"]
  /\ adKind' = [adKind EXCEPT ![a] = k]
  /\ UNCHANGED <<balance, referralVars, promotedBy, expiring>>

\* The transaction: the conditional debit, the row, and the listing, whatever
\* promotes it by then.
Covers(price) == balance >= price
StartAd(a) ==
  /\ ad[a] = "asked" /\ adKind[a] # "MEGAFONE"
  /\ IF Covers(PriceOf[adKind[a]])
     THEN /\ balance' = balance - PriceOf[adKind[a]]
          /\ ad' = [ad EXCEPT ![a] = "running"]
          /\ promotedBy' = a
     ELSE /\ ad' = [ad EXCEPT ![a] = "none"]
          /\ UNCHANGED <<balance, promotedBy>>
  /\ UNCHANGED <<adKind, expiring, referralVars>>

\* A megaphone costs nothing and takes no transaction: the row, and then the
\* listing, unless the process dies.
StartMegafone(a) ==
  /\ ad[a] = "asked" /\ adKind[a] = "MEGAFONE"
  /\ ad' = [ad EXCEPT ![a] = "unlisted"]
  /\ UNCHANGED <<balance, adKind, promotedBy, expiring, referralVars>>

ListMegafone(a) ==
  /\ ad[a] = "unlisted"
  /\ ad' = [ad EXCEPT ![a] = "running"]
  /\ promotedBy' = a
  /\ UNCHANGED <<balance, adKind, expiring, referralVars>>

\* endsAt passes.
EndAd(a) ==
  /\ Runs(a)
  /\ ad' = [ad EXCEPT ![a] = "over"]
  /\ UNCHANGED <<balance, adKind, promotedBy, expiring, referralVars>>

\* expirePromotions lists what has run out, and then clears it by id.
ListExpired ==
  /\ promotedBy # "none" /\ ad[promotedBy] = "over"
  /\ expiring' = TRUE
  /\ UNCHANGED <<balance, ad, adKind, promotedBy, referralVars>>

ClearExpired ==
  /\ expiring
  /\ expiring' = FALSE
  /\ promotedBy' = "none"
  /\ UNCHANGED <<balance, ad, adKind, referralVars>>

-----------------------------------------------------------------------------
WalletInit ==
  /\ balance = 0
  /\ referral = "none" /\ completions = 0 /\ rewarding = 0
  /\ ad = [a \in Ads |-> "none"]
  /\ adKind = [a \in Ads |-> "BUMP"]
  /\ promotedBy = "none" /\ expiring = FALSE

WalletNext ==
  \/ LinkReferral \/ CompleteOrder \/ Credit \/ LoseCredit
  \/ \E a \in Ads :
       \/ StartAd(a) \/ StartMegafone(a) \/ ListMegafone(a) \/ EndAd(a)
       \/ \E k \in Kinds : AskAd(a, k)
  \/ ListExpired \/ ClearExpired

-----------------------------------------------------------------------------
\* The promotions of a kind that have been paid for, and what they cost.
Bought(k) == {a \in Ads : ad[a] \in {"running", "over"} /\ adKind[a] = k}
CostOf(k) == PriceOf[k] * Cardinality(Bought(k))

\* However many orders complete and requests cross: an invitation is worth one
\* bonus, every promotion has been paid for, and the balance stays positive.
WalletAddsUp ==
  /\ balance = (IF referral = "credited" THEN Reward ELSE 0)
               - CostOf("BUMP") - CostOf("SPOTLIGHT") - CostOf("MEGAFONE")
  /\ balance >= 0
=============================================================================
