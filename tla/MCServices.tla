----------------------------- MODULE MCServices -----------------------------
(***************************************************************************)
(* The services that share no state with one another, checked in one go:   *)
(* a behaviour is one of the service that part names.                      *)
(***************************************************************************)
EXTENDS Payouts, Offers, WebChat, PhoneChat, Gateway, Wallet, Support, TrackingPoller,
        Uploads, Identity, NotaFiscal, TwoFactor, Accounts, Favorites, Reviews, Notices,
        Follows, PayoutMethods, SearchIndex

CONSTANT Parts

VARIABLE part

vars == <<part, payoutVars, offersVars, webChatVars, phoneVars, gatewayVars, walletVars,
          supportVars, pollVars, uploadVars, identityVars, nfeVars, twoFaVars, accountsVars,
          favoriteVars, ratingVars, noticeVars, followVars, methodVars, searchVars>>

\* Two withdrawals the balance does not cover together, and one of another seller.
OwnerDef == [p \in Payouts |-> IF p = "p3" THEN "bia" ELSE "ana"]
AmountDef == [p \in Payouts |-> CASE p = "p1" -> 2 [] p = "p2" -> 3 [] p = "p3" -> 1]
EarnedDef == [ana |-> 4, bia |-> 1]
PricesDef == [BUMP |-> 1, SPOTLIGHT |-> 2, MEGAFONE |-> 0]

Init ==
  /\ part \in Parts
  /\ PayoutsInit /\ OffersInit /\ WebChatInit /\ PhoneChatInit /\ GatewayInit
  /\ WalletInit /\ SupportInit /\ PollInit /\ UploadInit /\ IdentityInit /\ NfeInit
  /\ TwoFaInit /\ AccountsInit /\ FavoritesInit /\ ReviewsInit /\ NoticesInit
  /\ FollowsInit /\ MethodsInit /\ SearchInit
  /\ part # "accounts" => \A i \in AccountIds : account[i] = NoAccount

\* What is not of the part stays.
Stays(others, v) == IF part \notin others THEN UNCHANGED v ELSE TRUE
Rest ==
  /\ UNCHANGED part
  /\ Stays({"payouts"}, payoutVars) /\ Stays({"offers"}, offersVars)
  /\ Stays({"web", "phone"}, <<storeVars, drops>>)
  /\ Stays({"web"}, webVars) /\ Stays({"phone"}, phoneVars)
  /\ Stays({"gateway"}, gatewayVars) /\ Stays({"wallet"}, walletVars)
  /\ Stays({"support"}, supportVars) /\ Stays({"tracking"}, pollVars)
  /\ Stays({"uploads"}, uploadVars) /\ Stays({"identity"}, identityVars)
  /\ Stays({"nfe"}, nfeVars) /\ Stays({"twofa"}, twoFaVars)
  /\ Stays({"accounts"}, accountsVars) /\ Stays({"favorites"}, favoriteVars)
  /\ Stays({"reviews"}, ratingVars) /\ Stays({"notices"}, noticeVars)
  /\ Stays({"follows"}, followVars) /\ Stays({"methods"}, methodVars)
  /\ Stays({"search"}, searchVars)

Step ==
  \/ part = "payouts" /\ PayoutsNext
  \/ part = "offers" /\ OffersNext
  \/ part = "web" /\ WebChatNext
  \/ part = "phone" /\ PhoneChatNext
  \/ part = "gateway" /\ GatewayNext
  \/ part = "wallet" /\ WalletNext
  \/ part = "support" /\ SupportNext
  \/ part = "tracking" /\ PollNext
  \/ part = "uploads" /\ UploadNext
  \/ part = "identity" /\ IdentityNext
  \/ part = "nfe" /\ NfeNext
  \/ part = "twofa" /\ TwoFaNext
  \/ part = "accounts" /\ AccountsNext
  \/ part = "favorites" /\ FavoritesNext
  \/ part = "reviews" /\ ReviewsNext
  \/ part = "notices" /\ NoticesNext
  \/ part = "follows" /\ FollowsNext
  \/ part = "methods" /\ MethodsNext
  \/ part = "search" /\ SearchNext

Next == Step /\ Rest

Spec == Init /\ [][Next]_vars

\* Jobs come round, the locks of the tracking job run out, a page polls while
\* it is open, and an attempt that is not cut off goes on.
FairSpec ==
  /\ Spec
  /\ WF_webChatVars(part = "web" /\ Fetch)
  /\ \A n \in 0 .. MaxMessages :
       /\ WF_webChatVars(part = "web" /\ MarkFetched(n))
       /\ WF_webChatVars(part = "web" /\ ShowFetched(n))
  /\ WF_supportVars(part = "support" /\ Reconcile)
  /\ WF_supportVars(part = "support" /\ Deliver("opened"))
  /\ WF_pollVars(part = "tracking" /\ Lapse)
  /\ SF_pollVars(part = "tracking" /\ \E h \in Hosts : Tick(h))
  /\ \A h \in Hosts : WF_pollVars(part = "tracking" /\ Poll(h))
  /\ \A p \in Payouts :
       /\ WF_payoutVars(part = "payouts" /\ Handle(p))
       /\ \A a \in Ops : WF_payoutVars(part = "payouts" /\ AdminRefund(p, a))
  /\ WF_nfeVars(part = "nfe" /\ PollInvoice)
  /\ WF_nfeVars(part = "nfe" /\ EndPoll)

\* A screen shows a message once, in a browser and on a phone (newMessage).
MessagesShownOnce == WebShowsOnce /\ PhoneShowsOnce

\* However often a call is retried, and by however many callers: an answer of an
\* agent and a delivery are written once (agentReply, markDeliveredInternal).
RetriesWriteOnce == AnsweredOnce /\ StampedOnce

\* What a provider has not said is not written: an identity is verified and an
\* invoice settled only if Serpro, Caf or the issuer said so, and once.
ProvidersBelieved == VerifiedByProvider /\ OneInvoice

\* Whoever signs in, registers or resets a password at once: codes and links are
\* used once, and an address has one account (consumeSmsCode, register).
SignInsKept == CodesUsedOnce /\ AccountsKept

\* Rows that repeat or choose among others agree with them: the favorites and
\* followers of somebody, the pushes of a day, the ratings of a seller, the
\* default among his keys, and the index of the search (toggleFavorite,
\* followUser, isOverDailyCap, create, setDefault, syncSearchIndex).
RowsAgree ==
  /\ FavoritesAddUp /\ FollowsAddUp
  /\ PushesCapped /\ RatingKept
  /\ MethodsKept /\ IndexFollows
=============================================================================
