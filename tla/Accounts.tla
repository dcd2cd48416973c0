------------------------------ MODULE Accounts ------------------------------
(***************************************************************************)
(* The accounts of one e-mail address (AuthService): registration, which   *)
(* may displace an account nobody verified, the links that verify one or   *)
(* reset its password, the sign-in of Google or Apple, and the change of   *)
(* the address of an account, to this one or from it.                      *)
(***************************************************************************)
EXTENDS Integers, FiniteSets

CONSTANTS
  AccountIds,   \* the User rows there may be
  Registrars,   \* registrations under way
  Links,        \* the reset links that are sent
  MaxChanges    \* bound: changes of address that are confirmed

ASSUME AccountsAssumption == {"none", "used"} \cap AccountIds = {} /\ MaxChanges \in Nat

VARIABLES
  account,     \* each row: its state, if it has the address, is verified, linked
  register,    \* register: how far it is, and the row that it saw
  verifying,   \* rows whose verifyEmail has been checked
  surprised,   \* rows verified since a registration decided to displace them
  signing,     \* socialLogin has seen no row
  changing,    \* changes of address that were checked: the row, and if to this one
  changes,     \* how many were so far
  link,        \* each reset link: the row it is for, and where it is
  resetting,   \* links whose resetPassword has been checked
  stale,       \* links that were out when another of the row was redeemed, or it moved
  redeemed     \* how often each link was redeemed

accountsVars == <<account, register, verifying, surprised, signing, changing, changes, link,
                  resetting, stale, redeemed>>
changeVars == <<changing, changes>>
linkVars == <<link, resetting, stale, redeemed>>

NoAccount == [state |-> "none", here |-> FALSE, verified |-> FALSE, social |-> FALSE]
NoRegister == [at |-> "idle", saw |-> "none"]
\* The rows that have the address, which is unique.
Live == {i \in AccountIds : account[i].state \in {"live", "deleted"} /\ account[i].here}
Usable(i) == account[i].state = "live"
\* A new row and a new link have an id of their own: which, does not matter.
NewRow == CHOOSE i \in AccountIds : account[i].state = "none"
NewLink == CHOOSE l \in Links : link[l] = "none"

(* Slips: what a definition below would be with a plausible mistake. No    *)
(* step uses them; each is caught by a property (PROJECT.json, "mutants"). *)

\* Whoever has no social sign-in is displaced.
DisplacedUnlinked(i) == ~account[i].social

\* A link that was checked is redeemed.
RedeemedAnyway(l) == TRUE

-----------------------------------------------------------------------------
(* Registration.                                                           *)

\* The address is free, or its row is nobody's.
Displaced(i) == /\ account[i].state = "live"
                /\ ~account[i].verified /\ ~account[i].social
BeginRegister(r) ==
  /\ register[r] = NoRegister
  /\ \A i \in Live : Displaced(i)
  /\ \E i \in AccountIds : account[i].state = "none"
  /\ register' = [register EXCEPT ![r] =
       IF Live = {} THEN [at |-> "create", saw |-> "none"]
                    ELSE [at |-> "displace", saw |-> CHOOSE i \in Live : TRUE]]
  /\ UNCHANGED <<account, verifying, surprised, signing, changeVars, linkVars>>

\* The row is deleted by its id, with what hangs on it; or it is gone.
Displace(r) ==
  LET i == register[r].saw IN
  /\ register[r].at = "displace"
  /\ IF account[i].state = "gone"
     THEN register' = [register EXCEPT ![r] = NoRegister] /\ UNCHANGED account
     ELSE /\ register' = [register EXCEPT ![r] = [at |-> "create", saw |-> "none"]]
          /\ account' = [account EXCEPT ![i].state = "gone"]
  /\ UNCHANGED <<verifying, surprised, signing, changeVars, linkVars>>

\* The address is unique: the loser of a race gets an error.
NewAccount(i, social) ==
  account' = [account EXCEPT ![i] = [NoAccount EXCEPT
    !.state = "live", !.here = TRUE, !.verified = social, !.social = social]]

Create(r, i) ==
  /\ register[r].at = "create"
  /\ account[i].state = "none" /\ i = NewRow
  /\ register' = [register EXCEPT ![r] = NoRegister]
  /\ IF Live = {} THEN NewAccount(i, FALSE) ELSE UNCHANGED account
  /\ UNCHANGED <<verifying, surprised, signing, changeVars, linkVars>>

-----------------------------------------------------------------------------
(* Verification: every row has got a link that is good for a day.          *)

CheckVerify(i) ==
  /\ Usable(i) /\ ~account[i].verified
  /\ verifying' = verifying \cup {i}
  /\ UNCHANGED <<account, register, surprised, signing, changeVars, linkVars>>

\* The transaction fails if the row is gone.
Verify(i) ==
  /\ i \in verifying
  /\ verifying' = verifying \ {i}
  /\ IF account[i].state = "gone"
     THEN UNCHANGED <<account, surprised>>
     ELSE /\ account' = [account EXCEPT ![i].verified = TRUE]
          /\ surprised' = IF \E r \in Registrars : register[r].saw = i
                          THEN surprised \cup {i} ELSE surprised
  /\ UNCHANGED <<register, signing, changeVars, linkVars>>

-----------------------------------------------------------------------------
(* Google and Apple.                                                       *)

\* socialLogin: a row that is not linked is refused, one that is signs in.
BeginSocial ==
  /\ Live = {} /\ \E i \in AccountIds : account[i].state = "none"
  /\ signing' = TRUE
  /\ UNCHANGED <<account, register, verifying, surprised, changeVars, linkVars>>

CreateSocial(i) ==
  /\ signing /\ account[i].state = "none" /\ i = NewRow
  /\ signing' = FALSE
  /\ IF Live = {} THEN NewAccount(i, TRUE) ELSE UNCHANGED account
  /\ UNCHANGED <<register, verifying, surprised, changeVars, linkVars>>

\* linkSocialProvider, with the password.
LinkSocial(i) ==
  /\ Usable(i) /\ ~account[i].social
  /\ account' = [account EXCEPT ![i].social = TRUE]
  /\ surprised' = IF \E r \in Registrars : register[r].saw = i
                  THEN surprised \cup {i} ELSE surprised
  /\ UNCHANGED <<register, verifying, signing, changeVars, linkVars>>

\* deleteAccount keeps the row, without its address and its link. (A ban keeps
\* all of it, and stops no more here than that a reset link is sent: left out.)
RemoveAccount(i) ==
  /\ Usable(i)
  /\ account' = [account EXCEPT ![i] = [@ EXCEPT
                   !.state = "deleted", !.here = FALSE, !.social = FALSE]]
  /\ UNCHANGED <<register, verifying, surprised, signing, changeVars, linkVars>>

-----------------------------------------------------------------------------
(* The links that change the address of an account, to this one or from it. *)

\* confirmEmailChange: nobody has the new address,
CheckChange(i) ==
  /\ changes < MaxChanges /\ changes' = changes + 1
  /\ Usable(i)
  /\ account[i].here \/ Live = {}
  /\ changing' = changing \cup {<<i, ~account[i].here>>}
  /\ UNCHANGED <<account, register, verifying, surprised, signing, linkVars>>

\* ... which it writes by the id of the row, with its reset links used up; unless
\* the row is gone, or somebody got the address first.
ChangeAddress(i, to) ==
  /\ <<i, to>> \in changing
  /\ changing' = changing \ {<<i, to>>}
  /\ IF account[i].state = "gone" \/ (to /\ Live \ {i} # {})
     THEN UNCHANGED <<account, stale, link>>
     ELSE LET out == {l \in Links : link[l] = i} IN
          /\ account' = [account EXCEPT ![i].here = to]
          /\ stale' = stale \cup out
          /\ link' = [l \in Links |-> IF l \in out THEN "used" ELSE link[l]]
  /\ UNCHANGED <<register, verifying, surprised, signing, changes, resetting, redeemed>>

-----------------------------------------------------------------------------
(* Passwords.                                                              *)

\* forgotPassword; the row goes with its account.
SendLink(l, i) ==
  /\ link[l] = "none" /\ l = NewLink
  /\ Usable(i)
  /\ link' = [link EXCEPT ![l] = i]
  /\ UNCHANGED <<account, register, verifying, surprised, signing, changeVars, resetting, stale,
                 redeemed>>

Out(l) == link[l] \in AccountIds /\ account[link[l]].state # "gone"
\* resetPassword reads the link and its user, and hashes the new password.
CheckLink(l) ==
  /\ Out(l) /\ Usable(link[l])
  /\ resetting' = resetting \cup {l}
  /\ UNCHANGED <<account, register, verifying, surprised, signing, changeVars, link, stale,
                 redeemed>>

\* The transaction claims the link and uses up the others of the account.
Redeemable(l) == Out(l)
Redeem(l) ==
  /\ l \in resetting
  /\ resetting' = resetting \ {l}
  /\ IF Redeemable(l)
     THEN LET others == {k \in Links : k # l /\ link[k] = link[l]} IN
          /\ redeemed' = [redeemed EXCEPT ![l] = @ + 1]
          /\ stale' = stale \cup others
          /\ link' = [k \in Links |-> IF k \in others \cup {l} THEN "used" ELSE link[k]]
     ELSE UNCHANGED <<redeemed, stale, link>>
  /\ UNCHANGED <<account, register, verifying, surprised, signing, changeVars>>

-----------------------------------------------------------------------------
\* An account of another address may be there already.
Elsewhere == {CHOOSE i \in AccountIds : TRUE}
AccountsInit ==
  /\ \E others \in {{}, Elsewhere} : account = [i \in AccountIds |->
       [NoAccount EXCEPT !.state = IF i \in others THEN "live" ELSE "none"]]
  /\ register = [r \in Registrars |-> NoRegister]
  /\ verifying = {} /\ surprised = {} /\ signing = FALSE /\ changing = {} /\ changes = 0
  /\ link = [l \in Links |-> "none"] /\ resetting = {} /\ stale = {}
  /\ redeemed = [l \in Links |-> 0]

AccountsNext ==
  \/ \E r \in Registrars :
       BeginRegister(r) \/ Displace(r) \/ \E i \in AccountIds : Create(r, i)
  \/ \E i \in AccountIds :
       \/ CheckVerify(i) \/ Verify(i)
       \/ CreateSocial(i) \/ LinkSocial(i) \/ RemoveAccount(i)
       \/ CheckChange(i) \/ \E to \in BOOLEAN : ChangeAddress(i, to)
       \/ \E l \in Links : SendLink(l, i)
  \/ BeginSocial
  \/ \E l \in Links : CheckLink(l) \/ Redeem(l)

-----------------------------------------------------------------------------
\* An address has one account at most, and a registration displaces none that
\* was verified or linked before the registration looked (register); of the
\* links of a password, one is redeemed, once, and none that was out by then or
\* when the account changed its address.
AccountsKept ==
  /\ Cardinality(Live) <= 1
  /\ \A i \in AccountIds :
       account[i].state = "gone" /\ (account[i].verified \/ account[i].social)
         => i \in surprised
  /\ \A l \in Links : redeemed[l] <= 1 /\ (l \in stale => redeemed[l] = 0)

\* users.service.ts: deletion anonymizes the e-mail address. Not run: a change of
\* address that was checked before it writes the new one back.
DeletedIsForgotten == \A i \in AccountIds : account[i].state = "deleted" => ~account[i].here
=============================================================================
