------------------------------ MODULE Sessions ------------------------------
(***************************************************************************)
(* The sessions of one account: the RefreshToken rows and tokenVersion of  *)
(* the API (AuthService, JwtStrategy), and the clients that keep a pair of *)
(* tokens and rotate it (api.ts of web and mobile, AuthContext). A jar is  *)
(* where a pair is kept: the keychain of a phone, the cookies of a         *)
(* browser. A call is one request that may log in or refresh.              *)
(***************************************************************************)
EXTENDS Integers, FiniteSets

CONSTANTS
  Tokens,     \* the refresh tokens there may be
  Jars,
  Mobile,     \* the jars that are phones
  Calls,
  JarOf,      \* the jar a call takes its tokens from
  TabOf,      \* the page or app whose refreshInFlight the call shares
  MaxOrphans  \* bound: calls whose client has died

ASSUME SessionsAssumption ==
  /\ Mobile \subseteq Jars /\ Jars \cap Calls = {}
  /\ JarOf \in [Calls -> Jars]
  /\ DOMAIN TabOf = Calls
  /\ \A c, d \in Calls : TabOf[c] = TabOf[d] => JarOf[c] = JarOf[d]
  /\ MaxOrphans \in Nat
  /\ "none" \notin Tokens

VARIABLES
  row,          \* what the RefreshToken row says: usedAt, revokedAt or neither
  origin,       \* the row of the login that a row descends from
  jar,          \* the refresh token that is kept, "none" when signed out
  call,         \* how far the call is, and with which token
  current,      \* the jars and calls whose JWT has the User's tokenVersion
  leaving,      \* sign-out: the token it takes along, then "revoked"
  changing,     \* changePassword is between its two updates
  orphans,      \* the calls whose page was left or whose app was killed
  ended         \* history: the logins that an event has ended

vars == <<row, origin, jar, call, current, leaving, changing, orphans, ended>>

Idle == [at |-> "idle", token |-> "none"]
Refreshing == {"sent", "read", "theft"}
Steps == Refreshing \cup {"idle", "challenged", "rotated", "minting", "answered",
                          "failed"}

Live(t) == row[t] = "live"
Issued == {t \in Tokens : row[t] # "none"}

\* A rotation or a login that has passed its checks and has no row yet.
InFlight == {c \in Calls : call[c].at \in {"rotated", "minting"}}

\* A refresh, from the request to the answer; the others are logins.
Rotating(c) ==
  \/ call[c].at \in Refreshing \cup {"failed"}
  \/ c \in InFlight /\ call[c].token # "none"
  \/ call[c].at = "answered" /\ origin[call[c].token] # call[c].token

(* Slips: what a definition below would be with a plausible mistake. No    *)
(* step uses them; each is caught by a property (PROJECT.json, "mutants"). *)

\* Every call that meets a 401 refreshes for itself.
SingleFlightForgotten(c) == TRUE

\* The claim names the row and not the state it was read in.
ClaimedById(t) == row[t] # "none"

\* The version is bumped and the rows are left to expire, as forceLogout does.
NothingRevoked == row

-----------------------------------------------------------------------------
(* The API: logging in.                                                    *)

\* login: the password is right; the row that was read for it also gives the
\* version. signIn of the phone has thrown its old pair away by then.
SignIn(c, twoFa) ==
  /\ call[c].at = "idle" /\ c \notin orphans
  /\ call' = [call EXCEPT ![c] =
       [at |-> IF twoFa THEN "challenged" ELSE "minting", token |-> "none"]]
  /\ IF JarOf[c] \in Mobile
     THEN /\ jar' = [jar EXCEPT ![JarOf[c]] = "none"]
          /\ current' = (current \ {JarOf[c]}) \cup (IF twoFa THEN {} ELSE {c})
     ELSE /\ UNCHANGED jar
          /\ current' = current \cup (IF twoFa THEN {} ELSE {c})
  /\ UNCHANGED <<row, origin, leaving, changing, orphans, ended>>

\* confirmLoginWithTwoFa: the temporary token is bound to no version.
ConfirmCode(c) ==
  /\ call[c].at = "challenged"
  /\ call' = [call EXCEPT ![c].at = "rotated"]
  /\ UNCHANGED <<current, row, origin, jar, leaving, changing, orphans, ended>>

-----------------------------------------------------------------------------
(* The API: refreshToken, one step for each of its awaits.                 *)

\* findUnique: a row that is not live any more is taken for theft.
Find(c) ==
  /\ call[c].at = "sent"
  /\ call' = [call EXCEPT ![c].at = IF Live(call[c].token) THEN "read" ELSE "theft"]
  /\ UNCHANGED <<current, row, origin, jar, leaving, changing, orphans, ended>>

\* The conditional update; the loser of a race is taken for a thief too.
Claimable(t) == Live(t)
Claim(c) ==
  /\ call[c].at = "read"
  /\ IF Claimable(call[c].token)
     THEN /\ row' = [row EXCEPT ![call[c].token] = "used"]
          /\ call' = [call EXCEPT ![c].at = "rotated"]
     ELSE /\ call' = [call EXCEPT ![c].at = "theft"]
          /\ UNCHANGED row
  /\ UNCHANGED <<current, origin, jar, leaving, changing, orphans, ended>>

\* What every event that ends all sessions does to the rows.
AllRevoked == [t \in Tokens |-> IF Live(t) THEN "revoked" ELSE row[t]]
Ending == {origin[t] : t \in Issued} \ {origin[call[c].token] : c \in
             {d \in InFlight : call[d].token # "none"}}
Bump == current' = {}
EndSessions ==
  /\ Bump
  /\ row' = AllRevoked
  /\ ended' = ended \cup Ending

\* handleRefreshTokenReuse.
HandleReuse(c) ==
  /\ call[c].at = "theft"
  /\ EndSessions
  /\ call' = [call EXCEPT ![c] = [at |-> "failed", token |-> "none"]]
  /\ UNCHANGED <<origin, jar, leaving, changing, orphans>>

\* generateTokens reads the version, signs, and creates the row.
ReadVersion(c) ==
  /\ call[c].at = "rotated"
  /\ call' = [call EXCEPT ![c].at = "minting"]
  /\ current' = current \cup {c}
  /\ UNCHANGED <<row, origin, jar, leaving, changing, orphans, ended>>

Mint(c, t) ==
  /\ call[c].at = "minting"
  /\ row[t] = "none"
  /\ row' = [row EXCEPT ![t] = "live"]
  /\ origin' = [origin EXCEPT ![t] = IF call[c].token = "none" THEN t
                                     ELSE origin[call[c].token]]
  /\ call' = [call EXCEPT ![c].at = "answered", ![c].token = t]
  /\ UNCHANGED <<current, jar, leaving, changing, orphans, ended>>

-----------------------------------------------------------------------------
(* The API: the events that end sessions.                                  *)

\* resetPassword, and confirmEmailChange and verifyEmail alike: one transaction.
ResetPassword ==
  /\ EndSessions
  /\ UNCHANGED <<origin, jar, call, leaving, changing, orphans>>

\* changePassword: two updates, and the process may die between them.
ChangePassword ==
  /\ ~changing
  /\ Bump
  /\ changing' = TRUE
  /\ UNCHANGED <<row, origin, jar, call, leaving, orphans, ended>>

RevokeAfterChange ==
  /\ changing
  /\ row' = AllRevoked
  /\ changing' = FALSE
  /\ UNCHANGED <<current, origin, jar, call, leaving, orphans, ended>>

CrashInChange ==
  /\ changing
  /\ changing' = FALSE
  /\ UNCHANGED <<current, row, origin, jar, call, leaving, orphans, ended>>

\* ModerationService.forceLogout (and banUser) leave the rows alone.
ForceLogout ==
  /\ Bump
  /\ UNCHANGED <<row, origin, jar, call, leaving, changing, orphans, ended>>

\* revokeRefreshToken, on its way to sign out.
RevokeOne(j) ==
  /\ leaving[j] \in Tokens
  /\ leaving' = [leaving EXCEPT ![j] = "revoked"]
  /\ row' = IF Live(leaving[j]) THEN [row EXCEPT ![leaving[j]] = "revoked"] ELSE row
  /\ UNCHANGED <<current, origin, jar, call, changing, orphans, ended>>

-----------------------------------------------------------------------------
(* The clients.                                                            *)

\* The guards refuse the JWT of a jar: it is too old or of another version.
\* attemptRefresh then joins the refresh that is under way in its page, if any.
SingleFlight(c) ==
  \A d \in Calls \ {c} : TabOf[d] = TabOf[c] /\ d \notin orphans => ~Rotating(d)
Ask(c) ==
  /\ call[c].at = "idle" /\ c \notin orphans
  /\ jar[JarOf[c]] # "none"
  /\ SingleFlight(c)
  /\ call' = [call EXCEPT ![c] = [at |-> "sent", token |-> jar[JarOf[c]]]]
  /\ UNCHANGED <<current, row, origin, jar, leaving, changing, orphans, ended>>

\* setTokens of the phone, or the browser on Set-Cookie: over whatever is there.
Store(c) ==
  /\ call[c].at = "answered" /\ c \notin orphans
  /\ jar' = [jar EXCEPT ![JarOf[c]] = call[c].token]
  /\ call' = [call EXCEPT ![c] = Idle]
  /\ current' = IF c \in current THEN (current \ {c}) \cup {JarOf[c]}
                                ELSE current \ {JarOf[c]}
  /\ UNCHANGED <<row, origin, leaving, changing, orphans, ended>>

\* The page is left or the app is killed: the API goes on, nobody listens, and
\* the next start knows of no refresh under way.
Abandon(c) ==
  /\ call[c].at # "idle"
  /\ Cardinality(orphans) < MaxOrphans
  /\ orphans' = orphans \cup {c}
  /\ UNCHANGED <<current, row, origin, jar, call, leaving, changing, ended>>

\* attemptRefresh gives FALSE and keeps the pair; only the start-up of the app
\* throws it away.
GiveUp(c) ==
  /\ call[c].at = "failed" /\ c \notin orphans
  /\ call' = [call EXCEPT ![c] = Idle]
  /\ \/ UNCHANGED <<jar, current>>
     \/ /\ JarOf[c] \in Mobile
        /\ jar' = [jar EXCEPT ![JarOf[c]] = "none"]
        /\ current' = current \ {JarOf[c]}
  /\ UNCHANGED <<row, origin, leaving, changing, orphans, ended>>

\* logout and clearAuthToken: the refresh token is presented, then the pair is
\* cleared, whatever became of the request.
SignOut(j) ==
  /\ leaving[j] = "none"
  /\ jar[j] # "none"
  /\ leaving' = [leaving EXCEPT ![j] = jar[j]]
  /\ UNCHANGED <<current, row, origin, jar, call, changing, orphans, ended>>

Forget(j) ==
  /\ leaving[j] # "none"
  /\ leaving' = [leaving EXCEPT ![j] = "none"]
  /\ jar' = [jar EXCEPT ![j] = "none"]
  /\ current' = current \ {j}
  /\ UNCHANGED <<row, origin, call, changing, orphans, ended>>

-----------------------------------------------------------------------------
Init ==
  /\ row = [t \in Tokens |-> "none"]
  /\ origin = [t \in Tokens |-> "none"]
  /\ jar = [j \in Jars |-> "none"]
  /\ call = [c \in Calls |-> Idle]
  /\ current = {}
  /\ leaving = [j \in Jars |-> "none"]
  /\ changing = FALSE /\ orphans = {} /\ ended = {}

Next ==
  \/ \E c \in Calls :
       \/ \E twoFa \in BOOLEAN : SignIn(c, twoFa)
       \/ ConfirmCode(c) \/ Ask(c) \/ Find(c) \/ Claim(c) \/ HandleReuse(c)
       \/ ReadVersion(c) \/ Store(c) \/ Abandon(c) \/ GiveUp(c)
       \/ \E t \in Tokens : Mint(c, t)
  \/ \E j \in Jars : SignOut(j) \/ RevokeOne(j) \/ Forget(j)
  \/ ResetPassword \/ ChangePassword \/ RevokeAfterChange \/ CrashInChange
  \/ ForceLogout

Spec == Init /\ [][Next]_vars

-----------------------------------------------------------------------------
TypeOK ==
  /\ row \in [Tokens -> {"none", "live", "used", "revoked"}]
  /\ origin \in [Tokens -> Tokens \cup {"none"}]
  /\ jar \in [Jars -> Tokens \cup {"none"}]
  /\ call \in [Calls -> [at : Steps, token : Tokens \cup {"none"}]]
  /\ current \subseteq Jars \cup Calls
  /\ leaving \in [Jars -> Tokens \cup {"none", "revoked"}]
  /\ changing \in BOOLEAN
  /\ orphans \subseteq Calls
  /\ ended \subseteq Tokens

\* However many requests present a token at once, a login has one token that
\* is worth something, or one that is being made: rotation never forks it.
OneLivePerLogin ==
  /\ \A t, u \in Tokens : Live(t) /\ Live(u) /\ origin[t] = origin[u] => t = u
  /\ \A c \in InFlight : call[c].token # "none" =>
       \A t \in Tokens : Live(t) => origin[t] # origin[call[c].token]

\* A page that is not left in the middle never presents a token that it has
\* rotated: the reuse response is not its own doing (attemptRefresh).
RotationIsNotReuse ==
  \A c \in Calls : call[c].at = "theft" /\ orphans = {} => row[call[c].token] = "revoked"

\* A password reset, a change of address or a reuse ends every login but those
\* whose rotation has been claimed and not minted at that moment: neither their
\* refresh tokens nor the JWTs in the jars work again.
EndedStaysEnded ==
  /\ \A t \in Tokens : Live(t) => origin[t] \notin ended
  /\ \A j \in Jars \cap current : origin[jar[j]] \notin ended

-----------------------------------------------------------------------------
(* What the code says of itself and does not keep.                         *)

\* "the legitimate client has already rotated past this token" (refreshToken).
ReuseMeansRotated ==
  \A c \in Calls : call[c].at = "theft" => row[call[c].token] = "used"

\* forceLogout: what was issued before it is of no use after it.
ForceLogoutEnds ==
  [][ForceLogout => \A t \in Tokens : ~(row'[t] = "live")]_vars

\* "every outstanding session MUST die" (resetPassword).
ResetEndsAll ==
  [][ResetPassword => InFlight = {}]_vars
=============================================================================
