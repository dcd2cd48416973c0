-------------------------- MODULE Sessions_proofs ---------------------------
(***************************************************************************)
(* What rotation and the events that end sessions keep, for any number of  *)
(* tokens, clients, requests and interruptions.                            *)
(***************************************************************************)
EXTENDS Sessions, TLAPS

\* Whatever names a row names one that was made, and so does its origin.
Issuing ==
  /\ \A t \in Tokens : row[t] # "none" => origin[t] \in Issued
  /\ \A c \in Calls : call[c].token # "none" => call[c].token \in Issued
  /\ \A c \in Calls : call[c].at \in Refreshing \cup {"answered"} => call[c].token # "none"
  /\ \A c \in Calls : call[c].at = "challenged" => call[c].token = "none"
  /\ \A j \in Jars : jar[j] # "none" => jar[j] \in Issued
  /\ ended \subseteq Issued

\* OneLivePerLogin is not inductive: two rotations in flight would both mint.
Logins ==
  /\ OneLivePerLogin
  /\ \A c, d \in InFlight :
       call[c].token # "none" /\ call[d].token # "none"
         /\ origin[call[c].token] = origin[call[d].token] => c = d

\* Nor is EndedStaysEnded: what is in flight or answered will be kept later.
Ends ==
  /\ \A t \in Tokens : Live(t) => origin[t] \notin ended
  /\ \A c \in InFlight : call[c].token # "none" => origin[call[c].token] \notin ended
  /\ \A c \in Calls \cap current : call[c].at = "answered" =>
       origin[call[c].token] \notin ended
  /\ \A j \in Jars \cap current : jar[j] # "none" /\ origin[jar[j]] \notin ended

SessionsInv == TypeOK /\ Issuing /\ Logins /\ Ends

\* A step that makes no row and lets no rotation begin.
Settled ==
  /\ origin' = origin
  /\ \A t \in Tokens : /\ row[t] = "none" <=> row'[t] = "none"
                       /\ row'[t] = "live" => row[t] = "live"
  /\ \A c \in Calls : c \in InFlight' /\ call'[c].token # "none" =>
       c \in InFlight /\ call'[c].token = call[c].token

-----------------------------------------------------------------------------
\* Such a step leaves every login at most one live row.
LEMMA SettledLogins == ASSUME SessionsInv, Settled PROVE Logins'
<1>1. InFlight' \subseteq Calls /\ InFlight \subseteq Calls
  BY DEF InFlight
<1>2. OneLivePerLogin'
  BY <1>1 DEF SessionsInv, Logins, OneLivePerLogin, Settled, Live
<1>3. \A c, d \in InFlight' :
       call'[c].token # "none" /\ call'[d].token # "none"
         /\ origin'[call'[c].token] = origin'[call'[d].token] => c = d
  BY <1>1 DEF SessionsInv, Logins, Settled
<1> QED BY <1>2, <1>3 DEF Logins

\* And it makes no row that has been ended live, nor a rotation of it begin.
LEMMA SettledEnds ==
  ASSUME SessionsInv, Settled, ended' = ended
  PROVE  /\ \A t \in Tokens : Live(t)' => origin'[t] \notin ended'
         /\ \A c \in InFlight' : call'[c].token # "none" =>
              origin'[call'[c].token] \notin ended'
BY DEF SessionsInv, Ends, Settled, Live, InFlight

-----------------------------------------------------------------------------
\* Nothing is there to begin with.
THEOREM SessionsInit == Init => SessionsInv
<1> SUFFICES ASSUME Init PROVE SessionsInv
  OBVIOUS
<1> USE SessionsAssumption
<1>1. TypeOK
  BY DEF Init, Idle, TypeOK, Steps
<1>2. Issued = {} /\ InFlight = {} /\ \A t \in Tokens : ~Live(t)
  BY DEF Init, Idle, Issued, InFlight, Live
<1>3. Issuing
  BY DEF Init, Idle, Issuing, Refreshing
<1>4. Logins /\ Ends
  BY <1>2 DEF Init, Logins, OneLivePerLogin, Ends
<1> QED BY <1>1, <1>3, <1>4 DEF SessionsInv

\* The rows a login or a rotation is made of.
LEMMA MintKeeps ==
  ASSUME SessionsInv, NEW c \in Calls, NEW t \in Tokens, Mint(c, t) PROVE SessionsInv'
<1> USE SessionsAssumption
<1> DEFINE o == IF call[c].token = "none" THEN t ELSE origin[call[c].token]
<1>1. /\ call[c].at = "minting" /\ row[t] = "none"
      /\ row' = [row EXCEPT ![t] = "live"]
      /\ origin' = [origin EXCEPT ![t] = o]
      /\ call' = [call EXCEPT ![c].at = "answered", ![c].token = t]
      /\ UNCHANGED <<current, jar, leaving, changing, orphans, ended>>
  BY DEF Mint
<1>2. o \in Tokens /\ (o = t \/ row[o] # "none")
  BY <1>1 DEF SessionsInv, TypeOK, Issuing, Issued
<1>3. TypeOK'
  <2>1. call' \in [Calls -> [at : Steps, token : Tokens \cup {"none"}]]
    <3>1. call[c] \in [at : Steps, token : Tokens \cup {"none"}] /\ "answered" \in Steps
      BY DEF SessionsInv, TypeOK, Steps
    <3> QED BY <1>1, <3>1 DEF SessionsInv, TypeOK
  <2>2. row' \in [Tokens -> {"none", "live", "used", "revoked"}]
        /\ origin' \in [Tokens -> Tokens \cup {"none"}]
    BY <1>1, <1>2 DEF SessionsInv, TypeOK
  <2> QED BY <1>1, <2>1, <2>2 DEF SessionsInv, TypeOK
<1>4. /\ \A u \in Tokens \ {t} : row'[u] = row[u] /\ origin'[u] = origin[u]
      /\ row'[t] = "live" /\ origin'[t] = o
      /\ \A d \in Calls \ {c} : call'[d] = call[d]
      /\ call'[c].at = "answered" /\ call'[c].token = t
  BY <1>1, <1>2 DEF SessionsInv, TypeOK
<1>5. /\ InFlight' = InFlight \ {c} /\ c \in InFlight
      /\ \A d \in InFlight \ {c} : call'[d] = call[d]
  BY <1>1, <1>4 DEF InFlight
<1>6. Issuing'
  BY <1>1, <1>2, <1>4 DEF SessionsInv, TypeOK, Issuing, Issued, Refreshing
<1>7. \A u \in Tokens : row[u] # "none" => u # t /\ origin[u] \in Tokens \ {t} /\ origin'[u] = origin[u]
  BY <1>1, <1>4 DEF SessionsInv, Issuing, Issued
<1>8. \A u \in Tokens : Live(u) => origin[u] # o
  <2> SUFFICES ASSUME NEW u \in Tokens, Live(u), origin[u] = o PROVE FALSE
    OBVIOUS
  <2>1. row[u] # "none" /\ origin[u] # t
    BY <1>7 DEF Live
  <2>2. call[c].token # "none" /\ o = origin[call[c].token]
    BY <2>1
  <2> QED BY <2>2, <1>5 DEF SessionsInv, Logins, OneLivePerLogin
<1>9. \A d \in InFlight \ {c} : call[d].token # "none" =>
        call[d].token \in Tokens \ {t} /\ origin[call[d].token] # o
              /\ origin'[call[d].token] = origin[call[d].token]
  <2> SUFFICES ASSUME NEW d \in InFlight \ {c}, call[d].token # "none"
               PROVE call[d].token \in Tokens \ {t} /\ origin[call[d].token] # o
                       /\ origin'[call[d].token] = origin[call[d].token]
    OBVIOUS
  <2>1. call[d].token \in Tokens /\ row[call[d].token] # "none"
    BY DEF SessionsInv, Issuing, Issued, InFlight
  <2>2. call[d].token # t /\ origin[call[d].token] # t
          /\ origin'[call[d].token] = origin[call[d].token]
    BY <2>1, <1>7
  <2>3. call[c].token # "none" => origin[call[d].token] # origin[call[c].token]
    BY <1>5 DEF SessionsInv, Logins
  <2> QED BY <2>1, <2>2, <2>3
<1>10. OneLivePerLogin'
  <2>1. \A u \in Tokens : Live(u)' => u = t \/ (Live(u) /\ origin'[u] = origin[u])
    <3> SUFFICES ASSUME NEW u \in Tokens, row'[u] = "live", u # t
                 PROVE  row[u] = "live" /\ origin'[u] = origin[u]
      BY DEF Live
    <3> QED BY <1>4
  <2>2. \A u, v \in Tokens : Live(u)' /\ Live(v)' /\ origin'[u] = origin'[v] => u = v
    BY <2>1, <1>4, <1>8 DEF SessionsInv, Logins, OneLivePerLogin
  <2>3. \A d \in InFlight' : call'[d].token # "none" =>
          \A u \in Tokens : Live(u)' => origin'[u] # origin'[call'[d].token]
    BY <2>1, <1>4, <1>5, <1>9 DEF SessionsInv, Logins, OneLivePerLogin
  <2> QED BY <2>2, <2>3 DEF OneLivePerLogin
<1>11. Logins'
  BY <1>5, <1>9, <1>10 DEF SessionsInv, Logins
<1>12. o \notin ended
  <2>1. CASE call[c].token = "none"
    BY <2>1, <1>1 DEF SessionsInv, Issuing, Issued
  <2>2. CASE call[c].token # "none"
    BY <2>2, <1>5 DEF SessionsInv, Ends
  <2> QED BY <2>1, <2>2
<1>13. Ends'
  <2>1. \A u \in Tokens : Live(u)' => origin'[u] \notin ended'
    BY <1>1, <1>4, <1>12 DEF SessionsInv, Ends, Live
  <2>2. \A d \in InFlight' : call'[d].token # "none" => origin'[call'[d].token] \notin ended'
    <3>1. ASSUME NEW d \in InFlight \ {c}, call[d].token # "none"
          PROVE  origin'[call[d].token] \notin ended
      <4>1. origin'[call[d].token] = origin[call[d].token]
        BY <3>1, <1>9
      <4> QED BY <3>1, <4>1 DEF SessionsInv, Ends
    <3>2. \A d \in InFlight' : d \in InFlight \ {c} /\ call'[d] = call[d]
      BY <1>5
    <3>3. ended' = ended
      BY <1>1
    <3> QED BY <3>1, <3>2, <3>3
  <2>3. \A d \in Calls \cap current' : call'[d].at = "answered" =>
          origin'[call'[d].token] \notin ended'
    <3>1. ASSUME NEW d \in (Calls \cap current) \ {c}, call[d].at = "answered"
          PROVE  origin'[call[d].token] \notin ended
      <4>1. call[d].token \in Tokens /\ row[call[d].token] # "none"
        BY <3>1 DEF SessionsInv, Issuing, Issued
      <4> QED BY <3>1, <4>1, <1>7 DEF SessionsInv, Ends
    <3>2. origin'[call'[c].token] \notin ended
      BY <1>4, <1>12
    <3>3. \A d \in Calls \ {c} : call'[d] = call[d]
      BY <1>4
    <3>4. ended' = ended /\ current' = current
      BY <1>1
    <3> HIDE DEF o
    <3> QED BY <3>1, <3>2, <3>3, <3>4
  <2>4. \A j \in Jars \cap current' : jar'[j] # "none" /\ origin'[jar'[j]] \notin ended'
    BY <1>1, <1>7 DEF SessionsInv, Ends, Issuing, Issued
  <2> QED BY <2>1, <2>2, <2>3, <2>4 DEF Ends
<1> QED BY <1>3, <1>6, <1>11, <1>13 DEF SessionsInv

\* The conditional update of a rotation.
LEMMA ClaimKeeps == ASSUME SessionsInv, NEW c \in Calls, Claim(c) PROVE SessionsInv'
<1> USE SessionsAssumption
<1> DEFINE t == call[c].token
<1>1. /\ call[c].at = "read" /\ t \in Tokens
      /\ UNCHANGED <<current, origin, jar, leaving, changing, orphans, ended>>
  BY DEF Claim, SessionsInv, Issuing, Issued, Refreshing
<1>2. CASE ~Live(t)
  <2>1. row' = row /\ call' = [call EXCEPT ![c].at = "theft"]
    BY <1>2 DEF Claim, Claimable
  <2>2. TypeOK'
    BY <1>1, <2>1 DEF SessionsInv, TypeOK, Steps, Refreshing
  <2>3. Issuing' /\ Settled
    BY <1>1, <2>1 DEF SessionsInv, TypeOK, Issuing, Issued, Refreshing, Settled, InFlight
  <2>4. Ends'
    BY <1>1, <2>1, <2>3, SettledEnds DEF SessionsInv, TypeOK, Ends
  <2> QED BY <2>2, <2>3, <2>4, SettledLogins DEF SessionsInv
<1>3. CASE Live(t)
  <2>1. row' = [row EXCEPT ![t] = "used"] /\ call' = [call EXCEPT ![c].at = "rotated"]
    BY <1>3 DEF Claim, Claimable
  <2>2. /\ \A u \in Tokens \ {t} : row'[u] = row[u]
        /\ row'[t] = "used" /\ row[t] = "live" /\ origin' = origin
        /\ \A d \in Calls \ {c} : call'[d] = call[d]
        /\ call'[c].at = "rotated" /\ call'[c].token = t
    BY <1>1, <1>3, <2>1 DEF SessionsInv, TypeOK, Live
  <2>3. InFlight' = InFlight \cup {c} /\ c \notin InFlight
    BY <1>1, <2>2 DEF InFlight
  <2>4. TypeOK' /\ Issuing'
    BY <1>1, <2>1, <2>2 DEF SessionsInv, TypeOK, Steps, Issuing, Issued, Refreshing
  <2>5. \A d \in InFlight : call[d].token # "none" => origin[call[d].token] # origin[t]
    BY <1>1, <1>3 DEF SessionsInv, Logins, OneLivePerLogin
  <2>6. \A u \in Tokens : Live(u)' => Live(u) /\ origin[u] # origin[t]
    BY <1>1, <1>3, <2>2 DEF SessionsInv, Logins, OneLivePerLogin, Live
  <2>7. OneLivePerLogin'
    <3>1. \A d \in InFlight : call'[d] = call[d]
      BY <2>2, <2>3 DEF InFlight
    <3> QED BY <3>1, <2>2, <2>3, <2>6 DEF SessionsInv, Logins, OneLivePerLogin
  <2>8. Logins'
    <3>1. \A d \in InFlight : call'[d] = call[d]
      BY <2>2, <2>3 DEF InFlight
    <3> QED BY <3>1, <2>2, <2>3, <2>5, <2>7 DEF SessionsInv, Logins
  <2>9. Ends'
    <3>1. \A d \in InFlight : call'[d] = call[d]
      BY <2>2, <2>3 DEF InFlight
    <3>2. origin[t] \notin ended
      BY <1>1, <1>3 DEF SessionsInv, Ends
    <3> QED BY <1>1, <3>1, <3>2, <2>2, <2>3, <2>6 DEF SessionsInv, Ends
  <2> QED BY <2>4, <2>8, <2>9 DEF SessionsInv
<1> QED BY <1>2, <1>3

\* An event that ends all sessions, whatever becomes of its own call.
LEMMA EndKeeps ==
  ASSUME SessionsInv, EndSessions, UNCHANGED <<origin, jar, leaving, changing, orphans>>,
         call' \in [Calls -> [at : Steps, token : Tokens \cup {"none"}]],
         \A c \in Calls :
           \/ call'[c] = call[c]
           \/ /\ call'[c].at \notin Refreshing \cup {"answered", "rotated", "minting", "challenged"}
              /\ call'[c].token = "none"
  PROVE  SessionsInv'
<1> USE SessionsAssumption
<1>1. /\ current' = {} /\ ended' = ended \cup Ending
      /\ row' = [t \in Tokens |-> IF row[t] = "live" THEN "revoked" ELSE row[t]]
  BY DEF EndSessions, Bump, AllRevoked, Live
<1>2. Ending \subseteq Issued
  BY DEF SessionsInv, Issuing, Ending, Issued
<1>3. TypeOK'
  BY <1>1, <1>2 DEF SessionsInv, TypeOK, Issued
<1>4. Issued' = Issued /\ \A t \in Tokens : ~Live(t)'
  BY <1>1 DEF Issued, Live, SessionsInv, TypeOK
<1>5. Issuing'
  <2>1. ended' \subseteq Issued'
    BY <1>1, <1>2, <1>4 DEF SessionsInv, Issuing
  <2>2. \A t \in Tokens : row'[t] # "none" => origin'[t] \in Issued'
    BY <1>1, <1>4 DEF SessionsInv, Issuing
  <2>3. \A j \in Jars : jar'[j] # "none" => jar'[j] \in Issued'
    BY <1>4 DEF SessionsInv, Issuing
  <2>4. \A c \in Calls : /\ call'[c].token # "none" => call'[c].token \in Issued'
                         /\ call'[c].at \in Refreshing \cup {"answered"} => call'[c].token # "none"
                         /\ call'[c].at = "challenged" => call'[c].token = "none"
    BY <1>4 DEF SessionsInv, Issuing
  <2> QED BY <2>1, <2>2, <2>3, <2>4 DEF Issuing
<1>6. \A c \in InFlight' : c \in InFlight /\ call'[c] = call[c]
  BY DEF InFlight
<1>7. Settled
  BY <1>1, <1>6 DEF Settled, SessionsInv, TypeOK
<1>8. Ends'
  <2>1. \A c \in InFlight' : call'[c].token # "none" => origin'[call'[c].token] \notin ended'
    <3> SUFFICES ASSUME NEW c \in InFlight, call'[c] = call[c], call[c].token # "none"
                 PROVE  origin[call[c].token] \notin ended \cup Ending
      BY <1>1, <1>6
    <3> QED BY DEF SessionsInv, Ends, Ending
  <2> QED BY <1>1, <1>4, <2>1 DEF Ends
<1> QED BY <1>3, <1>5, <1>7, <1>8, SettledLogins DEF SessionsInv

-----------------------------------------------------------------------------
\* A JWT that works was worked out before, or is stored over one that is not.
KeepsCurrent ==
  /\ \A c \in Calls \cap current' : call'[c].at = "answered" =>
       c \in current /\ call'[c] = call[c]
  /\ \A j \in Jars \cap current' :
       \/ j \in current /\ jar'[j] = jar[j]
       \/ jar'[j] # "none" /\ origin[jar'[j]] \notin ended

\* A step that ends nothing, makes nothing, and lets no rotation begin.
Easy == TypeOK' /\ Issuing' /\ Settled /\ KeepsCurrent /\ ended' = ended

\* Such a step keeps the invariant.
LEMMA EasyKeeps == ASSUME SessionsInv, Easy PROVE SessionsInv'
<1>1. Logins'
  BY SettledLogins DEF Easy
<1>2. Ends'
  <2>1. \A c \in Calls \cap current' : call'[c].at = "answered" =>
          origin'[call'[c].token] \notin ended'
    BY DEF Easy, KeepsCurrent, Settled, SessionsInv, Ends
  <2>2. \A j \in Jars \cap current' : jar'[j] # "none" /\ origin'[jar'[j]] \notin ended'
    BY DEF Easy, KeepsCurrent, Settled, SessionsInv, Ends
  <2> QED BY <2>1, <2>2, SettledEnds DEF Easy, Ends
<1> QED BY <1>1, <1>2 DEF Easy, SessionsInv

\* Every step of the API and of the clients keeps the invariant.
THEOREM SessionsStep == SessionsInv /\ [Next]_vars => SessionsInv'
<1> SUFFICES ASSUME SessionsInv, [Next]_vars PROVE SessionsInv'
  OBVIOUS
<1> USE SessionsAssumption
<1>1. ASSUME NEW c \in Calls, ConfirmCode(c) PROVE Easy
  <2>1. TypeOK'
    BY <1>1 DEF ConfirmCode, SessionsInv, TypeOK, Steps, Refreshing
  <2>2. Issuing'
    BY <1>1 DEF ConfirmCode, SessionsInv, TypeOK, Issuing, Issued, Refreshing
  <2>3. Settled
    BY <1>1 DEF ConfirmCode, SessionsInv, TypeOK, Issuing, Settled, InFlight, Refreshing
  <2>4. KeepsCurrent
    BY <1>1 DEF ConfirmCode, SessionsInv, TypeOK, Issuing, Issued, Refreshing, Ends, KeepsCurrent
  <2> QED BY <1>1, <2>1, <2>2, <2>3, <2>4 DEF Easy, ConfirmCode
<1>2. ASSUME NEW c \in Calls, Find(c) PROVE Easy
  <2>1. TypeOK'
    BY <1>2 DEF Find, Live, SessionsInv, TypeOK, Steps, Refreshing
  <2>2. Issuing'
    BY <1>2 DEF Find, Live, SessionsInv, TypeOK, Issuing, Issued, Refreshing
  <2>3. Settled
    BY <1>2 DEF Find, Live, SessionsInv, TypeOK, Issuing, Settled, InFlight, Refreshing
  <2>4. KeepsCurrent
    BY <1>2 DEF Find, Live, SessionsInv, TypeOK, Issuing, Issued, Refreshing, Ends, KeepsCurrent
  <2> QED BY <1>2, <2>1, <2>2, <2>3, <2>4 DEF Easy, Find, Live
<1>3. ASSUME NEW c \in Calls, ReadVersion(c) PROVE Easy
  <2>1. TypeOK'
    BY <1>3 DEF ReadVersion, SessionsInv, TypeOK, Steps, Refreshing
  <2>2. Issuing'
    BY <1>3 DEF ReadVersion, SessionsInv, TypeOK, Issuing, Issued, Refreshing
  <2>3. Settled
    BY <1>3 DEF ReadVersion, SessionsInv, TypeOK, Issuing, Settled, InFlight, Refreshing
  <2>4. KeepsCurrent
    BY <1>3 DEF ReadVersion, SessionsInv, TypeOK, Issuing, Issued, Refreshing, Ends, KeepsCurrent
  <2> QED BY <1>3, <2>1, <2>2, <2>3, <2>4 DEF Easy, ReadVersion
<1>4. ASSUME NEW c \in Calls, NEW twoFa \in BOOLEAN, SignIn(c, twoFa) PROVE Easy
  <2>1. TypeOK'
    BY <1>4 DEF SignIn, SessionsInv, TypeOK, Steps, Refreshing
  <2>2. Issuing'
    <3>1. /\ row' = row /\ origin' = origin /\ ended' = ended /\ Issued' = Issued
          /\ \A d \in Calls \ {c} : call'[d] = call[d]
          /\ call'[c].at \in {"challenged", "minting"} /\ call'[c].token = "none"
      BY <1>4 DEF SignIn, SessionsInv, TypeOK, Issued
    <3>2. \A k \in Jars : jar'[k] = jar[k] \/ jar'[k] = "none"
      BY <1>4 DEF SignIn, SessionsInv, TypeOK
    <3> QED BY <3>1, <3>2 DEF SessionsInv, Issuing, Refreshing
  <2>3. Settled
    BY <1>4 DEF SignIn, SessionsInv, TypeOK, Issuing, Settled, InFlight, Refreshing
  <2>4. KeepsCurrent
    BY <1>4 DEF SignIn, SessionsInv, TypeOK, Issuing, Issued, Refreshing, Ends, KeepsCurrent
  <2> QED BY <1>4, <2>1, <2>2, <2>3, <2>4 DEF Easy, SignIn
<1>5. ASSUME NEW c \in Calls, Ask(c) PROVE Easy
  <2>1. TypeOK'
    BY <1>5 DEF Ask, SessionsInv, TypeOK, Steps, Refreshing
  <2>2. Issuing'
    BY <1>5 DEF Ask, SessionsInv, TypeOK, Issuing, Issued, Refreshing
  <2>3. Settled
    BY <1>5 DEF Ask, SessionsInv, TypeOK, Issuing, Settled, InFlight, Refreshing
  <2>4. KeepsCurrent
    BY <1>5 DEF Ask, SessionsInv, TypeOK, Issuing, Issued, Refreshing, Ends, KeepsCurrent
  <2> QED BY <1>5, <2>1, <2>2, <2>3, <2>4 DEF Easy, Ask
<1>6. ASSUME NEW c \in Calls, Store(c) PROVE Easy
  <2>1. TypeOK'
    BY <1>6 DEF Store, Idle, SessionsInv, TypeOK, Steps, Refreshing
  <2>2. Issuing'
    BY <1>6 DEF Store, Idle, SessionsInv, TypeOK, Issuing, Issued, Refreshing
  <2>3. Settled
    BY <1>6 DEF Store, Idle, SessionsInv, TypeOK, Issuing, Settled, InFlight, Refreshing
  <2>4. KeepsCurrent
    BY <1>6 DEF Store, Idle, SessionsInv, TypeOK, Issuing, Issued, Refreshing, Ends, KeepsCurrent
  <2> QED BY <1>6, <2>1, <2>2, <2>3, <2>4 DEF Easy, Store, Idle
<1>7. ASSUME NEW c \in Calls, Abandon(c) PROVE Easy
  <2>1. TypeOK'
    BY <1>7 DEF Abandon, SessionsInv, TypeOK, Steps, Refreshing
  <2>2. Issuing'
    BY <1>7 DEF Abandon, SessionsInv, TypeOK, Issuing, Issued, Refreshing
  <2>3. Settled
    BY <1>7 DEF Abandon, SessionsInv, TypeOK, Issuing, Settled, InFlight, Refreshing
  <2>4. KeepsCurrent
    BY <1>7 DEF Abandon, SessionsInv, TypeOK, Issuing, Issued, Refreshing, Ends, KeepsCurrent
  <2> QED BY <1>7, <2>1, <2>2, <2>3, <2>4 DEF Easy, Abandon
<1>8. ASSUME NEW c \in Calls, GiveUp(c) PROVE Easy
  <2>1. TypeOK'
    BY <1>8 DEF GiveUp, Idle, SessionsInv, TypeOK, Steps, Refreshing
  <2>2. Issuing'
    BY <1>8 DEF GiveUp, Idle, SessionsInv, TypeOK, Issuing, Issued, Refreshing
  <2>3. Settled
    BY <1>8 DEF GiveUp, Idle, SessionsInv, TypeOK, Issuing, Settled, InFlight, Refreshing
  <2>4. KeepsCurrent
    BY <1>8 DEF GiveUp, Idle, SessionsInv, TypeOK, Issuing, Issued, Refreshing, Ends, KeepsCurrent
  <2> QED BY <1>8, <2>1, <2>2, <2>3, <2>4 DEF Easy, GiveUp, Idle
<1>9. ASSUME NEW j \in Jars, SignOut(j) PROVE Easy
  <2>1. TypeOK'
    BY <1>9 DEF SignOut, SessionsInv, TypeOK, Steps, Refreshing
  <2>2. Issuing'
    BY <1>9 DEF SignOut, SessionsInv, TypeOK, Issuing, Issued, Refreshing
  <2>3. Settled
    BY <1>9 DEF SignOut, SessionsInv, TypeOK, Issuing, Settled, InFlight, Refreshing
  <2>4. KeepsCurrent
    BY <1>9 DEF SignOut, SessionsInv, TypeOK, Issuing, Issued, Refreshing, Ends, KeepsCurrent
  <2> QED BY <1>9, <2>1, <2>2, <2>3, <2>4 DEF Easy, SignOut
<1>10. ASSUME NEW j \in Jars, RevokeOne(j) PROVE Easy
  <2>1. TypeOK'
    BY <1>10 DEF RevokeOne, Live, SessionsInv, TypeOK, Steps, Refreshing
  <2>2. Issuing'
    BY <1>10 DEF RevokeOne, Live, SessionsInv, TypeOK, Issuing, Issued, Refreshing
  <2>3. Settled
    BY <1>10 DEF RevokeOne, Live, SessionsInv, TypeOK, Issuing, Settled, InFlight, Refreshing
  <2>4. KeepsCurrent
    BY <1>10 DEF RevokeOne, Live, SessionsInv, TypeOK, Issuing, Issued, Refreshing, Ends, KeepsCurrent
  <2> QED BY <1>10, <2>1, <2>2, <2>3, <2>4 DEF Easy, RevokeOne, Live
<1>11. ASSUME NEW j \in Jars, Forget(j) PROVE Easy
  <2>1. TypeOK'
    BY <1>11 DEF Forget, SessionsInv, TypeOK, Steps, Refreshing
  <2>2. Issuing'
    BY <1>11 DEF Forget, SessionsInv, TypeOK, Issuing, Issued, Refreshing
  <2>3. Settled
    BY <1>11 DEF Forget, SessionsInv, TypeOK, Issuing, Settled, InFlight, Refreshing
  <2>4. KeepsCurrent
    BY <1>11 DEF Forget, SessionsInv, TypeOK, Issuing, Issued, Refreshing, Ends, KeepsCurrent
  <2> QED BY <1>11, <2>1, <2>2, <2>3, <2>4 DEF Easy, Forget
<1>12. ASSUME ChangePassword PROVE Easy
  <2>1. TypeOK'
    BY <1>12 DEF ChangePassword, Bump, SessionsInv, TypeOK, Steps, Refreshing
  <2>2. Issuing'
    BY <1>12 DEF ChangePassword, Bump, SessionsInv, TypeOK, Issuing, Issued, Refreshing
  <2>3. Settled
    BY <1>12 DEF ChangePassword, Bump, SessionsInv, TypeOK, Issuing, Settled, InFlight, Refreshing
  <2>4. KeepsCurrent
    BY <1>12 DEF ChangePassword, Bump, SessionsInv, TypeOK, Issuing, Issued, Refreshing, Ends, KeepsCurrent
  <2> QED BY <1>12, <2>1, <2>2, <2>3, <2>4 DEF Easy, ChangePassword, Bump
<1>13. ASSUME RevokeAfterChange PROVE Easy
  <2>1. TypeOK'
    BY <1>13 DEF RevokeAfterChange, AllRevoked, Live, SessionsInv, TypeOK, Steps, Refreshing
  <2>2. Issuing'
    BY <1>13 DEF RevokeAfterChange, AllRevoked, Live, SessionsInv, TypeOK, Issuing, Issued, Refreshing
  <2>3. Settled
    BY <1>13 DEF RevokeAfterChange, AllRevoked, Live, SessionsInv, TypeOK, Issuing, Settled, InFlight, Refreshing
  <2>4. KeepsCurrent
    BY <1>13 DEF RevokeAfterChange, AllRevoked, Live, SessionsInv, TypeOK, Issuing, Issued, Refreshing, Ends, KeepsCurrent
  <2> QED BY <1>13, <2>1, <2>2, <2>3, <2>4 DEF Easy, RevokeAfterChange, AllRevoked, Live
<1>14. ASSUME CrashInChange PROVE Easy
  <2>1. TypeOK'
    BY <1>14 DEF CrashInChange, SessionsInv, TypeOK, Steps, Refreshing
  <2>2. Issuing'
    BY <1>14 DEF CrashInChange, SessionsInv, TypeOK, Issuing, Issued, Refreshing
  <2>3. Settled
    BY <1>14 DEF CrashInChange, SessionsInv, TypeOK, Issuing, Settled, InFlight, Refreshing
  <2>4. KeepsCurrent
    BY <1>14 DEF CrashInChange, SessionsInv, TypeOK, Issuing, Issued, Refreshing, Ends, KeepsCurrent
  <2> QED BY <1>14, <2>1, <2>2, <2>3, <2>4 DEF Easy, CrashInChange
<1>15. ASSUME ForceLogout PROVE Easy
  <2>1. TypeOK'
    BY <1>15 DEF ForceLogout, Bump, SessionsInv, TypeOK, Steps, Refreshing
  <2>2. Issuing'
    BY <1>15 DEF ForceLogout, Bump, SessionsInv, TypeOK, Issuing, Issued, Refreshing
  <2>3. Settled
    BY <1>15 DEF ForceLogout, Bump, SessionsInv, TypeOK, Issuing, Settled, InFlight, Refreshing
  <2>4. KeepsCurrent
    BY <1>15 DEF ForceLogout, Bump, SessionsInv, TypeOK, Issuing, Issued, Refreshing, Ends, KeepsCurrent
  <2> QED BY <1>15, <2>1, <2>2, <2>3, <2>4 DEF Easy, ForceLogout, Bump
<1>16. ASSUME UNCHANGED vars PROVE Easy
  <2>1. TypeOK'
    BY <1>16 DEF vars, SessionsInv, TypeOK, Steps, Refreshing
  <2>2. Issuing'
    BY <1>16 DEF vars, SessionsInv, TypeOK, Issuing, Issued, Refreshing
  <2>3. Settled
    BY <1>16 DEF vars, SessionsInv, TypeOK, Issuing, Settled, InFlight, Refreshing
  <2>4. KeepsCurrent
    BY <1>16 DEF vars, SessionsInv, TypeOK, Issuing, Issued, Refreshing, Ends, KeepsCurrent
  <2> QED BY <1>16, <2>1, <2>2, <2>3, <2>4 DEF Easy, vars
<1>17. ASSUME NEW c \in Calls, HandleReuse(c) PROVE SessionsInv'
  <2>1. /\ call' = [call EXCEPT ![c] = [at |-> "failed", token |-> "none"]]
        /\ EndSessions /\ UNCHANGED <<origin, jar, leaving, changing, orphans>>
    BY <1>17 DEF HandleReuse
  <2>2. call' \in [Calls -> [at : Steps, token : Tokens \cup {"none"}]]
    BY <2>1 DEF SessionsInv, TypeOK, Steps
  <2>3. \A d \in Calls :
          \/ call'[d] = call[d]
          \/ /\ call'[d].at \notin Refreshing \cup {"answered", "rotated", "minting", "challenged"}
             /\ call'[d].token = "none"
    BY <2>1 DEF SessionsInv, TypeOK, Refreshing
  <2> QED BY <2>1, <2>2, <2>3, EndKeeps
<1>18. ASSUME ResetPassword PROVE SessionsInv'
  BY <1>18, EndKeeps DEF ResetPassword, SessionsInv, TypeOK
<1>19. ASSUME NEW c \in Calls, NEW t \in Tokens, Mint(c, t) PROVE SessionsInv'
  BY <1>19, MintKeeps
<1>20. ASSUME NEW c \in Calls, Claim(c) PROVE SessionsInv'
  BY <1>20, ClaimKeeps
<1> QED
  BY <1>1, <1>2, <1>3, <1>4, <1>5, <1>6, <1>7, <1>8, <1>9, <1>10, <1>11, <1>12, <1>13, <1>14, <1>15, <1>16, <1>17, <1>18, <1>19, <1>20, EasyKeeps DEF Next

-----------------------------------------------------------------------------
\* A login never forks (refreshToken): of the rows that descend from it at most
\* one is live or about to be made, for any number of requests at once.
THEOREM OneLiveAlways == Spec => []OneLivePerLogin
<1>1. SessionsInv => OneLivePerLogin
  BY DEF SessionsInv, Logins
<1> QED BY SessionsInit, SessionsStep, <1>1, PTL DEF Spec

\* What a reset, a change of address or a reuse has ended (resetPassword,
\* handleRefreshTokenReuse) stays ended, for any interleaving of clients.
THEOREM EndedAlways == Spec => []EndedStaysEnded
<1>1. SessionsInv => EndedStaysEnded
  BY DEF SessionsInv, Ends, EndedStaysEnded
<1> QED BY SessionsInit, SessionsStep, <1>1, PTL DEF Spec

\* The types hold in every reachable state.
THEOREM TypeCorrect == Spec => []TypeOK
<1>1. SessionsInv => TypeOK
  BY DEF SessionsInv
<1> QED BY SessionsInit, SessionsStep, <1>1, PTL DEF Spec

-----------------------------------------------------------------------------
(* A page's own refreshes, as long as no page was left in the middle: what *)
(* becomes of a token between its rotation and the answer that replaces it *)
(* in the jar.                                                             *)

\* A rotation whose answer will replace the token that the jar still keeps.
Replacing(c) == Rotating(c) /\ call[c].at \in {"rotated", "minting", "answered"}

\* attemptRefresh: at most one refresh of a page is under way.
OneRefresh ==
  \A c, d \in Calls : TabOf[c] = TabOf[d] /\ Rotating(c) /\ Rotating(d) => c = d

\* A token stays with the jar it was made for, and an answer is nobody else's.
OwnTokens ==
  /\ \A c \in Calls : \A j \in Jars :
       call[c].token # "none" /\ jar[j] = call[c].token =>
         JarOf[c] = j /\ call[c].at # "answered"
  /\ \A c, d \in Calls :
       call[c].token # "none" /\ call[d].token = call[c].token =>
         JarOf[c] = JarOf[d] /\ (call[c].at = "answered" => c = d)
  /\ \A j, k \in Jars : jar[j] # "none" /\ jar[j] = jar[k] => j = k

\* A token that was rotated is not presented again: the jar that still has it
\* waits for the answer.
Spent(t) == row[t] = "used"
NotSpent ==
  /\ \A c \in Calls : call[c].at \in {"sent", "read", "answered"} => ~Spent(call[c].token)
  /\ \A c \in Calls : call[c].at = "theft" => row[call[c].token] = "revoked"
  /\ \A j \in Jars : jar[j] # "none" /\ Spent(jar[j]) =>
       \E c \in Calls : JarOf[c] = j /\ Replacing(c)

PageInv == orphans = {} => OneRefresh /\ OwnTokens /\ NotSpent

\* The invariant of the sessions, and that one while no page was left.
SafeInv == SessionsInv /\ OneRefresh /\ OwnTokens /\ NotSpent

\* A step in which no call moves on but within its refresh, no jar is filled
\* and no token is rotated.
Quiet ==
  /\ origin' = origin
  /\ \A c \in Calls :
       /\ call'[c].token = call[c].token
       /\ \/ call'[c].at = call[c].at
          \/ /\ call[c].at = "rotated" /\ call'[c].at = "minting"
          \/ /\ call[c].at = "challenged" /\ call'[c].at = "rotated"
             /\ call[c].token = "none"
  /\ \A j \in Jars : jar'[j] \in {jar[j], "none"}
  /\ \A t \in Tokens : /\ Spent(t)' => Spent(t)
                       /\ row[t] = "revoked" => row'[t] = "revoked"

\* Such a step keeps what is said of the pages.
LEMMA QuietKeeps ==
  ASSUME SafeInv, Quiet
  PROVE  (OneRefresh /\ OwnTokens /\ NotSpent)'
<1> USE SessionsAssumption DEF SafeInv, SessionsInv, TypeOK, Issuing, Issued
<1>1. \A c \in Calls : (Rotating(c)' <=> Rotating(c)) /\ (Replacing(c) => Replacing(c)')
  BY DEF Quiet, Rotating, Replacing, InFlight, Refreshing
<1>2. OneRefresh'
  BY <1>1 DEF OneRefresh
<1>3. OwnTokens'
  BY DEF Quiet, OwnTokens
<1>4. NotSpent'
  <2>1. \A c \in Calls :
          /\ call'[c].at \in {"sent", "read", "answered"} => row'[call'[c].token] # "used"
          /\ call'[c].at = "theft" => row'[call'[c].token] = "revoked"
    BY DEF Quiet, NotSpent, Spent, Refreshing
  <2>2. \A j \in Jars : jar'[j] # "none" /\ row'[jar'[j]] = "used" =>
          \E c \in Calls : JarOf[c] = j /\ Replacing(c)'
    BY <1>1 DEF Quiet, NotSpent, Spent
  <2> QED BY <2>1, <2>2 DEF NotSpent, Spent
<1> QED BY <1>2, <1>3, <1>4

\* One page to a jar: the app of a phone, or a browser with one tab.
OnePage == \A c, d \in Calls : JarOf[c] = JarOf[d] => TabOf[c] = TabOf[d]

\* The step in which a call presents the token of its jar: no other call of the
\* page is refreshing, so the token is not spent.
LEMMA AskSafe ==
  ASSUME OnePage, SafeInv, orphans = {}, NEW c \in Calls, Ask(c)
  PROVE  (OneRefresh /\ OwnTokens /\ NotSpent)'
<1> USE SessionsAssumption DEF SafeInv, SessionsInv, TypeOK, Issuing, Issued, Ask
<1>1. /\ \A d \in Calls \ {c} : call'[d] = call[d] /\ Rotating(d)' = Rotating(d)
      /\ \A d \in Calls \ {c} : TabOf[d] = TabOf[c] => ~Rotating(d)
      /\ ~Rotating(c) /\ call'[c].at = "sent" /\ call'[c].token = jar[JarOf[c]]
      /\ row' = row /\ origin' = origin /\ jar' = jar
  BY DEF SingleFlight, Rotating, InFlight, Refreshing
<1>2. OneRefresh'
  BY <1>1 DEF OneRefresh
<1>3. OwnTokens'
  <2>1. JarOf[c] \in Jars
    OBVIOUS
  <2>2. \A d \in Calls : call[d].token = jar[JarOf[c]] =>
          JarOf[d] = JarOf[c] /\ call[d].at # "answered"
    BY <2>1 DEF OwnTokens
  <2> QED BY <1>1, <2>1, <2>2 DEF OwnTokens
<1>4. ~Spent(jar[JarOf[c]])
  <2>1. ASSUME NEW d \in Calls, JarOf[d] = JarOf[c] PROVE ~Replacing(d)
    BY <1>1, <2>1 DEF OnePage, Replacing
  <2> QED BY <2>1 DEF NotSpent
<1>5. NotSpent'
  BY <1>1, <1>4 DEF NotSpent, Spent, Replacing
<1> QED BY <1>2, <1>3, <1>5

\* The claim of a rotation spends a token that nobody else is presenting.
LEMMA ClaimSafe ==
  ASSUME OnePage, SafeInv, NEW c \in Calls, Claim(c)
  PROVE  (OneRefresh /\ OwnTokens /\ NotSpent)'
<1> USE SessionsAssumption DEF SafeInv, SessionsInv, TypeOK, Issuing, Issued
<1>1. /\ \A d \in Calls \ {c} : call'[d] = call[d] /\ Rotating(d)' = Rotating(d)
      /\ Rotating(c) /\ Rotating(c)' /\ call'[c].token = call[c].token
      /\ call[c].token \in Tokens /\ call[c].at = "read"
      /\ call'[c].at \in {"rotated", "theft"}
      /\ origin' = origin /\ jar' = jar
  BY DEF Claim, Claimable, Live, Rotating, InFlight, Refreshing
<1>2. OneRefresh'
  BY <1>1 DEF OneRefresh
<1>3. OwnTokens'
  BY <1>1 DEF OwnTokens
<1>4. \A d \in Calls \ {c} : call[d].token = call[c].token =>
        call[d].at \notin Refreshing \cup {"answered"}
  BY <1>1 DEF OneRefresh, OwnTokens, OnePage, Rotating
<1>5. \/ /\ row' = row /\ row[call[c].token] = "revoked" /\ call'[c].at = "theft"
      \/ /\ row' = [row EXCEPT ![call[c].token] = "used"] /\ call'[c].at = "rotated"
  BY <1>1 DEF Claim, Claimable, Live, NotSpent, Spent, Refreshing
<1>6. NotSpent'
  <2>1. \A d \in Calls :
          /\ call'[d].at \in {"sent", "read", "answered"} => row'[call'[d].token] # "used"
          /\ call'[d].at = "theft" => row'[call'[d].token] = "revoked"
    BY <1>1, <1>4, <1>5 DEF NotSpent, Spent, Refreshing
  <2>2. ASSUME NEW j \in Jars, jar'[j] # "none", row'[jar'[j]] = "used"
        PROVE  \E d \in Calls : JarOf[d] = j /\ Replacing(d)'
    <3>1. CASE Spent(jar[j])
      BY <1>1, <2>2, <3>1 DEF NotSpent, Replacing
    <3>2. CASE ~Spent(jar[j])
      <4>1. jar[j] = call[c].token /\ call'[c].at = "rotated"
        BY <1>1, <1>5, <2>2, <3>2 DEF Spent
      <4> QED BY <1>1, <4>1 DEF OwnTokens, Replacing
    <3> QED BY <3>1, <3>2
  <2> QED BY <2>1, <2>2 DEF NotSpent, Spent
<1> QED BY <1>2, <1>3, <1>6

\* A new row has a token that nobody has yet.
LEMMA MintSafe ==
  ASSUME SafeInv, NEW c \in Calls, NEW t \in Tokens, Mint(c, t)
  PROVE  (OneRefresh /\ OwnTokens /\ NotSpent)'
<1> USE SessionsAssumption DEF SafeInv, SessionsInv, TypeOK, Issuing, Issued
<1>1. /\ call[c].at = "minting" /\ call'[c].at = "answered" /\ call'[c].token = t
      /\ \A d \in Calls \ {c} : call'[d] = call[d]
      /\ jar' = jar /\ row' = [row EXCEPT ![t] = "live"] /\ row[t] = "none"
      /\ t # "none"
  BY DEF Mint
<1>2. /\ \A d \in Calls : call[d].token # t
      /\ \A j \in Jars : jar[j] # t
  BY <1>1
<1>3. \A d \in Calls : Rotating(d)' = Rotating(d)
  <2>1. ASSUME NEW d \in Calls \ {c} PROVE Rotating(d)' = Rotating(d)
    <3>1. call[d].at = "answered" => origin'[call[d].token] = origin[call[d].token]
      BY <1>1, <1>2 DEF Mint, Refreshing
    <3> QED BY <1>1, <3>1 DEF Rotating, InFlight
  <2>2. CASE call[c].token = "none"
    <3>1. origin'[t] = t
      BY <2>2 DEF Mint
    <3> QED BY <1>1, <2>1, <2>2, <3>1 DEF Rotating, InFlight, Refreshing
  <2>3. CASE call[c].token # "none"
    <3>1. origin'[t] = origin[call[c].token] /\ origin[call[c].token] # t
      BY <1>1, <2>3 DEF Mint
    <3> QED BY <1>1, <2>1, <2>3, <3>1 DEF Rotating, InFlight, Refreshing
  <2> QED BY <2>2, <2>3
<1>4. OneRefresh'
  BY <1>3 DEF OneRefresh
<1>5. OwnTokens'
  <2>1. \A d \in Calls : call'[d].token = t <=> d = c
    BY <1>1, <1>2
  <2>2. \A d \in Calls : d = c \/ (call'[d].token = call[d].token /\ call'[d].at = call[d].at)
    BY <1>1
  <2> QED BY <1>1, <1>2, <2>1, <2>2 DEF OwnTokens
<1>6. NotSpent'
  <2>1. \A d \in Calls :
          /\ call'[d].at \in {"sent", "read", "answered"} => row'[call'[d].token] # "used"
          /\ call'[d].at = "theft" => row'[call'[d].token] = "revoked"
    BY <1>1, <1>2 DEF NotSpent, Spent, Refreshing
  <2>2. ASSUME NEW j \in Jars, jar'[j] # "none", row'[jar'[j]] = "used"
        PROVE  \E d \in Calls : JarOf[d] = j /\ Replacing(d)'
    BY <1>1, <1>2, <1>3, <2>2 DEF NotSpent, Spent, Replacing
  <2> QED BY <2>1, <2>2 DEF NotSpent, Spent
<1> QED BY <1>4, <1>5, <1>6

\* An answer that is kept is the token of its jar, and not spent.
LEMMA StoreSafe ==
  ASSUME SafeInv, NEW c \in Calls, Store(c)
  PROVE  (OneRefresh /\ OwnTokens /\ NotSpent)'
<1> USE SessionsAssumption DEF SafeInv, SessionsInv, TypeOK, Issuing, Issued
<1>1. /\ call[c].at = "answered" /\ call[c].token \in Tokens
      /\ call'[c].at = "idle" /\ call'[c].token = "none"
      /\ \A d \in Calls \ {c} : call'[d] = call[d] /\ Rotating(d)' = Rotating(d)
      /\ ~Rotating(c)'
      /\ jar' = [jar EXCEPT ![JarOf[c]] = call[c].token]
      /\ row' = row /\ origin' = origin
  BY DEF Store, Idle, Rotating, InFlight, Refreshing
<1>2. OneRefresh'
  BY <1>1 DEF OneRefresh
<1>3. OwnTokens'
  <2>1. /\ \A d \in Calls \ {c} : call[d].token # call[c].token
        /\ \A j \in Jars : jar[j] # call[c].token
    BY <1>1 DEF OwnTokens
  <2>2. \A j \in Jars : jar'[j] = IF j = JarOf[c] THEN call[c].token ELSE jar[j]
    BY <1>1
  <2>3. \A d \in Calls : call'[d] = IF d = c THEN Idle ELSE call[d]
    BY <1>1 DEF Store
  <2>4. ASSUME NEW d \in Calls, call'[d].token # "none"
        PROVE  d # c /\ call'[d] = call[d]
    BY <2>3, <2>4 DEF Idle
  <2>5. \A d \in Calls : \A j \in Jars :
          call'[d].token # "none" /\ jar'[j] = call'[d].token =>
            JarOf[d] = j /\ call'[d].at # "answered"
    BY <2>1, <2>2, <2>4 DEF OwnTokens
  <2>6. \A d, e \in Calls :
          call'[d].token # "none" /\ call'[e].token = call'[d].token =>
            JarOf[d] = JarOf[e] /\ (call'[d].at = "answered" => d = e)
    BY <2>4 DEF OwnTokens
  <2>7. \A j, k \in Jars : jar'[j] # "none" /\ jar'[j] = jar'[k] => j = k
    BY <2>1, <2>2 DEF OwnTokens
  <2> QED BY <2>5, <2>6, <2>7 DEF OwnTokens
<1>4. NotSpent'
  BY <1>1 DEF NotSpent, Spent, Replacing
<1> QED BY <1>2, <1>3, <1>4

\* A call whose refresh is not waiting for an answer, as before or afterwards,
\* and no row or jar gets anything new.
LEMMA OtherCallSafe ==
  ASSUME SafeInv, NEW c \in Calls,
         \A d \in Calls \ {c} : call'[d] = call[d],
         call[c].at \in {"idle", "sent", "theft", "failed"},
         \/ /\ call'[c].at \in {"idle", "challenged", "minting"}
            /\ call'[c].token = "none"
         \/ /\ call'[c].at = "failed" /\ call'[c].token = "none"
            /\ call[c].at = "theft"
         \/ /\ call'[c].at \in {"read", "theft"} /\ call'[c].token = call[c].token
            /\ call[c].at = "sent"
            /\ call'[c].at = "theft" => row'[call[c].token] # "live",
         origin' = origin,
         \A t \in Tokens : \/ row'[t] = row[t]
                           \/ row[t] = "live" /\ row'[t] = "revoked",
         row' \in [Tokens -> {"none", "live", "used", "revoked"}],
         \A j \in Jars : jar'[j] \in {jar[j], "none"}
  PROVE  (OneRefresh /\ OwnTokens /\ NotSpent)'
<1> USE SessionsAssumption DEF SafeInv, SessionsInv, TypeOK, Issuing, Issued
<1>1. /\ \A d \in Calls \ {c} : Rotating(d)' = Rotating(d)
      /\ Rotating(c)' => Rotating(c)
      /\ ~Replacing(c)
  BY DEF Rotating, Replacing, InFlight, Refreshing
<1>2. OneRefresh'
  BY <1>1 DEF OneRefresh
<1>3. OwnTokens'
  <2>1. \A d \in Calls :
          /\ call'[d].token \in {call[d].token, "none"}
          /\ call'[d].at = "answered" => call[d].at = "answered"
    OBVIOUS
  <2> QED BY <2>1 DEF OwnTokens
<1>4. NotSpent'
  <2>1. \A d \in Calls :
          /\ call'[d].at \in {"sent", "read", "answered"} => row'[call'[d].token] # "used"
          /\ call'[d].at = "theft" => row'[call'[d].token] = "revoked"
    BY DEF NotSpent, Spent, Refreshing
  <2>2. ASSUME NEW j \in Jars, jar'[j] # "none", row'[jar'[j]] = "used"
        PROVE  \E d \in Calls : JarOf[d] = j /\ Replacing(d)'
    BY <1>1, <2>2 DEF NotSpent, Spent, Replacing
  <2> QED BY <2>1, <2>2 DEF NotSpent, Spent
<1> QED BY <1>2, <1>3, <1>4

\* What is said of the pages is true until one is left, whatever the events
\* that end sessions do meanwhile.
LEMMA PageStep ==
  ASSUME OnePage, SessionsInv, PageInv, [Next]_vars
  PROVE  PageInv'
<1> SUFFICES ASSUME orphans' = {} PROVE (OneRefresh /\ OwnTokens /\ NotSpent)'
  BY DEF PageInv
<1> USE SessionsAssumption
<1>1. orphans = {} /\ ~\E c \in Calls : Abandon(c)
  BY DEF Next, vars, SignIn, ConfirmCode, Ask, Find, Claim, HandleReuse, ReadVersion, Store, Abandon,
     GiveUp, Mint, SignOut, RevokeOne, Forget, ResetPassword, ChangePassword,
     RevokeAfterChange, CrashInChange, ForceLogout
<1>2. SafeInv
  BY <1>1 DEF SafeInv, PageInv
<1>3. TypeOK
  BY DEF SessionsInv
<1>4. ASSUME NEW c \in Calls, ConfirmCode(c) \/ ReadVersion(c) PROVE Quiet
  BY <1>3, <1>4 DEF TypeOK, ConfirmCode, ReadVersion, Quiet, Spent, SessionsInv, Issuing
<1>5. ASSUME NEW j \in Jars, SignOut(j) \/ RevokeOne(j) \/ Forget(j) PROVE Quiet
  BY <1>3, <1>5 DEF TypeOK, SignOut, RevokeOne, Forget, Quiet, Spent, Live
<1>6. CASE ResetPassword \/ ChangePassword \/ RevokeAfterChange \/ CrashInChange
           \/ ForceLogout \/ UNCHANGED vars
  <2>1. Quiet
    BY <1>3, <1>6 DEF TypeOK, ResetPassword, EndSessions, ChangePassword, RevokeAfterChange,
       CrashInChange, ForceLogout, vars, AllRevoked, Live, Quiet, Spent
  <2> QED BY <1>2, <2>1, QuietKeeps
<1>7. ASSUME NEW c \in Calls, NEW twoFa \in BOOLEAN, SignIn(c, twoFa)
      PROVE  (OneRefresh /\ OwnTokens /\ NotSpent)'
  <2>1. /\ call[c].at = "idle" /\ call'[c].at \in {"challenged", "minting"}
        /\ call'[c].token = "none" /\ \A d \in Calls \ {c} : call'[d] = call[d]
        /\ origin' = origin /\ row' = row
        /\ \A j \in Jars : jar'[j] \in {jar[j], "none"}
    BY <1>3, <1>7 DEF TypeOK, SignIn
  <2> QED BY <1>2, <1>3, <2>1, OtherCallSafe DEF TypeOK
<1>8. ASSUME NEW c \in Calls, Find(c)
      PROVE  (OneRefresh /\ OwnTokens /\ NotSpent)'
  <2>1. /\ call[c].at = "sent" /\ call'[c].at \in {"read", "theft"}
        /\ call'[c].at = "theft" => row'[call[c].token] # "live"
        /\ call'[c].token = call[c].token
        /\ \A d \in Calls \ {c} : call'[d] = call[d]
        /\ origin' = origin /\ row' = row /\ jar' = jar
    BY <1>3, <1>8 DEF TypeOK, Find, Live
  <2> QED BY <1>2, <1>3, <2>1, OtherCallSafe DEF TypeOK
<1>9. ASSUME NEW c \in Calls, HandleReuse(c)
      PROVE  (OneRefresh /\ OwnTokens /\ NotSpent)'
  <2>1. /\ call[c].at = "theft" /\ call'[c].at = "failed" /\ call'[c].token = "none"
        /\ \A d \in Calls \ {c} : call'[d] = call[d]
        /\ origin' = origin /\ jar' = jar
        /\ row' = [t \in Tokens |-> IF row[t] = "live" THEN "revoked" ELSE row[t]]
    BY <1>3, <1>9 DEF TypeOK, HandleReuse, EndSessions, AllRevoked, Live
  <2> QED BY <1>2, <1>3, <2>1, OtherCallSafe DEF TypeOK
<1>10. ASSUME NEW c \in Calls, GiveUp(c)
       PROVE  (OneRefresh /\ OwnTokens /\ NotSpent)'
  <2>1. /\ call[c].at = "failed" /\ call'[c].at = "idle" /\ call'[c].token = "none"
        /\ \A d \in Calls \ {c} : call'[d] = call[d]
        /\ origin' = origin /\ row' = row
        /\ \A j \in Jars : jar'[j] \in {jar[j], "none"}
    BY <1>3, <1>10 DEF TypeOK, GiveUp, Idle
  <2> QED BY <1>2, <1>3, <2>1, OtherCallSafe DEF TypeOK
<1> QED
  BY <1>1, <1>2, <1>4, <1>5, <1>6, <1>7, <1>8, <1>9, <1>10, QuietKeeps, AskSafe,
     ClaimSafe, MintSafe, StoreSafe DEF Next

\* As long as no page is left in the middle of a refresh, a reuse answer means
\* that the session was ended: a client that rotates and then refreshes again
\* is not taken for a thief (attemptRefresh, handleRefreshTokenReuse). Two
\* pages that share a jar, the tabs of a browser, are outside this.
THEOREM RotationIsNotReuseAlways ==
  ASSUME OnePage
  PROVE  Spec => []RotationIsNotReuse
<1>1. Init => PageInv
  BY SessionsAssumption
     DEF Init, Idle, PageInv, OneRefresh, OwnTokens, NotSpent, Rotating, InFlight, Refreshing
<1>2. SessionsInv /\ PageInv /\ [Next]_vars => PageInv'
  BY PageStep
<1>3. PageInv => RotationIsNotReuse
  BY DEF PageInv, NotSpent, RotationIsNotReuse
<1> QED BY <1>1, <1>2, <1>3, SessionsInit, SessionsStep, PTL DEF Spec
=============================================================================
