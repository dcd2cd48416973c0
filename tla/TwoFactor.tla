----------------------------- MODULE TwoFactor ------------------------------
(***************************************************************************)
(* The second factor of one account (AuthService): the factor is written   *)
(* by what a request read before; the code of an SMS lives in Redis, where *)
(* it is replaced, used up and withdrawn step by step.                     *)
(***************************************************************************)
EXTENDS Integers, FiniteSets

CONSTANTS
  Senders,      \* requests for a code under way
  Users2fa,     \* requests that present a code under way
  Phones,       \* the numbers the user may give
  MaxSends,     \* SMS_MAX_SENDS_PER_HOUR
  MaxCodes,     \* bound: codes that are made
  MaxMisses     \* bound: calls of Twilio and of the counter that fail

ASSUME TwoFactorAssumption ==
  /\ {MaxSends, MaxCodes, MaxMisses} \subseteq Nat
  /\ "none" \notin Phones

VARIABLES
  factor,     \* User.twoFaEnabled with twoFaMethod: off, TOTP or SMS
  secret,     \* there is a twoFaSecret
  twoFaPhone, \* User.twoFaPhone
  made,       \* how many codes there have been: they are 1, 2, ...
  code,       \* what Redis holds: a code, or 0
  cooling,    \* the key of the cooldown is there
  sends,      \* the counter of the hour
  recounted,  \* history: its floor has overwritten what was counted meanwhile
  sender,     \* sendSmsOtp: how far, its code and its number
  texted,     \* the numbers each code went to
  user2fa,    \* how far a presented code is, which one, and what for
  accepted,   \* how often each code was accepted
  misses      \* history: failed calls of Twilio and of the counter

twoFaVars == <<factor, secret, twoFaPhone, made, code, cooling, sends, recounted, sender,
               texted, user2fa, accepted, misses>>
smsVars == <<made, code, cooling, sends, recounted, sender, texted, misses>>
useVars == <<user2fa, accepted>>

Codes == 1 .. MaxCodes
NoSender == [at |-> "idle", code |-> 0, to |-> "none"]
NoUse == [at |-> "idle", code |-> 0, for |-> "none"]

(* Slips: what a definition below would be with a plausible mistake. No    *)
(* step uses them; each is caught by a property (PROJECT.json, "mutants"). *)

\* The code is read, and deleted only when it has been used.
LeftInPlace == code

-----------------------------------------------------------------------------
(* sendSmsOtp. A call of Redis that fails is swallowed: a code may not be  *)
(* deleted, a key not be set, and the counter then answers 0.              *)

Goes(s, to) ==
  /\ made < MaxCodes
  /\ made' = made + 1
  /\ sender' = [sender EXCEPT ![s] = [at |-> "make", code |-> made', to |-> to]]

Miss == misses < MaxMisses /\ misses' = misses + 1

\* The cooldown is looked at, and an hourly credit taken, or refused (bound: one
\* request over the limit), or not counted.
BeginSend(s, to) ==
  /\ sender[s] = NoSender
  /\ ~cooling
  /\ \/ /\ sends < MaxSends
        /\ sends' = sends + 1
        /\ Goes(s, to)
        /\ UNCHANGED misses
     \/ /\ sends = MaxSends
        /\ sends' = sends + 1
        /\ UNCHANGED <<made, sender, misses>>
     \/ /\ sends' \in {sends, sends + 1}
        /\ Goes(s, to)
        /\ Miss
  /\ UNCHANGED recounted

\* setupSms2Fa writes the number before the code is asked for.
SetupSms(s, to) ==
  /\ factor = "off"
  /\ twoFaPhone' = to
  /\ \/ BeginSend(s, to)
     \/ cooling /\ UNCHANGED <<sends, recounted, sender, made, misses>>
  /\ UNCHANGED <<factor, secret, code, cooling, texted, useVars>>

\* A login, or the account page, asks for a code.
AskCode(s) ==
  /\ factor = "SMS"
  /\ BeginSend(s, twoFaPhone)
  /\ UNCHANGED <<factor, secret, twoFaPhone, code, cooling, texted, useVars>>

\* The old code is deleted; the new one is set if there is none by then, and
\* the cooldown with it.
DropCode(s) ==
  /\ sender[s].at = "make"
  /\ code' \in {0, code}
  /\ sender' = [sender EXCEPT ![s].at = "set"]
  /\ UNCHANGED <<factor, secret, twoFaPhone, made, cooling, sends, recounted, texted,
                 useVars, misses>>

SetCode(s) ==
  /\ sender[s].at = "set"
  /\ code' \in {code, IF code = 0 THEN sender[s].code ELSE code}
  /\ cooling' \in {TRUE, cooling}
  /\ sender' = [sender EXCEPT ![s].at = "text"]
  /\ UNCHANGED <<factor, secret, twoFaPhone, made, sends, recounted, texted, useVars,
                 misses>>

Texts(s) == texted' = [texted EXCEPT ![sender[s].code] = sender[s].to]
Text(s) ==
  /\ sender[s].at = "text"
  /\ Texts(s)
  /\ sender' = [sender EXCEPT ![s] = NoSender]
  /\ UNCHANGED <<factor, secret, twoFaPhone, made, code, cooling, sends, recounted, useVars,
                 misses>>

\* The call of Twilio fails, or times out after the message was taken: whatever
\* code there is goes, and the credit comes back, below zero for a moment where
\* there was none.
Below == [at |-> "floor", code |-> 0, to |-> "none"]
TextFails(s) ==
  /\ sender[s].at = "text"
  /\ Miss
  /\ Texts(s) \/ UNCHANGED texted
  /\ code' \in {0, code}
  /\ sends' \in {sends, sends - 1}
  /\ sender' = [sender EXCEPT ![s] = IF sends' < 0 THEN Below ELSE NoSender]
  /\ UNCHANGED <<factor, secret, twoFaPhone, made, cooling, recounted, useVars>>

\* RedisService.decr sets what it found below zero to zero, by a second command.
FloorSends(s) ==
  /\ sender[s] = Below
  /\ sender' = [sender EXCEPT ![s] = NoSender]
  /\ \/ sends' = 0 /\ recounted' = (recounted \/ sends > 0)
     \/ UNCHANGED <<sends, recounted>>
  /\ UNCHANGED <<factor, secret, twoFaPhone, made, code, cooling, texted, useVars, misses>>

CooldownEnds ==
  /\ cooling
  /\ cooling' = FALSE
  /\ UNCHANGED <<factor, secret, twoFaPhone, made, code, sends, recounted, sender, texted,
                 useVars, misses>>

CodeExpires ==
  /\ code # 0
  /\ code' = 0
  /\ UNCHANGED <<factor, secret, twoFaPhone, made, cooling, sends, recounted, sender, texted,
                 useVars, misses>>

-----------------------------------------------------------------------------
(* Presenting a code.                                                      *)

\* The account is read: enableSms2Fa, disableTwoFa or confirmLoginWithTwoFa.
Present(u, c, for) ==
  /\ user2fa[u] = NoUse
  /\ texted[c] # "none"
  /\ for = "enable" => factor = "off" /\ twoFaPhone # "none"
  /\ for \in {"disable", "login"} => factor = "SMS"
  /\ user2fa' = [user2fa EXCEPT ![u] = [at |-> "take", code |-> c, for |-> for]]
  /\ UNCHANGED <<factor, secret, twoFaPhone, smsVars, accepted>>

\* consumeSmsCode takes the code away, the right one or not. Where Redis fails it
\* takes none for right, whether the code is gone or not.
CodeLeft == 0
TakeCode(u) ==
  /\ user2fa[u].at = "take"
  /\ code' = CodeLeft
  /\ IF code = user2fa[u].code
     THEN /\ accepted' = [accepted EXCEPT ![code] = @ + 1]
          /\ user2fa' = [user2fa EXCEPT ![u].at = "write"]
     ELSE /\ user2fa' = [user2fa EXCEPT ![u] = NoUse]
          /\ UNCHANGED accepted
  /\ UNCHANGED <<factor, secret, twoFaPhone, made, cooling, sends, recounted, sender, texted,
                 misses>>

TakeFails(u) ==
  /\ user2fa[u].at = "take"
  /\ code' \in {0, code}
  /\ user2fa' = [user2fa EXCEPT ![u] = NoUse]
  /\ UNCHANGED <<factor, secret, twoFaPhone, made, cooling, sends, recounted, sender, texted,
                 accepted, misses>>

\* The factor is written; the login goes on to its tokens.
WriteFactor(u) ==
  /\ user2fa[u].at = "write"
  /\ user2fa' = [user2fa EXCEPT ![u] = NoUse]
  /\ CASE user2fa[u].for = "enable" ->
            factor' = "SMS" /\ secret' = FALSE /\ UNCHANGED twoFaPhone
       [] user2fa[u].for = "disable" ->
            factor' = "off" /\ secret' = FALSE /\ twoFaPhone' = "none"
       [] user2fa[u].for = "login" -> UNCHANGED <<factor, secret, twoFaPhone>>
  /\ UNCHANGED <<smsVars, accepted>>

-----------------------------------------------------------------------------
(* The authenticator app, whose codes are always at hand.                  *)

SetupTotp ==
  /\ factor = "off"
  /\ secret' = TRUE
  /\ UNCHANGED <<factor, twoFaPhone, smsVars, useVars>>

EnableTotp ==
  /\ factor = "off" /\ secret
  /\ factor' = "TOTP" /\ twoFaPhone' = "none"
  /\ UNCHANGED <<secret, smsVars, useVars>>

DisableTotp ==
  /\ factor = "TOTP" /\ secret
  /\ factor' = "off" /\ secret' = FALSE /\ twoFaPhone' = "none"
  /\ UNCHANGED <<smsVars, useVars>>

-----------------------------------------------------------------------------
TwoFaInit ==
  /\ factor = "off" /\ secret = FALSE /\ twoFaPhone = "none"
  /\ made = 0 /\ code = 0 /\ cooling = FALSE /\ sends = 0 /\ misses = 0
  /\ recounted = FALSE
  /\ sender = [s \in Senders |-> NoSender]
  /\ texted = [c \in Codes |-> "none"]
  /\ user2fa = [u \in Users2fa |-> NoUse]
  /\ accepted = [c \in Codes |-> 0]

TwoFaNext ==
  \/ \E s \in Senders :
       \/ AskCode(s) \/ DropCode(s) \/ SetCode(s) \/ Text(s) \/ TextFails(s)
       \/ FloorSends(s)
       \/ \E to \in Phones : SetupSms(s, to)
  \/ \E u \in Users2fa :
       \/ TakeCode(u) \/ TakeFails(u) \/ WriteFactor(u)
       \/ \E c \in Codes, for \in {"enable", "disable", "login"} : Present(u, c, for)
  \/ CooldownEnds \/ CodeExpires \/ SetupTotp \/ EnableTotp \/ DisableTotp

-----------------------------------------------------------------------------
\* However requests overlap: a code is accepted once (consumeSmsCode), and no
\* more codes go out in an hour than its counter allows, but for one more with
\* every failed call of Twilio, whose credit comes back whether the text went out
\* or not, and with every failed call of the counter. Without a failure the
\* ceiling is hard; where the floor of the counter overwrites it, there is none.
Texted == {c \in Codes : texted[c] # "none"}
CodesUsedOnce ==
  /\ \A c \in Codes : accepted[c] <= 1
  /\ recounted \/ Cardinality(Texted) <= MaxSends + misses

-----------------------------------------------------------------------------
(* What the code says of itself and does not keep.                         *)

\* "Hard ceiling on sends per hour", and "if we can't count we refuse to send"
\* (sendSmsOtp): but an error of the counter counts as 0, and a text that timed
\* out and went out is given back.
CeilingHard == Cardinality(Texted) <= MaxSends

\* "we don't flip the method/enabled flags until the user confirms the code"
\* (setupSms2Fa): but any code confirms whatever number was given last.
NumberProved == factor = "SMS" => \E c \in Codes : accepted[c] > 0 /\ texted[c] = twoFaPhone

\* What is enabled can be used: both ways of enabling can overlap.
FactorUsable ==
  /\ factor = "SMS" => twoFaPhone # "none"
  /\ factor = "TOTP" => secret
=============================================================================
