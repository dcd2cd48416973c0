------------------------------ MODULE Identity ------------------------------
(***************************************************************************)
(* A user becomes "CPF verificado" by the answer of Serpro or by an        *)
(* approval of Caf, which arrives as a webhook, perhaps more than once     *)
(* (IdentityService).                                                      *)
(***************************************************************************)
EXTENDS Integers, FiniteSets

CONSTANTS
  CafSessions,   \* the sessions Caf may open
  CafEvents,     \* the eventIds of its webhooks
  HasEventId,    \* the events that are sent with their id
  MaxDeaths      \* bound: deaths of the process

ASSUME IdentityAssumption ==
  /\ HasEventId \subseteq CafEvents
  /\ "none" \notin CafSessions
  /\ MaxDeaths \in Nat

VARIABLES
  cpf,         \* the user has a CPF, or had one and is deleted
  verified,    \* User.cpfIdentityVerified
  serpro,      \* verifyCpf: what Serpro has answered to a call under way
  logs,        \* CpfVerificationLog: the rows that say VERIFIED, by provider
  session,     \* CafVerificationSession.status
  decision,    \* what Caf has decided of a session, as an event of its own
  hooked,      \* ProcessedWebhook: the keys
  hook,        \* handleCafWebhook calls that have entered their key
  applied,     \* how often an event has been acted on
  deaths

identityVars == <<cpf, verified, serpro, logs, session, decision, hooked, hook,
                  applied, deaths>>
cafVars == <<session, decision, hooked, hook, applied>>

Decisions == {"APPROVED", "REJECTED", "EXPIRED"}

(* Slips: what a definition below would be with a plausible mistake. No    *)
(* step uses them; each is caught by a property (PROJECT.json, "mutants"). *)

\* A status the API does not know counts as an approval.
UnknownApproves(d) == IF d = "EXPIRED" THEN "EXPIRED" ELSE "APPROVED"

-----------------------------------------------------------------------------
(* The user.                                                               *)

\* setCpf: once and for all.
SetCpf ==
  /\ cpf = "none"
  /\ cpf' = "set"
  /\ UNCHANGED <<verified, serpro, logs, cafVars, deaths>>

\* deleteAccount takes the CPF away and leaves the rest.
ForgetCpf ==
  /\ cpf' = "deleted"
  /\ UNCHANGED <<verified, serpro, logs, cafVars, deaths>>

-----------------------------------------------------------------------------
(* Serpro.                                                                 *)

\* verifyCpf asks, unless the user is verified already.
AskSerpro(answer) ==
  /\ cpf = "set" /\ ~verified /\ serpro = "idle"
  /\ serpro' = answer
  /\ UNCHANGED <<cpf, verified, logs, cafVars, deaths>>

\* The flag and the log are written in one transaction; or only the log.
EndSerpro ==
  /\ serpro # "idle"
  /\ serpro' = "idle"
  /\ IF serpro = "VERIFIED"
     THEN verified' = TRUE /\ logs' = logs \cup {"SERPRO"}
     ELSE UNCHANGED <<verified, logs>>
  /\ UNCHANGED <<cpf, cafVars, deaths>>

-----------------------------------------------------------------------------
(* Caf.                                                                    *)

\* createDocumentSession, with Caf's call before the row.
OpenSession(s) ==
  /\ cpf = "set" /\ ~verified
  /\ session[s] = "none"
  /\ session' = [session EXCEPT ![s] = "PENDING"]
  /\ UNCHANGED <<cpf, verified, serpro, logs, decision, hooked, hook, applied,
                 deaths>>

\* Caf decides, or says something the API does not know (MANUAL_REVIEW), and
\* sends it until it is answered; sessions of other systems are not modelled.
Decide(e, s, d) ==
  /\ decision[e].of = "none" /\ session[s] # "none"
  /\ \A f \in CafEvents : decision[f].of = s => decision[f].says \notin Decisions
  /\ decision' = [decision EXCEPT ![e] = [of |-> s, says |-> d]]
  /\ UNCHANGED <<cpf, verified, serpro, logs, session, hooked, hook, applied,
                 deaths>>

\* The row that makes a delivery the first of its kind.
KeyOf(e) == IF e \in HasEventId THEN e ELSE decision[e].of
EnterHook(e) ==
  /\ decision[e].of # "none"
  /\ KeyOf(e) \notin hooked
  /\ hooked' = hooked \cup {KeyOf(e)}
  /\ hook' = hook \cup {e}
  /\ UNCHANGED <<cpf, verified, serpro, logs, session, decision, applied, deaths>>

\* normaliseCafStatus.
Normalised(d) == IF d \in {"APPROVED", "EXPIRED"} THEN d ELSE "REJECTED"

ApplyHook(e) ==
  LET d == decision[e] IN
  /\ e \in hook
  /\ hook' = hook \ {e}
  /\ applied' = [applied EXCEPT ![e] = @ + 1]
  /\ session' = [session EXCEPT ![d.of] = Normalised(d.says)]
  /\ IF Normalised(d.says) = "APPROVED"
     THEN verified' = TRUE /\ logs' = logs \cup {"CAF"}
     ELSE UNCHANGED <<verified, logs>>
  /\ UNCHANGED <<cpf, serpro, decision, hooked, deaths>>

\* The process dies with all it had under way: the keys stay.
IdentityDies ==
  /\ deaths < MaxDeaths
  /\ deaths' = deaths + 1
  /\ hook' = {} /\ serpro' = "idle"
  /\ UNCHANGED <<cpf, verified, logs, session, decision, hooked, applied>>

-----------------------------------------------------------------------------
IdentityInit ==
  /\ cpf = "none" /\ verified = FALSE /\ serpro = "idle" /\ logs = {}
  /\ session = [s \in CafSessions |-> "none"]
  /\ decision = [e \in CafEvents |-> [of |-> "none", says |-> "none"]]
  /\ hooked = {} /\ hook = {} /\ applied = [e \in CafEvents |-> 0]
  /\ deaths = 0

IdentityNext ==
  \/ SetCpf \/ ForgetCpf \/ EndSerpro \/ IdentityDies
  \/ \E answer \in {"VERIFIED", "NAME_MISMATCH"} : AskSerpro(answer)
  \/ \E s \in CafSessions :
       \/ OpenSession(s)
       \/ \E e \in CafEvents, d \in Decisions \cup {"MANUAL_REVIEW"} : Decide(e, s, d)
  \/ \E e \in CafEvents : EnterHook(e) \/ ApplyHook(e)

-----------------------------------------------------------------------------
\* However often Caf delivers and whatever it says in between: an event is
\* acted on once at most, a session is APPROVED only if Caf approved it, and
\* nobody is verified without a provider that says so and a log that says so.
VerifiedByProvider ==
  /\ \A e \in CafEvents : applied[e] <= 1
  /\ \A s \in CafSessions : session[s] = "APPROVED" =>
       \E e \in CafEvents : decision[e] = [of |-> s, says |-> "APPROVED"]
  /\ verified => logs # {}
  /\ "CAF" \in logs => \E e \in CafEvents : decision[e].says = "APPROVED"

-----------------------------------------------------------------------------
(* What the code says of itself and does not keep.                         *)

\* "sessionId is stable enough" (handleCafWebhook): without an eventId, an
\* approval after a status in between is taken for a delivery seen before; and
\* one whose process dies after the key is never acted on.
ApprovalCounts ==
  \A e \in CafEvents :
    decision[e].says = "APPROVED" /\ KeyOf(e) \in hooked /\ hook = {} => verified
=============================================================================
