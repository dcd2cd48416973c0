------------------------------ MODULE Support -------------------------------
(***************************************************************************)
(* A support ticket (SupportService) between its user, the agents' CRM,    *)
(* which retries every call it makes until it has an answer, and the job   *)
(* that announces the ticket to the CRM again (SupportCronService). A call *)
(* reads the ticket once and writes by what it read.                       *)
(***************************************************************************)
EXTENDS Integers, FiniteSets

CONSTANTS
  Keys,        \* idempotency keys: the answers the agents give
  Resolving,   \* those of them that also resolve the ticket
  Tries,       \* the calls of the CRM under way
  MaxReplies,  \* bound: messages of the user, and of a breakglass agent
  MaxFailures  \* bound: webhooks refused and deaths of the process, together

ASSUME SupportAssumption ==
  /\ Resolving \subseteq Keys
  /\ {MaxReplies, MaxFailures} \subseteq Nat

VARIABLES
  ticket,      \* SupportTicket.status, and if it has a resolvedAt
  stored,      \* how many messages there are with a key
  told,        \* how often the user was notified of it
  try,         \* the CRM's calls: how far, for which key, what they read
  reply,       \* replyToTicket: nobody's, or whose and what it read
  replies,
  announced,   \* the CRM has acknowledged the ticket: externalTicketId
  webhooks,    \* events on their way to the CRM
  failed,      \* webhooks refused: AuditLog has a row for each
  deadCalls    \* deaths of the API process

supportVars == <<ticket, stored, told, try, reply, replies, announced, webhooks,
                 failed, deadCalls>>
crmVars == <<announced, webhooks, failed, deadCalls>>

NoTry == [at |-> "none", key |-> "none", saw |-> "none", resolved |-> FALSE]
NoReply == [by |-> "none", saw |-> "none"]
NoTicket == [status |-> "none", resolved |-> FALSE]

(* Slips: what a definition below would be with a plausible mistake. No    *)
(* step uses them; each is caught by a property (PROJECT.json, "mutants"). *)

\* Whoever gets as far as the end tells the user, the loser of a race too.
AlwaysTold(c) == TRUE

\* The job replays what the audit log names, not what was never acknowledged.
FailedOnly == failed > 0 /\ ~announced

-----------------------------------------------------------------------------
(* The ticket.                                                             *)

OpenTicket ==
  /\ ticket.status = "none"
  /\ ticket' = [status |-> "OPEN", resolved |-> FALSE]
  /\ webhooks' = {"opened"}
  /\ UNCHANGED <<stored, told, try, reply, replies, announced, failed, deadCalls>>

\* resolveTicket, for when the CRM is down.
ResolveTicket ==
  /\ ticket.status # "none"
  /\ ticket' = [status |-> "RESOLVED", resolved |-> TRUE]
  /\ UNCHANGED <<stored, told, try, reply, replies, crmVars>>

\* replyToTicket reads the ticket and writes its message.
BeginReply(who) ==
  /\ ticket.status # "none" /\ reply.by = "none"
  /\ replies < MaxReplies
  /\ replies' = replies + 1
  /\ reply' = [by |-> who, saw |-> ticket.status]
  /\ UNCHANGED <<ticket, stored, told, try, crmVars>>

\* And moves the ticket by what it read. The CRM hears of a user's reply once.
EndReply ==
  /\ reply.by # "none"
  /\ reply' = NoReply
  /\ CASE reply.by = "user" /\ reply.saw \in {"RESOLVED", "CLOSED"} ->
            /\ ticket' = [status |-> "OPEN", resolved |-> FALSE]
            /\ webhooks' = webhooks \cup {"reopened"}
       [] reply.by = "user" /\ reply.saw \notin {"RESOLVED", "CLOSED"} ->
            /\ webhooks' = webhooks \cup {"replied"}
            /\ UNCHANGED ticket
       [] reply.by = "agent" ->
            /\ ticket' = IF reply.saw = "OPEN" THEN [ticket EXCEPT !.status = "IN_PROGRESS"]
                                               ELSE ticket
            /\ UNCHANGED webhooks
  /\ UNCHANGED <<stored, told, try, replies, announced, failed, deadCalls>>

-----------------------------------------------------------------------------
(* agentReply and agentResolve, retried and raced.                         *)

\* The ticket is read, then the message of the key looked for.
BeginTry(c, k) ==
  /\ ticket.status # "none" /\ try[c].at = "none"
  /\ try' = [try EXCEPT ![c] = [at |-> IF stored[k] > 0 THEN "move" ELSE "insert",
                                key |-> k, saw |-> ticket.status,
                                resolved |-> ticket.resolved]]
  /\ UNCHANGED <<ticket, stored, told, reply, replies, crmVars>>

\* The key is unique: the loser of a race goes on with the row of the winner.
InsertMessage(c) ==
  /\ try[c].at = "insert"
  /\ IF stored[try[c].key] = 0
     THEN /\ stored' = [stored EXCEPT ![try[c].key] = 1]
          /\ try' = [try EXCEPT ![c].at = "won"]
     ELSE /\ try' = [try EXCEPT ![c].at = "move"]
          /\ UNCHANGED stored
  /\ UNCHANGED <<ticket, told, reply, replies, crmVars>>

\* applyAgentStatusTransition, and the resolution: by what was read.
Moved(t, saw) ==
  CASE saw = "OPEN" -> [t EXCEPT !.status = "IN_PROGRESS"]
    [] saw \in {"RESOLVED", "CLOSED"} -> [status |-> "IN_PROGRESS", resolved |-> FALSE]
    [] saw = "IN_PROGRESS" -> t
Resolved(t, resolved) == IF resolved THEN t ELSE [status |-> "RESOLVED", resolved |-> TRUE]

MayTell(c) == try[c].at = "won"
MoveTicket(c) ==
  /\ try[c].at \in {"won", "move"}
  /\ IF try[c].key \in Resolving
     THEN /\ ticket' = Resolved(ticket, try[c].resolved)
          /\ try' = [try EXCEPT ![c] = NoTry]
     ELSE /\ ticket' = Moved(ticket, try[c].saw)
          /\ try' = [try EXCEPT ![c] = IF MayTell(c) THEN [@ EXCEPT !.at = "tell"]
                                                     ELSE NoTry]
  /\ UNCHANGED <<stored, told, reply, replies, crmVars>>

TellUser(c) ==
  /\ try[c].at = "tell"
  /\ told' = [told EXCEPT ![try[c].key] = @ + 1]
  /\ try' = [try EXCEPT ![c] = NoTry]
  /\ UNCHANGED <<ticket, stored, reply, replies, crmVars>>

-----------------------------------------------------------------------------
(* emitCrmEvent.                                                           *)

Deliver(e) ==
  /\ e \in webhooks
  /\ webhooks' = webhooks \ {e}
  /\ announced' = (announced \/ e = "opened")
  /\ UNCHANGED <<ticket, stored, told, try, reply, replies, failed, deadCalls>>

\* The CRM is down: the event is logged and nothing more.
FailWebhook(e) ==
  /\ e \in webhooks
  /\ failed + deadCalls < MaxFailures
  /\ webhooks' = webhooks \ {e}
  /\ failed' = failed + 1
  /\ UNCHANGED <<ticket, stored, told, try, reply, replies, announced, deadCalls>>

\* The process dies, with the calls and the events it had under way: nothing is
\* logged, and the CRM will try again.
CrashSupport ==
  /\ failed + deadCalls < MaxFailures
  /\ deadCalls' = deadCalls + 1
  /\ webhooks' = {} /\ reply' = NoReply /\ try' = [c \in Tries |-> NoTry]
  /\ UNCHANGED <<ticket, stored, told, replies, announced, failed>>

\* reconcileCrmOpens.
Unannounced == ~announced
Reconcile ==
  /\ ticket.status # "none"
  /\ Unannounced
  /\ webhooks' = webhooks \cup {"opened"}
  /\ UNCHANGED <<ticket, stored, told, try, reply, replies, announced, failed, deadCalls>>

-----------------------------------------------------------------------------
SupportInit ==
  /\ ticket = NoTicket
  /\ stored = [k \in Keys |-> 0] /\ told = [k \in Keys |-> 0]
  /\ try = [c \in Tries |-> NoTry]
  /\ reply = NoReply /\ replies = 0
  /\ announced = FALSE /\ webhooks = {}
  /\ failed = 0 /\ deadCalls = 0

SupportNext ==
  \/ OpenTicket \/ ResolveTicket \/ EndReply
  \/ \E who \in {"user", "agent"} : BeginReply(who)
  \/ \E c \in Tries :
       \/ InsertMessage(c) \/ MoveTicket(c) \/ TellUser(c)
       \/ \E k \in Keys : BeginTry(c, k)
  \/ \E e \in {"opened", "replied", "reopened"} : Deliver(e) \/ FailWebhook(e)
  \/ CrashSupport \/ Reconcile

-----------------------------------------------------------------------------
\* However often the CRM retries, and whoever dies in between: an answer is
\* stored once, the user is told of it at most once, and of nothing else.
AnsweredOnce == \A k \in Keys : stored[k] <= 1 /\ told[k] <= stored[k]

\* The job runs for as long as the ticket is young, and the CRM is up again
\* some time: in the end it knows of every ticket.
TicketAnnounced == ticket.status # "none" ~> announced

-----------------------------------------------------------------------------
(* What the code says of itself and does not keep.                         *)

\* "Already resolved" (agentResolve): what has a resolvedAt is RESOLVED.
ResolvedIsResolved == ticket.resolved => ticket.status = "RESOLVED"
=============================================================================
