------------------------------ MODULE Gateway -------------------------------
(***************************************************************************)
(* The sockets of one user at the chat gateway (MessagesGateway), and what *)
(* a partner is told of his presence. Its maps are the memory of one       *)
(* process: a handler runs alone up to its next await.                     *)
(***************************************************************************)
EXTENDS Integers, FiniteSets

CONSTANTS
  Sockets,
  MaxSockets,  \* MAX_SOCKETS_PER_USER
  MaxNews      \* bound: presence events under way

ASSUME GatewayAssumption == {MaxSockets, MaxNews} \subseteq Nat

VARIABLES
  socketAt,    \* where the socket is
  tracked,     \* userSockets
  known,       \* socketToUser
  room,        \* who hears the conversation
  following,   \* userConversations has it
  joining,     \* joinConversation calls that await the conversation
  news         \* emitPresenceToPartners calls that await the conversations

gatewayVars == <<socketAt, tracked, known, room, following, joining, news>>

(* Slips: what a definition below would be with a plausible mistake. No    *)
(* step uses them; each is caught by a property (PROJECT.json, "mutants"). *)

\* The sockets are counted before the account is looked up.
CountedBefore == TRUE

-----------------------------------------------------------------------------
Tell(event) ==
  /\ Cardinality(news) < MaxNews
  /\ news' = news \cup {event}

\* handleConnection up to the look-up of the account.
OpenSocket(s) ==
  /\ socketAt[s] = "none"
  /\ socketAt' = [socketAt EXCEPT ![s] = "checking"]
  /\ UNCHANGED <<tracked, known, room, following, joining, news>>

\* And from there on: a socket that has closed meanwhile is entered as well.
BelowCap == Cardinality(tracked) < MaxSockets
AcceptSocket(s) ==
  /\ socketAt[s] \in {"checking", "lost"}
  /\ BelowCap
  /\ tracked' = tracked \cup {s}
  /\ known' = known \cup {s}
  /\ room' = IF following THEN room \cup {s} ELSE room
  /\ socketAt' = [socketAt EXCEPT ![s] = IF @ = "checking" THEN "open" ELSE "closed"]
  /\ IF tracked = {} THEN Tell("online") ELSE UNCHANGED news
  /\ UNCHANGED <<following, joining>>

\* Too many sockets, or an account that is banned or has a new tokenVersion.
RefuseSocket(s) ==
  /\ socketAt[s] \in {"checking", "lost"}
  /\ socketAt' = [socketAt EXCEPT ![s] = "closed"]
  /\ UNCHANGED <<tracked, known, room, following, joining, news>>

\* handleDisconnect: while the account is being looked up there is nobody yet.
StillThere(s) == tracked \ {s}
CloseSocket(s) ==
  /\ socketAt[s] \in {"checking", "open"}
  /\ socketAt' = [socketAt EXCEPT ![s] = IF @ = "checking" THEN "lost" ELSE "closed"]
  /\ known' = known \ {s}
  /\ room' = room \ {s}
  /\ IF s \in known
     THEN /\ tracked' = StillThere(s)
          /\ following' = (following /\ StillThere(s) # {})
          /\ IF StillThere(s) = {} THEN Tell("offline") ELSE UNCHANGED news
     ELSE UNCHANGED <<tracked, following, news>>
  /\ UNCHANGED joining

\* joinConversation; a socket that is not known yet gets an error instead.
AskToJoin(s) ==
  /\ s \in known
  /\ socketAt[s] = "open"
  /\ joining' = joining \cup {s}
  /\ UNCHANGED <<socketAt, tracked, known, room, following, news>>

Join(s) ==
  /\ s \in joining
  /\ joining' = joining \ {s}
  /\ room' = room \cup {s}
  /\ following' = TRUE
  /\ UNCHANGED <<socketAt, tracked, known, news>>

Leave(s) ==
  /\ socketAt[s] = "open"
  /\ room' = room \ {s}
  /\ following' = (following /\ s \notin known)
  /\ UNCHANGED <<socketAt, tracked, known, joining, news>>

\* The conversations are there: the partner hears of it, in whatever order.
Emit(event) ==
  /\ event \in news
  /\ news' = news \ {event}
  /\ UNCHANGED <<socketAt, tracked, known, room, following, joining>>

-----------------------------------------------------------------------------
GatewayInit ==
  /\ socketAt = [s \in Sockets |-> "none"]
  /\ tracked = {} /\ known = {} /\ room = {} /\ following = FALSE
  /\ joining = {} /\ news = {}

GatewayNext ==
  \/ \E s \in Sockets :
       \/ OpenSocket(s) \/ AcceptSocket(s) \/ RefuseSocket(s) \/ CloseSocket(s)
       \/ AskToJoin(s) \/ Join(s) \/ Leave(s)
  \/ \E event \in {"online", "offline"} : Emit(event)

GatewaySpec == GatewayInit /\ [][GatewayNext]_gatewayVars

-----------------------------------------------------------------------------
\* Whatever opens, closes and waits at once: no user has more sockets than the
\* cap, and one with an open socket counts as online and can be spoken to.
SocketsTracked ==
  /\ Cardinality(tracked) <= MaxSockets
  /\ \A s \in Sockets : socketAt[s] = "open" => s \in tracked \cap known
=============================================================================
