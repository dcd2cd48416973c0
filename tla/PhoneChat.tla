----------------------------- MODULE PhoneChat ------------------------------
(***************************************************************************)
(* The conversation on a phone: conversation/[id].tsx loads its pages once *)
(* and then listens to the socket of the gateway (messages.gateway.ts). It *)
(* writes over HTTP, and an image over HTTP and over the socket.           *)
(***************************************************************************)
EXTENDS Conversation

VARIABLES
  phone,      \* the list of the screen, newest first
  text,       \* handleSend: how far it is, and the row it made
  image,      \* handleAttachImage, likewise
  socket,     \* the connection, and if it is in the room
  events,     \* newMessage events on their way to the screen
  marking,    \* a markRead is on its way to the gateway
  pages,      \* the pages the screen has asked for
  loading     \* the page that is on its way to the screen, if any

phoneVars == <<phone, text, image, socket, events, marking, pages, loading>>
phoneChatVars == <<storeVars, drops, phoneVars>>

(* Slips: what a definition below would be with a plausible mistake. No    *)
(* step uses them; each is caught by a property (PROJECT.json, "mutants"). *)

\* An event is shown whatever is shown already.
ReceivedTwice(s, m) == <<m>> \o s

-----------------------------------------------------------------------------
(* The API and the gateway.                                                *)

\* What the other one writes over HTTP no socket hears of; handleSendMessage
\* tells the room.
OtherWritesTo(overSocket) ==
  /\ Stored("other")
  /\ events' = IF overSocket /\ socket = "joined" THEN Append(events, Len(author) + 1)
                                                  ELSE events
  /\ UNCHANGED <<read, drops, phone, text, image, socket, marking, pages, loading>>

StoreText ==
  /\ text.at = "sent"
  /\ Stored("self")
  /\ text' = [at |-> "stored", row |-> Len(author) + 1]
  /\ UNCHANGED <<read, drops, phone, image, socket, events, marking, pages, loading>>

StoreImage ==
  /\ image.at = "sent"
  /\ Stored("self")
  /\ image' = [at |-> "stored", row |-> Len(author) + 1]
  /\ UNCHANGED <<read, drops, phone, text, socket, events, marking, pages, loading>>

\* A send is refused, or its answer is lost.
LoseSend ==
  /\ Dropped
  /\ \/ /\ text.at \in {"sent", "stored"}
        /\ text' = [text EXCEPT !.at = "failed"]
        /\ UNCHANGED image
     \/ /\ image.at \in {"sent", "stored"}
        /\ image' = [image EXCEPT !.at = "failed"]
        /\ UNCHANGED text
  /\ UNCHANGED <<storeVars, phone, socket, events, marking, pages, loading>>

\* handleSendMessage stores the image once more and tells the room of it.
StoreOverSocket ==
  /\ image.at = "emitted" /\ socket # "none"
  /\ Stored("self")
  /\ events' = IF socket = "joined" THEN Append(events, Len(author) + 1) ELSE events
  /\ image' = NoSend
  /\ UNCHANGED <<read, drops, phone, text, socket, marking, pages, loading>>

\* handleMarkRead.
MarkOverSocket ==
  /\ marking /\ socket # "none"
  /\ marking' = FALSE
  /\ MarkRead
  /\ UNCHANGED <<author, drops, phone, text, image, socket, events, pages, loading>>

-----------------------------------------------------------------------------
(* The screen.                                                             *)

\* fetchMessages: the first page at the start, then loadMore.
AskPage ==
  /\ loading = {}
  /\ pages > 0 => pages * PageSize < Len(author)
  /\ pages' = pages + 1
  /\ loading' = {PageOf(pages + 1, Len(author))}
  /\ MarkRead
  /\ UNCHANGED <<author, drops, phone, text, image, socket, events, marking>>

ShowPage ==
  /\ \E page \in loading : phone' = IF pages = 1 THEN page ELSE phone \o page
  /\ loading' = {}
  /\ marking' = TRUE
  /\ UNCHANGED <<storeVars, drops, text, image, socket, events, pages>>

\* The list is there: until then there is nothing to write with.
Shown == pages > 0 /\ (pages = 1 => loading = {})

SendText ==
  /\ Shown /\ text.at = "idle"
  /\ Len(author) < MaxMessages
  /\ text' = [at |-> "sent", row |-> 0]
  /\ phone' = <<Temp>> \o phone
  /\ UNCHANGED <<storeVars, drops, image, socket, events, marking, pages, loading>>

\* What fails is kept and shown as sent: -1 is a message that is only here.
EndText ==
  /\ text.at \in {"stored", "failed"}
  /\ phone' = Replaced(phone, Temp, IF text.at = "stored" THEN text.row ELSE -1)
  /\ text' = NoSend
  /\ UNCHANGED <<storeVars, drops, image, socket, events, marking, pages, loading>>

\* handleAttachImage: uploaded, sent, shown, and emitted if there is a socket.
AttachImage ==
  /\ Shown /\ image.at = "idle" /\ text.at = "idle"
  /\ Len(author) < MaxMessages
  /\ image' = [at |-> "sent", row |-> 0]
  /\ UNCHANGED <<storeVars, drops, phone, text, socket, events, marking, pages,
                 loading>>

EndImage ==
  /\ image.at \in {"stored", "failed"}
  /\ IF image.at = "stored"
     THEN /\ phone' = Append(phone, image.row)
          /\ image' = IF socket = "none" THEN NoSend ELSE [at |-> "emitted", row |-> 0]
     ELSE /\ image' = NoSend
          /\ UNCHANGED phone
  /\ UNCHANGED <<storeVars, drops, text, socket, events, marking, pages, loading>>

\* A connection joins the room, unless its joinConversation overtakes the
\* checks of handleConnection: that is answered with an error nobody reads.
Connect ==
  /\ socket = "none"
  /\ socket' \in {"joined", "deaf"}
  /\ UNCHANGED <<storeVars, drops, phone, text, image, events, marking, pages,
                 loading>>

\* The connection breaks: what was on its way to the phone is lost.
Drop ==
  /\ Dropped
  /\ socket # "none"
  /\ socket' = "none"
  /\ events' = <<>>
  /\ UNCHANGED <<storeVars, phone, text, image, marking, pages, loading>>

Received(s, m) == IF Holds(s, m) THEN s ELSE <<m>> \o s
Receive ==
  /\ events # <<>>
  /\ events' = Tail(events)
  /\ phone' = Received(phone, Head(events))
  /\ marking' = (marking \/ author[Head(events)] = "other")
  /\ UNCHANGED <<storeVars, drops, text, image, socket, pages, loading>>

-----------------------------------------------------------------------------
PhoneChatInit ==
  /\ ConversationInit
  /\ phone = <<>> /\ text = NoSend /\ image = NoSend
  /\ socket = "none" /\ events = <<>> /\ marking = FALSE
  /\ pages = 0 /\ loading = {}

PhoneChatNext ==
  \/ \E overSocket \in BOOLEAN : OtherWritesTo(overSocket)
  \/ StoreText \/ StoreImage \/ LoseSend \/ StoreOverSocket \/ MarkOverSocket
  \/ AskPage \/ ShowPage \/ SendText \/ EndText \/ AttachImage \/ EndImage
  \/ Connect \/ Drop \/ Receive

-----------------------------------------------------------------------------
\* Until it has loaded more, the screen never shows a message twice, whether
\* it came with the page, over the socket or as the screen's own (newMessage).
PhoneShowsOnce == pages < 2 => Once(phone)
=============================================================================
