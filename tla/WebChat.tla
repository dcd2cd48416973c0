------------------------------ MODULE WebChat -------------------------------
(***************************************************************************)
(* The conversation in a browser: messages/[id]/page.tsx polls the API     *)
(* every 3 seconds and shows what it sends before the API has it.          *)
(***************************************************************************)
EXTENDS Conversation

CONSTANT MaxPolls  \* bound: requests for the messages under way at once

ASSUME WebChatAssumption == MaxPolls \in Nat

VARIABLES
  web,        \* the list: rows, and Temp for an optimistic message
  post,       \* handleSend: how far it is, and the row it made
  fetches,    \* requests for the list: <<step, rows that there were>>
  opened      \* the page has shown the conversation

webVars == <<web, post, fetches, opened>>
webChatVars == <<storeVars, drops, webVars>>

(* Slips: what a definition below would be with a plausible mistake. No    *)
(* step uses them; each is caught by a property (PROJECT.json, "mutants"). *)

\* The poll adds what it does not know to what is shown.
PolledAppended(prev, fetched) ==
  prev \o SelectSeq(fetched, LAMBDA m : ~Holds(prev, m))

\* The poll only looks at how many messages there are.
PolledByCount(prev, fetched) == IF Len(fetched) # Len(prev) THEN fetched ELSE prev

-----------------------------------------------------------------------------
OtherWrites ==
  /\ Stored("other")
  /\ UNCHANGED <<read, drops, webVars>>

\* A send is stored; or it is refused, or its answer is lost.
StorePost ==
  /\ post.at = "sent"
  /\ Stored("self")
  /\ post' = [at |-> "stored", row |-> Len(author) + 1]
  /\ UNCHANGED <<read, drops, web, fetches, opened>>

LosePost ==
  /\ Dropped
  /\ post.at \in {"sent", "stored"}
  /\ post' = [post EXCEPT !.at = "failed"]
  /\ UNCHANGED <<storeVars, web, fetches, opened>>

\* The first load and the poll ask alike, and overlap; getMessages reads the
\* page and then marks.
Fetch ==
  /\ Cardinality(fetches) < MaxPolls
  /\ fetches' = fetches \cup {<<"found", Len(author)>>}
  /\ UNCHANGED <<storeVars, drops, web, post, opened>>

MarkFetched(n) ==
  /\ <<"found", n>> \in fetches
  /\ fetches' = (fetches \ {<<"found", n>>}) \cup {<<"answered", n>>}
  /\ MarkRead
  /\ UNCHANGED <<author, drops, web, post, opened>>

LoseFetch(f) ==
  /\ Dropped
  /\ f \in fetches
  /\ fetches' = fetches \ {f}
  /\ UNCHANGED <<storeVars, web, post, opened>>

\* What the poll makes of its answer.
Polled(prev, fetched) ==
  IF (\E i \in DOMAIN fetched : ~Holds(prev, fetched[i])) \/ Len(fetched) # Len(prev)
  THEN fetched ELSE prev

ShowFetched(n) ==
  /\ <<"answered", n>> \in fetches
  /\ fetches' = fetches \ {<<"answered", n>>}
  /\ web' = Polled(web, PageOf(1, n))
  /\ opened' = TRUE
  /\ UNCHANGED <<storeVars, drops, post>>

\* handleSend: an optimistic message, replaced by the row or taken back.
SendPost ==
  /\ opened /\ post.at = "idle"
  /\ Len(author) < MaxMessages
  /\ post' = [at |-> "sent", row |-> 0]
  /\ web' = Append(web, Temp)
  /\ UNCHANGED <<storeVars, drops, fetches, opened>>

EndPost ==
  /\ post.at \in {"stored", "failed"}
  /\ web' = IF post.at = "stored" THEN Replaced(web, Temp, post.row)
                                  ELSE TakenOut(web, Temp)
  /\ post' = NoSend
  /\ UNCHANGED <<storeVars, drops, fetches, opened>>

-----------------------------------------------------------------------------
WebChatInit ==
  /\ ConversationInit
  /\ web = <<>> /\ post = NoSend /\ fetches = {} /\ opened = FALSE

WebChatNext ==
  \/ OtherWrites \/ StorePost \/ LosePost
  \/ Fetch \/ SendPost \/ EndPost
  \/ \E n \in 0 .. MaxMessages : MarkFetched(n) \/ ShowFetched(n)
  \/ \E f \in fetches : LoseFetch(f)

-----------------------------------------------------------------------------
\* However polls overlap, come late and cross a send: the page never shows a
\* message twice, and what it shows of the other's is marked as read.
WebShowsOnce ==
  /\ Once(web)
  /\ \A i \in DOMAIN web : web[i] > 0 /\ author[web[i]] = "other" => web[i] \in read

\* A page polls for as long as it is open, and the API answers: in the end it
\* shows the last messages there are.
WebCatchesUp == <>[](opened => web = PageOf(1, Len(author)))
=============================================================================
