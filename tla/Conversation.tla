---------------------------- MODULE Conversation ----------------------------
(***************************************************************************)
(* The rows of one conversation (MessagesService). A message is its place  *)
(* in the conversation: 1, 2, 3 by createdAt. WebChat and PhoneChat are    *)
(* the two screens that show one.                                          *)
(***************************************************************************)
EXTENDS Integers, Sequences, FiniteSets

CONSTANTS
  PageSize,     \* messages in a page of the API
  MaxMessages,  \* bound: messages stored
  MaxDrops     \* bound: requests lost and connections dropped

ASSUME ConversationAssumption ==
  /\ PageSize \in Nat \ {0}
  /\ {MaxMessages, MaxDrops} \subseteq Nat

VARIABLES
  author,     \* who sent each Message row: the user of the screen, or the other
  read,       \* the rows that have a readAt
  drops

storeVars == <<author, read>>

\* A message that is shown before the API knows it, and a send of one.
Temp == 0
NoSend == [at |-> "idle", row |-> 0]
Rows == DOMAIN author

\* Which rows page k of getMessages holds when n are stored, oldest first.
Least(a, b) == IF a < b THEN a ELSE b
PageOf(k, n) ==
  LET last == n - (k - 1) * PageSize
  IN  [i \in 1 .. Least(PageSize, last) |-> last - Least(PageSize, last) + i]

Holds(s, m) == \E i \in DOMAIN s : s[i] = m
Replaced(s, a, b) == [i \in DOMAIN s |-> IF s[i] = a THEN b ELSE s[i]]
\* The list without m, which it holds once at most.
TakenOut(s, m) ==
  LET p == CHOOSE i \in DOMAIN s : s[i] = m
  IN  IF Holds(s, m) THEN [i \in 1 .. Len(s) - 1 |-> s[IF i < p THEN i ELSE i + 1]] ELSE s
Once(s) == \A i, j \in DOMAIN s : s[i] = s[j] /\ s[i] > 0 => i = j

\* sendMessage, in the transaction that also touches the conversation.
Stored(who) ==
  /\ Len(author) < MaxMessages
  /\ author' = Append(author, who)

\* markConversationRead, and the last statement of getMessages: all that the
\* other one has sent is read.
MarkRead == read' = read \cup {m \in Rows : author[m] = "other"}

Dropped == drops < MaxDrops /\ drops' = drops + 1

ConversationInit == author = <<>> /\ read = {} /\ drops = 0
=============================================================================
