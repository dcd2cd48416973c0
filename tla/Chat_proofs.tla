---------------------------- MODULE Chat_proofs -----------------------------
(***************************************************************************)
(* Messages, the sockets they travel by, and the negotiations a message    *)
(* opens: a screen shows a row once, the gateway forgets no socket, and a  *)
(* negotiation stays a line, for any number of rows, requests, sockets and *)
(* counter-offers.                                                         *)
(***************************************************************************)
EXTENDS WebChat, PhoneChat, Gateway, Offers, FiniteSetTheorems, TLAPS

-----------------------------------------------------------------------------
(* The conversation: rows are only ever added, and only ever read.         *)

Writers == {"self", "other"}

\* What any step does to the rows.
StoreGrows ==
  /\ author' = author \/ \E who \in Writers : author' = Append(author, who)
  /\ read \subseteq read'

\* What a store that grows keeps of the rows it had.
LEMMA Grown ==
  ASSUME author \in Seq(Writers), StoreGrows
  PROVE  /\ author' \in Seq(Writers)
         /\ Len(author) \in Nat /\ Len(author') \in Nat /\ Len(author) <= Len(author')
         /\ \A m \in 1 .. Len(author) : author'[m] = author[m]
<1>1. CASE author' = author
  BY <1>1
<1>2. ASSUME NEW who \in Writers, author' = Append(author, who)
      PROVE  /\ author' \in Seq(Writers)
             /\ Len(author) \in Nat /\ Len(author') \in Nat /\ Len(author) <= Len(author')
             /\ \A m \in 1 .. Len(author) : author'[m] = author[m]
  BY <1>2
<1> QED BY <1>1, <1>2 DEF StoreGrows

\* A new row comes after all there are.
LEMMA StoredLast ==
  ASSUME author \in Seq(Writers), NEW who \in Writers, Stored(who)
  PROVE  /\ author' \in Seq(Writers)
         /\ Len(author) \in Nat /\ Len(author') = Len(author) + 1
         /\ author'[Len(author) + 1] = who
         /\ \A m \in 1 .. Len(author) : author'[m] = author[m]
BY DEF Stored

\* The first page: some of the last rows, each once.
LEMMA FirstPage ==
  ASSUME NEW n \in Nat
  PROVE  /\ PageOf(1, n) \in Seq(1 .. n)
         /\ Once(PageOf(1, n))
         /\ \A i \in DOMAIN PageOf(1, n) : PageOf(1, n)[i] \in 1 .. n
<1> DEFINE k == Least(PageSize, n)
<1>1. PageSize \in Nat /\ (1 - 1) * PageSize = 0 /\ n - 0 = n
  BY ConversationAssumption
<1>2. k \in Nat /\ k <= n
  BY <1>1 DEF Least
<1>3. PageOf(1, n) = [i \in 1 .. k |-> n - k + i]
  BY <1>1 DEF PageOf
<1> HIDE DEF k
<1> DEFINE page == [i \in 1 .. k |-> n - k + i]
<1>4. page \in Seq(1 .. n) /\ DOMAIN page = 1 .. k
  BY <1>2
<1>5. \A i, j \in 1 .. k : page[i] = page[j] => i = j
  BY <1>2
<1>6. \A i \in 1 .. k : page[i] \in 1 .. n
  BY <1>2
<1> HIDE DEF page
<1>7. PageOf(1, n) = page
  BY <1>3 DEF page
<1> QED BY <1>4, <1>5, <1>6, <1>7 DEF Once

\* A list that shows m once at most, with m taken out.
LEMMA TakesOut ==
  ASSUME NEW S, NEW s \in Seq(S), NEW m,
         \A i, j \in DOMAIN s : s[i] = m /\ s[j] = m => i = j
  PROVE  /\ TakenOut(s, m) \in Seq(S)
         /\ \A i \in DOMAIN TakenOut(s, m) : TakenOut(s, m)[i] # m
         /\ \A i \in DOMAIN TakenOut(s, m) : \E j \in DOMAIN s : TakenOut(s, m)[i] = s[j]
         /\ Once(s) => Once(TakenOut(s, m))
<1>1. CASE Holds(s, m)
  <2> DEFINE p == CHOOSE i \in DOMAIN s : s[i] = m
             at(i) == IF i < p THEN i ELSE i + 1
             t == [i \in 1 .. Len(s) - 1 |-> s[at(i)]]
  <2>1. p \in DOMAIN s /\ s[p] = m
    BY <1>1 DEF Holds
  <2>2. TakenOut(s, m) = t
    BY <1>1 DEF TakenOut
  <2> HIDE DEF p
  <2>3. p \in 1 .. Len(s) /\ Len(s) \in Nat /\ DOMAIN s = 1 .. Len(s)
    BY <2>1
  <2>4. \A i \in 1 .. Len(s) - 1 : at(i) \in DOMAIN s /\ at(i) # p
    BY <2>3
  <2>5. \A i, j \in 1 .. Len(s) - 1 : at(i) = at(j) => i = j
    BY <2>3
  <2> HIDE DEF at
  <2>6. t \in Seq(S) /\ DOMAIN t = 1 .. Len(s) - 1
    BY <2>3, <2>4
  <2>7. \A i \in 1 .. Len(s) - 1 : t[i] = s[at(i)] /\ t[i] # m
    BY <2>1, <2>4
  <2> HIDE DEF t
  <2>8. Once(s) => Once(t)
    BY <2>4, <2>5, <2>6, <2>7 DEF Once
  <2> QED BY <2>2, <2>4, <2>6, <2>7, <2>8
<1>2. CASE ~Holds(s, m)
  BY <1>2 DEF TakenOut, Holds
<1> QED BY <1>1, <1>2

\* The message a send has made takes the place of the one shown before.
LEMMA Replaces ==
  ASSUME NEW s \in Seq(Int), NEW m \in Int, Once(s),
         \A i, j \in DOMAIN s : s[i] = Temp /\ s[j] = Temp => i = j,
         Holds(s, Temp) /\ m > 0 => ~Holds(s, m), m # Temp
  PROVE  /\ Replaced(s, Temp, m) \in Seq(Int) /\ DOMAIN Replaced(s, Temp, m) = DOMAIN s
         /\ Once(Replaced(s, Temp, m))
         /\ \A i \in DOMAIN s : Replaced(s, Temp, m)[i] # Temp
         /\ \A i \in DOMAIN s : Replaced(s, Temp, m)[i] = s[i]
                                  \/ (s[i] = Temp /\ Replaced(s, Temp, m)[i] = m)
<1> DEFINE t == [i \in DOMAIN s |-> IF s[i] = Temp THEN m ELSE s[i]]
<1>1. Replaced(s, Temp, m) = t
  BY DEF Replaced
<1>2. DOMAIN t = DOMAIN s /\ t \in Seq(Int)
  BY DEF Temp
<1>3. \A i \in DOMAIN s : t[i] # Temp /\ (t[i] = s[i] \/ (s[i] = Temp /\ t[i] = m))
  OBVIOUS
<1> HIDE DEF t
<1>4. \A i, j \in DOMAIN s : t[i] = t[j] /\ t[i] > 0 => i = j
  <2> SUFFICES ASSUME NEW i \in DOMAIN s, NEW j \in DOMAIN s, t[i] = t[j], t[i] > 0 PROVE i = j
    OBVIOUS
  <2>1. CASE t[i] = s[i] /\ t[j] = s[j]
    BY <2>1 DEF Once
  <2>2. CASE s[i] = Temp /\ t[i] = m /\ t[j] = s[j]
    BY <2>2 DEF Holds
  <2>3. CASE s[j] = Temp /\ t[j] = m /\ t[i] = s[i]
    BY <2>3 DEF Holds
  <2>4. CASE s[i] = Temp /\ s[j] = Temp
    BY <2>4
  <2> QED BY <1>3, <2>1, <2>2, <2>3, <2>4
<1> QED BY <1>1, <1>2, <1>3, <1>4 DEF Once

-----------------------------------------------------------------------------
(* The browser: an answer knows rows that are there, and has marked them.  *)

\* All that the other had sent when n rows were stored is read.
ReadUpTo(n) == \A m \in 1 .. n : author[m] = "other" => m \in read

PostInv ==
  /\ post \in [at : {"idle", "sent", "stored", "failed"}, row : 0 .. Len(author)]
  /\ post.at = "stored" => post.row > 0 /\ author[post.row] = "self"

ListInv ==
  /\ web \in Seq(0 .. Len(author))
  /\ \A i \in DOMAIN web : web[i] > 0 /\ author[web[i]] = "other" => web[i] \in read
  /\ Once(web)

\* What is shown before the API knows of it, and the row it becomes.
TempInv ==
  /\ \A i, j \in DOMAIN web : web[i] = Temp /\ web[j] = Temp => i = j
  /\ post.at = "idle" => ~Holds(web, Temp)
  /\ post.at = "stored" /\ Holds(web, Temp) => ~Holds(web, post.row)

FetchInv ==
  \A n : /\ <<"found", n>> \in fetches \/ <<"answered", n>> \in fetches => n \in 0 .. Len(author)
         /\ <<"answered", n>> \in fetches => ReadUpTo(n)

WebInv == author \in Seq(Writers) /\ PostInv /\ ListInv /\ TempInv /\ FetchInv

\* There is nothing to show at first.
THEOREM WebFirst == WebChatInit => WebInv
<1> SUFFICES ASSUME WebChatInit PROVE WebInv
  OBVIOUS
<1>1. author = <<>> /\ web = <<>> /\ fetches = {} /\ post = [at |-> "idle", row |-> 0]
  BY DEF WebChatInit, ConversationInit, NoSend
<1>2. author \in Seq(Writers) /\ web \in Seq(0 .. Len(author)) /\ Len(author) = 0
  BY <1>1
<1>3. PostInv
  BY <1>1, <1>2 DEF PostInv
<1>4. ListInv /\ TempInv
  BY <1>1, <1>2 DEF ListInv, TempInv, Once, Holds
<1> QED BY <1>1, <1>2, <1>3, <1>4 DEF WebInv, FetchInv

\* What an answer knows stays so when rows are added and read.
LEMMA FetchesKnow ==
  ASSUME FetchInv, Len(author) \in Nat, Len(author') \in Nat, Len(author) <= Len(author'),
         \A m \in 1 .. Len(author) : author'[m] = author[m],
         read \subseteq read', UNCHANGED fetches
  PROVE  FetchInv'
<1>1. \A n \in 0 .. Len(author) : n \in 0 .. Len(author)' /\ (ReadUpTo(n) => ReadUpTo(n)')
  BY DEF ReadUpTo
<1>2. ASSUME NEW n
      PROVE  /\ <<"found", n>> \in fetches' \/ <<"answered", n>> \in fetches' => n \in 0 .. Len(author)'
             /\ <<"answered", n>> \in fetches' => ReadUpTo(n)'
  BY <1>1 DEF FetchInv
<1> QED BY <1>2 DEF FetchInv

\* Whatever else writes and reads the conversation, the page's phone too.
LEMMA WebUndisturbed == ASSUME WebInv, StoreGrows, UNCHANGED webVars PROVE WebInv'
<1>1. /\ author' \in Seq(Writers) /\ Len(author) \in Nat /\ Len(author') \in Nat
      /\ Len(author) <= Len(author') /\ \A m \in 1 .. Len(author) : author'[m] = author[m]
      /\ read \subseteq read' /\ UNCHANGED <<web, post, fetches>>
  BY Grown DEF WebInv, StoreGrows, webVars
<1>2. PostInv'
  BY <1>1 DEF WebInv, PostInv
<1>3. \A i \in DOMAIN web : web[i] \in 0 .. Len(author)
  BY DEF WebInv, ListInv
<1>4. web' \in Seq(0 .. Len(author)')
  BY <1>1 DEF WebInv, ListInv
<1>5. \A i \in DOMAIN web : web[i] > 0 /\ author'[web[i]] = "other" => web[i] \in read'
  BY <1>1, <1>3 DEF WebInv, ListInv
<1>6. ListInv'
  BY <1>1, <1>4, <1>5 DEF WebInv, ListInv, Once
<1>7. TempInv'
  BY <1>1 DEF WebInv, TempInv, Holds
<1>8. FetchInv'
  BY <1>1, FetchesKnow DEF WebInv
<1> QED BY <1>1, <1>2, <1>6, <1>7, <1>8 DEF WebInv

\* Every step of the page, the API and whoever else writes keeps it.
THEOREM WebKept == WebInv /\ [WebChatNext]_webChatVars => WebInv'
<1> SUFFICES ASSUME WebInv, [WebChatNext]_webChatVars PROVE WebInv'
  OBVIOUS
<1>1. /\ author \in Seq(Writers) /\ Len(author) \in Nat /\ web \in Seq(0 .. Len(author))
      /\ \A i \in DOMAIN web : web[i] \in 0 .. Len(author)
      /\ post \in [at : {"idle", "sent", "stored", "failed"}, row : 0 .. Len(author)]
  BY DEF WebInv, PostInv, ListInv
<1>2. NoSend \in [at : {"idle", "sent", "stored", "failed"}, row : 0 .. Len(author)]
      /\ NoSend.at = "idle"
  BY <1>1 DEF NoSend
<1>3. CASE OtherWrites
  <2>1. StoreGrows
    BY <1>3 DEF OtherWrites, StoreGrows, Stored, Writers
  <2> QED BY <1>3, <2>1, WebUndisturbed DEF OtherWrites
<1>4. CASE StorePost
  <2> DEFINE n == Len(author) + 1
             next == [at |-> "stored", row |-> n]
  <2>1. post.at = "sent" /\ post' = next /\ UNCHANGED <<read, web, fetches>>
    BY <1>4 DEF StorePost
  <2>2. /\ author' \in Seq(Writers) /\ Len(author') = n /\ author'[n] = "self"
        /\ \A m \in 1 .. Len(author) : author'[m] = author[m]
    BY <1>1, <1>4, StoredLast DEF StorePost, Writers
  <2>3. PostInv'
    BY <1>1, <2>1, <2>2 DEF PostInv
  <2>4. web' \in Seq(0 .. Len(author)')
    BY <1>1, <2>1, <2>2
  <2>5. ListInv'
    <3>1. \A i \in DOMAIN web : web[i] > 0 => author'[web[i]] = author[web[i]]
      BY <1>1, <2>2
    <3> QED BY <2>1, <2>4, <3>1 DEF WebInv, ListInv, Once
  <2>6. ~Holds(web, n)
    BY <1>1 DEF Holds
  <2>7. TempInv'
    BY <2>1, <2>6 DEF WebInv, TempInv, Holds
  <2>8. FetchInv'
    BY <1>1, <2>1, <2>2, FetchesKnow DEF WebInv
  <2> QED BY <2>2, <2>3, <2>5, <2>7, <2>8 DEF WebInv
<1>5. CASE LosePost
  <2> DEFINE next == [post EXCEPT !.at = "failed"]
  <2>1. post' = next /\ UNCHANGED <<author, read, web, fetches>>
    BY <1>5 DEF LosePost, storeVars
  <2>2. /\ next \in [at : {"idle", "sent", "stored", "failed"}, row : 0 .. Len(author)]
        /\ next.at = "failed"
    BY <1>1
  <2> HIDE DEF next
  <2>3. PostInv' /\ ListInv' /\ TempInv' /\ FetchInv'
    BY <2>1, <2>2 DEF WebInv, PostInv, ListInv, TempInv, FetchInv, Once, Holds, ReadUpTo
  <2> QED BY <1>1, <2>1, <2>3 DEF WebInv
<1>6. CASE Fetch
  <2>1. fetches' = fetches \cup {<<"found", Len(author)>>} /\ UNCHANGED <<author, read, web, post>>
    BY <1>6 DEF Fetch, storeVars
  <2>2. PostInv' /\ ListInv' /\ TempInv'
    BY <2>1 DEF WebInv, PostInv, ListInv, TempInv, Once, Holds
  <2>3. \A n : /\ <<"found", n>> \in fetches' => <<"found", n>> \in fetches \/ n = Len(author)
               /\ <<"answered", n>> \in fetches' => <<"answered", n>> \in fetches
    BY <2>1
  <2>4. \A n : ReadUpTo(n)' <=> ReadUpTo(n)
    BY <2>1 DEF ReadUpTo
  <2>5. FetchInv'
    <3>1. \A n \in 0 .. Len(author) : n \in 0 .. Len(author)'
      BY <2>1
    <3>2. ASSUME NEW n
          PROVE  /\ <<"found", n>> \in fetches' \/ <<"answered", n>> \in fetches'
                      => n \in 0 .. Len(author)'
                 /\ <<"answered", n>> \in fetches' => ReadUpTo(n)'
      BY <1>1, <2>3, <2>4, <3>1 DEF WebInv, FetchInv
    <3> QED BY <3>2 DEF FetchInv
  <2> QED BY <1>1, <2>1, <2>2, <2>5 DEF WebInv
<1>7. ASSUME NEW n \in 0 .. MaxMessages, MarkFetched(n) PROVE WebInv'
  <2>1. /\ <<"found", n>> \in fetches
        /\ fetches' = (fetches \ {<<"found", n>>}) \cup {<<"answered", n>>}
        /\ read' = read \cup {m \in Rows : author[m] = "other"}
        /\ UNCHANGED <<author, web, post>>
    BY <1>7 DEF MarkFetched, MarkRead
  <2>2. n \in 0 .. Len(author)
    BY <2>1 DEF WebInv, FetchInv
  <2>3. \A k \in 0 .. Len(author) : ReadUpTo(k)'
    BY <1>1, <2>1 DEF ReadUpTo, Rows
  <2>4. FetchInv'
    BY <1>1, <2>1, <2>2, <2>3 DEF WebInv, FetchInv
  <2>5. PostInv' /\ ListInv' /\ TempInv'
    BY <2>1 DEF WebInv, PostInv, ListInv, TempInv, Once, Holds
  <2> QED BY <1>1, <2>1, <2>4, <2>5 DEF WebInv
<1>8. ASSUME NEW f \in fetches, LoseFetch(f) PROVE WebInv'
  <2>1. fetches' \subseteq fetches /\ UNCHANGED <<author, read, web, post>>
    BY <1>8 DEF LoseFetch, storeVars
  <2>2. PostInv' /\ ListInv' /\ TempInv'
    BY <2>1 DEF WebInv, PostInv, ListInv, TempInv, Once, Holds
  <2>3. FetchInv'
    BY <2>1 DEF WebInv, FetchInv, ReadUpTo
  <2> QED BY <1>1, <2>1, <2>2, <2>3 DEF WebInv
<1>9. ASSUME NEW n \in 0 .. MaxMessages, ShowFetched(n) PROVE WebInv'
  <2> DEFINE page == PageOf(1, n)
  <2>1. /\ <<"answered", n>> \in fetches /\ fetches' = fetches \ {<<"answered", n>>}
        /\ web' = Polled(web, page) /\ UNCHANGED <<author, read, post>>
    BY <1>9 DEF ShowFetched, storeVars
  <2>2. n \in 0 .. Len(author) /\ ReadUpTo(n)
    BY <2>1 DEF WebInv, FetchInv
  <2>3. n \in Nat
    BY <1>1, <2>2
  <2>4. web' = web \/ web' = page
    BY <2>1 DEF Polled
  <2>5. PostInv' /\ FetchInv'
    BY <2>1 DEF WebInv, PostInv, FetchInv, ReadUpTo
  <2>6. CASE web' = web
    BY <1>1, <2>1, <2>5, <2>6 DEF WebInv, ListInv, TempInv, Once, Holds
  <2>7. CASE web' = page
    <3>1. /\ page \in Seq(1 .. n) /\ Once(page)
          /\ \A i \in DOMAIN page : page[i] \in 1 .. n
      BY <2>3, FirstPage
    <3> HIDE DEF page
    <3>2. page \in Seq(0 .. Len(author))
      BY <1>1, <2>2, <3>1
    <3>3. \A i \in DOMAIN page : page[i] > 0 /\ author[page[i]] = "other" => page[i] \in read
      BY <2>2, <3>1 DEF ReadUpTo
    <3>4. ListInv'
      BY <2>1, <2>7, <3>1, <3>2, <3>3 DEF ListInv, Once
    <3>5. \A i \in DOMAIN page : page[i] # Temp
      BY <2>3, <3>1 DEF Temp
    <3>6. TempInv'
      BY <2>1, <2>7, <3>5 DEF TempInv, Holds
    <3> QED BY <1>1, <2>1, <2>5, <3>4, <3>6 DEF WebInv
  <2> QED BY <2>4, <2>6, <2>7
<1>10. CASE SendPost
  <2> DEFINE next == [at |-> "sent", row |-> 0]
  <2>1. /\ post.at = "idle" /\ post' = next /\ web' = Append(web, Temp)
        /\ UNCHANGED <<author, read, fetches>>
    BY <1>10 DEF SendPost, storeVars
  <2>2. ~Holds(web, Temp)
    BY <2>1 DEF WebInv, TempInv
  <2>3. /\ web' \in Seq(0 .. Len(author)) /\ Len(web') = Len(web) + 1 /\ web'[Len(web) + 1] = 0
        /\ Len(web) \in Nat /\ DOMAIN web = 1 .. Len(web)
        /\ \A i \in 1 .. Len(web) : web'[i] = web[i]
    BY <1>1, <2>1 DEF Temp
  <2>4. DOMAIN web' = 1 .. Len(web) + 1
    BY <2>3
  <2>5. PostInv'
    BY <1>1, <2>1 DEF PostInv
  <2>6. \A i \in DOMAIN web' : web'[i] > 0 => i \in DOMAIN web /\ web'[i] = web[i]
    BY <2>3, <2>4
  <2>7. ListInv'
    BY <2>1, <2>3, <2>6 DEF WebInv, ListInv, Once
  <2>8. \A i \in DOMAIN web' : web'[i] = Temp => i = Len(web) + 1
    BY <2>2, <2>3, <2>4 DEF Holds
  <2>9. TempInv'
    BY <2>1, <2>8 DEF TempInv
  <2>10. FetchInv'
    BY <2>1 DEF WebInv, FetchInv, ReadUpTo
  <2> QED BY <1>1, <2>1, <2>5, <2>7, <2>9, <2>10 DEF WebInv
<1>11. CASE EndPost
  <2>1. post' = NoSend /\ UNCHANGED <<author, read, fetches>>
    BY <1>11 DEF EndPost, storeVars
  <2>2. PostInv' /\ FetchInv'
    BY <1>2, <2>1 DEF WebInv, PostInv, FetchInv, ReadUpTo
  <2>3. \A i, j \in DOMAIN web : web[i] = Temp /\ web[j] = Temp => i = j
    BY DEF WebInv, TempInv
  <2>4. CASE post.at = "stored"
    <3> DEFINE m == post.row
               s == Replaced(web, Temp, m)
    <3>1. web' = s
      BY <1>11, <2>4 DEF EndPost
    <3>2. m \in 1 .. Len(author) /\ author[m] = "self"
      BY <1>1, <2>4 DEF WebInv, PostInv
    <3>3. web \in Seq(Int) /\ m \in Int /\ m > 0 /\ m # Temp /\ Once(web)
      BY <1>1, <3>2 DEF WebInv, ListInv, Temp
    <3>4. Holds(web, Temp) => ~Holds(web, m)
      BY <2>4 DEF WebInv, TempInv
    <3>5. /\ s \in Seq(Int) /\ DOMAIN s = DOMAIN web /\ Once(s)
          /\ \A i \in DOMAIN web : s[i] # Temp /\ (s[i] = web[i] \/ s[i] = m)
      BY <2>3, <3>3, <3>4, Replaces
    <3> HIDE DEF s, m
    <3>6. \A i \in DOMAIN s : s[i] \in 0 .. Len(author)
      BY <1>1, <3>2, <3>5
    <3>7. s \in Seq(0 .. Len(author))
      BY <3>5, <3>6
    <3>8. \A i \in DOMAIN s : s[i] > 0 /\ author[s[i]] = "other" => s[i] \in read
      BY <3>2, <3>5 DEF WebInv, ListInv
    <3>9. ListInv'
      BY <2>1, <3>1, <3>5, <3>7, <3>8 DEF ListInv, Once
    <3>10. TempInv'
      BY <1>2, <2>1, <3>1, <3>5 DEF TempInv, Holds
    <3> QED BY <1>1, <2>1, <2>2, <3>9, <3>10 DEF WebInv
  <2>5. CASE post.at # "stored"
    <3> DEFINE s == TakenOut(web, Temp)
    <3>1. web' = s
      BY <1>11, <2>5 DEF EndPost
    <3>2. /\ s \in Seq(0 .. Len(author)) /\ Once(s)
          /\ \A i \in DOMAIN s : s[i] # Temp
          /\ \A i \in DOMAIN s : \E j \in DOMAIN web : s[i] = web[j]
      BY <1>1, <2>3, TakesOut DEF WebInv, ListInv
    <3> HIDE DEF s
    <3>3. \A i \in DOMAIN s : s[i] > 0 /\ author[s[i]] = "other" => s[i] \in read
      BY <3>2 DEF WebInv, ListInv
    <3>4. ListInv'
      BY <2>1, <3>1, <3>2, <3>3 DEF ListInv, Once
    <3>5. TempInv'
      BY <1>2, <2>1, <3>1, <3>2 DEF TempInv, Holds
    <3> QED BY <1>1, <2>1, <2>2, <3>4, <3>5 DEF WebInv
  <2> QED BY <2>4, <2>5
<1>12. CASE UNCHANGED webChatVars
  <2>1. StoreGrows /\ UNCHANGED webVars
    BY <1>12 DEF webChatVars, storeVars, StoreGrows
  <2> QED BY <2>1, WebUndisturbed
<1> QED BY <1>3, <1>4, <1>5, <1>6, <1>7, <1>8, <1>9, <1>10, <1>11, <1>12 DEF WebChatNext

\* The page never shows a message twice (WebShowsOnce).
LEMMA WebThen == WebInv => WebShowsOnce
BY DEF WebInv, ListInv, WebShowsOnce

-----------------------------------------------------------------------------
(* The phone: what is on its way to the screen is not what it sent itself. *)

SendCalls == [at : {"idle", "sent", "stored", "failed", "emitted"}, row : 0 .. Len(author)]

SendsInv ==
  /\ text \in SendCalls /\ image \in SendCalls
  /\ text.at = "stored" => text.row > 0
  /\ image.at = "stored" => image.row > 0
  /\ text.at = "stored" /\ image.at = "stored" => text.row # image.row
  /\ text.at # "idle" \/ image.at # "idle" => Shown

\* A list shows none of the rows that a send has yet to show.
Apart(s) ==
  /\ text.at = "stored" => ~Holds(s, text.row)
  /\ image.at = "stored" => ~Holds(s, image.row)

EventsInv == events \in Seq(1 .. Len(author)) /\ Apart(events)

PagesInv ==
  /\ pages \in Nat
  /\ pages = 0 => loading = {}
  /\ pages < 2 => \A page \in loading : page \in Seq(1 .. Len(author)) /\ Once(page)

ScreenInv ==
  pages < 2 =>
    /\ phone \in Seq(Int)
    /\ \A i \in DOMAIN phone : phone[i] <= Len(author)
    /\ Once(phone) /\ Apart(phone)
    /\ \A i, j \in DOMAIN phone : phone[i] = Temp /\ phone[j] = Temp => i = j
    /\ text.at = "idle" => ~Holds(phone, Temp)

PhoneInv == author \in Seq(Writers) /\ SendsInv /\ EventsInv /\ PagesInv /\ ScreenInv

\* The screen is empty at first.
THEOREM PhoneFirst == PhoneChatInit => PhoneInv
<1> SUFFICES ASSUME PhoneChatInit PROVE PhoneInv
  OBVIOUS
<1>1. /\ author = <<>> /\ phone = <<>> /\ events = <<>> /\ pages = 0 /\ loading = {}
      /\ text = NoSend /\ image = NoSend
  BY DEF PhoneChatInit, ConversationInit
<1>2. author \in Seq(Writers) /\ Len(author) = 0 /\ events \in Seq(1 .. 0) /\ phone \in Seq(Int)
  BY <1>1
<1>3. NoSend \in [at : {"idle", "sent", "stored", "failed", "emitted"}, row : 0 .. 0]
      /\ NoSend.at = "idle"
  BY DEF NoSend
<1>4. SendsInv
  BY <1>1, <1>2, <1>3 DEF SendsInv, SendCalls
<1>5. EventsInv /\ PagesInv /\ ScreenInv
  BY <1>1, <1>2, <1>3 DEF EventsInv, PagesInv, ScreenInv, Apart, Once, Holds
<1> QED BY <1>2, <1>4, <1>5 DEF PhoneInv

\* A sequence over a set is one over a larger set.
LEMMA SeqMore == ASSUME NEW A, NEW B, A \subseteq B PROVE Seq(A) \subseteq Seq(B)
OBVIOUS

\* Whatever is added or read, the lists stay lists of rows.
LEMMA MoreRows ==
  ASSUME author \in Seq(Writers), StoreGrows
  PROVE  /\ SendCalls \subseteq SendCalls'
         /\ \A s \in Seq(1 .. Len(author)) : s \in Seq(1 .. Len(author'))
         /\ \A n \in Int : n <= Len(author) => n <= Len(author')
<1>1. Len(author) \in Nat /\ Len(author') \in Nat /\ Len(author) <= Len(author')
  BY Grown
<1>2. 0 .. Len(author) \subseteq 0 .. Len(author') /\ 1 .. Len(author) \subseteq 1 .. Len(author')
  BY <1>1
<1>3. SendCalls \subseteq SendCalls'
  BY <1>2 DEF SendCalls
<1>4. \A s \in Seq(1 .. Len(author)) : s \in Seq(1 .. Len(author'))
  BY <1>2, SeqMore
<1> QED BY <1>1, <1>3, <1>4

\* A step that sends nothing and shows nothing: rows are added or read, and
\* an event for one of them may be on its way.
LEMMA PhoneUndisturbed ==
  ASSUME PhoneInv, StoreGrows, UNCHANGED <<phone, text, pages, loading>>,
         image' = image \/ image' = NoSend,
         \/ events' = events \/ events' = <<>>
         \/ Len(author') = Len(author) + 1 /\ events' = Append(events, Len(author) + 1)
  PROVE  PhoneInv'
<1>1. /\ author' \in Seq(Writers) /\ Len(author) \in Nat /\ Len(author') \in Nat
      /\ Len(author) <= Len(author')
  BY Grown DEF PhoneInv
<1>2. NoSend.at = "idle" /\ NoSend \in SendCalls'
  BY <1>1 DEF NoSend, SendCalls
<1>3. SendsInv'
  BY <1>2, MoreRows DEF PhoneInv, SendsInv, Shown
<1>4. PagesInv'
  BY MoreRows DEF PhoneInv, PagesInv
<1>5. ScreenInv'
  BY <1>2, MoreRows DEF PhoneInv, ScreenInv, Apart, Once, Holds
<1>6. EventsInv'
  <2>1. CASE events' = events
    BY <1>2, <2>1, MoreRows DEF PhoneInv, EventsInv, Apart, Holds
  <2>2. CASE events' = <<>>
    BY <2>2 DEF EventsInv, Apart, Holds
  <2>3. CASE Len(author') = Len(author) + 1 /\ events' = Append(events, Len(author) + 1)
    <3>1. events \in Seq(1 .. Len(author')) /\ Len(author) + 1 \in 1 .. Len(author')
      BY <1>1, <2>3, MoreRows DEF PhoneInv, EventsInv
    <3>2. /\ events' \in Seq(1 .. Len(author'))
          /\ \A i \in DOMAIN events' : \/ i \in DOMAIN events /\ events'[i] = events[i]
                                     \/ events'[i] = Len(author) + 1
      BY <2>3, <3>1
    <3>3. text.row # Len(author) + 1 /\ image.row # Len(author) + 1
      BY <1>1 DEF PhoneInv, SendsInv, SendCalls
    <3> QED BY <1>2, <3>2, <3>3 DEF PhoneInv, EventsInv, Apart, Holds
  <2> QED BY <2>1, <2>2, <2>3
<1> QED BY <1>1, <1>3, <1>4, <1>5, <1>6 DEF PhoneInv

\* A step of a send that stores no row and shows none.
LEMMA SendGoesOn ==
  ASSUME PhoneInv, UNCHANGED <<author, phone, events, pages, loading>>,
         text' \in SendCalls, image' \in SendCalls,
         text'.at = "stored" => text' = text, image'.at = "stored" => image' = image,
         text'.at # "idle" \/ image'.at # "idle" => Shown,
         text'.at = "idle" => text.at = "idle"
  PROVE  PhoneInv'
<1>1. SendsInv'
  BY DEF PhoneInv, SendsInv, SendCalls, Shown
<1>2. EventsInv'
  BY DEF PhoneInv, EventsInv, Apart, Holds
<1>3. PagesInv'
  BY DEF PhoneInv, PagesInv
<1>4. ScreenInv'
  BY DEF PhoneInv, ScreenInv, Apart, Holds, Once
<1> QED BY <1>1, <1>2, <1>3, <1>4 DEF PhoneInv

\* A step of the screen: from here on only what it shows is in question.
LEMMA Shows ==
  ASSUME PhoneInv, UNCHANGED <<author, pages, loading>>,
         SendsInv', EventsInv',
         pages < 2 =>
           /\ phone' \in Seq(Int) /\ Once(phone')
           /\ \A i \in DOMAIN phone' : phone'[i] <= Len(author)
           /\ Apart(phone)'
           /\ \A i, j \in DOMAIN phone' : phone'[i] = Temp /\ phone'[j] = Temp => i = j
           /\ text'.at = "idle" => ~Holds(phone', Temp)
  PROVE  PhoneInv'
<1>1. PagesInv'
  BY DEF PhoneInv, PagesInv
<1>2. ScreenInv'
  BY DEF PhoneInv, ScreenInv
<1> QED BY <1>1, <1>2 DEF PhoneInv

\* A list t that holds m, and otherwise what s does, each as often.
PutsIn(s, t, m) ==
  /\ \A i \in DOMAIN t : t[i] = m \/ \E j \in DOMAIN s : t[i] = s[j]
  /\ \A n : Holds(t, n) <=> n = m \/ Holds(s, n)
  /\ Once(s) /\ (m > 0 => ~Holds(s, m)) => Once(t)
  /\ (\A i, j \in DOMAIN s : s[i] = Temp /\ s[j] = Temp => i = j) /\ (m = Temp => ~Holds(s, Temp))
       => \A i, j \in DOMAIN t : t[i] = Temp /\ t[j] = Temp => i = j

\* In t, m is at p, and at every other place what s has where at says.
Places(s, t, m, p, at) ==
  /\ p \in DOMAIN t /\ t[p] = m
  /\ at \in [DOMAIN t \ {p} -> DOMAIN s]
  /\ \A i \in DOMAIN t \ {p} : t[i] = s[at[i]]
  /\ \A i, j \in DOMAIN t \ {p} : at[i] = at[j] => i = j
  /\ \A k \in DOMAIN s : \E i \in DOMAIN t \ {p} : at[i] = k

\* What a list has once a message was put in at a place, all else as before.
LEMMA PutIn == ASSUME NEW s, NEW t, NEW m, NEW p, NEW at, Places(s, t, m, p, at)
               PROVE  PutsIn(s, t, m)
<1>1. /\ p \in DOMAIN t /\ t[p] = m
      /\ at \in [DOMAIN t \ {p} -> DOMAIN s]
      /\ \A i \in DOMAIN t \ {p} : t[i] = s[at[i]]
      /\ \A i, j \in DOMAIN t \ {p} : at[i] = at[j] => i = j
      /\ \A k \in DOMAIN s : \E i \in DOMAIN t \ {p} : at[i] = k
  BY DEF Places
<1>2. \A i \in DOMAIN t : t[i] = m \/ \E j \in DOMAIN s : t[i] = s[j]
  BY <1>1
<1>3. \A n : Holds(t, n) <=> n = m \/ Holds(s, n)
  <2>1. ASSUME NEW n, Holds(t, n) PROVE n = m \/ Holds(s, n)
    BY <1>1, <2>1 DEF Holds
  <2>2. ASSUME NEW n, n = m \/ Holds(s, n) PROVE Holds(t, n)
    BY <1>1, <2>2 DEF Holds
  <2> QED BY <2>1, <2>2
<1>4. ASSUME Once(s), m > 0 => ~Holds(s, m) PROVE Once(t)
  <2> SUFFICES ASSUME NEW i \in DOMAIN t, NEW j \in DOMAIN t, t[i] = t[j], t[i] > 0 PROVE i = j
    BY DEF Once
  <2>1. CASE i # p /\ j # p
    BY <1>1, <1>4, <2>1 DEF Once
  <2>2. CASE i = p \/ j = p
    BY <1>1, <1>4, <2>2 DEF Holds
  <2> QED BY <2>1, <2>2
<1>5. ASSUME \A i, j \in DOMAIN s : s[i] = Temp /\ s[j] = Temp => i = j,
             m = Temp => ~Holds(s, Temp),
             NEW i \in DOMAIN t, NEW j \in DOMAIN t, t[i] = Temp, t[j] = Temp
      PROVE  i = j
  <2>1. CASE i # p /\ j # p
    BY <1>1, <1>5, <2>1
  <2>2. CASE i = p \/ j = p
    BY <1>1, <1>5, <2>2 DEF Holds
  <2> QED BY <2>1, <2>2
<1> QED BY <1>2, <1>3, <1>4, <1>5 DEF PutsIn

\* A list with one more message, at its front or at its end.
LEMMA OneMoreShown ==
  ASSUME NEW s \in Seq(Int), NEW m \in Int, NEW t, t = <<m>> \o s \/ t = Append(s, m)
  PROVE  t \in Seq(Int) /\ PutsIn(s, t, m)
<1>1. Len(s) \in Nat /\ DOMAIN s = 1 .. Len(s)
  OBVIOUS
<1>2. CASE t = <<m>> \o s
  <2> DEFINE at == [i \in DOMAIN t \ {1} |-> i - 1]
  <2>1. /\ t \in Seq(Int) /\ Len(t) = Len(s) + 1 /\ t[1] = m
        /\ \A i \in 2 .. Len(s) + 1 : t[i] = s[i - 1]
    BY <1>1, <1>2
  <2>2. DOMAIN t = 1 .. Len(s) + 1
    BY <2>1
  <2>3. at \in [DOMAIN t \ {1} -> DOMAIN s] /\ 1 \in DOMAIN t
    BY <1>1, <2>2
  <2>4. \A i \in DOMAIN t \ {1} : t[i] = s[at[i]]
    BY <1>1, <2>1, <2>2
  <2>5. \A i, j \in DOMAIN t \ {1} : at[i] = at[j] => i = j
    BY <1>1, <2>2
  <2>6. \A k \in DOMAIN s : k + 1 \in DOMAIN t \ {1} /\ at[k + 1] = k
    BY <1>1, <2>2
  <2>7. \A k \in DOMAIN s : \E i \in DOMAIN t \ {1} : at[i] = k
    BY <2>6
  <2>8. 1 \in DOMAIN t /\ t[1] = m /\ t \in Seq(Int)
    BY <2>1, <2>3
  <2>9. Places(s, t, m, 1, at)
    BY <2>3, <2>4, <2>5, <2>7, <2>8 DEF Places
  <2> QED BY <2>8, <2>9, PutIn
<1>3. CASE t = Append(s, m)
  <2> DEFINE n == Len(s) + 1
             at == [i \in DOMAIN t \ {n} |-> i]
  <2>1. /\ t \in Seq(Int) /\ Len(t) = n /\ t[n] = m /\ \A i \in 1 .. Len(s) : t[i] = s[i]
    BY <1>1, <1>3
  <2>2. DOMAIN t = 1 .. n
    BY <2>1
  <2>3. at \in [DOMAIN t \ {n} -> DOMAIN s] /\ n \in DOMAIN t
    BY <1>1, <2>2
  <2>4. \A i \in DOMAIN t \ {n} : t[i] = s[at[i]]
    BY <1>1, <2>1, <2>2
  <2>5. \A i, j \in DOMAIN t \ {n} : at[i] = at[j] => i = j
    OBVIOUS
  <2>6. \A k \in DOMAIN s : k \in DOMAIN t \ {n} /\ at[k] = k
    BY <1>1, <2>2
  <2>7. \A k \in DOMAIN s : \E i \in DOMAIN t \ {n} : at[i] = k
    BY <2>6
  <2>8. n \in DOMAIN t /\ t[n] = m /\ t \in Seq(Int)
    BY <2>1, <2>3
  <2>9. Places(s, t, m, n, at)
    BY <2>3, <2>4, <2>5, <2>7, <2>8 DEF Places
  <2> QED BY <2>8, <2>9, PutIn
<1> QED BY <1>2, <1>3

\* A row that is stored is shown nowhere yet, and is no other send's.
LEMMA NewRowApart ==
  ASSUME PhoneInv, UNCHANGED <<phone, events, pages, loading>>,
         author' \in Seq(Writers), Len(author') = Len(author) + 1,
         NEW mine \in SendCalls', mine.at = "stored", mine.row = Len(author) + 1,
         \/ text.at = "sent" /\ text' = mine /\ image' = image
         \/ image.at = "sent" /\ image' = mine /\ text' = text
  PROVE  PhoneInv'
<1>1. /\ Len(author) \in Nat /\ SendCalls \subseteq SendCalls'
      /\ events \in Seq(1 .. Len(author)) /\ events' \in Seq(1 .. Len(author'))
  <2>1. Len(author) \in Nat /\ events \in Seq(1 .. Len(author))
    BY DEF PhoneInv, EventsInv
  <2>2. 1 .. Len(author) \subseteq 1 .. Len(author') /\ 0 .. Len(author) \subseteq 0 .. Len(author')
    BY <2>1
  <2> QED BY <2>1, <2>2, SeqMore DEF SendCalls
<1>2. /\ text \in SendCalls /\ image \in SendCalls
      /\ text.row # Len(author) + 1 /\ image.row # Len(author) + 1
  BY <1>1 DEF PhoneInv, SendsInv, SendCalls
<1>3. SendsInv'
  BY <1>1, <1>2 DEF PhoneInv, SendsInv, Shown
<1>4. EventsInv'
  <2>1. ~Holds(events, Len(author) + 1)
    BY <1>1 DEF Holds
  <2> QED BY <1>1, <2>1 DEF PhoneInv, EventsInv, Apart
<1>5. PagesInv'
  <2>1. 1 .. Len(author) \subseteq 1 .. Len(author')
    BY <1>1
  <2>2. Seq(1 .. Len(author)) \subseteq Seq(1 .. Len(author'))
    BY <2>1, SeqMore
  <2> QED BY <2>2 DEF PhoneInv, PagesInv
<1>6. ScreenInv'
  <2> SUFFICES ASSUME pages < 2 PROVE ScreenInv'
    BY DEF ScreenInv
  <2>1. phone \in Seq(Int) /\ \A i \in DOMAIN phone : phone[i] <= Len(author) /\ phone[i] \in Int
    BY DEF PhoneInv, ScreenInv
  <2>2. ~Holds(phone, Len(author) + 1)
    BY <1>1, <2>1 DEF Holds
  <2>3. \A i \in DOMAIN phone' : phone'[i] <= Len(author')
    BY <1>1, <2>1
  <2>4. Apart(phone)'
    BY <2>2 DEF PhoneInv, ScreenInv, Apart
  <2> QED BY <2>3, <2>4 DEF PhoneInv, ScreenInv
<1> QED BY <1>3, <1>4, <1>5, <1>6 DEF PhoneInv

\* Every step of the screen, the API and the gateway keeps it.
THEOREM PhoneKept == PhoneInv /\ [PhoneChatNext]_phoneChatVars => PhoneInv'
<1> SUFFICES ASSUME PhoneInv, [PhoneChatNext]_phoneChatVars PROVE PhoneInv'
  OBVIOUS
<1>1. /\ author \in Seq(Writers) /\ Len(author) \in Nat
      /\ text \in SendCalls /\ image \in SendCalls
      /\ events \in Seq(1 .. Len(author)) /\ pages \in Nat
  BY DEF PhoneInv, SendsInv, EventsInv, PagesInv
<1>2. NoSend.at = "idle" /\ NoSend \in SendCalls
  BY <1>1 DEF NoSend, SendCalls
<1>3. ASSUME UNCHANGED author, read \subseteq read' PROVE StoreGrows
  BY <1>3 DEF StoreGrows
<1>4. ASSUME NEW overSocket \in BOOLEAN, OtherWritesTo(overSocket) PROVE PhoneInv'
  <2>1. UNCHANGED <<phone, text, image, pages, loading>>
    BY <1>4 DEF OtherWritesTo
  <2>2. StoreGrows /\ Len(author') = Len(author) + 1
    BY <1>1, <1>4 DEF OtherWritesTo, Stored, StoreGrows, Writers
  <2>3. events' = events \/ events' = Append(events, Len(author) + 1)
    BY <1>4 DEF OtherWritesTo
  <2> QED BY <2>1, <2>2, <2>3, PhoneUndisturbed
<1>5. CASE StoreText
  <2> DEFINE mine == [at |-> "stored", row |-> Len(author) + 1]
  <2>1. /\ text.at = "sent" /\ text' = mine /\ image' = image
        /\ UNCHANGED <<phone, events, pages, loading>>
    BY <1>5 DEF StoreText
  <2>2. author' \in Seq(Writers) /\ Len(author') = Len(author) + 1
    BY <1>1, <1>5, StoredLast DEF StoreText, Writers
  <2>3. mine \in SendCalls' /\ mine.at = "stored" /\ mine.row = Len(author) + 1
    BY <1>1, <2>2 DEF SendCalls
  <2> HIDE DEF mine
  <2> QED BY <2>1, <2>2, <2>3, NewRowApart
<1>6. CASE StoreImage
  <2> DEFINE mine == [at |-> "stored", row |-> Len(author) + 1]
  <2>1. /\ image.at = "sent" /\ image' = mine /\ text' = text
        /\ UNCHANGED <<phone, events, pages, loading>>
    BY <1>6 DEF StoreImage
  <2>2. author' \in Seq(Writers) /\ Len(author') = Len(author) + 1
    BY <1>1, <1>6, StoredLast DEF StoreImage, Writers
  <2>3. mine \in SendCalls' /\ mine.at = "stored" /\ mine.row = Len(author) + 1
    BY <1>1, <2>2 DEF SendCalls
  <2> HIDE DEF mine
  <2> QED BY <2>1, <2>2, <2>3, NewRowApart
<1>7. CASE LoseSend
  <2>1. UNCHANGED <<author, phone, events, pages, loading>>
    BY <1>7 DEF LoseSend, storeVars
  <2>2. ASSUME NEW call \in SendCalls
        PROVE  [call EXCEPT !.at = "failed"] \in SendCalls /\ [call EXCEPT !.at = "failed"].at = "failed"
    BY DEF SendCalls
  <2>3. CASE text.at \in {"sent", "stored"} /\ text' = [text EXCEPT !.at = "failed"] /\ UNCHANGED image
    <3>1. text' \in SendCalls /\ text'.at = "failed"
      BY <1>1, <2>2, <2>3
    <3>2. Shown
      BY <2>3 DEF PhoneInv, SendsInv
    <3> QED BY <1>1, <2>1, <2>3, <3>1, <3>2, SendGoesOn
  <2>4. CASE image.at \in {"sent", "stored"} /\ image' = [image EXCEPT !.at = "failed"] /\ UNCHANGED text
    <3>1. image' \in SendCalls /\ image'.at = "failed"
      BY <1>1, <2>2, <2>4
    <3>2. Shown
      BY <2>4 DEF PhoneInv, SendsInv
    <3> QED BY <1>1, <2>1, <2>4, <3>1, <3>2, SendGoesOn
  <2> QED BY <1>7, <2>3, <2>4 DEF LoseSend
<1>8. CASE StoreOverSocket
  <2>1. UNCHANGED <<phone, text, pages, loading>> /\ image' = NoSend
    BY <1>8 DEF StoreOverSocket
  <2>2. StoreGrows /\ Len(author') = Len(author) + 1
    BY <1>1, <1>8 DEF StoreOverSocket, Stored, StoreGrows, Writers
  <2>3. events' = events \/ events' = Append(events, Len(author) + 1)
    BY <1>8 DEF StoreOverSocket
  <2> QED BY <2>1, <2>2, <2>3, PhoneUndisturbed
<1>9. CASE MarkOverSocket
  BY <1>3, <1>9, PhoneUndisturbed DEF MarkOverSocket, MarkRead
<1>10. CASE Connect \/ Drop \/ UNCHANGED phoneChatVars
  <2>1. /\ UNCHANGED <<author, read, phone, text, image, pages, loading>>
        /\ events' = events \/ events' = <<>>
    BY <1>10 DEF Connect, Drop, phoneChatVars, phoneVars, storeVars
  <2> QED BY <1>3, <2>1, PhoneUndisturbed
<1>11. CASE AskPage
  <2>1. /\ loading = {} /\ pages' = pages + 1 /\ loading' = {PageOf(pages + 1, Len(author))}
        /\ UNCHANGED <<author, phone, text, image, events>>
    BY <1>11 DEF AskPage
  <2>2. SendsInv'
    <3>1. Shown => Shown'
      BY <1>1, <2>1 DEF Shown
    <3> QED BY <1>1, <2>1, <3>1 DEF PhoneInv, SendsInv, SendCalls
  <2>3. EventsInv'
    BY <2>1 DEF PhoneInv, EventsInv, Apart, Holds
  <2>4. PagesInv'
    <3>1. pages' < 2 => pages + 1 = 1
      BY <1>1, <2>1
    <3>2. PageOf(1, Len(author)) \in Seq(1 .. Len(author)) /\ Once(PageOf(1, Len(author)))
      BY <1>1, FirstPage
    <3>3. pages' \in Nat /\ pages' # 0
      BY <1>1, <2>1
    <3> QED BY <2>1, <3>1, <3>2, <3>3 DEF PagesInv
  <2>5. ScreenInv'
    BY <1>1, <2>1 DEF PhoneInv, ScreenInv, Apart, Holds, Once
  <2> QED BY <2>1, <2>2, <2>3, <2>4, <2>5, <1>1 DEF PhoneInv
<1>12. CASE ShowPage
  <2>1. PICK page \in loading : phone' = IF pages = 1 THEN page ELSE phone \o page
    BY <1>12 DEF ShowPage
  <2>2. loading' = {} /\ UNCHANGED <<author, text, image, events, pages>>
    BY <1>12 DEF ShowPage, storeVars
  <2>3. SendsInv'
    BY <2>2 DEF PhoneInv, SendsInv, SendCalls, Shown
  <2>4. EventsInv'
    BY <2>2 DEF PhoneInv, EventsInv, Apart, Holds
  <2>5. PagesInv'
    BY <2>2 DEF PhoneInv, PagesInv
  <2>6. ScreenInv'
    <3> SUFFICES ASSUME pages < 2 PROVE ScreenInv'
      BY <2>2 DEF ScreenInv
    <3>1. pages = 1
      BY <1>1, <2>1 DEF PhoneInv, PagesInv
    <3>2. phone' = page /\ page \in Seq(1 .. Len(author)) /\ Once(page)
      BY <2>1, <3>1 DEF PhoneInv, PagesInv
    <3>3. text.at = "idle" /\ image.at = "idle"
      BY <2>1, <3>1 DEF PhoneInv, SendsInv, Shown
    <3>4. \A i \in DOMAIN page : page[i] \in 1 .. Len(author)
      BY <3>2
    <3>5. phone' \in Seq(Int)
      BY <3>2, <1>1
    <3>6. \A i \in DOMAIN phone' : phone'[i] <= Len(author) /\ phone'[i] # Temp
      BY <1>1, <3>2, <3>4 DEF Temp
    <3>7. ~Holds(phone', Temp)
      BY <3>6 DEF Holds
    <3>8. Apart(phone)'
      BY <2>2, <3>3 DEF Apart
    <3> QED BY <2>2, <3>2, <3>5, <3>6, <3>7, <3>8 DEF ScreenInv, Once
  <2> QED BY <1>1, <2>2, <2>3, <2>4, <2>5, <2>6 DEF PhoneInv
<1>13. CASE SendText
  <2> DEFINE mine == [at |-> "sent", row |-> 0]
  <2>1. /\ Shown /\ text.at = "idle" /\ text' = mine /\ phone' = <<Temp>> \o phone
        /\ UNCHANGED <<author, image, events, pages, loading>>
    BY <1>13 DEF SendText, storeVars
  <2>2. mine \in SendCalls /\ mine.at = "sent"
    BY <1>1 DEF SendCalls
  <2> HIDE DEF mine
  <2>3. SendsInv'
    BY <2>1, <2>2 DEF PhoneInv, SendsInv, SendCalls, Shown
  <2>4. EventsInv'
    BY <2>1, <2>2 DEF PhoneInv, EventsInv, Apart, Holds
  <2>5. ASSUME pages < 2
        PROVE  /\ phone' \in Seq(Int) /\ Once(phone')
               /\ \A i \in DOMAIN phone' : phone'[i] <= Len(author)
               /\ Apart(phone)'
               /\ \A i, j \in DOMAIN phone' : phone'[i] = Temp /\ phone'[j] = Temp => i = j
    <3>1. phone \in Seq(Int) /\ Once(phone) /\ ~Holds(phone, Temp) /\ Apart(phone)
      BY <2>1, <2>5 DEF PhoneInv, ScreenInv
    <3>2. \A i \in DOMAIN phone : phone[i] <= Len(author)
      BY <2>5 DEF PhoneInv, ScreenInv
    <3>3. phone' \in Seq(Int) /\ PutsIn(phone, phone', Temp)
      <4>1. Temp \in Int
        BY DEF Temp
      <4> QED BY <2>1, <3>1, <4>1, OneMoreShown
    <3>4. image.at = "stored" => image.row # Temp
      BY DEF PhoneInv, SendsInv, Temp
    <3>5. Apart(phone)'
      BY <2>1, <2>2, <3>1, <3>3, <3>4 DEF Apart, PutsIn
    <3>6. \A i \in DOMAIN phone' : phone'[i] <= Len(author)
      BY <1>1, <3>2, <3>3 DEF PutsIn, Temp
    <3>7. \A i, j \in DOMAIN phone' : phone'[i] = Temp /\ phone'[j] = Temp => i = j
      BY <3>1, <3>3 DEF PutsIn, Holds
    <3> QED BY <3>1, <3>3, <3>5, <3>6, <3>7 DEF PutsIn, Temp
  <2> QED BY <2>1, <2>2, <2>3, <2>4, <2>5, Shows
<1>14. CASE EndText
  <2> DEFINE m == IF text.at = "stored" THEN text.row ELSE -1
  <2>1. /\ text' = NoSend /\ phone' = Replaced(phone, Temp, m)
        /\ UNCHANGED <<author, image, events, pages, loading>>
    BY <1>14 DEF EndText, storeVars
  <2>2. /\ m \in Int /\ m # Temp /\ m <= Len(author)
        /\ m > 0 => text.at = "stored" /\ m = text.row
    BY <1>1 DEF PhoneInv, SendsInv, SendCalls, Temp
  <2> HIDE DEF m
  <2>3. SendsInv'
    BY <1>2, <2>1 DEF PhoneInv, SendsInv, SendCalls, Shown
  <2>4. EventsInv'
    BY <1>2, <2>1 DEF PhoneInv, EventsInv, Apart, Holds
  <2>5. ASSUME pages < 2
        PROVE  /\ phone' \in Seq(Int) /\ Once(phone')
               /\ \A i \in DOMAIN phone' : phone'[i] <= Len(author) /\ phone'[i] # Temp
               /\ Apart(phone)'
    <3>1. /\ phone \in Seq(Int) /\ Once(phone) /\ Apart(phone)
          /\ \A i, j \in DOMAIN phone : phone[i] = Temp /\ phone[j] = Temp => i = j
          /\ \A i \in DOMAIN phone : phone[i] <= Len(author)
      BY <2>5 DEF PhoneInv, ScreenInv
    <3>2. m > 0 => ~Holds(phone, m)
      BY <2>2, <3>1 DEF Apart
    <3>3. /\ phone' \in Seq(Int) /\ DOMAIN phone' = DOMAIN phone /\ Once(phone')
          /\ \A i \in DOMAIN phone : phone'[i] # Temp /\ (phone'[i] = phone[i] \/ phone'[i] = m)
      BY <2>1, <2>2, <3>1, <3>2, Replaces
    <3>4. image.at = "stored" => image.row # m
      BY <2>2 DEF PhoneInv, SendsInv
    <3>5. Apart(phone)'
      BY <1>2, <2>1, <3>1, <3>3, <3>4 DEF Apart, Holds
    <3> QED BY <2>2, <3>1, <3>3, <3>5
  <2>6. pages < 2 => ~Holds(phone', Temp)
    BY <2>5 DEF Holds
  <2> QED BY <2>1, <2>3, <2>4, <2>5, <2>6, Shows
<1>15. CASE AttachImage
  <2> DEFINE mine == [at |-> "sent", row |-> 0]
  <2>1. /\ Shown /\ image' = mine /\ UNCHANGED <<author, phone, text, events, pages, loading>>
    BY <1>15 DEF AttachImage, storeVars
  <2>2. mine \in SendCalls /\ mine.at = "sent"
    BY <1>1 DEF SendCalls
  <2> HIDE DEF mine
  <2> QED BY <1>1, <2>1, <2>2, SendGoesOn
<1>16. CASE EndImage
  <2>1. UNCHANGED <<author, text, events, pages, loading>> /\ image.at # "idle"
    BY <1>16 DEF EndImage, storeVars
  <2>2. Shown
    BY <2>1 DEF PhoneInv, SendsInv
  <2>3. image' \in SendCalls /\ image'.at \in {"idle", "emitted"}
    <3>1. [at |-> "emitted", row |-> 0] \in SendCalls
      BY <1>1 DEF SendCalls
    <3> QED BY <1>2, <1>16, <3>1 DEF EndImage
  <2>4. CASE phone' = phone
    BY <1>1, <2>1, <2>2, <2>3, <2>4, SendGoesOn
  <2>5. CASE image.at = "stored" /\ phone' = Append(phone, image.row)
    <3> DEFINE m == image.row
    <3>1. m \in Int /\ m > 0 /\ m <= Len(author) /\ (text.at = "stored" => text.row # m)
      BY <1>1, <2>5 DEF PhoneInv, SendsInv, SendCalls
    <3> HIDE DEF m
    <3>2. SendsInv'
      BY <2>1, <2>2, <2>3 DEF PhoneInv, SendsInv, SendCalls, Shown
    <3>3. EventsInv'
      BY <2>1, <2>3 DEF PhoneInv, EventsInv, Apart, Holds
    <3>4. ASSUME pages < 2
          PROVE  /\ phone' \in Seq(Int) /\ Once(phone')
                 /\ \A i \in DOMAIN phone' : phone'[i] <= Len(author)
                 /\ Apart(phone)'
                 /\ \A i, j \in DOMAIN phone' : phone'[i] = Temp /\ phone'[j] = Temp => i = j
                 /\ text'.at = "idle" => ~Holds(phone', Temp)
      <4>1. /\ phone \in Seq(Int) /\ Once(phone) /\ Apart(phone)
            /\ \A i, j \in DOMAIN phone : phone[i] = Temp /\ phone[j] = Temp => i = j
            /\ \A i \in DOMAIN phone : phone[i] <= Len(author)
            /\ text.at = "idle" => ~Holds(phone, Temp)
        BY <3>4 DEF PhoneInv, ScreenInv
      <4>2. ~Holds(phone, m)
        BY <2>5, <4>1 DEF Apart, m
      <4>3. phone' \in Seq(Int) /\ PutsIn(phone, phone', m)
        BY <2>5, <3>1, <4>1, OneMoreShown DEF m
      <4>4. Apart(phone)'
        BY <2>1, <2>3, <3>1, <4>1, <4>3 DEF Apart, PutsIn
      <4>5. text'.at = "idle" => ~Holds(phone', Temp)
        BY <2>1, <3>1, <4>1, <4>3 DEF PutsIn, Temp
      <4>6. \A i \in DOMAIN phone' : phone'[i] <= Len(author)
        BY <3>1, <4>1, <4>3 DEF PutsIn
      <4>7. Once(phone')
        BY <4>1, <4>2, <4>3 DEF PutsIn
      <4>8. \A i, j \in DOMAIN phone' : phone'[i] = Temp /\ phone'[j] = Temp => i = j
        BY <3>1, <4>1, <4>3 DEF PutsIn, Temp
      <4> QED BY <4>3, <4>4, <4>5, <4>6, <4>7, <4>8
    <3> QED BY <2>1, <3>2, <3>3, <3>4, Shows
  <2> QED BY <1>16, <2>4, <2>5 DEF EndImage
<1>17. CASE Receive
  <2> DEFINE m == Head(events)
  <2>1. /\ events # <<>> /\ events' = Tail(events) /\ phone' = Received(phone, m)
        /\ UNCHANGED <<author, text, image, pages, loading>>
    BY <1>17 DEF Receive, storeVars
  <2>2. m \in 1 .. Len(author) /\ Holds(events, m)
    BY <1>1, <2>1 DEF Holds
  <2>3. events' \in Seq(1 .. Len(author)) /\ \A n : Holds(events', n) => Holds(events, n)
    BY <1>1, <2>1 DEF Holds
  <2> HIDE DEF m
  <2>4. SendsInv'
    BY <2>1 DEF PhoneInv, SendsInv, SendCalls, Shown
  <2>5. EventsInv'
    BY <2>1, <2>3 DEF PhoneInv, EventsInv, Apart
  <2>6. ASSUME pages < 2
        PROVE  /\ phone' \in Seq(Int) /\ Once(phone')
               /\ \A i \in DOMAIN phone' : phone'[i] <= Len(author)
               /\ Apart(phone)'
               /\ \A i, j \in DOMAIN phone' : phone'[i] = Temp /\ phone'[j] = Temp => i = j
               /\ text'.at = "idle" => ~Holds(phone', Temp)
    <3>1. /\ phone \in Seq(Int) /\ Once(phone) /\ Apart(phone)
          /\ \A i, j \in DOMAIN phone : phone[i] = Temp /\ phone[j] = Temp => i = j
          /\ \A i \in DOMAIN phone : phone[i] <= Len(author)
          /\ text.at = "idle" => ~Holds(phone, Temp)
      BY <2>6 DEF PhoneInv, ScreenInv
    <3>2. CASE Holds(phone, m)
      <4>1. phone' = phone
        BY <2>1, <3>2 DEF Received
      <4> QED BY <2>1, <3>1, <4>1 DEF Apart, Holds, Once
    <3>3. CASE ~Holds(phone, m)
      <4>1. phone' = <<m>> \o phone
        BY <2>1, <3>3 DEF Received
      <4>2. m \in Int /\ m > 0 /\ m <= Len(author)
        BY <1>1, <2>2
      <4>3. phone' \in Seq(Int) /\ PutsIn(phone, phone', m)
        BY <3>1, <4>1, <4>2, OneMoreShown
      <4>4. Apart(events)
        BY DEF PhoneInv, EventsInv
      <4>5. Apart(phone)'
        BY <2>1, <2>2, <3>1, <4>3, <4>4 DEF Apart, PutsIn
      <4>6. text'.at = "idle" => ~Holds(phone', Temp)
        BY <2>1, <3>1, <4>2, <4>3 DEF PutsIn, Temp
      <4>7. \A i \in DOMAIN phone' : phone'[i] <= Len(author)
        BY <3>1, <4>2, <4>3 DEF PutsIn
      <4>8. Once(phone')
        BY <3>1, <3>3, <4>3 DEF PutsIn
      <4>9. \A i, j \in DOMAIN phone' : phone'[i] = Temp /\ phone'[j] = Temp => i = j
        BY <3>1, <4>2, <4>3 DEF PutsIn, Temp
      <4> QED BY <4>3, <4>5, <4>6, <4>7, <4>8, <4>9
    <3> QED BY <3>2, <3>3
  <2> QED BY <2>1, <2>4, <2>5, <2>6, Shows
<1> QED BY <1>4, <1>5, <1>6, <1>7, <1>8, <1>9, <1>10, <1>11, <1>12, <1>13, <1>14, <1>15, <1>16, <1>17 DEF PhoneChatNext

\* Until it has loaded more, the screen shows a message once (PhoneShowsOnce).
LEMMA PhoneThen == PhoneInv => PhoneShowsOnce
BY DEF PhoneInv, ScreenInv, PhoneShowsOnce

-----------------------------------------------------------------------------
(* The two screens share the conversation.                                 *)

\* A step of the page only adds and reads rows.
LEMMA WebGrows == WebChatNext => StoreGrows
<1> SUFFICES ASSUME WebChatNext PROVE StoreGrows
  OBVIOUS
<1>1. CASE OtherWrites \/ StorePost
  BY <1>1 DEF OtherWrites, StorePost, Stored, StoreGrows, Writers
<1>2. CASE LosePost \/ Fetch \/ SendPost \/ EndPost
  BY <1>2 DEF LosePost, Fetch, SendPost, EndPost, storeVars, StoreGrows
<1>3. ASSUME NEW n \in 0 .. MaxMessages, MarkFetched(n) \/ ShowFetched(n) PROVE StoreGrows
  BY <1>3 DEF MarkFetched, ShowFetched, MarkRead, storeVars, StoreGrows
<1>4. ASSUME NEW f \in fetches, LoseFetch(f) PROVE StoreGrows
  BY <1>4 DEF LoseFetch, storeVars, StoreGrows
<1> QED BY <1>1, <1>2, <1>3, <1>4 DEF WebChatNext

\* Nor does a step of the phone, whoever it is the API hears it from.
LEMMA PhoneGrows == PhoneChatNext => StoreGrows
<1> SUFFICES ASSUME PhoneChatNext PROVE StoreGrows
  OBVIOUS
<1>1. ASSUME NEW overSocket \in BOOLEAN, OtherWritesTo(overSocket) PROVE StoreGrows
  BY <1>1 DEF OtherWritesTo, Stored, StoreGrows, Writers
<1>2. CASE StoreText \/ StoreImage \/ StoreOverSocket
  BY <1>2 DEF StoreText, StoreImage, StoreOverSocket, Stored, StoreGrows, Writers
<1>3. CASE MarkOverSocket \/ AskPage
  BY <1>3 DEF MarkOverSocket, AskPage, MarkRead, StoreGrows
<1>4. CASE LoseSend \/ ShowPage \/ SendText \/ EndText
  BY <1>4 DEF LoseSend, ShowPage, SendText, EndText, storeVars, StoreGrows
<1>5. CASE AttachImage \/ EndImage \/ Connect \/ Drop \/ Receive
  BY <1>5 DEF AttachImage, EndImage, Connect, Drop, Receive, storeVars, StoreGrows
<1> QED BY <1>1, <1>2, <1>3, <1>4, <1>5 DEF PhoneChatNext

ChatInv == WebInv /\ PhoneInv

\* Whoever is at it, the browser or the phone, both keep theirs.
LEMMA ChatByWeb == ChatInv /\ WebChatNext /\ UNCHANGED phoneVars => ChatInv'
<1> SUFFICES ASSUME ChatInv, WebChatNext, UNCHANGED phoneVars PROVE ChatInv'
  OBVIOUS
<1>1. WebInv'
  BY WebKept DEF ChatInv
<1>2. StoreGrows
  BY WebGrows
<1>3. PhoneInv'
  BY <1>2, PhoneUndisturbed DEF ChatInv, phoneVars
<1> QED BY <1>1, <1>3 DEF ChatInv

\* The phone at work, the page of the browser sees the rows grow.
LEMMA ChatByPhone == ChatInv /\ PhoneChatNext /\ UNCHANGED webVars => ChatInv'
<1> SUFFICES ASSUME ChatInv, PhoneChatNext, UNCHANGED webVars PROVE ChatInv'
  OBVIOUS
<1>1. PhoneInv'
  BY PhoneKept DEF ChatInv
<1>2. WebInv'
  BY PhoneGrows, WebUndisturbed DEF ChatInv
<1> QED BY <1>1, <1>2 DEF ChatInv

\* Nobody at work, both keep what they have.
LEMMA ChatStays == ChatInv /\ UNCHANGED <<author, read, webVars, phoneVars>> => ChatInv'
<1> SUFFICES ASSUME ChatInv, UNCHANGED <<author, read, webVars, phoneVars>> PROVE ChatInv'
  OBVIOUS
<1>1. StoreGrows
  BY DEF StoreGrows
<1> QED BY <1>1, WebUndisturbed, PhoneUndisturbed DEF ChatInv, phoneVars

-----------------------------------------------------------------------------
(* The sockets the gateway remembers.                                      *)

\* The two maps agree, and hold every open socket.
SocketsInv ==
  /\ socketAt \in [Sockets -> {"none", "checking", "lost", "open", "closed"}]
  /\ tracked = known
  /\ IsFiniteSet(tracked) /\ Cardinality(tracked) <= MaxSockets
  /\ \A s \in Sockets : socketAt[s] = "open" => s \in tracked

\* No step but these touches the sockets.
LEMMA QuietKeeps ==
  ASSUME SocketsInv, UNCHANGED <<socketAt, tracked, known>> PROVE SocketsInv'
BY DEF SocketsInv

\* handleDisconnect takes the socket out of both maps.
LEMMA CloseKeeps ==
  ASSUME SocketsInv, NEW s \in Sockets, CloseSocket(s) PROVE SocketsInv'
<1>1. tracked' = tracked \ {s} /\ known' = known \ {s}
  BY DEF CloseSocket, StillThere, SocketsInv
<1>2. /\ socketAt' \in [Sockets -> {"none", "checking", "lost", "open", "closed"}]
      /\ socketAt'[s] # "open" /\ \A r \in Sockets \ {s} : socketAt'[r] = socketAt[r]
  BY DEF CloseSocket, SocketsInv
<1>3. IsFiniteSet(tracked') /\ Cardinality(tracked') <= Cardinality(tracked)
  BY <1>1, FS_Subset DEF SocketsInv
<1>4. Cardinality(tracked') \in Nat /\ Cardinality(tracked) \in Nat
  BY <1>3, FS_CardinalityType DEF SocketsInv
<1>5. Cardinality(tracked') <= MaxSockets
  BY <1>3, <1>4, GatewayAssumption DEF SocketsInv
<1> QED BY <1>1, <1>2, <1>3, <1>5 DEF SocketsInv

\* handleConnection counts and enters a socket without an await in between.
LEMMA AcceptKeeps ==
  ASSUME SocketsInv, NEW s \in Sockets, AcceptSocket(s) PROVE SocketsInv'
<1>1. tracked' = tracked \cup {s} /\ known' = known \cup {s} /\ Cardinality(tracked) < MaxSockets
  BY DEF AcceptSocket, BelowCap
<1>2. /\ socketAt' \in [Sockets -> {"none", "checking", "lost", "open", "closed"}]
      /\ \A r \in Sockets \ {s} : socketAt'[r] = socketAt[r]
  BY DEF AcceptSocket, SocketsInv
<1>3. /\ IsFiniteSet(tracked')
      /\ Cardinality(tracked') = Cardinality(tracked)
           \/ Cardinality(tracked') = Cardinality(tracked) + 1
  BY <1>1, FS_AddElement DEF SocketsInv
<1>4. Cardinality(tracked) \in Nat
  BY FS_CardinalityType DEF SocketsInv
<1>5. Cardinality(tracked') <= MaxSockets
  BY <1>1, <1>3, <1>4, GatewayAssumption
<1> QED BY <1>1, <1>2, <1>3, <1>5 DEF SocketsInv

\* There is no socket at first.
THEOREM SocketsInit == GatewayInit => SocketsInv
BY FS_EmptySet, GatewayAssumption DEF GatewayInit, SocketsInv

\* Every step of the gateway keeps the invariant.
THEOREM SocketsStep == SocketsInv /\ [GatewayNext]_gatewayVars => SocketsInv'
<1> SUFFICES ASSUME SocketsInv, [GatewayNext]_gatewayVars PROVE SocketsInv'
  OBVIOUS
<1>1. ASSUME NEW s \in Sockets, OpenSocket(s) PROVE SocketsInv'
  BY <1>1 DEF OpenSocket, SocketsInv
<1>2. ASSUME NEW s \in Sockets, RefuseSocket(s) PROVE SocketsInv'
  BY <1>2 DEF RefuseSocket, SocketsInv
<1>3. ASSUME NEW s \in Sockets, AskToJoin(s) \/ Join(s) \/ Leave(s) PROVE SocketsInv'
  BY <1>3, QuietKeeps DEF AskToJoin, Join, Leave
<1>4. ASSUME NEW event, Emit(event) PROVE SocketsInv'
  BY <1>4, QuietKeeps DEF Emit
<1>5. CASE UNCHANGED gatewayVars
  BY <1>5, QuietKeeps DEF gatewayVars
<1> QED BY <1>1, <1>2, <1>3, <1>4, <1>5, AcceptKeeps, CloseKeeps DEF GatewayNext

\* A user has no more sockets than MAX_SOCKETS_PER_USER, and every open one is
\* in both maps (handleConnection, handleDisconnect).
THEOREM SocketsAlways == GatewaySpec => []SocketsTracked
<1>1. SocketsInv => SocketsTracked
  BY DEF SocketsInv, SocketsTracked
<1> QED BY SocketsInit, SocketsStep, <1>1, PTL DEF GatewaySpec

-----------------------------------------------------------------------------
(* A negotiation stays a line.                                             *)

\* A row that nobody has made is empty: the claim of a counter-offer and the
\* row it makes are one transaction.
Fresh == \A o \in Slots : offer[o].status = "none" => offer[o] = NoOffer

\* What an answer has read of its offer still holds when it claims: rows are
\* never taken back, and who made one, and how deep, never changes.
AnswersRead ==
  \A kind \in {"accept", "counter", "reject"}, o \in Slots, who \in Parties :
    <<kind, o, who>> \in answers =>
      /\ offer[o].status # "none"
      /\ kind = "counter" => who # offer[o].by /\ offer[o].counters < MaxCounters

ChainInv == OffersTypeOK /\ Fresh /\ AnswersRead /\ OfferChain

-----------------------------------------------------------------------------
(* What an action does to one row.                                         *)

\* A step that leaves every row its maker, depth and parent, takes none back
\* and leaves the COUNTERED ones COUNTERED.
KeepsRows ==
  \A o \in Slots :
    /\ offer'[o].parent = offer[o].parent
    /\ offer'[o].by = offer[o].by
    /\ offer'[o].counters = offer[o].counters
    /\ offer[o].status # "none" => offer'[o].status # "none"
    /\ offer[o].status = "COUNTERED" => offer'[o].status = "COUNTERED"

\* Such a step keeps every negotiation a line.
LEMMA RowsKept == ASSUME ChainInv, KeepsRows, OffersTypeOK' PROVE OfferChain'
<1> SUFFICES ASSUME NEW o \in Slots, offer'[o].parent # "none"
             PROVE  LET p == offer'[o].parent IN
                    /\ offer'[p].status = "COUNTERED"
                    /\ offer'[p].by # offer'[o].by
                    /\ offer'[o].counters = offer'[p].counters + 1
                    /\ offer'[o].counters <= MaxCounters
                    /\ \A q \in Slots : offer'[q].parent = p => q = o
  BY DEF OfferChain
<1> DEFINE p == offer[o].parent
<1>1. p \in Slots /\ p # "none" /\ offer'[o].parent = p
  BY OffersAssumption DEF ChainInv, OffersTypeOK, KeepsRows
<1>2. /\ offer[p].status = "COUNTERED"
      /\ offer[p].by # offer[o].by
      /\ offer[o].counters = offer[p].counters + 1
      /\ offer[o].counters <= MaxCounters
      /\ \A q \in Slots : offer[q].parent = p => q = o
  BY <1>1 DEF ChainInv, OfferChain
<1> QED BY <1>1, <1>2 DEF KeepsRows

\* And it keeps what the answers have read, if it adds none.
LEMMA ReadKept ==
  ASSUME ChainInv, KeepsRows, answers' \subseteq answers PROVE AnswersRead'
BY DEF ChainInv, AnswersRead, KeepsRows

-----------------------------------------------------------------------------
\* The first state has no rows at all.
THEOREM ChainInit == OffersInit => ChainInv
BY OffersAssumption
   DEF OffersInit, ChainInv, OffersTypeOK, Fresh, AnswersRead, OfferChain, NoOffer, Parties

\* Every step of the service keeps the invariant.
THEOREM ChainStep == ChainInv /\ [OffersNext]_offersVars => ChainInv'
<1> SUFFICES ASSUME ChainInv, [OffersNext]_offersVars PROVE ChainInv'
  OBVIOUS
<1> USE OffersAssumption
<1>1. ASSUME NEW o \in Slots, MakeOffer(o) PROVE ChainInv'
  <2>1. OffersTypeOK' /\ Fresh' /\ KeepsRows /\ answers' \subseteq answers
    BY <1>1 DEF MakeOffer, ChainInv, OffersTypeOK, Fresh, KeepsRows
  <2> QED BY <2>1, RowsKept, ReadKept DEF ChainInv
<1>2. ASSUME NEW o \in Slots, OfferExpires(o) PROVE ChainInv'
  <2>1. OffersTypeOK' /\ Fresh' /\ KeepsRows /\ answers' \subseteq answers
    BY <1>2 DEF OfferExpires, ChainInv, OffersTypeOK, Fresh, KeepsRows
  <2> QED BY <2>1, RowsKept, ReadKept DEF ChainInv
<1>3. ASSUME NEW o \in Slots, AcceptOffer(o) PROVE ChainInv'
  <2>1. OffersTypeOK' /\ Fresh' /\ KeepsRows /\ answers' \subseteq answers
    BY <1>3 DEF AcceptOffer, Claimable, Pending, ChainInv, OffersTypeOK, Fresh, KeepsRows
  <2> QED BY <2>1, RowsKept, ReadKept DEF ChainInv
<1>4. ASSUME NEW o \in Slots, RejectOffer(o) PROVE ChainInv'
  <2>1. OffersTypeOK' /\ Fresh' /\ KeepsRows /\ answers' \subseteq answers
    BY <1>4 DEF RejectOffer, Claimable, Pending, ChainInv, OffersTypeOK, Fresh, KeepsRows
  <2> QED BY <2>1, RowsKept, ReadKept DEF ChainInv
<1>5. ASSUME NEW o \in Slots, NEW new \in Slots, NEW who \in Parties, CounterOffer(o, new, who)
      PROVE ChainInv'
  <2>1. /\ <<"counter", o, who>> \in answers
        /\ offer[o].status = "PENDING" /\ offer[new].status = "none"
        /\ offer' = [offer EXCEPT
             ![o].status = "COUNTERED",
             ![new] = [status |-> "PENDING", parent |-> o, by |-> who,
                       counters |-> offer[o].counters + 1]]
        /\ answers' \subseteq answers /\ expired' = expired /\ new # o
    BY <1>5 DEF CounterOffer, Claimable, Pending
  <2>2. who # offer[o].by /\ offer[o].counters < MaxCounters
    BY <2>1 DEF ChainInv, AnswersRead
  <2>3. offer[o] \in [status : {"none", "PENDING", "ACCEPTED", "REJECTED", "COUNTERED"},
                      parent : Slots \cup {"none"}, by : Parties, counters : Nat]
    BY DEF ChainInv, OffersTypeOK
  <2>4. OffersTypeOK'
    BY <2>1, <2>3 DEF ChainInv, OffersTypeOK
  <2>5. Fresh'
    BY <2>1 DEF ChainInv, OffersTypeOK, Fresh
  <2>6. \A q \in Slots : offer[q].parent \notin {o, new}
    BY <2>1 DEF ChainInv, OffersTypeOK, OfferChain
  <2>7. AnswersRead'
    BY <2>1 DEF ChainInv, OffersTypeOK, AnswersRead
  <2>8. OfferChain'
    <3> SUFFICES ASSUME NEW x \in Slots, offer'[x].parent # "none"
                 PROVE  LET p == offer'[x].parent IN
                        /\ offer'[p].status = "COUNTERED"
                        /\ offer'[p].by # offer'[x].by
                        /\ offer'[x].counters = offer'[p].counters + 1
                        /\ offer'[x].counters <= MaxCounters
                        /\ \A q \in Slots : offer'[q].parent = p => q = x
      BY DEF OfferChain
    <3>1. /\ offer'[new] = [status |-> "PENDING", parent |-> o, by |-> who,
                            counters |-> offer[o].counters + 1]
          /\ offer'[o].status = "COUNTERED" /\ offer'[o].by = offer[o].by
          /\ offer'[o].counters = offer[o].counters /\ offer'[o].parent = offer[o].parent
          /\ \A q \in Slots \ {o, new} : offer'[q] = offer[q]
      BY <2>1, <2>3 DEF ChainInv, OffersTypeOK
    <3>2. CASE x = new
      BY <3>1, <3>2, <2>1, <2>2, <2>3, <2>6 DEF ChainInv, OffersTypeOK
    <3>3. CASE x # new
      <4> DEFINE p == offer[x].parent
      <4>1. offer'[x].parent = p /\ offer'[x].by = offer[x].by
            /\ offer'[x].counters = offer[x].counters
        BY <3>1, <3>3
      <4>2. p \in Slots /\ p # "none"
        BY <4>1 DEF ChainInv, OffersTypeOK
      <4>3. /\ offer[p].status = "COUNTERED"
            /\ offer[p].by # offer[x].by
            /\ offer[x].counters = offer[p].counters + 1
            /\ offer[x].counters <= MaxCounters
            /\ \A q \in Slots : offer[q].parent = p => q = x
        BY <4>2 DEF ChainInv, OfferChain
      <4>4. p \notin {o, new} /\ offer'[p] = offer[p]
        BY <4>2, <4>3, <2>1, <3>1
      <4>5. \A q \in Slots : offer'[q].parent = p => q = x
        <5> TAKE q \in Slots
        <5>1. CASE q = new
          BY <5>1, <3>1, <4>4
        <5>2. CASE q # new
          <6>1. offer'[q].parent = offer[q].parent
            BY <5>2, <3>1
          <6> QED BY <6>1, <4>3
        <5> QED BY <5>1, <5>2
      <4>6. offer'[p].status = "COUNTERED" /\ offer'[p].by = offer[p].by
            /\ offer'[p].counters = offer[p].counters
        BY <4>3, <4>4
      <4>7. /\ offer'[p].status = "COUNTERED"
            /\ offer'[p].by # offer'[x].by
            /\ offer'[x].counters = offer'[p].counters + 1
            /\ offer'[x].counters <= MaxCounters
        BY <4>1, <4>3, <4>6
      <4> HIDE DEF p
      <4> QED BY <4>1, <4>5, <4>7
    <3> QED BY <3>2, <3>3
  <2> QED BY <2>4, <2>5, <2>7, <2>8 DEF ChainInv
<1>6. ASSUME NEW o \in Slots, NEW who \in Parties, NEW kind \in {"accept", "counter", "reject"},
             BeginAnswer(kind, o, who)
      PROVE ChainInv'
  <2>1. OffersTypeOK' /\ Fresh' /\ KeepsRows
    BY <1>6 DEF BeginAnswer, ChainInv, OffersTypeOK, Fresh, KeepsRows
  <2>2. AnswersRead'
    BY <1>6 DEF BeginAnswer, Pending, ChainInv, AnswersRead
  <2> QED BY <2>1, <2>2, RowsKept DEF ChainInv
<1>7. ASSUME NEW o \in Slots, NEW who \in Parties, NEW kind \in {"accept", "counter", "reject"},
             LoseOffer(kind, o, who)
      PROVE ChainInv'
  <2>1. OffersTypeOK' /\ Fresh' /\ KeepsRows /\ answers' \subseteq answers
    BY <1>7 DEF LoseOffer, ChainInv, OffersTypeOK, Fresh, KeepsRows
  <2> QED BY <2>1, RowsKept, ReadKept DEF ChainInv
<1>8. CASE RejectAllOffers
  <2>1. \A o \in Slots : offer'[o] = IF offer[o].status = "PENDING"
                                     THEN [offer[o] EXCEPT !.status = "REJECTED"] ELSE offer[o]
    BY <1>8 DEF RejectAllOffers, Pending
  <2>2. OffersTypeOK' /\ Fresh' /\ KeepsRows /\ answers' \subseteq answers
    BY <1>8, <2>1 DEF RejectAllOffers, ChainInv, OffersTypeOK, Fresh, KeepsRows
  <2> QED BY <2>2, RowsKept, ReadKept DEF ChainInv
<1>9. CASE UNCHANGED offersVars
  <2>1. OffersTypeOK' /\ Fresh' /\ KeepsRows /\ answers' \subseteq answers
    BY <1>9 DEF offersVars, ChainInv, OffersTypeOK, Fresh, KeepsRows
  <2> QED BY <2>1, RowsKept, ReadKept DEF ChainInv
<1> QED BY <1>1, <1>2, <1>3, <1>4, <1>5, <1>6, <1>7, <1>8, <1>9 DEF OffersNext

\* A negotiation is a line of rows made in turn by the two parties, no longer
\* than MAX_OFFER_COUNTERS (accept, counter, reject), for any answers at once.
THEOREM OfferChainAlways == OffersSpec => []OfferChain
<1>1. ChainInv => OfferChain
  BY DEF ChainInv
<1> QED BY ChainInit, ChainStep, <1>1, PTL DEF OffersSpec
=============================================================================
