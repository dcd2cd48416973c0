----------------------------- MODULE NotaFiscal -----------------------------
(***************************************************************************)
(* The invoice of an order (NotaFiscalService): buyer and seller may both  *)
(* ask for it, the provider issues it and settles it later, and a job asks *)
(* for what has not settled (pollPendingNFeStatus).                        *)
(***************************************************************************)
EXTENDS Integers, FiniteSets

CONSTANTS
  Askers,       \* the requests for the invoice under way
  Attempts,     \* HTTP_RETRY_DELAYS_MS and the first one
  MaxOutages    \* bound: calls of the provider that fail or are not answered

ASSUME NotaFiscalAssumption ==
  /\ Attempts \in Nat \ {0} /\ MaxOutages \in Nat

VARIABLES
  issued,    \* the provider's document of the order: none, or its status
  invoice,   \* NotaFiscal.status, or none
  rows,      \* how many rows there are
  ask,       \* generateNFe calls: how far, and the attempts they have left
  poll,      \* the job: idle, or what it has been told
  aged,      \* the row is older than a day
  outages

nfeVars == <<issued, invoice, rows, ask, poll, aged, outages>>

NoAsk == [at |-> "idle", left |-> 0, told |-> "none"]

(* Slips: what a definition below would be with a plausible mistake. No    *)
(* step uses them; each is caught by a property (PROJECT.json, "mutants"). *)

\* A status that nobody thought of is taken for pending.
StatusForgotten(s) == IF s = "autorizado" THEN "AUTHORIZED" ELSE "PENDING"

\* Another request may store the invoice it has got as well.
StoredAgain == TRUE

-----------------------------------------------------------------------------
\* mapStatus and mapStatusToEnum; what is cancelled counts as rejected.
StatusOf(s) ==
  CASE s = "autorizado" -> "AUTHORIZED"
    [] s \in {"rejeitado", "cancelado"} -> "REJECTED"
    [] s = "processando" -> "PENDING"

\* The provider (external): it knows the order's document, and settles it.
Settles ==
  /\ \/ issued = "processando" /\ issued' \in {"autorizado", "rejeitado", "cancelado"}
     \/ issued = "autorizado" /\ issued' = "cancelado"
  /\ UNCHANGED <<invoice, rows, ask, poll, aged, outages>>

\* generateNFe: the seller is verified and there is no invoice yet.
AskInvoice(a) ==
  /\ ask[a] = NoAsk /\ rows = 0
  /\ ask' = [ask EXCEPT ![a] = [at |-> "call", left |-> Attempts, told |-> "none"]]
  /\ UNCHANGED <<issued, invoice, rows, poll, aged, outages>>

\* One attempt of the client: answered, or not, having been carried out or not.
CallIssue(a) ==
  /\ ask[a].at = "call"
  /\ issued' = IF issued = "none" THEN "processando" ELSE issued
  /\ ask' = [ask EXCEPT ![a] = [@ EXCEPT !.at = "store", !.told = issued']]
  /\ UNCHANGED <<invoice, rows, poll, aged, outages>>

CallFails(a) ==
  /\ ask[a].at = "call"
  /\ outages < MaxOutages
  /\ outages' = outages + 1
  /\ issued' \in {issued, IF issued = "none" THEN "processando" ELSE issued}
  /\ ask' = [ask EXCEPT ![a] =
               IF @.left = 1 THEN NoAsk ELSE [@ EXCEPT !.left = ask[a].left - 1]]
  /\ UNCHANGED <<invoice, rows, poll, aged>>

\* The row; orderId is unique, and the loser gets an error.
NotStored == rows = 0
StoreInvoice(a) ==
  /\ ask[a].at = "store"
  /\ ask' = [ask EXCEPT ![a] = NoAsk]
  /\ IF NotStored
     THEN rows' = rows + 1 /\ invoice' = StatusOf(ask[a].told)
     ELSE UNCHANGED <<rows, invoice>>
  /\ UNCHANGED <<issued, poll, aged, outages>>

\* The process dies between the call and the row: the next request asks again.
LoseInvoice(a) ==
  /\ ask[a].at = "store"
  /\ outages < MaxOutages
  /\ outages' = outages + 1
  /\ ask' = [ask EXCEPT ![a] = NoAsk]
  /\ UNCHANGED <<issued, invoice, rows, poll, aged>>

-----------------------------------------------------------------------------
(* pollPendingNFeStatus.                                                   *)

PollInvoice ==
  /\ poll = "idle"
  /\ invoice = "PENDING" /\ ~aged
  /\ poll' = issued
  /\ UNCHANGED <<issued, invoice, rows, ask, aged, outages>>

EndPoll ==
  /\ poll # "idle"
  /\ poll' = "idle"
  /\ invoice' = IF StatusOf(poll) # "PENDING" THEN StatusOf(poll) ELSE invoice
  /\ UNCHANGED <<issued, rows, ask, aged, outages>>

PollFails ==
  /\ poll # "idle"
  /\ outages < MaxOutages
  /\ outages' = outages + 1
  /\ poll' = "idle"
  /\ UNCHANGED <<issued, invoice, rows, ask, aged>>

InvoiceAges ==
  /\ rows > 0
  /\ aged' = TRUE
  /\ UNCHANGED <<issued, invoice, rows, ask, poll, outages>>

-----------------------------------------------------------------------------
NfeInit ==
  /\ issued = "none" /\ invoice = "none" /\ rows = 0
  /\ ask = [a \in Askers |-> NoAsk]
  /\ poll = "idle" /\ aged = FALSE /\ outages = 0

NfeNext ==
  \/ Settles \/ PollInvoice \/ EndPoll \/ PollFails \/ InvoiceAges
  \/ \E a \in Askers :
       AskInvoice(a) \/ CallIssue(a) \/ CallFails(a) \/ StoreInvoice(a) \/ LoseInvoice(a)

-----------------------------------------------------------------------------
\* An order never has two invoices here, and an invoice that is AUTHORIZED or
\* REJECTED here has been settled at the provider, whoever asked how often.
OneInvoice ==
  /\ rows <= 1
  /\ invoice \in {"AUTHORIZED", "REJECTED"} => issued \notin {"none", "processando"}

\* The job runs again and again: what the provider has refused or cancelled
\* does not stay PENDING here, unless it gets too old to be asked for.
InvoiceSettles ==
  issued \in {"rejeitado", "cancelado"} /\ invoice = "PENDING"
    ~> invoice # "PENDING" \/ aged
=============================================================================
