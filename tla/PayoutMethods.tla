--------------------------- MODULE PayoutMethods ----------------------------
(***************************************************************************)
(* The PIX keys one user is paid by (PayoutMethodsService): create, delete *)
(* and setDefault are transactions of several statements, which read what  *)
(* is committed when they come to it (READ COMMITTED) and are seen when    *)
(* they commit; deleteAccount takes all the keys.                          *)
(***************************************************************************)
EXTENDS Integers, FiniteSets, SequencesExt

CONSTANTS
  PixKeys,      \* keys the user may save
  Forms,        \* requests under way: tabs, phones
  MaxMethods,   \* MAX_METHODS_PER_USER
  MaxForms      \* bound: requests

ASSUME PayoutMethodsAssumption == MaxMethods \in Nat \ {0} /\ MaxForms \in Nat

VARIABLES
  saved,       \* PayoutMethod rows, the newest last
  default,     \* those with isDefault
  form,        \* each request: how far its transaction is, and what it has read
  closed,      \* deleteAccount is through
  requests,    \* requests so far
  together,    \* the requests that were not alone
  askew,       \* such a request has committed, and none since put the default right
  beyond,      \* two creates were not alone
  outlived     \* a create was under way when the account was deleted

methodVars == <<saved, default, form, closed, requests, together, askew, beyond, outlived>>
methodRows == <<saved, default>>
methodGhosts == <<together, askew, beyond, outlived>>

Saved == ToSet(saved)

Blank == [call |-> "none", key |-> "none", at |-> "idle", marked |-> FALSE,
          was |-> {}, next |-> {}]
Underway == {f \in Forms : form[f] # Blank}

(* Slips: what a definition below would be with a plausible mistake. No    *)
(* step uses them; each is caught by a property (PROJECT.json, "mutants"). *)

\* Nothing takes the place of a default that is deleted.
NobodyNext(f) == {}
\* The new default beside the old.
NotDemoted(f) == {}

-----------------------------------------------------------------------------
(* The first reads of a transaction.                                       *)

Start(f, call, k, marked) ==
  /\ form[f] = Blank /\ ~closed
  /\ requests < MaxForms
  /\ requests' = requests + 1
  /\ form' = [form EXCEPT ![f] = [call |-> call, key |-> k, at |-> "reads",
                                  marked |-> marked, was |-> {}, next |-> {}]]
  /\ together' = IF Underway = {} THEN together \ {f} ELSE together \cup Underway \cup {f}
  /\ UNCHANGED <<methodRows, closed, askew, beyond, outlived>>

\* create: below the limit, not saved yet, and the default if asked or the first.
BeginCreate(f, k, asked) ==
  /\ Len(saved) < MaxMethods /\ k \notin Saved
  /\ Start(f, "create", k, asked \/ saved = <<>>)

\* delete: is it the default? setDefault: is it there?
BeginDeleteMethod(f, k) == k \in Saved /\ Start(f, "delete", k, k \in default)
BeginSetDefault(f, k)   == k \in Saved /\ Start(f, "default", k, TRUE)

(* What the statements in the middle find: the defaults to demote, and the *)
(* newest key to promote.                                                  *)

Demoted(f) ==
  IF form[f].call \in {"create", "default"} /\ form[f].marked
  THEN default \ {form[f].key} ELSE {}

\* The other rows, in their order.
OtherMethods(k) ==
  LET at == CHOOSE i \in DOMAIN saved : saved[i] = k
  IN IF k \notin Saved THEN saved
     ELSE [i \in 1 .. Len(saved) - 1 |-> saved[IF i < at THEN i ELSE i + 1]]

Promoted(f) ==
  LET others == OtherMethods(form[f].key) IN
  IF form[f].call = "delete" /\ form[f].marked /\ others # <<>> THEN {Last(others)} ELSE {}

FindRows(f) ==
  /\ form[f].at = "reads"
  /\ form' = [form EXCEPT ![f].at = "commit", ![f].was = Demoted(f), ![f].next = Promoted(f)]
  /\ UNCHANGED <<methodRows, closed, requests, methodGhosts>>

(* The commit. A key that came twice, or that is gone, undoes it all.      *)

CommitsCreate(f) ==
  /\ form[f].call = "create" /\ form[f].key \notin Saved
  /\ saved' = Append(saved, form[f].key)
  /\ default' = (default \ form[f].was) \cup
                  (IF form[f].marked THEN {form[f].key} ELSE {})

CommitsDelete(f) ==
  /\ form[f].call = "delete" /\ {form[f].key} \cup form[f].next \subseteq Saved
  /\ saved' = OtherMethods(form[f].key)
  /\ default' = (default \ {form[f].key}) \cup form[f].next

CommitsDefault(f) ==
  /\ form[f].call = "default" /\ form[f].key \in Saved
  /\ default' = (default \ form[f].was) \cup {form[f].key}
  /\ UNCHANGED saved

Commit(f) ==
  /\ form[f].at = "commit"
  /\ CommitsCreate(f) \/ CommitsDelete(f) \/ CommitsDefault(f)
  /\ askew' = CASE f \in together -> TRUE
                [] f \notin together /\ form[f].call # "delete" /\ form[f].marked -> FALSE
                [] OTHER -> askew
  /\ beyond' = (beyond \/ (form[f].call = "create" /\ f \in together))
  /\ form' = [form EXCEPT ![f] = Blank]
  /\ UNCHANGED <<closed, requests, together, outlived>>

\* It conflicts, or the connection fails.
RollBack(f) ==
  /\ form[f] # Blank
  /\ form' = [form EXCEPT ![f] = Blank]
  /\ UNCHANGED <<methodRows, closed, requests, methodGhosts>>

-----------------------------------------------------------------------------
\* deleteAccount deletes the keys and bans the user, who starts nothing more;
\* hardDeleteExpiredAccounts deletes them again after thirty days.
CloseAccount ==
  /\ ~closed
  /\ closed' = TRUE
  /\ saved' = <<>> /\ default' = {}
  /\ outlived' = \E f \in Underway : form[f].call = "create"
  /\ together' = together \cup Underway
  /\ UNCHANGED <<form, requests, askew, beyond>>

SweepMethods ==
  /\ closed /\ Underway = {}
  /\ saved' = <<>> /\ default' = {} /\ outlived' = FALSE
  /\ UNCHANGED <<form, closed, requests, together, askew, beyond>>

-----------------------------------------------------------------------------
MethodsInit ==
  /\ saved = <<>> /\ default = {}
  /\ form = [f \in Forms |-> Blank]
  /\ closed = FALSE /\ requests = 0
  /\ together = {} /\ askew = FALSE /\ beyond = FALSE /\ outlived = FALSE

MethodsNext ==
  \/ CloseAccount \/ SweepMethods
  \/ \E f \in Forms :
       \/ FindRows(f) \/ Commit(f) \/ RollBack(f)
       \/ \E k \in PixKeys :
            \/ BeginDeleteMethod(f, k) \/ BeginSetDefault(f, k)
            \/ \E asked \in BOOLEAN : BeginCreate(f, k, asked)

-----------------------------------------------------------------------------
\* Whatever is created, deleted and chosen one after the other, a user who has
\* keys has one default, and one lone choice repairs what two requests at once
\* spoilt; no more keys than the limit, but for creates at once; and none is
\* left of a deleted account, but for a create under way.
MethodsKept ==
  /\ default \subseteq Saved
  /\ saved # <<>> /\ ~askew => Cardinality(default) = 1
  /\ beyond \/ Len(saved) <= MaxMethods
  /\ closed => saved = <<>> \/ outlived
=============================================================================
