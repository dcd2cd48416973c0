------------------------------ MODULE Custody -------------------------------
(***************************************************************************)
(* What the order, dispute and return services and their jobs promise      *)
(* about the item price of an order, whatever each of them had read before *)
(* it wrote: it is in one place at a time and never comes back from a      *)
(* closed order; and the buyer's wallet is credited once at most, when the *)
(* seller has nothing. A return that is decided once the seller has the    *)
(* money leaves all but the one credit open.                               *)
(***************************************************************************)
EXTENDS Naturals

CONSTANT Orders

VARIABLES
  place,   \* who has the item price, or how the order was closed
  credits  \* REFUND rows of the order in the buyer's wallet

Init ==
  /\ place \in [Orders -> {"buyer", "escrow"}]
  /\ credits = [o \in Orders |-> 0]

Moves(o, from, to) == place[o] = from /\ place' = [place EXCEPT ![o] = to]
Credited(o) == credits[o] = 0 /\ credits' = [credits EXCEPT ![o] = 1]

\* The order is settled, or cancelled before that.
Hold(o) == Moves(o, "buyer", "escrow") /\ UNCHANGED credits
Withdraw(o) == Moves(o, "buyer", "cancelled") /\ UNCHANGED credits

\* The seller is paid; an administrator takes it back into escrow.
Release(o) == Moves(o, "escrow", "seller") /\ UNCHANGED credits
TakeBack(o) == Moves(o, "seller", "escrow") /\ UNCHANGED credits

\* The buyer gets the price back: by a credit in the same transaction, by the
\* provider, or, of a refund, by a credit that comes later.
PayBack(o) ==
  /\ \E closed \in {"cancelled", "refunded"} : Moves(o, "escrow", closed)
  /\ Credited(o) \/ UNCHANGED credits
CreditLater(o) ==
  /\ place[o] \in {"refunded", "late"}
  /\ Credited(o)
  /\ UNCHANGED place

\* A return of an order whose seller was paid is decided.
ReturnLate(o) ==
  /\ Moves(o, "seller", "late")
  /\ Credited(o) \/ UNCHANGED credits

Next ==
  \E o \in Orders :
    \/ Hold(o) \/ Withdraw(o) \/ Release(o) \/ TakeBack(o)
    \/ PayBack(o) \/ CreditLater(o) \/ ReturnLate(o)

Spec == Init /\ [][Next]_<<place, credits>>
=============================================================================
