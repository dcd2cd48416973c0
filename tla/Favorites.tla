----------------------------- MODULE Favorites ------------------------------
(***************************************************************************)
(* One listing among the favorites of one user (toggleFavorite of          *)
(* ListingsService): the API turns it over, step by step, for a phone that *)
(* shows the result before it has it (FavoritesContext) and for pages that *)
(* do not.                                                                 *)
(***************************************************************************)
EXTENDS Integers, FiniteSets

CONSTANTS
  Screens,     \* the phone, and pages of the user
  Handset,     \* the phone
  MaxBreaks    \* bound: requests and answers lost, and deaths of the process

ASSUME FavoritesAssumption ==
  MaxBreaks \in Nat /\ Handset \in Screens /\ IsFiniteSet(Screens)

VARIABLES
  favorite,     \* there is a Favorite row
  favorites,    \* Listing.favoriteCount
  toggle,       \* each screen's request: how far it is
  heart,        \* what the phone shows
  hydrating,    \* getFavorites is on its way to the phone, and what it holds
  tapped,       \* the screens that were ever tapped
  crossed,      \* a list was on its way to the phone when it was tapped
  broken,       \* requests and answers lost
  halved        \* requests whose process died between the row and the count

favoriteVars == <<favorite, favorites, toggle, heart, hydrating, tapped, crossed, broken,
                  halved>>
rowVars == <<favorite, favorites>>
phoneSideVars == <<heart, hydrating, tapped, crossed>>

Count(at) == Cardinality({s \in Screens : toggle[s] = at})

(* Slips: what a definition below would be with a plausible mistake. No    *)
(* step uses them; each is caught by a property (PROJECT.json, "mutants"). *)

\* The row is written as if nothing had changed since it was read.
AlwaysWritten(s) == TRUE

-----------------------------------------------------------------------------
(* The screens.                                                            *)

\* toggleFavorite of the context, unless one is in flight (inFlight).
Tap(s) ==
  /\ toggle[s] = "idle"
  /\ toggle' = [toggle EXCEPT ![s] = "sent"]
  /\ tapped' = tapped \cup {s}
  /\ heart' = IF s = Handset THEN ~heart ELSE heart
  /\ crossed' = (crossed \/ (s = Handset /\ hydrating # "no"))
  /\ UNCHANGED <<rowVars, hydrating, broken, halved>>

\* The answer: only a failure turns the heart back.
Answered(s) ==
  /\ toggle[s] \in {"done", "failed"}
  /\ toggle' = [toggle EXCEPT ![s] = "idle"]
  /\ heart' = IF s = Handset /\ toggle[s] = "failed" THEN ~heart ELSE heart
  /\ UNCHANGED <<rowVars, hydrating, tapped, crossed, broken, halved>>

\* The provider of the context asks for the list when the user is known.
Hydrate ==
  /\ hydrating = "no"
  /\ hydrating' = IF favorite THEN "with" ELSE "without"
  /\ crossed' = (crossed \/ toggle[Handset] # "idle")
  /\ UNCHANGED <<rowVars, toggle, heart, tapped, broken, halved>>

EndHydrate ==
  /\ hydrating # "no"
  /\ heart' = (hydrating = "with")
  /\ hydrating' = "no"
  /\ UNCHANGED <<rowVars, toggle, tapped, crossed, broken, halved>>

-----------------------------------------------------------------------------
(* The API.                                                                *)

FindFavorite(s) ==
  /\ toggle[s] = "sent"
  /\ toggle' = [toggle EXCEPT ![s] = IF favorite THEN "delete" ELSE "create"]
  /\ UNCHANGED <<rowVars, phoneSideVars, broken, halved>>

\* The row is unique, and one that is gone cannot be deleted: an error.
Writable(s) == favorite = (toggle[s] = "delete")
WriteFavorite(s) ==
  /\ toggle[s] \in {"create", "delete"}
  /\ IF Writable(s)
     THEN /\ favorite' = (toggle[s] = "create")
          /\ toggle' = [toggle EXCEPT ![s] = IF @ = "create" THEN "up" ELSE "down"]
     ELSE /\ toggle' = [toggle EXCEPT ![s] = "failed"]
          /\ UNCHANGED favorite
  /\ UNCHANGED <<favorites, phoneSideVars, broken, halved>>

CountFavorite(s) ==
  /\ toggle[s] \in {"up", "down"}
  /\ favorites' = favorites + (IF toggle[s] = "up" THEN 1 ELSE -1)
  /\ toggle' = [toggle EXCEPT ![s] = "done"]
  /\ UNCHANGED <<favorite, phoneSideVars, broken, halved>>

\* The request or its answer is lost: the screen takes it for a failure.
LoseToggle(s) ==
  /\ broken < MaxBreaks
  /\ broken' = broken + 1
  /\ toggle[s] \in {"sent", "done"}
  /\ toggle' = [toggle EXCEPT ![s] = "failed"]
  /\ UNCHANGED <<rowVars, phoneSideVars, halved>>

\* The process dies: row and count are no transaction.
DieInToggle(s) ==
  /\ broken < MaxBreaks
  /\ broken' = broken + 1
  /\ toggle[s] \in {"create", "delete", "up", "down"}
  /\ halved' = halved + (CASE toggle[s] = "up" -> 1
                           [] toggle[s] = "down" -> -1
                           [] OTHER -> 0)
  /\ toggle' = [toggle EXCEPT ![s] = "failed"]
  /\ UNCHANGED <<rowVars, phoneSideVars>>

-----------------------------------------------------------------------------
FavoritesInit ==
  /\ favorite = FALSE /\ favorites = 0
  /\ toggle = [s \in Screens |-> "idle"]
  /\ heart = FALSE /\ hydrating = "no" /\ tapped = {} /\ crossed = FALSE
  /\ broken = 0 /\ halved = 0

FavoritesNext ==
  \/ Hydrate \/ EndHydrate
  \/ \E s \in Screens :
       \/ Tap(s) \/ Answered(s) \/ FindFavorite(s) \/ WriteFavorite(s)
       \/ CountFavorite(s) \/ LoseToggle(s) \/ DieInToggle(s)

-----------------------------------------------------------------------------
\* However screens race, the count is the number of rows but for the steps
\* under way and those a death cut off; and the heart of a phone that is the
\* only one to tap is right, unless a tap got lost or crossed a list.
FavoritesAddUp ==
  /\ favorites = (IF favorite THEN 1 ELSE 0) + Count("down") - Count("up") - halved
  /\ tapped \subseteq {Handset} /\ broken = 0 /\ ~crossed
     /\ toggle[Handset] = "idle" /\ hydrating = "no"
       => heart = favorite \/ tapped = {}
=============================================================================
