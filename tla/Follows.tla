------------------------------ MODULE Follows -------------------------------
(***************************************************************************)
(* Who follows whom, and the two counters beside it (UsersService): the    *)
(* edge and the counters move in one transaction; the sweep that finally   *)
(* empties a deleted account takes its edges and leaves the counters of    *)
(* the others; a script counts all the edges again while people go on.     *)
(***************************************************************************)
EXTENDS Integers, FiniteSets

CONSTANTS
  Members,     \* users
  MaxFollows   \* bound: edges that are made or removed

ASSUME FollowsAssumption ==
  MaxFollows \in Nat /\ IsFiniteSet(Members) /\ Members # {}

VARIABLES
  edges,        \* Follow rows: <<follower, followed>>
  followers,    \* User.followerCount
  followings,    \* User.followingCount
  left,         \* the deleted accounts (deletedAt, isBanned)
  swept,        \* those of them the sweep has emptied
  recount,      \* the script: how far it is, what it has counted and read
  moves,        \* edges made and removed so far
  orphaned,     \* per user, the edges the sweep took from each of the counters
  stirred,      \* the users whose rows changed since the script began to count
  miscounted    \* the users it wrote all the same

followVars == <<edges, followers, followings, left, swept, recount, moves, orphaned, stirred,
                miscounted>>
counterVars == <<followers, followings>>

FollowersOf(u) == {a \in Members : <<a, u>> \in edges}
FollowedBy(u) == {b \in Members : <<u, b>> \in edges}

NoRecount == [at |-> "idle", in |-> <<>>, out |-> <<>>, page |-> <<>>, todo |-> {}]

\* A step that changes the rows of these users while the script is at it.
Touches(users) ==
  stirred' = IF recount = NoRecount THEN stirred ELSE stirred \cup users

(* Slips: what a definition below would be with a plausible mistake. No    *)
(* step uses them; each is caught by a property (PROJECT.json, "mutants"). *)

\* An upsert, and the counters moved whether it made an edge or not.
UpsertedEdge(a, b) == TRUE

-----------------------------------------------------------------------------
\* followUser: an edge that is there already is a unique violation, which
\* undoes the counters. The follower is signed in; the other may have left.
NewEdge(a, b) == <<a, b>> \notin edges
Follow(a, b) ==
  /\ moves < MaxFollows
  /\ a # b /\ a \notin left
  /\ NewEdge(a, b)
  /\ edges' = edges \cup {<<a, b>>}
  /\ followers' = [followers EXCEPT ![b] = @ + 1]
  /\ followings' = [followings EXCEPT ![a] = @ + 1]
  /\ moves' = moves + 1
  /\ Touches({a, b})
  /\ UNCHANGED <<left, swept, recount, orphaned, miscounted>>

\* unfollowUser: the counters move only if this call took the edge.
OldEdge(a, b) == <<a, b>> \in edges
Unfollow(a, b) ==
  /\ moves < MaxFollows
  /\ a # b /\ a \notin left
  /\ OldEdge(a, b)
  /\ edges' = edges \ {<<a, b>>}
  /\ followers' = [followers EXCEPT ![b] = @ - 1]
  /\ followings' = [followings EXCEPT ![a] = @ - 1]
  /\ moves' = moves + 1
  /\ Touches({a, b})
  /\ UNCHANGED <<left, swept, recount, orphaned, miscounted>>

\* deleteAccount keeps the edges.
DeleteMember(u) ==
  /\ u \notin left
  /\ left' = left \cup {u}
  /\ UNCHANGED <<edges, counterVars, swept, recount, moves, orphaned, stirred, miscounted>>

\* hardDeleteExpiredAccounts, once per account: the edges go, all counters stay.
Sweep(u) ==
  /\ u \in left \ swept
  /\ swept' = swept \cup {u}
  /\ edges' = {e \in edges : u \notin {e[1], e[2]}}
  /\ orphaned' = [x \in Members |->
       [in  |-> orphaned[x].in + Cardinality({a \in FollowersOf(x) : u \in {a, x}}),
        out |-> orphaned[x].out + Cardinality({b \in FollowedBy(x) : u \in {x, b}})]]
  /\ Touches(FollowersOf(u) \cup FollowedBy(u) \cup {u})
  /\ UNCHANGED <<counterVars, left, recount, moves, miscounted>>

-----------------------------------------------------------------------------
(* reconcile-follow-counts --apply: two counts, a page of the users, and   *)
(* an exact value for each of them that disagrees.                         *)

InDegrees == [u \in Members |-> Cardinality(FollowersOf(u))]
OutDegrees == [u \in Members |-> Cardinality(FollowedBy(u))]

\* The two queries are sent together: either is answered first.
CountEdges ==
  /\ \/ /\ recount = NoRecount
        /\ \/ recount' = [recount EXCEPT !.at = "out", !.in = InDegrees]
           \/ recount' = [recount EXCEPT !.at = "in", !.out = OutDegrees]
        /\ stirred' = {}
     \/ /\ recount.at = "out"
        /\ recount' = [recount EXCEPT !.at = "page", !.out = OutDegrees]
        /\ UNCHANGED stirred
     \/ /\ recount.at = "in"
        /\ recount' = [recount EXCEPT !.at = "page", !.in = InDegrees]
        /\ UNCHANGED stirred
  /\ UNCHANGED <<edges, counterVars, left, swept, moves, orphaned, miscounted>>

ReadPage ==
  /\ recount.at = "page"
  /\ recount' = [recount EXCEPT !.at = "write", !.todo = Members,
                   !.page = [u \in Members |-> <<followers[u], followings[u]>>]]
  /\ UNCHANGED <<edges, counterVars, left, swept, moves, orphaned, stirred, miscounted>>

\* One after the other, by id: a user is compared as the page has him, and
\* written as he was counted.
Repair ==
  /\ recount.at = "write"
  /\ LET u       == CHOOSE x \in recount.todo : TRUE
         counted == <<recount.in[u], recount.out[u]>>
         off     == recount.page[u] # counted
     IN /\ followers' = IF off THEN [followers EXCEPT ![u] = counted[1]] ELSE followers
        /\ followings' = IF off THEN [followings EXCEPT ![u] = counted[2]] ELSE followings
        /\ orphaned' = IF u \notin stirred
                       THEN [orphaned EXCEPT ![u] = [in |-> 0, out |-> 0]] ELSE orphaned
        /\ miscounted' = CASE u \notin stirred      -> miscounted \ {u}
                           [] u \in stirred /\ off  -> miscounted \cup {u}
                           [] u \in stirred /\ ~off -> miscounted
        /\ recount' = IF recount.todo = {u} THEN NoRecount
                      ELSE [recount EXCEPT !.todo = @ \ {u}]
  /\ UNCHANGED <<edges, left, swept, moves, stirred>>

-----------------------------------------------------------------------------
FollowsInit ==
  /\ edges = {} /\ left = {} /\ swept = {} /\ moves = 0
  /\ followers = [u \in Members |-> 0] /\ followings = [u \in Members |-> 0]
  /\ recount = NoRecount
  /\ orphaned = [u \in Members |-> [in |-> 0, out |-> 0]]
  /\ stirred = {} /\ miscounted = {}

FollowsNext ==
  \/ CountEdges \/ ReadPage \/ Repair
  \/ \E u \in Members : DeleteMember(u) \/ Sweep(u)
  \/ \E a, b \in Members : Follow(a, b) \/ Unfollow(a, b)

-----------------------------------------------------------------------------
\* The counters of a user are his edges, and those the sweep took from under
\* them, however calls, sweeps and the script cross; only a user who was
\* followed, unfollowed or swept while the script was at it may be written
\* wrong, until it runs again.
FollowsAddUp ==
  \A u \in Members \ miscounted :
    /\ followers[u] = Cardinality(FollowersOf(u)) + orphaned[u].in
    /\ followings[u] = Cardinality(FollowedBy(u)) + orphaned[u].out
=============================================================================
