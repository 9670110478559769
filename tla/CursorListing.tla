---------------------------- MODULE CursorListing ----------------------------
(***************************************************************************)
(* GET /sessions, page after page: one client walks through its sessions,  *)
(* newest first, while sessions are created and expire.                    *)
(*                                                                         *)
(* A session is the position of its created_at: a greater one is newer.    *)
(* The pages come from a secondary index that follows the table after a    *)
(* while; the cursor is a session id, resolved through the table.          *)
(***************************************************************************)
EXTENDS Naturals, FiniteSets

CONSTANTS
    Positions,  \* bound: the sessions of one user
    Limit       \* page size

ASSUME ListingAssumption ==
    /\ Positions \subseteq Nat \ {0}
    /\ IsFiniteSet(Positions)
    /\ Limit \in Nat \ {0}

VARIABLES
    used,       \* history: sessions that have been created
    table,
    index,
    at,         \* the client: between requests, within one, or at the end
    cursor,     \* next_cursor of the last page, Top for none
    start,      \* ExclusiveStartKey of the query, Top for none
    seen,       \* history: what the pages of this walk contained
    repeated,   \* history: what they contained twice
    lasting,    \* history: what was in the index all through this walk
    restarted   \* history: a cursor could not be resolved

tableVars == <<used, table, index>>
walkVars == <<at, cursor, start>>
listingVars == <<tableVars, walkVars, seen, repeated, lasting, restarted>>

Top == 0

ListingTypeOK ==
    /\ used \subseteq Positions
    /\ table \subseteq used /\ index \subseteq used
    /\ at \in {"idle", "request", "query", "end"}
    /\ cursor \in seen \cup {Top} /\ start \in Positions \cup {Top}
    /\ seen \subseteq Positions /\ repeated \subseteq seen
    /\ lasting \subseteq index
    /\ restarted \in BOOLEAN

ListingInit ==
    /\ used = {} /\ table = {} /\ index = {}
    /\ at = "idle" /\ cursor = Top /\ start = Top
    /\ seen = {} /\ repeated = {} /\ lasting = {}
    /\ restarted = FALSE

\* SessionStore.put; clocks differ, so a session need not be the newest.
Create(p) ==
    /\ p \in Positions \ used
    /\ used' = used \cup {p}
    /\ table' = table \cup {p}
    /\ UNCHANGED <<index, walkVars, seen, repeated, lasting, restarted>>

\* The TTL.
ExpireAt(p) ==
    /\ p \in table
    /\ table' = table \ {p}
    /\ UNCHANGED <<used, index, walkVars, seen, repeated, lasting, restarted>>

\* The index takes over what the table has of p.
Propagate(p) ==
    /\ p \in table <=> p \notin index
    /\ index' = (index \ {p}) \cup (table \cap {p})
    /\ lasting' = lasting \cap index'
    /\ UNCHANGED <<used, table, walkVars, seen, repeated, restarted>>

\* A first request, without a cursor; the last walk is forgotten.
BeginWalk ==
    /\ at \in {"idle", "end"}
    /\ at' = "request"
    /\ cursor' = Top
    /\ start' = Top
    /\ seen' = {} /\ repeated' = {} /\ restarted' = FALSE
    /\ lasting' = index
    /\ UNCHANGED tableVars

\* A faulty variant: a cursor that cannot be resolved ends the walk.
ResolveOrEnd ==
    /\ at = "request"
    /\ start' = IF cursor \in table THEN cursor ELSE Top
    /\ at' = IF cursor \in table \cup {Top} THEN "query" ELSE "end"
    /\ UNCHANGED <<tableVars, cursor, seen, repeated, lasting, restarted>>

\* get_item(cursor): from the top without a cursor, or when its session is gone.
ResolveCursor ==
    /\ at = "request"
    /\ start' = IF cursor \in table THEN cursor ELSE Top
    /\ restarted' = (restarted \/ (cursor # Top /\ start' = Top))
    /\ at' = "query"
    /\ UNCHANGED <<tableVars, cursor, seen, repeated, lasting>>

\* What the query has still to read.
BelowStart == {p \in index : start = Top \/ p < start}

\* The newest of a set, at most Limit of them.
IsPage(page, rest) ==
    /\ page \subseteq rest
    /\ \A p \in page, q \in rest : q > p => q \in page
    /\ Cardinality(page) <= Limit
    /\ page # rest => Cardinality(page) = Limit

\* LastEvaluatedKey: there when the limit was reached, though DynamoDB may see
\* that nothing is left; the client goes on as long as there is one.
CursorOrEnd(page, rest) ==
    \/ /\ Cardinality(page) = Limit
       /\ at' = "request"
       /\ cursor' \in page
       /\ \A p \in page : cursor' <= p
    \/ /\ page = rest
       /\ at' = "end"
       /\ cursor' = Top

\* The query on UserSessionsIndex, and the answer.
QueryPage ==
    /\ at = "query"
    /\ \E page \in SUBSET BelowStart :
         /\ IsPage(page, BelowStart)
         /\ CursorOrEnd(page, BelowStart)
         /\ seen' = seen \cup page
         /\ repeated' = repeated \cup (seen \cap page)
    /\ start' = Top
    /\ UNCHANGED <<tableVars, lasting, restarted>>

WalkStep == ResolveCursor \/ QueryPage

ListingNext ==
    \/ \E p \in Positions : Create(p) \/ ExpireAt(p) \/ Propagate(p)
    \/ BeginWalk
    \/ WalkStep

ListingSpec == ListingInit /\ [][ListingNext]_listingVars

-----------------------------------------------------------------------------
(* Properties.                                                             *)

\* Whatever is in the index from the first page to the last is listed, also
\* when the session of a cursor has expired in between.
WalkIsComplete == at = "end" => lasting \subseteq seen

\* A session is listed twice only after a cursor's session has gone.
RepeatsAfterRestart == repeated # {} => restarted
=============================================================================
