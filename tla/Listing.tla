------------------------------ MODULE Listing ------------------------------
(***************************************************************************)
(* Paged listings of pipelines, streams and models: a client follows the   *)
(* page tokens of the gateway to the end while rows are created and        *)
(* deleted.  The SQL stores run one query per page; the in-memory stores,  *)
(* which pipeline-service and stream-manager wire, list the ids under one  *)
(* lock and the rows under another.                                        *)
(*                                                                         *)
(* A token is the signed pair of a collection and the last id; the client  *)
(* cannot make one.  Ids are numbers in the order of the strings, 0 stands *)
(* for the empty string.                                                   *)
(***************************************************************************)
EXTENDS Integers, Sequences, FiniteSets, Functions

CONSTANTS RowIds,     \* ids rows may have
          Foreign,    \* those of other tenants
          PageSize,   \* the clamped page_size
          MaxChanges  \* bound of rows created and deleted

ASSUME ListingAssumption ==
    RowIds \subseteq Nat \ {0} /\ IsFiniteSet(RowIds) /\ Foreign \subseteq RowIds /\ PageSize \in Nat \ {0} /\ MaxChanges \in Nat

VARIABLES backend,  \* which store
          collection,  \* which listing the client walks
          rows,
          walk,     \* the client's walk: its state, token, items
          ids,      \* the ids MemoryStore.List has read
          stayed,   \* rows of the tenant present since the walk began
          changes

listingVars == <<backend, collection, rows, walk, ids, stayed, changes>>

Backends == {"memory", "sql"}
Kinds == {"pipelines", "streams"}
NoId == 0
Own(s) == s \ Foreign

(* pkg/platform/pagination: a token is bound to the collection it was made *)
(* for, and decodes to its id there only.                                  *)
Encode(kind, last) == IF last = NoId THEN << >> ELSE <<[k |-> kind, i |-> last]>>
Decode(token) == IF token = << >> THEN NoId ELSE token[1].i
Accepts(kind, token) == token = << >> \/ token[1].k = kind

ListingInit ==
    /\ backend \in Backends
    /\ rows \in SUBSET RowIds
    /\ walk = [st |-> "asking", token |-> << >>, items |-> << >>, cut |-> FALSE]
    /\ collection \in Kinds
    /\ ids = {}
    /\ stayed = Own(rows)
    /\ changes = 0

-----------------------------------------------------------------------------
CreateRow(i) ==
    /\ i \notin rows /\ changes < MaxChanges
    /\ rows' = rows \cup {i}
    /\ changes' = changes + 1
    /\ UNCHANGED <<backend, collection, walk, ids, stayed>>

DeleteRow(i) ==
    /\ i \in rows /\ changes < MaxChanges
    /\ rows' = rows \ {i}
    /\ stayed' = stayed \ {i}
    /\ changes' = changes + 1
    /\ UNCHANGED <<backend, collection, walk, ids>>

(* ORDER BY id.                                                            *)
Ordered(s) == CHOOSE q \in [1..Cardinality(s) -> s] :
                  Range(q) = s /\ \A j, k \in DOMAIN q : j < k => q[j] < q[k]
Head2(s, n) == SubSeq(s, 1, IF Len(s) < n THEN Len(s) ELSE n)

(* The gateway's List adds the page and encodes the token.                 *)
Deliver(page, next, cut) ==
    walk' = [st |-> IF next = NoId THEN "done" ELSE "asking", token |-> Encode(collection, next),
             items |-> walk.items \o page, cut |-> walk.cut \/ cut]

After == Decode(walk.token)
Found == Ordered({i \in Own(rows) : i > After})

(* A token taken to the other listing is refused.                          *)
WrongListing(kind) ==
    /\ walk.st = "asking" /\ ~Accepts(kind, walk.token)
    /\ walk' = [walk EXCEPT !.st = "refused"]
    /\ UNCHANGED <<backend, collection, rows, ids, stayed, changes>>

(* Mutant: the peeked row is the cursor. *)
SQLListPeeked ==
    /\ backend = "sql" /\ walk.st = "asking"
    /\ Deliver(Head2(Found, PageSize), IF Len(Found) > PageSize THEN Found[PageSize + 1] ELSE NoId, FALSE)
    /\ UNCHANGED <<backend, collection, rows, ids, stayed, changes>>

(* SQLStore.List: id > cursor, one row more than the page is asked for.    *)
SQLList ==
    /\ backend = "sql" /\ walk.st = "asking"
    /\ Deliver(Head2(Found, PageSize), IF Len(Found) > PageSize THEN Found[PageSize] ELSE NoId, FALSE)
    /\ UNCHANGED <<backend, collection, rows, ids, stayed, changes>>

(* MemoryStore.List, the first lock: the ids.                              *)
ReadIds ==
    /\ backend = "memory" /\ walk.st = "asking"
    /\ ids' = rows
    /\ walk' = [walk EXCEPT !.st = "scanning"]
    /\ UNCHANGED <<backend, collection, rows, stayed, changes>>

(* The second lock: the scan starts behind the cursor's id, if it is there *)
(* at all; a row deleted since is a nil that matches no tenant.  A full    *)
(* page has a next token even when nothing follows.                        *)
ScanRows ==
    /\ walk.st = "scanning"
    /\ LET behind == IF After = NoId THEN ids
                     ELSE IF After \in ids THEN {i \in ids : i > After} ELSE {}
           page == Head2(Ordered(Own(behind \cap rows)), PageSize)
       IN Deliver(page, IF Len(page) = PageSize THEN page[PageSize] ELSE NoId,
                  After # NoId /\ After \notin ids)
    /\ ids' = {}
    /\ UNCHANGED <<backend, collection, rows, stayed, changes>>

ListingNext ==
    \/ \E i \in RowIds : CreateRow(i) \/ DeleteRow(i)
    \/ \E kind \in Kinds : WrongListing(kind)
    \/ SQLList \/ ReadIds \/ ScanRows

ListingSpec == ListingInit /\ [][ListingNext]_listingVars

-----------------------------------------------------------------------------
(* Following the tokens to the end returns each row of the tenant that was *)
(* there all along exactly once and in order, and no row of another tenant *)
(* or twice, whatever is created and deleted meanwhile; a walk is cut      *)
(* short only by an in-memory store whose cursor row was deleted.          *)
PagesCoverEverything ==
    walk.st = "done" =>
        /\ \A j \in 1..Len(walk.items) - 1 : walk.items[j] < walk.items[j + 1]
        /\ Range(walk.items) \cap Foreign = {}
        /\ walk.cut \/ stayed \subseteq Range(walk.items)
        /\ walk.cut => backend = "memory"

=============================================================================
