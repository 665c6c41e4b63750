------------------------------ MODULE Listing -------------------------------
(***************************************************************************)
(* GET /environments (api/routes/environment_router.py) page by page,      *)
(* while rows are created and change status.  Each request is              *)
(* authenticated, counts the rows that match, and then selects its page:   *)
(* two statements, each of which sees what is committed when it runs.      *)
(*                                                                         *)
(* created_at is taken to differ between rows; rows are never deleted.     *)
(***************************************************************************)
EXTENDS ApiKeys

CONSTANTS
  Row,      (* environments that may be created                           *)
  Limit,    (* limit, the size of a page                                  *)
  MaxMoves  (* bound: status changes                                      *)

ASSUME ListingAssumption ==
  IsFiniteSet(Row) /\ Limit \in Nat \ {0} /\ MaxMoves \in Nat

VARIABLES
  born,       (* born[r]: created_at, as a rank; 0 before the row exists  *)
  owner,      (* owner[r]: the principal that created it                  *)
  shown,      (* rows that are committed                                  *)
  wanted,     (* rows whose status is the one a filter asks for           *)
  moves,      (* status changes so far                                    *)
  pc,         (* where the client is                                      *)
  key,        (* its key                                                  *)
  filtered,   (* it asks for one status                                   *)
  offset, total, items,   (* the query and answer of the current page     *)
  who,        (* the principal of the current request                     *)
  seen,       (* history: rows in any page so far                         *)
  due,        (* history: rows that have matched ever since the start     *)
  left        (* history: how often a row stopped matching since then     *)

rowVars  == <<born, owner, shown, wanted, moves>>
pageVars == <<offset, total, items>>
walkVars == <<key, filtered, who, seen, due, left>>
vars     == <<keyVars, rowVars, pc, pageVars, walkVars>>

TypeOK ==
  /\ KeysTypeOK
  /\ born \in [Row -> 0..Cardinality(Row)]
  /\ owner \in [Row -> Principal \cup {NoPrincipal}]
  /\ shown \subseteq {r \in Row : born[r] > 0} /\ wanted \subseteq shown
  /\ pc \in {"ask", "count", "rows", "end", "refused"}
  /\ key \in Key /\ filtered \in BOOLEAN
  /\ offset \in Nat /\ total \in 0..Cardinality(Row)
  /\ items \subseteq shown /\ Cardinality(items) <= Limit
  /\ who \in Principal \cup {NoPrincipal}
  /\ seen \cup due \subseteq shown /\ left \in 0..MaxMoves

Init ==
  /\ KeysInit
  /\ born = [r \in Row |-> 0] /\ owner = [r \in Row |-> NoPrincipal]
  /\ shown = {} /\ wanted = {} /\ moves = 0
  /\ pc = "ask" /\ key \in Key /\ filtered \in BOOLEAN
  /\ offset = 0 /\ total = 0 /\ items = {}
  /\ who = NoPrincipal /\ seen = {} /\ due = {} /\ left = 0

(* The rows of the query, before LIMIT and OFFSET.                         *)
Matching(p) == {r \in shown : owner[r] = p /\ (filtered => r \in wanted)}

-----------------------------------------------------------------------------
(* POST by a client with key k: the row gets its created_at at the flush.  *)
Flush(r) ==
  /\ up /\ born[r] = 0
  /\ \E k \in Key : Caller(k) \in Principal /\ owner' = [owner EXCEPT ![r] = Caller(k)]
  /\ born' = [born EXCEPT ![r] = 1 + Cardinality({q \in Row : born[q] > 0})]
  /\ UNCHANGED <<keyVars, shown, wanted, moves, pc, pageVars, walkVars>>

(* Its transaction commits, or it never does.  A filter may ask for the    *)
(* status of the new row.                                                  *)
Commit(r) ==
  /\ born[r] > 0 /\ r \notin shown
  /\ shown' = shown \cup {r}
  /\ wanted' \in {wanted, wanted \cup {r}}
  /\ UNCHANGED <<keyVars, born, owner, moves, pc, pageVars, walkVars>>

(* A worker moves the row into the status, or out of it.                   *)
Move(r) ==
  /\ r \in shown /\ moves < MaxMoves
  /\ moves' = moves + 1
  /\ wanted' = IF r \in wanted THEN wanted \ {r} ELSE wanted \cup {r}
  /\ due' = IF filtered THEN due \ {r} ELSE due
  /\ left' = IF filtered /\ r \in Matching(who) THEN left + 1 ELSE left
  /\ UNCHANGED <<keyVars, born, owner, shown, pc, pageVars, key, filtered, who, seen>>

-----------------------------------------------------------------------------
(* The client asks for a page and is authenticated.  What a walk should    *)
(* find is what matches at its first request, as long as its key stays a   *)
(* key of the same principal.                                              *)
Ask ==
  /\ up /\ pc = "ask"
  /\ IF Caller(key) \in Principal
       THEN /\ pc' = "count" /\ who' = Caller(key)
            /\ due' = IF offset = 0 THEN Matching(who')
                      ELSE IF who' = who THEN due ELSE {}
       ELSE pc' = "refused" /\ UNCHANGED <<who, due>>
  /\ UNCHANGED <<keyVars, rowVars, pageVars, key, filtered, seen, left>>

(* The total of all rows of the principal, whatever the filter.            *)
Count_Unfiltered ==
  /\ pc = "count"
  /\ total' = Cardinality({r \in shown : owner[r] = who})
  /\ pc' = "rows"
  /\ UNCHANGED <<keyVars, rowVars, offset, items, walkVars>>
(* One statement for the total, another for the rows.                      *)
Count ==
  /\ pc = "count"
  /\ total' = Cardinality(Matching(who))
  /\ pc' = "rows"
  /\ UNCHANGED <<keyVars, rowVars, offset, items, walkVars>>

(* No LIMIT.                                                               *)
Page_NoLimit ==
  {r \in Matching(who) :
     Cardinality({q \in Matching(who) : born[q] > born[r]}) >= offset}
(* Ordered by status first.                                                *)
Page_ByStatus ==
  LET Before(q, r) == IF (q \in wanted) = (r \in wanted) THEN born[q] > born[r] ELSE q \in wanted
  IN {r \in Matching(who) :
        Cardinality({q \in Matching(who) : Before(q, r)}) \in offset..(offset + Limit - 1)}
(* ORDER BY created_at DESC LIMIT limit OFFSET offset.                     *)
Page ==
  {r \in Matching(who) :
     Cardinality({q \in Matching(who) : born[q] > born[r]}) \in offset..(offset + Limit - 1)}

(* The page is answered; a client that gets a full one asks for the next.  *)
Rows ==
  /\ pc = "rows"
  /\ items' = Page /\ seen' = seen \cup Page
  /\ IF Cardinality(Page) < Limit THEN pc' = "end" /\ UNCHANGED offset
                                  ELSE pc' = "ask" /\ offset' = offset + Limit
  /\ UNCHANGED <<keyVars, rowVars, total, key, filtered, who, due, left>>

Serve == Ask \/ Count \/ Rows

Next ==
  \/ Serve
  \/ (Boot \/ Configure) /\ UNCHANGED <<rowVars, pc, pageVars, walkVars>>
  \/ \E r \in Row : Flush(r) \/ Commit(r) \/ Move(r)

Spec == Init /\ [][Next]_vars

-----------------------------------------------------------------------------
(* A walk misses no row, whatever is created or committed meanwhile; with  *)
(* a status filter, it misses no more rows than have left the status.      *)
(* That takes an order in which a row never moves up (router line 143): a  *)
(* row committed during the walk can only push others to later pages.      *)
PagingMisses == pc = "end" => Cardinality(due \ seen) <= left

(* The total of a short page promises no more rows than were listed, apart *)
(* from rows that have left the status: the count comes first (line 141).  *)
TotalConsistent == pc = "end" => total <= offset + Cardinality(items) + left
=============================================================================
