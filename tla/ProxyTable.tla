----------------------------- MODULE ProxyTable -----------------------------
(***************************************************************************)
(* The SQLite table `proxies` (internal/store/store.go) and the statements *)
(* the program runs on it.  Every statement goes through a database/sql    *)
(* pool of one connection, so statements are atomic and totally ordered;   *)
(* nothing orders what a goroutine does between two of its statements.     *)
(*                                                                         *)
(* A row keeps its identity: the AUTOINCREMENT id, and the endpoint, the   *)
(* triple (protocol, ip, port) of the UNIQUE constraint.  The test results *)
(* and the country code are overwritten by every upsert and left out.      *)
(***************************************************************************)
EXTENDS Naturals, FiniteSets

CONSTANTS Endpoints,  \* the (protocol, ip, port) triples that exist
          MaxID       \* the largest rowid; SQLite answers SQLITE_FULL beyond it

ASSUME TableAssumption == MaxID \in Nat

VARIABLES rows,       \* the rows of the table
          lastID      \* sqlite_sequence: the largest id ever given out

tableVars == <<rows, lastID>>

Row == [id : Nat \ {0}, ep : Endpoints]

TableTypeOK == /\ rows \subseteq Row
               /\ lastID \in 0 .. MaxID

-----------------------------------------------------------------------------
\* What ORDER BY id ASC makes of a result set: the number of rows before r.
Rank(r, list) == Cardinality({s \in list : s.id < r.id})

\* The row that a scan in id order meets first.
IsFirst(r, list) == /\ r \in list
                    /\ \A s \in list : r.id <= s.id

Stored(e) == \E r \in rows : r.ep = e

\* Two ways to number rows wrongly: a rowid without AUTOINCREMENT is given out
\* again when the last row was deleted, and ids that start at 0.
RowidReused    == IF rows = {} THEN 1 ELSE (CHOOSE r \in rows : \A s \in rows : s.id <= r.id).id + 1
NextIDFromZero == IF rows = {} THEN 0 ELSE lastID + 1

\* The id AUTOINCREMENT gives the next row.  An upsert that conflicts may or
\* may not consume an id as well; only the order and the freshness of ids
\* matter, and a gap changes neither.
NextID == lastID + 1

\* A plain INSERT on a table without the UNIQUE constraint.
InsertUsableProxy(e) == /\ NextID <= MaxID
                        /\ rows' = rows \cup {[id |-> NextID, ep |-> e]}
                        /\ lastID' = NextID

\* INSERT ... ON CONFLICT(protocol, ip, port) DO UPDATE.
UpsertUsableProxy(e) ==
    \/ /\ Stored(e)
       /\ UNCHANGED tableVars
    \/ /\ ~ Stored(e)
       /\ NextID <= MaxID
       /\ rows' = rows \cup {[id |-> NextID, ep |-> e]}
       /\ lastID' = NextID

\* DELETE ... WHERE id = ?, and the transaction of DELETE ... WHERE id IN
\* (...) statements, which either commits as a whole or changes nothing.
DeleteByIDs(ids) == /\ rows' = {r \in rows : r.id \notin ids}
                    /\ UNCHANGED lastID

\* The table may hold rows from an earlier run of the program.
TableInit == /\ rows = {}
             /\ lastID = 0

=============================================================================
