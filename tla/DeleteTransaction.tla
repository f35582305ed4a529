-------------------------- MODULE DeleteTransaction --------------------------
(***************************************************************************)
(* Store.DeleteProxiesByIDs (internal/store/store.go): one transaction     *)
(* with a DELETE statement per chunk of ids, on the only connection there  *)
(* is (SetMaxOpenConns(1)).  While a transaction holds the connection, no  *)
(* other statement of the program runs.                                    *)
(*                                                                         *)
(* The ids of a request are a set: what is not positive or named twice is  *)
(* filtered out before the transaction.                                    *)
(***************************************************************************)
EXTENDS AtomicDelete

CONSTANTS ChunkSize,  \* chunkSize, 900 in the code
          NoRequest   \* nobody holds the connection

ASSUME TransactionAssumption == /\ ChunkSize \in Nat \ {0}
                                /\ NoRequest \notin Requests

VARIABLES holder,  \* the request whose transaction holds the connection
          left,    \* the ids it has not sent in a chunk
          gone,    \* the rows it has deleted and not committed
          total    \* the rows it has counted

txVars == <<holder, left, gone, total>>

Connected == holder = NoRequest

Release == /\ holder' = NoRequest
           /\ left' = {} /\ gone' = {} /\ total' = 0

TransactionInit == /\ AtomicInit
                   /\ holder = NoRequest
                   /\ left = {} /\ gone = {} /\ total = 0

\* BeginTx waits for the connection.
BeginTx(d) == /\ Connected
              /\ outcome[d] = "asked"
              /\ holder' = d
              /\ left' = ids[d]
              /\ UNCHANGED <<gone, total, atomicVars>>

\* A chunk that is deleted outside the transaction.
DeleteChunkAtOnce(d) ==
    /\ holder = d
    /\ \E chunk \in SUBSET left :
           /\ chunk # {}
           /\ Cardinality(chunk) <= ChunkSize
           /\ Cardinality(chunk) < ChunkSize => chunk = left
           /\ left' = left \ chunk
           /\ pool' = pool \ chunk
           /\ total' = total + Cardinality(chunk \intersect pool)
    /\ UNCHANGED <<holder, gone, lastRow, ids, outcome, count>>

\* A chunk for which the database is asked, not the transaction: it waits for the
\* connection.
DeleteChunkElsewhere(d) == Connected /\ DeleteChunkAtOnce(d)

\* A turn of the loop: the next chunk, whichever ids are in it.
DeleteChunk(d) ==
    /\ holder = d
    /\ \E chunk \in SUBSET left :
           /\ chunk # {}
           /\ Cardinality(chunk) <= ChunkSize
           /\ Cardinality(chunk) < ChunkSize => chunk = left
           /\ left' = left \ chunk
           /\ gone' = gone \union (chunk \intersect pool)
           /\ total' = total + Cardinality(chunk \intersect (pool \ gone))
    /\ UNCHANGED <<holder, atomicVars>>

Commit(d) == /\ holder = d
             /\ left = {}
             /\ pool' = pool \ gone
             /\ count' = [count EXCEPT ![d] = total]
             /\ outcome' = [outcome EXCEPT ![d] = "deleted"]
             /\ Release
             /\ UNCHANGED <<lastRow, ids>>

\* A statement or the commit fails, or the context ends: the transaction is
\* rolled back and the connection is free.
Rollback(d) == /\ holder = d
               /\ DeleteFails(d)
               /\ Release

\* The context ends while the request waits for the connection.
BeginFails(d) == /\ holder # d
                 /\ DeleteFails(d)
                 /\ UNCHANGED txVars

\* Statements that find another connection.
OtherStatementsUnqueued == /\ RowEnters \/ RowLeaves
                           /\ UNCHANGED txVars

\* Single statements of the passes wait for the connection as well.
OtherStatements == /\ Connected
                   /\ RowEnters \/ RowLeaves
                   /\ UNCHANGED txVars

TransactionStep(d)  == BeginTx(d) \/ DeleteChunk(d) \/ Commit(d)
TransactionFails(d) == Rollback(d) \/ BeginFails(d)

=============================================================================
