---------------------------- MODULE AtomicDelete ----------------------------
(***************************************************************************)
(* What a request to delete proxies promises (handleProxiesDelete of       *)
(* internal/admin/server.go): either all the rows it names leave the table *)
(* at one moment, and the answer counts those that were there, or none     *)
(* does and the answer is an error.                                        *)
(***************************************************************************)
EXTENDS Naturals, FiniteSets

CONSTANTS Requests,  \* the requests that can be under way at once
          MaxRow     \* bound: the largest row id

ASSUME AtomicAssumption == MaxRow \in Nat

VARIABLES pool,     \* the ids of the table's rows
          lastRow,  \* the largest id given out so far
          ids,      \* ids[d]: the rows that request d names
          outcome,  \* outcome[d]: "none", "asked", "deleted" or "error"
          count     \* count[d]: the number in the answer

atomicVars == <<pool, lastRow, ids, outcome, count>>

AtomicInit == /\ lastRow \in 0 .. MaxRow
              /\ pool = 1 .. lastRow
              /\ ids = [d \in Requests |-> {}]
              /\ outcome = [d \in Requests |-> "none"]
              /\ count = [d \in Requests |-> 0]

\* A pass writes a new row or removes one.
RowEnters == /\ lastRow < MaxRow
             /\ lastRow' = lastRow + 1
             /\ pool' = pool \union {lastRow'}
             /\ UNCHANGED <<ids, outcome, count>>

RowLeaves == /\ \E i \in pool : pool' = pool \ {i}
             /\ UNCHANGED <<lastRow, ids, outcome, count>>

AskDelete(d, S) == /\ outcome[d] = "none"
                   /\ ids' = [ids EXCEPT ![d] = S]
                   /\ outcome' = [outcome EXCEPT ![d] = "asked"]
                   /\ UNCHANGED <<pool, lastRow, count>>

Delete(d) == /\ outcome[d] = "asked"
             /\ pool' = pool \ ids[d]
             /\ count' = [count EXCEPT ![d] = Cardinality(pool \intersect ids[d])]
             /\ outcome' = [outcome EXCEPT ![d] = "deleted"]
             /\ UNCHANGED <<lastRow, ids>>

DeleteFails(d) == /\ outcome[d] = "asked"
                  /\ outcome' = [outcome EXCEPT ![d] = "error"]
                  /\ UNCHANGED <<pool, lastRow, ids, count>>

Deliver(d) == /\ outcome[d] \in {"deleted", "error"}
              /\ outcome' = [outcome EXCEPT ![d] = "none"]
              /\ ids' = [ids EXCEPT ![d] = {}]
              /\ count' = [count EXCEPT ![d] = 0]
              /\ UNCHANGED <<pool, lastRow>>

AtomicNext == \/ RowEnters \/ RowLeaves
              \/ \E d \in Requests : \/ \E S \in SUBSET (1 .. MaxRow) : AskDelete(d, S)
                                     \/ Delete(d) \/ DeleteFails(d) \/ Deliver(d)

AtomicSpec == AtomicInit /\ [][AtomicNext]_atomicVars

=============================================================================
