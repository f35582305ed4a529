------------------------------ MODULE ExitRing ------------------------------
(***************************************************************************)
(* What the rotator promises, without mutex, listings, clocks or row ids:  *)
(* the pool is a ring of proxies in the order they entered it, a cursor    *)
(* walks the ring, and one atomic Advance makes the proxy at the cursor    *)
(* the exit.  Proxies enter at the end and leave anywhere, at any time and *)
(* as often as they like, so this module has the unbounded churn that the  *)
(* ids of the table rule out in a finite instance of Rotator.              *)
(***************************************************************************)
EXTENDS Naturals, Sequences, FiniteSets, Functions

CONSTANTS Endpoints, \* the proxies that may enter the ring
          NoExit     \* the exit while the ring has been found empty

ASSUME RingAssumption == NoExit \notin Endpoints

VARIABLES ring, cursor, exit

ringVars == <<ring, cursor, exit>>

RingTypeOK == /\ ring \in Seq(Endpoints)
              /\ IsInjective(ring)
              /\ cursor \in Nat
              /\ exit \in Endpoints \cup {NoExit}

RingInit == /\ ring = <<>>
            /\ cursor = 0
            /\ exit = NoExit

\* A ring that lets a proxy in twice.
EnterAgain(e) == /\ ring' = Append(ring, e)
                 /\ UNCHANGED <<cursor, exit>>

Enter(e) == /\ e \notin Range(ring)
            /\ ring' = Append(ring, e)
            /\ UNCHANGED <<cursor, exit>>

Staying(S) == {i \in 1 .. Len(ring) : ring[i] \notin S}

\* The k-th of a set of numbers.
Nth(k, T) == CHOOSE i \in T : Cardinality({j \in T : j < i}) = k - 1

\* Who stays moves up, in the same order.
Leave(S) == /\ ring' = [k \in 1 .. Cardinality(Staying(S)) |-> ring[Nth(k, Staying(S))]]
            /\ UNCHANGED <<cursor, exit>>

\* A cursor that never reaches the end of the ring.
WrapShort(i) == IF i + 1 >= Len(ring) THEN 0 ELSE i

Wrap(i) == IF i >= Len(ring) THEN 0 ELSE i

Turn == \/ /\ ring = <<>>
           /\ cursor' = 0
           /\ exit' = NoExit
        \/ /\ ring # <<>>
           /\ exit' = ring[Wrap(cursor) + 1]
           /\ cursor' = Wrap(Wrap(cursor) + 1)

Advance == Turn /\ UNCHANGED ring

RingNext == \/ \E e \in Endpoints : Enter(e)
            \/ \E S \in SUBSET Endpoints : Leave(S)
            \/ Advance

RingSafety == RingInit /\ [][RingNext]_ringVars

\* The exit is advanced again and again.
RingTurns == WF_ringVars(Advance)

RingSpec == RingSafety /\ RingTurns

-----------------------------------------------------------------------------
\* A proxy that stays in the pool gets its turn again and again, whatever
\* enters and leaves around it: the cursor is an index, so every departure
\* before it makes it jump over a proxy, but no proxy is jumped over forever
\* (README.md:9, rotator.go:66-73).
NoStarvation == \A e \in Endpoints : <>[](e \in Range(ring)) => []<>(exit = e)

=============================================================================
