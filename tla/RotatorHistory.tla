--------------------------- MODULE RotatorHistory ---------------------------
(***************************************************************************)
(* The rotator on a table that others change at will, with the order it    *)
(* serves proxies in.  The history variable `previous` is the listing the  *)
(* current exit was picked from; the program does not keep it.             *)
(***************************************************************************)
EXTENDS Rotator, Sequences

VARIABLE previous

historyVars == <<tableVars, rotatorVars, previous>>

\* Fetch and retest passes and admin deletions, as the rotator sees them.
TableChanges == /\ \/ \E e \in Endpoints : UpsertUsableProxy(e)
                   \/ \E S \in SUBSET {r.id : r \in rows} : DeleteByIDs(S)
                /\ UNCHANGED rotatorVars

Published(c) == AdvancePublish(c) /\ previous' = listed

HistoryNext ==
    \/ \E c \in Callers : \/ Published(c)
                          \/ /\ AdvanceList(c) \/ AdvanceFails(c)
                             /\ UNCHANGED previous
    \/ /\ (\E a \in Admins : AdminAdvance(a)) \/ LoopTick \/ Second \/ TableChanges
       /\ UNCHANGED previous

HistoryInit == TableInit /\ RotatorInit /\ previous = {}

HistorySpec == HistoryInit /\ [][HistoryNext]_historyVars

\* Time passes, runRotator is scheduled, and mu is handed to every waiter in
\* the end (sync.Mutex has no starvation).  A listing may fail any number of
\* times, but one that is retried for ever does not fail for ever.
RotatorFairness == /\ WF_historyVars(Second /\ UNCHANGED previous)
                   /\ WF_historyVars(LoopTick /\ UNCHANGED previous)
                   /\ \A c \in Callers :
                         /\ SF_historyVars(AdvanceList(c) /\ UNCHANGED previous)
                         /\ WF_historyVars(Published(c))

HistoryFairSpec == HistorySpec /\ RotatorFairness

-----------------------------------------------------------------------------
(***************************************************************************)
(* Safety                                                                  *)
(***************************************************************************)

\* The row of `list` that follows r in id order, the first row after the last.
NextInTurn(r, list) ==
    LET n == Cardinality(list)
    IN  CHOOSE s \in list :
            Rank(s, list) = IF Rank(r, list) + 1 = n THEN 0 ELSE Rank(r, list) + 1

\* As long as no listed proxy has left, exits are taken in turn: the next one
\* is the one that followed the old exit, whatever was inserted meanwhile and
\* whichever goroutines advanced (README.md:9, rotator.go:66-73).
RoundRobin ==
    [][\A c \in Callers :
          Published(c) /\ HasProxy /\ previous \subseteq listed
              => snap'.row = NextInTurn(snap.row, previous)]_historyVars

-----------------------------------------------------------------------------
(***************************************************************************)
(* Liveness                                                                *)
(***************************************************************************)

\* Every call of Advance returns, and no error path keeps mu.
AdvanceReturns == \A c \in Callers : advance[c] # "out" ~> advance[c] = "out"

ExitIs(i) == HasProxy /\ snap.row.id = i
Gone(i)   == \A r \in rows : r.id # i

\* A proxy that is gone from the table does not stay the exit: rows that the
\* retester removes are noticed when their hold time ends (main.go:99-105).
StaleExitReplaced == \A i \in 1 .. MaxID : (ExitIs(i) /\ Gone(i)) ~> (~ ExitIs(i))

\* A pool that is filled gets an exit for good ("fill in the exit as soon as
\* possible", main.go:107), a pool that stays empty loses it.
ExitFollowsPool == /\ <>[](rows # {}) => <>[]HasProxy
                   /\ <>[](rows = {}) => <>[](~ HasProxy)

-----------------------------------------------------------------------------
(***************************************************************************)
(* Refinement: seen from outside, an Advance takes place at its listing.   *)
(***************************************************************************)
Picked == LET n == Cardinality(listed)
          IN  CHOOSE p \in listed : Rank(p, listed) = Wrapped(idx, n)

InFlight == mu # NoCaller

\* The endpoints of rows in id order.
Listing(R) == [i \in 1 .. Cardinality(R) |-> (CHOOSE r \in R : Rank(r, R) = i - 1).ep]

ringBar == Listing(rows)

cursorBar == IF ~ InFlight THEN idx
             ELSE IF listed = {} THEN 0
             ELSE LET n == Cardinality(listed)
                  IN  Wrapped(Wrapped(idx, n) + 1, n)

exitBar == IF InFlight
           THEN IF listed = {} THEN NoRow ELSE Picked.ep
           ELSE IF HasProxy THEN snap.row.ep ELSE NoRow

Ring == INSTANCE ExitRing WITH ring <- ringBar, cursor <- cursorBar,
                               exit <- exitBar, NoExit <- NoRow

\* Every listing of an Advance is a turn of the ring, every insert puts its proxy
\* at the end, every deletion moves the others up in their order, and nothing
\* else that happens is seen on the ring (rotator.go:42-82).
ImplementsRing == Ring!RingSafety

\* As long as there is a proxy to turn to, the ring is turned again (main.go:81-122).
ImplementsTurns == Ring!RingTurns

=============================================================================
