----------------------------- MODULE PoolSystem -----------------------------
(***************************************************************************)
(* The whole pool: the passes of Probes, the rotator of Rotator and the    *)
(* admin pages (internal/admin/server.go, web/index.html) on one table.    *)
(* They share nothing else; each holds on to rows it read earlier, the     *)
(* retest passes in their listings, the rotator in its snapshot, a browser *)
(* in the rows its user has ticked, and names them to the table by id.     *)
(*                                                                         *)
(* The process can die between any two steps.  The table survives it, and  *)
(* so do the ticked rows of a browser that stays open.                     *)
(***************************************************************************)
EXTENDS Probes, Rotator

VARIABLES ticked,   \* ticked[a]: the rows that the delete request of a names
          deleting  \* deleting[a]: how far handleProxiesDelete is for a

adminVars  == <<ticked, deleting>>
systemVars == <<tableVars, probeVars, rotatorVars, adminVars>>

AdminTypeOK == /\ ticked \in [Admins -> SUBSET Row]
               /\ deleting \in [Admins -> {"no", "deleted", "rotating"}]

SystemTypeOK == TableTypeOK /\ ProbesTypeOK /\ RotatorTypeOK /\ AdminTypeOK

AdminInit == /\ ticked = [a \in Admins |-> {}]
             /\ deleting = [a \in Admins |-> "no"]

SystemInit == TableInit /\ ProbesInit /\ RotatorInit /\ AdminInit

-----------------------------------------------------------------------------
\* The page shows a listing and the user ticks one of its rows.  Ticks outlive
\* later refreshes of the page, even of rows that are gone by then.  (A row that
\* is unticked again might as well not have been ticked; what is ticked while a
\* request is out belongs to another request.)
TickRow(a) ==
    /\ deleting[a] = "no"
    /\ \E r \in rows : ticked' = [ticked EXCEPT ![a] = @ \cup {r}]
    /\ UNCHANGED <<deleting, tableVars, probeVars, rotatorVars>>

\* handleProxiesDelete: the ticked ids are deleted in one transaction.  When it
\* fails the request ends with the error and nothing has changed.
DeleteTicked(a) ==
    /\ deleting[a] = "no"
    /\ advance[a] = "out"
    /\ ticked[a] # {}
    /\ DeleteByIDs({r.id : r \in ticked[a]})
    /\ deleting' = [deleting EXCEPT ![a] = "deleted"]
    /\ UNCHANGED <<ticked, probeVars, rotatorVars>>

ExitTicked(a) == HasProxy /\ \E r \in ticked[a] : r.id = snap.row.id

\* The handler looks at the exit after the transaction and rotates if it is
\* one of the rows it deleted.
RotateDeletedExit(a) ==
    /\ deleting[a] = "deleted"
    /\ ExitTicked(a)
    /\ AdminAdvance(a)
    /\ deleting' = [deleting EXCEPT ![a] = "rotating"]
    /\ UNCHANGED <<ticked, probeVars>>

\* The handler answers, whatever its Advance returned, and the page clears its
\* selection.
AnswerDelete(a) ==
    /\ \/ deleting[a] = "deleted" /\ ~ ExitTicked(a)
       \/ deleting[a] = "rotating" /\ advance[a] = "out"
    /\ deleting' = [deleting EXCEPT ![a] = "no"]
    /\ ticked' = [ticked EXCEPT ![a] = {}]
    /\ UNCHANGED <<tableVars, probeVars, rotatorVars>>

\* handleActionRotate.
RotateNow(a) ==
    /\ deleting[a] = "no"
    /\ AdminAdvance(a)
    /\ UNCHANGED <<probeVars, adminVars>>

\* The process dies and is started again: the memory is as in ProbesInit and
\* RotatorInit, and the requests that were being served are lost.
Restart ==
    /\ running' = {}
    /\ todo' = [p \in Passes |-> {}]
    /\ workers' = [p \in Passes |-> {}]
    /\ ended' = [p \in Passes |-> FALSE]
    /\ result' = [p \in Passes |-> Zero]
    /\ mu' = NoCaller
    /\ idx' = 0
    /\ snap' = [row |-> NoRow, left |-> 0]
    /\ advance' = [c \in Callers |-> IF c = Loop THEN "waiting" ELSE "out"]
    /\ listed' = {}
    /\ tick' = FALSE
    /\ unchecked' = NoProxyWait
    /\ deleting' = [a \in Admins |-> "no"]
    /\ UNCHANGED <<tableVars, ticked>>

-----------------------------------------------------------------------------
AdminStep(a) == \/ TickRow(a)
                \/ DeleteTicked(a)
                \/ RotateDeletedExit(a)
                \/ AnswerDelete(a)
                \/ RotateNow(a)

SystemNext == \/ ProbesNext /\ UNCHANGED <<rotatorVars, adminVars>>
              \/ RotatorStep /\ UNCHANGED <<probeVars, adminVars>>
              \/ \E a \in Admins : AdminStep(a)
              \/ Restart

SystemSpec == SystemInit /\ [][SystemNext]_systemVars

-----------------------------------------------------------------------------
(***************************************************************************)
(* Properties                                                              *)
(***************************************************************************)

\* Every row that somebody read earlier and still holds.
HeldRows == HeldJobs
            \cup listed
            \cup (IF HasProxy THEN {snap.row} ELSE {})
            \cup UNION {ticked[a] : a \in Admins}

\* A row id means one endpoint for ever: to a retest pass, to the rotator and
\* to a browser, across concurrent deletions and inserts and across restarts,
\* so no delete by id and no comparison of ids hits another proxy
\* (retester.go:127, server.go:256; AUTOINCREMENT in store.go:88).
IdentityStable == \A h \in HeldRows, r \in rows : h.id = r.id => h = r

\* r failed a retest by itself, or a user has ticked it: this very row.
MayLeave(r) == \/ \E p \in Retesters : \E w \in workers[p] :
                      w.job = r /\ w.verdict = "bad"
               \/ \E a \in Admins : r \in ticked[a]

\* A test of the endpoint of r has succeeded.
MayEnter(r) == \E p \in Passes : \E w \in workers[p] :
                   w.job.ep = r.ep /\ w.verdict = "ok"

Justified == /\ \A r \in rows \ rows' : MayLeave(r)
             /\ \A r \in rows' \ rows : MayEnter(r)

\* A proxy leaves the pool only because it failed a retest on its own account,
\* not because a context ended under the test, or because a user ticked this
\* very row; it enters only after a test of its endpoint succeeded
\* (README.md:6-7,11).
PoolChangesJustified == [][Justified]_systemVars

\* Once deletions are answered and no Advance is under way, the exit is not a
\* deleted proxy (server.go:251), where nothing but admin requests deletes.
DeletedExitReplaced ==
    (mu = NoCaller /\ \A a \in Admins : deleting[a] = "no" /\ advance[a] = "out")
        => (HasProxy => snap.row \in rows)

=============================================================================
