--------------------------- MODULE PoolSystemProofs ---------------------------
(***************************************************************************)
(* Theorems about PoolSystem, for every number of endpoints, passes and    *)
(* admins.  What matters is IdentityStable: what somebody read earlier and *)
(* names by id is still what he read.  It is not inductive as it stands:   *)
(* a new id must be larger than every id that anyone still holds, rows     *)
(* and held rows alike, and the step that lists rows hands out rows of the *)
(* table, which must not share ids among themselves.  IdentityKept, of     *)
(* ProbesProofs, is that argument for whoever holds rows.                  *)
(***************************************************************************)
EXTENDS PoolSystem, ProbesProofs

\* Nobody holds an id that the table has not given out yet.
KnownIds == \A h \in HeldRows : h.id <= lastID

Types == SystemTypeOK /\ IsFiniteSet(rows)

IInv == Types /\ TableInv /\ KnownIds /\ IdentityStable /\ CutMeansEnded

-----------------------------------------------------------------------------
(***************************************************************************)
(* Lemmas on the table and on what is held                                 *)
(***************************************************************************)

\* What anyone holds, member by member, in a state and in the next.
LEMMA HeldRowsMembers ==
    /\ \A h : h \in HeldRows <=> \/ h \in HeldJobs
                                 \/ h \in listed
                                 \/ HasProxy /\ h = snap.row
                                 \/ \E a \in Admins : h \in ticked[a]
    /\ \A h : h \in HeldRows' <=> \/ h \in HeldJobs'
                                  \/ h \in listed'
                                  \/ HasProxy' /\ h = snap'.row
                                  \/ \E a \in Admins : h \in ticked'[a]
  BY DEF HeldRows

\* All that is held is a row of the table's type.
LEMMA HeldRowsType == ASSUME SystemTypeOK PROVE HeldRows \subseteq Row
<1> SUFFICES ASSUME NEW h \in HeldRows PROVE h \in Row
    OBVIOUS
<1>1. ASSUME h \in HeldJobs PROVE h \in Row
    BY <1>1, HeldJobsType DEF SystemTypeOK
<1>2. ASSUME h \in listed PROVE h \in Row
    BY <1>2 DEF SystemTypeOK, RotatorTypeOK
<1>3. ASSUME HasProxy, h = snap.row PROVE h \in Row
    BY <1>3 DEF SystemTypeOK, RotatorTypeOK, Snapshot, HasProxy
<1>4. ASSUME NEW a \in Admins, h \in ticked[a] PROVE h \in Row
    BY <1>4 DEF SystemTypeOK, AdminTypeOK
<1> QED
    BY <1>1, <1>2, <1>3, <1>4, HeldRowsMembers

-----------------------------------------------------------------------------
(***************************************************************************)
(* Types                                                                   *)
(***************************************************************************)

LEMMA RotatorStepTypes ==
    ASSUME TableTypeOK, RotatorTypeOK, RotatorStep
    PROVE  RotatorTypeOK'
<1> USE DEF RotatorTypeOK
<1>1. ASSUME NEW c \in Callers, AdvanceList(c) PROVE RotatorTypeOK'
    BY <1>1 DEF AdvanceList, TableTypeOK
<1>2. ASSUME NEW c \in Callers, AdvanceFails(c) PROVE RotatorTypeOK'
    BY <1>2 DEF AdvanceFails
<1>3. ASSUME NEW c \in Callers, AdvancePublish(c) PROVE RotatorTypeOK'
    <2>1. CASE PublishNone
        BY <1>3, <2>1, RotatorAssumption DEF AdvancePublish, PublishNone, Snapshot
    <2>2. CASE PublishNext
        <3>1. idx' \in Nat /\ snap' \in Snapshot
            BY <2>2, RotatorAssumption DEF PublishNext, Wrapped, Snapshot
        <3> QED
            BY <1>3, <3>1 DEF AdvancePublish
    <2> QED
        BY <1>3, <2>1, <2>2 DEF AdvancePublish
<1>4. CASE LoopTick
    <2>1. advance' \in [Callers -> {"out", "waiting", "listed"}]
        BY <1>4 DEF LoopTick, CallAdvance
    <2>2. unchecked' \in 0 .. NoProxyWait
        BY <1>4, RotatorAssumption DEF LoopTick
    <2>3. tick' \in BOOLEAN
        BY <1>4 DEF LoopTick
    <2> QED
        BY <1>4, <2>1, <2>2, <2>3 DEF LoopTick
<1>5. CASE Second
    BY <1>5, RotatorAssumption DEF Second, Snapshot
<1> QED
    BY <1>1, <1>2, <1>3, <1>4, <1>5 DEF RotatorStep, AdvanceStep

LEMMA AdminStepTypes ==
    ASSUME TableTypeOK, RotatorTypeOK, AdminTypeOK, NEW a \in Admins, AdminStep(a)
    PROVE  RotatorTypeOK' /\ AdminTypeOK'
<1> USE DEF AdminTypeOK
<1>1. AdminAdvance(a) => RotatorTypeOK'
    BY DEF AdminAdvance, CallAdvance, RotatorTypeOK, Callers
<1>2. UNCHANGED rotatorVars => RotatorTypeOK'
    BY DEF rotatorVars, RotatorTypeOK
<1>3. CASE TickRow(a)
    BY <1>2, <1>3 DEF TickRow, TableTypeOK
<1>4. CASE DeleteTicked(a)
    BY <1>2, <1>4 DEF DeleteTicked
<1>5. CASE RotateDeletedExit(a)
    BY <1>1, <1>5 DEF RotateDeletedExit
<1>6. CASE AnswerDelete(a)
    BY <1>2, <1>6 DEF AnswerDelete
<1>7. CASE RotateNow(a)
    BY <1>1, <1>7 DEF RotateNow, adminVars
<1> QED
    BY <1>3, <1>4, <1>5, <1>6, <1>7 DEF AdminStep

\* Memory after a restart is as it was at the start.
LEMMA RestartTypes ==
    ASSUME SystemTypeOK, Restart
    PROVE  ProbesTypeOK' /\ RotatorTypeOK' /\ AdminTypeOK'
<1>1. ProbesTypeOK'
    BY DEF Restart, ProbesTypeOK, Counters, Zero
<1>2. advance' \in [Callers -> {"out", "waiting", "listed"}]
    BY DEF Restart
<1>3. RotatorTypeOK'
    <2>1. snap' \in Snapshot /\ unchecked' \in 0 .. NoProxyWait
        BY RotatorAssumption DEF Restart, Snapshot
    <2>2. tick' \in BOOLEAN
        BY DEF Restart
    <2> QED
        BY <1>2, <2>1, <2>2 DEF Restart, RotatorTypeOK
<1>4. AdminTypeOK'
    BY DEF Restart, SystemTypeOK, AdminTypeOK
<1> QED
    BY <1>1, <1>3, <1>4

\* Every step does one of the three things to the table, or nothing.
LEMMA NextTableStep == ASSUME SystemTypeOK, SystemNext PROVE TableStep
<1>1. CASE ProbesNext
    BY <1>1, ProbesTableStep DEF SystemTypeOK
<1>2. CASE RotatorStep
    BY <1>2 DEF RotatorStep, AdvanceStep, AdvanceList, AdvanceFails, AdvancePublish,
                LoopTick, Second, TableStep
<1>3. ASSUME NEW a \in Admins, AdminStep(a) PROVE TableStep
    BY <1>3 DEF AdminStep, TickRow, DeleteTicked, RotateDeletedExit, AnswerDelete,
                RotateNow, AdminAdvance, TableStep
<1>4. CASE Restart
    BY <1>4 DEF Restart, TableStep
<1> QED
    BY <1>1, <1>2, <1>3, <1>4 DEF SystemNext

LEMMA NextTypes == ASSUME Types, SystemNext PROVE Types'
<1> USE DEF SystemTypeOK, Types
<1>1. TableTypeOK' /\ IsFiniteSet(rows')
    BY NextTableStep, TableStepTypes
<1>2. CASE ProbesNext /\ UNCHANGED <<rotatorVars, adminVars>>
    <2>1. ProbesTypeOK'
        BY <1>2, ProbesNextTypes
    <2>2. RotatorTypeOK' /\ AdminTypeOK'
        BY <1>2 DEF rotatorVars, adminVars, RotatorTypeOK, AdminTypeOK
    <2> QED
        BY <1>1, <2>1, <2>2
<1>3. CASE RotatorStep /\ UNCHANGED <<probeVars, adminVars>>
    <2>1. ProbesTypeOK' /\ AdminTypeOK'
        BY <1>3 DEF probeVars, adminVars, ProbesTypeOK, AdminTypeOK
    <2> QED
        BY <1>1, <1>3, <2>1, RotatorStepTypes
<1>4. ASSUME NEW a \in Admins, AdminStep(a) PROVE Types'
    <2>1. UNCHANGED probeVars
        BY <1>4 DEF AdminStep, TickRow, DeleteTicked, RotateDeletedExit, AnswerDelete, RotateNow
    <2>2. ProbesTypeOK'
        BY <2>1 DEF probeVars, ProbesTypeOK
    <2> QED
        BY <1>1, <1>4, <2>2, AdminStepTypes
<1>5. CASE Restart
    BY <1>1, <1>5, RestartTypes
<1> QED
    BY <1>2, <1>3, <1>4, <1>5 DEF SystemNext

-----------------------------------------------------------------------------
(***************************************************************************)
(* Who holds what after a step                                             *)
(***************************************************************************)

\* The rotator holds what it lists, and serves a row it has listed.
LEMMA RotatorStepHolds ==
    ASSUME RotatorTypeOK, RotatorStep
    PROVE  /\ listed' \subseteq listed \cup rows
           /\ HasProxy' => snap'.row \in listed \/ (HasProxy /\ snap'.row = snap.row)
<1>1. ASSUME NEW c \in Callers, AdvancePublish(c) PROVE HasProxy' => snap'.row \in listed
    BY <1>1 DEF AdvancePublish, PublishNone, PublishNext, HasProxy
<1>2. CASE Second
    BY <1>2 DEF Second, HasProxy, RotatorTypeOK, Snapshot
<1> QED
    BY <1>1, <1>2 DEF RotatorStep, AdvanceStep, AdvanceList, AdvanceFails,
                      AdvancePublish, LoopTick, HasProxy

LEMMA NextHolds ==
    ASSUME SystemTypeOK, SystemNext
    PROVE  HeldRows' \subseteq HeldRows \cup rows
<1> USE DEF SystemTypeOK
<1>1. UNCHANGED probeVars => HeldJobs' = HeldJobs
    BY DEF probeVars, HeldJobs
<1>2. CASE ProbesNext /\ UNCHANGED <<rotatorVars, adminVars>>
    BY <1>2, ProbesNextHolds, HeldRowsMembers DEF rotatorVars, adminVars, HasProxy
<1>3. CASE RotatorStep /\ UNCHANGED <<probeVars, adminVars>>
    BY <1>1, <1>3, RotatorStepHolds, HeldRowsMembers DEF adminVars
<1>4. ASSUME NEW a \in Admins, AdminStep(a) PROVE HeldRows' \subseteq HeldRows \cup rows
    <2>1. UNCHANGED <<probeVars, listed, snap>>
        BY <1>4 DEF AdminStep, TickRow, DeleteTicked, RotateDeletedExit, AnswerDelete,
                    RotateNow, AdminAdvance, rotatorVars
    <2>2. \A b \in Admins : ticked'[b] \subseteq ticked[b] \cup rows
        BY <1>4 DEF AdminStep, TickRow, DeleteTicked, RotateDeletedExit, AnswerDelete,
                    RotateNow, adminVars, AdminTypeOK
    <2> QED
        BY <1>1, <2>1, <2>2, HeldRowsMembers DEF HasProxy
<1>5. CASE Restart
    <2>1. HeldJobs' = {}
        BY <1>5, HeldJobsMembers DEF Restart, Passes
    <2>2. listed' = {} /\ ~ HasProxy' /\ ticked' = ticked
        BY <1>5 DEF Restart, HasProxy
    <2> QED
        BY <2>1, <2>2, HeldRowsMembers
<1> QED
    BY <1>2, <1>3, <1>4, <1>5 DEF SystemNext

\* A restart leaves no test, and only a pass's own step changes one.
LEMMA NextCut == ASSUME SystemTypeOK, CutMeansEnded, SystemNext PROVE CutMeansEnded'
<1>1. CASE ProbesNext
    BY <1>1, ProbesNextCut DEF SystemTypeOK
<1>2. CASE Restart
    BY <1>2 DEF Restart, CutMeansEnded
<1>3. CASE UNCHANGED probeVars
    BY <1>3 DEF probeVars, CutMeansEnded
<1>4. ASSUME NEW a \in Admins, AdminStep(a) PROVE UNCHANGED probeVars
    BY <1>4 DEF AdminStep, TickRow, DeleteTicked, RotateDeletedExit, AnswerDelete, RotateNow
<1> QED
    BY <1>1, <1>2, <1>3, <1>4 DEF SystemNext

-----------------------------------------------------------------------------
(***************************************************************************)
(* The inductive invariant and what follows from it                        *)
(***************************************************************************)

\* The program starts in the inductive invariant.
LEMMA InitIInv == SystemInit => IInv
<1> SUFFICES ASSUME SystemInit PROVE IInv
    OBVIOUS
<1> USE DEF SystemInit, TableInit, ProbesInit, RotatorInit, AdminInit
<1>1. TableTypeOK /\ IsFiniteSet(rows)
    BY TableAssumption, FS_EmptySet DEF TableTypeOK
<1>2. ProbesTypeOK
    BY DEF ProbesTypeOK, Counters, Zero
<1>3. RotatorTypeOK
    <2>1. snap \in Snapshot /\ unchecked \in 0 .. NoProxyWait
        BY RotatorAssumption DEF Snapshot
    <2>2. tick \in BOOLEAN
        OBVIOUS
    <2>3. advance \in [Callers -> {"out", "waiting", "listed"}]
        OBVIOUS
    <2> QED
        BY <2>1, <2>2, <2>3 DEF RotatorTypeOK
<1>4. AdminTypeOK
    BY DEF AdminTypeOK
<1>5. HeldRows = {}
    BY HeldJobsMembers, HeldRowsMembers DEF HasProxy, Passes
<1>6. TableInv /\ KnownIds /\ IdentityStable /\ CutMeansEnded
    BY <1>5 DEF TableInv, KnownIds, IdentityStable, CutMeansEnded
<1> QED
    BY <1>1, <1>2, <1>3, <1>4, <1>6 DEF IInv, Types, SystemTypeOK

\* Every step, and every stutter, keeps it.
LEMMA StepIInv == IInv /\ [SystemNext]_systemVars => IInv'
<1> SUFFICES ASSUME IInv, [SystemNext]_systemVars PROVE IInv'
    OBVIOUS
<1>1. CASE SystemNext
    <2>1. SystemTypeOK
        BY DEF IInv, Types
    <2>2. Types'
        BY <1>1, NextTypes DEF IInv
    <2>3. TableInv' /\ KnownIds' /\ IdentityStable'
        BY <1>1, <2>1, NextTableStep, NextHolds, HeldRowsType, IdentityKept
           DEF IInv, SystemTypeOK, KnownIds, IdentityStable
    <2>4. CutMeansEnded'
        BY <1>1, <2>1, NextCut DEF IInv
    <2> QED
        BY <2>2, <2>3, <2>4 DEF IInv
<1>2. CASE UNCHANGED systemVars
    <2> USE <1>2 DEF systemVars, tableVars, probeVars, rotatorVars, adminVars
    <2>1. Types'
        BY DEF IInv, Types, SystemTypeOK, TableTypeOK, ProbesTypeOK, RotatorTypeOK, AdminTypeOK
    <2>2. HeldRows' = HeldRows
        BY DEF HeldRows, HeldJobs, HasProxy
    <2>3. TableInv' /\ KnownIds' /\ IdentityStable' /\ CutMeansEnded'
        BY <2>2 DEF IInv, TableInv, KnownIds, IdentityStable, CutMeansEnded
    <2> QED
        BY <2>1, <2>3 DEF IInv
<1> QED
    BY <1>1, <1>2

\* The inductive invariant holds throughout.
THEOREM Invariance == SystemSpec => []IInv
  BY InitIInv, StepIInv, PTL DEF SystemSpec

\* Every variable keeps its type, in any number of passes, admins and restarts.
THEOREM TypeCorrect == SystemSpec => []SystemTypeOK
<1>1. IInv => SystemTypeOK
    BY DEF IInv, Types
<1> QED
    BY <1>1, Invariance, PTL

\* The table never holds an endpoint twice nor two rows with one id, whichever
\* workers of whichever passes upsert at once (store.go:131-153).
THEOREM NoDuplicates == SystemSpec => []TableInv
<1>1. IInv => TableInv
    BY DEF IInv
<1> QED
    BY <1>1, Invariance, PTL

\* A row that a pass, the rotator or a browser read earlier is still the row its
\* id names, or there is no such row any more (retester.go:127, server.go:256).
THEOREM IdentitiesStable == SystemSpec => []IdentityStable
<1>1. IInv => IdentityStable
    BY DEF IInv
<1> QED
    BY <1>1, Invariance, PTL

\* Only a failed retest of a row or a user's tick on it takes it away, and only
\* a successful test brings a proxy in, whatever contexts end meanwhile
\* (fetcher.go:154-192, retester.go:113-158, server.go:247).
THEOREM ChangesJustified == SystemSpec => PoolChangesJustified
<1>1. IInv /\ [SystemNext]_systemVars => [Justified]_systemVars
    <2> SUFFICES ASSUME IInv, SystemNext PROVE Justified
        OBVIOUS
    <2>1. UNCHANGED tableVars => Justified
        BY DEF tableVars, Justified
    <2>2. ASSUME NEW p \in Passes, NEW w \in workers[p], RecordUsable(p, w) PROVE Justified
        <3>1. \A r \in rows' \ rows : r.ep = w.job.ep
            BY <2>2 DEF RecordUsable, UpsertUsableProxy, tableVars
        <3>2. rows \subseteq rows'
            BY <2>2 DEF RecordUsable, UpsertUsableProxy, tableVars
        <3> QED
            BY <2>2, <3>1, <3>2 DEF RecordUsable, MayEnter, Justified
    <2>3. ASSUME NEW p \in Passes, NEW w \in workers[p], RecordFailed(p, w) PROVE Justified
        <3>1. p \in Retesters /\ w.verdict = "bad"
            BY <2>3 DEF RecordFailed, StatementRuns, IInv, CutMeansEnded
        <3>2. w.job \in HeldRows
            BY <3>1, HeldJobsMembers, HeldRowsMembers
        <3>3. \A r \in rows \ rows' : r = w.job
            BY <2>3, <3>2 DEF RecordFailed, DeleteByIDs, IInv, IdentityStable
        <3>4. rows' \subseteq rows
            BY <2>3 DEF RecordFailed, DeleteByIDs
        <3> QED
            BY <3>1, <3>3, <3>4 DEF MayLeave, Justified
    <2>4. ASSUME NEW a \in Admins, DeleteTicked(a) PROVE Justified
        <3>1. ticked[a] \subseteq HeldRows
            BY HeldRowsMembers
        <3>2. \A r \in rows \ rows' : r \in ticked[a]
            BY <2>4, <3>1 DEF DeleteTicked, DeleteByIDs, IInv, IdentityStable
        <3>3. rows' \subseteq rows
            BY <2>4 DEF DeleteTicked, DeleteByIDs
        <3> QED
            BY <3>2, <3>3 DEF MayLeave, Justified
    <2>5. CASE ProbesNext
        BY <2>1, <2>2, <2>3, <2>5
           DEF ProbesNext, PassStep, WorkerStep, FetchOnce, RetestOnce, Launch, TestUpstream,
               DiscardCandidate, StatementFails, FinishPass, EndContext
    <2>6. CASE RotatorStep
        BY <2>1, <2>6 DEF RotatorStep, AdvanceStep, AdvanceList, AdvanceFails,
                          AdvancePublish, LoopTick, Second
    <2>7. ASSUME NEW a \in Admins, AdminStep(a) PROVE Justified
        BY <2>1, <2>4, <2>7 DEF AdminStep, TickRow, RotateDeletedExit, AnswerDelete,
                                RotateNow, AdminAdvance
    <2>8. CASE Restart
        BY <2>1, <2>8 DEF Restart
    <2> QED
        BY <2>5, <2>6, <2>7, <2>8 DEF SystemNext
<1> QED
    BY <1>1, Invariance, PTL DEF SystemSpec, PoolChangesJustified

=============================================================================
