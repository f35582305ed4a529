----------------------------- MODULE ProbesProofs -----------------------------
(***************************************************************************)
(* Theorems about Probes, for any number of passes, jobs and workers.  The *)
(* counters of a pass agree with its workers because a job is launched     *)
(* once: no two workers of a pass have the same one, and none has one that *)
(* is still to be launched.                                                *)
(***************************************************************************)
EXTENDS Probes, FiniteSetTheorems, TLAPS

\* A pass has a finite table, list and set of workers.
Finite == /\ IsFiniteSet(rows)
          /\ \A p \in Passes : IsFiniteSet(todo[p]) /\ IsFiniteSet(workers[p])

\* A job is launched once.
LaunchedOnce == \A p \in Passes :
    /\ \A v, w \in workers[p] : v.job = w.job => v = w
    /\ \A w \in workers[p] : w.job \notin todo[p]

\* Every job is counted where it is.
Counted == \A p \in Passes :
    /\ result[p].tested + Cardinality(todo[p]) = result[p].total
    /\ result[p].kept + result[p].dropped + result[p].errors + Cardinality(workers[p])
           = result[p].tested

\* Between passes there is nothing.
Resting == \A p \in Passes : p \notin running => /\ todo[p] = {} /\ workers[p] = {}
                                                 /\ result[p] = Zero

CountInv == TableTypeOK /\ ProbesTypeOK /\ Finite /\ LaunchedOnce /\ Counted /\ Resting

\* A test is cut short only by the end of its pass's context, which is not
\* taken back while the pass has workers.
CutMeansEnded == \A p \in Passes : \A w \in workers[p] : w.verdict = "cut" => ended[p]

\* What the passes hold is identified by id, and ids are not given out twice.
IdentityInv == /\ TableInv
               /\ \A h \in HeldJobs : h.id <= lastID
               /\ \A h \in HeldJobs, r \in rows : h.id = r.id => h = r

JustifiedInv == TableTypeOK /\ ProbesTypeOK /\ IdentityInv /\ CutMeansEnded

-----------------------------------------------------------------------------
(***************************************************************************)
(* Types                                                                   *)
(***************************************************************************)

\* The three things a step does to the table.
TableStep == \/ UNCHANGED tableVars
             \/ \E ids : DeleteByIDs(ids)
             \/ \E e \in Endpoints : UpsertUsableProxy(e)

LEMMA TableStepTypes ==
    ASSUME TableTypeOK, IsFiniteSet(rows), TableStep
    PROVE  TableTypeOK' /\ IsFiniteSet(rows')
<1>1. CASE UNCHANGED tableVars
    BY <1>1 DEF tableVars, TableTypeOK
<1>2. ASSUME NEW ids, DeleteByIDs(ids) PROVE TableTypeOK' /\ IsFiniteSet(rows')
    <2>1. rows' \subseteq rows
        BY <1>2 DEF DeleteByIDs
    <2> QED
        BY <1>2, <2>1, FS_Subset DEF DeleteByIDs, TableTypeOK
<1>3. ASSUME NEW e \in Endpoints, UpsertUsableProxy(e)
      PROVE  TableTypeOK' /\ IsFiniteSet(rows')
    <2>1. CASE UNCHANGED tableVars
        BY <2>1 DEF tableVars, TableTypeOK
    <2>2. CASE rows' = rows \cup {[id |-> NextID, ep |-> e]} /\ lastID' = NextID
               /\ NextID <= MaxID
        <3>1. NextID \in Nat \ {0} /\ NextID \in 0 .. MaxID
            BY <2>2, TableAssumption DEF TableTypeOK, NextID
        <3>2. [id |-> NextID, ep |-> e] \in Row
            BY <3>1 DEF Row
        <3> QED
            BY <2>2, <3>1, <3>2, FS_AddElement DEF TableTypeOK
    <2> QED
        BY <1>3, <2>1, <2>2 DEF UpsertUsableProxy
<1> QED
    BY <1>1, <1>2, <1>3 DEF TableStep

\* The jobs of a fetch are rows of the model's type, finitely many.
LEMMA CandidatesFinite ==
    ASSUME NEW n \in Nat, NEW cand \in [1 .. n -> Endpoints]
    PROVE  LET jobs == {[id |-> i, ep |-> cand[i]] : i \in 1 .. n}
           IN  jobs \subseteq Row /\ IsFiniteSet(jobs)
<1> DEFINE jobs == {[id |-> i, ep |-> cand[i]] : i \in 1 .. n}
           nth == [i \in 1 .. n |-> [id |-> i, ep |-> cand[i]]]
<1>1. jobs \subseteq Row
    BY DEF Row
<1>2. nth \in [1 .. n -> jobs] /\ \A j \in jobs : \E i \in 1 .. n : nth[i] = j
    OBVIOUS
<1>3. nth \in Surjection(1 .. n, jobs)
    BY <1>2 DEF Surjection
<1>4. ExistsSurjection(1 .. n, jobs)
    BY <1>3 DEF ExistsSurjection
<1> QED
    BY <1>1, <1>4, FS_NatSurjection

LEMMA StartPassTypes ==
    ASSUME ProbesTypeOK, NEW p \in Passes, NEW jobs, jobs \subseteq Row,
           IsFiniteSet(jobs), StartPass(p, jobs)
    PROVE  ProbesTypeOK'
<1>1. Cardinality(jobs) \in Nat
    BY FS_CardinalityType
<1>2. result' \in [Passes -> Counters]
    BY <1>1 DEF StartPass, ProbesTypeOK, Counters
<1> QED
    BY <1>2 DEF StartPass, ProbesTypeOK

LEMMA ReturnTypes ==
    ASSUME ProbesTypeOK, NEW p \in Passes, NEW w,
           NEW counter \in {"kept", "dropped", "errors"}, Return(p, w, counter)
    PROVE  ProbesTypeOK'
<1>1. workers' \in [Passes -> SUBSET Worker]
    BY DEF Return, ProbesTypeOK
<1>2. result[p] \in Counters
    BY DEF ProbesTypeOK
<1>3. [result[p] EXCEPT ![counter] = @ + 1] \in Counters
    BY <1>2 DEF Counters
<1>4. result' \in [Passes -> Counters]
    BY <1>3 DEF Return, ProbesTypeOK
<1> QED
    BY <1>1, <1>4 DEF Return, ProbesTypeOK

LEMMA WorkerStepTypes ==
    ASSUME ProbesTypeOK, NEW p \in Passes, NEW w \in workers[p],
           \/ TestUpstream(p, w)
           \/ RecordUsable(p, w)
           \/ RecordFailed(p, w)
           \/ DiscardCandidate(p, w)
           \/ StatementFails(p, w)
    PROVE  ProbesTypeOK'
<1>1. CASE TestUpstream(p, w)
    <2>1. w \in Worker
        BY DEF ProbesTypeOK
    <2>2. \A v \in Verdicts : [w EXCEPT !.verdict = v] \in Worker
        BY <2>1 DEF Worker
    <2>3. PICK v \in Verdicts :
             workers' = [workers EXCEPT ![p] =
                            (@ \ {w}) \cup {[w EXCEPT !.verdict = v]}]
        BY <1>1 DEF TestUpstream, Verdicts
    <2>4. workers' \in [Passes -> SUBSET Worker]
        BY <2>2, <2>3 DEF ProbesTypeOK
    <2> QED
        BY <1>1, <2>4 DEF TestUpstream, ProbesTypeOK
<1>2. CASE RecordUsable(p, w)
    BY <1>2, ReturnTypes DEF RecordUsable, StatementReturns
<1>3. CASE RecordFailed(p, w)
    BY <1>3, ReturnTypes DEF RecordFailed, StatementReturns
<1>4. CASE DiscardCandidate(p, w)
    BY <1>4, ReturnTypes DEF DiscardCandidate
<1>5. CASE StatementFails(p, w)
    BY <1>5, ReturnTypes DEF StatementFails
<1> QED
    BY <1>1, <1>2, <1>3, <1>4, <1>5

LEMMA ProbesNextTypes ==
    ASSUME TableTypeOK, IsFiniteSet(rows), ProbesTypeOK, ProbesNext
    PROVE  ProbesTypeOK'
<1>1. ASSUME NEW f \in Fetchers, FetchOnce(f) PROVE ProbesTypeOK'
    <2>1. PICK n \in 1 .. MaxCandidates : \E cand \in [1 .. n -> Endpoints] :
              StartPass(f, {[id |-> i, ep |-> cand[i]] : i \in 1 .. n})
        BY <1>1 DEF FetchOnce
    <2>2. PICK cand \in [1 .. n -> Endpoints] :
              StartPass(f, {[id |-> i, ep |-> cand[i]] : i \in 1 .. n})
        BY <2>1
    <2>3. n \in Nat
        BY ProbesAssumption
    <2> QED
        BY <2>2, <2>3, CandidatesFinite, StartPassTypes DEF Passes
<1>2. ASSUME NEW r \in Retesters, RetestOnce(r) PROVE ProbesTypeOK'
    BY <1>2, StartPassTypes DEF RetestOnce, TableTypeOK, Passes
<1>3. ASSUME NEW p \in Passes, Launch(p) PROVE ProbesTypeOK'
    <2>1. PICK j \in todo[p] :
             /\ todo' = [todo EXCEPT ![p] = @ \ {j}]
             /\ workers' = [workers EXCEPT ![p] = @ \cup {[job |-> j, verdict |-> "testing"]}]
        BY <1>3 DEF Launch
    <2>2. [job |-> j, verdict |-> "testing"] \in Worker
        BY DEF ProbesTypeOK, Worker, Verdicts
    <2>3. todo' \in [Passes -> SUBSET Row] /\ workers' \in [Passes -> SUBSET Worker]
        BY <2>1, <2>2 DEF ProbesTypeOK
    <2>4. result' \in [Passes -> Counters]
        BY <1>3 DEF Launch, ProbesTypeOK, Counters
    <2> QED
        BY <1>3, <2>3, <2>4 DEF Launch, ProbesTypeOK
<1>4. ASSUME NEW p \in Passes, WorkerStep(p) PROVE ProbesTypeOK'
    BY <1>4, WorkerStepTypes DEF WorkerStep
<1>5. ASSUME NEW p \in Passes, FinishPass(p) PROVE ProbesTypeOK'
    BY <1>5 DEF FinishPass, WaitOver, ProbesTypeOK, Counters, Zero
<1>6. ASSUME NEW p \in Passes, EndContext(p) PROVE ProbesTypeOK'
    BY <1>6 DEF EndContext, ProbesTypeOK
<1> QED
    BY <1>1, <1>2, <1>3, <1>4, <1>5, <1>6 DEF ProbesNext, PassStep

-----------------------------------------------------------------------------
(***************************************************************************)
(* Counters                                                                *)
(***************************************************************************)

\* The table of a step of the passes.
LEMMA ProbesTableStep ==
    ASSUME ProbesTypeOK, ProbesNext
    PROVE  TableStep
<1>1. ASSUME NEW p \in Passes, NEW w \in workers[p], WorkerStep(p) PROVE TableStep
  <2>1. \A v \in workers[p] : v.job.ep \in Endpoints
      BY DEF ProbesTypeOK, Worker, Row
  <2> QED
      BY <1>1, <2>1 DEF WorkerStep, TestUpstream, RecordUsable, RecordFailed, DiscardCandidate,
         StatementFails, TableStep
<1>2. ASSUME NEW p \in Passes, PassStep(p) PROVE TableStep
    BY <1>1, <1>2 DEF PassStep, Launch, FinishPass, TableStep, WorkerStep
<1> QED
    BY <1>2 DEF ProbesNext, FetchOnce, RetestOnce, EndContext, TableStep

\* What is to be shown of the pass that takes a step.
LEMMA StartCounts ==
    ASSUME CountInv, NEW p \in Passes, NEW jobs, jobs \subseteq Row, IsFiniteSet(jobs),
           StartPass(p, jobs), IsFiniteSet(rows')
    PROVE  Finite' /\ LaunchedOnce' /\ Counted' /\ Resting'
<1> USE DEF CountInv, ProbesTypeOK
<1>1. /\ workers[p] = {} /\ workers' = workers /\ todo' = [todo EXCEPT ![p] = jobs]
      /\ p \in running' /\ running \subseteq running'
    BY DEF StartPass, Resting
<1>2. result' = [result EXCEPT ![p] = [Zero EXCEPT !.total = Cardinality(jobs)]]
    BY DEF StartPass, Resting
<1>3. Cardinality(jobs) \in Nat /\ Cardinality(workers[p]) = 0
    BY <1>1, FS_CardinalityType, FS_EmptySet
<1>4. Finite'
    BY <1>1 DEF Finite
<1>5. LaunchedOnce'
    BY <1>1 DEF LaunchedOnce
<1>6. Counted'
  <2>1. ASSUME NEW q \in Passes, q # p
        PROVE  result'[q] = result[q] /\ todo'[q] = todo[q] /\ workers'[q] = workers[q]
      BY <1>1, <1>2, <2>1
  <2>2. result'[p] = [Zero EXCEPT !.total = Cardinality(jobs)] /\ todo'[p] = jobs
      BY <1>1, <1>2
  <2>3. /\ result'[p].tested = 0 /\ result'[p].total = Cardinality(jobs)
        /\ result'[p].kept = 0 /\ result'[p].dropped = 0 /\ result'[p].errors = 0
      BY <2>2 DEF Zero
  <2>4. Cardinality(workers'[p]) = 0
      BY <1>1, <1>3
  <2> SUFFICES ASSUME NEW q \in Passes
               PROVE  /\ result'[q].tested + Cardinality(todo'[q]) = result'[q].total
                      /\ result'[q].kept + result'[q].dropped + result'[q].errors
                            + Cardinality(workers'[q]) = result'[q].tested
      BY DEF Counted
  <2>5. CASE q = p
    <3>1. Cardinality(todo'[p]) = Cardinality(jobs)
        BY <2>2
    <3>2. 0 + Cardinality(jobs) = Cardinality(jobs) /\ 0 + 0 + 0 + 0 = 0
        BY <1>3
    <3> QED
        BY <2>3, <2>4, <2>5, <3>1, <3>2
  <2>6. CASE q # p
      BY <2>1, <2>6 DEF Counted
  <2> QED
      BY <2>5, <2>6
<1>7. Resting'
    BY <1>1, <1>2 DEF Resting, StartPass
<1> QED
    BY <1>4, <1>5, <1>6, <1>7

LEMMA LaunchCounts ==
    ASSUME CountInv, NEW p \in Passes, Launch(p)
    PROVE  Finite' /\ LaunchedOnce' /\ Counted' /\ Resting'
<1> USE DEF CountInv, ProbesTypeOK
<1>1. PICK j \in todo[p] :
          /\ todo' = [todo EXCEPT ![p] = @ \ {j}]
          /\ workers' = [workers EXCEPT ![p] = @ \cup {[job |-> j, verdict |-> "testing"]}]
    BY DEF Launch
<1> DEFINE w == [job |-> j, verdict |-> "testing"]
<1>2. w \notin workers[p] /\ \A v \in workers[p] : v.job # j
    BY DEF LaunchedOnce
<1>3. IsFiniteSet(todo[p]) /\ IsFiniteSet(workers[p])
    BY DEF Finite
<1>4. /\ IsFiniteSet(todo'[p]) /\ Cardinality(todo'[p]) = Cardinality(todo[p]) - 1
      /\ IsFiniteSet(workers'[p]) /\ Cardinality(workers'[p]) = Cardinality(workers[p]) + 1
    BY <1>1, <1>2, <1>3, FS_AddElement, FS_RemoveElement
<1>5. Finite'
    BY <1>1, <1>4 DEF Finite, Launch, tableVars
<1>6. LaunchedOnce'
    BY <1>1, <1>2 DEF LaunchedOnce
<1>7. result[p] \in Counters /\ Cardinality(todo[p]) \in Nat /\ Cardinality(workers[p]) \in Nat
    BY <1>3, FS_CardinalityType
<1>8. Counted'
  <2> SUFFICES ASSUME NEW q \in Passes
               PROVE  /\ result'[q].tested + Cardinality(todo'[q]) = result'[q].total
                      /\ result'[q].kept + result'[q].dropped + result'[q].errors
                            + Cardinality(workers'[q]) = result'[q].tested
      BY DEF Counted
  <2>1. CASE q # p
      BY <1>1, <2>1 DEF Counted, Launch
  <2>2. CASE q = p
    <3>1. result'[p] = [result[p] EXCEPT !.tested = @ + 1]
        BY DEF Launch
    <3>2. /\ result'[p].tested = result[p].tested + 1 /\ result'[p].total = result[p].total
          /\ result'[p].kept = result[p].kept /\ result'[p].dropped = result[p].dropped
          /\ result'[p].errors = result[p].errors
        BY <1>7, <3>1 DEF Counters
    <3> QED
        BY <1>4, <1>7, <2>2, <3>2 DEF Counted, Counters
  <2> QED
      BY <2>1, <2>2
<1>9. Resting'
    BY <1>1 DEF Resting, Launch
<1> QED
    BY <1>5, <1>6, <1>8, <1>9

LEMMA TestCounts ==
    ASSUME CountInv, NEW p \in Passes, NEW w \in workers[p], TestUpstream(p, w)
    PROVE  Finite' /\ LaunchedOnce' /\ Counted' /\ Resting'
<1> USE DEF CountInv, ProbesTypeOK
<1>1. PICK v \in Verdicts :
          workers' = [workers EXCEPT ![p] = (@ \ {w}) \cup {[w EXCEPT !.verdict = v]}]
    BY DEF TestUpstream, Verdicts
<1> DEFINE x == [w EXCEPT !.verdict = v]
<1>2. x.job = w.job
    BY DEF Worker
<1>3. x \notin workers[p] \ {w} /\ \A u \in workers[p] \ {w} : u.job # x.job
    BY <1>2 DEF LaunchedOnce
<1> HIDE DEF x
<1>4. IsFiniteSet(workers[p])
    BY DEF Finite
<1>5. workers' = [workers EXCEPT ![p] = (workers[p] \ {w}) \cup {x}]
    BY <1>1 DEF x
<1>6. IsFiniteSet(workers'[p]) /\ Cardinality(workers'[p]) = Cardinality(workers[p])
  <2>1. /\ IsFiniteSet(workers[p] \ {w})
        /\ Cardinality(workers[p] \ {w}) = Cardinality(workers[p]) - 1
      BY <1>4, FS_RemoveElement
  <2>2. Cardinality(workers[p]) \in Nat
      BY <1>4, FS_CardinalityType
  <2>3. LET W == workers[p] \ {w}
        IN  IsFiniteSet(W \cup {x}) /\ Cardinality(W \cup {x}) = Cardinality(W) + 1
      BY <1>3, <2>1, FS_AddElement
  <2>4. workers'[p] = (workers[p] \ {w}) \cup {x}
      BY <1>5
  <2> QED
      BY <2>1, <2>2, <2>3, <2>4
<1>7. UNCHANGED <<running, todo, result, rows>>
    BY DEF TestUpstream, tableVars
<1>8. LaunchedOnce'
    BY <1>2, <1>3, <1>5, <1>7 DEF LaunchedOnce
<1>9. Finite' /\ Counted'
    BY <1>5, <1>6, <1>7 DEF Finite, Counted
<1>10. Resting'
    BY <1>5, <1>7 DEF Resting
<1> QED
    BY <1>8, <1>9, <1>10

LEMMA ReturnCounts ==
    ASSUME CountInv, NEW p \in Passes, NEW w \in workers[p],
           NEW counter \in {"kept", "dropped", "errors"}, Return(p, w, counter),
           IsFiniteSet(rows')
    PROVE  Finite' /\ LaunchedOnce' /\ Counted' /\ Resting'
<1> USE DEF CountInv, ProbesTypeOK
<1>1. /\ workers' = [workers EXCEPT ![p] = @ \ {w}]
      /\ result' = [result EXCEPT ![p][counter] = @ + 1]
      /\ UNCHANGED <<running, todo>>
    BY DEF Return
<1>2. IsFiniteSet(workers[p])
    BY DEF Finite
<1>3. IsFiniteSet(workers'[p]) /\ Cardinality(workers'[p]) = Cardinality(workers[p]) - 1
    BY <1>1, <1>2, FS_RemoveElement
<1>4. Cardinality(workers[p]) \in Nat /\ result[p] \in Counters
    BY <1>2, FS_CardinalityType
<1>5. Finite'
    BY <1>1, <1>3 DEF Finite
<1>6. LaunchedOnce'
    BY <1>1 DEF LaunchedOnce
<1>7. Counted'
  <2> SUFFICES ASSUME NEW q \in Passes
               PROVE  /\ result'[q].tested + Cardinality(todo'[q]) = result'[q].total
                      /\ result'[q].kept + result'[q].dropped + result'[q].errors
                            + Cardinality(workers'[q]) = result'[q].tested
      BY DEF Counted
  <2>1. CASE q # p
      BY <1>1, <2>1 DEF Counted
  <2>2. CASE q = p
    <3>1. result'[p] = [result[p] EXCEPT ![counter] = @ + 1]
        BY <1>1
    <3>2. /\ result'[p].tested = result[p].tested /\ result'[p].total = result[p].total
          /\ result'[p].kept + result'[p].dropped + result'[p].errors
                = result[p].kept + result[p].dropped + result[p].errors + 1
        BY <1>4, <3>1 DEF Counters
    <3>3. /\ result[p].tested + Cardinality(todo[p]) = result[p].total
          /\ result[p].kept + result[p].dropped + result[p].errors + Cardinality(workers[p])
                = result[p].tested
        BY DEF Counted
    <3>4. /\ result[p].kept \in Nat /\ result[p].dropped \in Nat /\ result[p].errors \in Nat
        BY <1>4 DEF Counters
    <3> QED
        BY <1>1, <1>3, <1>4, <2>2, <3>2, <3>3, <3>4
  <2> QED
      BY <2>1, <2>2
<1>8. Resting'
    BY <1>1 DEF Resting
<1> QED
    BY <1>5, <1>6, <1>7, <1>8

\* Every step of the passes keeps the counts.
LEMMA ProbesNextCounts ==
    ASSUME CountInv, ProbesNext
    PROVE  CountInv'
<1>1. TableTypeOK' /\ IsFiniteSet(rows') /\ ProbesTypeOK'
    BY ProbesTableStep, TableStepTypes, ProbesNextTypes DEF CountInv, Finite
<1> DEFINE Kept == Finite' /\ LaunchedOnce' /\ Counted' /\ Resting'
<1> USE DEF CountInv
<1>2. ASSUME NEW f \in Fetchers, FetchOnce(f) PROVE Kept
  <2>1. PICK n \in 1 .. MaxCandidates : \E cand \in [1 .. n -> Endpoints] :
            StartPass(f, {[id |-> i, ep |-> cand[i]] : i \in 1 .. n})
      BY <1>2 DEF FetchOnce
  <2>2. PICK cand \in [1 .. n -> Endpoints] :
            StartPass(f, {[id |-> i, ep |-> cand[i]] : i \in 1 .. n})
      BY <2>1
  <2>3. n \in Nat
      BY ProbesAssumption
  <2> QED
      BY <1>1, <2>2, <2>3, CandidatesFinite, StartCounts DEF Passes
<1>3. ASSUME NEW r \in Retesters, RetestOnce(r) PROVE Kept
    BY <1>1, <1>3, StartCounts DEF RetestOnce, TableTypeOK, Passes, Finite
<1>4. ASSUME NEW p \in Passes, NEW w \in workers[p],
             \/ TestUpstream(p, w) \/ RecordUsable(p, w) \/ RecordFailed(p, w)
             \/ DiscardCandidate(p, w) \/ StatementFails(p, w)
      PROVE  Kept
  <2>1. CASE TestUpstream(p, w)
      BY <2>1, TestCounts
  <2>2. ASSUME NEW counter \in {"kept", "dropped", "errors"}, Return(p, w, counter) PROVE Kept
      BY <1>1, <2>2, ReturnCounts
  <2> QED
      BY <1>4, <2>1, <2>2
         DEF RecordUsable, RecordFailed, DiscardCandidate, StatementFails, StatementReturns
<1>5. ASSUME NEW p \in Passes, FinishPass(p) PROVE Kept
  <2>1. /\ todo[p] = {} /\ workers[p] = {} /\ UNCHANGED <<todo, workers, rows>>
        /\ running' = running \ {p} /\ result' = [result EXCEPT ![p] = Zero]
      BY <1>5 DEF FinishPass, WaitOver, tableVars
  <2>2. Cardinality(todo[p]) = 0 /\ Cardinality(workers[p]) = 0
      BY <2>1, FS_EmptySet
  <2>3. Finite' /\ LaunchedOnce' /\ Resting'
      BY <2>1 DEF Finite, LaunchedOnce, Resting, ProbesTypeOK
  <2>4. ASSUME NEW q \in Passes PROVE result'[q] = IF q = p THEN Zero ELSE result[q]
      BY <2>1 DEF ProbesTypeOK
  <2>5. ASSUME NEW q \in Passes
        PROVE  /\ result'[q].tested + Cardinality(todo'[q]) = result'[q].total
               /\ result'[q].kept + result'[q].dropped + result'[q].errors
                     + Cardinality(workers'[q]) = result'[q].tested
    <3>1. CASE q = p
        BY <2>1, <2>2, <2>4, <3>1 DEF Zero
    <3>2. CASE q # p
      <4>1. result'[q] = result[q] /\ todo'[q] = todo[q] /\ workers'[q] = workers[q]
          BY <2>1, <2>4, <3>2
      <4> QED
          BY <4>1 DEF Counted
    <3> QED
        BY <3>1, <3>2
  <2>6. Counted'
      BY <2>5 DEF Counted
  <2> QED
      BY <2>3, <2>6
<1>6. ASSUME NEW p \in Passes, EndContext(p) PROVE Kept
    BY <1>6 DEF EndContext, Finite, LaunchedOnce, Counted, Resting, tableVars
<1> QED
    BY <1>1, <1>2, <1>3, <1>4, <1>5, <1>6, LaunchCounts DEF ProbesNext, PassStep, WorkerStep

-----------------------------------------------------------------------------
(***************************************************************************)
(* Who holds which row, and which tests were cut short                     *)
(***************************************************************************)

\* What the retest passes hold, member by member, in a state and in the next.
LEMMA HeldJobsMembers ==
    /\ \A h : h \in HeldJobs <=> \E r \in Retesters :
                 h \in todo[r] \/ \E w \in workers[r] : h = w.job
    /\ \A h : h \in HeldJobs' <=> \E r \in Retesters :
                 h \in todo'[r] \/ \E w \in workers'[r] : h = w.job
  BY DEF HeldJobs

\* All that the retest passes hold is a row of the table's type.
LEMMA HeldJobsType == ASSUME ProbesTypeOK PROVE HeldJobs \subseteq Row
<1> SUFFICES ASSUME NEW h \in HeldJobs PROVE h \in Row
    OBVIOUS
<1>1. PICK r \in Retesters : h \in todo[r] \/ \E w \in workers[r] : h = w.job
    BY HeldJobsMembers
<1>2. todo[r] \in SUBSET Row /\ workers[r] \in SUBSET Worker
    BY DEF ProbesTypeOK, Passes
<1> QED
    BY <1>1, <1>2 DEF Worker

\* The heart of the argument, whoever holds rows: a step that does one thing to
\* the table, and after which only rows are held that were held or stored
\* before, keeps the table free of duplicates and the held rows identified.
LEMMA IdentityKept ==
    ASSUME TableTypeOK, TableInv, TableStep,
           NEW Held \in SUBSET Row,
           \A h \in Held : h.id <= lastID,
           \A h \in Held, r \in rows : h.id = r.id => h = r,
           NEW HeldNext \in SUBSET (Held \cup rows)
    PROVE  /\ TableInv'
           /\ \A h \in HeldNext : h.id <= lastID'
           /\ \A h \in HeldNext, r \in rows' : h.id = r.id => h = r
<1> DEFINE H == Held \cup rows
           Goal == /\ TableInv'
                   /\ \A h \in HeldNext : h.id <= lastID'
                   /\ \A h \in HeldNext, r \in rows' : h.id = r.id => h = r
<1>1. H \subseteq Row /\ lastID \in Nat
    BY DEF TableTypeOK
<1>2. \A h \in H : h.id <= lastID
    BY DEF TableInv
<1>3. \A h \in H, r \in rows : h.id = r.id => h = r
    BY DEF TableInv
<1>4. rows \subseteq H /\ HeldNext \subseteq H
    OBVIOUS
<1> HIDE DEF H
<1>5. ASSUME rows' \subseteq rows, lastID' = lastID PROVE Goal
    <2>1. TableInv'
        BY <1>5 DEF TableInv
    <2> QED
        BY <1>2, <1>3, <1>4, <1>5, <2>1
<1>6. ASSUME NEW e \in Endpoints, ~ Stored(e),
             rows' = rows \cup {[id |-> NextID, ep |-> e]}, lastID' = NextID
      PROVE  Goal
    <2> DEFINE n == [id |-> NextID, ep |-> e]
    <2>1. n.id = lastID + 1 /\ n.ep = e /\ lastID' = lastID + 1
        BY <1>6 DEF NextID
    <2>2. \A h \in H : h.id \in Nat /\ h.id < n.id
        BY <1>1, <1>2, <2>1 DEF Row
    <2>3. \A r \in rows : r.ep # n.ep
        BY <2>1, <1>6 DEF Stored
    <2>4. rows' = rows \cup {n}
        BY <1>6
    <2> HIDE DEF n
    <2>5. TableInv'
        <3>1. \A r, s \in rows' : r.ep = s.ep \/ r.id = s.id => r = s
            BY <1>4, <2>2, <2>3, <2>4 DEF TableInv
        <3>2. \A r \in rows' : r.id <= lastID'
            BY <1>1, <1>4, <2>1, <2>2, <2>4
        <3> QED
            BY <3>1, <3>2 DEF TableInv
    <2>6. \A h \in HeldNext : h.id <= lastID'
        BY <1>1, <1>4, <2>1, <2>2
    <2>7. \A h \in HeldNext, r \in rows' : h.id = r.id => h = r
        BY <1>3, <1>4, <2>2, <2>4
    <2> QED
        BY <2>5, <2>6, <2>7
<1> QED
    BY <1>5, <1>6 DEF TableStep, UpsertUsableProxy, DeleteByIDs, tableVars

\* A retest pass holds what it held, or what a new listing reads.
LEMMA ProbesNextHolds ==
    ASSUME ProbesTypeOK, ProbesNext
    PROVE  HeldJobs' \subseteq HeldJobs \cup rows
<1> DEFINE Keeps(r, h) == h \in todo[r] \/ \E w \in workers[r] : h = w.job
           KeepsNext(r, h) == h \in todo'[r] \/ \E w \in workers'[r] : h = w.job
<1> SUFFICES ASSUME NEW r \in Retesters, NEW h, KeepsNext(r, h)
             PROVE  Keeps(r, h) \/ h \in rows
    BY HeldJobsMembers
<1>1. r \in Passes /\ r \notin Fetchers
    BY ProbesAssumption DEF Passes
<1>2. ASSUME NEW f \in Fetchers, FetchOnce(f) PROVE Keeps(r, h)
    BY <1>1, <1>2 DEF FetchOnce, StartPass, ProbesTypeOK
<1>3. ASSUME NEW q \in Retesters, RetestOnce(q) PROVE Keeps(r, h) \/ h \in rows
    BY <1>1, <1>3 DEF RetestOnce, StartPass, ProbesTypeOK
<1>4. ASSUME NEW p \in Passes, Launch(p) PROVE Keeps(r, h)
    <2>1. PICK j \in todo[p] :
             /\ todo' = [todo EXCEPT ![p] = @ \ {j}]
             /\ workers' = [workers EXCEPT ![p] = @ \cup {[job |-> j, verdict |-> "testing"]}]
        BY <1>4 DEF Launch
    <2> QED
        BY <1>1, <2>1 DEF ProbesTypeOK
<1>5. ASSUME NEW p \in Passes, NEW w \in workers[p], TestUpstream(p, w) PROVE Keeps(r, h)
    <2>1. PICK v \in Verdicts :
             workers' = [workers EXCEPT ![p] = (@ \ {w}) \cup {[w EXCEPT !.verdict = v]}]
        BY <1>5 DEF TestUpstream, Verdicts
    <2>2. [w EXCEPT !.verdict = v].job = w.job
        BY DEF ProbesTypeOK, Worker
    <2>3. todo' = todo
        BY <1>5 DEF TestUpstream
    <2> QED
        BY <1>1, <2>1, <2>2, <2>3 DEF ProbesTypeOK
<1>6. ASSUME NEW p \in Passes, NEW w \in workers[p], NEW counter, Return(p, w, counter)
      PROVE  Keeps(r, h)
    BY <1>1, <1>6 DEF Return, ProbesTypeOK
<1>7. ASSUME NEW p \in Passes, WorkerStep(p) PROVE Keeps(r, h)
    BY <1>5, <1>6, <1>7
       DEF WorkerStep, RecordUsable, RecordFailed, StatementReturns, DiscardCandidate,
           StatementFails
<1>8. ASSUME NEW p \in Passes, FinishPass(p) \/ EndContext(p) PROVE Keeps(r, h)
    BY <1>8 DEF FinishPass, EndContext
<1> QED
    BY <1>2, <1>3, <1>4, <1>7, <1>8 DEF ProbesNext, PassStep

\* No step of a pass cuts a test short without its context having ended.
LEMMA ProbesNextCut == ASSUME ProbesTypeOK, CutMeansEnded, ProbesNext PROVE CutMeansEnded'
<1> USE DEF ProbesTypeOK, CutMeansEnded
<1>1. ASSUME NEW p \in Passes, NEW jobs, StartPass(p, jobs) PROVE CutMeansEnded'
    BY <1>1 DEF StartPass
<1>2. ASSUME NEW p \in Passes, Launch(p) PROVE CutMeansEnded'
    <2>1. PICK j \in todo[p] :
             workers' = [workers EXCEPT ![p] = @ \cup {[job |-> j, verdict |-> "testing"]}]
        BY <1>2 DEF Launch
    <2> QED
        BY <1>2, <2>1 DEF Launch
<1>3. ASSUME NEW p \in Passes, NEW w \in workers[p], TestUpstream(p, w)
      PROVE  CutMeansEnded'
    <2>1. PICK v \in IF ended[p] THEN {"bad", "cut"} ELSE {"ok", "bad"} :
             workers' = [workers EXCEPT ![p] = (@ \ {w}) \cup {[w EXCEPT !.verdict = v]}]
        BY <1>3 DEF TestUpstream
    <2>2. [w EXCEPT !.verdict = v].verdict = v
        BY DEF Worker
    <2> QED
        BY <1>3, <2>1, <2>2 DEF TestUpstream
<1>4. ASSUME NEW p \in Passes, NEW w \in workers[p], NEW counter, Return(p, w, counter)
      PROVE  CutMeansEnded'
    BY <1>4 DEF Return
<1>5. ASSUME NEW p \in Passes, WorkerStep(p) PROVE CutMeansEnded'
    BY <1>3, <1>4, <1>5
       DEF WorkerStep, RecordUsable, RecordFailed, StatementReturns, DiscardCandidate,
           StatementFails
<1>6. ASSUME NEW p \in Passes, FinishPass(p) PROVE CutMeansEnded'
    BY <1>6 DEF FinishPass, WaitOver
<1>7. ASSUME NEW p \in Passes, EndContext(p) PROVE CutMeansEnded'
    BY <1>7 DEF EndContext
<1> QED
    BY <1>1, <1>2, <1>5, <1>6, <1>7 DEF ProbesNext, PassStep, FetchOnce, RetestOnce, Passes

-----------------------------------------------------------------------------
(***************************************************************************)
(* Theorems                                                                *)
(***************************************************************************)

\* The invariant holds in every behaviour.
LEMMA CountInvariance == ProbesSpec => []CountInv
<1>1. TableProbesInit => CountInv
  <2> SUFFICES ASSUME TableProbesInit PROVE CountInv
      OBVIOUS
  <2> USE TableAssumption DEF TableProbesInit, TableInit, ProbesInit
  <2>1. TableTypeOK /\ ProbesTypeOK
      BY DEF TableTypeOK, ProbesTypeOK, Counters, Zero
  <2>2. Finite /\ LaunchedOnce /\ Resting
      BY FS_EmptySet DEF Finite, LaunchedOnce, Resting
  <2>3. Counted
      BY FS_EmptySet DEF Counted, Zero
  <2> QED
      BY <2>1, <2>2, <2>3 DEF CountInv
<1>2. CountInv /\ [ProbesNext]_probesVars => CountInv'
  <2>1. CASE UNCHANGED probesVars
      BY <2>1 DEF probesVars, probeVars, tableVars, CountInv, TableTypeOK, ProbesTypeOK, Finite,
         LaunchedOnce, Counted, Resting
  <2> QED
      BY <2>1, ProbesNextCounts
<1> QED
    BY <1>1, <1>2, PTL DEF ProbesSpec

\* The passes keep their types.
THEOREM PassTypes == ProbesSpec => []ProbesTypeOK
<1>1. CountInv => ProbesTypeOK
    BY DEF CountInv
<1> QED
    BY <1>1, CountInvariance, PTL

\* However its workers, statements and context fare, a result counts every job
\* of its pass once.
THEOREM ResultsComplete == ProbesSpec => []ResultsAddUp
<1>1. ASSUME CountInv, NEW p \in running, WaitOver(p)
      PROVE  /\ result[p].tested = result[p].total
             /\ result[p].kept + result[p].dropped + result[p].errors = result[p].total
  <2>1. p \in Passes /\ result[p] \in Counters
      BY <1>1 DEF CountInv, ProbesTypeOK
  <2>2. Cardinality(todo[p]) = 0 /\ Cardinality(workers[p]) = 0
      BY <1>1, FS_EmptySet DEF WaitOver
  <2> QED
      BY <1>1, <2>1, <2>2 DEF CountInv, Counted, Counters
<1>2. CountInv => ResultsAddUp
    BY <1>1 DEF ResultsAddUp
<1> QED
    BY <1>2, CountInvariance, PTL

\* What is needed to know why rows come and go holds in every behaviour.
LEMMA JustifiedInvariance == ProbesSpec => []JustifiedInv
<1>1. TableProbesInit => JustifiedInv
  <2> SUFFICES ASSUME TableProbesInit PROVE JustifiedInv
      OBVIOUS
  <2> USE TableAssumption DEF TableProbesInit, TableInit, ProbesInit
  <2>1. TableTypeOK /\ ProbesTypeOK
      BY DEF TableTypeOK, ProbesTypeOK, Counters, Zero
  <2>2. HeldJobs = {}
      BY HeldJobsMembers DEF Passes
  <2> QED
      BY <2>1, <2>2 DEF JustifiedInv, IdentityInv, TableInv, CutMeansEnded
<1>2. (JustifiedInv /\ Finite) /\ [ProbesNext]_probesVars => JustifiedInv'
  <2> SUFFICES ASSUME JustifiedInv, Finite, [ProbesNext]_probesVars PROVE JustifiedInv'
      OBVIOUS
  <2> USE DEF JustifiedInv
  <2>1. CASE ProbesNext
    <3>1. TableStep
        BY <2>1, ProbesTableStep
    <3>2. TableTypeOK' /\ ProbesTypeOK' /\ CutMeansEnded'
        BY <2>1, <3>1, TableStepTypes, ProbesNextTypes, ProbesNextCut DEF Finite
    <3>3. HeldJobs \in SUBSET Row
        BY HeldJobsType
    <3>4. IdentityInv'
        BY <2>1, <3>1, <3>3, ProbesNextHolds, IdentityKept DEF IdentityInv
    <3> QED
        BY <3>2, <3>4
  <2>2. CASE UNCHANGED probesVars
    <3> USE <2>2 DEF probesVars, probeVars, tableVars
    <3>1. HeldJobs' = HeldJobs
        BY DEF HeldJobs
    <3> QED
        BY <3>1 DEF TableTypeOK, ProbesTypeOK, IdentityInv, TableInv, CutMeansEnded
  <2> QED
      BY <2>1, <2>2
<1>3. CountInv => Finite
    BY DEF CountInv
<1> QED
    BY <1>1, <1>2, <1>3, CountInvariance, PTL DEF ProbesSpec

\* However many workers of however many passes upsert at once, no proxy is in
\* the table twice and no id names two rows.
THEOREM NoDuplicateRows == ProbesSpec => []TableInv
<1>1. JustifiedInv => TableInv
    BY DEF JustifiedInv, IdentityInv
<1> QED
    BY <1>1, JustifiedInvariance, PTL

\* A pass deletes by the id it listed, possibly long ago, and yet takes no row
\* whose own endpoint did not fail a test; and it brings in only what passed one.
THEOREM OnlyTestsChangeTable == ProbesSpec => TableChangesJustified
<1> DEFINE Changes ==
              /\ \A r \in rows \ rows' : \E p \in Retesters : \E w \in workers[p] :
                    w.job.ep = r.ep /\ w.verdict = "bad"
              /\ \A r \in rows' \ rows : \E p \in Passes : \E w \in workers[p] :
                    w.job.ep = r.ep /\ w.verdict = "ok"
<1>1. ASSUME JustifiedInv, ProbesNext PROVE Changes
  <2>1. UNCHANGED tableVars => Changes
      BY DEF tableVars
  <2>2. ASSUME NEW p \in Passes, NEW w \in workers[p], RecordUsable(p, w) PROVE Changes
    <3>1. rows \subseteq rows' /\ \A r \in rows' \ rows : r.ep = w.job.ep
        BY <2>2 DEF RecordUsable, UpsertUsableProxy, tableVars
    <3> QED
        BY <2>2, <3>1 DEF RecordUsable
  <2>3. ASSUME NEW p \in Passes, NEW w \in workers[p], RecordFailed(p, w) PROVE Changes
    <3>1. p \in Retesters /\ w.verdict = "bad"
        BY <1>1, <2>3 DEF RecordFailed, StatementRuns, JustifiedInv, CutMeansEnded
    <3>2. w.job \in HeldJobs
        BY <3>1, HeldJobsMembers
    <3>3. rows' \subseteq rows /\ \A r \in rows \ rows' : r = w.job
        BY <1>1, <2>3, <3>2 DEF RecordFailed, DeleteByIDs, JustifiedInv, IdentityInv
    <3> QED
        BY <3>1, <3>3
  <2> HIDE DEF Changes
  <2> QED
      BY <1>1, <2>1, <2>2, <2>3
         DEF ProbesNext, PassStep, WorkerStep, FetchOnce, RetestOnce, Launch, TestUpstream,
             DiscardCandidate, StatementFails, FinishPass, EndContext
<1>2. JustifiedInv /\ [ProbesNext]_probesVars => [Changes]_probesVars
    BY <1>1
<1> QED
    BY <1>2, JustifiedInvariance, PTL DEF ProbesSpec, TableChangesJustified

===============================================================================
