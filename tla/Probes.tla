------------------------------- MODULE Probes -------------------------------
(***************************************************************************)
(* The fetch and retest passes (internal/pool/fetcher.go, retester.go).    *)
(* A pass takes a list of jobs, launches one worker per job under a        *)
(* semaphore, and each worker tests its proxy and writes the verdict to    *)
(* the table.  Passes are started by the two background goroutines and by  *)
(* admin requests; nothing serialises them, so several run at once on the  *)
(* same table, each with the listing it started from.                      *)
(*                                                                         *)
(* A pass runs under a context: the request's, or the process's.  It can   *)
(* end at any time (a closed browser tab, SIGTERM) and ends every test and *)
(* statement that has not finished.                                        *)
(***************************************************************************)
EXTENDS ProxyTable

CONSTANTS Fetchers,       \* the goroutines that call FetchOnce
          Retesters,      \* the goroutines that call RetestOnce
          Limit,          \* TestConcurrency, the capacity of a pass's sem
          MaxCandidates   \* bound: proxies one answer of the provider holds

Passes == Fetchers \cup Retesters

ASSUME ProbesAssumption == /\ Fetchers \cap Retesters = {}
                           /\ Limit \in Nat \ {0}
                           /\ MaxCandidates \in Nat

VARIABLES running,    \* the passes between their listing and wg.Wait
          todo,       \* todo[p]: the jobs the loop of p has not launched yet
          workers,    \* workers[p]: the worker goroutines of p
          ended,      \* ended[p]: the context of p is done
          result      \* result[p]: the counters of FetchResult / RetestResult

probeVars == <<running, todo, workers, ended, result>>

\* A worker: its job and how its test ended.  The code sees one error where
\* the model has two: `bad` is the proxy's own failure (a refusal, a status
\* outside 2xx/3xx, the test timeout), `cut` is the end of the context.
Verdicts == {"testing", "ok", "bad", "cut"}
Worker   == [job : Row, verdict : Verdicts]

Counters == [total : Nat, tested : Nat, kept : Nat, dropped : Nat, errors : Nat]
Zero     == [total |-> 0, tested |-> 0, kept |-> 0, dropped |-> 0, errors |-> 0]

ProbesTypeOK == /\ running \subseteq Passes
                /\ todo \in [Passes -> SUBSET Row]
                /\ workers \in [Passes -> SUBSET Worker]
                /\ ended \in [Passes -> BOOLEAN]
                /\ result \in [Passes -> Counters]

ProbesInit == /\ running = {}
              /\ todo = [p \in Passes |-> {}]
              /\ workers = [p \in Passes |-> {}]
              /\ ended = [p \in Passes |-> FALSE]
              /\ result = [p \in Passes |-> Zero]

-----------------------------------------------------------------------------
StartPass(p, jobs) ==
    /\ p \notin running
    /\ running' = running \cup {p}
    /\ todo' = [todo EXCEPT ![p] = jobs]
    /\ result' = [result EXCEPT ![p].total = Cardinality(jobs)]
    /\ UNCHANGED <<workers, ended>>

\* FetchOnce, up to its loop: the provider answered and at least one entry
\* parsed.  Two entries that differ as text can name one endpoint, so the
\* candidates are a list: a fetch job carries its place in it where a retest
\* job carries its row id.  A failed or empty answer returns with no effect.
FetchOnce(f) ==
    /\ \E n \in 1 .. MaxCandidates : \E cand \in [1 .. n -> Endpoints] :
          StartPass(f, {[id |-> i, ep |-> cand[i]] : i \in 1 .. n})
    /\ UNCHANGED tableVars

\* RetestOnce, up to its loop: the listing is read once, at the start.
RetestOnce(r) ==
    /\ rows # {}
    /\ StartPass(r, rows)
    /\ UNCHANGED tableVars

\* A loop that the end of the context does leave.
LaunchOrBreak(p) ==
    /\ p \in running
    /\ \/ /\ ended[p]
          /\ todo[p] # {}
          /\ todo' = [todo EXCEPT ![p] = {}]
          /\ UNCHANGED <<workers, result>>
       \/ /\ ~ ended[p]
          /\ Cardinality(workers[p]) < Limit
          /\ \E j \in todo[p] :
                /\ IsFirst(j, todo[p])
                /\ todo' = [todo EXCEPT ![p] = @ \ {j}]
                /\ workers' = [workers EXCEPT ![p] = @ \cup {[job |-> j, verdict |-> "testing"]}]
          /\ result' = [result EXCEPT ![p].tested = @ + 1]
    /\ UNCHANGED <<running, ended, tableVars>>

\* One turn of the launching loop.  `break` inside the select leaves the
\* select, not the loop, so the loop launches every job even when the
\* context is done; sem bounds the workers in flight.
Launch(p) ==
    /\ p \in running
    /\ Cardinality(workers[p]) < Limit
    /\ \E j \in todo[p] :
          /\ IsFirst(j, todo[p])
          /\ todo' = [todo EXCEPT ![p] = @ \ {j}]
          /\ workers' = [workers EXCEPT ![p] = @ \cup {[job |-> j, verdict |-> "testing"]}]
    /\ result' = [result EXCEPT ![p].tested = @ + 1]
    /\ UNCHANGED <<running, ended, tableVars>>

\* TestUpstream returns: within its timeout, whatever the proxy does.
TestUpstream(p, w) ==
    /\ w \in workers[p]
    /\ w.verdict = "testing"
    /\ \E v \in IF ended[p] THEN {"bad", "cut"} ELSE {"ok", "bad"} :
          workers' = [workers EXCEPT ![p] = (@ \ {w}) \cup {[w EXCEPT !.verdict = v]}]
    /\ UNCHANGED <<running, todo, ended, result, tableVars>>

\* The worker returns: its counter goes up and its place in sem is free.
Return(p, w, counter) ==
    /\ workers' = [workers EXCEPT ![p] = @ \ {w}]
    /\ result' = [result EXCEPT ![p][counter] = @ + 1]
    /\ UNCHANGED <<running, todo, ended>>

\* Statements under a context that nobody ends.
StatementRunsDetached(p) == TRUE

\* database/sql runs no statement for a context that is done.
StatementRuns(p) == ~ ended[p]

\* A statement takes effect.  Its caller sees an error all the same when the
\* context ends while the statement runs.
StatementReturns(p, w, counter) == Return(p, w, counter) \/ Return(p, w, "errors")

\* The proxy answered: it is written to the table.
RecordUsable(p, w) ==
    /\ w \in workers[p]
    /\ w.verdict = "ok"
    /\ StatementRuns(p)
    /\ UpsertUsableProxy(w.job.ep)
    /\ StatementReturns(p, w, "kept")

\* A retest failed: the row the pass listed is deleted by its id.
RecordFailed(p, w) ==
    /\ p \in Retesters
    /\ w \in workers[p]
    /\ w.verdict \in {"bad", "cut"}
    /\ StatementRuns(p)
    /\ DeleteByIDs({w.job.id})
    /\ StatementReturns(p, w, "dropped")

\* A fetched proxy that fails its test is dropped without a statement.
DiscardCandidate(p, w) ==
    /\ p \in Fetchers
    /\ w \in workers[p]
    /\ w.verdict \in {"bad", "cut"}
    /\ Return(p, w, "dropped")
    /\ UNCHANGED tableVars

\* A worker that keeps its place in sem when its statement fails.
StatementFailsHolding(p, w) ==
    /\ w \in workers[p]
    /\ w.verdict = "ok" \/ p \in Retesters
    /\ UNCHANGED <<running, todo, workers, ended, result, tableVars>>

\* The statement has no effect: the context is done, or SQLite reports an error.
StatementFails(p, w) ==
    /\ w \in workers[p]
    /\ \/ w.verdict = "ok"
       \/ p \in Retesters /\ w.verdict \in {"bad", "cut"}
    /\ Return(p, w, "errors")
    /\ UNCHANGED tableVars

\* wg.Wait can return: every job was launched and every worker is gone.
WaitOver(p) == /\ p \in running
               /\ todo[p] = {}
               /\ workers[p] = {}

\* wg.Wait returns; the result and the context go with the caller.
FinishPass(p) ==
    /\ WaitOver(p)
    /\ running' = running \ {p}
    /\ ended' = [ended EXCEPT ![p] = FALSE]
    /\ result' = [result EXCEPT ![p] = Zero]
    /\ UNCHANGED <<todo, workers, tableVars>>

\* The caller goes away or the process is told to stop.
EndContext(p) ==
    /\ p \in running
    /\ ~ ended[p]
    /\ ended' = [ended EXCEPT ![p] = TRUE]
    /\ UNCHANGED <<running, todo, workers, result, tableVars>>

-----------------------------------------------------------------------------
WorkerStep(p) ==
    \E w \in workers[p] : \/ TestUpstream(p, w)
                          \/ RecordUsable(p, w)
                          \/ RecordFailed(p, w)
                          \/ DiscardCandidate(p, w)
                          \/ StatementFails(p, w)

PassStep(p) == Launch(p) \/ WorkerStep(p) \/ FinishPass(p)

ProbesNext ==
    \/ \E f \in Fetchers : FetchOnce(f)
    \/ \E r \in Retesters : RetestOnce(r)
    \/ \E p \in Passes : PassStep(p) \/ EndContext(p)

probesVars == <<tableVars, probeVars>>

TableProbesInit == TableInit /\ ProbesInit

ProbesSpec == TableProbesInit /\ [][ProbesNext]_probesVars

\* Goroutines are scheduled, the test has a deadline and a statement returns.
ProbesFairSpec == ProbesSpec /\ \A p \in Passes : WF_probesVars(PassStep(p))

-----------------------------------------------------------------------------
(***************************************************************************)
(* Properties                                                              *)
(***************************************************************************)

\* The rows the retest passes still hold from their listings.
HeldJobs == UNION {todo[r] \cup {w.job : w \in workers[r]} : r \in Retesters}

\* The table never holds a proxy twice, whichever workers upsert it at once,
\* and no two rows share an id (README.md:7, UNIQUE and AUTOINCREMENT in
\* store.go).
TableInv == /\ \A r, s \in rows : r.ep = s.ep \/ r.id = s.id => r = s
            /\ \A r \in rows : r.id <= lastID

\* A row disappears only because that very endpoint failed a retest on its
\* own account, never because the context ended under the test; a row
\* appears only after a test of its endpoint succeeded (README.md:6-7,11).
TableChangesJustified ==
    [][/\ \A r \in rows \ rows' : \E p \in Retesters : \E w \in workers[p] :
             w.job.ep = r.ep /\ w.verdict = "bad"
       /\ \A r \in rows' \ rows : \E p \in Passes : \E w \in workers[p] :
             w.job.ep = r.ep /\ w.verdict = "ok"]_probesVars

\* A result that reaches its caller accounts for every job exactly once, even
\* when the context ended half way (fetcher.go:194-196, retester.go:160-162).
ResultsAddUp ==
    \A p \in running :
        LET r == result[p]
        IN  WaitOver(p) => /\ r.tested = r.total
                           /\ r.kept + r.dropped + r.errors = r.total

\* A pass that started reaches wg.Wait and returns: no worker keeps its place
\* in sem (fetcher.go:146-192, retester.go:104-158).
PassesEnd == \A p \in Passes : p \in running ~> p \notin running

=============================================================================
