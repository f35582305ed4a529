# scdn-io-proxy in TLA+

A verification project for `scdn-io-proxy`, a proxy server that forwards its
clients' connections through an exit chosen from a pool of tested upstream
proxies. The modules are translated from the Go code in `cmd/` and `internal/`
and from the JavaScript of the admin pages; the line references in comments are
to those files.

## The system

| component | code | state | operations |
|---|---|---|---|
| proxy table | `internal/store/store.go` | rows of `proxies`, the AUTOINCREMENT counter | upsert, delete by id, delete many, list, page, count |
| fetch passes | `internal/pool/fetcher.go` | per pass: candidates, workers, semaphore, counters | `FetchOnce`, `Run` |
| retest passes | `internal/pool/retester.go` | per pass: listing, workers, semaphore, counters | `RetestOnce`, `Run` |
| upstream test | `internal/pool/tester.go`, `dial.go` | none | `TestUpstream`, `DialThroughUpstream` |
| exit rotator | `internal/proxy/rotator.go` | mutex, index, published snapshot | `Advance`, `Snapshot` |
| rotation loop | `cmd/scdn-io-proxy/main.go` | ticker, time of the last look at an empty pool | `runRotator` |
| settings | `internal/config/*.go` | row of `settings`, value in memory, mutex | `NewManager`, `Update`, `Get` |
| admin server | `internal/admin/server.go` | none of its own | status, list, delete, settings, fetch, retest, rotate |
| admin pages | `internal/admin/web/*.html` | page number, selected ids, form fields | refresh every 2 s, select, delete, save |
| proxy server | `internal/proxy/server.go`, `http_proxy.go`, `socks5_server.go` | per connection: exit and credentials taken at accept | HTTP, CONNECT, SOCKS5 |
| tunnel | `internal/netx/pipe.go` | two copying goroutines | `BiCopy` |
| provider client | `internal/scdn/client.go` | none | `GetProxy` |

How they interact: all goroutines share one `database/sql` pool of a single
connection, so a statement is atomic and statements are ordered, but nothing
orders what a goroutine does *between* two statements. Passes are started by two
background loops and by admin requests and are not serialised with each other.
The rotator reads the table under its own mutex, which does not cover the table,
and publishes a snapshot that connections and pages read without a lock. The
settings are read by everybody, at arbitrary moments, from an atomic value.

What is hard, therefore:

* rows that somebody read earlier and acts on later: a retest deletes by an id
  of an old listing and writes back rows of an old listing, the rotator serves a
  row it listed, a browser deletes ids ticked minutes ago;
* contexts that end half way through a pass (a closed browser tab, SIGTERM), and
  look to a worker like the failure of the proxy it tests;
* an index that survives from one listing to the next while rows before it leave;
* the two copies of the settings, on disk and in memory, and a crash between the
  writes to them;
* a client's connection with its three protocols, where each of a dozen ways out
  owes the client an answer and the upstream a `Close`, and where some waits have
  a deadline and others have none;
* a tunnel whose two copiers close each other's sockets;
* a page whose refreshes overlap and overtake each other and its deletions, above
  a transaction that holds the only database connection;
* restarts: memory is lost, the table, the settings and open browsers are not.

`PROJECT.json` lists every such hazard at its line with the properties that
cover it.

## Modules

| module | models | correctness it states |
|---|---|---|
| `ProxyTable` | the table and its statements | used by the pool modules |
| `Probes` | fetch and retest passes | `TableInv`, `TableChangesJustified`, `ResultsAddUp`, `PassesEnd` |
| `Rotator` | `Advance` in two halves, `runRotator` | used by the next two |
| `RotatorHistory` | the rotator on a table that others change, with a history variable | `RoundRobin`, `AdvanceReturns`, `StaleExitReplaced`, `ExitFollowsPool`, `ImplementsRing`, `ImplementsTurns` |
| `ExitRing` | abstract specification: an atomic walk round a ring | `NoStarvation` |
| `PoolSystem` | passes, rotator, admin requests and restarts on one table | `IdentityStable`, `PoolChangesJustified`, and one that fails |
| `SettingsManager` | both copies of the settings, start-up, updates, crashes | `SettingsStayValid`, `NoLostUpdate`, `InForceIsDurable`, `KeyNeverCleared`, `UpdatesReturn`, and two that fail |
| `Tunnel` | `BiCopy` between two peers | used by `ProxyConn` |
| `ProxyConn` | a client's connection: HTTP, CONNECT, SOCKS5, dials, tunnel | `PinnedExit`, `OnlyKnownUsers`, `NoSilentDrop`, `OnlyDialsLeft`, `StreamsIntact`, `GoneClientsEnd`, and two that fail |
| `AtomicDelete` | abstract specification: a request deletes its rows at one moment | used by the next two |
| `DeleteTransaction` | `DeleteProxiesByIDs`, chunk by chunk, on the only connection | used by `AdminPage` |
| `AdminPage` | the list in a browser, its requests and their handlers | `ImplementsAtomicDelete`, `BlankPagesExplained`, `BlankPagesLeave`, `DeletesReturn`, `GoneRowsLeave` |
| `...Proofs` | theorems about the module they are named after | see below |
| `RankTheorems` | lemmas about places in a list that is sorted by a number of each member | used by three modules of proofs |
| `MCSystem`, `MCSettings` | patches, symmetry and view for TLC | |

```
ProxyTable <- Probes  <- PoolSystem
           <- Rotator <- PoolSystem
                      <- RotatorHistory -- implements --> ExitRing
SettingsManager
Tunnel <- ProxyConn
AtomicDelete <- DeleteTransaction <- AdminPage -- implements --> AtomicDelete

Probes <- ProbesProofs <- PoolSystemProofs
SettingsManager <- SettingsManagerProofs        ProxyConn <- ProxyConnProofs
RotatorHistory, RankTheorems <- RotatorProofs
ExitRing,       RankTheorems <- ExitRingProofs
AdminPage,      RankTheorems <- AdminPageProofs
```

The four groups meet where the code does. `PoolSystem` composes passes, rotator
and admin requests on the table. `ProxyConn` sees the rest of the program as an
exit and an account that change at any time (`SwitchExit`, `ChangeAccount`),
because a connection reads each of them once and writes neither. `AdminPage` sees
the passes as rows that enter and leave; what they do to the identity of the rows
that a page has ticked is the subject of `PoolSystem`.

### Code and model

*Table.* A row is `[id, ep]`; `ep` stands for the triple of the UNIQUE
constraint. Test time, latency and country code are overwritten by each upsert
and left out. `MaxID` is the largest rowid; beyond it an insert fails, which is
what SQLite does at its own limit and what keeps instances finite. Whether a
conflicting upsert consumes an id is left open by not consuming one: only order
and freshness of ids are used.

*Passes.* `todo[p]` is what the launching loop has not reached, `workers[p]` the
goroutines that hold a place in `sem`. A worker tests (`TestUpstream`), runs its
statement (`RecordUsable`, `RecordFailed`, or `StatementFails`) and returns, in
that order, with everybody else's steps in between. The code sees one error
where the model tells `bad` (the proxy's fault) from `cut` (the context's end),
because the properties are about the difference. `break` in the `select` of the
loop does not leave the loop, so `Launch` ignores `ended`. A statement under a
context that is done is not run (`StatementRuns`, what `database/sql` does); one
that takes effect while its context ends may be reported as an error
(`StatementReturns`). `Run`'s timers are left out: a pass may start whenever the
goroutine is idle, which includes every timer.

*Rotator.* `AdvanceList` is the part of `Advance` up to the return of
`ListProxies`, `AdvancePublish` the rest. Time passes in `Second`, the period of
the ticker: `snap.left` counts down to `ExpiresAt`, `unchecked` counts up to the
five seconds (`NoProxyWait`) of the loop; a tick that finds the channel full is
dropped, as by `time.Ticker`. Hold times are any of `Holds`, because each caller
reads the settings before it calls. `Advance` does not adjust its index when rows
before it leave, so a proxy can miss a turn; `RoundRobin` says when turns are
kept, `NoStarvation` that no proxy is missed for ever.

*Admin requests.* `deleting[a]` follows `handleProxiesDelete`: transaction, look
at the snapshot, possibly an `Advance` whose error is ignored, answer. `ticked`
are the rows the request names, collected by the page over many listings; it
survives a restart, as an open browser does. In `PoolSystem` a delete of many ids
is one action, which `AdminPage` justifies: there it is a transaction of chunks
and shown to implement `AtomicDelete`.

*Restart.* The process dies between any two steps and comes up with empty memory.
A crash of the machine is not modelled: with `synchronous=NORMAL` it may undo the
last commits.

*Settings.* A `SettingsPatch` is a function on the fields that are not nil.
`interval` represents the fields that `Validate` keeps in a range and
`ApplyPatch` always takes; the four texts behave as their namesakes.
`Normalized` concerns two other fields and is left out. `Update` is three steps:
check (lock, patch, validate), persist, store. A failed statement may have
written all the same, because a context that ends while SQLite executes makes
the caller see an error; `doubt` records it.

*Connections.* `pc[c]` is the place in `handleConn`, `handleHTTP` or
`handleSOCKS5` where the handler of `c` is; `via[c]` and `cred[c]` are the locals
`upstream` and `user`, `pass`. A message of the client, of the upstream or of a
handshake arrives in one step, and what it says is a choice: which kind of request,
whose account, the last one or not. `said[c]` is the client's message that has
arrived and was not read yet, one of the protocol (`whole`) or one that the handler
cannot read (`garbled`); from then on the client waits (`owed[c] = "answer"`),
whatever the handler makes of it. A wait for a message that is cut short is the
message that never comes (`ClientEnds`, `UpstreamFails`). `owed[c]` also says that
the client waits for the `rest` of a response whose head it has, or for the `final`
response after an interim one; `used`, `offered` and `known` are history.

*Dials.* A plain HTTP request to an HTTP upstream is forwarded as it is, all others
are asked for with CONNECT or dialed with SOCKS5, so `Connected` and
`ThroughUpstream` take different ways. A SOCKS5 dial with its handshake belongs to a
goroutine of its own: `dialer[c]` is where that goroutine is, `DialerRuns` what it
does, with or without a handler that waits for it, and `DialTimesOut` the handler
that gives it up after 15 seconds. Its socket stays open then for as long as the
upstream is silent (`dial.go:69`), which is what `OnlyDialsLeft` admits and nothing
else. A `net.Conn` that is left in the channel is closed by its finalizer. The name
of a connection is used again only when nothing of it is left.

*Tunnel.* The bytes that a peer sends are the numbers 1, 2, ..., and there are
sequences of those that a `bufio.Reader` had taken before the tunnel began (`buf`),
that wait in the socket (`inbox`), that the copier has in hand (`held`) and that it
has written (`written`, a history). So bytes that are left behind in a reader or
overtaken by others show: `written` is then not what the peer has sent.
`CopyEnds` is the return of `io.Copy` and the `Close` after it, which ends both
directions of that socket. The kernel is taken at its best: what was written before
a `Close` arrives, although a socket that is closed with unread input may reset.
Of a remote end only what a request or tunnel does is modelled, so the remote peer
exists only then.

*Page.* `page`, `shown`, `selected` and `button` are `state.page`,
`state.currentPageIDs`, `state.selected` and the button's state; `refresh[f]` is a
call of `refresh()` with the request for the list that it sends. The handler of
that request runs two statements, `CountProxies` and `ListProxiesPage`. A failed
refresh is one whose answer is not shown. `MaxOut` is the number of requests a
browser sends at a time. The ids of a delete request are a set of rows that were
given out; what is not positive or named twice is filtered out by the code before
the transaction begins.

*Transaction.* `holder` is the request whose transaction has the connection,
`gone` the rows it has deleted and not committed. Since `SetMaxOpenConns(1)`
leaves one connection, every other statement needs `Connected`. A chunk is any
`ChunkSize` of the ids that are left, which includes the order of the code.

## Runs

| run | instance | shows |
|---|---|---|
| `probes` | 2 endpoints, ids to 3, 1 fetcher, 1 retester, 2 workers per pass, answers of up to 2 entries | overlapping passes: rows deleted, inserted again and upserted twice while an older listing is being worked off; results add up and passes end |
| `rotator` | 3 endpoints, ids to 3, the loop and 1 admin, hold times of 1 s, a wait of 2 s | turns, liveness of rotation, and that `RotatorHistory` implements `ExitRing`: its steps (`ImplementsRing`) and its fairness (`ImplementsTurns`) |
| `exit_ring` | 4 endpoints | no starvation under endless churn |
| `system` | 2 endpoints, ids to 2, 1 fetcher, 1 retester, 1 admin, restarts | identities and justification of changes across components |
| `settings` | 2 admins, 6 patches | concurrent updates, failures, restarts; `UpdatesReturn` |
| `connection` | 1 connection, an HTTP and a SOCKS5 upstream, 2 accounts, 2 bytes in a tunnel, a window of 1 | every protocol through every kind of upstream, one connection after the other, while exits and accounts change and peers go |
| `page` | rows to 2, pages of 1, chunks of 1, 2 refreshes and 2 deletes, 2 requests out at a time | overlapping refreshes and deletes; a delete is atomic although it takes two statements; blank pages and rows that have gone do not stay on display |
| `deleted_exit_served`, `flags_override_database`, `admin_pass_blank`, `unanswered_request`, `tunnel_cut` | as above or smaller | the disagreements below |

Why the bounds are enough. A hazard of stale identity needs one row read, deleted
and its number or endpoint given to another: two ids and two endpoints do it, and
the mutants that reuse ids are caught at these sizes. Two workers are the least
for a race inside a pass, a fetch beside a retest the least for two passes that
write the same row. Three endpoints are the least for an order of turns that
differs from alternation; longer orders, and proxies that leave and come back
under a larger id, are covered by the proof of `RoundRobin`. In finite instances
ids run out, so endless churn is checked on `ExitRing`, which has none and which
the rotator implements. In `system`, endpoints are symmetric and the counters of
results, which no guard reads, are left out of the view. Handlers of different
connections share nothing but what they read of exit and account, so one is
enough for TLC, and the proofs are for any number; two bytes are a byte of each
peer, or a byte on its way behind one that the other peer has not read, which a
window of one makes the copier wait for. Two rows on pages of one are the least
for a page that leaves when the table shrinks and for a deletion of two chunks.

Every property of a passing run has a mutant: an operator such as `RowidReused`
or `CheckPatchUnlocked`, a plausible bug that stands beside the definition it
would replace and makes the property fail.

## Fairness

* `ProbesFairSpec`: weak fairness of each pass. Goroutines are scheduled,
  `TestUpstream` has a deadline, a statement returns. Nothing is assumed of what
  tests and statements answer, nor that contexts end.
* `RotatorFairness`: weak fairness of the clock, of the loop and of publication
  by the holder of the mutex; strong fairness of `AdvanceList(c)`, since
  `sync.Mutex` hands over to a waiter after a millisecond of starvation, and
  since a listing that is tried for ever does not fail for ever. Failures of
  single listings, any number of them, stay possible. Admin requests and table
  changes have no fairness.
* `SettingsFairSpec`: strong fairness of each caller's steps, for the same mutex.
* `ProxyFairSpec`: weak fairness of what a handler does by itself and of each
  copier. Goroutines are scheduled, a message that has arrived is read, and a dial
  has a deadline of 15 seconds. Nothing is assumed of clients and upstreams, neither
  that they speak nor that they read, nor of the goroutine of a SOCKS5 dial.
  `GoneClientsEnd` therefore names the two waits without a deadline (`Stalled`) in
  which a handler may outlive its client.
* `PageFairSpec`: strong fairness of each transaction's steps and of the statements
  of the refreshes, which queue for the connection (`database/sql` serves the queue
  in order); the timer ticks and a refresh is shown in the end. Nothing is
  assumed of the user or of the passes. `GoneRowsLeave` and `BlankPagesLeave` are
  about a table that comes to rest, as it does here when ids have run out.

## What is proved

With TLAPS, for every value of the constants, from the assumptions that the
modules name: bounds are naturals, sizes and hold times positive, fetchers and
retesters different goroutines, and the values that mean "none" (`NoRow`,
`NoCaller`, `NoRequest`, `NoExit`, ...) are none of the others. Each module of
proofs has one inductive invariant, two where a result needs more than the rest,
and goes through the actions one by one.

| module | invariant | properties |
|---|---|---|
| `ProbesProofs` | `CountInv` | `ProbesTypeOK`, `ResultsAddUp` |
| | `JustifiedInv` | `TableInv`, `TableChangesJustified` |
| `PoolSystemProofs` | `IInv` | `SystemTypeOK`, `TableInv`, `IdentityStable`, `PoolChangesJustified` |
| `RotatorProofs` | `HistoryInv` | `RotatorTypeOK`, `RoundRobin` |
| | `RingInv` | `ImplementsRing` |
| `ExitRingProofs` | `RingTypeOK` itself | `RingTypeOK` |
| `SettingsManagerProofs` | `IInv` | `SettingsTypeOK`, `SettingsStayValid`, `InForceIsDurable`, `NoLostUpdate`, `KeyNeverCleared` |
| `ProxyConnProofs` | `ConnInv` | `ConnTypeOK`, `PinnedExit`, `OnlyKnownUsers`, `NoSilentDrop`, `OnlyDialsLeft`, `StreamsIntact` |
| `AdminPageProofs` | `PageInv` | `PageTypeOK`, `ImplementsAtomicDelete` |
| | `PageInv` and `CountedPages` | `BlankPagesExplained` |

*Results.* `ResultsAddUp` speaks of the end of a pass. `Counted` says the same of
every moment, with the jobs that are still to be launched and the workers that
are under way. That counting by cardinalities works needs `LaunchedOnce`: no two
workers of a pass have the same job, so one that returns takes one out.

*Pool.* That identities are stable is not inductive: no one may hold an id above
`lastID` either, and the table itself has no duplicates (`TableInv`); the action
properties also need that a test is cut only by its context (`CutMeansEnded`).
The argument is one lemma, `IdentityKept`: a step that does one of the three
things to the table, and after which only rows are held that were held or stored
before, preserves all of it. It is stated in `ProbesProofs` for whatever set of
rows is held, and used there for the jobs of the passes (`JustifiedInv`) and in
`PoolSystemProofs` for these, the rotator's rows and the browser's (`IInv`). That
each of the steps is of this kind is shown action by action (`ProbesNextHolds`,
`NextTableStep`, `NextHolds`).

*Turns.* The rotator follows an index, not an id, so `Behind` says where the index
points: behind the exit in the list it was picked from. For the next list this
holds still if no row has left and later rows have larger ids, which is `InOrder`:
the listing in flight is later than the one of the exit, the table later than
both. `Identified` makes a row its id.

*The ring.* `ringBar`, what the rotator's table is in `ExitRing`, lists the
endpoints of the rows in the order of their ids; `cursorBar` and `exitBar` are
what an `Advance` under way is going to publish, so that the whole of it happens
when its listing is read. Thus `AdvanceList` is the ring's `Advance`
(`ListTurns`), `AdvancePublish` and the clock stutter (`PublishStutters`), an
insertion is `Enter` since its id is the largest (`ListingEntered`), an upsert of
a stored row a stutter, and a deletion of any set of rows is `Leave`
(`ListingLeft`). The last is where places matter: the rows of a finite table take
the places from 0 up, one each, and dropping some of them keeps the order of the
others. `RankTheorems` proves that once for any finite set sorted by a number of
each member: places are below the cardinality (`PlaceType`), ordered as the
numbers (`PlaceOrder`), all taken (`PlaceTaken`), and the same under any
one-to-one map that keeps the order (`SamePlaces`). `RingInv` adds to `HistoryInv`
that an endpoint has one row, without which `Enter` would not be enabled.

*Settings.* `Holder` says what the mutex achieves: past validation a caller holds
it, and its new settings are its patch on the ones still in force. `Phases`
relates the phases of the start to the two copies, `Synced` says that only the
holder can be ahead on disk.

*Connections.* The invariant says what a handler remembers at each place of its
way: which exit it holds and that this was offered (`Pinned`), that the account
of a request under way was compared with one that was in force (`Checked`), that
a client waits for an answer only where its message is still to be read or worked
on, or where it was garbled (`Asked`), and that the goroutine of a dial is at work
only beside a handler that waits for it or has returned (`Dialed`). For the streams
(`Copied`), each direction of each tunnel must fit together (`Flows`): hand, reader
and socket hold, in this order, the numbers that follow those written (`GoesOn`),
and as many as the peer has sent, unless the peer has gone or bytes were dropped,
which happens only to a copier that failed or whose socket is closed. Each of the
moves of a copier is a lemma about such sequences (`ReadsBuffer`, `ReadsInbox`,
`Writes`, `Sends`, `Drops`).

*Deletions.* Every step of `AdminPage` is a step of `AtomicDelete` or changes none
of its variables; only `Commit` is its `Delete`. What is needed (`PutAside`) is
that the transaction has counted and put aside just the rows of the chunks it has
sent, and that the table has stood still since it began, because nobody else has
the connection.

*Blank pages.* A handler cuts the page number down to the last page of the rows
it has counted, so that the page begins before they end (`CountedPages`, with
`ClampedBegins` for the arithmetic of the cut). If the table has not shrunk when
the rows are listed, the place where the page begins is taken by some row
(`PlaceTaken`), which is then on it.

Only model-checked: what needs fairness, which this prover does not treat. These
are `PassesEnd`, `AdvanceReturns`, `StaleExitReplaced`, `ExitFollowsPool`,
`ImplementsTurns`, `NoStarvation`, `UpdatesReturn`, `GoneClientsEnd`,
`BlankPagesLeave`, `DeletesReturn` and `GoneRowsLeave`. `NoStarvation` of the rotator itself is checked in two parts:
`ExitRing` has it in `exit_ring`, under endless churn, and `ImplementsRing` and
`ImplementsTurns` make every behaviour of the rotator one of the ring.

## Where code and documents disagree

* `DeletedExitReplaced`: an `Advance` with an older listing makes a deleted proxy
  the exit after the deletion was answered (`rotator.go:75`; `server.go:251`).
* `DatabaseKeyWins`: flags override the stored settings at every start
  (`main.go:40`; `app.go:22` says at the first one).
* `AdminPassFallsBack`: an admin user without a password has the blank one
  (`manager.go:94`; `app.go:35` promises the proxy's).
* `NobodyWaits`: a handler goes on to the next request when it has forwarded an
  interim response, or one that broke off, and its client waits for the rest
  (`http_proxy.go:148`; `http_proxy.go:140`).
* `TunnelTransparent`: a peer that ends its stream and goes on listening loses what
  the other end sends (`pipe.go:16`; `http_proxy.go:31`).

Observed in the model, with no document that says otherwise:

* the loop decides on a snapshot it read before it waited for the mutex and may
  cut short an exit that an admin has just chosen (`main.go:103`);
* the wait for the answer to CONNECT has no deadline (`dial.go:42`): a handler
  outlives its client while an upstream is silent there (`Stalled`);
* a dial through a silent SOCKS5 upstream leaves its goroutine and socket behind
  when the handler gives it up (`dial.go:69`);
* a request that `ReadRequest` rejects, and a login or command of a wrong version,
  are dropped without an answer (`http_proxy.go:21`; `socks5_server.go:40`, `:68`);
* a retest that was under way writes a deleted proxy back (`retester.go:140`);
* an answer that comes late takes the user back to the page he left
  (`index.html:209`), and rows ticked while a deletion is out lose their ticks
  (`index.html:357`).

## Not modelled

* The form of the settings page: a save posts what its fields hold, which is one
  of the patches of `SettingsManager`. An old form undoes newer settings; nothing
  in the code promises otherwise.
* Durations: `seconds * time.Second` may wrap for huge numbers. Every user of the
  product has a lower bound of its own, so that a wrapped value makes a time short
  or long and nothing else; `Rotator` assumes positive hold times on the strength
  of the bound in `Advance`.
* Test results and country codes, which only the display reads.
* Basic authentication and `handleStatus`, which keep and change no state.
* The provider client, one request without state; string parsing (`ParseIPPort`,
  `normalizeHostPort`), rendering of pages, packaging.
* A crash of the machine, and what TCP loses in a reset after a `Close`.
