----------------------------- MODULE AdminPage -----------------------------
(***************************************************************************)
(* The list of proxies in an open browser (internal/admin/web/index.html)  *)
(* and the handlers behind it (handleProxies and handleProxiesDelete of    *)
(* internal/admin/server.go), on a table that the passes change.           *)
(*                                                                         *)
(* JavaScript runs one handler at a time, but between the fetch of a       *)
(* refresh and its answer everything else happens: the timer starts other  *)
(* refreshes, the user turns pages, ticks rows and deletes them.           *)
(***************************************************************************)
EXTENDS DeleteTransaction

CONSTANTS Refreshes,  \* the refreshes that can be under way at once
          MaxOut,     \* bound: requests, of refreshes and deletes, that are out at once
          PageSize,   \* rows of a page
          MaxPage     \* bound: the largest page number a user types

ASSUME PageAssumption == /\ PageSize \in Nat \ {0} /\ MaxPage \in Nat \ {0}
                         /\ MaxOut \in Nat \ {0}

VARIABLES page,      \* state.page
          shown,     \* state.currentPageIDs
          selected,  \* state.selected
          button,    \* the delete button is enabled
          refresh    \* refresh[f]: a call of refresh() and its request

pageVars  == <<page, shown, selected, button, refresh>>
adminVars == <<atomicVars, txVars, pageVars>>

Row == 1 .. MaxRow

Idle == [step |-> "idle", page |-> 1, total |-> 0, items |-> {}]

\* The type invariant: the transaction, the answers on their way and the page's
\* state keep their types, and only rows that were given out are named.
PageTypeOK ==
    /\ lastRow \in 0 .. MaxRow /\ pool \subseteq 1 .. lastRow
    /\ ids \in [Requests -> SUBSET (1 .. lastRow)]
    /\ outcome \in [Requests -> {"none", "asked", "deleted", "error"}]
    /\ count \in [Requests -> 0 .. MaxRow]
    /\ holder \in Requests \union {NoRequest}
    /\ left \subseteq 1 .. lastRow /\ gone \subseteq pool /\ total \in 0 .. MaxRow
    /\ page \in 1 .. MaxPage /\ button \in BOOLEAN
    /\ shown \subseteq 1 .. lastRow /\ selected \subseteq 1 .. lastRow
    /\ refresh \in [Refreshes -> [step  : {"idle", "asked", "counted", "answered"},
                                  page  : 1 .. MaxPage,
                                  total : 0 .. MaxRow,
                                  items : SUBSET (1 .. lastRow)]]

PageInit == /\ TransactionInit
            /\ page = 1
            /\ shown = {} /\ selected = {}
            /\ button = FALSE
            /\ refresh = [f \in Refreshes |-> Idle]

-----------------------------------------------------------------------------
(***************************************************************************)
(* handleProxies: the count and the page are two statements                *)
(***************************************************************************)
TotalPages(rows) == (rows + PageSize - 1) \div PageSize

\* A page of the table: LIMIT and OFFSET in id order.
Slice(n) ==
    {i \in pool : LET before == Cardinality({j \in pool : j < i})
                  IN  (n - 1) * PageSize <= before /\ before < n * PageSize}

\* A handler that trusts the page number of the request.
Unclamped(n, rows) == n

\* The page that is asked for or, if there are fewer, the last one.
Clamped(n, rows) == IF n > TotalPages(rows) THEN TotalPages(rows) ELSE n

CountProxies(f) ==
    /\ Connected
    /\ refresh[f].step = "asked"
    /\ LET rows == Cardinality(pool)
       IN  refresh' = [refresh EXCEPT ![f] =
                         IF rows = 0 THEN [Idle EXCEPT !.step = "answered"]
                         ELSE [step |-> "counted", page |-> Clamped(@.page, rows),
                               total |-> rows, items |-> {}]]
    /\ UNCHANGED <<page, shown, selected, button, atomicVars, txVars>>

ListProxiesPage(f) ==
    /\ Connected
    /\ refresh[f].step = "counted"
    /\ refresh' = [refresh EXCEPT ![f].step = "answered",
                                  ![f].items = Slice(refresh[f].page)]
    /\ UNCHANGED <<page, shown, selected, button, atomicVars, txVars>>

-----------------------------------------------------------------------------
(***************************************************************************)
(* The page                                                                *)
(***************************************************************************)

\* The browser sends so many requests at a time and no more.
CanSend == Cardinality({f \in Refreshes : refresh[f].step # "idle"})
             + Cardinality({d \in Requests : outcome[d] # "none"}) < MaxOut

\* refresh() sends its requests, with the page number of this moment.
Ask(f, n) == /\ refresh[f].step = "idle"
             /\ CanSend
             /\ refresh' = [refresh EXCEPT ![f] =
                               [step |-> "asked", page |-> n, total |-> 0, items |-> {}]]

\* setInterval, whatever is under way; also the refresh after an action.
Timer(f) == /\ Ask(f, page)
            /\ UNCHANGED <<page, shown, selected, button, atomicVars, txVars>>

\* First, previous, next, last, or a number that is typed.
TurnPage(f, n) == /\ page' = n
                  /\ Ask(f, n)
                  /\ UNCHANGED <<shown, selected, button, atomicVars, txVars>>

\* A refresh whose rows are added to the ones on the page.
ShowMore(f) == /\ refresh[f].step = "answered"
               /\ page' = refresh[f].page
               /\ shown' = shown \union refresh[f].items
               /\ button' = (selected # {})
               /\ refresh' = [refresh EXCEPT ![f] = Idle]
               /\ UNCHANGED <<selected, atomicVars, txVars>>

\* The answers of a refresh are shown, in whatever order refreshes are answered.
Show(f) == /\ refresh[f].step = "answered"
           /\ page' = refresh[f].page
           /\ shown' = refresh[f].items
           /\ button' = (selected # {})
           /\ refresh' = [refresh EXCEPT ![f] = Idle]
           /\ UNCHANGED <<selected, atomicVars, txVars>>

\* A request of it fails, at whatever point: the rejection is swallowed.
RefreshFails(f) == /\ refresh[f].step = "answered"
                   /\ refresh' = [refresh EXCEPT ![f] = Idle]
                   /\ UNCHANGED <<page, shown, selected, button, atomicVars, txVars>>

\* A row is ticked or unticked, or all of the page.
Tick == /\ \E S \in SUBSET shown \ {{}} :
               \/ Cardinality(S) = 1 /\ selected' = (selected \ S) \union (S \ selected)
               \/ S = shown /\ selected' \in {selected \union S, selected \ S}
        /\ button' = (selected' # {})
        /\ UNCHANGED <<page, shown, refresh, atomicVars, txVars>>

\* The button is disabled while the request is out, until a refresh or a tick
\* enables it again.
ClickDelete(d) == /\ button
                  /\ CanSend
                  /\ selected # {}
                  /\ AskDelete(d, selected)
                  /\ button' = FALSE
                  /\ UNCHANGED <<page, shown, selected, refresh, txVars>>

\* The selection is cleared, and a refresh follows (it is one of Timer's).
DeleteAnswered(d) == /\ Deliver(d)
                     /\ IF outcome[d] = "deleted" THEN selected' = {} ELSE UNCHANGED selected
                     /\ button' = (selected' # {})
                     /\ UNCHANGED <<page, shown, refresh, txVars>>

-----------------------------------------------------------------------------
PageNext ==
    \/ OtherStatements /\ UNCHANGED pageVars
    \/ Tick
    \/ \E d \in Requests : \/ ClickDelete(d) \/ DeleteAnswered(d)
                           \/ /\ TransactionStep(d) \/ TransactionFails(d)
                              /\ UNCHANGED pageVars
    \/ \E f \in Refreshes : \/ Timer(f)
                            \/ \E n \in 1 .. MaxPage : TurnPage(f, n)
                            \/ CountProxies(f) \/ ListProxiesPage(f)
                            \/ Show(f) \/ RefreshFails(f)

PageSpec == PageInit /\ [][PageNext]_adminVars

\* Transactions make progress, BeginTx gets its turn in the queue for the
\* connection, as do the statements of a refresh; the timer ticks; refreshes do
\* not fail for ever.  Nothing is assumed of the user or the passes.
PageFairSpec ==
    /\ PageSpec
    /\ \A d \in Requests : SF_adminVars(TransactionStep(d) /\ UNCHANGED pageVars)
    /\ WF_adminVars(\E d \in Requests : DeleteAnswered(d))
    /\ SF_adminVars(\E f \in Refreshes : Timer(f))
    /\ SF_adminVars(\E f \in Refreshes : CountProxies(f) \/ ListProxiesPage(f))
    /\ SF_adminVars(\E f \in Refreshes : Show(f))

-----------------------------------------------------------------------------
(***************************************************************************)
(* Properties                                                              *)
(***************************************************************************)

\* A request to delete rows is all or nothing for everybody who looks at the
\* table, and its count is of the rows that it removed, although it takes several
\* statements and others ask for the same rows at once (store.go:268-305).
ImplementsAtomicDelete == AtomicSpec

\* A listing is a page without rows only if the table is empty or has lost rows
\* between the count and the page (server.go:165-191).
BlankPagesExplained ==
    [][\A f \in Refreshes :
          ListProxiesPage(f) /\ refresh'[f].items = {}
              => Cardinality(pool) < refresh[f].total]_adminVars

\* A page that came out blank because rows left between the two statements, or
\* because it was the last one and has gone, does not stay so: once the table is at
\* rest and has rows, the page shows some.
BlankPagesLeave == <>[](pool = {} \/ shown # {})

\* Every delete request is answered: a transaction that fails gives the only
\* connection back.
DeletesReturn == \A d \in Requests : outcome[d] = "asked" ~> outcome[d] # "asked"

\* Once the table is at rest, as it is in the end where ids run out, the page
\* shows no row that has left it, although refreshes overtake one another, fail
\* or bring old answers.
GoneRowsLeave == <>[](shown \subseteq pool)

=============================================================================
