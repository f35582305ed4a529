--------------------------- MODULE AdminPageProofs ---------------------------
(***************************************************************************)
(* A request to delete rows is atomic, for any number of requests, rows    *)
(* and ids and any size of the chunks: every step of DeleteTransaction and *)
(* of the page above it is a step of AtomicDelete or changes nothing that  *)
(* it speaks of.  What is needed is that the transaction has counted and   *)
(* put aside just the rows of the chunks it has sent, and that the table   *)
(* has stood still since it began.                                         *)
(*                                                                         *)
(* A page is blank only if the table has shrunk since it was counted: the  *)
(* page number was cut down to one that begins before the counted rows     *)
(* end, and every place in the table is the place of some row.             *)
(***************************************************************************)
EXTENDS AdminPage, RankTheorems

\* The table and the requests are of their types.
TableTypeOK ==
    /\ lastRow \in 0 .. MaxRow /\ pool \subseteq 1 .. lastRow
    /\ ids \in [Requests -> SUBSET (1 .. lastRow)]
    /\ outcome \in [Requests -> {"none", "asked", "deleted", "error"}]
    /\ count \in [Requests -> 0 .. MaxRow]
    /\ holder \in Requests \union {NoRequest}

\* A refresh and what was answered to it.
Answers == [step  : {"idle", "asked", "counted", "answered"},
            page  : 1 .. MaxPage,
            total : 0 .. MaxRow,
            items : SUBSET (1 .. lastRow)]

\* So are the page and what is on its way to it.
AnswersTypeOK ==
    /\ shown \subseteq 1 .. lastRow /\ selected \subseteq 1 .. lastRow
    /\ page \in 1 .. MaxPage /\ button \in BOOLEAN
    /\ refresh \in [Refreshes -> Answers]

\* The transaction so far.
PutAside ==
    /\ holder \in Requests => /\ outcome[holder] = "asked"
                              /\ left \subseteq ids[holder]
                              /\ gone = pool \intersect (ids[holder] \ left)
    /\ holder = NoRequest => left = {} /\ gone = {}
    /\ total = Cardinality(gone)

PageInv == TableTypeOK /\ AnswersTypeOK /\ PutAside

\* A page that is about to be listed begins before the last row that was counted.
BeginsBefore(n, rows) == (n - 1) * PageSize < rows

CountedPages == \A f \in Refreshes :
    refresh[f].step = "counted" => BeginsBefore(refresh[f].page, refresh[f].total)

-----------------------------------------------------------------------------
(***************************************************************************)
(* Rows                                                                    *)
(***************************************************************************)

\* Sets of rows are finite and have at most as many members as ids were given.
LEMMA RowSets ==
    ASSUME TableTypeOK, NEW S \in SUBSET (1 .. lastRow)
    PROVE  IsFiniteSet(S) /\ Cardinality(S) \in 0 .. MaxRow
<1>1. 1 \in Int /\ lastRow \in Int /\ lastRow <= MaxRow /\ lastRow >= 0
    BY AtomicAssumption DEF TableTypeOK
<1>2. IsFiniteSet(1 .. lastRow) /\ Cardinality(1 .. lastRow) = lastRow
    BY <1>1, FS_Interval
<1>3. IsFiniteSet(S) /\ Cardinality(S) <= lastRow /\ Cardinality(S) \in Nat
    BY <1>2, FS_Subset, FS_CardinalityType
<1> QED
    BY <1>1, <1>3, AtomicAssumption

\* A chunk adds to the count the rows that were not counted before.
LEMMA ChunkCounts ==
    ASSUME TableTypeOK, NEW S \in SUBSET pool, NEW chunk, total = Cardinality(S)
    PROVE  total + Cardinality(chunk \intersect (pool \ S))
               = Cardinality(S \union (chunk \intersect pool))
<1> DEFINE T == chunk \intersect (pool \ S)
<1>1. S \in SUBSET (1 .. lastRow) /\ T \in SUBSET (1 .. lastRow)
    BY DEF TableTypeOK
<1>2. IsFiniteSet(S) /\ IsFiniteSet(T)
    BY <1>1, RowSets
<1>3. S \intersect T = {} /\ S \union T = S \union (chunk \intersect pool)
    OBVIOUS
<1>4. Cardinality(S \union T) = Cardinality(S) + Cardinality(T) - Cardinality(S \intersect T)
    BY <1>2, FS_Union
<1>5. Cardinality(S \intersect T) = 0
    BY <1>3, FS_EmptySet
<1>6. Cardinality(S) \in Nat /\ Cardinality(T) \in Nat
    BY <1>2, FS_CardinalityType
<1>7. Cardinality(S \union T) = Cardinality(S) + Cardinality(T)
    BY <1>4, <1>5, <1>6
<1> QED
    BY <1>3, <1>7

-----------------------------------------------------------------------------
(***************************************************************************)
(* The steps                                                               *)
(***************************************************************************)

\* Only these steps touch the table, the requests or the transaction.
LEMMA TransactionSteps ==
    ASSUME [PageNext]_adminVars
    PROVE  \/ OtherStatements /\ UNCHANGED pageVars
           \/ \E d \in Requests :
                  \/ ClickDelete(d) \/ DeleteAnswered(d)
                  \/ (TransactionStep(d) \/ TransactionFails(d)) /\ UNCHANGED pageVars
           \/ UNCHANGED <<atomicVars, txVars>>
<1>1. ASSUME NEW f \in Refreshes,
             \/ Timer(f) \/ \E n \in 1 .. MaxPage : TurnPage(f, n)
             \/ CountProxies(f) \/ ListProxiesPage(f) \/ Show(f) \/ RefreshFails(f)
      PROVE  UNCHANGED <<atomicVars, txVars>>
    BY <1>1 DEF Timer, TurnPage, CountProxies, ListProxiesPage, Show, RefreshFails
<1>2. CASE Tick
    BY <1>2 DEF Tick
<1>3. CASE UNCHANGED adminVars
    BY <1>3 DEF adminVars
<1> QED
    BY <1>1, <1>2, <1>3 DEF PageNext

\* Every step keeps the table and the requests in their types.
LEMMA TableTypeStep ==
    ASSUME PageInv, [PageNext]_adminVars
    PROVE  TableTypeOK'
<1> USE AtomicAssumption DEF PageInv, TableTypeOK
<1>1. CASE OtherStatements
  <2>1. CASE RowEnters
      BY <1>1, <2>1 DEF OtherStatements, RowEnters, txVars
  <2>2. CASE RowLeaves
      BY <1>1, <2>2 DEF OtherStatements, RowLeaves, txVars
  <2> QED
      BY <1>1, <2>1, <2>2 DEF OtherStatements
<1>2. ASSUME NEW d \in Requests, ClickDelete(d) PROVE TableTypeOK'
    BY <1>2 DEF ClickDelete, AskDelete, AnswersTypeOK, txVars
<1>3. ASSUME NEW d \in Requests, DeleteAnswered(d) PROVE TableTypeOK'
    BY <1>3 DEF DeleteAnswered, Deliver, txVars
<1>4. ASSUME NEW d \in Requests, TransactionStep(d) PROVE TableTypeOK'
  <2>1. CASE BeginTx(d)
      BY <2>1 DEF BeginTx, atomicVars
  <2>2. CASE DeleteChunk(d)
      BY <2>2 DEF DeleteChunk, atomicVars
  <2>3. CASE Commit(d)
    <3>1. gone \subseteq pool
        BY <2>3 DEF Commit, PutAside
    <3>2. total \in 0 .. MaxRow
        BY <3>1, RowSets DEF PutAside
    <3> QED
        BY <2>3, <3>2 DEF Commit, Release
  <2> QED
      BY <1>4, <2>1, <2>2, <2>3 DEF TransactionStep
<1>5. ASSUME NEW d \in Requests, TransactionFails(d) PROVE TableTypeOK'
    BY <1>5 DEF TransactionFails, Rollback, BeginFails, DeleteFails, Release, txVars
<1>6. CASE UNCHANGED <<atomicVars, txVars>>
    BY <1>6 DEF atomicVars, txVars
<1> QED
    BY <1>1, <1>2, <1>3, <1>4, <1>5, <1>6, TransactionSteps

\* Every step of a transaction puts the right rows aside; no other one
\* interferes.
LEMMA PutAsideStep ==
    ASSUME PageInv, [PageNext]_adminVars
    PROVE  PutAside'
<1> USE TransactionAssumption DEF PageInv, TableTypeOK, PutAside
<1>1. CASE OtherStatements
    BY <1>1 DEF OtherStatements, Connected, RowEnters, RowLeaves, txVars
<1>2. ASSUME NEW d \in Requests, ClickDelete(d) PROVE PutAside'
    BY <1>2 DEF ClickDelete, AskDelete, txVars
<1>3. ASSUME NEW d \in Requests, DeleteAnswered(d) PROVE PutAside'
    BY <1>3 DEF DeleteAnswered, Deliver, txVars
<1>4. ASSUME NEW d \in Requests, TransactionStep(d) PROVE PutAside'
  <2>1. CASE BeginTx(d)
      BY <2>1 DEF BeginTx, Connected, atomicVars
  <2>2. CASE DeleteChunk(d)
    <3>1. holder = d /\ gone \in SUBSET pool
        BY <2>2 DEF DeleteChunk
    <3>2. PICK chunk \in SUBSET left :
              /\ left' = left \ chunk
              /\ gone' = gone \union (chunk \intersect pool)
              /\ total' = total + Cardinality(chunk \intersect (pool \ gone))
        BY <2>2 DEF DeleteChunk
    <3>3. total' = Cardinality(gone')
        BY <3>1, <3>2, ChunkCounts
    <3>4. gone' = pool \intersect (ids[d] \ left')
        BY <3>1, <3>2
    <3>5. holder' = d /\ UNCHANGED atomicVars
        BY <2>2 DEF DeleteChunk
    <3> QED
        BY <3>1, <3>2, <3>3, <3>4, <3>5 DEF atomicVars
  <2>3. CASE Commit(d)
      BY <2>3, FS_EmptySet DEF Commit, Release
  <2> QED
      BY <1>4, <2>1, <2>2, <2>3 DEF TransactionStep
<1>5. ASSUME NEW d \in Requests, TransactionFails(d) PROVE PutAside'
  <2>1. CASE Rollback(d)
      BY <2>1, FS_EmptySet DEF Rollback, Release
  <2>2. CASE BeginFails(d)
      BY <2>2 DEF BeginFails, DeleteFails, txVars
  <2> QED
      BY <1>5, <2>1, <2>2 DEF TransactionFails
<1>6. CASE UNCHANGED <<atomicVars, txVars>>
    BY <1>6 DEF atomicVars, txVars
<1> QED
    BY <1>1, <1>2, <1>3, <1>4, <1>5, <1>6, TransactionSteps

-----------------------------------------------------------------------------
(***************************************************************************)
(* The page                                                                *)
(***************************************************************************)

\* A page that is asked for exists once there are rows.
LEMMA ClampedType ==
    ASSUME NEW n \in 1 .. MaxPage, NEW rows \in Nat \ {0}
    PROVE  Clamped(n, rows) \in 1 .. MaxPage
<1> USE PageAssumption
<1> DEFINE pages == TotalPages(rows)
<1>1. pages \in Int
    BY DEF TotalPages
<1>2. pages >= 1
    BY DEF TotalPages
<1> QED
    BY <1>1, <1>2 DEF Clamped

\* A listing has rows of the table.
LEMMA SliceType == TableTypeOK => \A n \in Nat : Slice(n) \in SUBSET (1 .. lastRow)
  BY DEF Slice, TableTypeOK

\* Every step keeps the page in its types.
LEMMA AnswersTypeStep ==
    ASSUME PageInv, [PageNext]_adminVars
    PROVE  AnswersTypeOK'
<1> USE PageAssumption, AtomicAssumption DEF PageInv, AnswersTypeOK, Answers
<1>1. CASE OtherStatements /\ UNCHANGED pageVars
  <2>1. lastRow \in Nat /\ lastRow' \in Nat /\ lastRow <= lastRow'
      BY <1>1 DEF OtherStatements, RowEnters, RowLeaves, TableTypeOK
  <2>2. 1 .. lastRow \subseteq 1 .. lastRow'
      BY <2>1
  <2> QED
      BY <1>1, <2>2 DEF pageVars
<1>2. ASSUME NEW d \in Requests, ClickDelete(d) PROVE AnswersTypeOK'
    BY <1>2 DEF ClickDelete, AskDelete
<1>3. ASSUME NEW d \in Requests, DeleteAnswered(d) PROVE AnswersTypeOK'
    BY <1>3 DEF DeleteAnswered, Deliver
<1>4. ASSUME NEW d \in Requests, TransactionStep(d) \/ TransactionFails(d), UNCHANGED pageVars
      PROVE  AnswersTypeOK'
    BY <1>4 DEF TransactionStep, TransactionFails, BeginTx, DeleteChunk, Commit, Rollback,
       BeginFails, DeleteFails, pageVars, atomicVars
<1>5. CASE Tick
    BY <1>5 DEF Tick, atomicVars
<1>6. ASSUME NEW f \in Refreshes, NEW n \in 1 .. MaxPage,
             Ask(f, n), page' = n, UNCHANGED <<shown, selected, button, atomicVars>>
      PROVE  AnswersTypeOK'
  <2>1. [step |-> "asked", page |-> n, total |-> 0, items |-> {}] \in Answers
      OBVIOUS
  <2> QED
      BY <1>6, <2>1 DEF Ask, atomicVars
<1>7. ASSUME NEW f \in Refreshes, CountProxies(f) PROVE AnswersTypeOK'
  <2>1. Cardinality(pool) \in 0 .. MaxRow
      BY RowSets DEF TableTypeOK
  <2>2. CASE Cardinality(pool) = 0
      BY <1>7, <2>2 DEF CountProxies, Idle, atomicVars
  <2>3. CASE Cardinality(pool) # 0
    <3>1. Clamped(refresh[f].page, Cardinality(pool)) \in 1 .. MaxPage
        BY <2>1, <2>3, ClampedType
    <3> QED
        BY <1>7, <2>1, <2>3, <3>1 DEF CountProxies, atomicVars
  <2> QED
      BY <2>2, <2>3
<1>8. ASSUME NEW f \in Refreshes, ListProxiesPage(f) PROVE AnswersTypeOK'
  <2>1. Slice(refresh[f].page) \in SUBSET (1 .. lastRow)
      BY SliceType
  <2> QED
      BY <1>8, <2>1 DEF ListProxiesPage, atomicVars
<1>9. ASSUME NEW f \in Refreshes, Show(f) \/ RefreshFails(f) PROVE AnswersTypeOK'
  <2>1. Idle \in Answers
      BY DEF Idle
  <2>2. page' \in 1 .. MaxPage /\ shown' \subseteq 1 .. lastRow
    <3>1. refresh[f] \in Answers
        OBVIOUS
    <3>2. refresh[f].page \in 1 .. MaxPage /\ refresh[f].items \subseteq 1 .. lastRow
        BY <3>1
    <3> QED
        BY <1>9, <3>2 DEF Show, RefreshFails
  <2> QED
      BY <1>9, <2>1, <2>2 DEF Show, RefreshFails, atomicVars
<1>10. CASE UNCHANGED adminVars
    BY <1>10 DEF adminVars, pageVars, atomicVars
<1>11. ASSUME NEW f \in Refreshes, Timer(f) \/ \E n \in 1 .. MaxPage : TurnPage(f, n)
       PROVE  AnswersTypeOK'
    BY <1>6, <1>11 DEF Timer, TurnPage
<1> QED
    BY <1>1, <1>2, <1>3, <1>4, <1>5, <1>7, <1>8, <1>9, <1>10, <1>11 DEF PageNext

-----------------------------------------------------------------------------
(***************************************************************************)
(* Blank pages                                                             *)
(***************************************************************************)

\* The pages before the last are full, and the last one has a row.
LEMMA LastPage ==
    ASSUME NEW rows \in Nat \ {0}
    PROVE  TotalPages(rows) \in Nat \ {0} /\ BeginsBefore(TotalPages(rows), rows)
<1> USE PageAssumption
<1> DEFINE s == rows + PageSize - 1
           pages == s \div PageSize
<1>1. s \in Nat /\ PageSize \in Nat \ {0} /\ PageSize <= s
    OBVIOUS
<1>2. pages \in Nat /\ pages >= 1
    BY <1>1
<1>3. PageSize * pages <= s
    BY <1>1
<1>4. (pages - 1) * PageSize = PageSize * pages - PageSize
    BY <1>1, <1>2
<1>5. PageSize * pages \in Int
    BY <1>1, <1>2
<1>6. (pages - 1) * PageSize < rows
    BY <1>3, <1>4, <1>5
<1> QED
    BY <1>2, <1>6 DEF TotalPages, BeginsBefore

\* Neither does a page before it begin behind the rows, whatever page is asked for.
LEMMA ClampedBegins ==
    ASSUME NEW n \in Nat \ {0}, NEW rows \in Nat \ {0}
    PROVE  BeginsBefore(Clamped(n, rows), rows)
<1> DEFINE pages == TotalPages(rows)
<1>1. pages \in Nat \ {0} /\ (pages - 1) * PageSize < rows
    BY LastPage DEF BeginsBefore
<1>2. ASSUME n <= pages PROVE (n - 1) * PageSize <= (pages - 1) * PageSize
  <2>1. n - 1 \in Nat /\ pages - n \in Nat /\ PageSize \in Nat
      BY <1>1, <1>2, PageAssumption
  <2>2. (pages - 1) * PageSize = (n - 1) * PageSize + (pages - n) * PageSize
      BY <1>1, <2>1
  <2>3. (pages - n) * PageSize \in Nat /\ (n - 1) * PageSize \in Nat
      BY <2>1
  <2> QED
      BY <2>2, <2>3
<1>3. (n - 1) * PageSize \in Int /\ (pages - 1) * PageSize \in Int
    BY <1>1, PageAssumption
<1>4. CASE n > pages
    BY <1>1, <1>4 DEF Clamped, BeginsBefore
<1>5. CASE n <= pages
  <2>1. Clamped(n, rows) = n
      BY <1>1, <1>5 DEF Clamped
  <2> QED
      BY <1>1, <1>2, <1>3, <1>5, <2>1 DEF BeginsBefore
<1> QED
    BY <1>1, <1>4, <1>5

\* A page that begins before the last row of the table has a row.
LEMMA SliceHasRow ==
    ASSUME TableTypeOK, NEW n \in Nat \ {0}, BeginsBefore(n, Cardinality(pool))
    PROVE  Slice(n) # {}
<1> DEFINE k == (n - 1) * PageSize
           before(i) == Cardinality({j \in pool : j < i})
<1>1. k \in Nat /\ k < Cardinality(pool)
    BY PageAssumption DEF BeginsBefore
<1>2. pool \in SUBSET Nat /\ IsFiniteSet(pool)
    BY RowSets, AtomicAssumption DEF TableTypeOK
<1>3. PICK i \in pool : before(i) = k
  <2>1. \A m \in Nat : m < Cardinality(pool) => \E i \in pool : before(i) = m
      BY <1>2, NumberTaken
  <2> QED
      BY <1>1, <2>1
<1>4. k < n * PageSize
  <2>1. n * PageSize = k + PageSize
      BY PageAssumption
  <2> QED
      BY <1>1, <2>1, PageAssumption
<1>5. k <= before(i) /\ before(i) < n * PageSize
    BY <1>1, <1>3, <1>4
<1> HIDE DEF before
<1> QED
    BY <1>5 DEF Slice, before

\* Only the count makes a page one that is about to be listed.
LEMMA CountedPagesStep ==
    ASSUME PageInv, CountedPages, [PageNext]_adminVars
    PROVE  CountedPages'
<1> USE DEF CountedPages, PageInv, AnswersTypeOK
<1>1. ASSUME NEW f \in Refreshes, CountProxies(f) PROVE CountedPages'
  <2> DEFINE n == Cardinality(pool)
  <2>1. n \in Nat
      BY RowSets, AtomicAssumption DEF TableTypeOK
  <2>2. refresh[f].page \in Nat \ {0}
      BY DEF Answers
  <2>3. CASE n = 0
      BY <1>1, <2>3 DEF CountProxies, Idle
  <2>4. CASE n # 0
    <3>1. BeginsBefore(Clamped(refresh[f].page, n), n)
        BY <2>1, <2>2, <2>4, ClampedBegins
    <3> QED
        BY <1>1, <2>4, <3>1 DEF CountProxies
  <2> QED
      BY <2>3, <2>4
<1>2. ASSUME NEW f \in Refreshes, NEW r, r.step # "counted",
             refresh' = [refresh EXCEPT ![f] = r]
      PROVE  CountedPages'
    BY <1>2
<1>3. ASSUME NEW f \in Refreshes, NEW n, Ask(f, n) PROVE CountedPages'
    BY <1>2, <1>3 DEF Ask
<1>4. ASSUME NEW f \in Refreshes, Timer(f) \/ \E n \in 1 .. MaxPage : TurnPage(f, n)
      PROVE  CountedPages'
    BY <1>3, <1>4 DEF Timer, TurnPage
<1>5. ASSUME NEW f \in Refreshes, ListProxiesPage(f) PROVE CountedPages'
  <2>1. PICK r : /\ r = [refresh[f] EXCEPT !.step = "answered", !.items = Slice(refresh[f].page)]
                 /\ refresh' = [refresh EXCEPT ![f] = r]
      BY <1>5 DEF ListProxiesPage
  <2>2. r.step = "answered"
      BY <2>1 DEF Answers
  <2> QED
      BY <1>2, <2>1, <2>2
<1>6. ASSUME NEW f \in Refreshes, Show(f) \/ RefreshFails(f) PROVE CountedPages'
    BY <1>2, <1>6 DEF Show, RefreshFails, Idle
<1>7. ASSUME NEW d \in Requests, ClickDelete(d) \/ DeleteAnswered(d) PROVE CountedPages'
    BY <1>7 DEF ClickDelete, DeleteAnswered
<1>8. CASE Tick \/ UNCHANGED pageVars
    BY <1>8 DEF Tick, pageVars
<1>9. CASE UNCHANGED adminVars
    BY <1>8, <1>9 DEF adminVars
<1> QED
    BY <1>1, <1>4, <1>5, <1>6, <1>7, <1>8, <1>9 DEF PageNext

-----------------------------------------------------------------------------
(***************************************************************************)
(* Theorems                                                                *)
(***************************************************************************)

\* The invariant holds in every behaviour.
LEMMA PageInvariance == PageSpec => []PageInv
<1>1. ASSUME PageInit PROVE PageInv
  <2> USE <1>1, AtomicAssumption, PageAssumption, TransactionAssumption
  <2> USE DEF PageInit, TransactionInit, AtomicInit
  <2>1. TableTypeOK
      BY DEF TableTypeOK
  <2>2. AnswersTypeOK
    <3>1. Idle \in Answers
        BY DEF Answers, Idle
    <3>2. 1 \in 1 .. MaxPage
        OBVIOUS
    <3> QED
        BY <3>1, <3>2 DEF AnswersTypeOK
  <2>3. PutAside
      BY FS_EmptySet DEF PutAside
  <2> QED
      BY <2>1, <2>2, <2>3 DEF PageInv
<1>2. PageInv /\ [PageNext]_adminVars => PageInv'
    BY TableTypeStep, AnswersTypeStep, PutAsideStep DEF PageInv
<1> QED
    BY <1>1, <1>2, PTL DEF PageSpec

\* The transaction, the answers and the page keep their types.
THEOREM PageTypes == PageSpec => []PageTypeOK
<1>1. ASSUME PageInv PROVE PageTypeOK
  <2>1. gone \subseteq pool /\ left \subseteq 1 .. lastRow
      BY <1>1 DEF PageInv, PutAside, TableTypeOK
  <2>2. total \in 0 .. MaxRow
      BY <1>1, <2>1, RowSets DEF PageInv, PutAside, TableTypeOK
  <2> QED
      BY <1>1, <2>1, <2>2 DEF PageInv, TableTypeOK, AnswersTypeOK, Answers, PageTypeOK
<1> QED
    BY <1>1, PageInvariance, PTL

\* A step of the page, the transactions or the passes is one that AtomicDelete
\* allows.
LEMMA StepsAreAtomic ==
    ASSUME PageInv, [PageNext]_adminVars
    PROVE  [AtomicNext]_atomicVars
<1>1. CASE OtherStatements
    BY <1>1 DEF OtherStatements, AtomicNext
<1>2. ASSUME NEW d \in Requests, ClickDelete(d) PROVE AtomicNext
  <2>1. selected \in SUBSET (1 .. MaxRow)
      BY AtomicAssumption DEF PageInv, AnswersTypeOK, TableTypeOK
  <2> QED
      BY <1>2, <2>1 DEF ClickDelete, AtomicNext
<1>3. ASSUME NEW d \in Requests, DeleteAnswered(d) PROVE AtomicNext
    BY <1>3 DEF DeleteAnswered, AtomicNext
<1>4. ASSUME NEW d \in Requests, BeginTx(d) \/ DeleteChunk(d) PROVE UNCHANGED atomicVars
    BY <1>4 DEF BeginTx, DeleteChunk
<1>5. ASSUME NEW d \in Requests, Commit(d) PROVE Delete(d)
  <2>1. outcome[d] = "asked" /\ gone = pool \intersect ids[d] /\ total = Cardinality(gone)
      BY <1>5 DEF Commit, PageInv, PutAside
  <2> QED
      BY <1>5, <2>1 DEF Commit, Delete
<1>6. ASSUME NEW d \in Requests, TransactionFails(d) PROVE DeleteFails(d)
    BY <1>6 DEF TransactionFails, Rollback, BeginFails
<1>7. CASE UNCHANGED <<atomicVars, txVars>>
    BY <1>7
<1> QED
    BY <1>1, <1>2, <1>3, <1>4, <1>5, <1>6, <1>7, TransactionSteps DEF TransactionStep, AtomicNext

\* However many chunks it takes and whoever asks for the same rows, a request
\* deletes at one moment all the rows it names, and counts them, or none.
THEOREM DeletesAreAtomic == PageSpec => ImplementsAtomicDelete
<1>1. PageInit => AtomicInit
    BY DEF PageInit, TransactionInit
<1>2. PageInv /\ [PageNext]_adminVars => [AtomicNext]_atomicVars
    BY StepsAreAtomic
<1> QED
    BY <1>1, <1>2, PageInvariance, PTL DEF PageSpec, AtomicSpec, ImplementsAtomicDelete

\* Whatever page a browser asks for, however late, the listing it gets is blank
\* only where rows have left the table since they were counted.
THEOREM BlankOnlyIfShrunk == PageSpec => BlankPagesExplained
<1> DEFINE Explained == \A f \in Refreshes :
               ListProxiesPage(f) /\ refresh'[f].items = {} => Cardinality(pool) < refresh[f].total
<1>1. PageInit => CountedPages
    BY DEF PageInit, CountedPages, Idle
<1>2. PageInv /\ CountedPages /\ [PageNext]_adminVars => CountedPages'
    BY CountedPagesStep
<1>3. ASSUME PageInv, CountedPages, NEW f \in Refreshes, ListProxiesPage(f), refresh'[f].items = {}
      PROVE  Cardinality(pool) < refresh[f].total
  <2> DEFINE n == refresh[f].page
  <2>1. refresh[f] \in Answers /\ n \in Nat \ {0} /\ refresh[f].total \in Nat
      BY <1>3, AtomicAssumption DEF PageInv, AnswersTypeOK, Answers
  <2>2. Slice(n) = {}
      BY <1>3 DEF ListProxiesPage, PageInv, AnswersTypeOK
  <2>3. Cardinality(pool) \in Nat /\ ~ BeginsBefore(n, Cardinality(pool))
      BY <1>3, <2>1, <2>2, SliceHasRow, RowSets, AtomicAssumption DEF PageInv, TableTypeOK
  <2>4. BeginsBefore(n, refresh[f].total)
      BY <1>3 DEF CountedPages, ListProxiesPage
  <2>5. (n - 1) * PageSize \in Int
      BY <2>1, PageAssumption
  <2> QED
      BY <2>1, <2>3, <2>4, <2>5 DEF BeginsBefore
<1>4. PageInv /\ CountedPages /\ [PageNext]_adminVars => [Explained]_adminVars
    BY <1>3
<1> QED
    BY <1>1, <1>2, <1>4, PageInvariance, PTL DEF PageSpec, BlankPagesExplained

=============================================================================
