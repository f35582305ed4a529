---------------------------- MODULE RotatorProofs ----------------------------
(***************************************************************************)
(* Exits are taken in turn, for any number of proxies and callers and any  *)
(* changes of the table.  An exit is followed by index, not by id, so what *)
(* must be known is where the index points to: behind the exit in the list *)
(* it was picked from.  New rows get larger ids than all earlier ones, so  *)
(* in a later list the index points there still, if no row has left it.    *)
(***************************************************************************)
EXTENDS RotatorHistory, RankTheorems, SequenceTheorems

\* The rows of `new` that are not in `old` have entered the table since.
Later(old, new) == \A r \in new \ old, q \in old : q.id < r.id

\* The rows of a table and of the listings that were read from it.
Known == rows \union listed \union previous

HistoryTypeOK == /\ TableTypeOK /\ RotatorTypeOK /\ previous \subseteq Row
                 /\ IsFiniteSet(rows) /\ IsFiniteSet(listed) /\ IsFiniteSet(previous)

\* Ids identify rows for ever, and no larger one has been given out.
Identified == \A r, s \in Known : /\ r.id <= lastID
                                  /\ r.id = s.id => r = s

\* The listing in flight is later than the one of the exit, the table later
\* than both.
InOrder == Later(previous, listed) /\ Later(previous, rows) /\ Later(listed, rows)

\* The index points behind the exit.
Behind == HasProxy => /\ snap.row \in previous
                      /\ idx = Wrapped(Rank(snap.row, previous) + 1, Cardinality(previous))

HistoryInv == HistoryTypeOK /\ Identified /\ InOrder /\ Behind

-----------------------------------------------------------------------------
(***************************************************************************)
(* Ranks                                                                   *)
(***************************************************************************)

IdOf(S) == [r \in S |-> r.id]

\* A rank is a place in the order of the ids.
LEMMA RankIsPlace ==
    ASSUME NEW S \in SUBSET Row, NEW r \in S
    PROVE  IdOf(S) \in [S -> Nat] /\ Rank(r, S) = Place(r, S, IdOf(S))
<1>1. {s \in S : s.id < r.id} = Before(r, S, IdOf(S))
    BY DEF Before, IdOf
<1> QED
    BY <1>1 DEF Rank, Place, IdOf, Row

\* A rank counts rows.
LEMMA RankType ==
    ASSUME NEW S \in SUBSET Row, IsFiniteSet(S), NEW r \in S
    PROVE  Rank(r, S) \in Nat /\ Rank(r, S) < Cardinality(S)
  BY RankIsPlace, PlaceType

\* Ranks are in the order of the ids.
LEMMA RankOrder ==
    ASSUME NEW S \in SUBSET Row, IsFiniteSet(S), NEW r \in S, NEW s \in S
    PROVE  Rank(r, S) < Rank(s, S) <=> r.id < s.id
<1>1. IdOf(S) \in [S -> Nat] /\ IdOf(S)[r] = r.id /\ IdOf(S)[s] = s.id
    BY RankIsPlace DEF IdOf
<1>2. Rank(r, S) = Place(r, S, IdOf(S)) /\ Rank(s, S) = Place(s, S, IdOf(S))
    BY RankIsPlace
<1> QED
    BY <1>1, <1>2, PlaceOrder

\* Two rows of a list have different ranks.
LEMMA RankInjective ==
    ASSUME NEW S \in SUBSET Row, IsFiniteSet(S), NEW r \in S, NEW s \in S,
           Rank(r, S) = Rank(s, S)
    PROVE  r.id = s.id
<1>1. Rank(r, S) \in Nat /\ r.id \in Nat /\ s.id \in Nat
    BY RankType DEF Row
<1> QED
    BY <1>1, RankOrder

\* Every rank below the number of rows is the rank of a row, and of one only.
LEMMA RankTaken ==
    ASSUME NEW S \in SUBSET Row, IsFiniteSet(S), \A r, s \in S : r.id = s.id => r = s,
           NEW k \in Nat, k < Cardinality(S)
    PROVE  \E r \in S : Rank(r, S) = k /\ \A s \in S : Rank(s, S) = k => s = r
<1>1. Sorts(IdOf(S), S)
    BY DEF Sorts, IdOf, Row
<1>2. \A r \in S : Rank(r, S) = Place(r, S, IdOf(S))
    BY RankIsPlace
<1> QED
    BY <1>1, <1>2, PlaceTaken

\* What enters later leaves the ranks of earlier rows as they are and comes
\* behind all of them.
LEMMA RanksLast ==
    ASSUME NEW old \in SUBSET Row, NEW new \in SUBSET Row, IsFiniteSet(new),
           old \subseteq new, Later(old, new)
    PROVE  /\ \A r \in old : Rank(r, new) = Rank(r, old)
           /\ \A r \in new \ old : Rank(r, new) >= Cardinality(old)
<1>1. \A p \in new : p.id \in Nat
    BY DEF Row
<1>2. ASSUME NEW r \in old PROVE Rank(r, new) = Rank(r, old)
  <2>1. {s \in new : s.id < r.id} = {s \in old : s.id < r.id}
      BY <1>1 DEF Later
  <2> QED
      BY <2>1 DEF Rank
<1>3. ASSUME NEW r \in new \ old PROVE Rank(r, new) >= Cardinality(old)
  <2> DEFINE B == {s \in new : s.id < r.id}
  <2>1. IsFiniteSet(B)
      BY FS_Subset
  <2>2. old \in SUBSET B
      BY <1>1 DEF Later
  <2>3. Cardinality(old) <= Cardinality(B) /\ IsFiniteSet(old)
      BY <2>1, <2>2, FS_Subset
  <2>4. Cardinality(old) \in Nat /\ Cardinality(B) \in Nat
      BY <2>1, <2>3, FS_CardinalityType
  <2> QED
      BY <2>3, <2>4 DEF Rank
<1> QED
    BY <1>2, <1>3

-----------------------------------------------------------------------------
(***************************************************************************)
(* Listings                                                                *)
(***************************************************************************)

\* The rows of a table: finitely many, no id twice.
Table(R) == /\ R \in SUBSET Row
            /\ IsFiniteSet(R)
            /\ \A r, s \in R : r.id = s.id => r = s

\* The ring counts as the table does.
LEMMA RingCounts == \A S : Ring!Cardinality(S) = Cardinality(S)
  BY DEF Ring!Cardinality, Cardinality

\* A listing has every row at its rank, and nothing else.
LEMMA ListingMembers ==
    ASSUME NEW R, Table(R)
    PROVE  /\ Cardinality(R) \in Nat
           /\ Listing(R) \in [1 .. Cardinality(R) -> Endpoints]
           /\ Listing(R) \in Seq(Endpoints)
           /\ Len(Listing(R)) = Cardinality(R)
           /\ \A r \in R : /\ Rank(r, R) + 1 \in 1 .. Cardinality(R)
                           /\ Listing(R)[Rank(r, R) + 1] = r.ep
           /\ \A i \in 1 .. Cardinality(R) : \E r \in R : Rank(r, R) + 1 = i
<1> DEFINE n == Cardinality(R)
           at(i) == CHOOSE r \in R : Rank(r, R) = i - 1
<1> USE DEF Table
<1>1. n \in Nat
    BY FS_CardinalityType
<1>2. ASSUME NEW i \in 1 .. n
      PROVE  \E r \in R : Rank(r, R) = i - 1 /\ \A s \in R : Rank(s, R) = i - 1 => s = r
  <2>1. i - 1 \in Nat /\ i - 1 < n
      BY <1>1
  <2> QED
      BY <2>1, RankTaken
<1>3. ASSUME NEW i \in 1 .. n
      PROVE  at(i) \in R /\ Rank(at(i), R) = i - 1 /\ \A s \in R : Rank(s, R) = i - 1 => s = at(i)
    BY <1>2
<1>4. ASSUME NEW r \in R PROVE Rank(r, R) + 1 \in 1 .. n /\ at(Rank(r, R) + 1) = r
  <2>1. Rank(r, R) \in Nat /\ Rank(r, R) < n
      BY RankType
  <2>2. Rank(r, R) + 1 \in 1 .. n /\ (Rank(r, R) + 1) - 1 = Rank(r, R)
      BY <1>1, <2>1
  <2> QED
      BY <1>3, <2>2
<1>5. \A i \in 1 .. n : \E r \in R : Rank(r, R) + 1 = i
  <2> SUFFICES ASSUME NEW i \in 1 .. n PROVE \E r \in R : Rank(r, R) + 1 = i
      OBVIOUS
  <2>1. at(i) \in R /\ Rank(at(i), R) = i - 1
      BY <1>3
  <2>2. (i - 1) + 1 = i
      BY <1>1
  <2> QED
      BY <2>1, <2>2
<1>6. Listing(R) = [i \in 1 .. n |-> at(i).ep]
    BY DEF Listing
<1> HIDE DEF at
<1>7. Listing(R) \in [1 .. n -> Endpoints]
    BY <1>3, <1>6 DEF Row
<1>8. Listing(R) \in Seq(Endpoints)
    BY <1>1, <1>7, SeqDef
<1>9. Len(Listing(R)) = n
  <2>1. DOMAIN Listing(R) = 1 .. n /\ DOMAIN Listing(R) = 1 .. Len(Listing(R))
      BY <1>7, <1>8, LenProperties
  <2>2. Len(Listing(R)) \in Nat
      BY <1>8, LenProperties
  <2> QED
      BY <1>1, <2>1, <2>2
<1>10. \A r \in R : Listing(R)[Rank(r, R) + 1] = r.ep
    BY <1>4, <1>6
<1> QED
    BY <1>1, <1>4, <1>5, <1>7, <1>8, <1>9, <1>10

\* A row with a larger id than all others is listed last.
LEMMA ListingEntered ==
    ASSUME NEW R, Table(R), NEW r \in Row, \A s \in R : s.id < r.id
    PROVE  Table(R \union {r}) /\ Listing(R \union {r}) = Append(Listing(R), r.ep)
<1> DEFINE Q == R \union {r}
           n == Cardinality(R)
<1>1. \A s \in R : s.id \in Nat /\ r.id \in Nat /\ s # r
    BY DEF Table, Row
<1>2. Table(Q) /\ Cardinality(Q) = n + 1
    BY <1>1, FS_AddElement DEF Table
<1>3. Later(R, Q) /\ R \subseteq Q
    BY DEF Later
<1>4. n \in Nat
    BY FS_CardinalityType DEF Table
<1>5. \A s \in R : Rank(s, Q) = Rank(s, R)
    BY <1>2, <1>3, RanksLast DEF Table
<1>6. Rank(r, Q) = n
  <2>1. r \in Q /\ r \in Q \ R
      BY <1>1
  <2>2. Rank(r, Q) >= n
      BY <1>2, <1>3, <2>1, RanksLast DEF Table
  <2>3. Rank(r, Q) \in Nat /\ Rank(r, Q) < n + 1
      BY <1>2, <2>1, RankType DEF Table
  <2> QED
      BY <1>4, <2>2, <2>3
<1> DEFINE a == Listing(Q)
           b == Append(Listing(R), r.ep)
<1>7. r \in Q /\ r.ep \in Endpoints
    BY DEF Row
<1>8. a \in Seq(Endpoints) /\ Len(a) = n + 1 /\ a[n + 1] = r.ep
    BY <1>2, <1>6, <1>7, ListingMembers
<1>9. /\ b \in Seq(Endpoints) /\ Len(b) = n + 1 /\ b[n + 1] = r.ep
      /\ \A i \in 1 .. n : b[i] = Listing(R)[i]
    BY <1>7, ListingMembers, AppendProperties
<1>10. ASSUME NEW i \in 1 .. n PROVE a[i] = Listing(R)[i]
  <2>1. PICK s \in R : Rank(s, R) + 1 = i
      BY ListingMembers
  <2>2. Rank(s, Q) + 1 = i /\ s \in Q
      BY <1>5, <2>1
  <2> QED
      BY <1>2, <2>1, <2>2, ListingMembers
<1> HIDE DEF a, b
<1>11. \A i \in 1 .. n + 1 : a[i] = b[i]
  <2>1. \A i \in 1 .. n + 1 : i \in 1 .. n \/ i = n + 1
      BY <1>4
  <2> QED
      BY <1>8, <1>9, <1>10, <2>1
<1>12. a = b
    BY <1>8, <1>9, <1>11, SeqEqual
<1> QED
    BY <1>2, <1>12 DEF a, b

\* The places in a listing of R of those rows that are still in Q.
StayingRows(R, Q) ==
    {i \in 1 .. Len(Listing(R)) : Listing(R)[i] \notin {r.ep : r \in R \ Q}}

\* When rows leave, the listing of the others is the ring of those who stay.
LEMMA ListingLeft ==
    ASSUME NEW R, Table(R), \A r, s \in R : r.ep = s.ep => r = s, NEW Q \in SUBSET R
    PROVE  /\ Table(Q)
           /\ Listing(Q) = [k \in 1 .. Cardinality(StayingRows(R, Q)) |->
                               Listing(R)[Ring!Nth(k, StayingRows(R, Q))]]
<1> DEFINE n == Cardinality(R)
           m == Cardinality(Q)
           T == StayingRows(R, Q)
           f == [r \in Q |-> Rank(r, R) + 1]
           num == [i \in T |-> i]
<1>1. Table(Q) /\ n \in Nat /\ m \in Nat
    BY FS_Subset, FS_CardinalityType DEF Table
<1>2. Len(Listing(R)) = n /\ T \in SUBSET (1 .. n) /\ T \in SUBSET Nat
    BY <1>1, ListingMembers DEF StayingRows
<1>3. ASSUME NEW r \in Q PROVE f[r] \in T
  <2>1. Rank(r, R) + 1 \in 1 .. n /\ Listing(R)[Rank(r, R) + 1] = r.ep
      BY ListingMembers
  <2>2. r.ep \notin {s.ep : s \in R \ Q}
      OBVIOUS
  <2> QED
      BY <1>2, <2>1, <2>2 DEF StayingRows
<1>4. ASSUME NEW r \in Q, NEW s \in Q PROVE r.id < s.id <=> f[r] < f[s]
  <2>1. Rank(r, R) \in Nat /\ Rank(s, R) \in Nat
      BY RankType DEF Table
  <2>2. Rank(r, R) < Rank(s, R) <=> r.id < s.id
      BY RankOrder DEF Table
  <2> QED
      BY <2>1, <2>2
<1>5. ASSUME NEW r \in Q, NEW s \in Q, f[r] = f[s] PROVE r = s
  <2>1. r.id \in Nat /\ s.id \in Nat /\ f[r] \in Nat
      BY <1>2, <1>3 DEF Table, Row
  <2> QED
      BY <1>4, <1>5, <2>1 DEF Table
<1>6. ASSUME NEW i \in T PROVE \E r \in Q : f[r] = i
  <2>1. PICK r \in R : Rank(r, R) + 1 = i
      BY <1>2, ListingMembers
  <2>2. Listing(R)[i] = r.ep
      BY <2>1, ListingMembers
  <2>3. r \in Q
      BY <2>2 DEF StayingRows
  <2> QED
      BY <2>1, <2>3
<1>7. f \in [Q -> T]
    BY <1>3
<1> HIDE DEF T, f
<1>8. f \in Bijection(Q, T)
    BY <1>5, <1>6, <1>7 DEF Bijection, Injection, Surjection, IsInjective
<1>9. IsFiniteSet(T) /\ Cardinality(T) = m
  <2>1. ExistsBijection(Q, T)
      BY <1>8 DEF ExistsBijection
  <2> QED
      BY <1>1, <2>1, FS_Bijection DEF Table
<1>10. ASSUME NEW k \in 1 .. m PROVE Listing(Q)[k] = Listing(R)[Ring!Nth(k, T)]
  <2>1. PICK r \in Q : Rank(r, Q) + 1 = k
      BY <1>1, ListingMembers
  <2>2. Listing(Q)[k] = r.ep
      BY <1>1, <2>1, ListingMembers
  <2>3. Rank(r, Q) = Place(r, Q, IdOf(Q)) /\ IdOf(Q) \in [Q -> Nat]
      BY <1>1, RankIsPlace DEF Table
  <2>4. num \in [T -> Nat]
      BY <1>2
  <2>5. \A a, b \in Q : IdOf(Q)[a] < IdOf(Q)[b] <=> num[f[a]] < num[f[b]]
      BY <1>4, <1>7 DEF IdOf
  <2>6. \A a \in T : Before(a, T, num) = {j \in T : j < a}
      BY DEF Before
  <2> HIDE DEF num
  <2>7. Place(r, Q, IdOf(Q)) = Place(f[r], T, num)
      BY <1>1, <1>8, <2>3, <2>4, <2>5, SamePlaces DEF Table
  <2>8. f[r] \in T
      BY <1>7
  <2> DEFINE less(a) == Cardinality({j \in T : j < a})
  <2>9. less(f[r]) = Rank(r, Q)
      BY <2>3, <2>6, <2>7, <2>8 DEF Place
  <2>10. \A a, b \in T : less(a) = less(b) => a = b
      BY <1>2, <1>9, NumberTaken
  <2>11. Ring!Nth(k, T) = CHOOSE a \in T : less(a) = k - 1
      BY RingCounts DEF Ring!Nth
  <2> HIDE DEF less
  <2>12. Ring!Nth(k, T) = f[r]
    <3>1. Rank(r, Q) \in Nat
        BY <1>1, RankType DEF Table
    <3>2. less(f[r]) = k - 1
        BY <2>1, <2>9, <3>1
    <3> QED
        BY <2>8, <2>10, <2>11, <3>2
  <2>13. Listing(R)[f[r]] = r.ep
      BY ListingMembers DEF f
  <2> QED
      BY <2>2, <2>12, <2>13
<1>11. Listing(Q) \in [1 .. m -> Endpoints]
    BY <1>1, ListingMembers
<1>12. Listing(Q) = [k \in 1 .. Cardinality(T) |-> Listing(R)[Ring!Nth(k, T)]]
    BY <1>9, <1>10, <1>11
<1> QED
    BY <1>1, <1>12 DEF T

-----------------------------------------------------------------------------
(***************************************************************************)
(* Types                                                                   *)
(***************************************************************************)

\* What the next exit is.
LEMMA PublishesOne ==
    ASSUME HistoryTypeOK, NEW c \in Callers, AdvancePublish(c)
    PROVE  \/ /\ listed = {} /\ idx' = 0
              /\ \E h \in Nat : snap' = [row |-> NoRow, left |-> h]
           \/ \E p \in listed, h \in Nat :
                 /\ Rank(p, listed) = Wrapped(idx, Cardinality(listed))
                 /\ idx' = Wrapped(Rank(p, listed) + 1, Cardinality(listed))
                 /\ snap' = [row |-> p, left |-> h]
<1>1. \A h \in Holds : h \in Nat
    BY RotatorAssumption
<1>2. CASE PublishNone
    BY <1>1, <1>2 DEF PublishNone
<1>3. CASE PublishNext
    BY <1>1, <1>3 DEF PublishNext
<1> QED
    BY <1>2, <1>3 DEF AdvancePublish

\* How the table changes.
LEMMA TableChangesOne ==
    ASSUME HistoryTypeOK, TableChanges
    PROVE  \/ rows' \subseteq rows /\ UNCHANGED lastID
           \/ \E e \in Endpoints : /\ rows' = rows \union {[id |-> lastID + 1, ep |-> e]}
                                   /\ lastID' = lastID + 1 /\ lastID + 1 <= MaxID
  BY DEF TableChanges, UpsertUsableProxy, DeleteByIDs, NextID, tableVars

\* Every step keeps the types.
LEMMA HistoryTypeStep ==
    ASSUME HistoryTypeOK, [HistoryNext]_historyVars
    PROVE  HistoryTypeOK'
<1> USE TableAssumption, RotatorAssumption DEF HistoryTypeOK, TableTypeOK, RotatorTypeOK
<1>1. ASSUME NEW c \in Callers, Published(c) PROVE HistoryTypeOK'
  <2>1. snap' \in Snapshot /\ idx' \in Nat
    <3>1. CASE listed = {} /\ idx' = 0 /\ \E h \in Nat : snap' = [row |-> NoRow, left |-> h]
        BY <3>1 DEF Snapshot
    <3>2. ASSUME NEW p \in listed, NEW h \in Nat,
                 idx' = Wrapped(Rank(p, listed) + 1, Cardinality(listed)),
                 snap' = [row |-> p, left |-> h]
          PROVE  snap' \in Snapshot /\ idx' \in Nat
      <4>1. Rank(p, listed) \in Nat
          BY RankType
      <4> QED
          BY <3>2, <4>1 DEF Snapshot, Wrapped
    <3> QED
        BY <1>1, <3>1, <3>2, PublishesOne DEF Published
  <2> QED
      BY <1>1, <2>1, FS_EmptySet DEF Published, AdvancePublish, tableVars
<1>2. ASSUME NEW c \in Callers, AdvanceList(c) \/ AdvanceFails(c), UNCHANGED previous
      PROVE  HistoryTypeOK'
    BY <1>2 DEF AdvanceList, AdvanceFails, tableVars
<1>3. ASSUME NEW a \in Admins, AdminAdvance(a), UNCHANGED previous PROVE HistoryTypeOK'
    BY <1>3 DEF AdminAdvance, CallAdvance, tableVars
<1>4. CASE LoopTick /\ UNCHANGED previous
  <2>1. advance' \in [Callers -> {"out", "waiting", "listed"}]
      BY <1>4 DEF LoopTick, CallAdvance, Callers
  <2>2. tick' \in BOOLEAN
      BY <1>4 DEF LoopTick
  <2>3. unchecked' \in {unchecked, 0}
      BY <1>4 DEF LoopTick
  <2>4. unchecked' \in 0 .. NoProxyWait
      BY <2>3
  <2> QED
      BY <1>4, <2>1, <2>2, <2>4 DEF LoopTick, tableVars
<1>5. CASE Second /\ UNCHANGED previous
  <2>1. [snap EXCEPT !.left = IF snap.left = 0 THEN 0 ELSE snap.left - 1] \in Snapshot
      BY DEF Snapshot
  <2> QED
      BY <1>5, <2>1 DEF Second, tableVars
<1>6. CASE TableChanges /\ UNCHANGED previous
  <2>1. CASE rows' \subseteq rows /\ UNCHANGED lastID
    <3>1. IsFiniteSet(rows')
        BY <2>1, FS_Subset
    <3> QED
        BY <1>6, <2>1, <3>1 DEF TableChanges, rotatorVars
  <2>2. ASSUME NEW e \in Endpoints, rows' = rows \union {[id |-> lastID + 1, ep |-> e]},
               lastID' = lastID + 1, lastID + 1 <= MaxID
        PROVE  HistoryTypeOK'
    <3>1. IsFiniteSet(rows')
        BY <2>2, FS_AddElement
    <3>2. [id |-> lastID + 1, ep |-> e] \in Row
        BY DEF Row
    <3> QED
        BY <1>6, <2>2, <3>1, <3>2 DEF TableChanges, rotatorVars
  <2> QED
      BY <1>6, <2>1, <2>2, TableChangesOne
<1>7. CASE UNCHANGED historyVars
    BY <1>7 DEF historyVars, tableVars, rotatorVars
<1> QED
    BY <1>1, <1>2, <1>3, <1>4, <1>5, <1>6, <1>7 DEF HistoryNext

-----------------------------------------------------------------------------
(***************************************************************************)
(* Ids and their order                                                     *)
(***************************************************************************)

\* Only a publication, a listing and a change of the table touch what is known.
LEMMA KnownSteps ==
    ASSUME HistoryTypeOK, [HistoryNext]_historyVars
    PROVE  \/ \E c \in Callers : Published(c) /\ UNCHANGED tableVars
           \/ listed' = rows /\ UNCHANGED <<previous, tableVars, idx, snap>>
           \/ TableChanges /\ UNCHANGED <<previous, listed, idx, snap>>
           \/ /\ UNCHANGED <<previous, listed, tableVars, idx>>
              /\ snap'.row = snap.row
<1>1. CASE Second /\ UNCHANGED previous
    BY <1>1 DEF Second, HistoryTypeOK, RotatorTypeOK, Snapshot
<1>2. ASSUME NEW c \in Callers, Published(c) PROVE UNCHANGED tableVars
    BY <1>2 DEF Published, AdvancePublish
<1>3. CASE UNCHANGED historyVars
    BY <1>3 DEF historyVars, rotatorVars
<1> QED
    BY <1>1, <1>2, <1>3
       DEF HistoryNext, AdvanceList, AdvanceFails, AdminAdvance, LoopTick, TableChanges, rotatorVars

\* Ids keep naming what they named, and what enters is later than all.
LEMMA OrderStep ==
    ASSUME HistoryTypeOK, Identified, InOrder, [HistoryNext]_historyVars
    PROVE  Identified' /\ InOrder'
<1> USE DEF Identified, InOrder, Later, Known
<1>1. ASSUME NEW c \in Callers, Published(c), UNCHANGED tableVars PROVE Identified' /\ InOrder'
    BY <1>1 DEF Published, AdvancePublish, tableVars
<1>2. CASE listed' = rows /\ UNCHANGED <<previous, tableVars>>
    BY <1>2 DEF tableVars
<1>3. CASE TableChanges /\ UNCHANGED <<previous, listed>>
  <2>1. CASE rows' \subseteq rows /\ UNCHANGED lastID
      BY <1>3, <2>1
  <2>2. ASSUME NEW e \in Endpoints, rows' = rows \union {[id |-> lastID + 1, ep |-> e]},
               lastID' = lastID + 1
        PROVE  Identified' /\ InOrder'
    <3>1. \A r \in Known : r.id \in Nat /\ r.id < lastID + 1
        BY DEF HistoryTypeOK, TableTypeOK, RotatorTypeOK, Row
    <3>2. lastID \in Nat
        BY DEF HistoryTypeOK, TableTypeOK
    <3>3. Identified'
        BY <1>3, <2>2, <3>1, <3>2
    <3>4. InOrder'
        BY <1>3, <2>2, <3>1, <3>2
    <3> QED
        BY <3>3, <3>4
  <2> QED
      BY <1>3, <2>1, <2>2, TableChangesOne
<1>4. CASE UNCHANGED <<previous, listed, tableVars>>
    BY <1>4 DEF tableVars
<1> QED
    BY <1>1, <1>2, <1>3, <1>4, KnownSteps

\* The index stays behind the exit.
LEMMA BehindStep ==
    ASSUME HistoryTypeOK, Behind, [HistoryNext]_historyVars
    PROVE  Behind'
<1> USE DEF Behind, HasProxy
<1>1. ASSUME NEW c \in Callers, Published(c) PROVE Behind'
    BY <1>1, PublishesOne DEF Published
<1>2. CASE UNCHANGED <<previous, idx>> /\ snap'.row = snap.row
    BY <1>2
<1> QED
    BY <1>1, <1>2, KnownSteps

-----------------------------------------------------------------------------
(***************************************************************************)
(* Theorems                                                                *)
(***************************************************************************)

\* The invariant holds in every behaviour.
LEMMA HistoryInvariance == HistorySpec => []HistoryInv
<1>1. HistoryInit => HistoryInv
  <2> SUFFICES ASSUME HistoryInit PROVE HistoryInv
      OBVIOUS
  <2> USE DEF HistoryInit, TableInit, RotatorInit
  <2>1. RotatorTypeOK
    <3>1. advance \in [Callers -> {"out", "waiting", "listed"}]
        OBVIOUS
    <3>2. snap \in Snapshot
        BY DEF Snapshot
    <3>3. unchecked \in 0 .. NoProxyWait
        BY RotatorAssumption
    <3> QED
        BY <3>1, <3>2, <3>3 DEF RotatorTypeOK
  <2>2. HistoryTypeOK
      BY <2>1, TableAssumption, FS_EmptySet DEF HistoryTypeOK, TableTypeOK
  <2>3. Identified /\ InOrder /\ Behind
      BY DEF Identified, Known, InOrder, Later, Behind, HasProxy
  <2> QED
      BY <2>2, <2>3 DEF HistoryInv
<1>2. HistoryInv /\ [HistoryNext]_historyVars => HistoryInv'
    BY HistoryTypeStep, OrderStep, BehindStep DEF HistoryInv
<1> QED
    BY <1>1, <1>2, PTL DEF HistorySpec

\* Mutex, index, snapshot and ticker keep their types.
THEOREM RotatorTypes == HistorySpec => []RotatorTypeOK
<1>1. HistoryInv => RotatorTypeOK
    BY DEF HistoryInv, HistoryTypeOK
<1> QED
    BY <1>1, HistoryInvariance, PTL

\* Unless a listed proxy has left, the next exit is the one that followed the
\* old one, whatever has entered since and whoever asks for the change.
THEOREM TakenInTurn == HistorySpec => RoundRobin
<1> DEFINE InTurn == \A c \in Callers :
               Published(c) /\ HasProxy /\ previous \subseteq listed
                   => snap'.row = NextInTurn(snap.row, previous)
<1>1. ASSUME HistoryInv, NEW c \in Callers, Published(c), HasProxy, previous \subseteq listed
      PROVE  snap'.row = NextInTurn(snap.row, previous)
  <2> DEFINE n == Cardinality(previous)
             m == Cardinality(listed)
             k == IF Rank(snap.row, previous) + 1 = n THEN 0 ELSE Rank(snap.row, previous) + 1
  <2>1. /\ previous \in SUBSET Row /\ listed \in SUBSET Row
        /\ IsFiniteSet(previous) /\ IsFiniteSet(listed)
        /\ Later(previous, listed) /\ snap.row \in previous
        /\ idx = Wrapped(Rank(snap.row, previous) + 1, n)
      BY <1>1 DEF HistoryInv, HistoryTypeOK, RotatorTypeOK, InOrder, Behind
  <2>2. n \in Nat /\ m \in Nat /\ n <= m
      BY <1>1, <2>1, FS_CardinalityType, FS_Subset
  <2>3. Rank(snap.row, previous) \in Nat /\ Rank(snap.row, previous) < n
      BY <2>1, RankType
  <2>4. idx = k /\ k < n /\ Wrapped(idx, m) = k
      BY <2>1, <2>2, <2>3 DEF Wrapped
  <2>5. PICK p \in listed : Rank(p, listed) = k /\ snap'.row = p
      BY <1>1, <2>1, <2>4, PublishesOne DEF Published, HistoryInv
  <2>6. p \in previous /\ Rank(p, previous) = k
      BY <1>1, <2>1, <2>2, <2>4, <2>5, RanksLast
  <2>7. ASSUME NEW q \in previous, Rank(q, previous) = k PROVE q = p
      BY <1>1, <2>1, <2>6, <2>7, RankInjective DEF HistoryInv, Identified, Known
  <2> QED
      BY <2>5, <2>6, <2>7 DEF NextInTurn
<1>2. HistoryInv /\ [HistoryNext]_historyVars => [InTurn]_historyVars
    BY <1>1
<1> QED
    BY <1>2, HistoryInvariance, PTL DEF HistorySpec, RoundRobin

-----------------------------------------------------------------------------
(***************************************************************************)
(* The rotator implements the ring                                         *)
(***************************************************************************)

\* No endpoint is in the table twice, as none is in the ring.
EndpointsUnique == \A r, s \in rows : r.ep = s.ep => r = s

RingInv == HistoryInv /\ EndpointsUnique

LEMMA RingInvariance == HistorySpec => []RingInv
<1>1. HistoryInit => EndpointsUnique
    BY DEF HistoryInit, TableInit, EndpointsUnique
<1>2. RingInv /\ [HistoryNext]_historyVars => EndpointsUnique'
  <2> SUFFICES ASSUME RingInv, [HistoryNext]_historyVars PROVE EndpointsUnique'
      OBVIOUS
  <2>1. CASE TableChanges
      BY <2>1 DEF RingInv, EndpointsUnique, TableChanges, UpsertUsableProxy, Stored,
         DeleteByIDs, tableVars
  <2>2. CASE UNCHANGED tableVars
      BY <2>2 DEF RingInv, EndpointsUnique, tableVars
  <2> QED
      BY <2>1, <2>2, KnownSteps DEF RingInv, HistoryInv, HistoryNext, Published, AdvancePublish,
         AdvanceList, AdvanceFails, AdminAdvance, LoopTick, Second, historyVars
<1> QED
    BY <1>1, <1>2, HistoryInvariance, PTL DEF HistorySpec, RingInv

\* The rows of the table are a table.
LEMMA RowsTable == RingInv => Table(rows)
  BY DEF RingInv, HistoryInv, HistoryTypeOK, TableTypeOK, Identified, Known, Table

\* What a waiting caller picks is the row at the index, and no other.
LEMMA PickedOne ==
    ASSUME RingInv, NEW p \in listed, Rank(p, listed) = Wrapped(idx, Cardinality(listed))
    PROVE  Picked = p
<1>1. Table(listed)
    BY DEF RingInv, HistoryInv, HistoryTypeOK, RotatorTypeOK, Identified, Known, Table
<1>2. \A q \in listed : Rank(q, listed) = Rank(p, listed) => q = p
    BY <1>1, RankInjective DEF Table
<1> QED
    BY <1>2 DEF Picked

\* Cursor and exit of the ring depend on these variables only.
LEMMA BarsKept ==
    ASSUME UNCHANGED <<mu, listed, idx>>, snap'.row = snap.row
    PROVE  UNCHANGED <<cursorBar, exitBar>>
  BY DEF cursorBar, exitBar, InFlight, Picked, HasProxy

\* An Advance is a turn of the ring when it lists the table.
LEMMA ListTurns ==
    ASSUME RingInv, NEW c \in Callers, AdvanceList(c)
    PROVE  Ring!Advance
<1> DEFINE n == Cardinality(rows)
<1>1. /\ ~ InFlight /\ InFlight' /\ listed' = rows /\ idx' = idx /\ ringBar' = ringBar
    BY RotatorAssumption DEF AdvanceList, InFlight, tableVars, ringBar
<1>2. n \in Nat /\ Len(ringBar) = n /\ ringBar \in Seq(Endpoints) /\ idx \in Nat
    BY RowsTable, ListingMembers DEF ringBar, RingInv, HistoryInv, HistoryTypeOK, RotatorTypeOK
<1>3. CASE rows = {}
  <2>1. n = 0
      BY <1>3, FS_EmptySet
  <2>2. ringBar = <<>>
      BY <1>2, <2>1, EmptySeq
  <2>3. cursorBar' = 0 /\ exitBar' = NoRow
      BY <1>1, <1>3 DEF cursorBar, exitBar
  <2> QED
      BY <1>1, <2>2, <2>3 DEF Ring!Advance, Ring!Turn
<1>4. CASE rows # {}
  <2>1. n # 0 /\ ringBar # <<>>
      BY <1>2, <1>4, FS_EmptySet, RowsTable, EmptySeq DEF Table
  <2> DEFINE i == Wrapped(idx, n)
  <2>2. i \in Nat /\ i < n /\ cursorBar = idx
      BY <1>1, <1>2, <2>1 DEF Wrapped, cursorBar
  <2>3. Ring!Wrap(cursorBar) = i /\ Ring!Wrap(i + 1) = Wrapped(i + 1, n)
      BY <1>2, <2>2 DEF Ring!Wrap, Wrapped
  <2>4. cursorBar' = Wrapped(i + 1, n)
      BY <1>1, <1>4 DEF cursorBar
  <2>5. exitBar' = (CHOOSE p \in rows : Rank(p, rows) = i).ep
      BY <1>1, <1>4 DEF exitBar, Picked
  <2> HIDE DEF i
  <2>6. ringBar[i + 1] = (CHOOSE p \in rows : Rank(p, rows) = (i + 1) - 1).ep
      BY <1>2, <2>2 DEF ringBar, Listing
  <2>7. (i + 1) - 1 = i
      BY <2>2
  <2>8. exitBar' = ringBar[Ring!Wrap(cursorBar) + 1]
      BY <2>3, <2>5, <2>6, <2>7
  <2>9. cursorBar' = Ring!Wrap(Ring!Wrap(cursorBar) + 1)
      BY <2>3, <2>4
  <2> QED
      BY <1>1, <2>1, <2>8, <2>9 DEF Ring!Advance, Ring!Turn
<1> QED
    BY <1>3, <1>4

\* What it publishes was decided by then.
LEMMA PublishStutters ==
    ASSUME RingInv, NEW c \in Callers, Published(c)
    PROVE  UNCHANGED <<ringBar, cursorBar, exitBar>>
<1>1. InFlight /\ ~ InFlight' /\ ringBar' = ringBar
    BY RotatorAssumption DEF Published, AdvancePublish, InFlight, tableVars, ringBar
<1>2. HistoryTypeOK /\ AdvancePublish(c)
    BY DEF RingInv, HistoryInv, Published
<1>3. CASE listed = {} /\ idx' = 0 /\ \E h \in Nat : snap' = [row |-> NoRow, left |-> h]
    BY <1>1, <1>3 DEF cursorBar, exitBar, HasProxy
<1>4. ASSUME NEW p \in listed, NEW h \in Nat,
             Rank(p, listed) = Wrapped(idx, Cardinality(listed)),
             idx' = Wrapped(Rank(p, listed) + 1, Cardinality(listed)),
             snap' = [row |-> p, left |-> h]
      PROVE  UNCHANGED <<cursorBar, exitBar>>
  <2>1. Picked = p
      BY <1>4, PickedOne
  <2>2. p # NoRow
      BY <1>2, RotatorAssumption DEF HistoryTypeOK, RotatorTypeOK
  <2>3. cursorBar' = idx' /\ exitBar' = p.ep
      BY <1>1, <1>4, <2>2 DEF cursorBar, exitBar, HasProxy
  <2>4. cursorBar = idx' /\ exitBar = p.ep
      BY <1>1, <1>4, <2>1 DEF cursorBar, exitBar
  <2> QED
      BY <2>3, <2>4
<1> QED
    BY <1>1, <1>2, <1>3, <1>4, PublishesOne

\* Who is inserted enters the ring at its end, who is deleted leaves it, and an
\* upsert of a stored proxy is not seen.
LEMMA ChangesEnterOrLeave ==
    ASSUME RingInv, TableChanges
    PROVE  \/ UNCHANGED <<ringBar, cursorBar, exitBar>>
           \/ \E e \in Endpoints : Ring!Enter(e)
           \/ \E S \in SUBSET Endpoints : Ring!Leave(S)
<1>1. UNCHANGED <<cursorBar, exitBar>>
    BY BarsKept DEF TableChanges, rotatorVars
<1>2. Table(rows) /\ ringBar = Listing(rows) /\ ringBar' = Listing(rows')
    BY RowsTable DEF ringBar
<1>3. CASE UNCHANGED tableVars
    BY <1>1, <1>2, <1>3 DEF tableVars
<1>4. ASSUME NEW e \in Endpoints, ~ Stored(e),
             rows' = rows \union {[id |-> NextID, ep |-> e]}
      PROVE  Ring!Enter(e)
  <2> DEFINE r == [id |-> NextID, ep |-> e]
  <2>1. lastID \in Nat /\ NextID = lastID + 1 /\ \A s \in rows : s.id \in Nat /\ s.id <= lastID
      BY DEF RingInv, HistoryInv, HistoryTypeOK, TableTypeOK, Identified, Known, Row, NextID
  <2>2. r \in Row /\ r.ep = e /\ \A s \in rows : s.id < r.id
      BY <2>1 DEF Row
  <2>3. ringBar' = Append(ringBar, e)
      BY <1>2, <1>4, <2>2, ListingEntered
  <2>4. ASSUME NEW i \in DOMAIN ringBar PROVE ringBar[i] # e
    <3>1. i \in 1 .. Cardinality(rows)
        BY <1>2, ListingMembers
    <3>2. PICK s \in rows : Rank(s, rows) + 1 = i
        BY <1>2, <3>1, ListingMembers
    <3>3. ringBar[i] = s.ep
        BY <1>2, <3>2, ListingMembers
    <3> QED
        BY <1>4, <3>3 DEF Stored
  <2> QED
      BY <1>1, <2>3, <2>4 DEF Ring!Enter, Ring!Range
<1>5. ASSUME rows' \subseteq rows
      PROVE  \E S \in SUBSET Endpoints : Ring!Leave(S)
  <2> DEFINE S == {r.ep : r \in rows \ rows'}
             T == StayingRows(rows, rows')
  <2>1. S \in SUBSET Endpoints
      BY <1>2 DEF Table, Row
  <2>2. \A r, s \in rows : r.ep = s.ep => r = s
      BY DEF RingInv, EndpointsUnique
  <2>3. Ring!Staying(S) = T
      BY <1>2 DEF Ring!Staying, StayingRows
  <2> HIDE DEF S
  <2>4. ringBar' = [k \in 1 .. Cardinality(T) |-> ringBar[Ring!Nth(k, T)]]
      BY <1>2, <1>5, <2>2, ListingLeft
  <2> HIDE DEF T
  <2>5. Ring!Leave(S)
      BY <1>1, <2>3, <2>4, RingCounts DEF Ring!Leave
  <2> QED
      BY <2>1, <2>5
<1>6. CASE \E ids : DeleteByIDs(ids)
    BY <1>5, <1>6 DEF DeleteByIDs
<1>7. ASSUME NEW e \in Endpoints, UpsertUsableProxy(e)
      PROVE  UNCHANGED tableVars \/ Ring!Enter(e)
    BY <1>4, <1>7 DEF UpsertUsableProxy
<1> QED
    BY <1>3, <1>6, <1>7 DEF TableChanges

\* What mutex, listings, snapshots and ids amount to: every behaviour of the
\* rotator on a table that anyone may change is one of the ring, for any number
\* of proxies and callers (rotator.go:42-82).
THEOREM RotatorImplementsRing == HistorySpec => ImplementsRing
<1>1. HistoryInit => Ring!RingInit
  <2> SUFFICES ASSUME HistoryInit PROVE Ring!RingInit
      OBVIOUS
  <2>1. rows = {} /\ ~ InFlight /\ idx = 0 /\ ~ HasProxy
      BY DEF HistoryInit, TableInit, RotatorInit, InFlight, HasProxy
  <2>2. Table({}) /\ Cardinality({}) = 0
      BY FS_EmptySet DEF Table
  <2>3. ringBar = <<>>
      BY <2>1, <2>2, ListingMembers, EmptySeq DEF ringBar
  <2> QED
      BY <2>1, <2>3 DEF Ring!RingInit, cursorBar, exitBar
<1>2. RingInv /\ [HistoryNext]_historyVars => [Ring!RingNext]_(Ring!ringVars)
  <2> SUFFICES ASSUME RingInv, [HistoryNext]_historyVars
               PROVE  Ring!RingNext \/ UNCHANGED <<ringBar, cursorBar, exitBar>>
      BY DEF Ring!ringVars
  <2>1. ASSUME NEW c \in Callers, AdvanceList(c) PROVE Ring!RingNext
      BY <2>1, ListTurns DEF Ring!RingNext
  <2>2. ASSUME NEW c \in Callers, Published(c) PROVE UNCHANGED <<ringBar, cursorBar, exitBar>>
      BY <2>2, PublishStutters
  <2>3. CASE TableChanges
      BY <2>3, ChangesEnterOrLeave DEF Ring!RingNext
  <2>4. CASE UNCHANGED <<rows, mu, listed, idx>> /\ snap'.row = snap.row
      BY <2>4, BarsKept DEF ringBar
  <2>5. CASE Second
    <3>1. snap'.row = snap.row
        BY <2>5 DEF Second, RingInv, HistoryInv, HistoryTypeOK, RotatorTypeOK, Snapshot
    <3> QED
        BY <2>4, <2>5, <3>1 DEF Second, tableVars
  <2>6. CASE (\E c \in Callers : AdvanceFails(c)) \/ (\E a \in Admins : AdminAdvance(a)) \/ LoopTick
      BY <2>4, <2>6 DEF AdvanceFails, AdminAdvance, LoopTick, tableVars
  <2>7. CASE UNCHANGED historyVars
      BY <2>4, <2>7 DEF historyVars, tableVars, rotatorVars
  <2> QED
      BY <2>1, <2>2, <2>3, <2>5, <2>6, <2>7 DEF HistoryNext
<1> QED
    BY <1>1, <1>2, RingInvariance, PTL DEF HistorySpec, ImplementsRing, Ring!RingSafety

=============================================================================
