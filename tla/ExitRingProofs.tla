--------------------------- MODULE ExitRingProofs ---------------------------
(***************************************************************************)
(* What is certain about the ring for any number of proxies: whoever       *)
(* enters and leaves, nobody is in it twice.                               *)
(***************************************************************************)
EXTENDS ExitRing, RankTheorems, SequenceTheorems

\* Nth counts a finite set of numbers from 1 on, each member once.
LEMMA NthPlace ==
    ASSUME NEW T \in SUBSET Nat, IsFiniteSet(T), NEW k \in 1 .. Cardinality(T)
    PROVE  /\ Nth(k, T) \in T
           /\ Cardinality({j \in T : j < Nth(k, T)}) = k - 1
<1>1. \E i \in T : Cardinality({j \in T : j < i}) = k - 1
  <2>1. k - 1 \in Nat /\ k - 1 < Cardinality(T)
      BY FS_CardinalityType
  <2> QED
      BY <2>1, NumberTaken
<1> QED
    BY <1>1 DEF Nth

\* Nobody who stays loses his place or gets two.
LEMMA LeaveTypes ==
    ASSUME RingTypeOK, NEW S, Leave(S)
    PROVE  RingTypeOK'
<1> DEFINE T == Staying(S)
           n == Cardinality(T)
<1>1. /\ Len(ring) \in Nat
      /\ \A i \in 1 .. Len(ring) : ring[i] \in Endpoints
      /\ \A i, j \in 1 .. Len(ring) : ring[i] = ring[j] => i = j
    BY LenProperties DEF RingTypeOK, IsInjective
<1>2. T \in SUBSET (1 .. Len(ring)) /\ T \in SUBSET Nat
    BY <1>1 DEF Staying
<1>3. IsFiniteSet(T) /\ n \in Nat
  <2>1. IsFiniteSet(1 .. Len(ring))
      BY <1>1, FS_Interval
  <2>2. IsFiniteSet(T)
      BY <1>2, <2>1, FS_Subset
  <2> QED
      BY <2>2, FS_CardinalityType
<1>4. \A k \in 1 .. n : Nth(k, T) \in T
    BY <1>2, <1>3, NthPlace
<1>5. \A k, l \in 1 .. n : Nth(k, T) = Nth(l, T) => k = l
  <2> SUFFICES ASSUME NEW k \in 1 .. n, NEW l \in 1 .. n, Nth(k, T) = Nth(l, T)
               PROVE  k = l
      OBVIOUS
  <2>1. k - 1 = l - 1
      BY <1>2, <1>3, NthPlace
  <2> QED
      BY <2>1
<1>6. ring' = [k \in 1 .. n |-> ring[Nth(k, T)]]
    BY DEF Leave
<1> HIDE DEF T, n
<1>7. ring' \in [1 .. n -> Endpoints]
    BY <1>1, <1>2, <1>4, <1>6
<1>8. ring' \in Seq(Endpoints)
    BY <1>3, <1>7, SeqDef
<1>9. IsInjective(ring')
    BY <1>1, <1>2, <1>4, <1>5, <1>6 DEF IsInjective
<1> QED
    BY <1>8, <1>9 DEF RingTypeOK, Leave

LEMMA EnterTypes ==
    ASSUME RingTypeOK, NEW e \in Endpoints, Enter(e)
    PROVE  RingTypeOK'
<1> DEFINE n == Len(ring)
<1>1. n \in Nat /\ DOMAIN ring = 1 .. n /\ ring \in Seq(Endpoints)
    BY LenProperties DEF RingTypeOK
<1>2. ring' = Append(ring, e) /\ \A i \in 1 .. n : ring[i] # e
    BY <1>1 DEF Enter, Range
<1>3. /\ ring' \in Seq(Endpoints) /\ Len(ring') = n + 1
      /\ \A i \in 1 .. n : ring'[i] = ring[i]
      /\ ring'[n + 1] = e
    BY <1>1, <1>2, AppendProperties
<1>4. DOMAIN ring' = 1 .. n + 1
    BY <1>3, LenProperties
<1>5. IsInjective(ring')
    BY <1>1, <1>2, <1>3, <1>4 DEF IsInjective, RingTypeOK
<1> QED
    BY <1>3, <1>5 DEF RingTypeOK, Enter

\* The cursor and the exit of a turn are of the type.
LEMMA TurnTypes ==
    ASSUME RingTypeOK, Advance
    PROVE  RingTypeOK'
<1>1. ring # <<>> => Len(ring) \in Nat \ {0}
    BY EmptySeq DEF RingTypeOK
<1>2. ring # <<>> => Wrap(cursor) + 1 \in 1 .. Len(ring)
    BY <1>1 DEF Wrap, RingTypeOK
<1>3. \A i \in 1 .. Len(ring) : ring[i] \in Endpoints
    BY ElementOfSeq DEF RingTypeOK
<1>4. exit' \in Endpoints \cup {NoExit} /\ cursor' \in Nat
    BY <1>2, <1>3 DEF Advance, Turn, Wrap, RingTypeOK
<1> QED
    BY <1>4 DEF RingTypeOK, Advance

-----------------------------------------------------------------------------
\* Whoever enters and leaves, and however often, no proxy is in the ring twice,
\* so none gets two turns in a round.
THEOREM RingTypes == RingSafety => []RingTypeOK
<1>1. RingInit => RingTypeOK
    BY EmptySeq DEF RingInit, RingTypeOK, IsInjective
<1>2. RingTypeOK /\ [RingNext]_ringVars => RingTypeOK'
  <2> SUFFICES ASSUME RingTypeOK, [RingNext]_ringVars PROVE RingTypeOK'
      OBVIOUS
  <2>1. CASE UNCHANGED ringVars
      BY <2>1 DEF ringVars, RingTypeOK
  <2> QED
      BY <2>1, EnterTypes, LeaveTypes, TurnTypes DEF RingNext
<1> QED
    BY <1>1, <1>2, PTL DEF RingSafety

=============================================================================
