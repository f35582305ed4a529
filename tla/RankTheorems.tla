---------------------------- MODULE RankTheorems ----------------------------
(***************************************************************************)
(* Places in a list that is sorted by a number of its own for every        *)
(* member: what ORDER BY id makes of the rows of a table, and what the     *)
(* members of a sequence that stay make of their places.  The members of a *)
(* finite set S are counted from 0 in the order of `key`, and the place of *)
(* one is the number of those before it.                                   *)
(***************************************************************************)
EXTENDS Integers, FiniteSets, FiniteSetTheorems, TLAPS

Before(r, S, key) == {s \in S : key[s] < key[r]}

Place(r, S, key) == Cardinality(Before(r, S, key))

\* Every member has a number of its own.
Sorts(key, S) == /\ key \in [S -> Nat]
                 /\ \A r, s \in S : key[r] = key[s] => r = s

-----------------------------------------------------------------------------
\* A place is one of the places there are.
LEMMA PlaceType ==
    ASSUME NEW S, IsFiniteSet(S), NEW key \in [S -> Nat], NEW r \in S
    PROVE  /\ IsFiniteSet(Before(r, S, key))
           /\ Place(r, S, key) \in Nat
           /\ Cardinality(S) \in Nat
           /\ Place(r, S, key) < Cardinality(S)
<1> DEFINE B == Before(r, S, key)
<1>1. B \in SUBSET S /\ r \notin B
    BY DEF Before
<1>2. IsFiniteSet(B) /\ Cardinality(B) <= Cardinality(S) /\ Cardinality(S) # Cardinality(B)
    BY <1>1, FS_Subset
<1>3. Cardinality(B) \in Nat /\ Cardinality(S) \in Nat
    BY <1>2, FS_CardinalityType
<1> QED
    BY <1>2, <1>3 DEF Place

\* Places are in the order of the numbers.
LEMMA PlaceOrder ==
    ASSUME NEW S, IsFiniteSet(S), NEW key \in [S -> Nat], NEW a \in S, NEW b \in S
    PROVE  Place(a, S, key) < Place(b, S, key) <=> key[a] < key[b]
<1> DEFINE B(r) == Before(r, S, key)
<1>1. ASSUME NEW r \in S, NEW s \in S, key[r] < key[s]
      PROVE  Place(r, S, key) < Place(s, S, key)
  <2>1. B(r) \in SUBSET B(s) /\ r \in B(s) /\ r \notin B(r)
      BY <1>1 DEF Before
  <2>2. IsFiniteSet(B(s))
      BY PlaceType
  <2>3. Cardinality(B(r)) <= Cardinality(B(s)) /\ Cardinality(B(r)) # Cardinality(B(s))
      BY <2>1, <2>2, FS_Subset
  <2>4. Place(r, S, key) \in Nat /\ Place(s, S, key) \in Nat
      BY PlaceType
  <2> QED
      BY <2>3, <2>4 DEF Place
<1>2. ASSUME key[a] = key[b] PROVE Place(a, S, key) = Place(b, S, key)
    BY <1>2 DEF Place, Before
<1>3. key[a] \in Nat /\ key[b] \in Nat /\ Place(a, S, key) \in Nat /\ Place(b, S, key) \in Nat
    BY PlaceType
<1> QED
    BY <1>1, <1>2, <1>3

\* Every place is taken, by one member only.
LEMMA PlaceTaken ==
    ASSUME NEW S, IsFiniteSet(S), NEW key, Sorts(key, S),
           NEW k \in Nat, k < Cardinality(S)
    PROVE  \E r \in S : /\ Place(r, S, key) = k
                        /\ \A s \in S : Place(s, S, key) = k => s = r
<1> DEFINE n == Cardinality(S)
           place == [r \in S |-> Place(r, S, key)]
<1>1. n \in Nat /\ key \in [S -> Nat]
    BY FS_CardinalityType DEF Sorts
<1>2. \A r \in S : Place(r, S, key) \in 0 .. n - 1
    BY <1>1, PlaceType
<1>3. ASSUME NEW r \in S, NEW s \in S, Place(r, S, key) = Place(s, S, key) PROVE r = s
  <2>1. ~ (key[r] < key[s]) /\ ~ (key[s] < key[r])
      BY <1>1, <1>2, <1>3, PlaceOrder
  <2>2. key[r] \in Nat /\ key[s] \in Nat
      BY <1>1
  <2> QED
      BY <2>1, <2>2 DEF Sorts
<1>4. place \in Injection(S, 0 .. n - 1)
    BY <1>2, <1>3 DEF Injection, IsInjective
<1>5. IsFiniteSet(0 .. n - 1) /\ Cardinality(0 .. n - 1) = n
  <2>1. \A m \in Nat : IsFiniteSet(0 .. m - 1) /\ Cardinality(0 .. m - 1) = m
      BY FS_Interval
  <2> QED
      BY <1>1, <2>1
<1> HIDE DEF place
<1>6. place \in Surjection(S, 0 .. n - 1)
    BY <1>4, <1>5, FS_Injection
<1>7. PICK r \in S : place[r] = k
  <2>1. k \in 0 .. n - 1
      BY <1>1
  <2> QED
      BY <1>6, <2>1 DEF Surjection
<1>8. place[r] = Place(r, S, key)
    BY DEF place
<1> QED
    BY <1>3, <1>7, <1>8

\* Of a finite set of numbers one is the k-th, and no two are.
LEMMA NumberTaken ==
    ASSUME NEW T \in SUBSET Nat, IsFiniteSet(T)
    PROVE  /\ \A k \in Nat : k < Cardinality(T) =>
                  \E i \in T : Cardinality({j \in T : j < i}) = k
           /\ \A h, i \in T : Cardinality({j \in T : j < h}) = Cardinality({j \in T : j < i})
                                 => h = i
<1> DEFINE key == [i \in T |-> i]
<1>1. Sorts(key, T) /\ \A i \in T : key[i] = i
    BY DEF Sorts
<1>2. \A r \in T : {j \in T : j < r} = Before(r, T, key)
    BY DEF Before
<1> HIDE DEF key
<1>3. \A r \in T : Cardinality({j \in T : j < r}) = Place(r, T, key)
    BY <1>2 DEF Place
<1>4. ASSUME NEW h \in T, NEW i \in T, Place(h, T, key) = Place(i, T, key) PROVE h = i
  <2>1. key \in [T -> Nat] /\ key[h] = h /\ key[i] = i
      BY <1>1 DEF Sorts
  <2>2. Place(h, T, key) \in Nat
      BY <2>1, PlaceType
  <2>3. /\ Place(h, T, key) < Place(i, T, key) <=> key[h] < key[i]
        /\ Place(i, T, key) < Place(h, T, key) <=> key[i] < key[h]
      BY <2>1, PlaceOrder
  <2>4. ~ (key[h] < key[i]) /\ ~ (key[i] < key[h]) /\ key[h] \in Nat /\ key[i] \in Nat
      BY <1>4, <2>1, <2>2, <2>3
  <2> QED
      BY <2>1, <2>4
<1>5. ASSUME NEW k \in Nat, k < Cardinality(T) PROVE \E i \in T : Place(i, T, key) = k
  <2>1. Sorts(key, T)
      BY <1>1
  <2> QED
      BY <2>1, <1>5, PlaceTaken
<1> QED
    BY <1>3, <1>4, <1>5

\* Two ways to number the same members agree on the places if they agree on the
\* order.
LEMMA SamePlaces ==
    ASSUME NEW S, NEW T, IsFiniteSet(S), NEW key \in [S -> Nat], NEW num \in [T -> Nat],
           NEW f \in Bijection(S, T),
           \A r, s \in S : key[r] < key[s] <=> num[f[r]] < num[f[s]],
           NEW r \in S
    PROVE  Place(r, S, key) = Place(f[r], T, num)
<1> DEFINE A == Before(r, S, key)
           B == Before(f[r], T, num)
           g == [s \in A |-> f[s]]
<1>1. f \in [S -> T] /\ \A a, b \in S : f[a] = f[b] => a = b
    BY DEF Bijection, Injection, IsInjective
<1>2. \A t \in T : \E s \in S : f[s] = t
    BY DEF Bijection, Surjection
<1>3. g \in [A -> B] /\ IsInjective(g)
    BY <1>1 DEF Before, IsInjective
<1>4. \A t \in B : \E s \in A : g[s] = t
    BY <1>1, <1>2 DEF Before
<1>5. g \in Bijection(A, B)
    BY <1>3, <1>4 DEF Bijection, Injection, Surjection
<1>6. ExistsBijection(A, B)
    BY <1>5 DEF ExistsBijection
<1>7. IsFiniteSet(A)
    BY PlaceType
<1> QED
    BY <1>6, <1>7, FS_Bijection DEF Place

=============================================================================
