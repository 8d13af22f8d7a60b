-------------------------- MODULE EventStoreProofs --------------------------
(***************************************************************************)
(* What pruning keeps, for every table and every retention.  The set         *)
(* Newest(S, n) models SELECT id ... ORDER BY id DESC LIMIT n; these lemmas  *)
(* say that it has n elements or all of them, and that they are the largest. *)
(***************************************************************************)
EXTENDS EventStore, FiniteSetTheorems, TLAPS

\* How many elements of S are greater than i: the place of i in the listing.
Above(S, i) == {j \in S : j > i}

(***************************************************************************)
(* The place of a row in the newest-first listing of a finite table is a    *)
(* bijection onto 0 .. size - 1: no two rows share a place and none is free. *)
(***************************************************************************)
LEMMA RankIsBijection ==
  ASSUME NEW S \in SUBSET Nat, IsFiniteSet(S),
         NEW rank, rank = [i \in S |-> Cardinality(Above(S, i))]
  PROVE  /\ Cardinality(S) \in Nat
         /\ rank \in Injection(S, 0..(Cardinality(S) - 1))
         /\ rank \in Surjection(S, 0..(Cardinality(S) - 1))
<1>1. Cardinality(S) \in Nat
  BY FS_CardinalityType
<1>2. \A i \in S : /\ IsFiniteSet(Above(S, i))
                   /\ Cardinality(Above(S, i)) \in 0..(Cardinality(S) - 1)
  <2>1. TAKE i \in S
  <2>2. Above(S, i) \subseteq S \ {i}
    BY DEF Above
  <2>3. IsFiniteSet(S \ {i}) /\ Cardinality(S \ {i}) = Cardinality(S) - 1
    BY FS_RemoveElement
  <2>4. /\ IsFiniteSet(Above(S, i))
        /\ Cardinality(Above(S, i)) <= Cardinality(S) - 1
    BY <2>2, <2>3, FS_Subset
  <2>5. Cardinality(Above(S, i)) \in Nat
    BY <2>4, FS_CardinalityType
  <2>. QED  BY <1>1, <2>4, <2>5
<1>3. \A i, k \in S : i < k => Cardinality(Above(S, i)) > Cardinality(Above(S, k))
  <2>1. SUFFICES ASSUME NEW i \in S, NEW k \in S, i < k
                 PROVE  Cardinality(Above(S, i)) > Cardinality(Above(S, k))
    OBVIOUS
  <2>2. Above(S, k) \cup {k} \subseteq Above(S, i)
    <3>1. ASSUME NEW j \in Above(S, k) \cup {k} PROVE j \in S /\ j > i
      <4>1. j \in S /\ (j = k \/ j > k)
        BY DEF Above
      <4>. QED  BY <2>1, <4>1
    <3>. QED  BY <3>1 DEF Above
  <2>3. k \notin Above(S, k)
    BY DEF Above
  <2>4. Cardinality(Above(S, k) \cup {k}) = Cardinality(Above(S, k)) + 1
    BY <1>2, <2>3, FS_AddElement
  <2>5. Cardinality(Above(S, k) \cup {k}) <= Cardinality(Above(S, i))
    BY <1>2, <2>2, FS_Subset
  <2>. QED  BY <1>1, <1>2, <2>4, <2>5
<1>4. rank \in Injection(S, 0..(Cardinality(S) - 1))
  <2>1. rank \in [S -> 0..(Cardinality(S) - 1)]
    BY <1>2
  <2>2. \A i, k \in S : rank[i] = rank[k] => i = k
    <3>1. SUFFICES ASSUME NEW i \in S, NEW k \in S, rank[i] = rank[k], i # k
                   PROVE  FALSE
      OBVIOUS
    <3>2. rank[i] = Cardinality(Above(S, i)) /\ rank[k] = Cardinality(Above(S, k))
      OBVIOUS
    <3>3. i < k \/ k < i
      BY <3>1
    <3>. QED  BY <1>1, <1>2, <1>3, <3>1, <3>2, <3>3
  <2>. QED  BY <2>1, <2>2 DEF Injection, IsInjective
<1>5. /\ IsFiniteSet(0..(Cardinality(S) - 1))
      /\ Cardinality(0..(Cardinality(S) - 1)) = Cardinality(S)
  BY <1>1, FS_Interval
<1>6. rank \in Surjection(S, 0..(Cardinality(S) - 1))
  BY <1>4, <1>5, FS_Injection
<1>. QED  BY <1>1, <1>4, <1>6

(***************************************************************************)
(* Pruning keeps exactly min(size, n) rows: the bound of the table is met    *)
(* after every pruning, and no row is deleted that the bound leaves room for.*)
(***************************************************************************)
LEMMA NewestCardinality ==
  ASSUME NEW S \in SUBSET Nat, IsFiniteSet(S), NEW n \in Nat
  PROVE  /\ IsFiniteSet(Newest(S, n))
         /\ Cardinality(Newest(S, n)) =
              (IF Cardinality(S) < n THEN Cardinality(S) ELSE n)
<1>. DEFINE rank == [i \in S |-> Cardinality(Above(S, i))]
            m == IF Cardinality(S) < n THEN Cardinality(S) ELSE n
            N == Newest(S, n)
            r == [i \in N |-> rank[i]]
<1>1. /\ Cardinality(S) \in Nat
      /\ rank \in Injection(S, 0..(Cardinality(S) - 1))
      /\ rank \in Surjection(S, 0..(Cardinality(S) - 1))
  BY RankIsBijection
<1>2. N = {i \in S : rank[i] < n}
  BY DEF Newest, Above
<1>3. m \in Nat
  BY <1>1
<1>4. \A i \in S : rank[i] \in 0..(Cardinality(S) - 1)
  BY <1>1 DEF Injection
<1>5. \A i \in N : i \in S /\ r[i] = rank[i] /\ rank[i] \in 0..(m - 1)
  <2>. HIDE DEF rank, N
  <2>1. TAKE i \in N
  <2>2. i \in S /\ rank[i] < n /\ r[i] = rank[i]
    BY <1>2
  <2>3. rank[i] \in 0..(Cardinality(S) - 1)
    BY <1>4, <2>2
  <2>. QED  BY <1>1, <2>2, <2>3
<1>6. r \in Bijection(N, 0..(m - 1))
  <2>. HIDE DEF rank, N
  <2>1. r \in [N -> 0..(m - 1)]
    BY <1>5
  <2>2. \A i, k \in N : r[i] = r[k] => i = k
    BY <1>1, <1>5 DEF Injection, IsInjective
  <2>3. \A p \in 0..(m - 1) : \E i \in N : r[i] = p
    <3>1. TAKE p \in 0..(m - 1)
    <3>2. p \in 0..(Cardinality(S) - 1) /\ p < n
      BY <1>1, <1>3
    <3>3. PICK i \in S : rank[i] = p
      BY <1>1, <3>2 DEF Surjection
    <3>. QED  BY <1>2, <1>5, <3>2, <3>3
  <2>. QED  BY <2>1, <2>2, <2>3 DEF Bijection, Injection, Surjection, IsInjective
<1>7. IsFiniteSet(N)
  BY FS_Subset DEF Newest
<1>8. ExistsBijection(N, 0..(m - 1))
  BY <1>6 DEF ExistsBijection
<1>9. Cardinality(0..(m - 1)) = Cardinality(N)
  <2>. HIDE DEF N, m
  <2>. QED  BY <1>7, <1>8, FS_Bijection
<1>10. Cardinality(0..(m - 1)) = m
  <2>. HIDE DEF m
  <2>. QED  BY <1>3, FS_Interval
<1>. QED  BY <1>7, <1>9, <1>10

(***************************************************************************)
(* A row is pruned only when n rows stay: no row goes while there is room.   *)
(***************************************************************************)
LEMMA PrunedOnlyWhenFull ==
  ASSUME NEW S \in SUBSET Nat, IsFiniteSet(S), NEW n \in Nat,
         NEW i \in S, i \notin Newest(S, n)
  PROVE  Cardinality(Newest(S, n)) = n
<1>. DEFINE rank == [k \in S |-> Cardinality(Above(S, k))]
<1>1. /\ Cardinality(S) \in Nat
      /\ rank \in Injection(S, 0..(Cardinality(S) - 1))
  BY RankIsBijection
<1>2. rank[i] \in 0..(Cardinality(S) - 1)
  BY <1>1 DEF Injection
<1>3. ~(rank[i] < n)
  BY DEF Newest, Above
<1>4. ~(Cardinality(S) < n)
  <2>. HIDE DEF rank
  <2>. QED  BY <1>1, <1>2, <1>3
<1>. QED  BY <1>4, NewestCardinality

(***************************************************************************)
(* Pruning is by age: whatever goes is older than everything that stays.     *)
(***************************************************************************)
LEMMA PrunedAreOldest ==
  ASSUME NEW S \in SUBSET Nat, IsFiniteSet(S), NEW n \in Nat,
         NEW i \in S, i \notin Newest(S, n), NEW k \in Newest(S, n)
  PROVE  i < k
<1>1. k \in S /\ Cardinality(Above(S, k)) < n /\ ~(Cardinality(Above(S, i)) < n)
  BY DEF Newest, Above
<1>2. i # k
  OBVIOUS
<1>3. SUFFICES ASSUME k < i PROVE FALSE
  BY <1>1, <1>2
<1>4. Above(S, i) \subseteq Above(S, k)
  <2>1. ASSUME NEW j \in Above(S, i) PROVE j \in S /\ j > k
    <3>1. j \in S /\ j > i
      BY DEF Above
    <3>. QED  BY <1>1, <1>3, <3>1
  <2>. QED  BY <2>1 DEF Above
<1>5. IsFiniteSet(Above(S, k)) /\ IsFiniteSet(Above(S, i))
  BY FS_Subset DEF Above
<1>6. Cardinality(Above(S, i)) <= Cardinality(Above(S, k))
  BY <1>4, <1>5, FS_Subset
<1>7. Cardinality(Above(S, i)) \in Nat /\ Cardinality(Above(S, k)) \in Nat
  BY <1>5, FS_CardinalityType
<1>. QED  BY <1>1, <1>6, <1>7

=============================================================================
