-------------------------- MODULE IssuePagesProofs --------------------------
(***************************************************************************)
(* What a client that reads list_issues() or list_comments() page by page    *)
(* may rely on, for every list of issues, page size, first query, and every   *)
(* shape of GitHub's Link header that the constants admit.                    *)
(*                                                                          *)
(* The operators come first: InOrder yields the one ascending listing of a   *)
(* set of places, a stretch of an ascending listing is one, and adjoining    *)
(* stretches make one.  From that follows what an answer lists, with pull     *)
(* requests left out after the page was cut.  Then the links: whatever        *)
(* segments, cursors and rels GitHub's header has, each link that comes out   *)
(* of rewrite_link_header() parses to the same question about another page.  *)
(*                                                                          *)
(* The invariant, PagesInv, ties the answer to the query and the walk to the *)
(* pages since its start.  WalkGathersAll alone is not inductive: it says     *)
(* nothing of the answer whose link the next step follows.                    *)
(***************************************************************************)
EXTENDS IssuePages, FiniteSetTheorems, SequenceTheorems, TLAPS

-----------------------------------------------------------------------------
\* Ascending listings

\* s has the members of S, smallest first and each once.
Ascends(s) == \A p, q \in 1..Len(s) : p < q => s[p] < s[q]

Lists(s, S) == s \in Seq(Nat) /\ Ascends(s) /\ ToSet(s) = S

Below(S, i) == {j \in S : j < i}

\* What membership in a listed sequence means, by places.
LEMMA ToSetIs ==
  ASSUME NEW s \in Seq(Nat)
  PROVE  /\ Len(s) \in Nat /\ DOMAIN s = 1..Len(s)
         /\ \A p \in 1..Len(s) : s[p] \in Nat /\ s[p] \in ToSet(s)
         /\ \A i \in ToSet(s) : \E p \in 1..Len(s) : s[p] = i
         /\ ToSet(s) = {s[p] : p \in 1..Len(s)}
<1>1. Len(s) \in Nat /\ DOMAIN s = 1..Len(s) /\ s \in [1..Len(s) -> Nat]
  BY LenProperties
<1>2. ToSet(s) = {s[p] : p \in 1..Len(s)}
  BY <1>1 DEF ToSet
<1>. QED  BY <1>1, <1>2

\* How many members are smaller: a place of its own for each member, none free.
LEMMA RankIsBijection ==
  ASSUME NEW S \in SUBSET Nat, IsFiniteSet(S),
         NEW rank, rank = [i \in S |-> Cardinality(Below(S, i))]
  PROVE  /\ Cardinality(S) \in Nat
         /\ \A i, k \in S : i < k => rank[i] < rank[k]
         /\ rank \in Injection(S, 0..(Cardinality(S) - 1))
         /\ rank \in Surjection(S, 0..(Cardinality(S) - 1))
<1>1. Cardinality(S) \in Nat
  BY FS_CardinalityType
<1>2. \A i \in S : /\ IsFiniteSet(Below(S, i))
                   /\ Cardinality(Below(S, i)) \in 0..(Cardinality(S) - 1)
  <2>1. TAKE i \in S
  <2>2. Below(S, i) \subseteq S \ {i}
    BY DEF Below
  <2>3. IsFiniteSet(S \ {i}) /\ Cardinality(S \ {i}) = Cardinality(S) - 1
    BY FS_RemoveElement
  <2>4. /\ IsFiniteSet(Below(S, i))
        /\ Cardinality(Below(S, i)) <= Cardinality(S) - 1
    BY <2>2, <2>3, FS_Subset
  <2>5. Cardinality(Below(S, i)) \in Nat
    BY <2>4, FS_CardinalityType
  <2>. QED  BY <1>1, <2>4, <2>5
<1>3. \A i, k \in S : i < k => Cardinality(Below(S, i)) < Cardinality(Below(S, k))
  <2>1. SUFFICES ASSUME NEW i \in S, NEW k \in S, i < k
                 PROVE  Cardinality(Below(S, i)) < Cardinality(Below(S, k))
    OBVIOUS
  <2>2. Below(S, i) \cup {i} \subseteq Below(S, k)
    <3>1. ASSUME NEW j \in Below(S, i) \cup {i} PROVE j \in S /\ j < k
      <4>1. j \in S /\ (j = i \/ j < i)
        BY DEF Below
      <4>. QED  BY <2>1, <4>1
    <3>. QED  BY <3>1 DEF Below
  <2>3. i \notin Below(S, i)
    BY DEF Below
  <2>4. Cardinality(Below(S, i) \cup {i}) = Cardinality(Below(S, i)) + 1
    BY <1>2, <2>3, FS_AddElement
  <2>5. Cardinality(Below(S, i) \cup {i}) <= Cardinality(Below(S, k))
    BY <1>2, <2>2, FS_Subset
  <2>. QED  BY <1>1, <1>2, <2>4, <2>5
<1>4. rank \in Injection(S, 0..(Cardinality(S) - 1))
  <2>1. rank \in [S -> 0..(Cardinality(S) - 1)]
    BY <1>2
  <2>2. \A i, k \in S : rank[i] = rank[k] => i = k
    <3>1. SUFFICES ASSUME NEW i \in S, NEW k \in S, rank[i] = rank[k], i # k
                   PROVE  FALSE
      OBVIOUS
    <3>2. rank[i] = Cardinality(Below(S, i)) /\ rank[k] = Cardinality(Below(S, k))
      OBVIOUS
    <3>3. i < k \/ k < i
      BY <3>1
    <3>. QED  BY <1>1, <1>2, <1>3, <3>1, <3>2, <3>3
  <2>. QED  BY <2>1, <2>2 DEF Injection, IsInjective
<1>5. /\ IsFiniteSet(0..(Cardinality(S) - 1))
      /\ Cardinality(0..(Cardinality(S) - 1)) = Cardinality(S)
  BY <1>1, FS_Interval
<1>6. rank \in Surjection(S, 0..(Cardinality(S) - 1))
  BY <1>4, <1>5, FS_Injection
<1>7. \A i, k \in S : i < k => rank[i] < rank[k]
  BY <1>3
<1>. QED  BY <1>1, <1>4, <1>6, <1>7

\* InOrder yields the places it is given, smallest first.
LEMMA InOrderLists ==
  ASSUME NEW S \in SUBSET (1..MaxItems)
  PROVE  Lists(InOrder[S], S) /\ Len(InOrder[S]) = Cardinality(S) /\ IsFiniteSet(S)
<1> DEFINE n == Cardinality(S)
           rank == [i \in S |-> Cardinality(Below(S, i))]
           listed == InOrder[S]
<1>1. MaxItems \in Nat /\ S \subseteq Nat
  BY PagesAssumption
<1>2. IsFiniteSet(S)
  <2>1. IsFiniteSet(1..MaxItems)
    BY <1>1, FS_Interval
  <2>. QED  BY <2>1, FS_Subset
<1>3. /\ n \in Nat
      /\ \A i, k \in S : i < k => rank[i] < rank[k]
      /\ rank \in Injection(S, 0..(n - 1))
      /\ rank \in Surjection(S, 0..(n - 1))
  BY <1>1, <1>2, RankIsBijection
<1>4. listed = [p \in 1..n |-> CHOOSE i \in S : Cardinality({m \in S : m < i}) = p - 1]
  BY DEF InOrder
<1>5. \A i \in S : rank[i] \in 0..(n - 1)
  BY <1>3 DEF Injection
<1>6. \A p \in 1..n : \E i \in S : rank[i] = p - 1
  <2>1. SUFFICES ASSUME NEW p \in 1..n PROVE \E i \in S : rank[i] = p - 1
    OBVIOUS
  <2>2. p - 1 \in 0..(n - 1)
    BY <1>3
  <2>. QED  BY <1>3, <2>2 DEF Surjection
<1>7. \A i, k \in S : rank[i] = rank[k] => i = k
  BY <1>3 DEF Injection, IsInjective
<1>8. \A i \in S : rank[i] = Cardinality({m \in S : m < i})
  BY DEF Below
<1> HIDE DEF n, rank
<1>9. DOMAIN listed = 1..n /\ \A p \in 1..n : listed[p] \in S /\ rank[listed[p]] = p - 1
  <2>1. SUFFICES ASSUME NEW p \in 1..n
                 PROVE  listed[p] \in S /\ rank[listed[p]] = p - 1
    BY <1>4
  <2>2. \E i \in S : Cardinality({m \in S : m < i}) = p - 1
    BY <1>6, <1>8
  <2>3. listed[p] = CHOOSE i \in S : Cardinality({m \in S : m < i}) = p - 1
    BY <1>4
  <2> HIDE DEF listed
  <2>. QED  BY <1>8, <2>2, <2>3
<1>10. listed \in Seq(Nat) /\ Len(listed) = n
  <2> HIDE DEF listed
  <2>1. listed \in [1..n -> Nat]
    <3>1. \A p \in 1..n : listed[p] \in Nat
      BY <1>1, <1>9
    <3>2. listed = [p \in 1..n |-> CHOOSE i \in S : Cardinality({m \in S : m < i}) = p - 1]
      BY <1>4
    <3>. QED  BY <3>1, <3>2
  <2>2. listed \in Seq(Nat)
    BY <1>3, <2>1, SeqDef
  <2>. QED  BY <1>3, <1>9, <2>2, LenProperties
<1> HIDE DEF listed
<1>11. Ascends(listed)
  <2>1. SUFFICES ASSUME NEW p \in 1..n, NEW q \in 1..n, p < q
                 PROVE  listed[p] < listed[q]
    BY <1>10 DEF Ascends
  <2>2. /\ listed[p] \in S /\ rank[listed[p]] = p - 1
        /\ listed[q] \in S /\ rank[listed[q]] = q - 1
    BY <1>9
  <2>3. listed[p] \in Nat /\ listed[q] \in Nat
    BY <1>1, <2>2
  <2>4. listed[q] < listed[p] => q - 1 < p - 1
    BY <1>3, <2>2
  <2>5. listed[p] = listed[q] => p - 1 = q - 1
    BY <2>2
  <2>6. p \in Int /\ q \in Int
    BY <1>3
  <2>. QED  BY <2>1, <2>3, <2>4, <2>5, <2>6
<1>12. ToSet(listed) = S
  <2>1. ASSUME NEW i \in S PROVE i \in ToSet(listed)
    <3>1. rank[i] \in 0..(n - 1)
      BY <1>5
    <3>2. rank[i] + 1 \in 1..n
      BY <1>3, <3>1
    <3>3. listed[rank[i] + 1] \in S /\ rank[listed[rank[i] + 1]] = (rank[i] + 1) - 1
      BY <1>9, <3>2
    <3>4. rank[listed[rank[i] + 1]] = rank[i]
      BY <3>1, <3>3
    <3>5. listed[rank[i] + 1] = i
      BY <1>7, <3>3, <3>4
    <3>. QED  BY <1>10, <3>2, <3>5, ToSetIs
  <2>2. ToSet(listed) \subseteq S
    BY <1>9, <1>10, ToSetIs
  <2>. QED  BY <2>1, <2>2
<1>. QED  BY <1>2, <1>10, <1>11, <1>12 DEF Lists, listed, n

\* A set of places has one ascending listing.
LEMMA ListingIsUnique ==
  ASSUME NEW S \in SUBSET (1..MaxItems), NEW s, Lists(s, S)
  PROVE  s = InOrder[S]
<1> DEFINE t == InOrder[S]
<1>1. Lists(t, S)
  BY InOrderLists
<1>2. \A u : Lists(u, S) =>
        Len(u) = Cardinality(S)
        /\ \A p \in 1..Len(u) : Cardinality(Below(S, u[p])) = p - 1
  <2>1. SUFFICES ASSUME NEW u, Lists(u, S)
                 PROVE  /\ Len(u) = Cardinality(S)
                        /\ \A p \in 1..Len(u) : Cardinality(Below(S, u[p])) = p - 1
    OBVIOUS
  <2>2. /\ u \in Seq(Nat) /\ Len(u) \in Nat /\ ToSet(u) = S
        /\ \A p \in 1..Len(u) : u[p] \in Nat /\ u[p] \in S
        /\ \A i \in S : \E p \in 1..Len(u) : u[p] = i
        /\ \A p, q \in 1..Len(u) : p < q => u[p] < u[q]
    BY <2>1, ToSetIs DEF Lists, Ascends
  <2>3. \A p, q \in 1..Len(u) : u[p] < u[q] <=> p < q
    <3>1. SUFFICES ASSUME NEW p \in 1..Len(u), NEW q \in 1..Len(u)
                   PROVE  u[p] < u[q] <=> p < q
      OBVIOUS
    <3>2. p \in Nat /\ q \in Nat /\ u[p] \in Nat /\ u[q] \in Nat
      BY <2>2
    <3>3. p < q \/ p = q \/ q < p
      BY <3>2
    <3>. QED  BY <2>2, <3>2, <3>3
  <2>4. \A p, q \in 1..Len(u) : u[p] = u[q] => p = q
    <3>1. SUFFICES ASSUME NEW p \in 1..Len(u), NEW q \in 1..Len(u), u[p] = u[q]
                   PROVE  p = q
      OBVIOUS
    <3>2. p \in Nat /\ q \in Nat /\ u[p] \in Nat /\ u[q] \in Nat
      BY <2>2
    <3>. QED  BY <2>3, <3>1, <3>2
  <2>5. \A m \in 0..Len(u) : \A T :
          T = {u[p] : p \in 1..m} => Cardinality(T) = m
    <3>1. SUFFICES ASSUME NEW m \in 0..Len(u), NEW T, T = {u[p] : p \in 1..m}
                   PROVE  Cardinality(T) = m
      OBVIOUS
    <3>2. m \in Nat /\ 1..m \subseteq 1..Len(u)
      BY <2>2
    <3> DEFINE f == [p \in 1..m |-> u[p]]
    <3>3. f \in [1..m -> T] /\ \A i \in T : \E p \in 1..m : f[p] = i
      BY <3>1
    <3>4. \A p, q \in 1..m : f[p] = f[q] => p = q
      BY <2>4, <3>2
    <3>5. f \in Bijection(1..m, T)
      <4> HIDE DEF f
      <4>. QED  BY <3>3, <3>4 DEF Bijection, Injection, Surjection, IsInjective
    <3>6. IsFiniteSet(1..m) /\ Cardinality(1..m) = m
      BY <3>2, FS_Interval
    <3>7. ExistsBijection(1..m, T)
      BY <3>5 DEF ExistsBijection
    <3>. QED  BY <3>6, <3>7, FS_Bijection
  <2>6. Len(u) = Cardinality(S)
    <3>1. S = {u[p] : p \in 1..Len(u)}
      BY <2>2, ToSetIs
    <3>2. Len(u) \in 0..Len(u)
      BY <2>2
    <3>3. \A T : T = {u[p] : p \in 1..Len(u)} => Cardinality(T) = Len(u)
      BY <2>5, <3>2
    <3>. QED  BY <3>1, <3>3
  <2>7. ASSUME NEW p \in 1..Len(u)
        PROVE  Cardinality(Below(S, u[p])) = p - 1
    <3>1. p \in Nat /\ p - 1 \in 0..Len(u) /\ 1..(p - 1) \subseteq 1..Len(u)
      BY <2>2
    <3>2. Below(S, u[p]) = {u[q] : q \in 1..(p - 1)}
      <4>1. ASSUME NEW i \in Below(S, u[p]) PROVE i \in {u[q] : q \in 1..(p - 1)}
        <5>1. i \in S /\ i < u[p]
          BY DEF Below
        <5>2. PICK q \in 1..Len(u) : u[q] = i
          BY <2>2, <5>1
        <5>3. q < p
          BY <2>3, <5>1, <5>2
        <5>4. q \in 1..(p - 1)
          BY <2>2, <3>1, <5>3
        <5>. QED  BY <5>2, <5>4
      <4>2. ASSUME NEW q \in 1..(p - 1) PROVE u[q] \in Below(S, u[p])
        <5>1. q \in 1..Len(u) /\ q < p
          BY <3>1
        <5>2. u[q] \in S /\ u[q] < u[p]
          BY <2>2, <5>1
        <5>. QED  BY <5>2 DEF Below
      <4>. QED  BY <4>1, <4>2
    <3>. QED  BY <2>5, <3>1, <3>2
  <2>. QED  BY <2>6, <2>7
<1> HIDE DEF t
<1>3. /\ s \in Seq(Nat) /\ t \in Seq(Nat) /\ Len(s) = Len(t) /\ Len(s) \in Nat
      /\ \A p \in 1..Len(s) : s[p] \in S /\ t[p] \in S
      /\ \A p \in 1..Len(s) : Cardinality(Below(S, s[p])) = Cardinality(Below(S, t[p]))
  BY <1>1, <1>2, ToSetIs DEF Lists
<1>4. \A p \in 1..Len(s) : s[p] = t[p]
  <2>1. SUFFICES ASSUME NEW p \in 1..Len(s) PROVE s[p] = t[p]
    OBVIOUS
  <2> DEFINE rank == [i \in S |-> Cardinality(Below(S, i))]
  <2>2. rank[s[p]] = rank[t[p]] /\ s[p] \in S /\ t[p] \in S
    BY <1>3
  <2>3. S \in SUBSET Nat /\ IsFiniteSet(S)
    BY PagesAssumption, InOrderLists
  <2>4. rank \in Injection(S, 0..(Cardinality(S) - 1))
    BY <2>3, RankIsBijection
  <2> HIDE DEF rank
  <2>. QED  BY <2>2, <2>4 DEF Injection, IsInjective
<1>5. s = t
  BY <1>3, <1>4, SeqEqual
<1>. QED  BY <1>5 DEF t

\* A listing goes on with a listing of places that all come later.
LEMMA ListingGoesOn ==
  ASSUME NEW S, NEW T, NEW s, NEW t, Lists(s, S), Lists(t, T),
         \A i \in S, j \in T : i < j
  PROVE  Lists(s \o t, S \cup T)
<1> DEFINE u == s \o t
           m == Len(s)
           n == Len(t)
<1>1. /\ s \in Seq(Nat) /\ t \in Seq(Nat) /\ m \in Nat /\ n \in Nat
      /\ \A p \in 1..m : s[p] \in S
      /\ \A p \in 1..n : t[p] \in T
      /\ \A i \in S : \E p \in 1..m : s[p] = i
      /\ \A i \in T : \E p \in 1..n : t[p] = i
      /\ \A p, q \in 1..m : p < q => s[p] < s[q]
      /\ \A p, q \in 1..n : p < q => t[p] < t[q]
  BY ToSetIs DEF Lists, Ascends
<1>2. /\ u \in Seq(Nat) /\ Len(u) = m + n
      /\ \A p \in 1..(m + n) : u[p] = IF p <= m THEN s[p] ELSE t[p - m]
  BY <1>1, ConcatProperties
<1> HIDE DEF u, m, n
<1>3. \A p \in 1..(m + n) : p \in Nat /\ (p <= m => p \in 1..m)
                             /\ (~(p <= m) => p - m \in 1..n)
  BY <1>1
<1>4. Ascends(u)
  <2>1. SUFFICES ASSUME NEW p \in 1..(m + n), NEW q \in 1..(m + n), p < q
                 PROVE  u[p] < u[q]
    BY <1>2 DEF Ascends
  <2>2. CASE q <= m
    <3>1. p \in 1..m /\ q \in 1..m /\ p <= m
      BY <1>1, <1>3, <2>1, <2>2
    <3>2. u[p] = s[p] /\ u[q] = s[q]
      BY <1>2, <2>2, <3>1
    <3>. QED  BY <1>1, <2>1, <3>1, <3>2
  <2>3. CASE p <= m /\ ~(q <= m)
    BY <1>1, <1>2, <1>3, <2>1, <2>3
  <2>4. CASE ~(p <= m) /\ ~(q <= m)
    <3>1. p - m \in 1..n /\ q - m \in 1..n /\ p - m < q - m
      BY <1>1, <1>3, <2>1, <2>4
    <3>2. u[p] = t[p - m] /\ u[q] = t[q - m]
      BY <1>2, <2>4
    <3>. QED  BY <1>1, <3>1, <3>2
  <2>5. p <= m \/ ~(q <= m)
    BY <1>1, <1>3, <2>1
  <2>. QED  BY <2>2, <2>3, <2>4, <2>5
<1>5. ToSet(u) = S \cup T
  <2>1. ASSUME NEW i \in ToSet(u) PROVE i \in S \cup T
    <3>1. PICK p \in 1..(m + n) : u[p] = i
      BY <1>2, ToSetIs
    <3>. QED  BY <1>1, <1>2, <1>3, <3>1
  <2>2. ASSUME NEW i \in S PROVE i \in ToSet(u)
    <3>1. PICK p \in 1..m : s[p] = i
      BY <1>1
    <3>2. p \in 1..(m + n) /\ p <= m
      BY <1>1
    <3>3. u[p] = i
      BY <1>2, <3>1, <3>2
    <3>. QED  BY <1>2, <3>2, <3>3, ToSetIs
  <2>3. ASSUME NEW i \in T PROVE i \in ToSet(u)
    <3>1. PICK p \in 1..n : t[p] = i
      BY <1>1
    <3>2. p + m \in 1..(m + n) /\ ~(p + m <= m) /\ (p + m) - m = p
      BY <1>1
    <3>3. u[p + m] = i
      BY <1>2, <3>1, <3>2
    <3>. QED  BY <1>2, <3>2, <3>3, ToSetIs
  <2>. QED  BY <2>1, <2>2, <2>3
<1>. QED  BY <1>2, <1>4, <1>5 DEF Lists, u

-----------------------------------------------------------------------------
\* Stretches of a list

\* The places after the first "from", up to "to" or to the end.
Stretch(all, from, to) ==
  SubSeq(all, from + 1, IF to < Len(all) THEN to ELSE Len(all))

\* A stretch of an ascending listing is one too, of the places it covers.
LEMMA StretchLists ==
  ASSUME NEW S, NEW all, Lists(all, S), NEW from \in Nat, NEW to \in Nat
  PROVE  /\ Lists(Stretch(all, from, to), ToSet(Stretch(all, from, to)))
         /\ \A i : i \in ToSet(Stretch(all, from, to)) <=>
              \E p \in 1..Len(all) : from < p /\ p <= to /\ all[p] = i
<1> DEFINE n == Len(all)
           a == from + 1
           b == IF to < n THEN to ELSE n
           t == SubSeq(all, a, b)
<1>1. /\ all \in Seq(Nat) /\ n \in Nat
      /\ \A p \in 1..n : all[p] \in Nat
      /\ \A p, q \in 1..n : p < q => all[p] < all[q]
  BY ToSetIs DEF Lists, Ascends
<1>2. a \in Int /\ b \in Int /\ a > 0 /\ b <= n /\ b <= to
  BY <1>1
<1>3. \A p \in a..b : p \in 1..n
  BY <1>1, <1>2
<1>4. \A p \in 1..n : p \in a..b <=> from < p /\ p <= to
  BY <1>1
<1> HIDE DEF a, b, n
<1>5. /\ t \in Seq(Nat)
      /\ Len(t) = IF a <= b THEN b - a + 1 ELSE 0
      /\ \A p \in 1..(b - a + 1) : t[p] = all[a + p - 1]
  BY <1>1, <1>2, <1>3, SubSeqProperties
<1> HIDE DEF t
<1>6. \A p \in 1..Len(t) : p \in 1..(b - a + 1) /\ a + p - 1 \in a..b
  BY <1>2, <1>5
<1>7. \A p \in 1..Len(t) : t[p] = all[a + p - 1] /\ a + p - 1 \in 1..n
  BY <1>3, <1>5, <1>6
<1>8. Ascends(t)
  <2>1. SUFFICES ASSUME NEW p \in 1..Len(t), NEW q \in 1..Len(t), p < q
                 PROVE  t[p] < t[q]
    BY DEF Ascends
  <2>2. a + p - 1 < a + q - 1
    BY <1>2, <1>6, <2>1
  <2>. QED  BY <1>1, <1>7, <2>2
<1>9. ASSUME NEW i
      PROVE  i \in ToSet(t) <=> \E p \in 1..n : from < p /\ p <= to /\ all[p] = i
  <2>1. ASSUME i \in ToSet(t)
        PROVE  \E p \in 1..n : from < p /\ p <= to /\ all[p] = i
    <3>1. PICK p \in 1..Len(t) : t[p] = i
      BY <1>5, <2>1, ToSetIs
    <3>. QED  BY <1>4, <1>6, <1>7, <3>1
  <2>2. ASSUME NEW p \in 1..n, from < p, p <= to, all[p] = i
        PROVE  i \in ToSet(t)
    <3>1. p \in a..b
      BY <1>4, <2>2
    <3>2. p - a + 1 \in 1..Len(t) /\ a + (p - a + 1) - 1 = p
      BY <1>2, <1>5, <3>1
    <3>3. t[p - a + 1] = i
      BY <1>7, <2>2, <3>2
    <3>. QED  BY <1>5, <3>2, <3>3, ToSetIs
  <2>. QED  BY <2>1, <2>2
<1>10. t = Stretch(all, from, to)
  BY DEF t, a, b, n, Stretch
<1>. QED  BY <1>5, <1>8, <1>9, <1>10 DEF Lists, n

\* Two stretches, one from where the other ends, make one.
LEMMA StretchGoesOn ==
  ASSUME NEW S, NEW all, Lists(all, S),
         NEW f \in Nat, NEW g \in Nat, NEW h \in Nat, f <= g, g <= h
  PROVE  /\ ToSet(Stretch(all, f, h)) =
               ToSet(Stretch(all, f, g)) \cup ToSet(Stretch(all, g, h))
         /\ \A i \in ToSet(Stretch(all, f, g)), j \in ToSet(Stretch(all, g, h)) : i < j
<1>1. /\ Len(all) \in Nat
      /\ \A p \in 1..Len(all) : all[p] \in Nat
      /\ \A p, q \in 1..Len(all) : p < q => all[p] < all[q]
  BY ToSetIs DEF Lists, Ascends
<1> DEFINE In(i, a, b) == \E p \in 1..Len(all) : a < p /\ p <= b /\ all[p] = i
<1>2. \A a, b \in Nat : \A i : i \in ToSet(Stretch(all, a, b)) <=> In(i, a, b)
  BY StretchLists
<1>3. \A i : In(i, f, h) <=> In(i, f, g) \/ In(i, g, h)
  <2>1. ASSUME NEW p \in 1..Len(all)
        PROVE  f < p /\ p <= h <=> (f < p /\ p <= g) \/ (g < p /\ p <= h)
    BY <1>1
  <2>. QED  BY <2>1
<1>4. ASSUME NEW i, NEW j, In(i, f, g), In(j, g, h) PROVE i < j
  <2>1. PICK p \in 1..Len(all) : f < p /\ p <= g /\ all[p] = i
    BY <1>4
  <2>2. PICK q \in 1..Len(all) : g < q /\ q <= h /\ all[q] = j
    BY <1>4
  <2>3. p < q
    BY <1>1, <2>1, <2>2
  <2>. QED  BY <1>1, <2>1, <2>2, <2>3
<1> HIDE DEF In
<1>. QED  BY <1>2, <1>3, <1>4

-----------------------------------------------------------------------------
\* What a request asks for and what is listed

Numbers == Nat \ {0}

\* A query whose parameters are in the ranges that the routes declare.
QueryOK(q) ==
  /\ Parsed(q).page \in Numbers
  /\ Parsed(q).per_page \in 1..MaxPerPage
  /\ route = "issues" => Parsed(q).state \in {"open", "closed", "all"}

ListOK ==
  /\ items \in Seq(Items) /\ Len(items) <= MaxItems
  /\ route \in {"issues", "comments"}

\* normalize_per_page() changes nothing that the route has let through.
LEMMA AskedIsParsed ==
  ASSUME NEW q, QueryOK(q)
  PROVE  Asked(q) = Parsed(q)
<1> DEFINE f == Parsed(q)
<1>1. DOMAIN f = Filters \cup {"page", "per_page"}
  BY DEF Parsed
<1>2. f = [p \in DOMAIN f |-> f[p]]
  BY DEF Parsed
<1>3. f.per_page \in 1..MaxPerPage /\ MaxPerPage \in Nat
  BY PagesAssumption DEF QueryOK
<1>4. Asked(q) = [f EXCEPT !.per_page = NormalizePerPage(f.per_page)]
  BY DEF Asked
<1> HIDE DEF f
<1>5. NormalizePerPage(f.per_page) = f.per_page
  BY <1>3 DEF NormalizePerPage
<1>. QED  BY <1>2, <1>4, <1>5 DEF f

\* What matches is an ascending listing of places of the list.
LEMMA MatchingLists ==
  ASSUME ListOK, NEW asked
  PROVE  Lists(Matching(asked), {n \in DOMAIN items : Matches(n, asked)})
<1>1. DOMAIN items = 1..Len(items) /\ Len(items) \in Nat /\ Len(items) <= MaxItems
  BY LenProperties DEF ListOK
<1>2. {n \in DOMAIN items : Matches(n, asked)} \subseteq 1..MaxItems
  BY <1>1, PagesAssumption
<1>. QED  BY <1>2, InOrderLists DEF Matching

\* The places that a listing of a route keeps: not the pull requests.
Kept(S) == {n \in S : route = "issues" => ~items[n].pull}

\* What the pages up to "to", after the first "from" matches, list.
ReadTo(q, from, to) == InOrder[Kept(ToSet(Stretch(Matching(Parsed(q)), from, to)))]

\* A stretch of the matches stays within the list, and so does what is kept of it.
LEMMA StretchOfMatching ==
  ASSUME ListOK, NEW asked, NEW from \in Nat, NEW to \in Nat
  PROVE  /\ ToSet(Stretch(Matching(asked), from, to)) \in SUBSET (1..MaxItems)
         /\ Kept(ToSet(Stretch(Matching(asked), from, to))) \in SUBSET (1..MaxItems)
         /\ Lists(Stretch(Matching(asked), from, to),
                  ToSet(Stretch(Matching(asked), from, to)))
<1> DEFINE S == {n \in DOMAIN items : Matches(n, asked)}
           all == Matching(asked)
           R == ToSet(Stretch(all, from, to))
<1>1. Lists(all, S)
  BY MatchingLists
<1>2. DOMAIN items = 1..Len(items) /\ Len(items) \in Nat /\ Len(items) <= MaxItems
  BY LenProperties DEF ListOK
<1>3. S \subseteq 1..MaxItems
  BY <1>2, PagesAssumption
<1> HIDE DEF S, all
<1>4. \A p \in 1..Len(all) : all[p] \in S
  BY <1>1, ToSetIs DEF Lists
<1>5. /\ Lists(Stretch(all, from, to), R)
      /\ \A i \in R : \E p \in 1..Len(all) : all[p] = i
  <2>1. Lists(Stretch(all, from, to), R)
    BY <1>1, StretchLists
  <2>2. ASSUME NEW i \in R PROVE \E p \in 1..Len(all) : all[p] = i
    <3>1. \E p \in 1..Len(all) : from < p /\ p <= to /\ all[p] = i
      BY <1>1, StretchLists
    <3>. QED  BY <3>1
  <2>. QED  BY <2>1, <2>2
<1> HIDE DEF R
<1>6. R \subseteq S
  BY <1>4, <1>5
<1>7. Kept(R) \subseteq R
  BY DEF Kept
<1>. QED  BY <1>3, <1>5, <1>6, <1>7 DEF R, all

\* The page that GitHub answers with, as a stretch of the matches.
LEMMA PageIsStretch ==
  ASSUME ListOK, NEW q, QueryOK(q)
  PROVE  LET asked == Parsed(q)
             all == Matching(asked)
             before == (asked.page - 1) * asked.per_page
         IN  Page(asked) = Stretch(all, before, asked.page * asked.per_page)
<1> DEFINE asked == Parsed(q)
           all == Matching(asked)
           a == asked.page
           b == asked.per_page
<1>1. a \in Numbers /\ b \in Nat
  BY PagesAssumption DEF QueryOK
<1>2. (a - 1) * b + b = a * b
  BY <1>1 DEF Numbers
<1> HIDE DEF asked, a, b, all
<1>3. Page(asked) = SubSeq(all, (a - 1) * b + 1,
                           IF (a - 1) * b + b < Len(all) THEN (a - 1) * b + b ELSE Len(all))
  BY DEF Page, all, a, b
<1>4. Page(asked) = Stretch(all, (a - 1) * b, a * b)
  BY <1>2, <1>3 DEF Stretch
<1>. QED  BY <1>4 DEF asked, all, a, b

\* An answer lists what its page has of the matches, without pull requests.
LEMMA AnswerLists ==
  ASSUME ListOK, NEW q, QueryOK(q), NEW ans \in Answers(q)
  PROVE  LET asked == Parsed(q)
         IN  ans.listed = ReadTo(q, (asked.page - 1) * asked.per_page,
                                 asked.page * asked.per_page)
<1> DEFINE asked == Parsed(q)
           from == (asked.page - 1) * asked.per_page
           to == asked.page * asked.per_page
           read == Stretch(Matching(asked), from, to)
<1>1. Asked(q) = asked
  BY AskedIsParsed
<1>2. PICK merged \in BOOLEAN, cursor \in BOOLEAN, damaged \in {{}, {"next"}} :
        ans = ListRoute(asked, merged, cursor, damaged)
  BY <1>1 DEF Answers
<1>3. ans.listed = IF route = "issues"
                   THEN InOrder[{n \in ToSet(Page(asked)) : ~items[n].pull}]
                   ELSE Page(asked)
  BY <1>2 DEF ListRoute
<1>4. Page(asked) = read
  BY PageIsStretch
<1>5. from \in Nat /\ to \in Nat
  <2>1. asked.page \in Numbers /\ asked.per_page \in Nat
    BY PagesAssumption DEF QueryOK
  <2>2. asked.page - 1 \in Nat
    BY <2>1 DEF Numbers
  <2> HIDE DEF asked
  <2>. QED  BY <2>1, <2>2 DEF Numbers
<1> HIDE DEF asked, from, to
<1>6. ToSet(read) \in SUBSET (1..MaxItems) /\ Lists(read, ToSet(read))
  BY <1>5, StretchOfMatching
<1>7. CASE route = "issues"
  <2>1. Kept(ToSet(read)) = {n \in ToSet(Page(asked)) : ~items[n].pull}
    BY <1>4, <1>7 DEF Kept
  <2>. QED  BY <1>3, <1>7, <2>1 DEF ReadTo, asked, from, to
<1>8. CASE route # "issues"
  <2>1. Kept(ToSet(read)) = ToSet(read)
    BY <1>8 DEF Kept
  <2>2. read = InOrder[ToSet(read)]
    BY <1>6, ListingIsUnique
  <2>3. ans.listed = InOrder[Kept(ToSet(read))]
    BY <1>3, <1>4, <1>8, <2>1, <2>2
  <2>. QED  BY <2>3 DEF ReadTo, asked, from, to
<1>. QED  BY <1>7, <1>8

\* What pages up to g list goes on with what the pages from g to h list.
LEMMA ReadGoesOn ==
  ASSUME ListOK, NEW q,
         NEW f \in Nat, NEW g \in Nat, NEW h \in Nat, f <= g, g <= h
  PROVE  ReadTo(q, f, g) \o ReadTo(q, g, h) = ReadTo(q, f, h)
<1> DEFINE all == Matching(Parsed(q))
           X == ToSet(Stretch(all, f, g))
           Y == ToSet(Stretch(all, g, h))
           Z == ToSet(Stretch(all, f, h))
<1>1. /\ Kept(X) \in SUBSET (1..MaxItems)
      /\ Kept(Y) \in SUBSET (1..MaxItems)
      /\ Kept(Z) \in SUBSET (1..MaxItems)
  BY StretchOfMatching
<1>2. Z = X \cup Y /\ \A i \in X, j \in Y : i < j
  <2>1. Lists(all, {n \in DOMAIN items : Matches(n, Parsed(q))})
    BY MatchingLists
  <2> HIDE DEF all
  <2>. QED  BY <2>1, StretchGoesOn
<1> HIDE DEF X, Y, Z
<1>3. Kept(Z) = Kept(X) \cup Kept(Y) /\ \A i \in Kept(X), j \in Kept(Y) : i < j
  BY <1>2 DEF Kept
<1>4. Lists(InOrder[Kept(X)], Kept(X)) /\ Lists(InOrder[Kept(Y)], Kept(Y))
  BY <1>1, InOrderLists
<1>5. Lists(InOrder[Kept(X)] \o InOrder[Kept(Y)], Kept(Z))
  BY <1>3, <1>4, ListingGoesOn
<1>6. InOrder[Kept(X)] \o InOrder[Kept(Y)] = InOrder[Kept(Z)]
  BY <1>1, <1>5, ListingIsUnique
<1>. QED  BY <1>6 DEF ReadTo, X, Y, Z

-----------------------------------------------------------------------------
\* The links

\* The URL of GitHub's link to page p.
LinkUrl(asked, cursor, p) ==
  [x \in DOMAIN asked \cup (IF cursor THEN {"after"} ELSE {}) |->
     IF x \in {"page", "after"} THEN p ELSE asked[x]]

\* The segments of a header whose links lead to the pages "all".
SegmentsOf(all, asked, merged, cursor, damaged) ==
  LET targets == [rel \in DOMAIN all \ damaged |-> all[rel]]
      Url(p)  == LinkUrl(asked, cursor, p)
  IN  IF merged
      THEN {[url |-> Url(p), rels |-> {rel \in DOMAIN targets : targets[rel] = p}] :
              p \in {targets[rel] : rel \in DOMAIN targets}}
      ELSE {[url |-> Url(targets[rel]), rels |-> {rel}] : rel \in DOMAIN targets}

\* However the rels share their segments, a segment has the URL of its rels,
\* and every rel that is not damaged has a segment.
LEMMA SegmentsSay ==
  ASSUME NEW asked, NEW merged \in BOOLEAN, NEW cursor \in BOOLEAN, NEW damaged,
         NEW segments, segments = Segments(asked, merged, cursor, damaged)
  PROVE  /\ \A s \in segments : \A rel \in s.rels :
              /\ rel \in DOMAIN Targets(asked) \ damaged
              /\ s.url = LinkUrl(asked, cursor, Targets(asked)[rel])
         /\ \A rel \in DOMAIN Targets(asked) \ damaged : \E s \in segments : rel \in s.rels
<1> DEFINE all == Targets(asked)
           left == DOMAIN all \ damaged
           targets == [rel \in left |-> all[rel]]
           Url(p) == LinkUrl(asked, cursor, p)
<1>1. segments =
        IF merged
        THEN {[url |-> Url(p), rels |-> {rel \in left : targets[rel] = p}] :
                p \in {targets[rel] : rel \in left}}
        ELSE {[url |-> Url(targets[rel]), rels |-> {rel}] : rel \in left}
  BY DEF Segments, LinkUrl
<1>2. \A rel \in left : targets[rel] = all[rel]
  OBVIOUS
<1> HIDE DEF all, left, targets, Url
<1>3. CASE merged
  <2>1. segments = {[url |-> Url(p), rels |-> {rel \in left : targets[rel] = p}] :
                      p \in {targets[rel] : rel \in left}}
    BY <1>1, <1>3
  <2>2. ASSUME NEW s \in segments, NEW rel \in s.rels
        PROVE  rel \in left /\ s.url = Url(all[rel])
    <3>1. PICK p : s = [url |-> Url(p), rels |-> {r \in left : targets[r] = p}]
      BY <2>1
    <3>2. rel \in left /\ targets[rel] = p /\ s.url = Url(p)
      BY <2>2, <3>1
    <3>. QED  BY <1>2, <3>2
  <2>3. ASSUME NEW rel \in left PROVE \E s \in segments : rel \in s.rels
    <3> DEFINE p == targets[rel]
               s == [url |-> Url(p), rels |-> {r \in left : targets[r] = p}]
    <3>1. s \in segments /\ rel \in s.rels
      BY <2>1, <2>3
    <3>. QED  BY <3>1
  <2>. QED  BY <2>2, <2>3 DEF left, Url, all
<1>4. CASE ~merged
  <2>1. segments = {[url |-> Url(targets[rel]), rels |-> {rel}] : rel \in left}
    BY <1>1, <1>4
  <2>2. ASSUME NEW s \in segments, NEW rel \in s.rels
        PROVE  rel \in left /\ s.url = Url(all[rel])
    <3>1. PICK r \in left : s = [url |-> Url(targets[r]), rels |-> {r}]
      BY <2>1
    <3>2. rel = r /\ s.url = Url(targets[r])
      BY <2>2, <3>1
    <3>. QED  BY <1>2, <3>2
  <2>3. ASSUME NEW rel \in left PROVE \E s \in segments : rel \in s.rels
    <3> DEFINE s == [url |-> Url(targets[rel]), rels |-> {rel}]
    <3>1. s \in segments /\ rel \in s.rels
      BY <2>1, <2>3
    <3>. QED  BY <3>1
  <2>. QED  BY <2>2, <2>3 DEF left, Url, all
<1>. QED  BY <1>3, <1>4

\* parse_link_header() gives every undamaged rel the URL that GitHub gave it.
LEMMA HeaderIsParsed ==
  ASSUME NEW asked, NEW merged \in BOOLEAN, NEW cursor \in BOOLEAN, NEW damaged,
         NEW segments, segments = Segments(asked, merged, cursor, damaged)
  PROVE  ParseLinkHeader(segments) =
           [rel \in DOMAIN Targets(asked) \ damaged |->
              LinkUrl(asked, cursor, Targets(asked)[rel])]
<1> DEFINE left == DOMAIN Targets(asked) \ damaged
           Url(rel) == LinkUrl(asked, cursor, Targets(asked)[rel])
<1>1. /\ \A s \in segments : \A rel \in s.rels : rel \in left /\ s.url = Url(rel)
      /\ \A rel \in left : \E s \in segments : rel \in s.rels
  BY SegmentsSay
<1> HIDE DEF left, Url
<1>2. UNION {s.rels : s \in segments} = left
  BY <1>1
<1>3. \A rel \in left : (CHOOSE s \in segments : rel \in s.rels).url = Url(rel)
  <2>1. SUFFICES ASSUME NEW rel \in left
                 PROVE  (CHOOSE s \in segments : rel \in s.rels).url = Url(rel)
    OBVIOUS
  <2> DEFINE s == CHOOSE x \in segments : rel \in x.rels
  <2>2. s \in segments /\ rel \in s.rels
    BY <1>1
  <2> HIDE DEF s
  <2>3. s.url = Url(rel)
    BY <1>1, <2>2
  <2>. QED  BY <2>3 DEF s
<1>4. ParseLinkHeader(segments) = [rel \in left |-> Url(rel)]
  BY <1>2, <1>3 DEF ParseLinkHeader
<1>. QED  BY <1>4 DEF left, Url

\* What the pages that links lead to have in common.
LEMMA TargetsAre ==
  ASSUME ListOK, NEW q, QueryOK(q)
  PROVE  LET asked == Parsed(q)
             t == Targets(asked)
         IN  /\ DOMAIN t \subseteq Rels
             /\ \A rel \in DOMAIN t : t[rel] \in Numbers
             /\ "next" \in DOMAIN t => t["next"] = asked.page + 1
             /\ "next" \notin DOMAIN t => Pages(asked) <= asked.page
<1> DEFINE asked == Parsed(q)
           t == Targets(asked)
           a == asked.page
           last == Pages(asked)
           b == asked.per_page
           n == Len(Matching(asked))
<1>1. a \in Numbers /\ b \in Numbers
  BY PagesAssumption DEF QueryOK, Numbers
<1>2. last \in Nat
  <2>1. n \in Nat
    BY MatchingLists, ToSetIs DEF Lists
  <2>2. last = (n + b - 1) \div b
    BY DEF Pages
  <2>3. n + b - 1 \in Nat
    BY <1>1, <2>1 DEF Numbers
  <2> HIDE DEF last, b, n
  <2>. QED  BY <1>1, <2>2, <2>3 DEF Numbers
<1> DEFINE back == IF a > 1 THEN {"first", "prev"} ELSE {}
           forward == IF a < last THEN {"next", "last"} ELSE {}
<1>3. t = [rel \in back \cup forward |->
             CASE rel = "first" -> 1
               [] rel = "prev"  -> a - 1
               [] rel = "next"  -> a + 1
               [] rel = "last"  -> last]
  BY DEF Targets
<1> HIDE DEF asked, t, a, last
<1>4. DOMAIN t = back \cup forward
  BY <1>3
<1>5. DOMAIN t \subseteq Rels
  BY <1>4 DEF Rels
<1>6. ASSUME NEW rel \in DOMAIN t PROVE t[rel] \in Numbers
  <2>1. CASE rel = "first"
    BY <1>3, <1>4, <2>1 DEF Numbers
  <2>2. CASE rel = "prev"
    <3>1. t[rel] = a - 1 /\ a > 1
      BY <1>3, <1>4, <2>2
    <3>. QED  BY <1>1, <3>1 DEF Numbers
  <2>3. CASE rel = "next"
    <3>1. t[rel] = a + 1
      BY <1>3, <1>4, <2>3
    <3>. QED  BY <1>1, <3>1 DEF Numbers
  <2>4. CASE rel = "last"
    <3>1. t[rel] = last /\ a < last
      BY <1>3, <1>4, <2>4
    <3>. QED  BY <1>1, <1>2, <3>1 DEF Numbers
  <2>. QED  BY <1>5, <2>1, <2>2, <2>3, <2>4 DEF Rels
<1>7. "next" \in DOMAIN t => t["next"] = a + 1
  BY <1>3
<1>8. "next" \notin DOMAIN t => last <= a
  <2>1. "next" \notin DOMAIN t => ~(a < last)
    BY <1>4
  <2>. QED  BY <1>1, <1>2, <2>1 DEF Numbers
<1>. QED  BY <1>5, <1>6, <1>7, <1>8 DEF asked, t, a, last

\* One link: the cursors that GitHub's URL has, over the filters that are given.
Rewritten(cursors, passthrough) ==
  [x \in {f \in DOMAIN passthrough : passthrough[f] # None} \cup DOMAIN cursors |->
     IF x \in DOMAIN cursors THEN cursors[x] ELSE passthrough[x]]

\* What the caller asked for, to be passed through.
Through(asked) == [f \in Filters |-> asked[f]]

\* rewrite_link_header(): the caller's filters and the page GitHub's link names.
LEMMA RewrittenLink ==
  ASSUME NEW q, QueryOK(q), NEW cursor \in BOOLEAN, NEW p \in Numbers,
         NEW asked, asked = Parsed(q), NEW link,
         link = Rewritten(PageParams(LinkUrl(asked, cursor, p)), Through(asked))
  PROVE  /\ DOMAIN link \subseteq DOMAIN asked
         /\ Parsed(link) = [asked EXCEPT !.page = p]
<1> DEFINE cursors == PageParams(LinkUrl(asked, cursor, p))
           passthrough == Through(asked)
<1> DEFINE D == Filters \cup {"page", "per_page"}
<1>1. DOMAIN asked = D /\ asked = [x \in D |-> asked[x]]
  BY DEF Parsed
<1>2. Filters \subseteq {"state", "labels"}
  BY DEF Filters
<1>3. cursors = [x \in {"page", "per_page"} |-> IF x = "page" THEN p ELSE asked[x]]
  <2> DEFINE url == LinkUrl(asked, cursor, p)
  <2>1. /\ {"page", "per_page"} \subseteq DOMAIN url
        /\ \A x \in {"page", "per_page"} : url[x] = IF x = "page" THEN p ELSE asked[x]
    BY <1>1 DEF LinkUrl
  <2> HIDE DEF url
  <2>2. ForwardedCursors \cap DOMAIN url = {"page", "per_page"}
    BY <2>1 DEF ForwardedCursors
  <2>3. cursors = [x \in {"page", "per_page"} |-> url[x]]
    BY <2>2 DEF PageParams, url
  <2>. QED  BY <2>1, <2>3
<1> DEFINE given == {f \in Filters : asked[f] # None}
<1>4. {f \in DOMAIN passthrough : passthrough[f] # None} = given
  BY DEF Through
<1>5. /\ DOMAIN link = given \cup {"page", "per_page"}
      /\ link["page"] = p /\ link["per_page"] = asked["per_page"]
      /\ \A f \in given : link[f] = asked[f]
  <2>1. DOMAIN cursors = {"page", "per_page"}
    BY <1>3
  <2>2. \A f \in given : f \notin DOMAIN cursors /\ passthrough[f] = asked[f]
    BY <1>2, <2>1 DEF Through
  <2>3. link = [x \in given \cup {"page", "per_page"} |->
                  IF x \in {"page", "per_page"} THEN cursors[x] ELSE passthrough[x]]
    BY <1>4, <2>1 DEF Rewritten
  <2> HIDE DEF given, cursors, passthrough
  <2>. QED  BY <1>3, <2>1, <2>2, <2>3
<1>6. given \subseteq Filters
  OBVIOUS
<1>7. \A f \in Filters \ given : asked[f] = Default[f]
  <2>1. SUFFICES ASSUME NEW f \in Filters, asked[f] = None
                 PROVE  asked[f] = Default[f]
    OBVIOUS
  <2>2. route = "issues"
    BY <2>1 DEF Filters
  <2>3. asked.state # None
    BY <2>2, PagesAssumption DEF QueryOK
  <2>4. f = "labels"
    BY <1>2, <2>1, <2>3
  <2>. QED  BY <2>1, <2>4 DEF Default
<1> HIDE DEF given
<1>8. \A x \in D : (IF x \in DOMAIN link THEN link[x] ELSE Default[x])
                    = (IF x = "page" THEN p ELSE asked[x])
  <2>1. SUFFICES ASSUME NEW x \in D
                 PROVE  (IF x \in DOMAIN link THEN link[x] ELSE Default[x])
                        = (IF x = "page" THEN p ELSE asked[x])
    OBVIOUS
  <2>2. CASE x \in {"page", "per_page"}
    BY <1>5, <2>2
  <2>3. CASE x \in given
    <3>1. x # "page"
      BY <1>2, <1>6, <2>3
    <3>. QED  BY <1>5, <2>3, <3>1
  <2>4. CASE x \in Filters \ given
    <3>1. x \notin {"page", "per_page"}
      BY <1>2, <2>4
    <3>. QED  BY <1>5, <1>7, <2>4, <3>1
  <2>. QED  BY <2>2, <2>3, <2>4
<1>9. Parsed(link) = [x \in D |-> IF x = "page" THEN p ELSE asked[x]]
  BY <1>8 DEF Parsed
<1>10. [asked EXCEPT !.page = p] = [x \in D |-> IF x = "page" THEN p ELSE asked[x]]
  BY <1>1
<1>11. DOMAIN link \subseteq DOMAIN asked
  BY <1>1, <1>5, <1>6
<1>. QED  BY <1>9, <1>10, <1>11

\* Every link of an answer asks the same question of another page.
LEMMA AnswerLinks ==
  ASSUME ListOK, NEW q, QueryOK(q), NEW ans \in Answers(q),
         NEW asked, asked = Parsed(q), NEW t, t = Targets(asked)
  PROVE  /\ DOMAIN ans.links = DOMAIN t \ ans.damaged
         /\ \A rel \in DOMAIN ans.links :
              /\ DOMAIN ans.links[rel] \subseteq DOMAIN asked
              /\ Parsed(ans.links[rel]) = [asked EXCEPT !.page = t[rel]]
<1>1. PICK merged \in BOOLEAN, cursor \in BOOLEAN, damaged \in {{}, {"next"}} :
        ans = ListRoute(asked, merged, cursor, damaged)
  BY AskedIsParsed DEF Answers
<1> DEFINE left == DOMAIN t \ damaged
           header == ParseLinkHeader(Segments(asked, merged, cursor, damaged))
           passthrough == Through(asked)
<1>2. ans.damaged = damaged /\ ans.links = RewriteLinkHeader(header, passthrough)
  BY <1>1 DEF ListRoute, Through
<1>3. header = [rel \in left |-> LinkUrl(asked, cursor, t[rel])]
  <2> DEFINE segments == Segments(asked, merged, cursor, damaged)
             parsed == ParseLinkHeader(segments)
  <2>1. segments = Segments(asked, merged, cursor, damaged)
    OBVIOUS
  <2> HIDE DEF segments
  <2>2. parsed = [rel \in DOMAIN Targets(asked) \ damaged |->
                    LinkUrl(asked, cursor, Targets(asked)[rel])]
    BY <2>1, HeaderIsParsed
  <2>. QED  BY <2>2 DEF segments
<1>4. \A rel \in left : t[rel] \in Numbers
  BY TargetsAre
<1> HIDE DEF header, passthrough, left
<1>5. DOMAIN ans.links = left
  BY <1>2, <1>3 DEF RewriteLinkHeader
<1>6. ASSUME NEW rel \in left
      PROVE  /\ DOMAIN ans.links[rel] \subseteq DOMAIN asked
             /\ Parsed(ans.links[rel]) = [asked EXCEPT !.page = t[rel]]
  <2> DEFINE link == ans.links[rel]
  <2>1. link = Rewritten(PageParams(header[rel]), passthrough)
    BY <1>2, <1>3 DEF RewriteLinkHeader, Rewritten
  <2>2. link = Rewritten(PageParams(LinkUrl(asked, cursor, t[rel])), Through(asked))
    BY <1>3, <2>1 DEF passthrough, Through
  <2>3. t[rel] \in Numbers
    BY <1>4
  <2> HIDE DEF link
  <2>. QED  BY <2>2, <2>3, RewrittenLink DEF link
<1>. QED  BY <1>2, <1>5, <1>6 DEF left

-----------------------------------------------------------------------------
(***************************************************************************)
(* The invariant: the query is one the routes accept, the answer is one of   *)
(* its answers, and the walk is what the pages since "start" list.           *)
(***************************************************************************)

WalkInv ==
  /\ start \in Numbers /\ start <= Parsed(query).page
  /\ walk = ReadTo(query, (start - 1) * Parsed(query).per_page,
                   Parsed(query).page * Parsed(query).per_page)

PagesInv == ListOK /\ QueryOK(query) /\ answer \in Answers(query) /\ WalkInv

\* What the first request may spell out is in range, and the rest is by default.
LEMMA FirstQueriesAreOK ==
  ASSUME NEW q \in FirstQueries
  PROVE  QueryOK(q)
<1>1. /\ DefaultPerPage \in 1..MaxPerPage
      /\ \A n \in PerPages : n \in 1..MaxPerPage
      /\ \A n \in 1..MaxPage : n \in Numbers
  BY PagesAssumption DEF Numbers
<1>2. /\ Parsed(q).page = IF "page" \in DOMAIN q THEN q["page"] ELSE 1
      /\ Parsed(q).per_page = IF "per_page" \in DOMAIN q THEN q["per_page"]
                              ELSE DefaultPerPage
      /\ route = "issues" =>
           Parsed(q).state = IF "state" \in DOMAIN q THEN q["state"] ELSE "open"
  BY DEF Parsed, Filters, Default
<1>3. CASE q \in [page : 1..MaxPage]
  BY <1>1, <1>2, <1>3 DEF QueryOK
<1>4. CASE q \in [page : 1..MaxPage, per_page : PerPages]
  BY <1>1, <1>2, <1>4 DEF QueryOK
<1>5. CASE q \in [page : 1..MaxPage, per_page : PerPages,
                  state : {"all", "closed"}, labels : {None, "bug"}]
  BY <1>1, <1>2, <1>5 DEF QueryOK
<1>. QED  BY <1>3, <1>4, <1>5 DEF FirstQueries

\* The numbers of a query, as naturals, and where its page lies.
LEMMA PlacesOfPages ==
  ASSUME NEW a \in Numbers, NEW s \in Numbers, s <= a, NEW b \in Nat
  PROVE  /\ (s - 1) * b \in Nat /\ (a - 1) * b \in Nat /\ a * b \in Nat
         /\ (s - 1) * b <= (a - 1) * b /\ (a - 1) * b <= a * b
         /\ (s - 1) * b <= a * b
<1>1. s - 1 \in Nat /\ a - 1 \in Nat /\ a \in Nat /\ s - 1 <= a - 1 /\ a - 1 <= a
  BY DEF Numbers
<1>2. \A x, y \in Nat : x * b \in Nat /\ (x <= y => x * b <= y * b)
  OBVIOUS
<1>3. (s - 1) * b <= (a - 1) * b /\ (a - 1) * b <= a * b
  BY <1>1, <1>2
<1>4. (s - 1) * b \in Nat /\ (a - 1) * b \in Nat /\ a * b \in Nat
  BY <1>1, <1>2
<1> DEFINE x == (s - 1) * b
           y == (a - 1) * b
           z == a * b
<1>5. x \in Nat /\ y \in Nat /\ z \in Nat /\ x <= y /\ y <= z
  BY <1>3, <1>4
<1> HIDE DEF x, y, z
<1>6. x <= z
  BY <1>5
<1>. QED  BY <1>3, <1>4, <1>6 DEF x, z

\* The first answer lists its own page, and the walk starts with it.
LEMMA PagesInvInit ==
  ASSUME Init
  PROVE  PagesInv
<1>1. ListOK
  <2>1. items \in Seq(Items) /\ Len(items) <= MaxItems
    <3>1. PICK n \in 0..MaxItems : items \in [1..n -> Items]
      BY DEF Init, BoundedSeq, SeqOf
    <3>2. n \in Nat /\ n <= MaxItems
      BY PagesAssumption
    <3>3. items \in Seq(Items)
      BY <3>1, <3>2, SeqDef
    <3>4. DOMAIN items = 1..n /\ Len(items) \in Nat /\ DOMAIN items = 1..Len(items)
      BY <3>1, <3>3, LenProperties
    <3>5. Len(items) = n
      BY <3>2, <3>4
    <3>. QED  BY <3>2, <3>3, <3>5
  <2>. QED  BY <2>1 DEF Init, ListOK
<1>2. QueryOK(query)
  BY FirstQueriesAreOK DEF Init
<1>3. answer \in Answers(query)
  BY DEF Init
<1>4. start = Parsed(query).page /\ start \in Numbers /\ start <= Parsed(query).page
  BY <1>2 DEF Init, QueryOK, Numbers
<1>5. walk = ReadTo(query, (start - 1) * Parsed(query).per_page,
                    Parsed(query).page * Parsed(query).per_page)
  BY <1>1, <1>2, <1>3, <1>4, AnswerLists DEF Init
<1>. QED  BY <1>1, <1>2, <1>3, <1>4, <1>5 DEF PagesInv, WalkInv

\* What the query of a link reads, when the list and the route stay.
LEMMA LinkStep ==
  ASSUME PagesInv, NEW rel \in DOMAIN answer.links,
         NEW q, q = answer.links[rel], NEW ans \in Answers(q)
  PROVE  /\ QueryOK(q)
         /\ Parsed(q).per_page = Parsed(query).per_page
         /\ rel = "next" => Parsed(q).page = Parsed(query).page + 1
         /\ \A from, to : ReadTo(q, from, to) = ReadTo(query, from, to)
         /\ LET asked == Parsed(q)
            IN  ans.listed = ReadTo(q, (asked.page - 1) * asked.per_page,
                                    asked.page * asked.per_page)
<1> DEFINE asked == Parsed(query)
           t == Targets(asked)
<1>1. /\ DOMAIN answer.links = DOMAIN t \ answer.damaged
      /\ Parsed(q) = [asked EXCEPT !.page = t[rel]]
  BY AnswerLinks DEF PagesInv
<1>2. t[rel] \in Numbers /\ (rel = "next" => t[rel] = asked.page + 1)
  <2>1. rel \in DOMAIN t
    BY <1>1
  <2>. QED  BY <2>1, TargetsAre DEF PagesInv
<1>3. DOMAIN asked = Filters \cup {"page", "per_page"}
  BY DEF Parsed
<1>4. /\ Parsed(q).page = t[rel] /\ Parsed(q).per_page = asked.per_page
      /\ route = "issues" => /\ Parsed(q).state = asked.state
                             /\ Parsed(q).labels = asked.labels
  <2> HIDE DEF asked, t
  <2>. QED  BY <1>1, <1>3 DEF Filters
<1>5. QueryOK(q)
  BY <1>2, <1>4 DEF PagesInv, QueryOK
<1>6. \A n : Matches(n, Parsed(q)) <=> Matches(n, asked)
  BY <1>4 DEF Matches
<1>7. Matching(Parsed(q)) = Matching(asked)
  BY <1>6 DEF Matching
<1>8. \A from, to : ReadTo(q, from, to) = ReadTo(query, from, to)
  BY <1>7 DEF ReadTo
<1>9. LET other == Parsed(q)
      IN  ans.listed = ReadTo(q, (other.page - 1) * other.per_page,
                              other.page * other.per_page)
  BY <1>5, AnswerLists DEF PagesInv
<1>. QED  BY <1>2, <1>4, <1>5, <1>8, <1>9

\* A walk that goes on by a next link has what the pages up to the new one list.
LEMMA WalkGoesOn ==
  ASSUME PagesInv, "next" \in DOMAIN answer.links,
         NEW q, q = answer.links["next"], NEW ans \in Answers(q)
  PROVE  /\ start <= Parsed(q).page
         /\ walk \o ans.listed = ReadTo(q, (start - 1) * Parsed(q).per_page,
                                        Parsed(q).page * Parsed(q).per_page)
<1> DEFINE a == Parsed(q).page
           b == Parsed(q).per_page
           o == Parsed(query).page
<1>1. /\ a \in Numbers /\ b \in Nat
      /\ Parsed(query).per_page = b /\ a = o + 1
      /\ \A from, to : ReadTo(q, from, to) = ReadTo(query, from, to)
      /\ ans.listed = ReadTo(q, (a - 1) * b, a * b)
  BY LinkStep, PagesAssumption DEF QueryOK
<1>2. /\ o \in Numbers /\ start \in Numbers /\ start <= o
      /\ walk = ReadTo(query, (start - 1) * b, o * b)
  BY <1>1 DEF PagesInv, WalkInv, QueryOK
<1> HIDE DEF a, b, o
<1>3. a - 1 = o /\ start <= a
  BY <1>1, <1>2 DEF Numbers
<1> DEFINE f == (start - 1) * b
           g == (a - 1) * b
           h == a * b
<1>4. f \in Nat /\ g \in Nat /\ h \in Nat /\ f <= g /\ g <= h
  <2>1. start <= a - 1 /\ a - 1 \in Numbers
    BY <1>2, <1>3
  <2>. QED  BY <1>1, <1>2, <1>3, <2>1, PlacesOfPages
<1>5. walk \o ans.listed = ReadTo(q, f, g) \o ReadTo(q, g, h)
  <2>1. walk = ReadTo(q, f, g)
    BY <1>1, <1>2, <1>3
  <2>. QED  BY <1>1, <2>1
<1> HIDE DEF f, g, h
<1>6. walk \o ans.listed = ReadTo(q, f, h)
  BY <1>4, <1>5, ReadGoesOn DEF PagesInv
<1>. QED  BY <1>3, <1>6 DEF f, h, a, b

\* While the list and the route stay, a query means what it meant.
LEMMA SameList ==
  ASSUME items' = items, route' = route, NEW q, query' = q
  PROVE  /\ ListOK' <=> ListOK
         /\ Parsed(query)' = Parsed(q)
         /\ QueryOK(query)' <=> QueryOK(q)
         /\ Answers(query)' = Answers(q)
         /\ \A from, to : ReadTo(query, from, to)' = ReadTo(q, from, to)
<1>1. ListOK' <=> ListOK
  BY DEF ListOK
<1>2. Filters' = Filters
  BY DEF Filters
<1>3. Parsed(query)' = Parsed(q)
  BY <1>2 DEF Parsed, Default
<1>4. QueryOK(query)' <=> QueryOK(q)
  BY <1>3 DEF QueryOK
<1>5. \A asked : Matching(asked)' = Matching(asked)
  BY DEF Matching, Matches
<1>6. \A S : Kept(S)' = Kept(S)
  BY DEF Kept
<1>7. \A from, to : ReadTo(query, from, to)' = ReadTo(q, from, to)
  <2>1. SUFFICES ASSUME NEW from, NEW to
                 PROVE  ReadTo(query, from, to)' = ReadTo(q, from, to)
    OBVIOUS
  <2>2. Matching(Parsed(query))' = Matching(Parsed(q))
    BY <1>3, <1>5
  <2>. QED  BY <1>6, <2>2 DEF ReadTo, Stretch
<1>8. \A asked : Page(asked)' = Page(asked) /\ Targets(asked)' = Targets(asked)
  BY <1>5 DEF Page, Targets, Pages
<1>9. \A asked, merged, cursor, damaged :
        Segments(asked, merged, cursor, damaged)' = Segments(asked, merged, cursor, damaged)
  <2>1. SUFFICES ASSUME NEW asked, NEW merged, NEW cursor, NEW damaged
                 PROVE  Segments(asked, merged, cursor, damaged)'
                        = Segments(asked, merged, cursor, damaged)
    OBVIOUS
  <2>2. Targets(asked)' = Targets(asked)
    BY <1>8
  <2>3. Segments(asked, merged, cursor, damaged)
        = SegmentsOf(Targets(asked), asked, merged, cursor, damaged)
    BY DEF Segments, SegmentsOf, LinkUrl
  <2>4. Segments(asked, merged, cursor, damaged)'
        = SegmentsOf(Targets(asked)', asked, merged, cursor, damaged)
    BY DEF Segments, SegmentsOf, LinkUrl
  <2>. QED  BY <2>2, <2>3, <2>4
<1>10. \A asked, merged, cursor, damaged :
         ListRoute(asked, merged, cursor, damaged)' = ListRoute(asked, merged, cursor, damaged)
  BY <1>2, <1>8, <1>9 DEF ListRoute
<1>11. Asked(query)' = Asked(q)
  BY <1>3 DEF Asked
<1>12. Answers(query)' = Answers(q)
  BY <1>10, <1>11 DEF Answers
<1>. QED  BY <1>1, <1>3, <1>4, <1>7, <1>12

\* Following a link keeps the invariant, whichever link it is.
LEMMA PagesInvNext ==
  ASSUME PagesInv, [Next]_vars
  PROVE  PagesInv'
<1>1. CASE UNCHANGED vars
  <2>1. /\ items' = items /\ route' = route /\ query' = query
        /\ answer' = answer /\ walk' = walk /\ start' = start
    BY <1>1 DEF vars
  <2>. QED  BY <2>1, SameList DEF PagesInv, WalkInv
<1>2. ASSUME NEW rel \in Rels, Follow(rel)
      PROVE  PagesInv'
  <2> DEFINE q == answer.links[rel]
  <2>1. /\ rel \in DOMAIN answer.links /\ query' = q
        /\ items' = items /\ route' = route
    BY <1>2 DEF Follow
  <2>2. /\ answer' \in Answers(query')
        /\ IF rel = "next" THEN walk' = walk \o answer'.listed /\ start' = start
           ELSE walk' = answer'.listed /\ start' = Parsed(query').page
    BY <1>2 DEF Follow
  <2> HIDE DEF q
  <2>3. /\ answer' \in Answers(q)
        /\ rel = "next" => walk' = walk \o answer'.listed /\ start' = start
        /\ rel # "next" => walk' = answer'.listed /\ start' = Parsed(q).page
        /\ q = answer.links[rel]
    BY <2>1, <2>2 DEF q
  <2>4. /\ start' \in Numbers /\ start' <= Parsed(q).page
        /\ walk' = ReadTo(q, (start' - 1) * Parsed(q).per_page,
                          Parsed(q).page * Parsed(q).per_page)
    <3>1. CASE rel = "next"
      <4>1. start' <= Parsed(q).page /\ start' \in Numbers
        BY <2>1, <2>3, <3>1, WalkGoesOn DEF PagesInv, WalkInv
      <4>2. walk \o answer'.listed = ReadTo(q, (start - 1) * Parsed(q).per_page,
                                            Parsed(q).page * Parsed(q).per_page)
        BY <2>1, <2>3, <3>1, WalkGoesOn
      <4>. QED  BY <2>3, <3>1, <4>1, <4>2
    <3>2. CASE rel # "next"
      <4>1. /\ QueryOK(q)
            /\ answer'.listed = ReadTo(q, (Parsed(q).page - 1) * Parsed(q).per_page,
                                       Parsed(q).page * Parsed(q).per_page)
        BY <2>1, <2>3, LinkStep
      <4>2. Parsed(q).page \in Numbers /\ Parsed(q).page <= Parsed(q).page
        BY <4>1 DEF QueryOK, Numbers
      <4>. QED  BY <2>3, <3>2, <4>1, <4>2
    <3>. QED  BY <3>1, <3>2
  <2>5. QueryOK(q)
    BY <2>1, <2>3, LinkStep
  <2>6. /\ ListOK' <=> ListOK
        /\ Parsed(query)' = Parsed(q)
        /\ QueryOK(query)' <=> QueryOK(q)
        /\ Answers(query)' = Answers(q)
        /\ \A from, to : ReadTo(query, from, to)' = ReadTo(q, from, to)
    BY <2>1, SameList
  <2>. QED  BY <2>3, <2>4, <2>5, <2>6 DEF PagesInv, WalkInv
<1>. QED  BY <1>1, <1>2 DEF Next

\* In every state the answer is one of list_issues() or list_comments() to the
\* query, the query is in range, and the walk is what its pages list.
THEOREM PagesInvariant == Spec => []PagesInv
<1>1. Init => PagesInv
  BY PagesInvInit
<1>2. PagesInv /\ [Next]_vars => PagesInv'
  BY PagesInvNext
<1>. QED  BY <1>1, <1>2, PTL DEF Spec

-----------------------------------------------------------------------------

\* rewrite_link_header(): however GitHub writes its Link header, a link asks the
\* question the client asked, of another page, and says nothing else.
THEOREM PagesLinksKeepTheQuestion == Spec => []LinksKeepTheQuestion
<1>1. PagesInv => LinksKeepTheQuestion
  <2>1. SUFFICES ASSUME PagesInv PROVE LinksKeepTheQuestion
    OBVIOUS
  <2> DEFINE asked == Parsed(query)
             t == Targets(asked)
  <2>2. \A rel \in DOMAIN answer.links :
          /\ DOMAIN answer.links[rel] \subseteq DOMAIN asked
          /\ Parsed(answer.links[rel]) = [asked EXCEPT !.page = t[rel]]
    BY <2>1, AnswerLinks DEF PagesInv
  <2>3. "page" \in DOMAIN asked
    BY DEF Parsed
  <2> HIDE DEF t
  <2>4. ASSUME NEW rel \in DOMAIN answer.links
        PROVE  LET next == Parsed(answer.links[rel])
               IN  /\ DOMAIN answer.links[rel] \subseteq DOMAIN asked
                   /\ next = [asked EXCEPT !.page = next.page]
    <3> DEFINE next == Parsed(answer.links[rel])
    <3>1. next = [asked EXCEPT !.page = t[rel]]
      BY <2>2
    <3> HIDE DEF next, asked
    <3>2. next.page = t[rel]
      BY <2>3, <3>1
    <3>3. next = [asked EXCEPT !.page = next.page]
      BY <3>1, <3>2
    <3>. QED  BY <2>2, <3>3 DEF next
  <2>. QED  BY <2>4 DEF LinksKeepTheQuestion
<1>. QED  BY <1>1, PagesInvariant, PTL

\* list_issues() leaves pull requests out of a page that GitHub has cut already;
\* still, what next links gather has every issue of those pages once, in order.
THEOREM PagesWalkGathersAll == Spec => []WalkGathersAll
<1>1. PagesInv => WalkGathersAll
  <2>1. SUFFICES ASSUME PagesInv PROVE WalkGathersAll
    OBVIOUS
  <2> DEFINE asked == Parsed(query)
             read == Stretch(Matching(asked), (start - 1) * asked.per_page,
                             asked.page * asked.per_page)
  <2>2. walk = InOrder[Kept(ToSet(read))]
    BY <2>1 DEF PagesInv, WalkInv, ReadTo
  <2>3. Kept(ToSet(read)) = {n \in ToSet(read) : route = "issues" => ~items[n].pull}
    BY DEF Kept
  <2>4. walk = InOrder[{n \in ToSet(read) : route = "issues" => ~items[n].pull}]
    BY <2>2, <2>3
  <2>. QED  BY <2>4 DEF WalkGathersAll, Stretch
<1>. QED  BY <1>1, PagesInvariant, PTL

\* parse_link_header() and rewrite_link_header() lose no next link: where the
\* client finds none and GitHub's was not damaged, nothing that matches is left.
THEOREM PagesNothingLeftBehind == Spec => []NothingLeftBehind
<1>1. PagesInv => NothingLeftBehind
  <2>1. SUFFICES ASSUME PagesInv, "next" \notin DOMAIN answer.links,
                        "next" \notin answer.damaged
                 PROVE  LET asked == Parsed(query)
                        IN  Len(Matching(asked)) <= asked.page * asked.per_page
    BY DEF NothingLeftBehind
  <2> DEFINE asked == Parsed(query)
             t == Targets(asked)
             a == asked.page
             b == asked.per_page
             n == Len(Matching(asked))
  <2>2. DOMAIN answer.links = DOMAIN t \ answer.damaged
    BY <2>1, AnswerLinks DEF PagesInv
  <2>3. Pages(asked) <= a
    <3>1. "next" \notin DOMAIN t
      BY <2>1, <2>2
    <3>. QED  BY <2>1, <3>1, TargetsAre DEF PagesInv
  <2>4. (n + b - 1) \div b <= a
    BY <2>3 DEF Pages
  <2>5. a \in Nat /\ b \in Nat /\ b > 0
    BY <2>1, PagesAssumption DEF PagesInv, QueryOK, Numbers
  <2>6. n \in Nat
    BY <2>1, MatchingLists, ToSetIs DEF Lists, PagesInv
  <2> HIDE DEF a, b, n
  <2>7. n <= a * b
    BY <2>4, <2>5, <2>6
  <2>. QED  BY <2>7 DEF a, b, n
<1>. QED  BY <1>1, PagesInvariant, PTL

=============================================================================
