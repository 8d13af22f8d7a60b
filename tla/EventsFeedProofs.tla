-------------------------- MODULE EventsFeedProofs --------------------------
(***************************************************************************)
(* What a client of GET /events may conclude from two answers in a row, for *)
(* every number of handlers and deliveries, every retention and every        *)
(* question.                                                                *)
(*                                                                          *)
(* FeedInv relates the last answer to the table as it is now.  What the      *)
(* three properties need of it is that a row the answer left out below its   *)
(* last line cannot outlive the rows the answer had, because pruning would   *)
(* have to take them first; and that no background task is left for a row    *)
(* that has been settled, because only an insertion starts one.              *)
(***************************************************************************)
EXTENDS EventsFeed, EventStoreProofs, SequenceTheorems

-----------------------------------------------------------------------------
\* One answer

(***************************************************************************)
(* ORDER BY id DESC lists every row of a finite table once, newest first.    *)
(***************************************************************************)
LEMMA NewestFirstLists ==
  ASSUME NEW S \in SUBSET Nat, IsFiniteSet(S)
  PROVE  /\ NewestFirst(S) \in [1..Cardinality(S) -> S]
         /\ \A p, q \in 1..Cardinality(S) : p < q => NewestFirst(S)[p] > NewestFirst(S)[q]
         /\ \A i \in S : \E p \in 1..Cardinality(S) : NewestFirst(S)[p] = i
<1> DEFINE n == Cardinality(S)
           rank == [i \in S |-> Cardinality(Above(S, i))]
           listed == [p \in 1..n |-> CHOOSE i \in S : rank[i] = p - 1]
           Descends(s) == \A p, q \in 1..n : p < q => s[p] > s[q]
<1>1. /\ n \in Nat
      /\ rank \in Injection(S, 0..(n - 1))
      /\ rank \in Surjection(S, 0..(n - 1))
  BY RankIsBijection
<1>2. \A i, k \in S : i < k => rank[i] > rank[k]
  <2>1. SUFFICES ASSUME NEW i \in S, NEW k \in S, i < k
                 PROVE  Cardinality(Above(S, i)) > Cardinality(Above(S, k))
    OBVIOUS
  <2>2. Above(S, k) \subseteq Above(S, i)
    <3>1. ASSUME NEW j \in Above(S, k) PROVE j \in S /\ j > i
      <4>1. j \in S /\ j > k /\ j \in Nat /\ i \in Nat /\ k \in Nat
        BY DEF Above
      <4>. QED  BY <2>1, <4>1
    <3>. QED  BY <3>1 DEF Above
  <2>3. IsFiniteSet(Above(S, i)) /\ IsFiniteSet(Above(S, k))
    BY FS_Subset DEF Above
  <2>4. Cardinality(Above(S, k)) <= Cardinality(Above(S, i))
    BY <2>2, <2>3, FS_Subset
  <2>5. rank[i] # rank[k]
    BY <1>1, <2>1 DEF Injection, IsInjective
  <2>6. Cardinality(Above(S, i)) \in Nat /\ Cardinality(Above(S, k)) \in Nat
    BY <2>3, FS_CardinalityType
  <2>. QED  BY <2>4, <2>5, <2>6
<1>3. \A i \in S : rank[i] \in 0..(n - 1)
  BY <1>1 DEF Injection
<1>4. \A p \in 1..n : \E i \in S : rank[i] = p - 1
  <2>1. SUFFICES ASSUME NEW p \in 1..n PROVE \E i \in S : rank[i] = p - 1
    OBVIOUS
  <2>2. p - 1 \in 0..(n - 1)
    BY <1>1
  <2>. QED  BY <1>1, <2>2 DEF Surjection
<1> HIDE DEF n, rank
<1>5. \A p \in 1..n : listed[p] \in S /\ rank[listed[p]] = p - 1
  BY <1>4
<1>6. listed \in [1..n -> S] /\ Descends(listed)
  <2>1. SUFFICES ASSUME NEW p \in 1..n, NEW q \in 1..n, p < q
                 PROVE  listed[p] > listed[q]
    BY <1>5
  <2>2. /\ listed[p] \in S /\ rank[listed[p]] = p - 1
        /\ listed[q] \in S /\ rank[listed[q]] = q - 1
    BY <1>5
  <2> HIDE DEF listed
  <2>3. listed[p] \in Nat /\ listed[q] \in Nat
    BY <2>2
  <2>4. listed[p] < listed[q] => p - 1 > q - 1
    BY <1>2, <2>2
  <2>5. listed[p] = listed[q] => p - 1 = q - 1
    BY <2>2
  <2>6. p \in Int /\ q \in Int
    BY <1>1
  <2>. QED  BY <2>1, <2>3, <2>4, <2>5, <2>6
<1> DEFINE s == NewestFirst(S)
<1>7. s \in [1..n -> S] /\ Descends(s)
  <2>1. s = CHOOSE x \in [1..n -> S] : Descends(x)
    BY Zenon DEF NewestFirst, n
  <2> HIDE DEF s, Descends
  <2>. QED  BY <1>6, <2>1
<1>8. s \in Injection(1..n, S)
  <2> HIDE DEF s
  <2>1. \A p, q \in 1..n : s[p] = s[q] => p = q
    <3>1. SUFFICES ASSUME NEW p \in 1..n, NEW q \in 1..n, p < q, s[p] = s[q] PROVE FALSE
      BY <1>1
    <3>2. s[p] \in Nat /\ s[p] > s[q]
      BY <1>7, <3>1
    <3>. QED  BY <3>1, <3>2
  <2>. QED  BY <1>7, <2>1 DEF Injection, IsInjective
<1>9. IsFiniteSet(1..n) /\ Cardinality(1..n) = n
  BY <1>1, FS_Interval
<1>10. s \in Surjection(1..n, S)
  <2> HIDE DEF s
  <2>. QED  BY <1>8, <1>9, FS_Injection DEF n
<1>. QED  BY <1>7, <1>10 DEF Surjection, n

(***************************************************************************)
(* An answer lists the newest rows that match, as they are, each once.       *)
(***************************************************************************)
LEMMA WhatIsListed ==
  ASSUME StoreTypeOK, NEW n \in Nat, NEW e,
         NEW newest, newest = Newest(Matching(e), Clamped(n)),
         NEW answer, answer = ListRecent(n, e)
  PROVE  /\ answer \in Seq([id : Nat, row : Row])
         /\ Len(answer) = Cardinality(newest)
         /\ ListedIds(answer) = newest
         /\ \A p \in DOMAIN answer : answer[p].row = rows[answer[p].id]
         /\ \A p, q \in DOMAIN answer : answer[p].id = answer[q].id => p = q
<1> DEFINE ids == NewestFirst(newest)
           size == Cardinality(newest)
           Entries == [id : Nat, row : Row]
<1>1. newest \subseteq DOMAIN rows /\ newest \in SUBSET Nat /\ IsFiniteSet(newest)
  <2>1. newest \subseteq DOMAIN rows /\ DOMAIN rows \subseteq 1..lastId /\ lastId \in Nat
    BY DEF Newest, Matching, StoreTypeOK
  <2>2. IsFiniteSet(1..lastId)
    BY <2>1, FS_Interval
  <2>. QED  BY <2>1, <2>2, FS_Subset
<1>2. /\ ids \in [1..size -> newest]
      /\ \A p, q \in 1..size : p < q => ids[p] > ids[q]
      /\ \A i \in newest : \E p \in 1..size : ids[p] = i
  BY <1>1, NewestFirstLists
<1>3. size \in Nat
  BY <1>1, FS_CardinalityType
<1>4. answer = [p \in 1..size |-> [id |-> ids[p], row |-> rows[ids[p]]]]
  BY <1>2 DEF ListRecent
<1> HIDE DEF ids, size
<1>5. \A p \in 1..size : ids[p] \in newest /\ ids[p] \in Nat /\ rows[ids[p]] \in Row
  BY <1>1, <1>2 DEF StoreTypeOK
<1>6. \A p \in 1..size : answer[p] \in Entries
                         /\ answer[p].id = ids[p] /\ answer[p].row = rows[ids[p]]
  BY <1>4, <1>5
<1>7. answer \in Seq(Entries) /\ Len(answer) = size /\ DOMAIN answer = 1..size
  <2> HIDE DEF Entries
  <2>1. DOMAIN answer = 1..size /\ answer \in [1..size -> Entries]
    BY <1>4, <1>6
  <2>2. answer \in Seq(Entries)
    BY <1>3, <2>1, SeqDef
  <2>. QED  BY <1>3, <2>1, <2>2, LenProperties
<1>8. ListedIds(answer) = newest
  <2>1. \A i \in newest : \E p \in DOMAIN answer : answer[p].id = i
    BY <1>2, <1>6, <1>7
  <2>2. \A p \in DOMAIN answer : answer[p].id \in newest
    BY <1>5, <1>6, <1>7
  <2>. QED  BY <2>1, <2>2 DEF ListedIds
<1>9. \A p, q \in DOMAIN answer : answer[p].id = answer[q].id => p = q
  <2>1. SUFFICES ASSUME NEW p \in 1..size, NEW q \in 1..size, p < q, ids[p] = ids[q]
                 PROVE  FALSE
    BY <1>3, <1>6, <1>7
  <2>. QED  BY <1>2, <1>5, <2>1
<1>. QED  BY <1>6, <1>7, <1>8, <1>9 DEF size

-----------------------------------------------------------------------------
(***************************************************************************)
(* The invariant: the last answer and the table as it is now.                *)
(***************************************************************************)

\* A row as it was listed, and as it is now or in a later answer.
Forward(before, after) ==
  /\ after.key = before.key
  /\ after.attempts >= before.attempts
  /\ before.status # Received => after = before

AnswerTypeOK ==
  /\ limit \in Nat
  /\ listing \in Seq([id : Nat, row : Row])
  /\ \A p, q \in DOMAIN listing : listing[p].id = listing[q].id => p = q

\* A listed row that is still in the table has gone forward.
ShownInv ==
  \A p \in DOMAIN listing :
    /\ listing[p].id \in 1..lastId
    /\ listing[p].id \in DOMAIN rows => Forward(listing[p].row, rows[listing[p].id])

\* A matching row that was not listed is newer than the answer; or else the
\* answer was full of newer rows, and every one of them is still there.
LeftOutInv ==
  \A i \in Matching(filter) \ ListedIds(listing) :
    \/ \A j \in ListedIds(listing) : i > j
    \/ /\ ListedIds(listing) \subseteq Matching(filter)
       /\ \A j \in ListedIds(listing) : j > i
       /\ Cardinality(ListedIds(listing)) = Clamped(limit)

\* What a background task is to settle, and what record() has just inserted, is
\* not settled yet.  So an UPDATE that does not ask for the status finds 'received'.
UnsettledInv ==
  \A i \in DOMAIN rows : i \in tasks \/ (locked /\ i = lastId) => rows[i].status = Received

FeedInv == StoreTypeOK /\ AnswerTypeOK /\ ShownInv /\ LeftOutInv /\ UnsettledInv

\* mark_processed() and mark_failed() write a row that is not settled, or nothing.
LEMMA SettlingGoesForward ==
  ASSUME StoreTypeOK, UnsettledInv, NEW i \in tasks, i \in DOMAIN rows, SettleRow(i)
  PROVE  /\ StoreTypeOK' /\ DOMAIN rows' = DOMAIN rows /\ lastId' = lastId
         /\ UNCHANGED <<limit, filter, listing>>
         /\ \A j \in DOMAIN rows : Forward(rows[j], rows'[j])
<1>1. PICK row \in Row : /\ rows' = [j \in DOMAIN rows |-> IF j = i THEN row ELSE rows[j]]
                          /\ row.key = rows[i].key /\ row.attempts >= rows[i].attempts
  <2>1. rows[i] \in Row
    BY DEF StoreTypeOK
  <2>2. CASE MarkProcessed(i)
    <3> DEFINE row == [key |-> rows[i].key, status |-> Processed,
                       attempts |-> rows[i].attempts + 1, error |-> FALSE,
                       processedAt |-> TRUE]
    <3>1. row \in Row /\ row.key = rows[i].key /\ row.attempts >= rows[i].attempts
      BY <2>1 DEF Row, Statuses
    <3>2. rows' = [j \in DOMAIN rows |-> IF j = i THEN row ELSE rows[j]]
      BY <2>2 DEF MarkProcessed, Update
    <3> HIDE DEF row
    <3>. QED  BY <3>1, <3>2
  <2>3. CASE MarkFailed(i)
    <3> DEFINE row == [key |-> rows[i].key, status |-> Failed,
                       attempts |-> rows[i].attempts + 1, error |-> TRUE,
                       processedAt |-> rows[i].processedAt]
    <3>1. row \in Row /\ row.key = rows[i].key /\ row.attempts >= rows[i].attempts
      BY <2>1 DEF Row, Statuses
    <3>2. rows' = [j \in DOMAIN rows |-> IF j = i THEN row ELSE rows[j]]
      BY <2>3 DEF MarkFailed, Update
    <3> HIDE DEF row
    <3>. QED  BY <3>1, <3>2
  <2>. QED  BY <2>2, <2>3 DEF SettleRow
<1>2. /\ rows[i].status = Received
      /\ UNCHANGED <<lastId, locked, limit, filter, listing>>
  BY DEF SettleRow, MarkProcessed, MarkFailed, Update, clientVars, UnsettledInv
<1>3. \A j \in DOMAIN rows : Forward(rows[j], rows'[j])
  <2>1. SUFFICES ASSUME NEW j \in DOMAIN rows PROVE Forward(rows[j], rows'[j])
    OBVIOUS
  <2>2. CASE j = i
    BY <1>1, <1>2, <2>2 DEF Forward
  <2>3. CASE j # i
    <3>1. rows'[j] = rows[j] /\ rows[j].attempts \in Nat
      BY <1>1, <2>3 DEF StoreTypeOK, Row
    <3>. QED  BY <3>1 DEF Forward
  <2>. QED  BY <2>2, <2>3
<1>. QED  BY <1>1, <1>2, <1>3 DEF StoreTypeOK

\* Its UPDATE finds nothing when the row has been pruned.
LEMMA SettlingNothing ==
  ASSUME StoreTypeOK, NEW i, i \notin DOMAIN rows, SettleRow(i)
  PROVE  /\ StoreTypeOK' /\ DOMAIN rows' = DOMAIN rows /\ lastId' = lastId
         /\ UNCHANGED <<limit, filter, listing>>
         /\ \A j \in DOMAIN rows : rows'[j] = rows[j]
<1>1. UNCHANGED <<lastId, locked, limit, filter, listing>>
  BY DEF SettleRow, MarkProcessed, MarkFailed, Update, clientVars
<1>2. DOMAIN rows' = DOMAIN rows /\ \A j \in DOMAIN rows : rows'[j] = rows[j]
  <2>1. CASE MarkProcessed(i)
    BY <2>1 DEF MarkProcessed, Update
  <2>2. CASE MarkFailed(i)
    BY <2>2 DEF MarkFailed, Update
  <2>. QED  BY <2>1, <2>2 DEF SettleRow
<1>. QED  BY <1>1, <1>2 DEF StoreTypeOK

\* What is forward of what is forward is forward.
LEMMA ForwardComposes ==
  ASSUME NEW a \in Row, NEW b \in Row, NEW c \in Row, Forward(a, b), Forward(b, c)
  PROVE  Forward(a, c)
BY DEF Forward, Row

\* The invariant survives every step that leaves the question and the answer
\* alone, moves the rows forward, and removes the oldest if any.
LEMMA TableMoves ==
  ASSUME FeedInv, StoreTypeOK', UnsettledInv', UNCHANGED <<limit, filter, listing>>,
         lastId' >= lastId,
         \A i \in DOMAIN rows' : i \in DOMAIN rows \/ i > lastId,
         \A i \in DOMAIN rows \cap DOMAIN rows' : Forward(rows[i], rows'[i]),
         \A i \in DOMAIN rows \cap DOMAIN rows', j \in DOMAIN rows :
           j > i => j \in DOMAIN rows'
  PROVE  FeedInv'
<1>1. AnswerTypeOK'
  BY DEF FeedInv, AnswerTypeOK
<1>2. lastId \in Nat /\ lastId' \in Nat /\ DOMAIN rows \subseteq 1..lastId
  BY DEF FeedInv, StoreTypeOK
<1>3. ShownInv'
  <2>1. SUFFICES ASSUME NEW p \in DOMAIN listing
                 PROVE  /\ listing[p].id \in 1..lastId'
                        /\ listing[p].id \in DOMAIN rows' =>
                             Forward(listing[p].row, rows'[listing[p].id])
    BY DEF ShownInv
  <2>2. listing[p].id \in 1..lastId
    BY DEF FeedInv, ShownInv
  <2>3. ASSUME listing[p].id \in DOMAIN rows'
        PROVE  Forward(listing[p].row, rows'[listing[p].id])
    <3>1. listing[p].id \in DOMAIN rows
      BY <1>2, <2>2, <2>3
    <3>2. /\ Forward(listing[p].row, rows[listing[p].id])
          /\ Forward(rows[listing[p].id], rows'[listing[p].id])
      BY <2>3, <3>1 DEF FeedInv, ShownInv
    <3>3. rows[listing[p].id] \in Row /\ rows'[listing[p].id] \in Row
      BY <2>3, <3>1 DEF FeedInv, StoreTypeOK
    <3>4. listing[p] \in [id : Nat, row : Row]
      BY LenProperties, ElementOfSeq DEF FeedInv, AnswerTypeOK
    <3>. QED  BY <3>2, <3>3, <3>4, ForwardComposes
  <2>. QED  BY <1>2, <2>2, <2>3
<1>4. LeftOutInv'
  <2>1. UNCHANGED ListedIds(listing) /\ \A j \in ListedIds(listing) : j \in 1..lastId
    BY DEF ListedIds, FeedInv, ShownInv
  <2>2. SUFFICES ASSUME NEW i \in Matching(filter)', i \notin ListedIds(listing),
                        ~ \A j \in ListedIds(listing) : i > j
                 PROVE  /\ ListedIds(listing) \subseteq Matching(filter)'
                        /\ \A j \in ListedIds(listing) : j > i
                        /\ Cardinality(ListedIds(listing)) = Clamped(limit)
    BY <2>1 DEF LeftOutInv, Clamped
  <2>3. i \in DOMAIN rows /\ i \in DOMAIN rows'
    <3>1. i \in DOMAIN rows'
      BY DEF Matching
    <3>2. PICK j \in ListedIds(listing) : ~(i > j)
      BY <2>2
    <3>3. j \in Nat /\ j <= lastId
      BY <1>2, <2>1
    <3>4. ~(i > lastId)
      <4>1. SUFFICES ASSUME i > lastId PROVE i > j
        BY <3>2
      <4>2. i \in Nat
        BY <3>1 DEF StoreTypeOK
      <4>. QED  BY <1>2, <3>3, <4>1, <4>2
    <3>. QED  BY <3>1, <3>4
  <2>4. \A j \in DOMAIN rows \cap DOMAIN rows' :
          j \in Matching(filter) <=> j \in Matching(filter)'
    BY DEF Matching, Forward
  <2>5. i \in Matching(filter)
    BY <2>2, <2>3, <2>4
  <2>6. /\ ListedIds(listing) \subseteq Matching(filter)
        /\ \A j \in ListedIds(listing) : j > i
        /\ Cardinality(ListedIds(listing)) = Clamped(limit)
    BY <2>2, <2>5 DEF FeedInv, LeftOutInv
  <2>7. \A j \in ListedIds(listing) : j \in DOMAIN rows \cap DOMAIN rows'
    BY <2>3, <2>6 DEF Matching
  <2>. QED  BY <2>4, <2>6, <2>7
<1>. QED  BY <1>1, <1>3, <1>4 DEF FeedInv

\* Which rows the steps of the store leave, and how far they have gone.
LEMMA StoreSteps ==
  ASSUME FeedInv, FeedNext, ~List
  PROVE  FeedInv'
<1>1. /\ lastId \in Nat /\ DOMAIN rows \subseteq 1..lastId
      /\ \A i \in DOMAIN rows : rows[i] \in Row /\ Forward(rows[i], rows[i])
  BY DEF FeedInv, StoreTypeOK, Forward, Row
<1>2. ASSUME NEW k \in Keys, Insert(k) PROVE FeedInv'
  <2>1. /\ lastId' = lastId + 1 /\ locked' = TRUE
        /\ rows' = [i \in DOMAIN rows \cup {lastId + 1} |->
                      IF i = lastId + 1 THEN NewRow(k) ELSE rows[i]]
        /\ UNCHANGED <<tasks, limit, filter, listing>>
    BY <1>2 DEF Insert, CommitInsert, clientVars
  <2>2. NewRow(k) \in Row
    BY DEF NewRow, Row, Statuses
  <2>3. \A i \in DOMAIN rows : rows'[i] = rows[i]
    BY <1>1, <2>1
  <2>4. DOMAIN rows' = DOMAIN rows \cup {lastId + 1}
    BY <2>1
  <2>5. StoreTypeOK'
    BY <1>1, <2>1, <2>2 DEF StoreTypeOK
  <2>6. lastId' >= lastId /\ lastId + 1 > lastId
    BY <1>1, <2>1
  <2>7. UnsettledInv'
    <3>1. rows'[lastId + 1].status = Received /\ lastId + 1 \notin DOMAIN rows
      BY <1>1, <2>1 DEF NewRow
    <3>. QED  BY <2>1, <2>3, <2>4, <3>1 DEF FeedInv, UnsettledInv
  <2>. QED  BY <1>1, <2>1, <2>3, <2>4, <2>5, <2>6, <2>7, TableMoves
<1>3. ASSUME EndInsert PROVE FeedInv'
  <2>1. /\ lastId' = lastId /\ locked /\ locked' = FALSE /\ tasks' = tasks \cup {lastId}
        /\ rows' = [i \in Newest(DOMAIN rows, Retention) |-> rows[i]]
        /\ UNCHANGED <<limit, filter, listing>>
    BY <1>3 DEF EndInsert, CommitPrune, clientVars
  <2>2. DOMAIN rows' = Newest(DOMAIN rows, Retention) /\ DOMAIN rows' \subseteq DOMAIN rows
    BY <2>1 DEF Newest
  <2>3. \A i \in DOMAIN rows' : rows'[i] = rows[i]
    BY <2>1
  <2>4. StoreTypeOK'
    BY <1>1, <2>1, <2>2, <2>3 DEF StoreTypeOK
  <2>5. \A i \in DOMAIN rows', j \in DOMAIN rows : j > i => j \in DOMAIN rows'
    <3>1. SUFFICES ASSUME NEW i \in DOMAIN rows', NEW j \in DOMAIN rows,
                          j \notin DOMAIN rows'
                   PROVE  ~(j > i)
      OBVIOUS
    <3>2. DOMAIN rows \in SUBSET Nat /\ IsFiniteSet(DOMAIN rows) /\ Retention \in Nat
      <4>1. IsFiniteSet(1..lastId)
        BY <1>1, FS_Interval
      <4>2. IsFiniteSet(DOMAIN rows)
        BY <1>1, <4>1, FS_Subset
      <4>. QED  BY <1>1, <4>2, RetentionAssumption
    <3>3. j < i
      BY <2>2, <3>1, <3>2, PrunedAreOldest
    <3>4. i \in Nat /\ j \in Nat
      BY <2>2, <3>2
    <3>. QED  BY <3>3, <3>4
  <2>6. lastId' >= lastId
    BY <1>1, <2>1
  <2>7. UnsettledInv'
    BY <2>1, <2>2, <2>3 DEF FeedInv, UnsettledInv
  <2>. QED  BY <1>1, <2>1, <2>2, <2>3, <2>4, <2>5, <2>6, <2>7, TableMoves
<1>4. ASSUME InsertFails \/ Crash \/ \E i \in tasks : GiveUp(i) PROVE FeedInv'
  <2>1. /\ UNCHANGED <<rows, lastId, limit, filter, listing>>
        /\ tasks' \subseteq tasks /\ locked' \in BOOLEAN /\ (locked' => locked)
    <3>1. CASE InsertFails
      <4>1. UNCHANGED <<rows, lastId, limit, filter, listing, tasks>> /\ locked' = FALSE
        BY <3>1 DEF InsertFails, AbandonPrune, clientVars
      <4>. QED  BY <4>1
    <3>2. CASE Crash
      <4>1. UNCHANGED <<rows, lastId, limit, filter, listing>> /\ tasks' = {} /\ locked' = FALSE
        BY <3>2 DEF Crash, clientVars
      <4>. QED  BY <4>1
    <3>3. CASE \E i \in tasks : GiveUp(i)
      <4>1. PICK i \in tasks : GiveUp(i)
        BY <3>3
      <4>2. /\ UNCHANGED <<rows, lastId, limit, filter, listing>>
            /\ tasks' = tasks \ {i} /\ locked' = locked
        BY <4>1 DEF GiveUp, clientVars, storeVars
      <4>3. locked \in BOOLEAN
        BY DEF FeedInv, StoreTypeOK
      <4>. QED  BY <4>2, <4>3
    <3>. QED  BY <1>4, <3>1, <3>2, <3>3
  <2>2. StoreTypeOK' /\ UnsettledInv'
    BY <2>1 DEF FeedInv, StoreTypeOK, UnsettledInv
  <2>3. lastId' >= lastId /\ rows' = rows
    BY <1>1, <2>1
  <2>. QED  BY <1>1, <2>1, <2>2, <2>3, TableMoves
<1>5. ASSUME NEW k \in Keys, Redeliver(k) PROVE FeedInv'
  <2>1. /\ UNCHANGED <<rows, locked, tasks, limit, filter, listing>> /\ ~locked
        /\ lastId' \in {lastId, lastId + 1}
    BY <1>5 DEF Redeliver, CommitDuplicate, clientVars
  <2>2. StoreTypeOK' /\ lastId' >= lastId
    BY <1>1, <2>1 DEF FeedInv, StoreTypeOK
  <2>3. UnsettledInv'
    BY <2>1 DEF FeedInv, UnsettledInv
  <2>. QED  BY <1>1, <2>1, <2>2, <2>3, TableMoves
<1>6. ASSUME NEW i \in tasks, SettleRow(i) PROVE FeedInv'
  <2>0. ~locked /\ tasks' = tasks \ {i} /\ locked' = locked
    BY <1>6 DEF SettleRow, MarkProcessed, MarkFailed, Update
  <2>1. CASE i \in DOMAIN rows
    <3>1. /\ StoreTypeOK' /\ DOMAIN rows' = DOMAIN rows /\ lastId' = lastId
          /\ UNCHANGED <<limit, filter, listing>>
          /\ \A j \in DOMAIN rows : Forward(rows[j], rows'[j])
      BY <1>6, <2>1, SettlingGoesForward DEF FeedInv
    <3>2. lastId' >= lastId
      BY <1>1, <3>1
    <3>3. \A j \in DOMAIN rows : j # i => rows'[j] = rows[j]
      BY <1>6 DEF SettleRow, MarkProcessed, MarkFailed, Update
    <3>4. UnsettledInv'
      BY <2>0, <3>1, <3>3 DEF FeedInv, UnsettledInv
    <3>. QED  BY <3>1, <3>2, <3>4, TableMoves
  <2>2. CASE i \notin DOMAIN rows
    <3>1. /\ StoreTypeOK' /\ DOMAIN rows' = DOMAIN rows /\ lastId' = lastId
          /\ UNCHANGED <<limit, filter, listing>>
          /\ \A j \in DOMAIN rows : rows'[j] = rows[j]
      BY <1>6, <2>2, SettlingNothing DEF FeedInv
    <3>2. lastId' >= lastId
      BY <1>1, <3>1
    <3>3. UnsettledInv'
      BY <2>0, <3>1 DEF FeedInv, UnsettledInv
    <3>. QED  BY <1>1, <3>1, <3>2, <3>3, TableMoves
  <2>. QED  BY <2>1, <2>2
<1>. QED  BY <1>2, <1>3, <1>4, <1>5, <1>6 DEF FeedNext

\* list_events(): what the new answer has to do with the table and the old one.
LEMMA ListSteps ==
  ASSUME FeedInv, List
  PROVE  /\ FeedInv' /\ UNCHANGED <<storeVars, limit, filter>>
         /\ ListedIds(listing') = Newest(Matching(filter), Clamped(limit))
         /\ Len(listing') = Cardinality(ListedIds(listing'))
         /\ \A p \in DOMAIN listing' : listing'[p].row = rows[listing'[p].id]
<1> DEFINE newest == Newest(Matching(filter), Clamped(limit))
<1>1. /\ listing' = ListRecent(limit, filter)
      /\ UNCHANGED <<rows, lastId, locked, tasks, limit, filter>>
  BY DEF List, storeVars
<1>2. StoreTypeOK /\ limit \in Nat
  BY DEF FeedInv, AnswerTypeOK
<1>3. /\ listing' \in Seq([id : Nat, row : Row])
      /\ Len(listing') = Cardinality(newest)
      /\ ListedIds(listing') = newest
      /\ \A p \in DOMAIN listing' : listing'[p].row = rows[listing'[p].id]
      /\ \A p, q \in DOMAIN listing' : listing'[p].id = listing'[q].id => p = q
  <2> DEFINE answer == ListRecent(limit, filter)
  <2>1. /\ answer \in Seq([id : Nat, row : Row])
        /\ Len(answer) = Cardinality(newest)
        /\ ListedIds(answer) = newest
        /\ \A p \in DOMAIN answer : answer[p].row = rows[answer[p].id]
        /\ \A p, q \in DOMAIN answer : answer[p].id = answer[q].id => p = q
    BY <1>2, WhatIsListed
  <2>2. listing' = answer
    BY <1>1
  <2> HIDE DEF answer, newest
  <2>. QED  BY <2>1, <2>2
<1>4. /\ Matching(filter) \subseteq DOMAIN rows /\ newest \subseteq Matching(filter)
      /\ DOMAIN rows \subseteq 1..lastId /\ lastId \in Nat
  BY <1>2 DEF Matching, Newest, StoreTypeOK
<1>5. Matching(filter) \in SUBSET Nat /\ IsFiniteSet(Matching(filter))
  <2>1. IsFiniteSet(1..lastId) /\ Matching(filter) \subseteq 1..lastId
    BY <1>4, FS_Interval
  <2>. QED  BY <1>4, <2>1, FS_Subset
<1>6. Clamped(limit) \in Nat
  BY <1>2, FeedAssumption DEF Clamped
<1>7. StoreTypeOK' /\ AnswerTypeOK'
  BY <1>1, <1>2, <1>3 DEF StoreTypeOK, AnswerTypeOK
<1>8. ShownInv'
  <2>1. \A p \in DOMAIN listing' : listing'[p].id \in newest
    BY <1>3 DEF ListedIds
  <2>2. \A i \in DOMAIN rows : Forward(rows[i], rows[i])
    BY <1>2 DEF StoreTypeOK, Forward, Row
  <2> HIDE DEF newest
  <2>. QED  BY <1>1, <1>3, <1>4, <2>1, <2>2 DEF ShownInv
<1>9. LeftOutInv'
  <2>1. SUFFICES ASSUME NEW i \in Matching(filter), i \notin newest
                 PROVE  /\ newest \subseteq Matching(filter)
                        /\ \A j \in newest : j > i
                        /\ Cardinality(newest) = Clamped(limit)
    BY <1>1, <1>3 DEF LeftOutInv, Matching, Clamped
  <2>2. \A j \in newest : i < j
    BY <1>5, <1>6, <2>1, PrunedAreOldest
  <2>3. Cardinality(newest) = Clamped(limit)
    BY <1>5, <1>6, <2>1, PrunedOnlyWhenFull
  <2>4. i \in Nat /\ newest \in SUBSET Nat
    BY <1>4, <1>5
  <2> HIDE DEF newest
  <2>. QED  BY <1>4, <2>2, <2>3, <2>4
<1>10. UnsettledInv'
  BY <1>1 DEF FeedInv, UnsettledInv
<1>. QED  BY <1>1, <1>3, <1>7, <1>8, <1>9, <1>10 DEF FeedInv, storeVars

(***************************************************************************)
(* The answer and the table keep fitting together.                          *)
(***************************************************************************)
THEOREM FeedInvariant == FeedSpec => []FeedInv
<1>1. FeedInit => FeedInv
  <2>1. SUFFICES ASSUME FeedInit PROVE FeedInv
    OBVIOUS
  <2>2. rows = <<>> /\ listing = <<>> /\ lastId = 0 /\ locked = FALSE /\ limit \in Limits
    BY <2>1 DEF FeedInit, StoreInit
  <2>3. Matching(filter) = {}
    BY <2>2 DEF Matching
  <2>4. StoreTypeOK
    <3>1. DOMAIN rows = {}
      BY <2>2
    <3>. QED  BY <2>2, <3>1 DEF StoreTypeOK
  <2>5. AnswerTypeOK
    BY <2>2, FeedAssumption, EmptySeq DEF AnswerTypeOK
  <2>6. ShownInv /\ LeftOutInv
    BY <2>2, <2>3 DEF ShownInv, LeftOutInv
  <2>7. UnsettledInv
    BY <2>2 DEF UnsettledInv
  <2>. QED  BY <2>4, <2>5, <2>6, <2>7 DEF FeedInv
<1>2. FeedInv /\ [FeedNext]_feedVars => FeedInv'
  <2>1. SUFFICES ASSUME FeedInv, [FeedNext]_feedVars PROVE FeedInv'
    OBVIOUS
  <2>2. CASE FeedNext
    BY <2>1, <2>2, StoreSteps, ListSteps
  <2>3. CASE UNCHANGED feedVars
    <3>1. UNCHANGED <<rows, lastId, locked, tasks, limit, filter, listing>>
      BY <2>3 DEF feedVars
    <3>2. StoreTypeOK' /\ AnswerTypeOK'
      BY <2>1, <3>1 DEF FeedInv, StoreTypeOK, AnswerTypeOK
    <3>3. ShownInv'
      BY <2>1, <3>1 DEF FeedInv, ShownInv
    <3>4. LeftOutInv'
      <4>1. /\ Matching(filter)' = Matching(filter)
            /\ ListedIds(listing)' = ListedIds(listing)
            /\ Clamped(limit)' = Clamped(limit)
        BY <3>1 DEF Matching, ListedIds, Clamped
      <4>2. LeftOutInv
        BY <2>1 DEF FeedInv
      <4>. QED  BY <4>1, <4>2 DEF LeftOutInv
    <3>5. UnsettledInv'
      BY <2>1, <3>1 DEF FeedInv, UnsettledInv
    <3>. QED  BY <3>2, <3>3, <3>4, <3>5 DEF FeedInv
  <2>. QED  BY <2>1, <2>2, <2>3
<1>. QED  BY <1>1, <1>2, PTL DEF FeedSpec

\* The entry that an answer has for a row it lists.
LEMMA EntryIs ==
  ASSUME NEW answer, NEW p \in DOMAIN answer, answer \in Seq([id : Nat, row : Row]),
         \A q, r \in DOMAIN answer : answer[q].id = answer[r].id => q = r
  PROVE  Entry(answer, answer[p].id) = answer[p]
<1>1. ToSet(answer) = {answer[q] : q \in DOMAIN answer}
  BY DEF ToSet
<1>2. \A e \in ToSet(answer) : e.id = answer[p].id => e = answer[p]
  BY <1>1
<1>3. answer[p] \in ToSet(answer)
  BY <1>1
<1>. QED  BY <1>2, <1>3 DEF Entry

(***************************************************************************)
(* Whatever is new in an answer of GET /events stands above everything the   *)
(* last answer had: pruning and filtering never let an old row come up.      *)
(***************************************************************************)
THEOREM FeedNewRowsOnTop == FeedSpec => NewRowsOnTop
<1> DEFINE OnTop == \A i \in ListedIds(listing') \ ListedIds(listing),
                       j \in ListedIds(listing) : i > j
<1>1. FeedInv /\ [FeedNext]_feedVars => OnTop \/ UNCHANGED feedVars
  <2>1. SUFFICES ASSUME FeedInv, FeedNext,
                        NEW i \in ListedIds(listing'), i \notin ListedIds(listing),
                        NEW j \in ListedIds(listing)
                 PROVE  i > j
    OBVIOUS
  <2>2. CASE List
    <3> DEFINE newest == Newest(Matching(filter), Clamped(limit))
    <3>1. ListedIds(listing') = newest
      BY <2>1, <2>2, ListSteps
    <3>2. i \in Matching(filter) /\ Cardinality(Above(Matching(filter), i)) < Clamped(limit)
      BY <2>1, <3>1 DEF Newest, Above
    <3>3. SUFFICES ASSUME /\ ListedIds(listing) \subseteq Matching(filter)
                          /\ \A k \in ListedIds(listing) : k > i
                          /\ Cardinality(ListedIds(listing)) = Clamped(limit)
                   PROVE  FALSE
      BY <2>1, <3>2 DEF FeedInv, LeftOutInv
    <3>4. ListedIds(listing) \subseteq Above(Matching(filter), i)
      BY <3>3 DEF Above
    <3>5. IsFiniteSet(Above(Matching(filter), i))
      <4>1. Above(Matching(filter), i) \subseteq 1..lastId /\ lastId \in Nat
        BY <2>1 DEF Above, Matching, FeedInv, StoreTypeOK
      <4>2. IsFiniteSet(1..lastId)
        BY <4>1, FS_Interval
      <4>. QED  BY <4>1, <4>2, FS_Subset
    <3>6. /\ Cardinality(ListedIds(listing)) <= Cardinality(Above(Matching(filter), i))
          /\ Cardinality(Above(Matching(filter), i)) \in Nat
      BY <3>4, <3>5, FS_Subset, FS_CardinalityType
    <3>7. Clamped(limit) \in Nat
      BY <2>1, FeedAssumption DEF Clamped, FeedInv, AnswerTypeOK
    <3>. QED  BY <3>2, <3>3, <3>6, <3>7
  <2>3. CASE ~List
    <3>1. listing' = listing
      BY <2>1, <2>3 DEF FeedNext, Insert, Redeliver, EndInsert, InsertFails, SettleRow, GiveUp, Crash, clientVars
    <3>. QED  BY <2>1, <3>1
  <2>. QED  BY <2>2, <2>3
<1>. QED  BY <1>1, FeedInvariant, PTL DEF FeedSpec, NewRowsOnTop

(***************************************************************************)
(* A row in two answers in a row is one delivery, whose status, attempts and *)
(* outcome have not gone back.                                              *)
(***************************************************************************)
THEOREM FeedStatusGoesForward == FeedSpec => StatusGoesForward
<1> DEFINE Goes ==
      \A i \in ListedIds(listing) \cap ListedIds(listing') :
        LET before == Entry(listing, i).row
            after  == Entry(listing', i).row
        IN  /\ after.key = before.key
            /\ after.attempts >= before.attempts
            /\ before.status # Received => after = before
<1>1. FeedInv /\ [FeedNext]_feedVars => Goes \/ UNCHANGED feedVars
  <2>1. SUFFICES ASSUME FeedInv, FeedNext,
                        NEW i \in ListedIds(listing), i \in ListedIds(listing')
                 PROVE  Forward(Entry(listing, i).row, Entry(listing', i).row)
    BY DEF Forward
  <2>2. PICK p \in DOMAIN listing : listing[p].id = i
    BY <2>1 DEF ListedIds
  <2>3. Entry(listing, i) = listing[p]
    BY <2>1, <2>2, EntryIs DEF FeedInv, AnswerTypeOK
  <2>4. PICK q \in DOMAIN listing' : listing'[q].id = i
    BY <2>1 DEF ListedIds
  <2>5. FeedInv'
    BY <2>1, StoreSteps, ListSteps
  <2>6. Entry(listing', i) = listing'[q]
    BY <2>4, <2>5, EntryIs DEF FeedInv, AnswerTypeOK
  <2>7. CASE List
    <3>1. listing'[q].row = rows[i] /\ rows' = rows /\ lastId' = lastId
      BY <2>1, <2>4, <2>7, ListSteps DEF storeVars
    <3>2. i \in DOMAIN rows
      BY <2>1, <2>7, ListSteps DEF Newest, Matching
    <3>3. Forward(listing[p].row, rows[i])
      BY <2>1, <2>2, <3>2 DEF FeedInv, ShownInv
    <3>. QED  BY <2>3, <2>6, <3>1, <3>3
  <2>8. CASE ~List
    <3>1. listing' = listing
      BY <2>1, <2>8 DEF FeedNext, Insert, Redeliver, EndInsert, InsertFails, SettleRow, GiveUp, Crash, clientVars
    <3>2. listing[p] \in [id : Nat, row : Row]
      BY <2>1, LenProperties, ElementOfSeq DEF FeedInv, AnswerTypeOK
    <3>. QED  BY <2>3, <2>6, <3>1, <3>2 DEF Forward, Row
  <2>. QED  BY <2>7, <2>8
<1>. QED  BY <1>1, FeedInvariant, PTL DEF FeedSpec, StatusGoesForward

(***************************************************************************)
(* An answer shorter than the limit leaves out no row that matches.          *)
(***************************************************************************)
THEOREM FeedShortAnswerIsComplete == FeedSpec => ShortAnswerIsComplete
<1> DEFINE Complete ==
      Len(listing') < Clamped(limit) /\ listing' # listing =>
        ListedIds(listing') = {i \in DOMAIN rows :
                                 filter \in {NoFilter, EventOf[rows[i].key]}}
<1>1. FeedInv /\ [FeedNext]_feedVars => Complete \/ UNCHANGED feedVars
  <2>1. SUFFICES ASSUME FeedInv, FeedNext, Len(listing') < Clamped(limit),
                        listing' # listing
                 PROVE  ListedIds(listing') =
                          {i \in DOMAIN rows : filter \in {NoFilter, EventOf[rows[i].key]}}
    OBVIOUS
  <2>2. List
    BY <2>1 DEF FeedNext, Insert, Redeliver, EndInsert, InsertFails, SettleRow, GiveUp, Crash, clientVars
  <2>3. /\ ListedIds(listing') = Newest(Matching(filter), Clamped(limit))
        /\ Len(listing') = Cardinality(ListedIds(listing'))
    BY <2>1, <2>2, ListSteps
  <2>4. Matching(filter) \in SUBSET Nat /\ IsFiniteSet(Matching(filter))
    <3>1. Matching(filter) \subseteq 1..lastId /\ lastId \in Nat
      BY <2>1 DEF Matching, FeedInv, StoreTypeOK
    <3>2. IsFiniteSet(1..lastId)
      BY <3>1, FS_Interval
    <3>. QED  BY <3>1, <3>2, FS_Subset
  <2>5. Clamped(limit) \in Nat
    BY <2>1, FeedAssumption DEF Clamped, FeedInv, AnswerTypeOK
  <2>6. ASSUME NEW i \in Matching(filter),
               i \notin Newest(Matching(filter), Clamped(limit))
        PROVE  FALSE
    <3>1. Cardinality(Newest(Matching(filter), Clamped(limit))) = Clamped(limit)
      BY <2>4, <2>5, <2>6, PrunedOnlyWhenFull
    <3>. QED  BY <2>1, <2>3, <2>5, <3>1
  <2>7. Newest(Matching(filter), Clamped(limit)) = Matching(filter)
    BY <2>6 DEF Newest
  <2>. QED  BY <2>3, <2>7 DEF Matching
<1>. QED  BY <1>1, FeedInvariant, PTL DEF FeedSpec, ShortAnswerIsComplete

=============================================================================
