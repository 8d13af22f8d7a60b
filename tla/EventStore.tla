----------------------------- MODULE EventStore -----------------------------
(***************************************************************************)
(* app/store.py: the SQLite table of received webhook deliveries, and the   *)
(* operations EventStore offers on it, as operators on the table.           *)
(*                                                                          *)
(* A row is reached by its AUTOINCREMENT id; the table has a unique index   *)
(* on (delivery_id, event, action), which is a member of Keys here.  Every  *)
(* operation runs under the store's one lock.  record() commits TWICE while *)
(* it holds that lock: the new row first, then the pruning of old rows; so  *)
(* it is two operators, CommitInsert and CommitPrune, and "locked" says     *)
(* that some record() call is between them.  The other operations commit    *)
(* once, so each of them is one step, enabled when the lock is free.        *)
(*                                                                          *)
(* The issue number, repository, sender, payload and time columns carry     *)
(* data no operation reads back to decide anything; they are left out.  Of  *)
(* "error" and "processed_at" the model keeps whether they are NULL.        *)
(*                                                                          *)
(* An operator named after another one with a suffix (NewestAscending ...)  *)
(* is that operator with a plausible slip in it.  No specification uses it; *)
(* it is there to show that the properties notice the slip.                 *)
(***************************************************************************)
EXTENDS Naturals, FiniteSets

CONSTANTS Keys,        \* the dedupe keys (delivery_id, event, action)
          Retention    \* rows kept by pruning: EVENT_RETENTION, at least 1

ASSUME RetentionAssumption == Retention \in Nat \ {0}

VARIABLES rows,        \* the committed table: a function from row ids to rows
          lastId,      \* sqlite_sequence: the largest id ever given out
          locked       \* a record() call holds the lock between its commits

storeVars == <<rows, lastId, locked>>

Received  == "received"
Processed == "processed"
Failed    == "failed"
Statuses  == {Received, Processed, Failed}

Row == [key : Keys, status : Statuses, attempts : Nat,
        error : BOOLEAN, processedAt : BOOLEAN]

\* What INSERT stores: the schema's defaults and status 'received'.
NewRow(k) == [key |-> k, status |-> Received, attempts |-> 0,
              error |-> FALSE, processedAt |-> FALSE]

StoreTypeOK ==
  /\ lastId \in Nat
  /\ locked \in BOOLEAN
  /\ DOMAIN rows \subseteq 1..lastId
  /\ \A i \in DOMAIN rows : rows[i] \in Row

StoreInit ==
  /\ rows = <<>>
  /\ lastId = 0
  /\ locked = FALSE

-----------------------------------------------------------------------------
\* Reading the table.

StoredKeys == {rows[i].key : i \in DOMAIN rows}

\* The id of the row with key k: the SELECT of record().
IdOf(k) == CHOOSE i \in DOMAIN rows : rows[i].key = k

NewestOneMore(S, n) == {i \in S : Cardinality({j \in S : j > i}) <= n}
NewestAscending(S, n) == {i \in S : Cardinality({j \in S : j < i}) < n}

\* SELECT id ... ORDER BY id DESC LIMIT n, as a set.
Newest(S, n) == {i \in S : Cardinality({j \in S : j > i}) < n}

-----------------------------------------------------------------------------
\* The writes.  The caller supplies the guard ~locked, except for CommitPrune,
\* which the holder of the lock performs.

CommitInsertNoIndex(k) ==         \* no unique index on the dedupe key
  /\ lastId' = lastId + 1
  /\ rows' = [i \in DOMAIN rows \cup {lastId + 1} |->
                IF i = lastId + 1 THEN NewRow(k) ELSE rows[i]]
  /\ locked' = TRUE

CommitInsertNoSequence(k) ==      \* the id handed out is not remembered
  /\ k \notin StoredKeys
  /\ rows' = [i \in DOMAIN rows \cup {lastId + 1} |->
                IF i = lastId + 1 THEN NewRow(k) ELSE rows[i]]
  /\ locked' = TRUE
  /\ UNCHANGED lastId

\* INSERT ... ON CONFLICT DO NOTHING finds no conflict; the first commit.
CommitInsert(k) ==
  /\ k \notin StoredKeys
  /\ lastId' = lastId + 1
  /\ rows' = [i \in DOMAIN rows \cup {lastId + 1} |->
                IF i = lastId + 1 THEN NewRow(k) ELSE rows[i]]
  /\ locked' = TRUE

\* INSERT ... ON CONFLICT DO NOTHING finds the row: nothing is inserted and
\* nothing pruned.  SQLite may or may not have used up an id on the way.
CommitDuplicate(k) ==
  /\ k \in StoredKeys
  /\ lastId' \in {lastId, lastId + 1}
  /\ UNCHANGED <<rows, locked>>

CommitPruneNewest ==              \* ORDER BY id ASC in the subquery
  /\ locked
  /\ rows' = [i \in NewestAscending(DOMAIN rows, Retention) |-> rows[i]]
  /\ locked' = FALSE
  /\ UNCHANGED lastId

CommitPruneTooFar ==              \* one row less than the retention stays
  /\ locked
  /\ rows' = [i \in Newest(DOMAIN rows, Retention - 1) |-> rows[i]]
  /\ locked' = FALSE
  /\ UNCHANGED lastId

CommitPruneKeepsLock ==           \* the lock is not released
  /\ locked
  /\ rows' = [i \in Newest(DOMAIN rows, Retention) |-> rows[i]]
  /\ UNCHANGED <<lastId, locked>>

\* _prune_locked() and the second commit; record() returns and unlocks.
CommitPrune ==
  /\ locked
  /\ rows' = [i \in Newest(DOMAIN rows, Retention) |-> rows[i]]
  /\ locked' = FALSE
  /\ UNCHANGED lastId

AbandonPruneKeepsLock ==          \* the lock is not released on an exception
  /\ locked
  /\ UNCHANGED <<rows, lastId, locked>>

\* The SELECT or the DELETE raises: SQLite undoes that transaction alone, the
\* row inserted by the first commit stays, and "with self._lock" unlocks.
AbandonPrune ==
  /\ locked
  /\ locked' = FALSE
  /\ UNCHANGED <<rows, lastId>>

\* UPDATE ... WHERE id = ?, without effect when the row has been pruned.
Update(i, row) ==
  /\ rows' = [j \in DOMAIN rows |-> IF j = i THEN row ELSE rows[j]]
  /\ UNCHANGED <<lastId, locked>>

MarkProcessedUncounted(i) ==      \* attempts = attempts + 1 is missing
  Update(i, [rows[i] EXCEPT !.status = Processed, !.processedAt = TRUE])

MarkProcessed(i) ==
  Update(i, [key |-> rows[i].key, status |-> Processed,
             attempts |-> rows[i].attempts + 1, error |-> FALSE,
             processedAt |-> TRUE])

MarkFailedStamped(i) ==           \* processed_at is set on failure too
  Update(i, [key |-> rows[i].key, status |-> Failed,
             attempts |-> rows[i].attempts + 1, error |-> TRUE,
             processedAt |-> TRUE])

MarkFailed(i) ==
  Update(i, [key |-> rows[i].key, status |-> Failed,
             attempts |-> rows[i].attempts + 1, error |-> TRUE,
             processedAt |-> rows[i].processedAt])

=============================================================================
