----------------------------- MODULE EventsFeed -----------------------------
(***************************************************************************)
(* GET /events over the store: list_events() in app/routers/webhook.py and  *)
(* list_recent() in app/store.py, next to the handlers of POST /webhook,    *)
(* of which there may be any number.  Their control is in WebhookGateway;   *)
(* here a handler is what it does to the table: record(), in two commits,   *)
(* and the one background task it starts when record() returned a new row.  *)
(*                                                                          *)
(* A client keeps asking one question, a limit and an event filter, and     *)
(* compares consecutive answers: the module is about what a reader of this  *)
(* endpoint may conclude from two of them.  The process may die and start   *)
(* again between the two; a loss of power, which takes back commits and     *)
(* gives ids out again (WebhookPowerLoss), is left out, and what is said    *)
(* here does not hold across one.  MaxId bounds the ids given out.          *)
(*                                                                          *)
(* An operator named after another one with a suffix is that operator with  *)
(* a plausible slip in it, there to show that the properties notice it.  No *)
(* specification uses it.                                                   *)
(***************************************************************************)
EXTENDS EventStore, SequencesExt

CONSTANTS Events,      \* the supported webhook events
          EventOf,     \* the event of each dedupe key
          NoFilter,    \* no ?event= in the query
          Limits,      \* the values of ?limit= (the route admits 1 to 500)
          MaxLimit,    \* the largest listing: 500
          MaxId

ASSUME FeedAssumption ==
  /\ EventOf \in [Keys -> Events]
  /\ NoFilter \notin Events
  /\ Limits \subseteq Nat
  /\ MaxLimit \in Nat \ {0}
  /\ MaxId \in Nat

VARIABLES tasks,           \* the row ids that background tasks are to settle
          limit, filter,   \* the client's question, fixed
          listing          \* the last answer: a sequence of [id, row]

clientVars == <<limit, filter, listing>>
feedVars == <<rows, lastId, locked, tasks, limit, filter, listing>>

-----------------------------------------------------------------------------
\* list_recent(): max(1, min(limit, 500)) rows, ORDER BY id DESC

Clamped(n) == IF n < 1 THEN 1 ELSE IF n > MaxLimit THEN MaxLimit ELSE n

Matching(e) == {i \in DOMAIN rows : e = NoFilter \/ EventOf[rows[i].key] = e}

NewestFirst(S) ==                 \* the ids of S, from the largest down
  CHOOSE s \in [1..Cardinality(S) -> S] :
    \A p, q \in 1..Cardinality(S) : p < q => s[p] > s[q]

ListRecentFilterLast(n, e) ==     \* WHERE is applied after LIMIT
  LET ids == NewestFirst(Newest(DOMAIN rows, Clamped(n)) \cap Matching(e))
  IN  [p \in DOMAIN ids |-> [id |-> ids[p], row |-> rows[ids[p]]]]

ListRecent(n, e) ==
  LET ids == NewestFirst(Newest(Matching(e), Clamped(n)))
  IN  [p \in DOMAIN ids |-> [id |-> ids[p], row |-> rows[ids[p]]]]

-----------------------------------------------------------------------------

FeedInit ==
  /\ StoreInit
  /\ tasks = {}
  /\ limit \in Limits
  /\ filter \in Events \cup {NoFilter}
  /\ listing = <<>>

\* A handler's record(): the first commit.
Insert(k) ==
  /\ ~locked
  /\ lastId < MaxId
  /\ CommitInsert(k)
  /\ UNCHANGED <<tasks, clientVars>>

\* The second one.  The row inserted is the last one while the lock is held; the
\* handler answers, and its background task will settle that row.
EndInsert ==
  /\ CommitPrune
  /\ tasks' = tasks \cup {lastId}
  /\ UNCHANGED clientVars

\* record() raises after its first commit: 500, and no background task.
InsertFails ==
  /\ AbandonPrune
  /\ UNCHANGED <<tasks, clientVars>>

RedeliverProcessed(k) ==          \* a duplicate is interpreted once more
  /\ ~locked
  /\ lastId < MaxId
  /\ CommitDuplicate(k)
  /\ tasks' = tasks \cup {IdOf(k)}
  /\ UNCHANGED clientVars

\* A duplicate is acknowledged and starts no task, whatever its row's status is.
Redeliver(k) ==
  /\ ~locked
  /\ lastId < MaxId
  /\ CommitDuplicate(k)
  /\ UNCHANGED <<tasks, clientVars>>

\* _process() settles the row, if it is still there.  The UPDATE does not ask
\* what status the row has.
SettleRow(i) ==
  /\ ~locked
  /\ tasks' = tasks \ {i}
  /\ MarkProcessed(i) \/ MarkFailed(i)
  /\ UNCHANGED clientVars

\* mark_processed() and then mark_failed() raise: logged, and the task is over.
GiveUp(i) ==
  /\ ~locked
  /\ tasks' = tasks \ {i}
  /\ UNCHANGED <<storeVars, clientVars>>

\* The process dies and starts again; the client does not notice.
Crash ==
  /\ tasks' = {}
  /\ locked' = FALSE
  /\ UNCHANGED <<rows, lastId, clientVars>>

\* list_events() waits for the lock like everyone else.
List ==
  /\ ~locked
  /\ listing' = ListRecent(limit, filter)
  /\ UNCHANGED <<storeVars, tasks, limit, filter>>

FeedNext ==
  \/ \E k \in Keys : Insert(k) \/ Redeliver(k)
  \/ EndInsert
  \/ InsertFails
  \/ \E i \in tasks : SettleRow(i) \/ GiveUp(i)
  \/ Crash
  \/ List

FeedSpec == FeedInit /\ [][FeedNext]_feedVars

-----------------------------------------------------------------------------

ListedIds(answer) == {answer[p].id : p \in DOMAIN answer}

\* The entry of row i in an answer that lists it.
Entry(answer, i) == CHOOSE e \in ToSet(answer) : e.id = i

\* A client that polls may read each answer from the top down to the first id
\* it knows: whatever is new since the last answer stands above everything the
\* last answer had.  Pruning and filtering never let an old row come up again.
NewRowsOnTop ==
  [][\A i \in ListedIds(listing') \ ListedIds(listing), j \in ListedIds(listing) :
       i > j]_feedVars

\* A row that is in two consecutive answers is the same delivery in both, and
\* its status has not gone back: no UPDATE of a late background task and no
\* redelivery touches a row that was listed as settled.
StatusGoesForward ==
  [][\A i \in ListedIds(listing) \cap ListedIds(listing') :
       LET before == Entry(listing, i).row
           after  == Entry(listing', i).row
       IN  /\ after.key = before.key
           /\ after.attempts >= before.attempts
           /\ before.status # Received => after = before]_feedVars

\* An answer shorter than the limit leaves nothing out: a delivery that matches
\* and is older than the answer is not in the table any more.
ShortAnswerIsComplete ==
  [][Len(listing') < Clamped(limit) /\ listing' # listing =>
       ListedIds(listing') = {i \in DOMAIN rows :
                                filter \in {NoFilter, EventOf[rows[i].key]}}]_feedVars

=============================================================================
