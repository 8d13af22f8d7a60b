--------------------------- MODULE WebhookGateway ---------------------------
(***************************************************************************)
(* app/routers/webhook.py over app/store.py: POST /webhook handlers that    *)
(* run concurrently, share one EventStore and are interrupted by store      *)
(* errors and by the death of the process.                                  *)
(*                                                                          *)
(* A handler is one request in flight: receive_webhook() up to its 204 and  *)
(* then the background task _process() of the same request.  Admission (the *)
(* signature and the event checks) is in WebhookAdmission: what arrives     *)
(* here is an admitted request, reduced to its dedupe key.  The store calls *)
(* run in a thread pool, so between any two of them other handlers run; a   *)
(* handler keeps the row id that record() returned, however old it gets.    *)
(*                                                                          *)
(* MaxSends, MaxFaults and MaxCrashes bound the arrivals per delivery, the  *)
(* store calls that raise, and the deaths of the process.                   *)
(*                                                                          *)
(* An operator named after another one with a suffix is that operator with  *)
(* a plausible slip in it, there to show that the properties notice it.  No *)
(* specification uses it.                                                   *)
(***************************************************************************)
EXTENDS EventStore

CONSTANTS Handlers,    \* requests the server works on at the same time
          Poison,      \* the deliveries whose payload makes _summarize() raise
          NoKey,       \* the key of a handler without a request
          MaxSends, MaxFaults, MaxCrashes

ASSUME GatewayAssumption ==
  /\ Poison \subseteq Keys
  /\ NoKey \notin Keys
  /\ MaxSends \in Nat /\ MaxFaults \in Nat /\ MaxCrashes \in Nat

VARIABLES pc,          \* where each handler is
          key, id,     \* its delivery, and the row id record() returned
          sends,       \* how often GitHub sent each delivery
          faults, crashes,
          acked,       \* deliveries answered with 204
          inserts,     \* how many rows were ever inserted for each delivery
          orphans      \* ids of rows whose handler was lost before settling them

handlerVars == <<pc, key, id>>
observerVars == <<acked, inserts, orphans>>
vars == <<rows, lastId, locked, pc, key, id, sends, faults, crashes,
          acked, inserts, orphans>>

Idle  == "idle"          \* no request
Record == "record"       \* run_in_threadpool(store.record), before the lock
Prune == "prune"         \* inside record(), between its two commits
AckNew == "ackNew"       \* record() returned a new row
AckDuplicate == "ackDuplicate"   \* record() returned an older row
Process == "process"     \* _process() starts
Processing == "markProcessed"    \* awaiting store.mark_processed
Parking == "markFailed"          \* awaiting store.mark_failed

PCs == {Idle, Record, Prune, AckNew, AckDuplicate, Process, Processing, Parking}

\* The control states in which a handler is responsible for a row it inserted.
Owning == {Prune, AckNew, Process, Processing, Parking}

TypeOK ==
  /\ StoreTypeOK
  /\ pc \in [Handlers -> PCs]
  /\ key \in [Handlers -> Keys \cup {NoKey}]
  /\ \A h \in Handlers : pc[h] # Idle => key[h] \in Keys
  /\ id \in [Handlers -> 0..lastId]
  /\ sends \in [Keys -> 0..MaxSends]
  /\ faults \in 0..MaxFaults
  /\ crashes \in 0..MaxCrashes
  /\ acked \subseteq Keys
  /\ inserts \in [Keys -> Nat]
  /\ orphans \subseteq 1..lastId

Init ==
  /\ StoreInit
  /\ pc = [h \in Handlers |-> Idle]
  /\ key = [h \in Handlers |-> NoKey]
  /\ id = [h \in Handlers |-> 0]
  /\ sends = [k \in Keys |-> 0]
  /\ faults = 0
  /\ crashes = 0
  /\ acked = {}
  /\ inserts = [k \in Keys |-> 0]
  /\ orphans = {}

-----------------------------------------------------------------------------
\* receive_webhook()

Goto(h, label) == pc' = [pc EXCEPT ![h] = label]

\* The request is over: the handler forgets its delivery and its row.
Finish(h) ==
  /\ Goto(h, Idle)
  /\ key' = [key EXCEPT ![h] = NoKey]
  /\ id' = [id EXCEPT ![h] = 0]

\* GitHub sends, or sends again, an admitted delivery.
Deliver(h, k) ==
  /\ pc[h] = Idle
  /\ sends[k] < MaxSends
  /\ sends' = [sends EXCEPT ![k] = @ + 1]
  /\ key' = [key EXCEPT ![h] = k]
  /\ Goto(h, Record)
  /\ UNCHANGED <<storeVars, id, faults, crashes, observerVars>>

\* record() takes the lock, inserts the row and commits it.
InsertRow(h) ==
  /\ pc[h] = Record
  /\ ~locked
  /\ CommitInsert(key[h])
  /\ id' = [id EXCEPT ![h] = lastId + 1]
  /\ inserts' = [inserts EXCEPT ![key[h]] = @ + 1]
  /\ Goto(h, Prune)
  /\ UNCHANGED <<key, sends, faults, crashes, acked, orphans>>

FindDuplicateAsNew(h) ==          \* "duplicate" is not looked at
  /\ pc[h] = Record
  /\ ~locked
  /\ CommitDuplicate(key[h])
  /\ id' = [id EXCEPT ![h] = IdOf(key[h])]
  /\ Goto(h, AckNew)
  /\ UNCHANGED <<key, sends, faults, crashes, observerVars>>

\* record() finds the delivery stored already and returns that row.
FindDuplicate(h) ==
  /\ pc[h] = Record
  /\ ~locked
  /\ CommitDuplicate(key[h])
  /\ Goto(h, AckDuplicate)
  /\ UNCHANGED <<key, id, sends, faults, crashes, observerVars>>

RecordRaisesAnyway(h) ==          \* the error is swallowed and 204 answered
  /\ pc[h] = Record
  /\ ~locked
  /\ faults < MaxFaults
  /\ faults' = faults + 1
  /\ Goto(h, AckDuplicate)
  /\ UNCHANGED <<storeVars, key, id, sends, crashes, observerVars>>

\* record() raises before its first commit: 500, and nothing is stored.
RecordRaises(h) ==
  /\ pc[h] = Record
  /\ ~locked
  /\ faults < MaxFaults
  /\ faults' = faults + 1
  /\ Finish(h)
  /\ UNCHANGED <<storeVars, sends, crashes, observerVars>>

\* record() prunes, commits, unlocks and returns the new row.
PruneRows(h) ==
  /\ pc[h] = Prune
  /\ CommitPrune
  /\ Goto(h, AckNew)
  /\ UNCHANGED <<key, id, sends, faults, crashes, observerVars>>

\* record() raises after its first commit: 500, although the row is stored.
PruneRaises(h) ==
  /\ pc[h] = Prune
  /\ faults < MaxFaults
  /\ faults' = faults + 1
  /\ AbandonPrune
  /\ orphans' = orphans \cup {id[h]}
  /\ Finish(h)
  /\ UNCHANGED <<sends, crashes, acked, inserts>>

\* 204 for a delivery stored just now; the background task comes next.
AcknowledgeNew(h) ==
  /\ pc[h] = AckNew
  /\ acked' = acked \cup {key[h]}
  /\ Goto(h, Process)
  /\ UNCHANGED <<storeVars, key, id, sends, faults, crashes, inserts, orphans>>

AcknowledgeDuplicateAgain(h) ==   \* a duplicate is interpreted once more
  /\ pc[h] = AckDuplicate
  /\ acked' = acked \cup {key[h]}
  /\ IF key[h] \in StoredKeys
     THEN /\ id' = [id EXCEPT ![h] = IdOf(key[h])]
          /\ Goto(h, Process)
          /\ UNCHANGED key
     ELSE Finish(h)
  /\ UNCHANGED <<storeVars, sends, faults, crashes, inserts, orphans>>

\* 204 for a duplicate: no background task, whatever the row's status is.
AcknowledgeDuplicate(h) ==
  /\ pc[h] = AckDuplicate
  /\ acked' = acked \cup {key[h]}
  /\ Finish(h)
  /\ UNCHANGED <<storeVars, sends, faults, crashes, inserts, orphans>>

-----------------------------------------------------------------------------
\* _process()

\* _summarize() returns, or raises on a poison payload.
Summarize(h) ==
  /\ pc[h] = Process
  /\ Goto(h, IF key[h] \in Poison THEN Parking ELSE Processing)
  /\ UNCHANGED <<storeVars, key, id, sends, faults, crashes, observerVars>>

SettleProcessedThenFailed(h) ==   \* mark_failed() in a "finally"
  /\ pc[h] = Processing
  /\ ~locked
  /\ MarkProcessed(id[h])
  /\ Goto(h, Parking)
  /\ UNCHANGED <<key, id, sends, faults, crashes, observerVars>>

SettleProcessed(h) ==
  /\ pc[h] = Processing
  /\ ~locked
  /\ MarkProcessed(id[h])
  /\ Finish(h)
  /\ UNCHANGED <<sends, faults, crashes, observerVars>>

ProcessedRaisesUnparked(h) ==     \* mark_processed() is outside the "try"
  /\ pc[h] = Processing
  /\ ~locked
  /\ faults < MaxFaults
  /\ faults' = faults + 1
  /\ Finish(h)
  /\ UNCHANGED <<storeVars, sends, crashes, observerVars>>

\* mark_processed() raises: the "except Exception" parks the delivery.
ProcessedRaises(h) ==
  /\ pc[h] = Processing
  /\ ~locked
  /\ faults < MaxFaults
  /\ faults' = faults + 1
  /\ Goto(h, Parking)
  /\ UNCHANGED <<storeVars, key, id, sends, crashes, observerVars>>

SettleFailed(h) ==
  /\ pc[h] = Parking
  /\ ~locked
  /\ MarkFailed(id[h])
  /\ Finish(h)
  /\ UNCHANGED <<sends, faults, crashes, observerVars>>

\* mark_failed() raises: logged and swallowed, the row stays as it is.
FailedRaises(h) ==
  /\ pc[h] = Parking
  /\ ~locked
  /\ faults < MaxFaults
  /\ faults' = faults + 1
  /\ orphans' = orphans \cup {id[h]}
  /\ Finish(h)
  /\ UNCHANGED <<storeVars, sends, crashes, acked, inserts>>

-----------------------------------------------------------------------------
\* The process dies and starts again: requests and background tasks are gone,
\* the committed rows are read back from the file, and the lock is a new one.
\* Nothing at startup looks for rows that are still 'received'.
Crash ==
  /\ crashes < MaxCrashes
  /\ crashes' = crashes + 1
  /\ orphans' = orphans \cup
       {i \in 1..lastId : \E h \in Handlers : pc[h] \in Owning /\ id[h] = i}
  /\ pc' = [h \in Handlers |-> Idle]
  /\ key' = [h \in Handlers |-> NoKey]
  /\ id' = [h \in Handlers |-> 0]
  /\ locked' = FALSE
  /\ UNCHANGED <<rows, lastId, sends, faults, acked, inserts>>

Work(h) ==
  \/ InsertRow(h) \/ FindDuplicate(h) \/ PruneRows(h)
  \/ AcknowledgeNew(h) \/ AcknowledgeDuplicate(h)
  \/ Summarize(h) \/ SettleProcessed(h) \/ SettleFailed(h)

Fault(h) ==
  RecordRaises(h) \/ PruneRaises(h) \/ ProcessedRaises(h) \/ FailedRaises(h)

Next ==
  \/ \E h \in Handlers, k \in Keys : Deliver(h, k)
  \/ \E h \in Handlers : Work(h) \/ Fault(h)
  \/ Crash

Spec == Init /\ [][Next]_vars

\* A handler that can go on does: the event loop and the thread pool run every
\* ready task.  Arrivals are bounded, so a lock somebody wants is not taken
\* again and again by others, and weak fairness is enough.  Nothing obliges
\* GitHub to send, a store call to raise, or the process to die.
FairSpec == Spec /\ \A h \in Handlers : WF_vars(Work(h))

-----------------------------------------------------------------------------
\* Safety

\* "Never lose a delivery" (webhook.py, persist before ack): a delivery that
\* was answered with 204 is in the table, unless newer rows pushed it out and
\* Retention rows are there now.  Neither an error nor a crash loses it.
NeverLost ==
  \A k \in acked : k \in StoredKeys \/ Cardinality(DOMAIN rows) >= Retention

\* The unique index: no delivery is in the table twice.
UniqueKeys ==
  \A i, j \in DOMAIN rows : rows[i].key = rows[j].key => i = j

\* A row is one handler's business: no two handlers hold the same row id, even
\* when the same delivery is sent again while the first one is in flight.
OneOwner ==
  \A g, h \in Handlers :
    pc[g] \in Owning /\ pc[h] \in Owning /\ id[g] = id[h] => g = h

\* The id a handler kept from record() is stale when pruning removed the row
\* meanwhile, but it never names another delivery's row or one settled already:
\* the late UPDATE of _process() hits the handler's own row or nothing.
OwnRow ==
  \A h \in Handlers :
    pc[h] \in Owning /\ id[h] \in DOMAIN rows =>
      /\ rows[id[h]].key = key[h]
      /\ rows[id[h]].status = Received

\* A delivery is interpreted at most once ("never retried inline"): attempts is
\* 0 until the row is settled and 1 from then on, processed_at is set exactly
\* on success and error exactly on failure.
SettledOnce ==
  \A i \in DOMAIN rows :
    /\ rows[i].attempts = (IF rows[i].status = Received THEN 0 ELSE 1)
    /\ rows[i].processedAt <=> (rows[i].status = Processed)
    /\ rows[i].error <=> (rows[i].status = Failed)

\* A row still 'received' is being worked on, or its handler was lost to a
\* crash, to an error after the first commit, or to a failing mark_failed().
\* No interleaving of handlers alone strands a delivery.
ReceivedIsOwned ==
  \A i \in DOMAIN rows :
    rows[i].status = Received =>
      i \in orphans \/ \E h \in Handlers : pc[h] \in Owning /\ id[h] = i

\* Readers wait for the lock, so they never see record() half done: what they
\* see exceeds the retention by at most one row per interrupted pruning.
RetentionBound ==
  ~locked => Cardinality(DOMAIN rows) <= Retention + faults + crashes

-----------------------------------------------------------------------------
\* What the safety properties rest on: the inductive invariant

\* Delivery k is stored, or enough newer rows are there to have pushed it out.
Kept(k) == k \in StoredKeys \/ Cardinality(DOMAIN rows) >= Retention

\* A delivery is kept from the first commit of record() to its answer and after.
KeptUntilAcked ==
  /\ \A h \in Handlers : pc[h] \in Owning \cup {AckDuplicate} => Kept(key[h])
  /\ \A k \in acked : Kept(k)

\* Row ids are handed out by record() only.
OwnersHaveIds == \A h \in Handlers : pc[h] \in Owning => id[h] \in 1..lastId

\* What is stored, answered or about to be answered has been inserted.
InsertedFirst ==
  /\ \A k \in StoredKeys \cup acked : inserts[k] > 0
  /\ \A h \in Handlers :
       pc[h] \in Owning \cup {AckDuplicate} => inserts[key[h]] > 0

\* One row more than RetentionBound allows while record() is half done.
SizeBound ==
  Cardinality(DOMAIN rows) <=
    Retention + faults + crashes + (IF locked THEN 1 ELSE 0)

\* The conjunction that every step of the gateway preserves.  It says, of every
\* handler and row at once, what the properties above say, and how a delivery
\* gets from record() to its answer.
GatewayInvariant ==
  /\ TypeOK
  /\ UniqueKeys
  /\ OneOwner
  /\ OwnRow
  /\ SettledOnce
  /\ ReceivedIsOwned
  /\ OwnersHaveIds
  /\ KeptUntilAcked
  /\ InsertedFirst
  /\ SizeBound

-----------------------------------------------------------------------------
\* Action properties

\* 'processed' and 'failed' are final: no later step of any handler, however
\* stale the id it holds, touches a settled row, except pruning it.
SettledIsFinal ==
  [][\A i \in DOMAIN rows \cap DOMAIN rows' :
       rows[i].status # Received => rows'[i] = rows[i]]_vars

\* Pruning removes the oldest rows: whatever disappears was inserted before
\* everything that stays.  Nothing else ever removes a row.
OldestGoFirst ==
  [][\A i \in DOMAIN rows \ DOMAIN rows', j \in DOMAIN rows' : i < j]_vars

-----------------------------------------------------------------------------
\* Liveness, under FairSpec

Unsettled(k) == k \in StoredKeys /\ rows[IdOf(k)].status = Received

\* Every stored delivery is settled, or pruned, or among the orphans: waiting
\* for the lock, duplicates in flight and poison payloads delay nobody forever.
DeliverySettles ==
  \A k \in Keys : Unsettled(k) ~> (~Unsettled(k) \/ IdOf(k) \in orphans)

\* Every request gets its answer: 204, 500, or a closed connection.
RequestAnswered ==
  \A h \in Handlers : pc[h] = Record ~> pc[h] \in {Idle, Process}

-----------------------------------------------------------------------------
\* Refinement

Ledger == INSTANCE DeliveryLedger WITH
  standing <- [k \in Keys |->
                 IF k \in StoredKeys THEN rows[IdOf(k)].status
                 ELSE IF inserts[k] = 0 THEN "unknown" ELSE "forgotten"]

\* The handlers and the table together keep the delivery ledger's promises.
KeepsLedger == Ledger!LedgerSpec

-----------------------------------------------------------------------------
\* What the documentation says and the code does not do

\* webhook.py: "ack fast, never lose a delivery"; README: the status goes from
\* 'received' to 'processed' or 'failed'.  So an acknowledged delivery does not
\* stay 'received' for ever.  It does, when the process died before _process()
\* ended: a redelivery is taken for a duplicate and starts no background task.
AckedIsInterpreted ==
  \A k \in Keys : (k \in acked /\ Unsettled(k)) ~> ~Unsettled(k)

=============================================================================
