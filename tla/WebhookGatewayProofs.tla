------------------------ MODULE WebhookGatewayProofs ------------------------
(***************************************************************************)
(* The safety of the webhook half of the gateway, for every number of        *)
(* handlers, deliveries, arrivals, store errors and crashes, and every       *)
(* retention.                                                                *)
(*                                                                           *)
(* GatewayInvariant is inductive: Init implies it and every step preserves   *)
(* it.  The proof takes its conjuncts one lemma at a time, and in each lemma *)
(* the steps one at a time.  Then come what no step may do, the refinement   *)
(* of DeliveryLedger, and what is left of it all after losses of power.      *)
(***************************************************************************)
EXTENDS WebhookPowerLoss, EventStoreProofs

(***************************************************************************)
(* Ids, control states and counters keep their types in every step.          *)
(***************************************************************************)
LEMMA TypePreserved ==
  ASSUME TypeOK, OwnersHaveIds, [Next]_vars
  PROVE  TypeOK'
<1>. USE GatewayAssumption, RetentionAssumption
     DEF TypeOK, StoreTypeOK, Row, Statuses, Received, Processed, Failed, PCs, Owning,
         Idle, Record, Prune, AckNew, AckDuplicate, Process, Processing, Parking,
         storeVars, observerVars, Goto, Finish
<1>1. ASSUME NEW h \in Handlers, NEW k \in Keys, Deliver(h, k) PROVE TypeOK'
  BY <1>1 DEF Deliver
<1>2. ASSUME NEW h \in Handlers, InsertRow(h) PROVE TypeOK'
  BY <1>2 DEF InsertRow, CommitInsert, NewRow
<1>3. ASSUME NEW h \in Handlers, FindDuplicate(h) PROVE TypeOK'
  BY <1>3 DEF FindDuplicate, CommitDuplicate
<1>4. ASSUME NEW h \in Handlers, PruneRows(h) PROVE TypeOK'
  BY <1>4 DEF PruneRows, CommitPrune, Newest
<1>5. ASSUME NEW h \in Handlers, AcknowledgeNew(h) PROVE TypeOK'
  BY <1>5 DEF AcknowledgeNew
<1>6. ASSUME NEW h \in Handlers, AcknowledgeDuplicate(h) PROVE TypeOK'
  BY <1>6 DEF AcknowledgeDuplicate
<1>7. ASSUME NEW h \in Handlers, Summarize(h) PROVE TypeOK'
  BY <1>7 DEF Summarize
<1>8. ASSUME NEW h \in Handlers, SettleProcessed(h) PROVE TypeOK'
  BY <1>8 DEF SettleProcessed, MarkProcessed, Update
<1>9. ASSUME NEW h \in Handlers, SettleFailed(h) PROVE TypeOK'
  BY <1>9 DEF SettleFailed, MarkFailed, Update
<1>10. ASSUME NEW h \in Handlers, RecordRaises(h) PROVE TypeOK'
  BY <1>10 DEF RecordRaises
<1>11. ASSUME NEW h \in Handlers, PruneRaises(h) PROVE TypeOK'
  <2>1. id[h] \in 1..lastId
    BY <1>11 DEF PruneRaises, OwnersHaveIds
  <2>2. orphans \cup {id[h]} \subseteq 1..lastId
    BY <2>1
  <2>3. orphans' \subseteq 1..lastId'
    BY <1>11, <2>2 DEF PruneRaises, AbandonPrune
  <2>4. UNCHANGED <<rows, lastId, sends, crashes, acked, inserts>>
    BY <1>11 DEF PruneRaises, AbandonPrune
  <2>5. locked' \in BOOLEAN
    BY <1>11 DEF PruneRaises, AbandonPrune
  <2>6. /\ faults' \in 0..MaxFaults
        /\ pc' = [pc EXCEPT ![h] = Idle]
        /\ key' = [key EXCEPT ![h] = NoKey]
        /\ id' = [id EXCEPT ![h] = 0]
    BY <1>11 DEF PruneRaises, AbandonPrune
  <2>. QED  BY <2>3, <2>4, <2>5, <2>6
<1>12. ASSUME NEW h \in Handlers, ProcessedRaises(h) PROVE TypeOK'
  BY <1>12 DEF ProcessedRaises
<1>13. ASSUME NEW h \in Handlers, FailedRaises(h) PROVE TypeOK'
  <2>1. id[h] \in 1..lastId
    BY <1>13 DEF FailedRaises, OwnersHaveIds
  <2>2. orphans \cup {id[h]} \subseteq 1..lastId
    BY <2>1
  <2>3. orphans' \subseteq 1..lastId'
    BY <1>13, <2>2 DEF FailedRaises
  <2>4. UNCHANGED <<rows, lastId, locked, sends, crashes, acked, inserts>>
    BY <1>13 DEF FailedRaises
  <2>5. /\ faults' \in 0..MaxFaults
        /\ pc' = [pc EXCEPT ![h] = Idle]
        /\ key' = [key EXCEPT ![h] = NoKey]
        /\ id' = [id EXCEPT ![h] = 0]
    BY <1>13 DEF FailedRaises
  <2>. QED  BY <2>3, <2>4, <2>5
<1>14. ASSUME Crash PROVE TypeOK'
  <2>1. orphans' \subseteq 1..lastId'
    BY <1>14 DEF Crash
  <2>2. crashes' \in 0..MaxCrashes
    BY <1>14 DEF Crash
  <2>3. UNCHANGED <<rows, lastId, sends, faults, acked, inserts>>
    BY <1>14 DEF Crash
  <2>4. /\ pc' = [h \in Handlers |-> Idle]
        /\ key' = [h \in Handlers |-> NoKey]
        /\ id' = [h \in Handlers |-> 0]
    BY <1>14 DEF Crash
  <2>5. locked' \in BOOLEAN
    BY <1>14 DEF Crash
  <2>. QED  BY <2>1, <2>2, <2>3, <2>4, <2>5
<1>15. ASSUME UNCHANGED vars PROVE TypeOK'
  BY <1>15 DEF vars
<1>. QED
  BY <1>1, <1>2, <1>3, <1>4, <1>5, <1>6, <1>7, <1>8, <1>9, <1>10, <1>11, <1>12,
     <1>13, <1>14, <1>15 DEF Next, Work, Fault

(***************************************************************************)
(* The unique index: a row is inserted only for a key that is not stored.   *)
(***************************************************************************)
LEMMA UniqueKeysPreserved ==
  ASSUME TypeOK, UniqueKeys, [Next]_vars
  PROVE  UniqueKeys'
<1>. USE DEF UniqueKeys, StoredKeys, TypeOK, StoreTypeOK, storeVars, Goto, Finish
<1>1. ASSUME NEW h \in Handlers, NEW k \in Keys, Deliver(h, k) PROVE UniqueKeys'
  BY <1>1 DEF Deliver
<1>2. ASSUME NEW h \in Handlers, InsertRow(h) PROVE UniqueKeys'
  BY <1>2 DEF InsertRow, CommitInsert, NewRow
<1>3. ASSUME NEW h \in Handlers, FindDuplicate(h) PROVE UniqueKeys'
  BY <1>3 DEF FindDuplicate, CommitDuplicate
<1>4. ASSUME NEW h \in Handlers, PruneRows(h) PROVE UniqueKeys'
  BY <1>4 DEF PruneRows, CommitPrune, Newest
<1>5. ASSUME NEW h \in Handlers, AcknowledgeNew(h) PROVE UniqueKeys'
  BY <1>5 DEF AcknowledgeNew
<1>6. ASSUME NEW h \in Handlers, AcknowledgeDuplicate(h) PROVE UniqueKeys'
  BY <1>6 DEF AcknowledgeDuplicate
<1>7. ASSUME NEW h \in Handlers, Summarize(h) PROVE UniqueKeys'
  BY <1>7 DEF Summarize
<1>8. ASSUME NEW h \in Handlers, SettleProcessed(h) PROVE UniqueKeys'
  BY <1>8 DEF SettleProcessed, MarkProcessed, Update
<1>9. ASSUME NEW h \in Handlers, SettleFailed(h) PROVE UniqueKeys'
  BY <1>9 DEF SettleFailed, MarkFailed, Update
<1>10. ASSUME NEW h \in Handlers, RecordRaises(h) PROVE UniqueKeys'
  BY <1>10 DEF RecordRaises
<1>11. ASSUME NEW h \in Handlers, PruneRaises(h) PROVE UniqueKeys'
  BY <1>11 DEF PruneRaises, AbandonPrune
<1>12. ASSUME NEW h \in Handlers, ProcessedRaises(h) PROVE UniqueKeys'
  BY <1>12 DEF ProcessedRaises
<1>13. ASSUME NEW h \in Handlers, FailedRaises(h) PROVE UniqueKeys'
  BY <1>13 DEF FailedRaises
<1>14. ASSUME Crash PROVE UniqueKeys'
  BY <1>14 DEF Crash
<1>15. ASSUME UNCHANGED vars PROVE UniqueKeys'
  BY <1>15 DEF vars
<1>. QED
  BY <1>1, <1>2, <1>3, <1>4, <1>5, <1>6, <1>7, <1>8, <1>9, <1>10, <1>11, <1>12,
     <1>13, <1>14, <1>15 DEF Next, Work, Fault

(***************************************************************************)
(* A handler owns a row from the insertion that gave the row its id.        *)
(***************************************************************************)
LEMMA OwnersHaveIdsPreserved ==
  ASSUME TypeOK, OwnersHaveIds, [Next]_vars
  PROVE  OwnersHaveIds'
<1>. USE DEF OwnersHaveIds, TypeOK, StoreTypeOK, storeVars, observerVars, Goto, Finish, Owning, Idle, Record, Prune, AckNew, AckDuplicate, Process, Processing, Parking
<1>1. ASSUME NEW h \in Handlers, NEW k \in Keys, Deliver(h, k) PROVE OwnersHaveIds'
  BY <1>1 DEF Deliver
<1>2. ASSUME NEW h \in Handlers, InsertRow(h) PROVE OwnersHaveIds'
  BY <1>2 DEF InsertRow, CommitInsert, NewRow
<1>3. ASSUME NEW h \in Handlers, FindDuplicate(h) PROVE OwnersHaveIds'
  BY <1>3 DEF FindDuplicate, CommitDuplicate
<1>4. ASSUME NEW h \in Handlers, PruneRows(h) PROVE OwnersHaveIds'
  BY <1>4 DEF PruneRows, CommitPrune
<1>5. ASSUME NEW h \in Handlers, AcknowledgeNew(h) PROVE OwnersHaveIds'
  BY <1>5 DEF AcknowledgeNew
<1>6. ASSUME NEW h \in Handlers, AcknowledgeDuplicate(h) PROVE OwnersHaveIds'
  BY <1>6 DEF AcknowledgeDuplicate
<1>7. ASSUME NEW h \in Handlers, Summarize(h) PROVE OwnersHaveIds'
  BY <1>7 DEF Summarize
<1>8. ASSUME NEW h \in Handlers, SettleProcessed(h) PROVE OwnersHaveIds'
  BY <1>8 DEF SettleProcessed, MarkProcessed, Update
<1>9. ASSUME NEW h \in Handlers, SettleFailed(h) PROVE OwnersHaveIds'
  BY <1>9 DEF SettleFailed, MarkFailed, Update
<1>10. ASSUME NEW h \in Handlers, RecordRaises(h) PROVE OwnersHaveIds'
  BY <1>10 DEF RecordRaises
<1>11. ASSUME NEW h \in Handlers, PruneRaises(h) PROVE OwnersHaveIds'
  BY <1>11 DEF PruneRaises, AbandonPrune
<1>12. ASSUME NEW h \in Handlers, ProcessedRaises(h) PROVE OwnersHaveIds'
  BY <1>12 DEF ProcessedRaises
<1>13. ASSUME NEW h \in Handlers, FailedRaises(h) PROVE OwnersHaveIds'
  BY <1>13 DEF FailedRaises
<1>14. ASSUME Crash PROVE OwnersHaveIds'
  BY <1>14 DEF Crash
<1>15. ASSUME UNCHANGED vars PROVE OwnersHaveIds'
  BY <1>15 DEF vars
<1>. QED
  BY <1>1, <1>2, <1>3, <1>4, <1>5, <1>6, <1>7, <1>8, <1>9, <1>10, <1>11, <1>12,
     <1>13, <1>14, <1>15 DEF Next, Work, Fault

(***************************************************************************)
(* The id of a new row is greater than every id a handler holds.            *)
(***************************************************************************)
LEMMA OneOwnerPreserved ==
  ASSUME TypeOK, OwnersHaveIds, OneOwner, [Next]_vars
  PROVE  OneOwner'
<1>. USE DEF OneOwner, OwnersHaveIds, TypeOK, StoreTypeOK, storeVars, observerVars, Goto, Finish, Owning, Idle, Record, Prune, AckNew, AckDuplicate, Process, Processing, Parking
<1>1. ASSUME NEW h \in Handlers, NEW k \in Keys, Deliver(h, k) PROVE OneOwner'
  BY <1>1 DEF Deliver
<1>2. ASSUME NEW h \in Handlers, InsertRow(h) PROVE OneOwner'
  BY <1>2 DEF InsertRow, CommitInsert, NewRow
<1>3. ASSUME NEW h \in Handlers, FindDuplicate(h) PROVE OneOwner'
  BY <1>3 DEF FindDuplicate, CommitDuplicate
<1>4. ASSUME NEW h \in Handlers, PruneRows(h) PROVE OneOwner'
  BY <1>4 DEF PruneRows, CommitPrune
<1>5. ASSUME NEW h \in Handlers, AcknowledgeNew(h) PROVE OneOwner'
  BY <1>5 DEF AcknowledgeNew
<1>6. ASSUME NEW h \in Handlers, AcknowledgeDuplicate(h) PROVE OneOwner'
  BY <1>6 DEF AcknowledgeDuplicate
<1>7. ASSUME NEW h \in Handlers, Summarize(h) PROVE OneOwner'
  BY <1>7 DEF Summarize
<1>8. ASSUME NEW h \in Handlers, SettleProcessed(h) PROVE OneOwner'
  BY <1>8 DEF SettleProcessed, MarkProcessed, Update
<1>9. ASSUME NEW h \in Handlers, SettleFailed(h) PROVE OneOwner'
  BY <1>9 DEF SettleFailed, MarkFailed, Update
<1>10. ASSUME NEW h \in Handlers, RecordRaises(h) PROVE OneOwner'
  BY <1>10 DEF RecordRaises
<1>11. ASSUME NEW h \in Handlers, PruneRaises(h) PROVE OneOwner'
  BY <1>11 DEF PruneRaises, AbandonPrune
<1>12. ASSUME NEW h \in Handlers, ProcessedRaises(h) PROVE OneOwner'
  BY <1>12 DEF ProcessedRaises
<1>13. ASSUME NEW h \in Handlers, FailedRaises(h) PROVE OneOwner'
  BY <1>13 DEF FailedRaises
<1>14. ASSUME Crash PROVE OneOwner'
  BY <1>14 DEF Crash
<1>15. ASSUME UNCHANGED vars PROVE OneOwner'
  BY <1>15 DEF vars
<1>. QED
  BY <1>1, <1>2, <1>3, <1>4, <1>5, <1>6, <1>7, <1>8, <1>9, <1>10, <1>11, <1>12,
     <1>13, <1>14, <1>15 DEF Next, Work, Fault

(***************************************************************************)
(* A handler's row is changed by nobody else: a new row has a new id, pruning*)
(* changes no row it keeps, and an UPDATE goes to the row of the one owner. *)
(***************************************************************************)
LEMMA OwnRowPreserved ==
  ASSUME TypeOK, OwnersHaveIds, OneOwner, OwnRow, [Next]_vars
  PROVE  OwnRow'
<1>. USE DEF OwnRow, OneOwner, OwnersHaveIds, TypeOK, StoreTypeOK, Received, storeVars, observerVars, Goto, Finish, Owning, Idle, Record, Prune, AckNew, AckDuplicate, Process, Processing, Parking
<1>1. ASSUME NEW h \in Handlers, NEW k \in Keys, Deliver(h, k) PROVE OwnRow'
  BY <1>1 DEF Deliver
<1>2. ASSUME NEW h \in Handlers, InsertRow(h) PROVE OwnRow'
  BY <1>2 DEF InsertRow, CommitInsert, NewRow
<1>3. ASSUME NEW h \in Handlers, FindDuplicate(h) PROVE OwnRow'
  BY <1>3 DEF FindDuplicate, CommitDuplicate
<1>4. ASSUME NEW h \in Handlers, PruneRows(h) PROVE OwnRow'
  BY <1>4 DEF PruneRows, CommitPrune, Newest
<1>5. ASSUME NEW h \in Handlers, AcknowledgeNew(h) PROVE OwnRow'
  BY <1>5 DEF AcknowledgeNew
<1>6. ASSUME NEW h \in Handlers, AcknowledgeDuplicate(h) PROVE OwnRow'
  BY <1>6 DEF AcknowledgeDuplicate
<1>7. ASSUME NEW h \in Handlers, Summarize(h) PROVE OwnRow'
  BY <1>7 DEF Summarize
<1>8. ASSUME NEW h \in Handlers, SettleProcessed(h) PROVE OwnRow'
  BY <1>8 DEF SettleProcessed, MarkProcessed, Update
<1>9. ASSUME NEW h \in Handlers, SettleFailed(h) PROVE OwnRow'
  BY <1>9 DEF SettleFailed, MarkFailed, Update
<1>10. ASSUME NEW h \in Handlers, RecordRaises(h) PROVE OwnRow'
  BY <1>10 DEF RecordRaises
<1>11. ASSUME NEW h \in Handlers, PruneRaises(h) PROVE OwnRow'
  BY <1>11 DEF PruneRaises, AbandonPrune
<1>12. ASSUME NEW h \in Handlers, ProcessedRaises(h) PROVE OwnRow'
  BY <1>12 DEF ProcessedRaises
<1>13. ASSUME NEW h \in Handlers, FailedRaises(h) PROVE OwnRow'
  BY <1>13 DEF FailedRaises
<1>14. ASSUME Crash PROVE OwnRow'
  BY <1>14 DEF Crash
<1>15. ASSUME UNCHANGED vars PROVE OwnRow'
  BY <1>15 DEF vars
<1>. QED
  BY <1>1, <1>2, <1>3, <1>4, <1>5, <1>6, <1>7, <1>8, <1>9, <1>10, <1>11, <1>12,
     <1>13, <1>14, <1>15 DEF Next, Work, Fault

(***************************************************************************)
(* Only the owner of a row updates it, and OwnRow says the row is 'received'.*)
(***************************************************************************)
LEMMA SettledOncePreserved ==
  ASSUME TypeOK, OwnRow, SettledOnce, [Next]_vars
  PROVE  SettledOnce'
<1>. USE DEF SettledOnce, OwnRow, TypeOK, StoreTypeOK, Received, Processed, Failed, storeVars, observerVars, Goto, Finish, Owning, Idle, Record, Prune, AckNew, AckDuplicate, Process, Processing, Parking
<1>1. ASSUME NEW h \in Handlers, NEW k \in Keys, Deliver(h, k) PROVE SettledOnce'
  BY <1>1 DEF Deliver
<1>2. ASSUME NEW h \in Handlers, InsertRow(h) PROVE SettledOnce'
  BY <1>2 DEF InsertRow, CommitInsert, NewRow
<1>3. ASSUME NEW h \in Handlers, FindDuplicate(h) PROVE SettledOnce'
  BY <1>3 DEF FindDuplicate, CommitDuplicate
<1>4. ASSUME NEW h \in Handlers, PruneRows(h) PROVE SettledOnce'
  BY <1>4 DEF PruneRows, CommitPrune, Newest
<1>5. ASSUME NEW h \in Handlers, AcknowledgeNew(h) PROVE SettledOnce'
  BY <1>5 DEF AcknowledgeNew
<1>6. ASSUME NEW h \in Handlers, AcknowledgeDuplicate(h) PROVE SettledOnce'
  BY <1>6 DEF AcknowledgeDuplicate
<1>7. ASSUME NEW h \in Handlers, Summarize(h) PROVE SettledOnce'
  BY <1>7 DEF Summarize
<1>8. ASSUME NEW h \in Handlers, SettleProcessed(h) PROVE SettledOnce'
  BY <1>8 DEF SettleProcessed, MarkProcessed, Update
<1>9. ASSUME NEW h \in Handlers, SettleFailed(h) PROVE SettledOnce'
  BY <1>9 DEF SettleFailed, MarkFailed, Update
<1>10. ASSUME NEW h \in Handlers, RecordRaises(h) PROVE SettledOnce'
  BY <1>10 DEF RecordRaises
<1>11. ASSUME NEW h \in Handlers, PruneRaises(h) PROVE SettledOnce'
  BY <1>11 DEF PruneRaises, AbandonPrune
<1>12. ASSUME NEW h \in Handlers, ProcessedRaises(h) PROVE SettledOnce'
  BY <1>12 DEF ProcessedRaises
<1>13. ASSUME NEW h \in Handlers, FailedRaises(h) PROVE SettledOnce'
  BY <1>13 DEF FailedRaises
<1>14. ASSUME Crash PROVE SettledOnce'
  BY <1>14 DEF Crash
<1>15. ASSUME UNCHANGED vars PROVE SettledOnce'
  BY <1>15 DEF vars
<1>. QED
  BY <1>1, <1>2, <1>3, <1>4, <1>5, <1>6, <1>7, <1>8, <1>9, <1>10, <1>11, <1>12,
     <1>13, <1>14, <1>15 DEF Next, Work, Fault

(***************************************************************************)
(* A handler that ends either settled its row or left it among the orphans. *)
(***************************************************************************)
LEMMA ReceivedIsOwnedPreserved ==
  ASSUME TypeOK, OwnersHaveIds, OneOwner, OwnRow, ReceivedIsOwned, [Next]_vars
  PROVE  ReceivedIsOwned'
<1>. USE DEF ReceivedIsOwned, OwnRow, OneOwner, OwnersHaveIds, Received, Processed, Failed, TypeOK, StoreTypeOK, storeVars, observerVars, Goto, Finish, Owning, Idle, Record, Prune, AckNew, AckDuplicate, Process, Processing, Parking
<1>1. ASSUME NEW h \in Handlers, NEW k \in Keys, Deliver(h, k) PROVE ReceivedIsOwned'
  BY <1>1 DEF Deliver
<1>2. ASSUME NEW h \in Handlers, InsertRow(h) PROVE ReceivedIsOwned'
  BY <1>2 DEF InsertRow, CommitInsert, NewRow
<1>3. ASSUME NEW h \in Handlers, FindDuplicate(h) PROVE ReceivedIsOwned'
  BY <1>3 DEF FindDuplicate, CommitDuplicate
<1>4. ASSUME NEW h \in Handlers, PruneRows(h) PROVE ReceivedIsOwned'
  BY <1>4 DEF PruneRows, CommitPrune, Newest
<1>5. ASSUME NEW h \in Handlers, AcknowledgeNew(h) PROVE ReceivedIsOwned'
  BY <1>5 DEF AcknowledgeNew
<1>6. ASSUME NEW h \in Handlers, AcknowledgeDuplicate(h) PROVE ReceivedIsOwned'
  BY <1>6 DEF AcknowledgeDuplicate
<1>7. ASSUME NEW h \in Handlers, Summarize(h) PROVE ReceivedIsOwned'
  BY <1>7 DEF Summarize
<1>8. ASSUME NEW h \in Handlers, SettleProcessed(h) PROVE ReceivedIsOwned'
  BY <1>8 DEF SettleProcessed, MarkProcessed, Update
<1>9. ASSUME NEW h \in Handlers, SettleFailed(h) PROVE ReceivedIsOwned'
  BY <1>9 DEF SettleFailed, MarkFailed, Update
<1>10. ASSUME NEW h \in Handlers, RecordRaises(h) PROVE ReceivedIsOwned'
  BY <1>10 DEF RecordRaises
<1>11. ASSUME NEW h \in Handlers, PruneRaises(h) PROVE ReceivedIsOwned'
  BY <1>11 DEF PruneRaises, AbandonPrune
<1>12. ASSUME NEW h \in Handlers, ProcessedRaises(h) PROVE ReceivedIsOwned'
  BY <1>12 DEF ProcessedRaises
<1>13. ASSUME NEW h \in Handlers, FailedRaises(h) PROVE ReceivedIsOwned'
  BY <1>13 DEF FailedRaises
<1>14. ASSUME Crash PROVE ReceivedIsOwned'
  BY <1>14 DEF Crash
<1>15. ASSUME UNCHANGED vars PROVE ReceivedIsOwned'
  BY <1>15 DEF vars
<1>. QED
  BY <1>1, <1>2, <1>3, <1>4, <1>5, <1>6, <1>7, <1>8, <1>9, <1>10, <1>11, <1>12,
     <1>13, <1>14, <1>15 DEF Next, Work, Fault

(***************************************************************************)
(* Whatever is stored or answered went through the insertion in record().   *)
(***************************************************************************)
LEMMA InsertedFirstPreserved ==
  ASSUME TypeOK, InsertedFirst, [Next]_vars
  PROVE  InsertedFirst'
<1>. USE DEF InsertedFirst, StoredKeys, TypeOK, StoreTypeOK, storeVars, observerVars, Goto, Finish, Owning, Idle, Record, Prune, AckNew, AckDuplicate, Process, Processing, Parking
<1>1. ASSUME NEW h \in Handlers, NEW k \in Keys, Deliver(h, k) PROVE InsertedFirst'
  BY <1>1 DEF Deliver
<1>2. ASSUME NEW h \in Handlers, InsertRow(h) PROVE InsertedFirst'
  <2>1. /\ rows' = [i \in DOMAIN rows \cup {lastId + 1} |->
                      IF i = lastId + 1 THEN NewRow(key[h]) ELSE rows[i]]
        /\ inserts' = [inserts EXCEPT ![key[h]] = inserts[key[h]] + 1]
        /\ pc' = [pc EXCEPT ![h] = Prune]
        /\ UNCHANGED <<key, acked>>
    BY <1>2 DEF InsertRow, CommitInsert
  <2>2. key[h] \in Keys
    BY <1>2 DEF InsertRow
  <2>3. \A k \in Keys : inserts[k] > 0 \/ k = key[h] => inserts'[k] > 0
    BY <2>1, <2>2
  <2>4. \A i \in DOMAIN rows' : rows'[i].key \in StoredKeys \cup {key[h]}
    BY <2>1 DEF NewRow
  <2>5. \A k \in StoredKeys \cup acked : k \in Keys /\ inserts[k] > 0
    BY DEF Row
  <2>6. StoredKeys' \subseteq StoredKeys \cup {key[h]}
    BY <2>4
  <2>7. \A k \in StoredKeys' \cup acked' : inserts'[k] > 0
    BY <2>1, <2>2, <2>3, <2>5, <2>6
  <2>8. \A g \in Handlers : pc'[g] \in Owning \cup {AckDuplicate} =>
                           g = h \/ (key[g] \in Keys /\ inserts[key[g]] > 0)
    BY <2>1
  <2>9. \A g \in Handlers : pc'[g] \in Owning \cup {AckDuplicate} =>
                           inserts'[key'[g]] > 0
    BY <2>1, <2>2, <2>3, <2>8
  <2>. QED  BY <2>7, <2>9
<1>3. ASSUME NEW h \in Handlers, FindDuplicate(h) PROVE InsertedFirst'
  BY <1>3 DEF FindDuplicate, CommitDuplicate
<1>4. ASSUME NEW h \in Handlers, PruneRows(h) PROVE InsertedFirst'
  BY <1>4 DEF PruneRows, CommitPrune, Newest
<1>5. ASSUME NEW h \in Handlers, AcknowledgeNew(h) PROVE InsertedFirst'
  BY <1>5 DEF AcknowledgeNew
<1>6. ASSUME NEW h \in Handlers, AcknowledgeDuplicate(h) PROVE InsertedFirst'
  BY <1>6 DEF AcknowledgeDuplicate
<1>7. ASSUME NEW h \in Handlers, Summarize(h) PROVE InsertedFirst'
  BY <1>7 DEF Summarize
<1>8. ASSUME NEW h \in Handlers, SettleProcessed(h) PROVE InsertedFirst'
  BY <1>8 DEF SettleProcessed, MarkProcessed, Update
<1>9. ASSUME NEW h \in Handlers, SettleFailed(h) PROVE InsertedFirst'
  BY <1>9 DEF SettleFailed, MarkFailed, Update
<1>10. ASSUME NEW h \in Handlers, RecordRaises(h) PROVE InsertedFirst'
  BY <1>10 DEF RecordRaises
<1>11. ASSUME NEW h \in Handlers, PruneRaises(h) PROVE InsertedFirst'
  BY <1>11 DEF PruneRaises, AbandonPrune
<1>12. ASSUME NEW h \in Handlers, ProcessedRaises(h) PROVE InsertedFirst'
  BY <1>12 DEF ProcessedRaises
<1>13. ASSUME NEW h \in Handlers, FailedRaises(h) PROVE InsertedFirst'
  BY <1>13 DEF FailedRaises
<1>14. ASSUME Crash PROVE InsertedFirst'
  BY <1>14 DEF Crash
<1>15. ASSUME UNCHANGED vars PROVE InsertedFirst'
  BY <1>15 DEF vars
<1>. QED
  BY <1>1, <1>2, <1>3, <1>4, <1>5, <1>6, <1>7, <1>8, <1>9, <1>10, <1>11, <1>12,
     <1>13, <1>14, <1>15 DEF Next, Work, Fault

(***************************************************************************)
(* The table is finite: its ids are among those handed out.                  *)
(***************************************************************************)
LEMMA TableIsFinite ==
  ASSUME TypeOK
  PROVE  /\ DOMAIN rows \in SUBSET Nat
         /\ IsFiniteSet(DOMAIN rows)
         /\ Cardinality(DOMAIN rows) \in Nat
<1>1. lastId \in Nat /\ DOMAIN rows \subseteq 1..lastId
  BY DEF TypeOK, StoreTypeOK
<1>2. DOMAIN rows \in SUBSET Nat
  BY <1>1
<1>3. IsFiniteSet(1..lastId)
  BY <1>1, FS_Interval
<1>4. IsFiniteSet(DOMAIN rows)
  BY <1>1, <1>3, FS_Subset
<1>. QED  BY <1>2, <1>4, FS_CardinalityType

(***************************************************************************)
(* A pruning brings the table back to Retention rows; one that is cut short by*)
(* an error or a crash is paid for by the count of those.                   *)
(***************************************************************************)
LEMMA SizeBoundPreserved ==
  ASSUME TypeOK, TypeOK', SizeBound, [Next]_vars
  PROVE  SizeBound'
<1>. USE DEF SizeBound, TypeOK, StoreTypeOK, storeVars, observerVars, Goto, Finish, Owning, Idle, Record, Prune, AckNew, AckDuplicate, Process, Processing, Parking
<1>1. ASSUME NEW h \in Handlers, NEW k \in Keys, Deliver(h, k) PROVE SizeBound'
  BY <1>1 DEF Deliver
<1>2. ASSUME NEW h \in Handlers, InsertRow(h) PROVE SizeBound'
  <2>1. DOMAIN rows' = DOMAIN rows \cup {lastId + 1} /\ lastId + 1 \notin DOMAIN rows
    BY <1>2 DEF InsertRow, CommitInsert
  <2>2. Cardinality(DOMAIN rows \cup {lastId + 1}) = Cardinality(DOMAIN rows) + 1
    <3>1. IsFiniteSet(DOMAIN rows)
      BY TableIsFinite
    <3>. QED  BY ONLY <2>1, <3>1, FS_AddElement
  <2>3. ~locked /\ locked' /\ UNCHANGED <<faults, crashes>>
    BY <1>2 DEF InsertRow, CommitInsert
  <2>. QED  BY <2>1, <2>2, <2>3, TableIsFinite, RetentionAssumption
<1>3. ASSUME NEW h \in Handlers, FindDuplicate(h) PROVE SizeBound'
  BY <1>3 DEF FindDuplicate, CommitDuplicate
<1>4. ASSUME NEW h \in Handlers, PruneRows(h) PROVE SizeBound'
  <2>1. DOMAIN rows' = Newest(DOMAIN rows, Retention)
    BY <1>4 DEF PruneRows, CommitPrune
  <2>2. Cardinality(DOMAIN rows') <= Retention
    BY <2>1, TableIsFinite, NewestCardinality, RetentionAssumption
  <2>3. ~locked' /\ UNCHANGED <<faults, crashes>>
    BY <1>4 DEF PruneRows, CommitPrune
  <2>4. Cardinality(DOMAIN rows') \in Nat
    BY <2>1, TableIsFinite, NewestCardinality, FS_CardinalityType, RetentionAssumption
  <2>. QED  BY <2>2, <2>3, <2>4, RetentionAssumption
<1>5. ASSUME NEW h \in Handlers, AcknowledgeNew(h) PROVE SizeBound'
  BY <1>5 DEF AcknowledgeNew
<1>6. ASSUME NEW h \in Handlers, AcknowledgeDuplicate(h) PROVE SizeBound'
  BY <1>6 DEF AcknowledgeDuplicate
<1>7. ASSUME NEW h \in Handlers, Summarize(h) PROVE SizeBound'
  BY <1>7 DEF Summarize
<1>8. ASSUME NEW h \in Handlers, SettleProcessed(h) PROVE SizeBound'
  <2>1. DOMAIN rows' = DOMAIN rows /\ UNCHANGED <<locked, faults, crashes>>
    BY <1>8 DEF SettleProcessed, MarkProcessed, Update
  <2>. QED  BY <2>1
<1>9. ASSUME NEW h \in Handlers, SettleFailed(h) PROVE SizeBound'
  <2>1. DOMAIN rows' = DOMAIN rows /\ UNCHANGED <<locked, faults, crashes>>
    BY <1>9 DEF SettleFailed, MarkFailed, Update
  <2>. QED  BY <2>1
<1>10. ASSUME NEW h \in Handlers, RecordRaises(h) PROVE SizeBound'
  <2>1. UNCHANGED <<rows, locked, crashes>> /\ faults' = faults + 1
    BY <1>10 DEF RecordRaises
  <2>. QED  BY <2>1, TableIsFinite, RetentionAssumption
<1>11. ASSUME NEW h \in Handlers, PruneRaises(h) PROVE SizeBound'
  <2>1. UNCHANGED <<rows, crashes>> /\ faults' = faults + 1 /\ locked /\ ~locked'
    BY <1>11 DEF PruneRaises, AbandonPrune
  <2>. QED  BY <2>1, TableIsFinite, RetentionAssumption
<1>12. ASSUME NEW h \in Handlers, ProcessedRaises(h) PROVE SizeBound'
  <2>1. UNCHANGED <<rows, locked, crashes>> /\ faults' = faults + 1
    BY <1>12 DEF ProcessedRaises
  <2>. QED  BY <2>1, TableIsFinite, RetentionAssumption
<1>13. ASSUME NEW h \in Handlers, FailedRaises(h) PROVE SizeBound'
  <2>1. UNCHANGED <<rows, locked, crashes>> /\ faults' = faults + 1
    BY <1>13 DEF FailedRaises
  <2>. QED  BY <2>1, TableIsFinite, RetentionAssumption
<1>14. ASSUME Crash PROVE SizeBound'
  <2>1. UNCHANGED <<rows, faults>> /\ crashes' = crashes + 1 /\ ~locked'
    BY <1>14 DEF Crash
  <2>. QED  BY <2>1, TableIsFinite, RetentionAssumption
<1>15. ASSUME UNCHANGED vars PROVE SizeBound'
  BY <1>15 DEF vars
<1>. QED
  BY <1>1, <1>2, <1>3, <1>4, <1>5, <1>6, <1>7, <1>8, <1>9, <1>10, <1>11, <1>12,
     <1>13, <1>14, <1>15 DEF Next, Work, Fault

(***************************************************************************)
(* What is kept stays kept.  A row disappears only in a pruning, and then     *)
(* Retention rows remain; nothing else makes the table smaller.               *)
(***************************************************************************)
LEMMA KeptStaysKept ==
  ASSUME TypeOK, TypeOK', [Next]_vars, NEW k \in Keys, Kept(k)
  PROVE  Kept(k)'
<1>. USE DEF Kept, StoredKeys
<1>1. ASSUME NEW h \in Handlers, InsertRow(h) PROVE Kept(k)'
  <2>1. /\ DOMAIN rows' = DOMAIN rows \cup {lastId + 1}
        /\ \A i \in DOMAIN rows : i # lastId + 1 /\ rows'[i] = rows[i]
    BY <1>1 DEF InsertRow, CommitInsert, TypeOK, StoreTypeOK
  <2>2. Cardinality(DOMAIN rows') = Cardinality(DOMAIN rows) + 1
    <3>1. lastId + 1 \notin DOMAIN rows
      BY DEF TypeOK, StoreTypeOK
    <3>. QED  BY <2>1, <3>1, TableIsFinite, FS_AddElement
  <2>3. CASE k \in StoredKeys
    BY <2>1, <2>3
  <2>4. CASE Cardinality(DOMAIN rows) >= Retention
    BY <2>2, <2>4, TableIsFinite, RetentionAssumption
  <2>. QED  BY <2>3, <2>4
<1>2. ASSUME NEW h \in Handlers, PruneRows(h) PROVE Kept(k)'
  <2>. DEFINE N == Newest(DOMAIN rows, Retention)
  <2>1. rows' = [i \in N |-> rows[i]]
    BY <1>2 DEF PruneRows, CommitPrune
  <2>2. DOMAIN rows' = N
    BY <2>1
  <2>3. CASE Cardinality(DOMAIN rows) >= Retention
    <3>1. Cardinality(N) = Retention
      BY <2>3, TableIsFinite, NewestCardinality, RetentionAssumption
    <3>. QED  BY <2>2, <3>1, RetentionAssumption
  <2>4. CASE k \in StoredKeys
    <3>1. PICK i \in DOMAIN rows : rows[i].key = k
      BY <2>4
    <3>2. CASE i \in N
      BY <2>1, <3>1, <3>2
    <3>3. CASE i \notin N
      <4>1. Cardinality(N) = Retention
        BY <3>3, TableIsFinite, PrunedOnlyWhenFull, RetentionAssumption
      <4>. QED  BY <2>2, <4>1, RetentionAssumption
    <3>. QED  BY <3>2, <3>3
  <2>. QED  BY <2>3, <2>4
<1>3. ASSUME NEW h \in Handlers, SettleProcessed(h) \/ SettleFailed(h)
      PROVE  Kept(k)'
  <2>1. DOMAIN rows' = DOMAIN rows
    BY <1>3 DEF SettleProcessed, SettleFailed, MarkProcessed, MarkFailed, Update
  <2>2. \A i \in DOMAIN rows : rows'[i].key = rows[i].key
    BY <1>3 DEF SettleProcessed, SettleFailed, MarkProcessed, MarkFailed, Update
  <2>. QED  BY <2>1, <2>2
<1>4. ASSUME UNCHANGED rows PROVE Kept(k)'
  BY <1>4
<1>5. ASSUME ~\E h \in Handlers :
               InsertRow(h) \/ PruneRows(h) \/ SettleProcessed(h) \/ SettleFailed(h)
      PROVE  UNCHANGED rows
  BY <1>5 DEF Next, Work, Fault, vars, storeVars, observerVars, Deliver, FindDuplicate,
     CommitDuplicate, AcknowledgeNew, AcknowledgeDuplicate, Summarize, RecordRaises,
     PruneRaises, AbandonPrune, ProcessedRaises, FailedRaises, Crash
<1>. QED  BY <1>1, <1>2, <1>3, <1>4, <1>5

(***************************************************************************)
(* From the first commit to the answer and after it, the delivery is kept.  *)
(***************************************************************************)
LEMMA KeptUntilAckedPreserved ==
  ASSUME TypeOK, TypeOK', KeptUntilAcked, [Next]_vars
  PROVE  KeptUntilAcked'
<1>. USE DEF KeptUntilAcked, TypeOK, storeVars, observerVars, Goto, Finish, Owning, Idle, Record, Prune, AckNew, AckDuplicate, Process, Processing, Parking
<1>1. ASSUME NEW h \in Handlers, NEW k \in Keys, Deliver(h, k) PROVE KeptUntilAcked'
  BY <1>1, KeptStaysKept DEF Deliver
<1>2. ASSUME NEW h \in Handlers, InsertRow(h) PROVE KeptUntilAcked'
  <2>1. key[h] \in StoredKeys'
    <3>1. rows'[lastId + 1] = NewRow(key[h]) /\ lastId + 1 \in DOMAIN rows'
      BY <1>2 DEF InsertRow, CommitInsert
    <3>. QED  BY <3>1 DEF StoredKeys, NewRow
  <2>2. Kept(key[h])'
    BY <2>1, <1>2 DEF Kept, InsertRow
  <2>. QED  BY <1>2, <2>2, KeptStaysKept DEF InsertRow
<1>3. ASSUME NEW h \in Handlers, FindDuplicate(h) PROVE KeptUntilAcked'
  <2>1. Kept(key[h])
    BY <1>3 DEF FindDuplicate, CommitDuplicate, Kept
  <2>. QED  BY <1>3, <2>1, KeptStaysKept DEF FindDuplicate
<1>4. ASSUME NEW h \in Handlers, PruneRows(h) PROVE KeptUntilAcked'
  BY <1>4, KeptStaysKept DEF PruneRows, CommitPrune
<1>5. ASSUME NEW h \in Handlers, AcknowledgeNew(h) PROVE KeptUntilAcked'
  BY <1>5, KeptStaysKept DEF AcknowledgeNew
<1>6. ASSUME NEW h \in Handlers, AcknowledgeDuplicate(h) PROVE KeptUntilAcked'
  BY <1>6, KeptStaysKept DEF AcknowledgeDuplicate
<1>7. ASSUME NEW h \in Handlers, Summarize(h) PROVE KeptUntilAcked'
  BY <1>7, KeptStaysKept DEF Summarize
<1>8. ASSUME NEW h \in Handlers, SettleProcessed(h) PROVE KeptUntilAcked'
  BY <1>8, KeptStaysKept DEF SettleProcessed, MarkProcessed, Update
<1>9. ASSUME NEW h \in Handlers, SettleFailed(h) PROVE KeptUntilAcked'
  BY <1>9, KeptStaysKept DEF SettleFailed, MarkFailed, Update
<1>10. ASSUME NEW h \in Handlers, RecordRaises(h) PROVE KeptUntilAcked'
  BY <1>10, KeptStaysKept DEF RecordRaises
<1>11. ASSUME NEW h \in Handlers, PruneRaises(h) PROVE KeptUntilAcked'
  BY <1>11, KeptStaysKept DEF PruneRaises, AbandonPrune
<1>12. ASSUME NEW h \in Handlers, ProcessedRaises(h) PROVE KeptUntilAcked'
  BY <1>12, KeptStaysKept DEF ProcessedRaises
<1>13. ASSUME NEW h \in Handlers, FailedRaises(h) PROVE KeptUntilAcked'
  BY <1>13, KeptStaysKept DEF FailedRaises
<1>14. ASSUME Crash PROVE KeptUntilAcked'
  BY <1>14, KeptStaysKept DEF Crash
<1>15. ASSUME UNCHANGED vars PROVE KeptUntilAcked'
  BY <1>15, KeptStaysKept DEF vars
<1>. QED
  BY <1>1, <1>2, <1>3, <1>4, <1>5, <1>6, <1>7, <1>8, <1>9, <1>10, <1>11, <1>12,
     <1>13, <1>14, <1>15 DEF Next, Work, Fault

(***************************************************************************)
(* GatewayInvariant holds initially, and every step preserves it.             *)
(***************************************************************************)
LEMMA InvariantInitially == Init => GatewayInvariant
<1>. SUFFICES ASSUME Init PROVE GatewayInvariant
  OBVIOUS
<1>. USE DEF Init, StoreInit, Idle, Record, Prune, AckNew, AckDuplicate, Process, Processing, Parking, Owning
<1>1. DOMAIN rows = {}
  OBVIOUS
<1>2. TypeOK
  <2>1. StoreTypeOK
    BY <1>1 DEF StoreTypeOK
  <2>2. /\ sends \in [Keys -> 0..MaxSends]
        /\ faults \in 0..MaxFaults
        /\ crashes \in 0..MaxCrashes
    BY GatewayAssumption
  <2>3. id \in [Handlers -> 0..lastId]
    OBVIOUS
  <2>4. inserts \in [Keys -> Nat] /\ acked \subseteq Keys /\ orphans \subseteq 1..lastId
    OBVIOUS
  <2>5. /\ pc \in [Handlers -> PCs]
        /\ key \in [Handlers -> Keys \cup {NoKey}]
        /\ \A h \in Handlers : pc[h] # Idle => key[h] \in Keys
    BY DEF PCs
  <2>. QED  BY <2>1, <2>2, <2>3, <2>4, <2>5 DEF TypeOK
<1>3. SizeBound
  BY <1>1, FS_EmptySet, RetentionAssumption DEF SizeBound
<1>4. UniqueKeys /\ OneOwner /\ OwnRow /\ SettledOnce /\ ReceivedIsOwned
  BY <1>1 DEF UniqueKeys, OneOwner, OwnRow, SettledOnce, ReceivedIsOwned
<1>5. OwnersHaveIds /\ KeptUntilAcked /\ InsertedFirst
  BY <1>1 DEF OwnersHaveIds, KeptUntilAcked, InsertedFirst, StoredKeys
<1>. QED  BY <1>2, <1>3, <1>4, <1>5 DEF GatewayInvariant

LEMMA InvariantPreserved ==
  ASSUME GatewayInvariant, [Next]_vars
  PROVE  GatewayInvariant'
<1>. USE DEF GatewayInvariant
<1>1. TypeOK'
  BY TypePreserved
<1>2. UniqueKeys' /\ OneOwner' /\ OwnRow'
  BY UniqueKeysPreserved, OneOwnerPreserved, OwnRowPreserved
<1>3. SettledOnce' /\ ReceivedIsOwned' /\ OwnersHaveIds'
  BY SettledOncePreserved, ReceivedIsOwnedPreserved, OwnersHaveIdsPreserved
<1>4. KeptUntilAcked' /\ InsertedFirst' /\ SizeBound'
  BY <1>1, KeptUntilAckedPreserved, InsertedFirstPreserved, SizeBoundPreserved
<1>. QED  BY <1>1, <1>2, <1>3, <1>4

(***************************************************************************)
(* The invariant holds in every state, for all values of the constants.       *)
(***************************************************************************)
THEOREM GatewayIsInvariant == Spec => []GatewayInvariant
<1>1. Init => GatewayInvariant
  BY InvariantInitially
<1>2. GatewayInvariant /\ [Next]_vars => GatewayInvariant'
  BY InvariantPreserved
<1>. QED  BY <1>1, <1>2, PTL DEF Spec

(***************************************************************************)
(* Every variable keeps its type.                                             *)
(***************************************************************************)
THEOREM TypeCorrect == Spec => []TypeOK
<1>1. GatewayInvariant => TypeOK
  BY DEF GatewayInvariant
<1>. QED  BY <1>1, GatewayIsInvariant, PTL

(***************************************************************************)
(* webhook.py, "never lose a delivery": an answered delivery is in the table, *)
(* or Retention other rows are, whatever fails and however handlers mix.      *)
(***************************************************************************)
THEOREM AcknowledgedIsNeverLost == Spec => []NeverLost
<1>1. GatewayInvariant => NeverLost
  BY DEF GatewayInvariant, KeptUntilAcked, Kept, NeverLost
<1>. QED  BY <1>1, GatewayIsInvariant, PTL

(***************************************************************************)
(* The row id a background task kept from record() is the task's own row for  *)
(* as long as the row exists, and no other handler holds that id.             *)
(***************************************************************************)
THEOREM TasksOwnTheirRows == Spec => [](OwnRow /\ OneOwner)
<1>1. GatewayInvariant => OwnRow /\ OneOwner
  BY DEF GatewayInvariant
<1>. QED  BY <1>1, GatewayIsInvariant, PTL

(***************************************************************************)
(* A delivery is in the table once, and its row is settled at most once.      *)
(***************************************************************************)
THEOREM DeliveriesSettleOnce == Spec => [](UniqueKeys /\ SettledOnce)
<1>1. GatewayInvariant => UniqueKeys /\ SettledOnce
  BY DEF GatewayInvariant
<1>. QED  BY <1>1, GatewayIsInvariant, PTL

(***************************************************************************)
(* Only an error or a crash strands a row in status 'received'.               *)
(***************************************************************************)
THEOREM NobodyStrandsADelivery == Spec => []ReceivedIsOwned
<1>1. GatewayInvariant => ReceivedIsOwned
  BY DEF GatewayInvariant
<1>. QED  BY <1>1, GatewayIsInvariant, PTL

(***************************************************************************)
(* The table that readers see is bounded by the retention plus the number of  *)
(* prunings that were cut short.                                              *)
(***************************************************************************)
THEOREM TableIsBounded == Spec => []RetentionBound
<1>1. GatewayInvariant => RetentionBound
  <2>. SUFFICES ASSUME GatewayInvariant, ~locked
                PROVE  Cardinality(DOMAIN rows) <= Retention + faults + crashes
    BY DEF RetentionBound
  <2>1. TypeOK /\ SizeBound
    BY DEF GatewayInvariant
  <2>2. faults \in Nat /\ crashes \in Nat
    BY <2>1, GatewayAssumption DEF TypeOK
  <2>. QED  BY <2>1, <2>2, TableIsFinite, RetentionAssumption DEF SizeBound
<1>. QED  BY <1>1, GatewayIsInvariant, PTL

-----------------------------------------------------------------------------
(***************************************************************************)
(* What a step of the webhook half of the gateway may never do, and that    *)
(* every step is one of DeliveryLedger's or changes nothing it can see.     *)
(*                                                                          *)
(* Everything follows from GatewayInvariant in the state before the step.   *)
(***************************************************************************)

(***************************************************************************)
(* Only three kinds of steps write the table.                               *)
(***************************************************************************)
LEMMA WritersOfTheTable ==
  ASSUME [Next]_vars
  PROVE  \/ UNCHANGED rows
         \/ \E h \in Handlers : InsertRow(h) \/ PruneRows(h)
         \/ \E h \in Handlers : SettleProcessed(h) \/ SettleFailed(h)
<1>. USE DEF storeVars
<1>1. CASE \E h \in Handlers, k \in Keys : Deliver(h, k)
  BY <1>1 DEF Deliver
<1>2. CASE \E h \in Handlers : Work(h)
  BY <1>2 DEF Work, FindDuplicate, CommitDuplicate, AcknowledgeNew,
              AcknowledgeDuplicate, Summarize
<1>3. CASE \E h \in Handlers : Fault(h)
  BY <1>3 DEF Fault, RecordRaises, PruneRaises, AbandonPrune, ProcessedRaises, FailedRaises
<1>4. CASE Crash
  BY <1>4 DEF Crash
<1>5. CASE UNCHANGED vars
  BY <1>5 DEF vars
<1>. QED  BY <1>1, <1>2, <1>3, <1>4, <1>5 DEF Next

(***************************************************************************)
(* The step property behind SettledIsFinal: a settled row that survives a   *)
(* step is the same row after it.                                           *)
(***************************************************************************)
LEMMA SettledStays ==
  ASSUME GatewayInvariant, [Next]_vars,
         NEW i \in DOMAIN rows \cap DOMAIN rows', rows[i].status # Received
  PROVE  rows'[i] = rows[i]
<1>1. ASSUME NEW h \in Handlers, InsertRow(h) PROVE rows'[i] = rows[i]
  <2>1. DOMAIN rows \subseteq 1..lastId /\ lastId \in Nat
    BY DEF GatewayInvariant, TypeOK, StoreTypeOK
  <2>2. i # lastId + 1
    BY <2>1
  <2>. QED  BY <1>1, <2>2 DEF InsertRow, CommitInsert
<1>2. ASSUME NEW h \in Handlers, PruneRows(h) PROVE rows'[i] = rows[i]
  BY <1>2 DEF PruneRows, CommitPrune
<1>3. ASSUME NEW h \in Handlers, SettleProcessed(h) \/ SettleFailed(h)
      PROVE  rows'[i] = rows[i]
  <2>1. pc[h] \in Owning
    BY <1>3 DEF SettleProcessed, SettleFailed, Owning
  <2>2. i # id[h]
    BY <2>1 DEF GatewayInvariant, OwnRow
  <2>. QED  BY <1>3, <2>2 DEF SettleProcessed, SettleFailed, MarkProcessed, MarkFailed, Update
<1>. QED  BY <1>1, <1>2, <1>3, WritersOfTheTable

(***************************************************************************)
(* 'processed' and 'failed' are final: whatever id a background task holds, *)
(* it never touches a row that is settled.                                  *)
(***************************************************************************)
THEOREM SettledRowsAreFinal == Spec => SettledIsFinal
<1>1. GatewayInvariant /\ [Next]_vars =>
        [\A i \in DOMAIN rows \cap DOMAIN rows' :
           rows[i].status # Received => rows'[i] = rows[i]]_vars
  BY SettledStays
<1>. QED  BY <1>1, GatewayIsInvariant, PTL DEF Spec, SettledIsFinal

(***************************************************************************)
(* The step property behind OldestGoFirst: a row that goes is older than    *)
(* every row that stays.                                                    *)
(***************************************************************************)
LEMMA RemovedAreOldest ==
  ASSUME GatewayInvariant, [Next]_vars,
         NEW i \in DOMAIN rows \ DOMAIN rows', NEW j \in DOMAIN rows'
  PROVE  i < j
<1>1. ASSUME NEW h \in Handlers, InsertRow(h) PROVE FALSE
  BY <1>1 DEF InsertRow, CommitInsert
<1>2. ASSUME NEW h \in Handlers, SettleProcessed(h) \/ SettleFailed(h) PROVE FALSE
  BY <1>2 DEF SettleProcessed, SettleFailed, MarkProcessed, MarkFailed, Update
<1>3. ASSUME NEW h \in Handlers, PruneRows(h) PROVE i < j
  <2>1. /\ DOMAIN rows \in SUBSET Nat
        /\ IsFiniteSet(DOMAIN rows)
    BY TableIsFinite DEF GatewayInvariant, TypeOK, StoreTypeOK
  <2>2. DOMAIN rows' = Newest(DOMAIN rows, Retention)
    BY <1>3 DEF PruneRows, CommitPrune
  <2>. QED  BY <2>1, <2>2, PrunedAreOldest, RetentionAssumption
<1>. QED  BY <1>1, <1>2, <1>3, WritersOfTheTable

(***************************************************************************)
(* Rows disappear by pruning only, and pruning takes the oldest first.      *)
(***************************************************************************)
THEOREM PruningTakesTheOldest == Spec => OldestGoFirst
<1>1. GatewayInvariant /\ [Next]_vars =>
        [\A i \in DOMAIN rows \ DOMAIN rows', j \in DOMAIN rows' : i < j]_vars
  BY RemovedAreOldest
<1>. QED  BY <1>1, GatewayIsInvariant, PTL DEF Spec, OldestGoFirst

-----------------------------------------------------------------------------
\* The refinement of DeliveryLedger

\* Where the deliveries stand, as the refinement mapping reads it off the table.
Standing == [k \in Keys |->
               IF k \in StoredKeys THEN rows[IdOf(k)].status
               ELSE IF inserts[k] = 0 THEN "unknown" ELSE "forgotten"]

(***************************************************************************)
(* The row of a stored key is the only one with that key.                   *)
(***************************************************************************)
LEMMA RowOfKey ==
  ASSUME UniqueKeys
  PROVE  /\ \A k \in StoredKeys : IdOf(k) \in DOMAIN rows /\ rows[IdOf(k)].key = k
         /\ \A i \in DOMAIN rows : rows[i].key \in StoredKeys /\ IdOf(rows[i].key) = i
<1>1. ASSUME NEW k \in StoredKeys
      PROVE  IdOf(k) \in DOMAIN rows /\ rows[IdOf(k)].key = k
  BY <1>1 DEF StoredKeys, IdOf
<1>2. ASSUME NEW i \in DOMAIN rows
      PROVE  rows[i].key \in StoredKeys /\ IdOf(rows[i].key) = i
  <2>1. rows[i].key \in StoredKeys
    BY DEF StoredKeys
  <2>. QED  BY <2>1, <1>1 DEF UniqueKeys
<1>. QED  BY <1>1, <1>2

\* A stored delivery stands where its row says, another one is unknown or
\* forgotten; so the ledger remembers exactly what is stored.
Mapped ==
  /\ \A i \in DOMAIN rows : /\ rows[i].key \in StoredKeys
                            /\ rows[i].status \in Statuses
                            /\ Standing[rows[i].key] = rows[i].status
  /\ \A k \in StoredKeys : \E i \in DOMAIN rows : rows[i].key = k
  /\ \A k \in Keys \ StoredKeys :
       Standing[k] = (IF inserts[k] = 0 THEN "unknown" ELSE "forgotten")
  /\ StoredKeys \subseteq Keys
  /\ {k \in Keys : Standing[k] \notin {"unknown", "forgotten"}} = StoredKeys

(***************************************************************************)
(* The mapping is what Mapped says, whenever keys are unique.               *)
(***************************************************************************)
LEMMA StandingOfKey == TypeOK /\ UniqueKeys => Mapped
<1>. SUFFICES ASSUME TypeOK, UniqueKeys PROVE Mapped
  OBVIOUS
<1>1. ASSUME NEW i \in DOMAIN rows
      PROVE  /\ rows[i].key \in Keys
             /\ rows[i].key \in StoredKeys
             /\ rows[i].status \in Statuses
             /\ Standing[rows[i].key] = rows[i].status
  <2>1. rows[i].key \in Keys /\ rows[i].status \in Statuses
    BY DEF TypeOK, StoreTypeOK, Row
  <2>. QED  BY <2>1, RowOfKey DEF Standing
<1>2. \A k \in Keys \ StoredKeys :
        Standing[k] = (IF inserts[k] = 0 THEN "unknown" ELSE "forgotten")
  BY DEF Standing
<1>3. StoredKeys \subseteq Keys
  BY <1>1 DEF StoredKeys
<1>4. ASSUME NEW k \in StoredKeys PROVE Standing[k] \in Statuses
  BY <1>1, RowOfKey
<1>5. {k \in Keys : Standing[k] \notin {"unknown", "forgotten"}} = StoredKeys
  BY <1>2, <1>3, <1>4 DEF Statuses, Received, Processed, Failed
<1>6. \A k \in StoredKeys : \E i \in DOMAIN rows : rows[i].key = k
  BY DEF StoredKeys
<1>. QED  BY <1>1, <1>2, <1>3, <1>5, <1>6 DEF Mapped

(***************************************************************************)
(* Inserting a row accepts its delivery.                                    *)
(***************************************************************************)
LEMMA InsertAccepts ==
  ASSUME GatewayInvariant, Mapped, Mapped', NEW h \in Handlers, InsertRow(h)
  PROVE  Ledger!Accept(key[h])
<1>. DEFINE k == key[h]
<1>1. /\ k \in Keys /\ k \notin StoredKeys
      /\ rows' = [i \in DOMAIN rows \cup {lastId + 1} |->
                    IF i = lastId + 1 THEN NewRow(k) ELSE rows[i]]
      /\ inserts' = [inserts EXCEPT ![k] = @ + 1]
      /\ acked' = acked
  BY DEF InsertRow, CommitInsert, GatewayInvariant, TypeOK, Idle, Record
<1>2. lastId + 1 \notin DOMAIN rows
  BY DEF GatewayInvariant, TypeOK, StoreTypeOK
<1>3. k \notin Ledger!Remembered
  BY <1>1 DEF Mapped, Standing, Ledger!Remembered
<1>4. Standing'[k] = "received"
  <2>1. lastId + 1 \in DOMAIN rows' /\ rows'[lastId + 1] = NewRow(k)
    BY <1>1
  <2>. QED  BY <2>1 DEF Mapped, NewRow, Received
<1>5. ASSUME NEW j \in Keys, j # k PROVE Standing'[j] = Standing[j]
  <2>1. CASE j \in StoredKeys
    <3>1. PICK i \in DOMAIN rows : rows[i].key = j
      BY <2>1 DEF Mapped
    <3>2. i \in DOMAIN rows' /\ rows'[i] = rows[i]
      BY <1>1, <1>2
    <3>. QED  BY <3>1, <3>2 DEF Mapped
  <2>2. CASE j \notin StoredKeys
    <3>1. j \notin StoredKeys'
      BY <2>2, <1>1, <1>5 DEF StoredKeys, NewRow
    <3>2. inserts'[j] = inserts[j]
      BY <1>1, <1>5 DEF GatewayInvariant, TypeOK
    <3>. QED  BY <2>2, <3>1, <3>2 DEF Mapped
  <2>. QED  BY <2>1, <2>2
<1>6. Standing' = [Standing EXCEPT ![k] = "received"]
  <2>1. Standing = [j \in Keys |-> Standing[j]] /\ Standing' = [j \in Keys |-> Standing'[j]]
    BY DEF Standing
  <2>. HIDE DEF k
  <2>. QED  BY <2>1, <1>1, <1>4, <1>5
<1>. QED  BY <1>1, <1>3, <1>6 DEF Ledger!Accept, Standing

(***************************************************************************)
(* Pruning forgets the deliveries of the rows it removes, and if there are  *)
(* any, Retention others stay remembered.                                   *)
(***************************************************************************)
LEMMA PruneForgets ==
  ASSUME GatewayInvariant, UniqueKeys', Mapped, Mapped', NEW h \in Handlers, PruneRows(h)
  PROVE  \/ UNCHANGED <<Standing, acked>>
         \/ \E S \in SUBSET Keys : Ledger!Forget(S)
<1>. DEFINE N == Newest(DOMAIN rows, Retention)
            S == StoredKeys \ StoredKeys'
<1>1. /\ rows' = [i \in N |-> rows[i]]
      /\ inserts' = inserts /\ acked' = acked
  BY DEF PruneRows, CommitPrune, observerVars
<1>2. N \subseteq DOMAIN rows
  BY DEF Newest
<1>3. StoredKeys' \subseteq StoredKeys
  BY <1>1, <1>2 DEF StoredKeys
<1>4. ASSUME NEW j \in Keys \ S PROVE Standing'[j] = Standing[j]
  <2>1. CASE j \in StoredKeys'
    <3>1. PICK i \in DOMAIN rows' : rows'[i].key = j
      BY <2>1 DEF Mapped
    <3>2. i \in DOMAIN rows /\ rows'[i] = rows[i]
      BY <1>1, <1>2
    <3>. QED  BY <3>1, <3>2 DEF Mapped
  <2>2. CASE j \notin StoredKeys'
    BY <2>2, <1>1, <1>4 DEF Mapped
  <2>. QED  BY <2>1, <2>2
<1>5. ASSUME NEW j \in S PROVE Standing'[j] = "forgotten"
  <2>1. inserts[j] # 0
    BY DEF GatewayInvariant, InsertedFirst, TypeOK
  <2>. QED  BY <2>1, <1>1 DEF Mapped
<1>6. S \in SUBSET Keys
  BY DEF Mapped
<1>7. CASE S = {}
  <2>1. Standing' = Standing
    BY <1>4, <1>7 DEF Standing
  <2>. QED  BY <2>1, <1>1
<1>8. CASE S # {}
  <2>1. PICK i \in DOMAIN rows : rows[i].key \in S
    BY <1>8 DEF Mapped
  <2>2. i \notin N
    BY <2>1, <1>1 DEF StoredKeys
  <2>3. DOMAIN rows \in SUBSET Nat /\ IsFiniteSet(DOMAIN rows)
    BY TableIsFinite DEF GatewayInvariant
  <2>4. Cardinality(N) = Retention /\ IsFiniteSet(N)
    BY <2>2, <2>3, PrunedOnlyWhenFull, NewestCardinality, RetentionAssumption
  <2>5. Cardinality(StoredKeys') = Cardinality(N)
    <3>. DEFINE f == [p \in N |-> rows[p].key]
    <3>1. StoredKeys' = {f[p] : p \in N}
      BY <1>1 DEF StoredKeys
    <3>2. \A p, q \in N : f[p] = f[q] => p = q
      BY <1>2 DEF GatewayInvariant, UniqueKeys
    <3>3. f \in Bijection(N, StoredKeys')
      BY <3>1, <3>2 DEF Bijection, Injection, Surjection, IsInjective
    <3>. HIDE DEF f
    <3>4. IsFiniteSet(N) /\ f \in Bijection(N, StoredKeys')
      BY <3>3, <2>4
    <3>5. Cardinality(N) = Cardinality(StoredKeys')
      <4>. HIDE DEF N
      <4>. QED  BY <3>4, FS_Bijection DEF ExistsBijection
    <3>. QED  BY <3>5
  <2>6. Ledger!Remembered = StoredKeys
    BY DEF Mapped, Standing, Ledger!Remembered
  <2>7. Ledger!Remembered \ S = StoredKeys'
    BY <2>6, <1>3
  <2>8. Standing' = [k \in Keys |-> IF k \in S THEN "forgotten" ELSE Standing[k]]
    BY <1>4, <1>5 DEF Standing
  <2>9. S \subseteq Ledger!Remembered
    BY <2>6
  <2>10. Ledger!Cardinality(Ledger!Remembered \ S) = Retention
    <3>1. Cardinality(Ledger!Remembered \ S) = Retention
      BY <2>4, <2>5, <2>7
    <3>. QED  BY <3>1 DEF Cardinality, Ledger!Cardinality
  <2>11. Ledger!Forget(S)
    BY <1>1, <2>8, <2>9, <2>10 DEF Ledger!Forget, Standing
  <2>12. \E T \in SUBSET Keys : Ledger!Forget(T)
    <3>. HIDE DEF S
    <3>. QED  BY <1>6, <2>11, Zenon DEF Ledger!Forget
  <2>. QED  BY <2>12
<1>. QED  BY <1>7, <1>8

(***************************************************************************)
(* Settling a row settles its delivery, or nothing when the row is gone.    *)
(***************************************************************************)
LEMMA SettleSettles ==
  ASSUME GatewayInvariant, Mapped, Mapped', NEW h \in Handlers,
         SettleProcessed(h) \/ SettleFailed(h)
  PROVE  \/ UNCHANGED <<Standing, acked>>
         \/ \E k \in Keys, outcome \in {"processed", "failed"} : Ledger!Settle(k, outcome)
<1>1. PICK row :
        /\ rows' = [j \in DOMAIN rows |-> IF j = id[h] THEN row ELSE rows[j]]
        /\ row.key = rows[id[h]].key
        /\ row.status \in {"processed", "failed"}
  <2>1. CASE SettleProcessed(h)
    BY <2>1 DEF SettleProcessed, MarkProcessed, Update, Processed
  <2>2. CASE SettleFailed(h)
    BY <2>2 DEF SettleFailed, MarkFailed, Update, Failed
  <2>. QED  BY <2>1, <2>2
<1>2. inserts' = inserts /\ acked' = acked
  BY DEF SettleProcessed, SettleFailed, observerVars
<1>3. StoredKeys' = StoredKeys
  BY <1>1 DEF StoredKeys
<1>4. ASSUME NEW j \in Keys, id[h] \in DOMAIN rows => j # rows[id[h]].key
      PROVE  Standing'[j] = Standing[j]
  <2>1. CASE j \in StoredKeys
    <3>1. PICK i \in DOMAIN rows : rows[i].key = j
      BY <2>1 DEF Mapped
    <3>2. i \in DOMAIN rows' /\ rows'[i] = rows[i]
      BY <1>1, <1>4, <3>1
    <3>. QED  BY <3>1, <3>2 DEF Mapped
  <2>2. CASE j \notin StoredKeys
    BY <2>2, <1>2, <1>3 DEF Mapped
  <2>. QED  BY <2>1, <2>2
<1>5. CASE id[h] \notin DOMAIN rows
  <2>1. Standing' = Standing
    BY <1>4, <1>5 DEF Standing
  <2>. QED  BY <2>1, <1>2
<1>6. CASE id[h] \in DOMAIN rows
  <2>. DEFINE k == rows[id[h]].key
              outcome == row.status
  <2>1. pc[h] \in Owning
    BY DEF SettleProcessed, SettleFailed, Owning
  <2>2. k \in Keys /\ Standing[k] = "received"
    BY <1>6, <2>1 DEF GatewayInvariant, OwnRow, Mapped, Received
  <2>3. Standing'[k] = outcome
    <3>1. id[h] \in DOMAIN rows' /\ rows'[id[h]] = row
      BY <1>1, <1>6
    <3>. QED  BY <3>1, <1>1 DEF Mapped
  <2>4. Standing' = [Standing EXCEPT ![k] = outcome]
    BY <2>2, <2>3, <1>4 DEF Standing
  <2>5. Ledger!Settle(k, outcome)
    BY <2>2, <2>4, <1>2 DEF Ledger!Settle, Standing
  <2>. QED  BY <2>2, <2>5, <1>1
<1>. QED  BY <1>5, <1>6

(***************************************************************************)
(* A 204 acknowledges a delivery that has been accepted.                    *)
(***************************************************************************)
LEMMA AnswerAcknowledges ==
  ASSUME GatewayInvariant, Mapped, Mapped', NEW h \in Handlers,
         AcknowledgeNew(h) \/ AcknowledgeDuplicate(h)
  PROVE  Ledger!Acknowledge(key[h])
<1>. DEFINE k == key[h]
<1>1. /\ UNCHANGED <<rows, inserts>>
      /\ acked' = acked \cup {k}
      /\ pc[h] \in Owning \cup {AckDuplicate}
      /\ k \in Keys
  BY DEF AcknowledgeNew, AcknowledgeDuplicate, storeVars, Owning, GatewayInvariant, TypeOK,
         Idle, AckNew, AckDuplicate
<1>2. inserts[k] # 0
  BY <1>1 DEF GatewayInvariant, InsertedFirst, TypeOK
<1>3. Standing[k] # "unknown"
  BY <1>1, <1>2 DEF Mapped, Statuses, Received, Processed, Failed
<1>4. Standing' = Standing
  BY <1>1 DEF Standing, StoredKeys, IdOf
<1>. QED  BY <1>1, <1>3, <1>4 DEF Ledger!Acknowledge, Standing

(***************************************************************************)
(* Every other step changes nothing that the ledger sees.                   *)
(***************************************************************************)
LEMMA OtherStepsStutter ==
  ASSUME [Next]_vars,
         ~ \E h \in Handlers :
             \/ InsertRow(h) \/ PruneRows(h) \/ SettleProcessed(h) \/ SettleFailed(h)
             \/ AcknowledgeNew(h) \/ AcknowledgeDuplicate(h)
  PROVE  UNCHANGED <<Standing, acked>>
<1>1. UNCHANGED <<rows, inserts, acked>>
  <2>. USE DEF storeVars, observerVars
  <2>1. CASE \E h \in Handlers, k \in Keys : Deliver(h, k)
    BY <2>1 DEF Deliver
  <2>2. CASE \E h \in Handlers : Work(h)
    BY <2>2 DEF Work, FindDuplicate, CommitDuplicate, Summarize
  <2>3. CASE \E h \in Handlers : Fault(h)
    BY <2>3 DEF Fault, RecordRaises, PruneRaises, AbandonPrune, ProcessedRaises, FailedRaises
  <2>4. CASE Crash
    BY <2>4 DEF Crash
  <2>5. CASE UNCHANGED vars
    BY <2>5 DEF vars
  <2>. QED  BY <2>1, <2>2, <2>3, <2>4, <2>5 DEF Next
<1>. QED  BY <1>1 DEF Standing, StoredKeys, IdOf

(***************************************************************************)
(* The initial state maps to the initial ledger.                            *)
(***************************************************************************)
LEMMA InitialLedger == Init => Ledger!LedgerInit
  BY DEF Init, StoreInit, StoredKeys, Ledger!LedgerInit

(***************************************************************************)
(* Every step maps to a step of the ledger or changes nothing in it.        *)
(***************************************************************************)
LEMMA LedgerStep ==
  ASSUME GatewayInvariant, GatewayInvariant', Mapped, Mapped', [Next]_vars
  PROVE  [Ledger!LedgerNext]_(Ledger!ledgerVars)
<1>. USE DEF Ledger!LedgerNext, Ledger!ledgerVars
<1>1. CASE \E h \in Handlers : InsertRow(h)
  <2>1. PICK h \in Handlers : InsertRow(h)
    BY <1>1
  <2>2. key[h] \in Keys
    BY <2>1 DEF InsertRow, GatewayInvariant, TypeOK, Idle, Record
  <2>3. Ledger!Accept(key[h])
    BY <2>1, InsertAccepts
  <2>. QED  BY <2>2, <2>3 DEF Ledger!Accept
<1>2. CASE \E h \in Handlers : PruneRows(h)
  BY <1>2, PruneForgets DEF GatewayInvariant, Standing
<1>3. CASE \E h \in Handlers : SettleProcessed(h) \/ SettleFailed(h)
  BY <1>3, SettleSettles DEF Standing
<1>4. CASE \E h \in Handlers : AcknowledgeNew(h) \/ AcknowledgeDuplicate(h)
  BY <1>4, AnswerAcknowledges DEF AcknowledgeNew, AcknowledgeDuplicate, GatewayInvariant,
     TypeOK, Idle, AckNew, AckDuplicate
<1>5. CASE ~ \E h \in Handlers :
             \/ InsertRow(h) \/ PruneRows(h) \/ SettleProcessed(h) \/ SettleFailed(h)
             \/ AcknowledgeNew(h) \/ AcknowledgeDuplicate(h)
  BY <1>5, OtherStepsStutter DEF Standing
<1>. QED  BY <1>1, <1>2, <1>3, <1>4, <1>5

(***************************************************************************)
(* The handlers, the table, store errors and crashes together implement     *)
(* DeliveryLedger: accepted once while remembered, answered only after      *)
(* that, settled once, forgotten only behind Retention newer deliveries.    *)
(***************************************************************************)
THEOREM GatewayKeepsLedger == Spec => KeepsLedger
<1>1. GatewayInvariant => Mapped
  BY StandingOfKey DEF GatewayInvariant
<1>2. GatewayInvariant /\ GatewayInvariant' /\ Mapped /\ Mapped' /\ [Next]_vars =>
        [Ledger!LedgerNext]_(Ledger!ledgerVars)
  BY LedgerStep
<1>. QED  BY <1>1, <1>2, InitialLedger, GatewayIsInvariant, PTL
          DEF Spec, KeepsLedger, Ledger!LedgerSpec

-----------------------------------------------------------------------------
(***************************************************************************)
(* However often the machine loses power, wherever that cuts the commits,   *)
(* and although ids are given out again: a handler's row is its own, a      *)
(* delivery has one row, and its columns agree.                             *)
(*                                                                          *)
(* What the gateway keeps of its table alone survives a loss if it held of  *)
(* the table when that was written to the disk.  So LossInvariant has it    *)
(* twice.  What relates the table to the answers that were given (NeverLost *)
(* and what carries it) does not survive; nothing here rests on it.         *)
(***************************************************************************)

\* The part of GatewayInvariant that a loss of power leaves intact.
HandlersAgree ==
  /\ TypeOK /\ UniqueKeys /\ OwnersHaveIds /\ OneOwner
  /\ OwnRow /\ SettledOnce /\ ReceivedIsOwned

\* The table on the disk is one that record() and _process() may have left.
DiskIsSound ==
  /\ synced.lastId \in Nat
  /\ DOMAIN synced.rows \subseteq 1..synced.lastId
  /\ \A i, j \in DOMAIN synced.rows : synced.rows[i].key = synced.rows[j].key => i = j
  /\ \A i \in DOMAIN synced.rows :
       /\ synced.rows[i] \in Row
       /\ synced.rows[i].attempts = (IF synced.rows[i].status = Received THEN 0 ELSE 1)
       /\ synced.rows[i].processedAt <=> (synced.rows[i].status = Processed)
       /\ synced.rows[i].error <=> (synced.rows[i].status = Failed)

LossInvariant == HandlersAgree /\ DiskIsSound

(***************************************************************************)
(* The gateway's own steps, the disk, and a loss of power.                  *)
(***************************************************************************)
LEMMA GatewayStepKeepsAgreement ==
  ASSUME HandlersAgree, [Next]_vars
  PROVE  HandlersAgree'
<1>. USE DEF HandlersAgree
<1>1. TypeOK' /\ OwnersHaveIds' /\ UniqueKeys'
  BY TypePreserved, OwnersHaveIdsPreserved, UniqueKeysPreserved
<1>2. OneOwner' /\ OwnRow' /\ SettledOnce' /\ ReceivedIsOwned'
  BY OneOwnerPreserved, OwnRowPreserved, SettledOncePreserved, ReceivedIsOwnedPreserved
<1>. QED  BY <1>1, <1>2

LEMMA CommittedIsSound ==
  ASSUME HandlersAgree, synced' = Committed
  PROVE  DiskIsSound'
<1>1. synced'.rows = rows /\ synced'.lastId = lastId
  BY DEF Committed
<1>2. /\ lastId \in Nat /\ DOMAIN rows \subseteq 1..lastId
      /\ \A i \in DOMAIN rows : rows[i] \in Row
  BY DEF HandlersAgree, TypeOK, StoreTypeOK
<1>3. UniqueKeys /\ SettledOnce
  BY DEF HandlersAgree
<1>. QED  BY <1>1, <1>2, <1>3 DEF DiskIsSound, UniqueKeys, SettledOnce

LEMMA LossKeepsAgreement ==
  ASSUME LossInvariant, LosePower
  PROVE  HandlersAgree'
<1>. USE DEF LossInvariant, DiskIsSound, LosePower
<1>1. /\ rows' = synced.rows /\ lastId' = synced.lastId /\ locked' = FALSE
      /\ \A h \in Handlers : pc'[h] = Idle
  OBVIOUS
<1>2. StoreTypeOK'
  BY <1>1 DEF StoreTypeOK
<1>3. TypeOK'
  <2>1. /\ pc' \in [Handlers -> PCs] /\ key' \in [Handlers -> Keys \cup {NoKey}]
        /\ \A h \in Handlers : pc'[h] # Idle => key'[h] \in Keys
    BY DEF PCs
  <2>2. id' \in [Handlers -> 0..lastId'] /\ orphans' \subseteq 1..lastId'
    OBVIOUS
  <2>3. /\ sends' \in [Keys -> 0..MaxSends] /\ faults' \in 0..MaxFaults
        /\ crashes' \in 0..MaxCrashes
        /\ acked' \subseteq Keys /\ inserts' \in [Keys -> Nat]
    BY DEF HandlersAgree, TypeOK
  <2>. QED  BY <1>2, <2>1, <2>2, <2>3 DEF TypeOK
<1>4. \A h \in Handlers : pc'[h] \notin Owning
  BY <1>1 DEF Owning, Idle, Prune, AckNew, Process, Processing, Parking
<1>5. OwnersHaveIds' /\ OneOwner' /\ OwnRow'
  BY <1>4 DEF OwnersHaveIds, OneOwner, OwnRow
<1>6. UniqueKeys' /\ SettledOnce'
  BY <1>1 DEF UniqueKeys, SettledOnce
<1>7. ReceivedIsOwned'
  BY <1>1 DEF ReceivedIsOwned
<1>. QED  BY <1>3, <1>5, <1>6, <1>7 DEF HandlersAgree

(***************************************************************************)
(* LossInvariant holds in every state, for all values of the constants.     *)
(***************************************************************************)
LEMMA LossInitially == LossInit => LossInvariant
<1>. SUFFICES ASSUME LossInit PROVE LossInvariant
  OBVIOUS
<1>1. HandlersAgree
  BY InvariantInitially DEF LossInit, GatewayInvariant, HandlersAgree
<1>2. synced.rows = rows /\ synced.lastId = lastId /\ DOMAIN rows = {} /\ lastId = 0
  BY DEF LossInit, Committed, Init, StoreInit
<1>3. DiskIsSound
  BY <1>2 DEF DiskIsSound
<1>. QED  BY <1>1, <1>3 DEF LossInvariant

LEMMA LossInvariantPreserved ==
  ASSUME LossInvariant, [LossNext]_lossVars
  PROVE  LossInvariant'
<1>1. CASE Next /\ UNCHANGED <<synced, losses>>
  BY <1>1, GatewayStepKeepsAgreement DEF LossInvariant, DiskIsSound
<1>2. CASE Sync
  BY <1>2, GatewayStepKeepsAgreement, CommittedIsSound DEF LossInvariant, Sync
<1>3. CASE LosePower
  BY <1>3, LossKeepsAgreement DEF LossInvariant, DiskIsSound, LosePower
<1>4. CASE UNCHANGED lossVars
  BY <1>4, GatewayStepKeepsAgreement DEF LossInvariant, DiskIsSound, lossVars, vars,
     storeVars, handlerVars, observerVars
<1>. QED  BY <1>1, <1>2, <1>3, <1>4 DEF LossNext

THEOREM LossIsInvariant == LossSpec => []LossInvariant
<1>1. LossInvariant /\ [LossNext]_lossVars => LossInvariant'
  BY LossInvariantPreserved
<1>. QED  BY <1>1, LossInitially, PTL DEF LossSpec

(***************************************************************************)
(* A row that a loss of power sets back is as consistent as it was then:    *)
(* attempts, error and processed_at fall back with the status.              *)
(***************************************************************************)
THEOREM SettledRowsStayConsistent == LossSpec => []SettledOnceAfterLoss
<1>1. LossInvariant => SettledOnceAfterLoss
  BY DEF LossInvariant, HandlersAgree, SettledOnceAfterLoss
<1>. QED  BY <1>1, LossIsInvariant, PTL

=============================================================================
