-------------------------- MODULE WebhookPowerLoss --------------------------
(***************************************************************************)
(* WebhookGateway on a machine that can lose power.  EventStore opens its   *)
(* file with journal_mode=WAL and synchronous=NORMAL: a commit appends to   *)
(* the log without an fsync, and only a checkpoint forces the log to the    *)
(* disk.  A dying process loses no commit; a dying machine loses those      *)
(* after the last one that happened to reach the disk, never one before it. *)
(*                                                                          *)
(* "synced" is the table as it is on the disk.  Sync may happen after any   *)
(* commit (a checkpoint, or the kernel writing back), so a loss of power    *)
(* cuts the history of commits at an arbitrary place.                       *)
(***************************************************************************)
EXTENDS WebhookGateway

CONSTANT MaxLosses       \* how often the power fails

VARIABLES synced, losses

lossVars == <<rows, lastId, locked, pc, key, id, sends, faults, crashes,
              acked, inserts, orphans, synced, losses>>

Committed == [rows |-> rows, lastId |-> lastId]

LossInit ==
  /\ Init
  /\ synced = Committed
  /\ losses = 0

Sync ==
  /\ synced # Committed
  /\ synced' = Committed
  /\ UNCHANGED <<vars, losses>>

\* Everything volatile is gone, and the table is what had reached the disk.
\* A row that is 'received' there has no handler any more.
LosePower ==
  /\ losses < MaxLosses
  /\ losses' = losses + 1
  /\ rows' = synced.rows
  /\ lastId' = synced.lastId
  /\ locked' = FALSE
  /\ pc' = [h \in Handlers |-> Idle]
  /\ key' = [h \in Handlers |-> NoKey]
  /\ id' = [h \in Handlers |-> 0]
  /\ orphans' = {i \in DOMAIN synced.rows : synced.rows[i].status = Received}
  /\ UNCHANGED <<sends, faults, crashes, acked, inserts, synced>>

LossNext ==
  \/ Next /\ UNCHANGED <<synced, losses>>
  \/ Sync
  \/ LosePower

LossSpec == LossInit /\ [][LossNext]_lossVars

\* As in FairSpec, a handler that can go on does.  Nothing obliges the kernel to
\* write to the disk, or the power to fail.
FairLossSpec == LossSpec /\ \A h \in Handlers : WF_lossVars(Work(h) /\ UNCHANGED <<synced, losses>>)

-----------------------------------------------------------------------------
\* A settled row that falls back to 'received', because the disk missed the
\* UPDATE, is consistent: attempts and error fall back with the status.
SettledOnceAfterLoss == UniqueKeys /\ SettledOnce

\* What the documentation says and the code does not do.  webhook.py calls the
\* store "durable" and acknowledges after it: an answered delivery that pruning
\* did not remove is there after any failure.  A loss of power takes it away
\* when the disk had not seen the commit.
AckedIsDurable == NeverLost

=============================================================================
