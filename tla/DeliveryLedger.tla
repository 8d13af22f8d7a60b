--------------------------- MODULE DeliveryLedger ---------------------------
(***************************************************************************)
(* What the webhook half of the gateway promises about deliveries, without *)
(* rows, ids, locks, handlers or threads.  A delivery, named by its dedupe *)
(* key, is accepted at most once while it is remembered; it is answered    *)
(* only after it was accepted; it is settled at most once, as processed or *)
(* as failed; and it is forgotten only while Retention other deliveries    *)
(* stay remembered.  WebhookGateway implements this specification.         *)
(***************************************************************************)
EXTENDS Naturals, FiniteSets

CONSTANTS Keys, Retention

VARIABLES standing,    \* where each delivery stands
          acked        \* the deliveries answered with 204

ledgerVars == <<standing, acked>>

Standings == {"unknown", "received", "processed", "failed", "forgotten"}

Remembered == {k \in Keys : standing[k] \notin {"unknown", "forgotten"}}

LedgerTypeOK ==
  /\ standing \in [Keys -> Standings]
  /\ acked \subseteq Keys

LedgerInit ==
  /\ standing = [k \in Keys |-> "unknown"]
  /\ acked = {}

Accept(k) ==
  /\ k \notin Remembered
  /\ standing' = [standing EXCEPT ![k] = "received"]
  /\ UNCHANGED acked

Acknowledge(k) ==
  /\ standing[k] # "unknown"
  /\ acked' = acked \cup {k}
  /\ UNCHANGED standing

Settle(k, outcome) ==
  /\ standing[k] = "received"
  /\ standing' = [standing EXCEPT ![k] = outcome]
  /\ UNCHANGED acked

Forget(S) ==
  /\ S \subseteq Remembered
  /\ Cardinality(Remembered \ S) = Retention
  /\ standing' = [k \in Keys |-> IF k \in S THEN "forgotten" ELSE standing[k]]
  /\ UNCHANGED acked

LedgerNext ==
  \/ \E k \in Keys : Accept(k) \/ Acknowledge(k)
  \/ \E k \in Keys, outcome \in {"processed", "failed"} : Settle(k, outcome)
  \/ \E S \in SUBSET Keys : Forget(S)

LedgerSpec == LedgerInit /\ [][LedgerNext]_ledgerVars

=============================================================================
