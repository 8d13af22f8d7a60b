------------------------- MODULE MCWebhookPowerLoss -------------------------
(***************************************************************************)
(* Instances of WebhookPowerLoss for TLC.                                   *)
(***************************************************************************)
EXTENDS WebhookPowerLoss, TLC

CONSTANTS k1, k2, h1, h2

=============================================================================
