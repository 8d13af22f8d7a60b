-------------------------- MODULE MCWebhookGateway --------------------------
(***************************************************************************)
(* Instances of WebhookGateway for TLC.                                     *)
(***************************************************************************)
EXTENDS WebhookGateway, TLC

CONSTANTS k1, k2, k3, h1, h2

=============================================================================
