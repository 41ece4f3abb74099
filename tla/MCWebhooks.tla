----------------------------- MODULE MCWebhooks -----------------------------
(* Webhook deliveries on a small instance.                                 *)
EXTENDS Webhooks
=============================================================================
