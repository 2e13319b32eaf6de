----------------------------- MODULE MCWebhookCA -----------------------------
(* Small instances of WebhookCA for TLC. *)
EXTENDS WebhookCA, TLC

CONSTANTS p, q
=============================================================================
