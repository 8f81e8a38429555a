----------------------------- MODULE MCWebhookStore -----------------------------
(* A small instance of WebhookStore for TLC: two owners, two requests and a *)
(* revocation.                                                               *)
EXTENDS WebhookStore, TLC
=============================================================================
