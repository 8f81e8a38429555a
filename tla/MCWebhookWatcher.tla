---------------------------- MODULE MCWebhookWatcher ----------------------------
(* Small instances of WebhookWatcher for TLC: two subscriptions that some   *)
(* updates cross together and others one at a time, or a single one above.  *)
EXTENDS WebhookWatcher, TLC

CONSTANTS i1, i2

MCThreshold == (i1 :> 2) @@ (i2 :> 3)
MCDirection == (i1 :> "below") @@ (i2 :> "below")
MCThresholdOne == i1 :> 1
MCDirectionOne == i1 :> "above"

=============================================================================
