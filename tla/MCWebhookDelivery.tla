--------------------------- MODULE MCWebhookDelivery ---------------------------
(* Constants of the TLC runs of WebhookDelivery. *)
EXTENDS WebhookDelivery, TLC

CONSTANTS w1

(* One configuration that uses all the attempts there are. *)
OneConfiguration == w1 :> AttemptLimit
=============================================================================
