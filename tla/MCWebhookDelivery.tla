------------------------- MODULE MCWebhookDelivery -------------------------
(* Small instances of WebhookDelivery.                                      *)
EXTENDS WebhookDelivery, TLC

CONSTANTS r1, r2, d1, d2

OneEvent == d1 :> "event"
BatchAndPing == (d1 :> "batch") @@ (d2 :> "ping")
EventAndGas == (d1 :> "event") @@ (d2 :> "gas")
OneGas == d1 :> "gas"
Symmetry == Permutations(Replicas)
=============================================================================
