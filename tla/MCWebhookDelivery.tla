-------------------------- MODULE MCWebhookDelivery --------------------------
(* Instances of WebhookDelivery for TLC. *)
EXTENDS WebhookDelivery

CONSTANTS h1, h2

RankHooks == [h \in Hooks |-> IF h = h1 THEN 1 ELSE 2]
UpToTwoAttempts == [h \in Hooks |-> IF h = h1 THEN 2 ELSE 0]
AllInterested == [e \in 1 .. MaxEvents |-> Hooks]
Delays == <<0, 1>>
=============================================================================
