--------------------------- MODULE MCWebhookInbox ---------------------------
(***************************************************************************)
(* Bounds for WebhookInbox: one worker with one attempt more than the      *)
(* other, a delay longer than a tick, and a delivery without a handler.    *)
(***************************************************************************)
EXTENDS WebhookInbox

CONSTANTS d1, d2, d3, w1, w2

MCMaxAttempts == [w \in Workers |-> IF w = w1 THEN 3 ELSE 2]
MCRetryDelay  == [w \in Workers |-> IF w = w1 THEN 1 ELSE 0]
=============================================================================
