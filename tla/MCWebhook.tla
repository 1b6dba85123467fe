------------------------------ MODULE MCWebhook ------------------------------
(* Webhook on one company's queue for TLC.                                   *)
EXTENDS Webhook

CONSTANTS acme, d1, d2, d3, w1, m1, m2, m3

Speaks == [k \in Calls |-> acme]
Retried == {<<m1, m2, m3>>, <<m1>>}
Single == {<<m1>>}
=============================================================================
