------------------------- MODULE MCRealtimeDelivery -------------------------
(* Subscriptions with one member, and with two members of one source: a    *)
(* request may name a symbol twice.                                        *)
EXTENDS RealtimeDelivery

CONSTANT k1

MCRequests == {<<k1>>, <<k1, k1>>}

============================================================================
