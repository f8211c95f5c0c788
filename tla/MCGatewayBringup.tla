--------------------------- MODULE MCGatewayBringup ---------------------------
(* GatewayBringup for TLC: two networks, and a phone that may mix them up. *)
EXTENDS GatewayBringup

CONSTANTS w1, w2

MCNet == {w1, w2}
MCOffer == {Pair(w1, w1), Pair(w2, w2), Pair(w1, w2)}
=============================================================================
