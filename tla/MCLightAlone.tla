----------------------------- MODULE MCLightAlone -----------------------------
(* LightAlone for TLC: one light, one client, the nodes as model values.   *)
EXTENDS LightAlone

CONSTANTS L1, C1, h1, h2, h3, h4

MCLight == {L1}
MCClient == {C1}
MCNode == {L1, C1}
MCSubscribers == [l \in MCLight |-> MCClient]
MCHandle == {h1, h2, h3, h4}
=============================================================================
