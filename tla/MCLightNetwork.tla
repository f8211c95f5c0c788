---------------------------- MODULE MCLightNetwork ----------------------------
(* LightNetwork for TLC.  The cfg names the lights of the home; they are   *)
(* the device names of the sources.                                        *)
EXTENDS LightNetwork

CONSTANTS Sw, Gw, Light1, h1, h2, h3, h4

MCHandle == {h1, h2, h3, h4}

MCButton == [l \in Target |-> IF l \in {Light3, Light4} THEN "button3_4" ELSE "button1"]

MCNode == Target \cup {Sw, Gw}

(* The provisioner lets every light publish to the gateway, and those of   *)
(* the group to the switch too.                                            *)
MCSubscribers == [l \in Light |-> IF l \in Group THEN {Sw, Gw} ELSE {Gw}]

MCPair == {Light3, Light4}
MCSingle == {Light1}
MCNobody == {}

(* Proper commands to Light1 or the pair; and those without a usable       *)
(* method, or without usable params.                                       *)
MCProper == [addr : {IF Light1 \in Target THEN Light1 ELSE Light3}, val : OnOff]
(* The command that undoes the first press of the switch.                  *)
MCUndo == {[addr |-> Light3, val |-> 0]}
MCCommand == MCProper \cup {[addr |-> None, val |-> 1], [addr |-> Light1, val |-> None]}

(* Two cases of the home are looked at in one run: what people, the power  *)
(* and the air do belongs to one of them.  The tasks are held back in      *)
(* neither, so that FairSpec's fairness is that of the two together.       *)

(* Both command the lights, or the switch alone and with trouble.          *)
GroupCase == commands = 0 \/ (lost = 0 /\ refusals = 0 /\ outages = 0)
GroupSpec == Init /\ [][Next /\ GroupCase']_vars

(* The power fails, calls fail and the switch is pressed, around one       *)
(* proper command; or the gateway has it all: two commands of any kind, a  *)
(* GET and a refused send.                                                 *)
Proper == cmd \in {None} \cup MCProper
LonelyCase == commands <= 1 /\ gets = 0 /\ gwRefusals = 0 /\ Proper
GatewayCase == crashes = 0 /\ faults = 0 /\ taps = 0
RestSpec == Init /\ [][Next /\ (LonelyCase' \/ GatewayCase')]_vars /\ Fairness
=============================================================================
