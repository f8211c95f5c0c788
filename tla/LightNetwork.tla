----------------------------- MODULE LightNetwork -----------------------------
(***************************************************************************)
(* The whole of src/Light-SW: lights, the wall switch and the gateway over *)
(* one mesh.                                                               *)
(***************************************************************************)
EXTENDS LightNode, SwitchNode, GatewayNode

ASSUME NetworkAssumption ==
  /\ Light \subseteq Target
  /\ Group \subseteq Light
  /\ Switch \notin Light
  /\ Gateway \notin Light
  /\ Switch # Gateway

(* How the provisioner has wired the home: every light publishes to the    *)
(* gateway, and the lights of the group 0xC111 (Switch main.c:184), and no *)
(* others, to the switch.                                                  *)
ASSUME WiringAssumption == \A l \in Light :
  /\ Gateway \in Subscribers[l]
  /\ Switch \in Subscribers[l] <=> l \in Group

vars == <<netVars, lightVars, switchVars, gatewayVars>>

TypeOK == N_TypeOK /\ L_TypeOK /\ S_TypeOK /\ G_TypeOK

Init == N_Init /\ L_Init /\ S_Init /\ G_Init

LightsMove == \E l \in Light : L_Next(l) /\ UNCHANGED <<switchVars, gatewayVars>>

SwitchMoves == S_Next /\ UNCHANGED <<lightVars, gatewayVars>>

GatewayMoves == G_Next /\ UNCHANGED <<lightVars, switchVars>>

AirLoses == /\ \E c \in Channel : Lose(c[1], c[2])
            /\ UNCHANGED <<lightVars, switchVars, gatewayVars>>

Next == LightsMove \/ SwitchMoves \/ GatewayMoves \/ AirLoses

Spec == Init /\ [][Next]_vars

(* FreeRTOS runs every task that can run, and a callback that waits for    *)
(* the MQTT client's lock gets it once the MQTT task is out of its         *)
(* callback.  Nothing is assumed of people, the broker, the air or power.  *)
Fairness ==
  /\ \A l \in Light :
       /\ WF_vars(AppMain(l) /\ UNCHANGED <<switchVars, gatewayVars>>)
       /\ WF_vars(Callback(l) /\ UNCHANGED <<switchVars, gatewayVars>>)
  /\ WF_vars(SwitchHears /\ UNCHANGED <<lightVars, gatewayVars>>)
  /\ WF_vars((ParseCommand \/ WipeCommand \/ SendCommand \/ SendPair)
             /\ UNCHANGED <<lightVars, switchVars>>)
  /\ WF_vars(GatewayCallback /\ UNCHANGED <<lightVars, switchVars>>)

FairSpec == Spec /\ Fairness

-----------------------------------------------------------------------------
(* Nothing is on its way and nobody is inside a handler.                   *)
Quiet == /\ Silent
         /\ \A l \in Light : Settled(l)
         /\ gpc = "idle"
         /\ cbpc = "idle"

(* Nothing has gone missing on the way.                                    *)
NothingLost == lost = 0 /\ crashes = 0

(* No light's last SET ran into its restore, and no NVS call failed.       *)
NoTrouble == \A l \in Light : trouble[l] = {}

-----------------------------------------------------------------------------
(* A SET the gateway puts on air is the one the broker asked for: to the   *)
(* light it named (or to the twin of Light3) and with the value it gave,   *)
(* as long as no STATUS came in while the command was in progress.         *)
(* (main.c:573-604; value is shared with line 295.)                        *)
LastSent(l) == net'[<<Gateway, l>>][Len(net'[<<Gateway, l>>])]

SetSentByGateway(l) == /\ Len(net'[<<Gateway, l>>]) > Len(net[<<Gateway, l>>])
                       /\ LastSent(l).op = SetOpcode

AirMatchesCommand == [][\A l \in Light :
  SetSentByGateway(l) /\ cmd # None /\ ~overlapped /\ gpc \in {"send", "pair"} =>
    /\ cmd.addr # None => l = IF gpc = "pair" THEN Light4 ELSE cmd.addr
    /\ cmd.val # None => LastSent(l).onoff = cmd.val]_vars

(* At rest, with no message lost, the switch believes what one of the      *)
(* lights of its group shows, so that the next press toggles that light:   *)
(* the STATUS of the last SET always overtakes the toggle in state_button, *)
(* whoever sent that SET.  (Switch main.c:250-257, board.c:18-26.)         *)
SwitchTracksGroup ==
  Quiet /\ NothingLost /\ NoTrouble /\ sure /\ Group # {} =>
    \E l \in Group : state_button = state_led[l]

(* At rest, with no message lost, two lights of the group that took their  *)
(* last SET from the switch alone agree, with each other and with it.      *)
GroupAgrees ==
  Quiet /\ NothingLost /\ NoTrouble /\ sure /\ commands = 0 /\ refusals = 0 /\ taps > 0 =>
    \A l \in Group : state_led[l] = state_button

(* The dashboard shows, under the name of a button, what a light of that   *)
(* button reported last, in a home with one button: at rest, with no       *)
(* message lost, no report garbled and no late answer to a GET taken for a *)
(* report.  (main.c:291-349: value_pre lets a report pass only if it       *)
(* differs from the last one.)                                             *)
OneButton == \A b, c \in Name : b = c

DashboardTracks ==
  Quiet /\ NothingLost /\ NoTrouble /\ mishaps = {} /\ OneButton
  /\ (\E l \in Light : promised[l] # NoValue) =>
    \E l \in Light : promised[l] # NoValue /\ dash[Button[l]] = promised[l]

(* Once people, the broker and the power leave it alone the home comes to  *)
(* rest: no task waits for ever for a lock, a handle, a report or another  *)
(* task, whatever NVS call failed.  A light whose Bluetooth or mesh did    *)
(* not start hears nothing.                                                *)
AtRest ==
  /\ \A c \in Channel : net[c] = << >> \/ (c[2] \in Light /\ ~meshUp[c[2]])
  /\ \A l \in Light : mpc[l] \in {"done", "halted"} /\ bpc[l] = "idle"
  /\ gpc = "idle"
  /\ cbpc = "idle"

ComesToRest == <>[]AtRest

(* A command the gateway has begun always ends, and a report that waits    *)
(* for the MQTT client's lock always goes out.                             *)
CommandEnds == gpc # "idle" ~> gpc = "idle"
ReportGoesOut == cbpc = "publish" ~> cbpc = "idle"

-----------------------------------------------------------------------------
(* GateWay/main/main.c:353 says of a SET that gets no response that it is  *)
(* sent again: a lost message leads to more SETs than commands.            *)
LostIsResent == lost = 1 ~> tid > commands
-----------------------------------------------------------------------------
(* The inductive invariant behind SwitchTracksGroup, GroupAgrees and       *)
(* DashboardTracks: where the news of a light is until it is heard.        *)

(* Who may have put a message on a channel.                                *)
MaySend(c, m) ==
  \/ m.op = "STATUS" /\ c[1] \in Light /\ c[2] \in Subscribers[c[1]]
  \/ m.op = "REPLY" /\ c[1] \in Light
  \/ m.op = "SET_UNACK" /\ c[1] = Switch
  \/ m.op = "SET_UNACK" /\ c[1] = Gateway /\ commands > 0
  \/ m.op = "GET" /\ c[1] = Gateway

OriginInv == /\ \A c \in Channel : \A i \in DOMAIN net[c] : MaySend(c, net[c][i])
             /\ gpc # "idle" => commands > 0

StatusWaits(q) == \E i \in DOMAIN q : q[i].op = "STATUS"

(* If a STATUS is on the channel, the last one says v.                     *)
LastStatusIs(q, v) == \A i \in DOMAIN q :
  q[i].op = "STATUS" /\ (\A j \in DOMAIN q : q[j].op = "STATUS" => j <= i) => q[i].onoff = v

(* The light handles no SET and nothing befell the last one.               *)
Undisturbed(l) == bpc[l] = "idle" /\ Clean(l)

(* While no power was lost, a promise is what state_led holds, and the     *)
(* last report on the way to any subscriber.                               *)
KeepsPromise(l) ==
  /\ mpc[l] = "init" => promised[l] = NoValue
  /\ promised[l] # NoValue => state_led[l] = promised[l]
  /\ Undisturbed(l) => \A d \in Subscribers[l] : LastStatusIs(net[<<l, d>>], promised[l])

PromisedInv == crashes = 0 => \A l \in Light : KeepsPromise(l)

(* Light l has, or will have, something to say that d has not heard yet.   *)
Unheard(l, d) == ~Undisturbed(l) \/ StatusWaits(net[<<l, d>>])

(* The switch believes what a light of the group promised last, or there   *)
(* is a light it has still to hear of, or one that has still to hear of it. *)
SwitchFollows(l) == \/ net[<<Switch, l>>] # << >>
                    \/ Unheard(l, Switch)
                    \/ promised[l] = state_button

SwitchInv == NothingLost /\ sure /\ Group # {} => \E l \in Group : SwitchFollows(l)

(* The last press is on its way to a light of the group, or is handled by  *)
(* it, or is what it promised.                                             *)
PressReaches(l, v) == LET q == net[<<Switch, l>>] IN
  /\ q # << >> => q[Len(q)].onoff = v
  /\ q = << >> /\ Clean(l) => v = IF bpc[l] = "idle" THEN promised[l] ELSE state_led[l]

PressInv == NothingLost /\ taps > 0 /\ refusals = 0 /\ commands = 0 =>
  \E v \in OnOff : \A l \in Group : PressReaches(l, v)

(* The gateway last reported what a light promised last, or has still to   *)
(* hear of one.                                                            *)
GatewayFollows(l) == Unheard(l, Gateway) \/ promised[l] = value_pre

GatewayInv == NothingLost /\ "late" \notin mishaps /\ (\E l \in Light : promised[l] # NoValue) =>
  \E l \in Light : GatewayFollows(l)

(* What was last reported is on the dashboard, or in string_json.          *)
DashInv == "garbled" \notin mishaps /\ OneButton =>
  /\ cbpc = "idle" => \A b \in Name : dash[b] = value_pre
  /\ cbpc = "publish" /\ string_json.text = "report" => string_json.onoff = value_pre

(* All of it, with what the gateway has made of a command (CommandInv).    *)
HomeInv == /\ CommandInv
           /\ OriginInv
           /\ PromisedInv
           /\ SwitchInv
           /\ PressInv
           /\ GatewayInv
           /\ DashInv
=============================================================================
