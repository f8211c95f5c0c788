------------------------- MODULE LightNetwork_proofs -------------------------
(***************************************************************************)
(* The theorems about the whole of src/Light-SW: any number of lights, any *)
(* commands, presses, losses, failures and power cycles.                   *)
(***************************************************************************)
EXTENDS LightNetwork, LightNode_proofs

Assumptions == /\ MaxLossAssumption
               /\ LightAssumption
               /\ SwitchAssumption
               /\ GatewayAssumption
               /\ NetworkAssumption

-----------------------------------------------------------------------------
(* Types of the switch and of the gateway, one action at a time.           *)

(* The switch keeps its types and the network's.                           *)
LEMMA SwitchType ==
  ASSUME SwitchAssumption, N_TypeOK, S_TypeOK, S_Next
  PROVE  N_TypeOK' /\ S_TypeOK'
<1> USE DEF SwitchAssumption
<1>1. CASE Tap
  <2>1. state_button' \in OnOff BY <1>1 DEF Tap, S_TypeOK, OnOff
  <2>2. [op |-> "SET_UNACK", onoff |-> state_button'] \in Message BY <2>1 DEF Message
  <2>3. N_TypeOK'
    <3>1. CASE UNCHANGED netVars BY <3>1, NetStutter
    <3>2. CASE Send(Switch, Group, [op |-> "SET_UNACK", onoff |-> state_button'])
      BY <3>2, <2>2, SendType
    <3>3. \/ Send(Switch, Group, [op |-> "SET_UNACK", onoff |-> state_button'])
          \/ UNCHANGED netVars
      BY <1>1 DEF Tap
    <3>4. QED BY <3>1, <3>2, <3>3
  <2>4. sure' \in BOOLEAN BY <1>1 DEF Tap
  <2>5. taps' \in 0..MaxTap /\ refusals' \in 0..MaxRefusal
    BY <1>1 DEF Tap, S_TypeOK
  <2>6. QED BY <1>1, <2>1, <2>3, <2>4, <2>5 DEF Tap, S_TypeOK
<1>2. ASSUME NEW l \in Node, SwitchRecvStatus(l) PROVE N_TypeOK' /\ S_TypeOK'
  <2>1. net[<<l, Switch>>] # << >> BY <1>2 DEF SwitchRecvStatus, Arrives
  <2>2. Head(net[<<l, Switch>>]) \in Message BY <2>1, HeadIsMessage
  <2>3. N_TypeOK' BY <1>2, <2>1, TakeType DEF SwitchRecvStatus
  <2>4. Head(net[<<l, Switch>>]).onoff \in OnOff BY <2>2 DEF Message
  <2>5. QED BY <1>2, <2>3, <2>4 DEF SwitchRecvStatus, S_TypeOK
<1>3. CASE SwitchPowerCycle
  <2>1. Deafen(Switch) BY <1>3 DEF SwitchPowerCycle
  <2>2. N_TypeOK' BY <2>1, DeafenType
  <2>3. state_button' \in OnOff /\ outages' \in 0..MaxOutage
    BY <1>3 DEF SwitchPowerCycle, S_TypeOK, OnOff
  <2>4. QED BY <1>3, <2>2, <2>3 DEF SwitchPowerCycle, S_TypeOK
<1>4. QED BY <1>1, <1>2, <1>3 DEF S_Next, SwitchHears

(* Sending a SET keeps the types of what SendSet changes.                  *)
LEMMA SendSetType ==
  ASSUME GatewayAssumption, N_TypeOK, G_TypeOK, NEW to \in Target \cup {None}, SendSet(to)
  PROVE  /\ N_TypeOK'
         /\ tid' \in 0..(TidModulus - 1) /\ nvs_tid' \in 0..(TidModulus - 1)
         /\ pendingOp' \in [Target -> {"none", "GET", "SET"}]
         /\ gwRefusals' \in 0..MaxGatewayRefusal
<1>1. tid' \in 0..(TidModulus - 1)
  BY DEF SendSet, GatewayAssumption, G_TypeOK
<1>2. [op |-> SetOpcode, onoff |-> value] \in Message
  BY DEF Message, SetOpcode, G_TypeOK
<1>3. N_TypeOK' BY <1>2, SendType, NetStutter DEF SendSet
<1>4. pendingOp' \in [Target -> {"none", "GET", "SET"}]
  BY DEF SendSet, Await, SetOpcode, G_TypeOK
<1>5. gwRefusals' \in 0..MaxGatewayRefusal
  BY DEF SendSet, GatewayAssumption, G_TypeOK
<1>6. QED BY <1>1, <1>3, <1>4, <1>5 DEF SendSet, G_TypeOK

(* A STATUS for a light keeps the types of what the callback changes.      *)
LEMMA PublishEvtType ==
  ASSUME GatewayAssumption, G_TypeOK, NEW l \in Target, NEW v \in OnOff,
         ClientPublishEvt(l, v),
         pendingOp' \in [Target -> {"none", "GET", "SET"}],
         mishaps' \subseteq {"garbled", "late"}
  PROVE  G_TypeOK'
<1>1. string_json' \in Text
  <2>1. ReportText(Button[l], v) \in Text BY DEF Text, Name
  <2>2. QED BY <2>1 DEF ClientPublishEvt, G_TypeOK
<1>2. QED BY <1>1 DEF ClientPublishEvt, G_TypeOK

(* The MQTT task keeps the types: what it parses is a field of a command.  *)
LEMMA MqttTaskType ==
  ASSUME GatewayAssumption, N_TypeOK, G_TypeOK, CommandInv, MqttTask
  PROVE  N_TypeOK' /\ G_TypeOK'
<1>1. ASSUME NEW c \in Command, CommandArrives(c) PROVE N_TypeOK' /\ G_TypeOK'
  <2>1. CommandText(c) \in Text BY DEF Text
  <2>2. commands' \in 0..MaxCommand BY <1>1 DEF CommandArrives, G_TypeOK, GatewayAssumption
  <2>3. QED BY <1>1, <2>1, <2>2, NetStutter DEF CommandArrives, MqttGoes, G_TypeOK
<1>2. CASE ParseCommand
  <2>1. string_json.text = "command" =>
          string_json.cmd.addr \in Target \cup {None} /\ string_json.cmd.val \in OnOff \cup {None}
    <3>1. SUFFICES ASSUME string_json.text = "command"
                   PROVE  string_json.cmd \in Commands
      BY DEF Commands
    <3>2. PICK c \in Command : string_json = CommandText(c)
      BY <3>1 DEF G_TypeOK, Text, Blank, CommandText, ReportText
    <3>3. QED BY <3>2 DEF CommandText, GatewayAssumption
  <2>2. address_des' \in Target \cup {None} /\ value' \in OnOff
    BY <1>2, <2>1 DEF ParseCommand, G_TypeOK
  <2>3. QED BY <1>2, <2>2, NetStutter DEF ParseCommand, MqttGoes, G_TypeOK, gatewayHist
<1>3. CASE WipeCommand
  <2>1. Blank \in Text BY DEF Text
  <2>2. QED BY <1>3, <2>1, NetStutter DEF WipeCommand, MqttGoes, G_TypeOK, gatewayHist
<1>4. CASE SendCommand
  <2>1. SendSet(address_des) /\ address_des \in Target \cup {None}
    BY <1>4 DEF SendCommand, G_TypeOK
  <2>2. gpc' \in {"idle", "pair"} /\ cmd' \in Command \cup {None}
    BY <1>4 DEF SendCommand, CommandOver, G_TypeOK
  <2>3. QED BY <1>4, <2>1, <2>2, SendSetType DEF SendCommand, G_TypeOK
<1>5. CASE SendPair
  <2>1. address_des = Light3 BY <1>5 DEF SendPair, CommandInv
  <2>2. Light4 \in Target BY <2>1 DEF G_TypeOK, GatewayAssumption
  <2>3. SendSet(Light4) BY <1>5 DEF SendPair
  <2>4. QED BY <1>5, <2>2, <2>3, SendSetType DEF SendPair, CommandOver, G_TypeOK
<1>6. QED BY <1>1, <1>2, <1>3, <1>4, <1>5 DEF MqttTask

(* The client callback keeps the types.                                    *)
LEMMA GatewayCallbackType ==
  ASSUME GatewayAssumption, N_TypeOK, G_TypeOK, GatewayCallback
  PROVE  N_TypeOK' /\ G_TypeOK'
<1>0. Gateway \in Node /\ Target \subseteq Node BY DEF GatewayAssumption
<1>1. ASSUME NEW l \in Target, GatewayRecvStatus(l) PROVE N_TypeOK' /\ G_TypeOK'
  <2>1. net[<<l, Gateway>>] # << >> BY <1>1 DEF GatewayRecvStatus, Arrives
  <2>2. Head(net[<<l, Gateway>>]).onoff \in OnOff
    BY <1>0, <2>1, HeadIsMessage DEF Message
  <2>3. N_TypeOK' BY <1>0, <1>1, <2>1, TakeType DEF GatewayRecvStatus
  <2>4. G_TypeOK'
    BY <1>1, <2>2, PublishEvtType DEF GatewayRecvStatus, G_TypeOK
  <2>5. QED BY <2>3, <2>4
<1>2. ASSUME NEW l \in Target, GatewayRecvReply(l) PROVE N_TypeOK' /\ G_TypeOK'
  <2>1. net[<<l, Gateway>>] # << >> BY <1>2 DEF GatewayRecvReply, Arrives
  <2>2. Head(net[<<l, Gateway>>]).onoff \in OnOff
    BY <1>0, <2>1, HeadIsMessage DEF Message
  <2>3. N_TypeOK' BY <1>0, <1>2, <2>1, TakeType DEF GatewayRecvReply
  <2>4. pendingOp' \in [Target -> {"none", "GET", "SET"}]
    BY <1>2 DEF GatewayRecvReply, G_TypeOK
  <2>5. CASE pendingOp[l] = "GET"
    BY <1>2, <2>3, <2>4, <2>5 DEF GatewayRecvReply, G_TypeOK, gatewayHist
  <2>6. CASE pendingOp[l] # "GET"
    <3>1. ClientPublishEvt(l, Head(net[<<l, Gateway>>]).onoff)
      BY <1>2, <2>6 DEF GatewayRecvReply
    <3>2. mishaps' \subseteq {"garbled", "late"}
      BY <1>2, <2>6 DEF GatewayRecvReply, G_TypeOK
    <3>3. QED BY <2>2, <2>3, <2>4, <3>1, <3>2, PublishEvtType
  <2>7. QED BY <2>5, <2>6
<1>3. ASSUME NEW l \in Target, ClientTimeout(l) PROVE N_TypeOK' /\ G_TypeOK'
  <2>1. CASE pendingOp[l] = "SET"
    <3>1. SendSet(address_des) /\ address_des \in Target \cup {None}
      BY <1>3, <2>1 DEF ClientTimeout, G_TypeOK
    <3>2. QED BY <1>3, <3>1, SendSetType DEF ClientTimeout, G_TypeOK, gatewayHist
  <2>2. CASE pendingOp[l] # "SET"
    BY <1>3, <2>2, NetStutter DEF ClientTimeout, G_TypeOK, gatewayHist
  <2>3. QED BY <2>1, <2>2
<1>4. CASE PublishReport
  <2>1. Blank \in Text BY DEF Text
  <2>2. dash' \in [Name -> OnOff]
    <3>1. CASE string_json.text = "report"
      <4>1. PICK b \in Name, v \in OnOff : string_json = ReportText(b, v)
        BY <3>1 DEF G_TypeOK, Text, Blank, CommandText, ReportText
      <4>2. dash' = [dash EXCEPT ![b] = v]
        BY <1>4, <3>1, <4>1 DEF PublishReport, ReportText
      <4>3. QED BY <4>2 DEF G_TypeOK
    <3>2. CASE string_json.text # "report" BY <1>4, <3>2 DEF PublishReport, G_TypeOK
    <3>3. QED BY <3>1, <3>2
  <2>3. mishaps' \subseteq {"garbled", "late"} BY <1>4 DEF PublishReport, G_TypeOK
  <2>4. QED BY <1>4, <2>1, <2>2, <2>3, NetStutter DEF PublishReport, G_TypeOK
<1>5. QED BY <1>1, <1>2, <1>3, <1>4 DEF GatewayCallback

(* A GET keeps the types.                                                  *)
LEMMA GatewayTapType ==
  ASSUME GatewayAssumption, N_TypeOK, G_TypeOK, GatewayTap
  PROVE  N_TypeOK' /\ G_TypeOK'
<1>1. PICK l \in Target : Send(Gateway, {l}, [op |-> "GET", onoff |-> 0]) /\ Await(l, "GET")
  BY DEF GatewayTap
<1>2. [op |-> "GET", onoff |-> 0] \in Message BY DEF Message, OnOff
<1>3. N_TypeOK' BY <1>1, <1>2, SendType
<1>4. pendingOp' \in [Target -> {"none", "GET", "SET"}]
  BY <1>1 DEF Await, G_TypeOK
<1>5. gets' \in 0..MaxGet BY DEF GatewayTap, G_TypeOK, GatewayAssumption
<1>6. QED BY <1>3, <1>4, <1>5 DEF GatewayTap, G_TypeOK, gatewayHist

-----------------------------------------------------------------------------
(* The command in progress.                                                *)

(* A step of the gateway keeps what the command has become: the MQTT task  *)
(* moves it on, and a callback that overwrites value or string_json sets   *)
(* overlapped.                                                             *)
LEMMA CommandStep ==
  ASSUME GatewayAssumption, G_TypeOK, CommandInv, G_Next
  PROVE  CommandInv'
<1> USE DEF CommandInv
<1>1. ASSUME NEW c \in Command, CommandArrives(c) PROVE CommandInv'
  BY <1>1 DEF CommandArrives, MqttGoes, GatewayAssumption
<1>2. CASE ParseCommand
  <2>1. /\ gpc = "parse" /\ gpc' = "wipe"
        /\ UNCHANGED <<cmd, overlapped>>
    BY <1>2 DEF ParseCommand, MqttGoes, gatewayHist
  <2>2. CASE string_json = CommandText(cmd)
    <3>1. string_json.text = "command" /\ string_json.cmd = cmd BY <2>2 DEF CommandText
    <3>2. QED BY <1>2, <2>1, <3>1 DEF ParseCommand
  <2>3. CASE string_json # CommandText(cmd)
    BY <1>2, <2>1, <2>3 DEF ParseCommand
  <2>4. QED BY <2>2, <2>3
<1>3. CASE WipeCommand BY <1>3 DEF WipeCommand, MqttGoes, gatewayHist
<1>4. CASE SendCommand BY <1>4 DEF SendCommand, CommandOver, SendSet
<1>5. CASE SendPair BY <1>5 DEF SendPair, CommandOver, SendSet
<1>6. ASSUME NEW l \in Target, NEW v, ClientPublishEvt(l, v) PROVE CommandInv'
  BY <1>6 DEF ClientPublishEvt, G_TypeOK
<1>7. ASSUME NEW l \in Target, GatewayRecvStatus(l) PROVE CommandInv'
  BY <1>6, <1>7 DEF GatewayRecvStatus
<1>8. ASSUME NEW l \in Target, GatewayRecvReply(l) PROVE CommandInv'
  BY <1>6, <1>8 DEF GatewayRecvReply, gatewayHist
<1>9. ASSUME NEW l \in Target, ClientTimeout(l) PROVE CommandInv'
  BY <1>9 DEF ClientTimeout, gatewayHist, SendSet
<1>10. CASE PublishReport BY <1>10 DEF PublishReport
<1>11. CASE GatewayTap BY <1>11 DEF GatewayTap, gatewayHist
<1>12. QED BY <1>1, <1>2, <1>3, <1>4, <1>5, <1>7, <1>8, <1>9, <1>10, <1>11
           DEF G_Next, MqttTask, GatewayCallback

(* The stack never awaits an answer to a SET: SetOpcode is unacknowledged. *)
NoSetAwaited == \A l \in Target : pendingOp[l] # "SET"

LEMMA AwaitStep ==
  ASSUME G_TypeOK, NoSetAwaited, G_Next
  PROVE  NoSetAwaited'
<1> USE DEF NoSetAwaited, G_TypeOK
<1>1. ASSUME NEW to, SendSet(to) PROVE NoSetAwaited'
  BY <1>1 DEF SendSet, Await, SetOpcode
<1>2. ASSUME NEW c \in Command, CommandArrives(c) PROVE NoSetAwaited'
  BY <1>2 DEF CommandArrives
<1>3. CASE ParseCommand BY <1>3 DEF ParseCommand
<1>4. CASE WipeCommand BY <1>4 DEF WipeCommand
<1>5. CASE SendCommand BY <1>1, <1>5 DEF SendCommand
<1>6. CASE SendPair BY <1>1, <1>6 DEF SendPair
<1>7. ASSUME NEW l \in Target, GatewayRecvStatus(l) PROVE NoSetAwaited'
  BY <1>7 DEF GatewayRecvStatus
<1>8. ASSUME NEW l \in Target, GatewayRecvReply(l) PROVE NoSetAwaited'
  BY <1>8 DEF GatewayRecvReply
<1>9. ASSUME NEW l \in Target, ClientTimeout(l) PROVE NoSetAwaited'
  <2>1. pendingOp' = [pendingOp EXCEPT ![l] = "none"] BY <1>9 DEF ClientTimeout
  <2>2. QED BY <2>1
<1>10. CASE PublishReport BY <1>10 DEF PublishReport
<1>11. CASE GatewayTap
  <2>1. PICK l \in Target : pendingOp' = [pendingOp EXCEPT ![l] = "GET"]
    BY <1>11 DEF GatewayTap, Await
  <2>2. QED BY <2>1
<1>12. QED BY <1>2, <1>3, <1>4, <1>5, <1>6, <1>7, <1>8, <1>9, <1>10, <1>11
           DEF G_Next, MqttTask, GatewayCallback

-----------------------------------------------------------------------------
(* The invariant of the whole home.                                        *)
Inv == TypeOK /\ LightInv /\ CommandInv /\ NoSetAwaited

LEMMA InitInv == ASSUME Assumptions, Init PROVE Inv
<1> USE DEF Assumptions
<1>1. N_TypeOK /\ L_TypeOK /\ LightInv BY LightInit, NetInit DEF Init
<1>2. S_TypeOK
  <2>1. sure \in BOOLEAN BY DEF Init, S_Init
  <2>2. QED BY <2>1 DEF Init, S_Init, S_TypeOK, OnOff, SwitchAssumption
<1>3. G_TypeOK
  <2>1. Blank \in Text BY DEF Text
  <2>2. 0 \in OnOff /\ 0 \in 0..(TidModulus - 1) BY DEF OnOff, GatewayAssumption
  <2>3. 0 \in 0..MaxCommand /\ 0 \in 0..MaxGet /\ 0 \in 0..MaxGatewayRefusal
    BY DEF GatewayAssumption
  <2>4. QED BY <2>1, <2>2, <2>3 DEF Init, G_Init, G_TypeOK
<1>4. CommandInv BY DEF Init, G_Init, CommandInv
<1>5. NoSetAwaited BY DEF Init, G_Init, NoSetAwaited
<1>6. QED BY <1>1, <1>2, <1>3, <1>4, <1>5 DEF Inv, TypeOK

(* What nothing happens to keeps its part of the invariant.                *)
LEMMA SwitchStutter == ASSUME S_TypeOK, UNCHANGED switchVars PROVE S_TypeOK'
BY DEF S_TypeOK, switchVars

LEMMA GatewayStutter ==
  ASSUME G_TypeOK, CommandInv, NoSetAwaited, UNCHANGED gatewayVars
  PROVE  G_TypeOK' /\ CommandInv' /\ NoSetAwaited'
<1>1. G_TypeOK' BY DEF G_TypeOK, gatewayVars, gatewayData, gatewayHist
<1>2. CommandInv' BY DEF CommandInv, gatewayVars, gatewayData, gatewayHist
<1>3. NoSetAwaited' BY DEF NoSetAwaited, gatewayVars, gatewayData
<1>4. QED BY <1>1, <1>2, <1>3

(* Every step of the home keeps the invariant: the nodes share nothing but *)
(* the network.                                                            *)
LEMMA NextInv == ASSUME Assumptions, Inv, [Next]_vars PROVE Inv'
<1> USE DEF Assumptions
<1>1. N_TypeOK /\ L_TypeOK /\ S_TypeOK /\ G_TypeOK /\ LightInv /\ CommandInv /\ NoSetAwaited
  BY DEF Inv, TypeOK
<1>2. ASSUME NEW l \in Light, L_Next(l), UNCHANGED <<switchVars, gatewayVars>> PROVE Inv'
  BY <1>1, <1>2, LightStepInv, LightStepNet, SwitchStutter, GatewayStutter DEF Inv, TypeOK
<1>3. CASE SwitchMoves
  BY <1>1, <1>3, SwitchType, LightStutter, GatewayStutter DEF SwitchMoves, Inv, TypeOK
<1>4. CASE GatewayMoves
  <2>1. N_TypeOK' /\ G_TypeOK'
    BY <1>1, <1>4, MqttTaskType, GatewayCallbackType, GatewayTapType DEF GatewayMoves, G_Next
  <2>2. CommandInv' /\ NoSetAwaited' BY <1>1, <1>4, CommandStep, AwaitStep DEF GatewayMoves
  <2>3. QED BY <1>1, <1>4, <2>1, <2>2, LightStutter, SwitchStutter
            DEF GatewayMoves, Inv, TypeOK
<1>5. CASE AirLoses
  <2>1. PICK c \in Channel : Lose(c[1], c[2]) BY <1>5 DEF AirLoses
  <2>2. N_TypeOK' BY <1>1, <2>1, LoseType DEF Channel
  <2>3. QED BY <1>1, <1>5, <2>2, LightStutter, SwitchStutter, GatewayStutter
            DEF AirLoses, Inv, TypeOK
<1>6. CASE UNCHANGED vars
  BY <1>1, <1>6, NetStutter, LightStutter, SwitchStutter, GatewayStutter DEF vars, Inv, TypeOK
<1>7. QED BY <1>2, <1>3, <1>4, <1>5, <1>6 DEF Next, LightsMove

THEOREM Invariance == Spec => []Inv
<1>1. Assumptions
  BY MaxLossAssumption, LightAssumption, SwitchAssumption, GatewayAssumption,
     NetworkAssumption DEF Assumptions
<1>2. Init => Inv BY <1>1, InitInv
<1>3. Inv /\ [Next]_vars => Inv' BY <1>1, NextInv
<1>4. QED BY <1>2, <1>3, PTL DEF Spec

(* No light, switch, message or command carries anything but 0 and 1, and  *)
(* no field of a command reaches the globals of the gateway unparsed.      *)
THEOREM TypeCorrect == Spec => []TypeOK
<1>1. Inv => TypeOK BY DEF Inv
<1>2. QED BY <1>1, Invariance, PTL

(* A command in progress is what the globals hold (Gateway main.c:573-604). *)
THEOREM CommandInvariant == Spec => []CommandInv
<1>1. Inv => CommandInv BY DEF Inv
<1>2. QED BY <1>1, Invariance, PTL

(* What is proved of a light alone holds in the home: the lights at rest   *)
(* agree with their flash, and the reports they made are durable.          *)
THEOREM LightsInTheHome == Spec => [](SettledAgree /\ Durable /\ PromiseShown /\ HandlesBounded)
<1>1. Inv => SettledAgree /\ Durable /\ PromiseShown /\ HandlesBounded
  BY LightInvImplies, LightAssumption DEF Inv, TypeOK
<1>2. QED BY <1>1, Invariance, PTL

(* In the home too a light reports what its pin and its flash already hold *)
(* (main.c:205-214), whatever the switch and the gateway do meanwhile.     *)
THEOREM HomeReportsAreTrue == Spec => ReportsAreTrue
<1>1. Inv /\ [Next]_vars =>
        [\A l \in Light : Publish(l) /\ Clean(l) =>
           /\ gpio[l] = state_led[l]
           /\ flash[l] = state_led[l]]_<<netVars, lightVars>>
  BY LightInvReports DEF Inv
<1>2. QED BY <1>1, Invariance, PTL DEF Spec, ReportsAreTrue

(* The lights of the home are ReportedLamps: whatever the switch, the      *)
(* gateway, the broker and the air do, no flash moves while a report       *)
(* stands, and nothing is reported that is not in the flash.               *)
THEOREM HomeOfLamps == Spec => Reported!LampSpec
<1>1. Init => Reported!LampInit BY InitRefines DEF Init
<1>2. Inv /\ [Next]_vars => [Reported!LampNext]_(Reported!lampVars)
  <2> SUFFICES ASSUME Inv, [Next]_vars PROVE [Reported!LampNext]_(Reported!lampVars)
    OBVIOUS
  <2>1. CASE LightsMove
    BY <2>1, StepRefines, LightAssumption DEF Inv, TypeOK, LightsMove
  <2>2. CASE UNCHANGED lightVars BY <2>2, StutterRefines
  <2>3. QED BY <2>1, <2>2 DEF Next, vars, SwitchMoves, GatewayMoves, AirLoses
<1>3. QED BY <1>1, <1>2, Invariance, PTL DEF Spec, Reported!LampSpec

-----------------------------------------------------------------------------
(* What the gateway puts on air.                                           *)

(* The channel from the gateway to light l gets nothing new.               *)
NothingNew(l) == ~(Len(net'[<<Gateway, l>>]) > Len(net[<<Gateway, l>>]))

LEMMA SameChannel ==
  ASSUME NEW l, net'[<<Gateway, l>>] = net[<<Gateway, l>>], N_TypeOK, Gateway \in Node, l \in Node
  PROVE  NothingNew(l)
<1>1. Len(net[<<Gateway, l>>]) \in Nat BY DEF N_TypeOK, Channel
<1>2. QED BY <1>1 DEF NothingNew

(* Only the gateway adds to its channels.                                  *)
LEMMA OthersSend ==
  ASSUME N_TypeOK, Gateway \in Node, NEW l \in Node, NEW s, s # Gateway, NEW dsts, NEW m,
         Send(s, dsts, m)
  PROVE  NothingNew(l)
<1>1. net'[<<Gateway, l>>] = net[<<Gateway, l>>] BY DEF Send, Sent, Channel
<1>2. QED BY <1>1, SameChannel

(* The tail of a channel is no longer than the channel.                    *)
LEMMA TailShrinks ==
  ASSUME NEW q \in Seq(Message), q # << >>
  PROVE  ~(Len(Tail(q)) > Len(q))
<1>1. Len(Tail(q)) = Len(q) - 1 OBVIOUS
<1>2. Len(q) \in Nat OBVIOUS
<1>3. QED BY <1>1, <1>2

(* Taking a message adds nothing.                                          *)
LEMMA TakenShrinks ==
  ASSUME N_TypeOK, Gateway \in Node, NEW l \in Node, NEW s \in Node, NEW d \in Node,
         net[<<s, d>>] # << >>, net' = Taken(net, s, d)
  PROVE  NothingNew(l)
<1>1. net[<<Gateway, l>>] \in Seq(Message) /\ <<Gateway, l>> \in Channel
  BY DEF N_TypeOK, Channel
<1>2. CASE <<s, d>> = <<Gateway, l>>
  <2>1. net'[<<Gateway, l>>] = Tail(net[<<Gateway, l>>])
    BY <1>1, <1>2 DEF Taken, N_TypeOK
  <2>2. net[<<Gateway, l>>] # << >> BY <1>2
  <2>3. QED BY <1>1, <2>1, <2>2, TailShrinks DEF NothingNew
<1>3. CASE <<s, d>> # <<Gateway, l>>
  <2>1. net'[<<Gateway, l>>] = net[<<Gateway, l>>]
    BY <1>1, <1>3 DEF Taken, N_TypeOK
  <2>2. QED BY <2>1, SameChannel
<1>4. QED BY <1>2, <1>3

(* A SET of the gateway is the last message on its channel.                *)
LEMMA GatewaySends ==
  ASSUME N_TypeOK, Gateway \in Node, NEW l \in Node, NEW to, NEW m,
         Send(Gateway, {to}, m), ~NothingNew(l)
  PROVE  l = to /\ LastSent(l) = m
<1>1. net[<<Gateway, l>>] \in Seq(Message) /\ <<Gateway, l>> \in Channel
  BY DEF N_TypeOK, Channel
<1>2. l = to
  <2>1. SUFFICES ASSUME l # to PROVE net'[<<Gateway, l>>] = net[<<Gateway, l>>]
    BY SameChannel
  <2>2. net'[<<Gateway, l>>] = IF <<Gateway, l>>[1] = Gateway /\ <<Gateway, l>>[2] \in {to}
                                THEN Append(net[<<Gateway, l>>], m) ELSE net[<<Gateway, l>>]
    BY <1>1 DEF Send, Sent
  <2>3. <<Gateway, l>>[2] = l OBVIOUS
  <2>4. QED BY <2>1, <2>2, <2>3
<1>3. net'[<<Gateway, l>>] = Append(net[<<Gateway, l>>], m)
  BY <1>1, <1>2 DEF Send, Sent
<1>4. LastSent(l) = m
  <2>1. ASSUME NEW q \in Seq(Message) PROVE Append(q, m)[Len(Append(q, m))] = m
    <3>1. q \in Seq(Message \cup {m}) BY <2>1
    <3>2. Len(Append(q, m)) = Len(q) + 1 BY <3>1
    <3>3. QED BY <3>1, <3>2
  <2>2. QED BY <1>1, <1>3, <2>1 DEF LastSent
<1>5. QED BY <1>2, <1>4

(* A light's step puts nothing on the gateway's channels.                  *)
LEMMA LightSendsElsewhere ==
  ASSUME Assumptions, N_TypeOK, NEW k \in Light, L_Next(k), NEW l \in Light
  PROVE  NothingNew(l)
<1> USE DEF Assumptions
<1>0. k \in Node /\ l \in Node /\ Gateway \in Node /\ k # Gateway
  BY DEF LightAssumption, GatewayAssumption, NetworkAssumption
<1>1. CASE UNCHANGED net BY <1>0, <1>1, SameChannel
<1>2. ASSUME NEW c \in Node, RecvSet(k, c) PROVE NothingNew(l)
  BY <1>0, <1>2, TakenShrinks DEF RecvSet, Arrives, Take
<1>3. ASSUME NEW c \in Node, RecvGet(k, c) PROVE NothingNew(l)
  <2>1. net[<<c, k>>] # << >> /\ <<c, k>> \in Channel
    BY <1>0, <1>3 DEF RecvGet, Arrives, Channel
  <2>2. net'[<<Gateway, l>>] = Taken(net, c, k)[<<Gateway, l>>]
    BY <1>0, <1>3 DEF RecvGet, Sent, Channel
  <2>3. net[<<Gateway, l>>] \in Seq(Message) BY <1>0 DEF N_TypeOK, Channel
  <2>4. CASE <<c, k>> = <<Gateway, l>>
    <3>1. net'[<<Gateway, l>>] = Tail(net[<<Gateway, l>>])
      BY <2>1, <2>2, <2>4 DEF Taken, N_TypeOK
    <3>2. QED BY <2>1, <2>3, <2>4, <3>1 DEF NothingNew
  <2>5. CASE <<c, k>> # <<Gateway, l>>
    <3>1. net'[<<Gateway, l>>] = net[<<Gateway, l>>]
      BY <1>0, <2>1, <2>2, <2>5 DEF Taken, N_TypeOK, Channel
    <3>2. QED BY <1>0, <3>1, SameChannel
  <2>6. QED BY <2>4, <2>5
<1>4. CASE Publish(k) BY <1>0, <1>4, OthersSend DEF Publish
<1>5. CASE PowerCycle(k)
  <2>1. net'[<<Gateway, l>>] \in {<< >>, net[<<Gateway, l>>]}
    BY <1>0, <1>5 DEF PowerCycle, Deafen, Channel
  <2>2. net[<<Gateway, l>>] \in Seq(Message) BY <1>0 DEF N_TypeOK, Channel
  <2>3. QED BY <2>1, <2>2 DEF NothingNew
<1>6. QED BY <1>1, <1>2, <1>3, <1>4, <1>5 DEF L_Next, AppMain, Callback,
            BootStart, RestoreOpen, RestoreGet, RestoreClose, RestoreShow,
            ShowSet, SaveOpen, SaveSet, SaveCommit, SaveClose, netVars

(* Nor does a step of the switch, or a message lost.                       *)
LEMMA SwitchSendsElsewhere ==
  ASSUME Assumptions, N_TypeOK, S_Next \/ AirLoses, NEW l \in Light
  PROVE  NothingNew(l)
<1> USE DEF Assumptions
<1>0. l \in Node /\ Switch \in Node /\ Gateway \in Node /\ Switch # Gateway
  BY DEF LightAssumption, GatewayAssumption, SwitchAssumption, NetworkAssumption
<1>1. CASE Tap
  <2>1. CASE UNCHANGED net BY <1>0, <2>1, SameChannel
  <2>2. CASE Send(Switch, Group, [op |-> "SET_UNACK", onoff |-> state_button'])
    BY <1>0, <2>2, OthersSend
  <2>3. Send(Switch, Group, [op |-> "SET_UNACK", onoff |-> state_button']) \/ UNCHANGED net
    BY <1>1 DEF Tap, netVars
  <2>4. QED BY <2>1, <2>2, <2>3
<1>2. ASSUME NEW k \in Node, SwitchRecvStatus(k) PROVE NothingNew(l)
  BY <1>0, <1>2, TakenShrinks DEF SwitchRecvStatus, Arrives, Take
<1>3. CASE SwitchPowerCycle
  <2>1. net'[<<Gateway, l>>] = net[<<Gateway, l>>]
    BY <1>0, <1>3 DEF SwitchPowerCycle, Deafen, Channel, NetworkAssumption
  <2>2. QED BY <1>0, <2>1, SameChannel
<1>4. CASE AirLoses
  <2>1. PICK c \in Channel : Lose(c[1], c[2]) BY <1>4 DEF AirLoses
  <2>2. c[1] \in Node /\ c[2] \in Node BY DEF Channel
  <2>3. QED BY <1>0, <2>1, <2>2, TakenShrinks DEF Lose
<1>5. QED BY <1>1, <1>2, <1>3, <1>4 DEF S_Next, SwitchHears

(* In the middle of a command only SendCommand and SendPair put a SET on   *)
(* air, with what the globals hold.                                        *)
LEMMA GatewaySet ==
  ASSUME Assumptions, Inv, G_Next, NEW l \in Light, SetSentByGateway(l),
         gpc \in {"send", "pair"}
  PROVE  /\ l = IF gpc = "pair" THEN Light4 ELSE address_des
         /\ LastSent(l).onoff = value
<1> USE DEF Assumptions
<1>0. /\ l \in Node /\ Gateway \in Node /\ Target \subseteq Node
      /\ N_TypeOK /\ NoSetAwaited /\ ~NothingNew(l)
      /\ LastSent(l).op = "SET_UNACK"
  BY DEF LightAssumption, GatewayAssumption, Inv, TypeOK, SetSentByGateway, NothingNew,
         SetOpcode
<1>1. ASSUME NEW to, SendSet(to)
      PROVE  l = to /\ LastSent(l).onoff = value
  <2>1. net' # net BY <1>0, SameChannel
  <2>2. Send(Gateway, {to}, [op |-> SetOpcode, onoff |-> value])
    BY <1>1, <2>1 DEF SendSet, netVars
  <2>3. l = to /\ LastSent(l) = [op |-> SetOpcode, onoff |-> value]
    BY <1>0, <2>2, GatewaySends
  <2>4. QED BY <2>3
<1>2. CASE SendCommand BY <1>1, <1>2 DEF SendCommand
<1>3. CASE SendPair BY <1>1, <1>3 DEF SendPair
<1>4. CASE UNCHANGED net BY <1>0, <1>4, SameChannel
<1>5. ASSUME NEW k \in Target, GatewayRecvStatus(k) \/ GatewayRecvReply(k) PROVE FALSE
  BY <1>0, <1>5, TakenShrinks DEF GatewayRecvStatus, GatewayRecvReply, Arrives, Take
<1>6. ASSUME NEW k \in Target, ClientTimeout(k) PROVE UNCHANGED net
  BY <1>0, <1>6 DEF ClientTimeout, NoSetAwaited, netVars
<1>7. ASSUME GatewayTap PROVE FALSE
  <2>1. PICK k \in Target : Send(Gateway, {k}, [op |-> "GET", onoff |-> 0])
    BY <1>7 DEF GatewayTap
  <2>2. LastSent(l) = [op |-> "GET", onoff |-> 0] BY <1>0, <2>1, GatewaySends
  <2>3. QED BY <1>0, <2>2
<1>8. QED BY <1>2, <1>3, <1>4, <1>5, <1>6, <1>7 DEF G_Next, MqttTask, GatewayCallback,
            CommandArrives, ParseCommand, WipeCommand, PublishReport, netVars

(* A SET the gateway sends for a command no STATUS overlapped goes to the  *)
(* light the broker named, with the value it gave (Gateway main.c:573-604): *)
(* for every number of lights, commands and reports in between.            *)
THEOREM CommandsReachTheAir == Spec => AirMatchesCommand
<1>1. Assumptions
  BY MaxLossAssumption, LightAssumption, SwitchAssumption, GatewayAssumption,
     NetworkAssumption DEF Assumptions
<1>2. ASSUME Inv, Next, NEW l \in Light, SetSentByGateway(l), cmd # None, ~overlapped,
             gpc \in {"send", "pair"}
      PROVE  /\ cmd.addr # None => l = IF gpc = "pair" THEN Light4 ELSE cmd.addr
             /\ cmd.val # None => LastSent(l).onoff = cmd.val
  <2>1. ~NothingNew(l) /\ N_TypeOK
    BY <1>2 DEF SetSentByGateway, NothingNew, Inv, TypeOK
  <2>2. G_Next
    BY <1>1, <1>2, <2>1, LightSendsElsewhere, SwitchSendsElsewhere
       DEF Next, LightsMove, SwitchMoves, GatewayMoves
  <2>3. /\ l = IF gpc = "pair" THEN Light4 ELSE address_des
        /\ LastSent(l).onoff = value
    BY <1>1, <1>2, <2>2, GatewaySet
  <2>4. /\ cmd.addr # None => address_des = cmd.addr
        /\ cmd.val # None => value = cmd.val
    BY <1>2 DEF Inv, CommandInv
  <2>5. QED BY <2>3, <2>4
<1>3. Inv /\ [Next]_vars =>
        [\A l \in Light :
           SetSentByGateway(l) /\ cmd # None /\ ~overlapped /\ gpc \in {"send", "pair"} =>
             /\ cmd.addr # None => l = IF gpc = "pair" THEN Light4 ELSE cmd.addr
             /\ cmd.val # None => LastSent(l).onoff = cmd.val]_vars
  BY <1>2
<1>4. QED BY <1>3, Invariance, PTL DEF Spec, AirMatchesCommand
-----------------------------------------------------------------------------
(* What a channel says, before and after a message joins or leaves it.     *)

(* The rest of a channel, message by message.                              *)
LEMMA TailAt ==
  ASSUME NEW q \in Seq(Message), q # << >>
  PROVE  /\ Head(q) = q[1] /\ 1 \in DOMAIN q /\ DOMAIN q = 1..Len(q) /\ Len(q) \in Nat
         /\ Tail(q) \in Seq(Message) /\ Len(Tail(q)) = Len(q) - 1
         /\ DOMAIN Tail(q) = 1..(Len(q) - 1)
         /\ \A i \in DOMAIN Tail(q) : i + 1 \in DOMAIN q /\ Tail(q)[i] = q[i + 1]
OBVIOUS

(* A longer channel, message by message.                                   *)
LEMMA AppendAt ==
  ASSUME NEW q \in Seq(Message), NEW m \in Message
  PROVE  /\ Append(q, m) \in Seq(Message) /\ Len(q) \in Nat /\ Append(q, m) # << >>
         /\ DOMAIN q = 1..Len(q) /\ DOMAIN Append(q, m) = 1..(Len(q) + 1)
         /\ Len(Append(q, m)) = Len(q) + 1
         /\ \A i \in DOMAIN q : Append(q, m)[i] = q[i]
         /\ Append(q, m)[Len(q) + 1] = m
OBVIOUS

(* The end of a channel stays the end when its oldest message is taken.    *)
LEMMA TailEnd ==
  ASSUME NEW q \in Seq(Message), q # << >>
  PROVE  /\ Tail(q) # << >> => Tail(q)[Len(Tail(q))] = q[Len(q)]
         /\ Tail(q) = << >> => Head(q) = q[Len(q)]
<1>1. /\ Head(q) = q[1] /\ Len(q) \in Nat /\ Len(Tail(q)) = Len(q) - 1
      /\ Tail(q) \in Seq(Message) /\ DOMAIN Tail(q) = 1..(Len(q) - 1)
      /\ \A i \in DOMAIN Tail(q) : Tail(q)[i] = q[i + 1]
  BY TailAt
<1>2. Len(q) # 0 BY TailAt
<1>3. ASSUME Tail(q) # << >> PROVE Tail(q)[Len(Tail(q))] = q[Len(q)]
  <2>0. ASSUME NEW r \in Seq(Message), r # << >> PROVE Len(r) # 0 BY <2>0
  <2>1. Len(Tail(q)) # 0 BY <1>1, <1>3, <2>0
  <2>2. Len(q) - 1 \in DOMAIN Tail(q) /\ (Len(q) - 1) + 1 = Len(q) BY <1>1, <1>2, <2>1
  <2>3. QED BY <1>1, <2>2
<1>4. ASSUME Tail(q) = << >> PROVE Head(q) = q[Len(q)]
  <2>1. DOMAIN Tail(q) = {}
    <3>1. DOMAIN << >> = {} OBVIOUS
    <3>2. QED BY <1>4, <3>1
  <2>2. ~(1 \in 1..(Len(q) - 1)) BY <1>1, <2>1
  <2>3. Len(q) = 1 BY <1>1, <1>2, <2>2
  <2>4. QED BY <1>1, <2>3
<1>5. QED BY <1>3, <1>4

(* The last report stays the last when an older message is taken.          *)
LEMMA TailKeepsLast ==
  ASSUME NEW q \in Seq(Message), q # << >>, NEW v, LastStatusIs(q, v)
  PROVE  LastStatusIs(Tail(q), v)
<1> SUFFICES ASSUME NEW i \in DOMAIN Tail(q), Tail(q)[i].op = "STATUS",
                    \A j \in DOMAIN Tail(q) : Tail(q)[j].op = "STATUS" => j <= i
             PROVE  Tail(q)[i].onoff = v
  BY DEF LastStatusIs
<1>1. /\ DOMAIN q = 1..Len(q) /\ DOMAIN Tail(q) = 1..(Len(q) - 1) /\ Len(q) \in Nat
      /\ \A j \in DOMAIN Tail(q) : j + 1 \in DOMAIN q /\ Tail(q)[j] = q[j + 1]
  BY TailAt
<1>2. q[i + 1].op = "STATUS" /\ i + 1 \in DOMAIN q BY <1>1
<1>3. ASSUME NEW j \in DOMAIN q, q[j].op = "STATUS" PROVE j <= i + 1
  <2>1. CASE j = 1 BY <1>1, <2>1
  <2>2. CASE j # 1
    <3>1. j - 1 \in DOMAIN Tail(q) /\ (j - 1) + 1 = j BY <1>1, <2>2
    <3>2. Tail(q)[j - 1].op = "STATUS" BY <1>1, <1>3, <3>1
    <3>3. j - 1 <= i BY <3>1, <3>2
    <3>4. QED BY <1>1, <3>3
  <2>3. QED BY <2>1, <2>2
<1>4. q[i + 1].onoff = v BY <1>2, <1>3 DEF LastStatusIs
<1>5. QED BY <1>1, <1>4

(* Only the last report leaves no report behind.                           *)
LEMMA TailWaits ==
  ASSUME NEW q \in Seq(Message), q # << >>, StatusWaits(q), ~StatusWaits(Tail(q))
  PROVE  /\ Head(q).op = "STATUS"
         /\ \A v : LastStatusIs(q, v) => Head(q).onoff = v
<1>1. /\ Head(q) = q[1] /\ 1 \in DOMAIN q /\ DOMAIN q = 1..Len(q) /\ Len(q) \in Nat
      /\ DOMAIN Tail(q) = 1..(Len(q) - 1)
      /\ \A j \in DOMAIN Tail(q) : j + 1 \in DOMAIN q /\ Tail(q)[j] = q[j + 1]
  BY TailAt
<1>2. ASSUME NEW j \in DOMAIN q, q[j].op = "STATUS" PROVE j = 1
  <2>1. SUFFICES ASSUME j # 1 PROVE FALSE OBVIOUS
  <2>2. j - 1 \in DOMAIN Tail(q) /\ (j - 1) + 1 = j BY <1>1, <2>1
  <2>3. Tail(q)[j - 1].op = "STATUS" BY <1>1, <1>2, <2>2
  <2>4. QED BY <2>2, <2>3 DEF StatusWaits
<1>3. q[1].op = "STATUS" BY <1>2 DEF StatusWaits
<1>4. ASSUME NEW v, LastStatusIs(q, v) PROVE Head(q).onoff = v
  <2>1. \A j \in DOMAIN q : q[j].op = "STATUS" => j <= 1 BY <1>2, <1>1
  <2>2. QED BY <1>1, <1>3, <1>4, <2>1 DEF LastStatusIs
<1>5. QED BY <1>1, <1>3, <1>4

(* A new report waits, and is the last one.                                *)
LEMMA AppendStatus ==
  ASSUME NEW q \in Seq(Message), NEW m \in Message, m.op = "STATUS"
  PROVE  StatusWaits(Append(q, m)) /\ LastStatusIs(Append(q, m), m.onoff)
<1>1. /\ Len(q) \in Nat /\ DOMAIN q = 1..Len(q) /\ DOMAIN Append(q, m) = 1..(Len(q) + 1)
      /\ Append(q, m)[Len(q) + 1] = m
  BY AppendAt
<1>2. Len(q) + 1 \in DOMAIN Append(q, m) BY <1>1
<1>3. StatusWaits(Append(q, m)) BY <1>1, <1>2 DEF StatusWaits
<1>4. ASSUME NEW i \in DOMAIN Append(q, m),
             \A j \in DOMAIN Append(q, m) : Append(q, m)[j].op = "STATUS" => j <= i
      PROVE  Append(q, m)[i].onoff = m.onoff
  <2>1. Len(q) + 1 <= i BY <1>1, <1>2, <1>4
  <2>2. i = Len(q) + 1 BY <1>1, <2>1
  <2>3. QED BY <1>1, <2>2
<1>5. QED BY <1>3, <1>4 DEF LastStatusIs

(* Any other message changes nothing in what the channel reports.          *)
LEMMA AppendOther ==
  ASSUME NEW q \in Seq(Message), NEW m \in Message, m.op # "STATUS"
  PROVE  /\ StatusWaits(q) => StatusWaits(Append(q, m))
         /\ \A v : LastStatusIs(q, v) => LastStatusIs(Append(q, m), v)
<1>1. /\ Len(q) \in Nat /\ DOMAIN q = 1..Len(q) /\ DOMAIN Append(q, m) = 1..(Len(q) + 1)
      /\ \A i \in DOMAIN q : Append(q, m)[i] = q[i]
      /\ Append(q, m)[Len(q) + 1] = m
  BY AppendAt
<1>2. \A i \in DOMAIN q : i \in DOMAIN Append(q, m) BY <1>1
<1>3. \A i \in DOMAIN Append(q, m) : Append(q, m)[i].op = "STATUS" => i \in DOMAIN q
  <2>1. ASSUME NEW i \in DOMAIN Append(q, m), Append(q, m)[i].op = "STATUS"
        PROVE  i \in DOMAIN q
    <3>1. i # Len(q) + 1 BY <1>1, <2>1
    <3>2. QED BY <1>1, <3>1
  <2>2. QED BY <2>1
<1>4. StatusWaits(q) => StatusWaits(Append(q, m)) BY <1>1, <1>2 DEF StatusWaits
<1>5. ASSUME NEW v, LastStatusIs(q, v), NEW i \in DOMAIN Append(q, m),
             Append(q, m)[i].op = "STATUS",
             \A j \in DOMAIN Append(q, m) : Append(q, m)[j].op = "STATUS" => j <= i
      PROVE  Append(q, m)[i].onoff = v
  <2>1. i \in DOMAIN q /\ q[i].op = "STATUS" BY <1>1, <1>3, <1>5
  <2>2. \A j \in DOMAIN q : q[j].op = "STATUS" => j <= i BY <1>1, <1>2, <1>5
  <2>3. q[i].onoff = v BY <1>5, <2>1, <2>2 DEF LastStatusIs
  <2>4. QED BY <1>1, <2>1, <2>3
<1>6. QED BY <1>4, <1>5 DEF LastStatusIs

(* An empty channel reports nothing.                                       *)
LEMMA NoStatus == ~StatusWaits(<< >>) /\ \A v : LastStatusIs(<< >>, v)
<1>1. DOMAIN << >> = {} OBVIOUS
<1>2. QED BY <1>1 DEF StatusWaits, LastStatusIs

(* The channels of the network, one by one.                                *)
LEMMA ChannelsTaken ==
  ASSUME NEW n \in [Channel -> Seq(Message)], NEW s \in Node, NEW d \in Node
  PROVE  /\ Taken(n, s, d)[<<s, d>>] = Tail(n[<<s, d>>])
         /\ \A c \in Channel : c # <<s, d>> => Taken(n, s, d)[c] = n[c]
BY DEF Taken, Channel

LEMMA ChannelsSent ==
  ASSUME NEW n, NEW s, NEW dsts, NEW m, NEW a \in Node, NEW b \in Node
  PROVE  Sent(n, s, dsts, m)[<<a, b>>] =
           IF a = s /\ b \in dsts THEN Append(n[<<a, b>>], m) ELSE n[<<a, b>>]
<1>1. <<a, b>> \in Channel /\ <<a, b>>[1] = a /\ <<a, b>>[2] = b BY DEF Channel
<1>2. QED BY <1>1 DEF Sent

-----------------------------------------------------------------------------
(* What one step of each node does to the channels and to the promises.    *)

LEMMA Nodes ==
  ASSUME Assumptions
  PROVE  /\ Light \subseteq Node /\ Light \subseteq Target /\ Target \subseteq Node
         /\ Group \subseteq Light /\ Switch \in Node /\ Gateway \in Node
         /\ Switch \notin Light /\ Gateway \notin Light /\ Switch # Gateway
         /\ \A l \in Light : Subscribers[l] \subseteq Node
BY DEF Assumptions, LightAssumption, GatewayAssumption, SwitchAssumption, NetworkAssumption

(* The four things a step of a light that keeps its power can be.          *)
HearsSet(l) == \E c \in {Switch, Gateway} :
  /\ c = Gateway => commands > 0
  /\ net[<<c, l>>] # << >>
  /\ net' = Taken(net, c, l)
  /\ bpc'[l] = "gpio"
  /\ promised'[l] = NoValue
  /\ state_led'[l] = Head(net[<<c, l>>]).onoff
  /\ mpc'[l] # "init"

Reports(l) ==
  /\ bpc[l] = "publish"
  /\ bpc'[l] = "idle"
  /\ net' = Sent(net, l, Subscribers[l], [op |-> "STATUS", onoff |-> state_led[l]])
  /\ promised'[l] = IF trouble[l] = {} THEN state_led[l] ELSE NoValue
  /\ trouble'[l] = trouble[l]
  /\ state_led'[l] = state_led[l]
  /\ mpc'[l] # "init"

AnswersGet(l) ==
  /\ net[<<Gateway, l>>] # << >>
  /\ net' = Sent(Taken(net, Gateway, l), l, {Gateway}, [op |-> "REPLY", onoff |-> 0])
  /\ SameAt(l)

GoesOn(l) ==
  /\ net' = net
  /\ promised'[l] = promised[l]
  /\ bpc'[l] = "idle" <=> bpc[l] = "idle"
  /\ trouble[l] \subseteq trouble'[l]
  /\ \/ state_led'[l] = state_led[l]
     \/ mpc[l] = "get" /\ state_led'[l] = written[l] /\ written[l] # NoValue
  /\ mpc'[l] # "init"

(* The oldest message of a channel is from one who may send it.            *)
LEMMA HeadMaySend ==
  ASSUME N_TypeOK, OriginInv, NEW s \in Node, NEW d \in Node, net[<<s, d>>] # << >>
  PROVE  LET m == Head(net[<<s, d>>]) IN
         /\ m.op = "STATUS" => s \in Light /\ d \in Subscribers[s]
         /\ m.op \in {"SET", "SET_UNACK"} => s = Switch \/ (s = Gateway /\ commands > 0)
         /\ m.op = "GET" => s = Gateway
         /\ m.op = "REPLY" => s \in Light
<1>1. <<s, d>> \in Channel /\ <<s, d>>[1] = s /\ <<s, d>>[2] = d BY DEF Channel
<1>2. net[<<s, d>>] \in Seq(Message) BY <1>1 DEF N_TypeOK
<1>3. Head(net[<<s, d>>]) = net[<<s, d>>][1] /\ 1 \in DOMAIN net[<<s, d>>] BY <1>2, TailAt
<1>4. MaySend(<<s, d>>, Head(net[<<s, d>>])) BY <1>1, <1>3 DEF OriginInv
<1>5. QED BY <1>1, <1>4 DEF MaySend

LEMMA LightMoves ==
  ASSUME Assumptions, N_TypeOK, L_TypeOK, LightInv, OriginInv, PromisedInv,
         NEW l \in Light, L_Next(l), crashes' = 0
  PROVE  /\ crashes = 0 /\ lost' = lost
         /\ \A k \in Light \ {l} : SameAt(k)
         /\ HearsSet(l) \/ Reports(l) \/ AnswersGet(l) \/ GoesOn(l)
<1>0. crashes = 0 /\ ~PowerCycle(l)
  <2>1. crashes \in Nat BY DEF L_TypeOK
  <2>2. ~PowerCycle(l) BY <2>1 DEF PowerCycle
  <2>3. crashes' = crashes
    BY <2>2 DEF L_Next, AppMain, Callback, BootStart, RestoreOpen, RestoreGet, RestoreClose,
       RestoreShow, RecvSet, RecvGet, ShowSet, SaveOpen, SaveSet, SaveCommit, SaveClose,
       Publish, lightVars
  <2>4. QED BY <2>2, <2>3
<1>1. lost' = lost
  BY <1>0 DEF L_Next, AppMain, Callback, BootStart, RestoreOpen, RestoreGet, RestoreClose,
     RestoreShow, RecvSet, RecvGet, ShowSet, SaveOpen, SaveSet, SaveCommit, SaveClose,
     Publish, netVars, Take, Send
<1>2. \A k \in Light \ {l} : SameAt(k) BY StepIsLocal
<1>3. CallbackNeedsMesh(l) /\ (mpc[l] = "init" => promised[l] = NoValue)
  BY <1>0 DEF LightInv, OneLightInv, PromisedInv, KeepsPromise
<1>4. HearsSet(l) \/ Reports(l) \/ AnswersGet(l) \/ GoesOn(l)
  <2> USE DEF L_TypeOK, MainGoes, CallbackGoes, Note, netVars, lightStore
  <2>1. CASE BootStart(l)
    <3>1. mpc[l] = "init" /\ mpc'[l] \in {"open", "halted"} BY <2>1 DEF BootStart
    <3>2. promised'[l] = promised[l] BY <1>3, <2>1, <3>1 DEF BootStart
    <3>3. QED BY <2>1, <3>1, <3>2 DEF BootStart, GoesOn
  <2>2. CASE RestoreOpen(l) BY <2>2 DEF RestoreOpen, GoesOn
  <2>3. CASE RestoreGet(l) BY <2>3 DEF RestoreGet, GoesOn
  <2>4. CASE RestoreClose(l) BY <2>4 DEF RestoreClose, GoesOn
  <2>5. CASE RestoreShow(l) BY <2>5 DEF RestoreShow, GoesOn
  <2>6. ASSUME NEW c \in Node, RecvSet(l, c) PROVE HearsSet(l)
    <3>1. meshUp[l] /\ mpc[l] # "init"
      BY <1>3, <2>6 DEF RecvSet, Listening, CallbackNeedsMesh
    <3>2. /\ net[<<c, l>>] # << >> /\ Head(net[<<c, l>>]).op \in {"SET", "SET_UNACK"}
          /\ net' = Taken(net, c, l)
      BY <2>6 DEF RecvSet, Arrives, Take
    <3>3. c \in {Switch, Gateway} /\ (c = Gateway => commands > 0)
      BY <3>2, HeadMaySend, Nodes DEF MaySend
    <3>4. QED BY <2>6, <3>1, <3>2, <3>3 DEF RecvSet, HearsSet
  <2>7. ASSUME NEW c \in Node, RecvGet(l, c) PROVE AnswersGet(l)
    <3>1. net[<<c, l>>] # << >> /\ Head(net[<<c, l>>]).op = "GET"
      BY <2>7 DEF RecvGet, Arrives
    <3>2. c = Gateway BY <3>1, HeadMaySend, Nodes DEF MaySend
    <3>3. QED
      BY <2>7, <3>1, <3>2 DEF RecvGet, SrvStateOnoff, AnswersGet, SameAt, lightVars, lightTasks
  <2>8. CASE ShowSet(l) \/ SaveOpen(l) \/ SaveSet(l) \/ SaveCommit(l) \/ SaveClose(l)
    <3>1. bpc[l] # "idle" /\ mpc[l] # "init"
      BY <1>3, <2>8 DEF CallbackNeedsMesh, ShowSet, SaveOpen, SaveSet, SaveCommit, SaveClose
    <3>2. /\ net' = net /\ mpc' = mpc /\ promised' = promised /\ state_led' = state_led
          /\ bpc'[l] # "idle"
      BY <2>8 DEF ShowSet, SaveOpen, SaveSet, SaveCommit, SaveClose
    <3>3. trouble[l] \subseteq trouble'[l]
      BY <2>8 DEF ShowSet, SaveOpen, SaveSet, SaveCommit, SaveClose
    <3>4. QED BY <3>1, <3>2, <3>3 DEF GoesOn
  <2>9. CASE Publish(l)
    <3>1. mpc[l] # "init" BY <1>3, <2>9 DEF CallbackNeedsMesh, Publish
    <3>2. QED BY <2>9, <3>1 DEF Publish, Send, Reports
  <2>10. QED BY <1>0, <2>1, <2>2, <2>3, <2>4, <2>5, <2>6, <2>7, <2>8, <2>9
             DEF L_Next, AppMain, Callback
<1>5. QED BY <1>0, <1>1, <1>2, <1>4

(* The four things a step of the gateway can be.                           *)
GatewaySays == \E to \in Node, m \in Message :
  /\ net' = Sent(net, Gateway, {to}, m)
  /\ m.op = "GET" \/ (m.op = "SET_UNACK" /\ commands > 0)
  /\ value_pre' = value_pre

GatewayHearsStatus == \E l \in Target :
  /\ net[<<l, Gateway>>] # << >>
  /\ Head(net[<<l, Gateway>>]).op = "STATUS"
  /\ net' = Taken(net, l, Gateway)
  /\ value_pre' = Head(net[<<l, Gateway>>]).onoff

GatewayHearsReply == \E l \in Target :
  /\ net[<<l, Gateway>>] # << >>
  /\ Head(net[<<l, Gateway>>]).op = "REPLY"
  /\ net' = Taken(net, l, Gateway)
  /\ value_pre' = value_pre \/ "late" \in mishaps'

GatewayGoesOn == net' = net /\ value_pre' = value_pre

LEMMA GatewayStep ==
  ASSUME Assumptions, Inv, OriginInv, G_Next
  PROVE  /\ lost' = lost /\ mishaps \subseteq mishaps' /\ (commands > 0 => commands' > 0)
         /\ gpc' # "idle" => commands' > 0
         /\ GatewaySays \/ GatewayHearsStatus \/ GatewayHearsReply \/ GatewayGoesOn
<1> DEFINE Goal == /\ lost' = lost /\ mishaps \subseteq mishaps' /\ (commands > 0 => commands' > 0)
                   /\ gpc' # "idle" => commands' > 0
                   /\ GatewaySays \/ GatewayHearsStatus \/ GatewayHearsReply \/ GatewayGoesOn
<1>0. /\ N_TypeOK /\ G_TypeOK /\ CommandInv /\ NoSetAwaited /\ Target \subseteq Node
      /\ commands \in Nat /\ (gpc # "idle" => commands > 0) /\ value_pre \in OnOff
      /\ Light4 \in Target \/ gpc # "pair"
  BY Nodes DEF Inv, TypeOK, OriginInv, G_TypeOK, CommandInv, Assumptions, GatewayAssumption
<1> USE DEF MqttGoes, netVars, gatewayHist
<1>1. ASSUME NEW c \in Command, CommandArrives(c) PROVE Goal
  BY <1>0, <1>1 DEF CommandArrives, GatewayGoesOn
<1>2. CASE ParseCommand BY <1>0, <1>2 DEF ParseCommand, GatewayGoesOn
<1>3. CASE WipeCommand BY <1>0, <1>3 DEF WipeCommand, GatewayGoesOn
<1>4. ASSUME NEW to \in Target \cup {None}, SendSet(to), commands > 0, UNCHANGED value_pre
      PROVE  lost' = lost /\ (GatewaySays \/ GatewayGoesOn)
  <2>1. CASE UNCHANGED netVars BY <1>4, <2>1 DEF GatewayGoesOn
  <2>2. CASE to # None /\ Send(Gateway, {to}, [op |-> SetOpcode, onoff |-> value])
    <3>1. [op |-> "SET_UNACK", onoff |-> value] \in Message BY <1>0 DEF Message, G_TypeOK
    <3>2. to \in Node BY <1>0, <2>2
    <3>3. QED BY <1>4, <2>2, <3>1, <3>2 DEF Send, SetOpcode, GatewaySays
  <2>3. QED BY <1>4, <2>1, <2>2 DEF SendSet
<1>5. CASE SendCommand
  <2>1. /\ SendSet(address_des) /\ address_des \in Target \cup {None} /\ commands > 0
        /\ UNCHANGED <<value_pre, mishaps, commands>>
    BY <1>0, <1>5 DEF SendCommand, G_TypeOK
  <2>2. QED BY <1>0, <1>4, <2>1
<1>6. CASE SendPair
  <2>1. /\ SendSet(Light4) /\ Light4 \in Target \cup {None} /\ commands > 0
        /\ UNCHANGED <<value_pre, mishaps, commands>>
    BY <1>0, <1>6 DEF SendPair
  <2>2. QED BY <1>0, <1>4, <2>1
<1>7. ASSUME NEW l \in Target, GatewayRecvStatus(l) PROVE Goal
  <2>1. /\ net[<<l, Gateway>>] # << >> /\ Head(net[<<l, Gateway>>]).op = "STATUS"
        /\ net' = Taken(net, l, Gateway) /\ lost' = lost
    BY <1>7 DEF GatewayRecvStatus, Arrives, Take
  <2>2. value_pre' = Head(net[<<l, Gateway>>]).onoff /\ UNCHANGED <<mishaps, commands, gpc>>
    BY <1>7 DEF GatewayRecvStatus, ClientPublishEvt
  <2>3. QED BY <1>0, <2>1, <2>2 DEF GatewayHearsStatus
<1>8. ASSUME NEW l \in Target, GatewayRecvReply(l) PROVE Goal
  <2>1. /\ net[<<l, Gateway>>] # << >> /\ Head(net[<<l, Gateway>>]).op = "REPLY"
        /\ net' = Taken(net, l, Gateway) /\ lost' = lost
    BY <1>8 DEF GatewayRecvReply, Arrives, Take
  <2>2. /\ value_pre' = value_pre \/ "late" \in mishaps'
        /\ mishaps \subseteq mishaps' /\ UNCHANGED <<commands, gpc>>
    BY <1>8 DEF GatewayRecvReply, ClientPublishEvt
  <2>3. QED BY <1>0, <2>1, <2>2 DEF GatewayHearsReply
<1>9. ASSUME NEW l \in Target, ClientTimeout(l) PROVE Goal
  BY <1>0, <1>9 DEF ClientTimeout, NoSetAwaited, GatewayGoesOn
<1>10. CASE PublishReport BY <1>0, <1>10 DEF PublishReport, GatewayGoesOn
<1>11. CASE GatewayTap
  <2>1. PICK l \in Target : Send(Gateway, {l}, [op |-> "GET", onoff |-> 0])
    BY <1>11 DEF GatewayTap
  <2>2. [op |-> "GET", onoff |-> 0] \in Message BY DEF Message, OnOff
  <2>3. GatewaySays /\ lost' = lost
    BY <1>0, <1>11, <2>1, <2>2 DEF Send, GatewaySays, GatewayTap
  <2>4. QED BY <1>0, <1>11, <2>3 DEF GatewayTap
<1>12. QED BY <1>1, <1>2, <1>3, <1>5, <1>6, <1>7, <1>8, <1>9, <1>10, <1>11
           DEF G_Next, MqttTask, GatewayCallback

-----------------------------------------------------------------------------
(* Where messages come from.                                               *)

AllMaySend(n) == \A c \in Channel : \A i \in DOMAIN n[c] : MaySend(c, n[c][i])

(* What is left after a message was taken is what was there.               *)
LEMMA TakenMaySend ==
  ASSUME NEW n \in [Channel -> Seq(Message)], NEW s \in Node, NEW d \in Node,
         n[<<s, d>>] # << >>, AllMaySend(n)
  PROVE  AllMaySend(Taken(n, s, d))
<1> SUFFICES ASSUME NEW c \in Channel, NEW i \in DOMAIN Taken(n, s, d)[c]
             PROVE  MaySend(c, Taken(n, s, d)[c][i])
  BY DEF AllMaySend
<1>1. CASE c = <<s, d>>
  <2>1. n[c] \in Seq(Message) /\ Taken(n, s, d)[c] = Tail(n[c]) BY <1>1, ChannelsTaken
  <2>2. i + 1 \in DOMAIN n[c] /\ Taken(n, s, d)[c][i] = n[c][i + 1] BY <1>1, <2>1, TailAt
  <2>3. QED BY <2>2 DEF AllMaySend
<1>2. CASE c # <<s, d>>
  <2>1. Taken(n, s, d)[c] = n[c] BY <1>2, ChannelsTaken
  <2>2. QED BY <2>1 DEF AllMaySend
<1>3. QED BY <1>1, <1>2

(* What was sent is what its sender may send.                              *)
LEMMA SentMaySend ==
  ASSUME NEW n \in [Channel -> Seq(Message)], NEW s \in Node, NEW dsts, NEW m \in Message,
         AllMaySend(n), \A d \in dsts \cap Node : MaySend(<<s, d>>, m)
  PROVE  AllMaySend(Sent(n, s, dsts, m))
<1> SUFFICES ASSUME NEW a \in Node, NEW b \in Node,
                    NEW i \in DOMAIN Sent(n, s, dsts, m)[<<a, b>>]
             PROVE  MaySend(<<a, b>>, Sent(n, s, dsts, m)[<<a, b>>][i])
  BY DEF AllMaySend, Channel
<1>1. <<a, b>> \in Channel /\ n[<<a, b>>] \in Seq(Message) BY DEF Channel
<1>2. CASE a = s /\ b \in dsts
  <2>1. Sent(n, s, dsts, m)[<<a, b>>] = Append(n[<<a, b>>], m) BY <1>1, <1>2 DEF Sent
  <2>2. \/ i \in DOMAIN n[<<a, b>>] /\ Sent(n, s, dsts, m)[<<a, b>>][i] = n[<<a, b>>][i]
        \/ Sent(n, s, dsts, m)[<<a, b>>][i] = m
    <3>1. /\ Len(n[<<a, b>>]) \in Nat /\ DOMAIN n[<<a, b>>] = 1..Len(n[<<a, b>>])
          /\ i \in 1..(Len(n[<<a, b>>]) + 1)
      BY <1>1, <2>1, AppendAt
    <3>2. i \in DOMAIN n[<<a, b>>] \/ i = Len(n[<<a, b>>]) + 1 BY <3>1
    <3>3. QED BY <1>1, <2>1, <3>2, AppendAt
  <2>3. QED BY <1>1, <1>2, <2>2 DEF AllMaySend
<1>3. CASE ~(a = s /\ b \in dsts)
  <2>1. Sent(n, s, dsts, m)[<<a, b>>] = n[<<a, b>>] BY <1>3, ChannelsSent
  <2>2. QED BY <1>1, <2>1 DEF AllMaySend
<1>4. QED BY <1>2, <1>3

(* Nothing is on its way to a node that lost its power.                    *)
LEMMA DeafenMaySend ==
  ASSUME NEW d, Deafen(d), AllMaySend(net)
  PROVE  AllMaySend(net')
<1> SUFFICES ASSUME NEW c \in Channel, NEW i \in DOMAIN net'[c] PROVE MaySend(c, net'[c][i])
  BY DEF AllMaySend
<1>1. net'[c] = IF c[2] = d THEN << >> ELSE net[c] BY DEF Deafen
<1>2. c[2] # d
  <2>1. DOMAIN << >> = {} OBVIOUS
  <2>2. QED BY <1>1, <2>1
<1>3. QED BY <1>1, <1>2 DEF AllMaySend

LEMMA OriginStep ==
  ASSUME Assumptions, Inv, OriginInv, [Next]_vars
  PROVE  OriginInv'
<1>0. /\ N_TypeOK /\ L_TypeOK /\ S_TypeOK /\ G_TypeOK /\ AllMaySend(net)
      /\ net \in [Channel -> Seq(Message)]
  BY DEF Inv, TypeOK, OriginInv, AllMaySend, N_TypeOK
<1>1. ASSUME AllMaySend(net'), commands > 0 => commands' > 0, gpc' # "idle" => commands' > 0
      PROVE  OriginInv'
  <2>1. ASSUME NEW c, NEW m, MaySend(c, m) PROVE MaySend(c, m)'
    BY <1>1, <2>1 DEF MaySend
  <2>2. QED BY <1>1, <2>1 DEF OriginInv, AllMaySend
<1>2. ASSUME AllMaySend(net'), UNCHANGED gatewayVars PROVE OriginInv'
  <2>1. commands' = commands /\ gpc' = gpc BY <1>2 DEF gatewayVars
  <2>2. QED BY <1>1, <1>2, <2>1 DEF OriginInv
<1>3. ASSUME NEW l \in Light, L_Next(l) PROVE AllMaySend(net')
  <2>0. l \in Node BY Nodes
  <2>1. ASSUME NEW c \in Node, RecvSet(l, c) PROVE AllMaySend(net')
    BY <1>0, <2>0, <2>1, TakenMaySend DEF RecvSet, Take, Arrives
  <2>2. ASSUME NEW c \in Node, RecvGet(l, c) PROVE AllMaySend(net')
    <3> DEFINE m == [op |-> "REPLY", onoff |-> SrvStateOnoff]
    <3>1. AllMaySend(Taken(net, c, l)) /\ Taken(net, c, l) \in [Channel -> Seq(Message)]
      BY <1>0, <2>0, <2>2, TakenMaySend, TakenType DEF RecvGet, Arrives
    <3>2. m \in Message BY DEF Message, OnOff, SrvStateOnoff
    <3>3. \A d \in {c} \cap Node : MaySend(<<l, d>>, m) BY DEF MaySend
    <3>4. net' = Sent(Taken(net, c, l), l, {c}, m) BY <2>2 DEF RecvGet
    <3> HIDE DEF m
    <3>5. QED BY <2>0, <3>1, <3>2, <3>3, <3>4, SentMaySend
  <2>3. CASE Publish(l)
    <3> DEFINE m == [op |-> "STATUS", onoff |-> state_led[l]]
    <3>1. m \in Message BY <1>0 DEF Message, L_TypeOK
    <3>2. \A d \in Subscribers[l] \cap Node : MaySend(<<l, d>>, m) BY DEF MaySend
    <3>3. net' = Sent(net, l, Subscribers[l], m) BY <2>3 DEF Publish, Send
    <3> HIDE DEF m
    <3>4. QED BY <1>0, <2>0, <3>1, <3>2, <3>3, SentMaySend
  <2>4. CASE PowerCycle(l) BY <1>0, <2>4, DeafenMaySend DEF PowerCycle
  <2>5. CASE net' = net BY <1>0, <2>5
  <2>6. QED BY <1>3, <2>1, <2>2, <2>3, <2>4, <2>5 DEF L_Next, AppMain, Callback, BootStart,
            RestoreOpen, RestoreGet, RestoreClose, RestoreShow, ShowSet, SaveOpen, SaveSet,
            SaveCommit, SaveClose, netVars
<1>4. CASE LightsMove BY <1>2, <1>3, <1>4 DEF LightsMove
<1>5. CASE SwitchMoves
  <2>1. CASE Tap
    <3> DEFINE m == [op |-> "SET_UNACK", onoff |-> state_button']
    <3>1. m \in Message BY <1>0, <2>1 DEF Tap, S_TypeOK, OnOff, Message
    <3>2. \A d \in Group \cap Node : MaySend(<<Switch, d>>, m) BY DEF MaySend
    <3>3. net' = Sent(net, Switch, Group, m) \/ net' = net BY <2>1 DEF Tap, Send, netVars
    <3> HIDE DEF m
    <3>4. AllMaySend(net') BY <1>0, <3>1, <3>2, <3>3, SentMaySend, Nodes
    <3>5. QED BY <1>2, <1>5, <3>4 DEF SwitchMoves
  <2>2. ASSUME NEW l \in Node, SwitchRecvStatus(l) PROVE OriginInv'
    <3>1. AllMaySend(net')
      BY <1>0, <2>2, TakenMaySend, Nodes DEF SwitchRecvStatus, Take, Arrives
    <3>2. QED BY <1>2, <1>5, <3>1 DEF SwitchMoves
  <2>3. CASE SwitchPowerCycle
    BY <1>0, <1>2, <1>5, <2>3, DeafenMaySend DEF SwitchMoves, SwitchPowerCycle
  <2>4. QED BY <1>5, <2>1, <2>2, <2>3 DEF SwitchMoves, S_Next, SwitchHears
<1>6. CASE GatewayMoves
  <2>1. /\ (commands > 0 => commands' > 0) /\ (gpc' # "idle" => commands' > 0)
        /\ GatewaySays \/ GatewayHearsStatus \/ GatewayHearsReply \/ GatewayGoesOn
    BY <1>6, GatewayStep DEF GatewayMoves
  <2>2. CASE GatewaySays
    <3>1. PICK to \in Node, m \in Message :
            /\ net' = Sent(net, Gateway, {to}, m)
            /\ m.op = "GET" \/ (m.op = "SET_UNACK" /\ commands > 0)
      BY <2>2 DEF GatewaySays
    <3>2. \A d \in {to} \cap Node : MaySend(<<Gateway, d>>, m) BY <3>1 DEF MaySend
    <3>3. AllMaySend(net') BY <1>0, <3>1, <3>2, SentMaySend, Nodes
    <3>4. QED BY <1>1, <2>1, <3>3
  <2>3. CASE GatewayHearsStatus \/ GatewayHearsReply
    <3>1. AllMaySend(net')
      BY <1>0, <2>3, TakenMaySend, Nodes DEF GatewayHearsStatus, GatewayHearsReply
    <3>2. QED BY <1>1, <2>1, <3>1
  <2>4. CASE GatewayGoesOn BY <1>0, <1>1, <2>1, <2>4 DEF GatewayGoesOn
  <2>5. QED BY <2>1, <2>2, <2>3, <2>4
<1>7. CASE AirLoses
  <2>1. PICK c \in Channel : Lose(c[1], c[2]) BY <1>7 DEF AirLoses
  <2>2. c[1] \in Node /\ c[2] \in Node BY DEF Channel
  <2>3. AllMaySend(net') BY <1>0, <2>1, <2>2, TakenMaySend DEF Lose
  <2>4. QED BY <1>2, <1>7, <2>3 DEF AirLoses
<1>8. CASE UNCHANGED vars
  BY <1>0, <1>2, <1>8 DEF vars, netVars
<1>9. QED BY <1>4, <1>5, <1>6, <1>7, <1>8 DEF Next

-----------------------------------------------------------------------------
(* Reports on their way.                                                   *)

(* No report joins the channel from a to b.                                *)
NoNewReport(a, b) ==
  \/ net'[<<a, b>>] = net[<<a, b>>]
  \/ net[<<a, b>>] # << >> /\ net'[<<a, b>>] = Tail(net[<<a, b>>])
  \/ net'[<<a, b>>] = << >>
  \/ \E m \in Message : m.op # "STATUS" /\ net'[<<a, b>>] = Append(net[<<a, b>>], m)

LEMMA NoNewReportKeeps ==
  ASSUME N_TypeOK, NEW a \in Node, NEW b \in Node, NoNewReport(a, b),
         NEW v, LastStatusIs(net[<<a, b>>], v)
  PROVE  LastStatusIs(net'[<<a, b>>], v)
<1>1. net[<<a, b>>] \in Seq(Message) BY DEF N_TypeOK, Channel
<1>2. ASSUME NEW q \in Seq(Message), LastStatusIs(q, v)
      PROVE  /\ q # << >> => LastStatusIs(Tail(q), v)
             /\ \A m \in Message : m.op # "STATUS" => LastStatusIs(Append(q, m), v)
             /\ LastStatusIs(<< >>, v)
  BY <1>2, TailKeepsLast, AppendOther, NoStatus
<1>3. QED BY <1>1, <1>2 DEF NoNewReport

LEMMA TakenNoReport ==
  ASSUME N_TypeOK, NEW s \in Node, NEW d \in Node, net[<<s, d>>] # << >>,
         net' = Taken(net, s, d), NEW a \in Node, NEW b \in Node
  PROVE  NoNewReport(a, b)
<1>1. <<a, b>> \in Channel /\ net \in [Channel -> Seq(Message)] BY DEF N_TypeOK, Channel
<1>2. CASE a = s /\ b = d
  <2>1. net'[<<a, b>>] = Tail(net[<<a, b>>]) /\ net[<<a, b>>] # << >>
    BY <1>1, <1>2, ChannelsTaken
  <2>2. QED BY <2>1 DEF NoNewReport
<1>3. CASE ~(a = s /\ b = d)
  <2>1. <<a, b>> # <<s, d>> BY <1>3
  <2>2. QED BY <1>1, <2>1, ChannelsTaken DEF NoNewReport
<1>4. QED BY <1>2, <1>3

LEMMA SentNoReport ==
  ASSUME NEW s, NEW dsts, NEW m \in Message, net' = Sent(net, s, dsts, m),
         NEW a \in Node, NEW b \in Node, m.op # "STATUS" \/ a # s
  PROVE  NoNewReport(a, b)
<1>1. CASE a = s /\ b \in dsts
  <2>1. net'[<<a, b>>] = Append(net[<<a, b>>], m) BY <1>1 DEF Sent, Channel
  <2>2. QED BY <1>1, <2>1 DEF NoNewReport
<1>2. CASE ~(a = s /\ b \in dsts)
  <2>1. net'[<<a, b>>] = net[<<a, b>>] BY <1>2, ChannelsSent
  <2>2. QED BY <2>1 DEF NoNewReport
<1>3. QED BY <1>1, <1>2

LEMMA DeafenNoReport ==
  ASSUME NEW d, Deafen(d), NEW a \in Node, NEW b \in Node
  PROVE  NoNewReport(a, b)
BY DEF Deafen, Channel, NoNewReport

(* A light that answers a GET touches two channels: the gateway's to it,   *)
(* and its own to the gateway.                                             *)
LEMMA AnswerChannels ==
  ASSUME Assumptions, N_TypeOK, NEW l \in Light, AnswersGet(l), NEW a \in Node, NEW b \in Node
  PROVE  /\ NoNewReport(a, b)
         /\ a # Gateway /\ b # Gateway => net'[<<a, b>>] = net[<<a, b>>]
         /\ StatusWaits(net[<<a, b>>]) /\ a # Gateway => StatusWaits(net'[<<a, b>>])
<1> DEFINE m == [op |-> "REPLY", onoff |-> 0]
           n == Taken(net, Gateway, l)
<1>0. /\ l \in Node /\ Gateway \in Node /\ l # Gateway
      /\ <<a, b>> \in Channel /\ net \in [Channel -> Seq(Message)]
      /\ net[<<a, b>>] \in Seq(Message)
      /\ net[<<Gateway, l>>] # << >>
  BY Nodes DEF N_TypeOK, Channel, AnswersGet
<1>1. m \in Message /\ m.op # "STATUS" BY DEF Message, OnOff
<1>2. net' = Sent(n, l, {Gateway}, m) BY DEF AnswersGet
<1>3. /\ n[<<Gateway, l>>] = Tail(net[<<Gateway, l>>])
      /\ <<a, b>> # <<Gateway, l>> => n[<<a, b>>] = net[<<a, b>>]
  BY <1>0, ChannelsTaken
<1> HIDE DEF m, n
<1>4. CASE a = l /\ b = Gateway
  <2>1. net'[<<a, b>>] = Append(n[<<a, b>>], m) BY <1>0, <1>2, <1>4 DEF Sent, Channel
  <2>2. n[<<a, b>>] = net[<<a, b>>] BY <1>0, <1>3, <1>4
  <2>3. QED BY <1>0, <1>1, <1>4, <2>1, <2>2, AppendOther DEF NoNewReport
<1>5. CASE ~(a = l /\ b = Gateway)
  <2>1. net'[<<a, b>>] = n[<<a, b>>] BY <1>2, <1>5, ChannelsSent
  <2>2. CASE a = Gateway /\ b = l BY <1>0, <1>3, <2>1, <2>2 DEF NoNewReport
  <2>3. CASE ~(a = Gateway /\ b = l) BY <1>3, <2>1, <2>3 DEF NoNewReport
  <2>4. QED BY <2>2, <2>3
<1>6. QED BY <1>4, <1>5

(* A light that is left alone keeps its promise while no report is added.  *)
LEMMA OtherKeepsPromise ==
  ASSUME Assumptions, N_TypeOK, NEW k \in Light, SameAt(k), KeepsPromise(k),
         \A d \in Node : NoNewReport(k, d)
  PROVE  KeepsPromise(k)'
<1>1. k \in Node /\ Subscribers[k] \subseteq Node BY Nodes
<1>2. Undisturbed(k)' => Undisturbed(k) BY DEF Undisturbed, Clean, SameAt
<1>3. ASSUME Undisturbed(k)', NEW d \in Subscribers[k]
      PROVE  LastStatusIs(net'[<<k, d>>], promised'[k])
  <2>1. d \in Node /\ LastStatusIs(net[<<k, d>>], promised[k])
    BY <1>1, <1>2, <1>3 DEF KeepsPromise
  <2>2. LastStatusIs(net'[<<k, d>>], promised[k]) BY <1>1, <2>1, NoNewReportKeeps
  <2>3. QED BY <2>2 DEF SameAt
<1>4. QED BY <1>3 DEF KeepsPromise, SameAt

(* So does the light that moves.                                           *)
LEMMA MoverKeepsPromise ==
  ASSUME Assumptions, N_TypeOK, L_TypeOK, NEW l \in Light, OneLightInv(l), KeepsPromise(l),
         HearsSet(l) \/ Reports(l) \/ AnswersGet(l) \/ GoesOn(l)
  PROVE  KeepsPromise(l)'
<1>0. l \in Node /\ Subscribers[l] \subseteq Node BY Nodes
<1>1. CASE HearsSet(l) BY <1>1 DEF HearsSet, KeepsPromise, Undisturbed
<1>2. CASE Reports(l)
  <2> DEFINE m == [op |-> "STATUS", onoff |-> state_led[l]]
  <2>1. m \in Message /\ m.op = "STATUS" /\ m.onoff = state_led[l] BY DEF Message, L_TypeOK
  <2>2. net' = Sent(net, l, Subscribers[l], m) BY <1>2 DEF Reports
  <2> HIDE DEF m
  <2>3. ASSUME NEW d \in Subscribers[l] PROVE LastStatusIs(net'[<<l, d>>], state_led[l])
    <3>1. net[<<l, d>>] \in Seq(Message) /\ d \in Node BY <1>0 DEF N_TypeOK, Channel
    <3>2. net'[<<l, d>>] = Append(net[<<l, d>>], m) BY <1>0, <2>2, <3>1 DEF Sent, Channel
    <3>3. QED BY <2>1, <3>1, <3>2, AppendStatus
  <2>4. Undisturbed(l)' => trouble[l] = {} BY <1>2 DEF Reports, Undisturbed, Clean
  <2>5. QED BY <1>2, <2>3, <2>4 DEF Reports, KeepsPromise
<1>3. CASE AnswersGet(l)
  BY <1>0, <1>3, AnswerChannels, OtherKeepsPromise DEF AnswersGet
<1>4. CASE GoesOn(l)
  <2>1. Undisturbed(l)' => Undisturbed(l) BY <1>4 DEF GoesOn, Undisturbed, Clean
  <2>2. promised[l] # NoValue => state_led'[l] = promised[l]
    BY <1>4 DEF GoesOn, KeepsPromise, OneLightInv, PromiseInv
  <2>3. QED BY <1>4, <2>1, <2>2 DEF GoesOn, KeepsPromise
<1>5. QED BY <1>1, <1>2, <1>3, <1>4

LEMMA PromisedStep ==
  ASSUME Assumptions, Inv, OriginInv, PromisedInv, [Next]_vars
  PROVE  PromisedInv'
<1> SUFFICES ASSUME crashes' = 0, NEW k \in Light PROVE KeepsPromise(k)'
  BY DEF PromisedInv
<1>0. N_TypeOK /\ L_TypeOK /\ S_TypeOK /\ LightInv BY DEF Inv, TypeOK
<1>1. k \in Node /\ Switch # k /\ Gateway # k BY Nodes
<1>2. ASSUME NEW l \in Light, L_Next(l) PROVE KeepsPromise(k)'
  <2>1. /\ crashes = 0
        /\ \A j \in Light \ {l} : SameAt(j)
        /\ HearsSet(l) \/ Reports(l) \/ AnswersGet(l) \/ GoesOn(l)
    BY <1>0, <1>2, LightMoves
  <2>2. l \in Node /\ KeepsPromise(k) /\ KeepsPromise(l) /\ OneLightInv(l)
    BY <1>0, <2>1, Nodes DEF PromisedInv, LightInv
  <2>3. CASE k = l BY <1>0, <2>1, <2>2, <2>3, MoverKeepsPromise
  <2>4. CASE k # l
    <3>1. ASSUME NEW d \in Node PROVE NoNewReport(k, d)
      <4>1. CASE HearsSet(l)
        BY <1>0, <1>1, <2>2, <4>1, TakenNoReport, Nodes DEF HearsSet
      <4>2. CASE Reports(l)
        <5>1. [op |-> "STATUS", onoff |-> state_led[l]] \in Message
          BY <1>0 DEF Message, L_TypeOK
        <5>2. QED BY <1>1, <2>4, <4>2, <5>1, SentNoReport DEF Reports
      <4>3. CASE AnswersGet(l) BY <1>0, <1>1, <4>3, AnswerChannels
      <4>4. CASE GoesOn(l) BY <4>4 DEF GoesOn, NoNewReport
      <4>5. QED BY <2>1, <4>1, <4>2, <4>3, <4>4
    <3>2. QED BY <1>0, <2>1, <2>2, <2>4, <3>1, OtherKeepsPromise
  <2>5. QED BY <2>3, <2>4
<1>3. ASSUME UNCHANGED lightVars, \A d \in Node : NoNewReport(k, d) PROVE KeepsPromise(k)'
  <2>1. SameAt(k) BY <1>3 DEF SameAt, lightVars, lightStore, lightTasks
  <2>2. KeepsPromise(k) BY <1>3 DEF PromisedInv, lightVars
  <2>3. QED BY <1>0, <1>3, <2>1, <2>2, OtherKeepsPromise
<1>4. CASE SwitchMoves
  <2>1. ASSUME NEW d \in Node PROVE NoNewReport(k, d)
    <3>1. CASE Tap
      <4>1. [op |-> "SET_UNACK", onoff |-> state_button'] \in Message
        BY <1>0, <3>1 DEF Tap, S_TypeOK, OnOff, Message
      <4>2. CASE net' = net BY <4>2 DEF NoNewReport
      <4>3. CASE net' = Sent(net, Switch, Group, [op |-> "SET_UNACK", onoff |-> state_button'])
        BY <1>1, <4>1, <4>3, SentNoReport
      <4>4. QED BY <3>1, <4>2, <4>3 DEF Tap, Send, netVars
    <3>2. ASSUME NEW l \in Node, SwitchRecvStatus(l) PROVE NoNewReport(k, d)
      BY <1>0, <1>1, <3>2, TakenNoReport, Nodes DEF SwitchRecvStatus, Take, Arrives
    <3>3. CASE SwitchPowerCycle BY <1>1, <3>3, DeafenNoReport DEF SwitchPowerCycle
    <3>4. QED BY <1>4, <3>1, <3>2, <3>3 DEF SwitchMoves, S_Next, SwitchHears
  <2>2. QED BY <1>3, <1>4, <2>1 DEF SwitchMoves
<1>5. CASE GatewayMoves
  <2>1. ASSUME NEW d \in Node PROVE NoNewReport(k, d)
    <3>1. GatewaySays \/ GatewayHearsStatus \/ GatewayHearsReply \/ GatewayGoesOn
      BY <1>5, GatewayStep DEF GatewayMoves
    <3>2. CASE GatewaySays BY <1>1, <3>2, SentNoReport DEF GatewaySays
    <3>3. CASE GatewayHearsStatus \/ GatewayHearsReply
      BY <1>0, <1>1, <3>3, TakenNoReport, Nodes DEF GatewayHearsStatus, GatewayHearsReply
    <3>4. CASE GatewayGoesOn BY <3>4 DEF GatewayGoesOn, NoNewReport
    <3>5. QED BY <3>1, <3>2, <3>3, <3>4
  <2>2. QED BY <1>3, <1>5, <2>1 DEF GatewayMoves
<1>6. CASE AirLoses
  <2>1. PICK c \in Channel : Lose(c[1], c[2]) BY <1>6 DEF AirLoses
  <2>2. c[1] \in Node /\ c[2] \in Node BY DEF Channel
  <2>3. \A d \in Node : NoNewReport(k, d) BY <1>0, <1>1, <2>1, <2>2, TakenNoReport DEF Lose
  <2>4. QED BY <1>3, <1>6, <2>3 DEF AirLoses
<1>7. CASE UNCHANGED vars BY <1>3, <1>7 DEF vars, netVars, NoNewReport
<1>8. QED BY <1>2, <1>4, <1>5, <1>6, <1>7 DEF Next, LightsMove

-----------------------------------------------------------------------------
(* What the gateway reported.                                              *)

LEMMA DashStep ==
  ASSUME Assumptions, Inv, DashInv, [Next]_vars
  PROVE  DashInv'
<1> SUFFICES ASSUME "garbled" \notin mishaps', OneButton
             PROVE  /\ cbpc' = "idle" => \A b \in Name : dash'[b] = value_pre'
                    /\ cbpc' = "publish" /\ string_json'.text = "report" =>
                         string_json'.onoff = value_pre'
  BY DEF DashInv, OneButton
<1> DEFINE Goal == /\ cbpc' = "idle" => \A b \in Name : dash'[b] = value_pre'
                   /\ cbpc' = "publish" /\ string_json'.text = "report" =>
                        string_json'.onoff = value_pre'
<1>0. G_TypeOK /\ NoSetAwaited BY DEF Inv, TypeOK
<1>1. ASSUME UNCHANGED <<value_pre, cbpc, dash, mishaps>>,
             string_json' = string_json \/ string_json'.text # "report"
      PROVE  Goal
  BY <1>1 DEF DashInv
<1>2. ASSUME NEW l \in Target, NEW v, ClientPublishEvt(l, v), mishaps \subseteq mishaps',
             cbpc = "idle"
      PROVE  Goal
  <2>1. CASE v # value_pre BY <1>2, <2>1 DEF ClientPublishEvt, ReportText
  <2>2. CASE v = value_pre BY <1>2, <2>2 DEF ClientPublishEvt, DashInv
  <2>3. QED BY <2>1, <2>2
<1>3. ASSUME NEW c \in Command, CommandArrives(c) PROVE Goal
  BY <1>1, <1>3 DEF CommandArrives, CommandText
<1>4. CASE ParseCommand BY <1>1, <1>4 DEF ParseCommand, gatewayHist
<1>5. CASE WipeCommand BY <1>1, <1>5 DEF WipeCommand, Blank, gatewayHist
<1>6. CASE SendCommand \/ SendPair BY <1>1, <1>6 DEF SendCommand, SendPair
<1>7. ASSUME NEW l \in Target, GatewayRecvStatus(l) PROVE Goal
  BY <1>2, <1>7 DEF GatewayRecvStatus
<1>8. ASSUME NEW l \in Target, GatewayRecvReply(l) PROVE Goal
  BY <1>1, <1>2, <1>8 DEF GatewayRecvReply, gatewayHist
<1>9. ASSUME NEW l \in Target, ClientTimeout(l) PROVE Goal
  BY <1>1, <1>9 DEF ClientTimeout, gatewayHist
<1>10. CASE PublishReport
  <2>1. string_json.text = "report" BY <1>10 DEF PublishReport
  <2>2. PICK b \in Name, v \in OnOff : string_json = ReportText(b, v)
    BY <1>0, <2>1 DEF G_TypeOK, Text, Blank, CommandText, ReportText
  <2>3. dash' = [dash EXCEPT ![b] = v] /\ UNCHANGED <<value_pre, mishaps>>
    BY <1>10, <2>1, <2>2 DEF PublishReport, ReportText
  <2>4. v = value_pre BY <1>10, <2>1, <2>2, <2>3 DEF PublishReport, ReportText, DashInv
  <2>5. ASSUME NEW c \in Name PROVE dash'[c] = value_pre'
    BY <1>0, <2>3, <2>4, <2>5 DEF OneButton, G_TypeOK
  <2>6. QED BY <1>10, <2>5 DEF PublishReport
<1>11. CASE GatewayTap BY <1>1, <1>11 DEF GatewayTap, gatewayHist
<1>12. CASE UNCHANGED gatewayVars
  BY <1>1, <1>12 DEF gatewayVars, gatewayData, gatewayHist
<1>13. QED BY <1>3, <1>4, <1>5, <1>6, <1>7, <1>8, <1>9, <1>10, <1>11, <1>12
           DEF Next, LightsMove, SwitchMoves, GatewayMoves, AirLoses, vars,
               G_Next, MqttTask, GatewayCallback

-----------------------------------------------------------------------------
(* Which channels a step touches: those of the node that moves.            *)

LEMMA LightTouches ==
  ASSUME Assumptions, N_TypeOK, NEW l \in Light, NEW a \in Node \ {l}, NEW b \in Node \ {l},
         HearsSet(l) \/ Reports(l) \/ AnswersGet(l) \/ GoesOn(l)
  PROVE  net'[<<a, b>>] = net[<<a, b>>]
<1>0. l \in Node /\ <<a, b>> \in Channel /\ Switch \in Node /\ Gateway \in Node
      /\ net \in [Channel -> Seq(Message)]
  BY Nodes DEF Channel, N_TypeOK
<1>1. CASE HearsSet(l)
  <2>1. PICK c \in Node : net' = Taken(net, c, l) BY <1>0, <1>1 DEF HearsSet
  <2>2. <<a, b>> # <<c, l>> OBVIOUS
  <2>3. \A k \in Channel : k # <<c, l>> => Taken(net, c, l)[k] = net[k]
    BY <1>0, ChannelsTaken
  <2>4. Taken(net, c, l)[<<a, b>>] = net[<<a, b>>] BY <1>0, <2>2, <2>3
  <2>5. QED BY <2>1, <2>4
<1>2. CASE Reports(l) BY <1>2, ChannelsSent DEF Reports
<1>3. CASE AnswersGet(l)
  <2>1. net'[<<a, b>>] = Taken(net, Gateway, l)[<<a, b>>]
    BY <1>3, ChannelsSent DEF AnswersGet
  <2>2. <<a, b>> # <<Gateway, l>> OBVIOUS
  <2>3. Taken(net, Gateway, l)[<<a, b>>] = net[<<a, b>>] BY <1>0, <2>2, ChannelsTaken
  <2>4. QED BY <2>1, <2>3
<1>4. CASE GoesOn(l) BY <1>4 DEF GoesOn
<1>5. QED BY <1>1, <1>2, <1>3, <1>4

LEMMA SwitchTouches ==
  ASSUME Assumptions, N_TypeOK, S_Next, NEW a \in Node \ {Switch}, NEW b \in Node \ {Switch}
  PROVE  net'[<<a, b>>] = net[<<a, b>>]
<1>0. <<a, b>> \in Channel /\ Switch \in Node /\ net \in [Channel -> Seq(Message)]
  BY Nodes DEF Channel, N_TypeOK
<1>1. CASE Tap
  <2>1. \/ net' = net
        \/ net' = Sent(net, Switch, Group, [op |-> "SET_UNACK", onoff |-> state_button'])
    BY <1>1 DEF Tap, Send, netVars
  <2>2. QED BY <2>1, ChannelsSent
<1>2. ASSUME NEW k \in Node, SwitchRecvStatus(k) PROVE net'[<<a, b>>] = net[<<a, b>>]
  <2>1. <<a, b>> # <<k, Switch>> OBVIOUS
  <2>2. QED BY <1>0, <1>2, <2>1, ChannelsTaken DEF SwitchRecvStatus, Take
<1>3. CASE SwitchPowerCycle BY <1>0, <1>3 DEF SwitchPowerCycle, Deafen, Channel
<1>4. QED BY <1>1, <1>2, <1>3 DEF S_Next, SwitchHears

LEMMA GatewayTouches ==
  ASSUME Assumptions, N_TypeOK, NEW a \in Node \ {Gateway}, NEW b \in Node \ {Gateway},
         GatewaySays \/ GatewayHearsStatus \/ GatewayHearsReply \/ GatewayGoesOn
  PROVE  net'[<<a, b>>] = net[<<a, b>>]
<1>0. /\ <<a, b>> \in Channel /\ Gateway \in Node /\ Target \subseteq Node
      /\ net \in [Channel -> Seq(Message)]
  BY Nodes DEF Channel, N_TypeOK
<1>1. CASE GatewaySays BY <1>1, ChannelsSent DEF GatewaySays
<1>2. CASE GatewayHearsStatus \/ GatewayHearsReply
  <2>1. PICK k \in Node : net' = Taken(net, k, Gateway)
    BY <1>0, <1>2 DEF GatewayHearsStatus, GatewayHearsReply
  <2>2. <<a, b>> # <<k, Gateway>> OBVIOUS
  <2>3. QED BY <1>0, <2>1, <2>2, ChannelsTaken
<1>3. CASE GatewayGoesOn BY <1>3 DEF GatewayGoesOn
<1>4. QED BY <1>1, <1>2, <1>3

(* The switch and the gateway lose nothing of what is said.                *)
LEMMA SwitchLosesNothing == ASSUME S_Next PROVE lost' = lost
BY DEF S_Next, SwitchHears, Tap, SwitchRecvStatus, SwitchPowerCycle, Send, Take, Deafen, netVars

LEMMA AirLosesOne == ASSUME N_TypeOK, AirLoses PROVE lost' # 0
<1>1. PICK c \in Channel : Lose(c[1], c[2]) BY DEF AirLoses
<1>2. lost' = lost + 1 BY <1>1 DEF Lose
<1>3. lost \in Nat BY DEF N_TypeOK
<1>4. QED BY <1>2, <1>3

-----------------------------------------------------------------------------
(* Who has heard of a light.                                               *)

(* A report is heard: either another one waits, or it was the promise.     *)
LEMMA ReportHeard ==
  ASSUME Assumptions, N_TypeOK, NEW k \in Light, NEW d \in Subscribers[k],
         KeepsPromise(k), UNCHANGED lightVars, net[<<k, d>>] # << >>,
         Head(net[<<k, d>>]).op = "STATUS", net' = Taken(net, k, d)
  PROVE  \/ ~Undisturbed(k)' \/ StatusWaits(net'[<<k, d>>])
         \/ promised'[k] = Head(net[<<k, d>>]).onoff
<1>0. /\ k \in Node /\ d \in Node /\ net[<<k, d>>] \in Seq(Message)
      /\ net \in [Channel -> Seq(Message)]
  BY Nodes DEF N_TypeOK, Channel
<1> SUFFICES ASSUME Undisturbed(k)', ~StatusWaits(net'[<<k, d>>])
             PROVE  promised'[k] = Head(net[<<k, d>>]).onoff
  OBVIOUS
<1>1. Undisturbed(k) /\ promised' = promised
  BY DEF Undisturbed, Clean, lightVars, lightTasks
<1>2. LastStatusIs(net[<<k, d>>], promised[k]) BY <1>1 DEF KeepsPromise
<1>3. net'[<<k, d>>] = Tail(net[<<k, d>>]) BY <1>0, ChannelsTaken
<1>4. StatusWaits(net[<<k, d>>]) BY <1>0, TailAt DEF StatusWaits
<1>5. Head(net[<<k, d>>]).onoff = promised[k] BY <1>0, <1>2, <1>3, <1>4, TailWaits
<1>6. QED BY <1>1, <1>5

(* A light that has just reported is unheard by its subscribers.           *)
LEMMA ReportWaits ==
  ASSUME Assumptions, N_TypeOK, L_TypeOK, NEW l \in Light, Reports(l), NEW d \in Subscribers[l]
  PROVE  StatusWaits(net'[<<l, d>>])
<1> DEFINE m == [op |-> "STATUS", onoff |-> state_led[l]]
<1>0. l \in Node /\ d \in Node /\ net[<<l, d>>] \in Seq(Message)
  BY Nodes DEF N_TypeOK, Channel
<1>1. m \in Message /\ m.op = "STATUS" BY DEF Message, L_TypeOK
<1>2. net' = Sent(net, l, Subscribers[l], m) BY DEF Reports
<1> HIDE DEF m
<1>3. net'[<<l, d>>] = Append(net[<<l, d>>], m) BY <1>0, <1>2 DEF Sent, Channel
<1>4. QED BY <1>0, <1>1, <1>3, AppendStatus

(* A step that is no report leaves a light as disturbed as it was, and its *)
(* promise as it was unless a SET disturbs it.                             *)
LEMMA StillUndisturbed ==
  ASSUME NEW l, HearsSet(l) \/ AnswersGet(l) \/ GoesOn(l)
  PROVE  Undisturbed(l)' => Undisturbed(l) /\ promised'[l] = promised[l]
BY DEF HearsSet, AnswersGet, GoesOn, SameAt, Undisturbed, Clean

-----------------------------------------------------------------------------
(* What the switch believes.                                               *)

(* A light's step leaves someone of the group for the switch to follow.    *)
LEMMA LightKeepsFollowing ==
  ASSUME Assumptions, WiringAssumption, N_TypeOK, L_TypeOK, NEW l \in Light,
         HearsSet(l) \/ Reports(l) \/ AnswersGet(l) \/ GoesOn(l),
         \A k \in Light \ {l} : SameAt(k), UNCHANGED state_button,
         NEW w \in Group, SwitchFollows(w)
  PROVE  SwitchFollows(w)'
<1>0. /\ l \in Node /\ w \in Light /\ w \in Node /\ Switch \in Node /\ Gateway \in Node
      /\ Switch # l /\ Switch # w /\ Gateway # l /\ Switch # Gateway
  BY Nodes
<1>1. CASE w # l
  <2>1. net'[<<Switch, w>>] = net[<<Switch, w>>] /\ net'[<<w, Switch>>] = net[<<w, Switch>>]
    BY <1>0, <1>1, LightTouches
  <2>2. SameAt(w) BY <1>0, <1>1
  <2>3. QED BY <2>1, <2>2 DEF SwitchFollows, Unheard, Undisturbed, Clean, SameAt
<1>2. CASE w = l
  <2>1. CASE HearsSet(l)
    BY <1>2, <2>1 DEF HearsSet, SwitchFollows, Unheard, Undisturbed
  <2>2. CASE Reports(l)
    <3>1. Switch \in Subscribers[l] BY <1>0, <1>2, WiringAssumption DEF WiringAssumption
    <3>2. StatusWaits(net'[<<l, Switch>>]) BY <2>2, <3>1, ReportWaits
    <3>3. QED BY <1>2, <3>2 DEF SwitchFollows, Unheard
  <2>3. CASE AnswersGet(l)
    <3>1. net'[<<Switch, l>>] = net[<<Switch, l>>] /\ net'[<<l, Switch>>] = net[<<l, Switch>>]
      BY <1>0, <2>3, AnswerChannels
    <3>2. SameAt(l) BY <2>3 DEF AnswersGet
    <3>3. QED BY <1>2, <3>1, <3>2 DEF SwitchFollows, Unheard, Undisturbed, Clean, SameAt
  <2>4. CASE GoesOn(l)
    <3>1. Undisturbed(l)' => Undisturbed(l) /\ promised'[l] = promised[l]
      BY <2>4, StillUndisturbed
    <3>2. promised'[l] = promised[l] /\ net' = net BY <2>4 DEF GoesOn
    <3>3. QED BY <1>2, <3>1, <3>2 DEF SwitchFollows, Unheard
  <2>5. QED BY <2>1, <2>2, <2>3, <2>4
<1>3. QED BY <1>1, <1>2

LEMMA SwitchStep ==
  ASSUME Assumptions, WiringAssumption, Inv, OriginInv, PromisedInv, SwitchInv, [Next]_vars
  PROVE  SwitchInv'
<1> SUFFICES ASSUME lost' = 0, crashes' = 0, sure', Group # {}
             PROVE  \E w \in Group : SwitchFollows(w)'
  BY DEF SwitchInv, NothingLost
<1>0. N_TypeOK /\ L_TypeOK /\ S_TypeOK /\ G_TypeOK /\ LightInv BY DEF Inv, TypeOK
<1>1. ASSUME NEW l \in Light, L_Next(l), UNCHANGED switchVars
      PROVE  \E w \in Group : SwitchFollows(w)'
  <2>1. /\ crashes = 0 /\ lost' = lost /\ \A k \in Light \ {l} : SameAt(k)
        /\ HearsSet(l) \/ Reports(l) \/ AnswersGet(l) \/ GoesOn(l)
    BY <1>0, <1>1, LightMoves
  <2>2. sure /\ state_button' = state_button BY <1>1 DEF switchVars
  <2>3. PICK w \in Group : SwitchFollows(w) BY <2>1, <2>2 DEF SwitchInv, NothingLost
  <2>4. QED BY <1>0, <2>1, <2>2, <2>3, LightKeepsFollowing
<1>2. ASSUME S_Next, UNCHANGED lightVars PROVE \E w \in Group : SwitchFollows(w)'
  <2>1. CASE Tap
    <3> DEFINE m == [op |-> "SET_UNACK", onoff |-> state_button']
    <3>1. PICK w \in Group : w \in Node BY Nodes
    <3>2. m \in Message BY <1>0, <2>1 DEF Tap, S_TypeOK, OnOff, Message
    <3>3. net' = Sent(net, Switch, Group, m) BY <2>1 DEF Tap, Send
    <3> HIDE DEF m
    <3>4. net'[<<Switch, w>>] = Append(net[<<Switch, w>>], m)
      BY <3>1, <3>3, Nodes DEF Sent, Channel
    <3>5. net[<<Switch, w>>] \in Seq(Message) BY <1>0, <3>1, Nodes DEF N_TypeOK, Channel
    <3>6. net'[<<Switch, w>>] # << >> BY <3>2, <3>4, <3>5, AppendAt
    <3>7. QED BY <3>6 DEF SwitchFollows
  <2>2. ASSUME NEW k \in Node, SwitchRecvStatus(k) PROVE \E w \in Group : SwitchFollows(w)'
    <3>1. /\ net[<<k, Switch>>] # << >> /\ Head(net[<<k, Switch>>]).op = "STATUS"
          /\ net' = Taken(net, k, Switch) /\ state_button' = Head(net[<<k, Switch>>]).onoff
      BY <2>2 DEF SwitchRecvStatus, Arrives, Take
    <3>2. k \in Light /\ Switch \in Subscribers[k] BY <1>0, <3>1, HeadMaySend, Nodes
    <3>3. k \in Group BY <3>2, WiringAssumption DEF WiringAssumption
    <3>4. crashes = 0 /\ KeepsPromise(k) BY <1>2, <3>2 DEF lightVars, PromisedInv
    <3>5. \/ ~Undisturbed(k)' \/ StatusWaits(net'[<<k, Switch>>])
          \/ promised'[k] = Head(net[<<k, Switch>>]).onoff
      BY <1>0, <1>2, <3>1, <3>2, <3>4, ReportHeard
    <3>6. SwitchFollows(k)' BY <3>1, <3>5 DEF SwitchFollows, Unheard
    <3>7. QED BY <3>3, <3>6
  <2>3. ~SwitchPowerCycle BY DEF SwitchPowerCycle
  <2>4. QED BY <1>2, <2>1, <2>2, <2>3 DEF S_Next, SwitchHears
<1>3. ASSUME UNCHANGED <<lightVars, switchVars>>, lost' = lost,
             \A w \in Group : /\ net'[<<Switch, w>>] = net[<<Switch, w>>]
                              /\ net'[<<w, Switch>>] = net[<<w, Switch>>]
      PROVE  \E w \in Group : SwitchFollows(w)'
  <2>1. sure /\ crashes = 0 /\ lost = 0 /\ state_button' = state_button
        /\ promised' = promised /\ bpc' = bpc /\ trouble' = trouble
    BY <1>3 DEF lightVars, lightTasks, switchVars
  <2>2. PICK w \in Group : SwitchFollows(w) BY <2>1 DEF SwitchInv, NothingLost
  <2>3. SwitchFollows(w)' BY <1>3, <2>1, <2>2 DEF SwitchFollows, Unheard, Undisturbed, Clean
  <2>4. QED BY <2>3
<1>4. CASE GatewayMoves
  <2>1. /\ lost' = lost
        /\ GatewaySays \/ GatewayHearsStatus \/ GatewayHearsReply \/ GatewayGoesOn
    BY <1>4, GatewayStep DEF GatewayMoves
  <2>2. ASSUME NEW w \in Group
        PROVE  /\ net'[<<Switch, w>>] = net[<<Switch, w>>]
               /\ net'[<<w, Switch>>] = net[<<w, Switch>>]
    <3>1. w \in Node \ {Gateway} /\ Switch \in Node \ {Gateway} BY Nodes
    <3>2. QED BY <1>0, <2>1, <3>1, GatewayTouches
  <2>3. QED BY <1>3, <1>4, <2>1, <2>2 DEF GatewayMoves
<1>5. ~AirLoses BY <1>0, AirLosesOne
<1>6. CASE UNCHANGED vars BY <1>3, <1>6 DEF vars, netVars
<1>7. QED BY <1>1, <1>2, <1>4, <1>5, <1>6 DEF Next, LightsMove, SwitchMoves

-----------------------------------------------------------------------------
(* Where the last press is.                                                *)

LEMMA LightKeepsPress ==
  ASSUME Assumptions, N_TypeOK, L_TypeOK, LightInv, commands = 0, NEW l \in Light,
         HearsSet(l) \/ Reports(l) \/ AnswersGet(l) \/ GoesOn(l),
         \A k \in Light \ {l} : SameAt(k),
         NEW w \in Group, NEW v \in OnOff, PressReaches(w, v)
  PROVE  PressReaches(w, v)'
<1> DEFINE q == net[<<Switch, w>>]
<1>0. /\ l \in Node /\ w \in Light /\ w \in Node /\ Switch \in Node /\ Gateway \in Node
      /\ Switch # l /\ Switch # w /\ Gateway # l /\ Switch # Gateway
      /\ <<Switch, w>> \in Channel /\ net \in [Channel -> Seq(Message)] /\ q \in Seq(Message)
  BY Nodes DEF N_TypeOK, Channel
<1>1. CASE w # l
  <2>1. net'[<<Switch, w>>] = net[<<Switch, w>>] BY <1>0, <1>1, LightTouches
  <2>2. SameAt(w) BY <1>0, <1>1
  <2>3. QED BY <2>1, <2>2 DEF PressReaches, Clean, SameAt
<1>2. CASE w = l
  <2>1. CASE HearsSet(l)
    <3>1. /\ q # << >> /\ net' = Taken(net, Switch, l)
          /\ bpc'[l] = "gpio" /\ state_led'[l] = Head(q).onoff
      BY <1>2, <2>1 DEF HearsSet
    <3>2. net'[<<Switch, w>>] = Tail(q) BY <1>0, <1>2, <3>1, ChannelsTaken
    <3>3. q[Len(q)].onoff = v BY <3>1 DEF PressReaches
    <3>4. /\ Tail(q) # << >> => Tail(q)[Len(Tail(q))] = q[Len(q)]
          /\ Tail(q) = << >> => Head(q) = q[Len(q)]
      BY <1>0, <3>1, TailEnd
    <3>5. QED BY <1>2, <3>1, <3>2, <3>3, <3>4 DEF PressReaches
  <2>2. CASE Reports(l)
    <3>1. net'[<<Switch, w>>] = net[<<Switch, w>>] BY <1>0, <2>2, ChannelsSent DEF Reports
    <3>2. QED BY <1>2, <2>2, <3>1 DEF Reports, PressReaches, Clean
  <2>3. CASE AnswersGet(l)
    <3>1. net'[<<Switch, w>>] = net[<<Switch, w>>] BY <1>0, <1>2, <2>3, AnswerChannels
    <3>2. SameAt(w) BY <1>2, <2>3 DEF AnswersGet
    <3>3. QED BY <3>1, <3>2 DEF PressReaches, Clean, SameAt
  <2>4. CASE GoesOn(l)
    <3>1. Clean(l)' => Clean(l) BY <2>4 DEF GoesOn, Clean
    <3>2. Clean(l) /\ bpc[l] # "idle" => state_led'[l] = state_led[l]
      BY <2>4 DEF GoesOn, LightInv, OneLightInv, CallbackInv
    <3>3. QED BY <1>2, <2>4, <3>1, <3>2 DEF GoesOn, PressReaches
  <2>5. QED BY <2>1, <2>2, <2>3, <2>4
<1>3. QED BY <1>1, <1>2

LEMMA PressStep ==
  ASSUME Assumptions, Inv, OriginInv, PromisedInv, PressInv, [Next]_vars
  PROVE  PressInv'
<1> SUFFICES ASSUME lost' = 0, crashes' = 0, taps' > 0, refusals' = 0, commands' = 0
             PROVE  \E v \in OnOff : \A w \in Group : PressReaches(w, v)'
  BY DEF PressInv, NothingLost
<1>0. N_TypeOK /\ L_TypeOK /\ S_TypeOK /\ G_TypeOK /\ LightInv BY DEF Inv, TypeOK
<1>1. ASSUME NEW l \in Light, L_Next(l), UNCHANGED <<switchVars, gatewayVars>>
      PROVE  \E v \in OnOff : \A w \in Group : PressReaches(w, v)'
  <2>1. /\ crashes = 0 /\ lost' = lost /\ \A k \in Light \ {l} : SameAt(k)
        /\ HearsSet(l) \/ Reports(l) \/ AnswersGet(l) \/ GoesOn(l)
    BY <1>0, <1>1, LightMoves
  <2>2. taps > 0 /\ refusals = 0 /\ commands = 0 BY <1>1 DEF switchVars, gatewayVars
  <2>3. PICK v \in OnOff : \A w \in Group : PressReaches(w, v)
    BY <2>1, <2>2 DEF PressInv, NothingLost
  <2>4. QED BY <1>0, <2>1, <2>2, <2>3, LightKeepsPress
<1>2. ASSUME UNCHANGED <<lightVars, taps, refusals, commands>>, lost' = lost,
             \A w \in Group : net'[<<Switch, w>>] = net[<<Switch, w>>]
      PROVE  \E v \in OnOff : \A w \in Group : PressReaches(w, v)'
  <2>1. /\ taps > 0 /\ refusals = 0 /\ commands = 0 /\ crashes = 0 /\ lost = 0
        /\ promised' = promised /\ bpc' = bpc /\ trouble' = trouble /\ state_led' = state_led
    BY <1>2 DEF lightVars, lightTasks
  <2>2. PICK v \in OnOff : \A w \in Group : PressReaches(w, v)
    BY <2>1 DEF PressInv, NothingLost
  <2>3. QED BY <1>2, <2>1, <2>2 DEF PressReaches, Clean
<1>3. ASSUME Tap PROVE \E v \in OnOff : \A w \in Group : PressReaches(w, v)'
  <2> DEFINE m == [op |-> "SET_UNACK", onoff |-> state_button']
  <2>1. refusals \in Nat /\ state_button' \in OnOff BY <1>0, <1>3 DEF Tap, S_TypeOK, OnOff
  <2>2. m \in Message /\ m.onoff = state_button' BY <2>1 DEF Message
  <2>3. net' = Sent(net, Switch, Group, m) BY <1>3, <2>1 DEF Tap, Send
  <2> HIDE DEF m
  <2>4. ASSUME NEW w \in Group PROVE PressReaches(w, state_button)'
    <3>1. net[<<Switch, w>>] \in Seq(Message) /\ w \in Node /\ Switch \in Node
      BY <1>0, Nodes DEF N_TypeOK, Channel
    <3>2. net'[<<Switch, w>>] = Append(net[<<Switch, w>>], m)
      BY <2>3, <3>1 DEF Sent, Channel
    <3>3. /\ net'[<<Switch, w>>] # << >>
          /\ net'[<<Switch, w>>][Len(net'[<<Switch, w>>])] = m
      <4>1. ASSUME NEW q \in Seq(Message)
            PROVE  Append(q, m) # << >> /\ Append(q, m)[Len(Append(q, m))] = m
        BY <2>2, AppendAt
      <4>2. QED BY <3>1, <3>2, <4>1
    <3>4. QED BY <2>2, <3>3 DEF PressReaches
  <2>5. QED BY <2>1, <2>4
<1>4. CASE SwitchMoves
  <2>1. CASE Tap BY <1>3, <2>1
  <2>2. ASSUME NEW k \in Node, SwitchRecvStatus(k)
        PROVE  \E v \in OnOff : \A w \in Group : PressReaches(w, v)'
    <3>1. /\ net[<<k, Switch>>] # << >> /\ net' = Taken(net, k, Switch)
          /\ lost' = lost /\ UNCHANGED <<taps, refusals>>
      BY <2>2 DEF SwitchRecvStatus, Arrives, Take
    <3>2. ASSUME NEW w \in Group PROVE net'[<<Switch, w>>] = net[<<Switch, w>>]
      <4>1. <<Switch, w>> # <<k, Switch>> /\ <<Switch, w>> \in Channel /\ Switch \in Node
        BY Nodes DEF Channel
      <4>2. Taken(net, k, Switch)[<<Switch, w>>] = net[<<Switch, w>>]
        BY <1>0, <4>1, ChannelsTaken DEF N_TypeOK
      <4>3. QED BY <3>1, <4>2
    <3>3. QED BY <1>2, <1>4, <3>1, <3>2 DEF SwitchMoves, gatewayVars
  <2>3. CASE SwitchPowerCycle
    <3>1. Deafen(Switch) /\ UNCHANGED <<taps, refusals>> BY <2>3 DEF SwitchPowerCycle
    <3>2. ASSUME NEW w \in Group PROVE net'[<<Switch, w>>] = net[<<Switch, w>>]
      <4>1. <<Switch, w>> \in Channel /\ w # Switch BY Nodes DEF Channel
      <4>2. QED BY <3>1, <4>1 DEF Deafen
    <3>3. QED BY <1>2, <1>4, <3>1, <3>2 DEF SwitchMoves, gatewayVars, Deafen
  <2>4. QED BY <1>4, <2>1, <2>2, <2>3 DEF SwitchMoves, S_Next, SwitchHears
<1>5. CASE GatewayMoves
  <2>1. /\ lost' = lost /\ (commands > 0 => commands' > 0)
        /\ GatewaySays \/ GatewayHearsStatus \/ GatewayHearsReply \/ GatewayGoesOn
    BY <1>5, GatewayStep DEF GatewayMoves
  <2>2. commands' = commands
    <3>1. commands \in Nat BY <1>0 DEF G_TypeOK
    <3>2. ~(commands > 0) BY <2>1
    <3>3. QED BY <3>1, <3>2
  <2>3. ASSUME NEW w \in Group PROVE net'[<<Switch, w>>] = net[<<Switch, w>>]
    <3>1. w \in Node \ {Gateway} /\ Switch \in Node \ {Gateway} BY Nodes
    <3>2. QED BY <1>0, <2>1, <3>1, GatewayTouches
  <2>4. QED BY <1>2, <1>5, <2>1, <2>2, <2>3 DEF GatewayMoves, switchVars
<1>6. ~AirLoses BY <1>0, AirLosesOne
<1>7. CASE UNCHANGED vars
  BY <1>2, <1>7 DEF vars, netVars, switchVars, gatewayVars
<1>8. QED BY <1>1, <1>4, <1>5, <1>6, <1>7 DEF Next, LightsMove
-----------------------------------------------------------------------------
(* What the gateway reported last.                                         *)

(* A light's step leaves someone for the gateway to follow.                *)
LEMMA LightKeepsReported ==
  ASSUME Assumptions, WiringAssumption, N_TypeOK, L_TypeOK, NEW l \in Light,
         HearsSet(l) \/ Reports(l) \/ AnswersGet(l) \/ GoesOn(l),
         \A k \in Light \ {l} : SameAt(k), UNCHANGED value_pre,
         NEW w \in Light, GatewayFollows(w)
  PROVE  GatewayFollows(w)'
<1>0. /\ l \in Node /\ w \in Node /\ Gateway \in Node /\ Gateway # l /\ Gateway # w
  BY Nodes
<1>1. CASE w # l
  <2>1. net'[<<w, Gateway>>] = net[<<w, Gateway>>] BY <1>0, <1>1, LightTouches
  <2>2. SameAt(w) BY <1>1
  <2>3. QED BY <2>1, <2>2 DEF GatewayFollows, Unheard, Undisturbed, Clean, SameAt
<1>2. CASE w = l
  <2>1. CASE HearsSet(l)
    BY <1>2, <2>1 DEF HearsSet, GatewayFollows, Unheard, Undisturbed
  <2>2. CASE Reports(l)
    <3>1. Gateway \in Subscribers[l] BY WiringAssumption DEF WiringAssumption
    <3>2. StatusWaits(net'[<<l, Gateway>>]) BY <2>2, <3>1, ReportWaits
    <3>3. QED BY <1>2, <3>2 DEF GatewayFollows, Unheard
  <2>3. CASE AnswersGet(l)
    <3>1. StatusWaits(net[<<l, Gateway>>]) => StatusWaits(net'[<<l, Gateway>>])
      BY <1>0, <2>3, AnswerChannels
    <3>2. SameAt(l) BY <2>3 DEF AnswersGet
    <3>3. QED BY <1>2, <3>1, <3>2 DEF GatewayFollows, Unheard, Undisturbed, Clean, SameAt
  <2>4. CASE GoesOn(l)
    <3>1. Undisturbed(l)' => Undisturbed(l) /\ promised'[l] = promised[l]
      BY <2>4, StillUndisturbed
    <3>2. promised'[l] = promised[l] /\ net' = net BY <2>4 DEF GoesOn
    <3>3. QED BY <1>2, <3>1, <3>2 DEF GatewayFollows, Unheard
  <2>5. QED BY <2>1, <2>2, <2>3, <2>4
<1>3. QED BY <1>1, <1>2

LEMMA ReportedStep ==
  ASSUME Assumptions, WiringAssumption, Inv, OriginInv, PromisedInv, GatewayInv, [Next]_vars
  PROVE  GatewayInv'
<1> SUFFICES ASSUME lost' = 0, crashes' = 0, "late" \notin mishaps',
                    \E l \in Light : promised'[l] # NoValue
             PROVE  \E w \in Light : GatewayFollows(w)'
  BY DEF GatewayInv, NothingLost
<1>0. N_TypeOK /\ L_TypeOK /\ S_TypeOK /\ G_TypeOK /\ LightInv BY DEF Inv, TypeOK
<1>1. ASSUME NEW l \in Light, L_Next(l), UNCHANGED gatewayVars
      PROVE  \E w \in Light : GatewayFollows(w)'
  <2>1. /\ crashes = 0 /\ lost' = lost /\ \A k \in Light \ {l} : SameAt(k)
        /\ HearsSet(l) \/ Reports(l) \/ AnswersGet(l) \/ GoesOn(l)
    BY <1>0, <1>1, LightMoves
  <2>2. "late" \notin mishaps /\ value_pre' = value_pre
    BY <1>1 DEF gatewayVars, gatewayData, gatewayHist
  <2>3. CASE Reports(l)
    <3>1. Gateway \in Subscribers[l] BY WiringAssumption DEF WiringAssumption
    <3>2. StatusWaits(net'[<<l, Gateway>>]) BY <1>0, <2>3, <3>1, ReportWaits
    <3>3. GatewayFollows(l)' BY <3>2 DEF GatewayFollows, Unheard
    <3>4. QED BY <3>3
  <2>4. CASE ~Reports(l)
    <3>1. \A k \in Light : promised'[k] # NoValue => promised[k] # NoValue
      BY <2>1, <2>4 DEF HearsSet, AnswersGet, GoesOn, SameAt
    <3>2. PICK w \in Light : GatewayFollows(w)
      BY <2>1, <2>2, <3>1 DEF GatewayInv, NothingLost
    <3>3. GatewayFollows(w)' BY <1>0, <2>1, <2>2, <3>2, LightKeepsReported
    <3>4. QED BY <3>3
  <2>5. QED BY <2>3, <2>4
<1>2. ASSUME UNCHANGED lightVars, "late" \notin mishaps, lost' = lost, value_pre' = value_pre,
             \A w \in Light :
               StatusWaits(net[<<w, Gateway>>]) => StatusWaits(net'[<<w, Gateway>>])
      PROVE  \E w \in Light : GatewayFollows(w)'
  <2>1. crashes = 0 /\ promised' = promised /\ bpc' = bpc /\ trouble' = trouble
    BY <1>2 DEF lightVars, lightTasks
  <2>2. PICK w \in Light : GatewayFollows(w) BY <1>2, <2>1 DEF GatewayInv, NothingLost
  <2>3. GatewayFollows(w)' BY <1>2, <2>1, <2>2 DEF GatewayFollows, Unheard, Undisturbed, Clean
  <2>4. QED BY <2>3
<1>3. CASE SwitchMoves
  <2>1. S_Next /\ UNCHANGED <<lightVars, gatewayVars>> BY <1>3 DEF SwitchMoves
  <2>2. "late" \notin mishaps /\ value_pre' = value_pre
    BY <2>1 DEF gatewayVars, gatewayData, gatewayHist
  <2>3. lost' = lost BY <2>1, SwitchLosesNothing
  <2>4. ASSUME NEW w \in Light PROVE net'[<<w, Gateway>>] = net[<<w, Gateway>>]
    <3>1. w \in Node \ {Switch} /\ Gateway \in Node \ {Switch} BY Nodes
    <3>2. QED BY <1>0, <2>1, <3>1, SwitchTouches
  <2>5. QED BY <1>2, <2>1, <2>2, <2>3, <2>4
<1>4. CASE GatewayMoves
  <2>1. /\ lost' = lost /\ mishaps \subseteq mishaps' /\ UNCHANGED lightVars
        /\ GatewaySays \/ GatewayHearsStatus \/ GatewayHearsReply \/ GatewayGoesOn
    BY <1>4, GatewayStep DEF GatewayMoves
  <2>2. "late" \notin mishaps BY <2>1
  <2>3. Gateway \in Node /\ Gateway \notin Light /\ Target \subseteq Node /\ Light \subseteq Node
    BY Nodes
  <2>4. CASE GatewaySays
    <3>1. PICK to \in Node, m \in Message :
            net' = Sent(net, Gateway, {to}, m) /\ value_pre' = value_pre
      BY <2>4 DEF GatewaySays
    <3>2. ASSUME NEW w \in Light PROVE net'[<<w, Gateway>>] = net[<<w, Gateway>>]
      <4>1. w \in Node /\ w # Gateway BY <2>3
      <4>2. QED BY <2>3, <3>1, <4>1, ChannelsSent
    <3>3. QED BY <1>2, <2>1, <2>2, <3>1, <3>2
  <2>5. CASE GatewayHearsStatus
    <3>1. PICK l \in Target : /\ net[<<l, Gateway>>] # << >>
                              /\ Head(net[<<l, Gateway>>]).op = "STATUS"
                              /\ net' = Taken(net, l, Gateway)
                              /\ value_pre' = Head(net[<<l, Gateway>>]).onoff
      BY <2>5 DEF GatewayHearsStatus
    <3>2. l \in Light /\ Gateway \in Subscribers[l] BY <1>0, <2>3, <3>1, HeadMaySend
    <3>3. crashes = 0 /\ KeepsPromise(l) BY <2>1, <3>2 DEF lightVars, PromisedInv
    <3>4. \/ ~Undisturbed(l)' \/ StatusWaits(net'[<<l, Gateway>>])
          \/ promised'[l] = Head(net[<<l, Gateway>>]).onoff
      BY <1>0, <2>1, <3>1, <3>2, <3>3, ReportHeard
    <3>5. GatewayFollows(l)' BY <3>1, <3>4 DEF GatewayFollows, Unheard
    <3>6. QED BY <3>2, <3>5
  <2>6. CASE GatewayHearsReply
    <3>1. PICK l \in Target : /\ net[<<l, Gateway>>] # << >>
                              /\ Head(net[<<l, Gateway>>]).op = "REPLY"
                              /\ net' = Taken(net, l, Gateway)
                              /\ value_pre' = value_pre
      BY <2>6 DEF GatewayHearsReply
    <3>2. ASSUME NEW w \in Light, StatusWaits(net[<<w, Gateway>>])
          PROVE  StatusWaits(net'[<<w, Gateway>>])
      <4>1. /\ <<w, Gateway>> \in Channel /\ l \in Node /\ net \in [Channel -> Seq(Message)]
            /\ net[<<w, Gateway>>] \in Seq(Message)
        BY <1>0, <2>3 DEF N_TypeOK, Channel
      <4>2. CASE w = l
        <5>1. net'[<<w, Gateway>>] = Tail(net[<<w, Gateway>>])
          BY <2>3, <3>1, <4>1, <4>2, ChannelsTaken
        <5>2. QED BY <3>1, <3>2, <4>1, <4>2, <5>1, TailWaits
      <4>3. CASE w # l
        <5>1. <<w, Gateway>> # <<l, Gateway>> BY <4>3
        <5>2. net'[<<w, Gateway>>] = net[<<w, Gateway>>]
          BY <2>3, <3>1, <4>1, <5>1, ChannelsTaken
        <5>3. QED BY <3>2, <5>2
      <4>4. QED BY <4>2, <4>3
    <3>3. QED BY <1>2, <2>1, <2>2, <3>1, <3>2
  <2>7. CASE GatewayGoesOn BY <1>2, <2>1, <2>2, <2>7 DEF GatewayGoesOn
  <2>8. QED BY <2>1, <2>4, <2>5, <2>6, <2>7
<1>5. ~AirLoses BY <1>0, AirLosesOne
<1>6. CASE UNCHANGED vars
  BY <1>2, <1>6 DEF vars, netVars, gatewayVars, gatewayData, gatewayHist
<1>7. QED BY <1>1, <1>3, <1>4, <1>5, <1>6 DEF Next, LightsMove

-----------------------------------------------------------------------------
(* The invariant of the home.                                              *)

LEMMA HomeInit == ASSUME Assumptions, Inv, Init PROVE HomeInv
<1>1. /\ \A c \in Channel : net[c] = << >>
      /\ DOMAIN << >> = {}
      /\ lost = 0 /\ crashes = 0 /\ ~sure /\ taps = 0 /\ commands = 0
      /\ gpc = "idle" /\ cbpc = "idle" /\ value_pre = 0
      /\ \A b \in Name : dash[b] = 0
      /\ \A l \in Light : promised[l] = NoValue
  BY DEF Init, N_Init, L_Init, S_Init, G_Init
<1>2. OriginInv BY <1>1 DEF OriginInv
<1>3. PromisedInv
  <2> SUFFICES ASSUME NEW l \in Light, NEW d \in Subscribers[l]
               PROVE  LastStatusIs(net[<<l, d>>], promised[l])
    BY <1>1 DEF PromisedInv, KeepsPromise
  <2>1. <<l, d>> \in Channel BY Nodes DEF Channel
  <2>2. QED BY <1>1, <2>1, NoStatus
<1>4. SwitchInv BY <1>1 DEF SwitchInv
<1>5. PressInv BY <1>1 DEF PressInv
<1>6. GatewayInv BY <1>1 DEF GatewayInv
<1>7. DashInv BY <1>1 DEF DashInv
<1>8. QED BY <1>2, <1>3, <1>4, <1>5, <1>6, <1>7 DEF HomeInv, Inv

(* Wherever the news of a light is, it is on its way to whoever has to     *)
(* hear it: the origin of messages, the promises, and what the switch and  *)
(* the gateway have still to hear, through every step of the home.         *)
THEOREM HomeInvariance == Spec => []HomeInv
<1> USE MaxLossAssumption, LightAssumption, SwitchAssumption, GatewayAssumption,
        NetworkAssumption, WiringAssumption
<1>1. Assumptions BY DEF Assumptions
<1>2. Inv /\ Init => HomeInv BY <1>1, HomeInit
<1>3. Inv /\ Inv' /\ HomeInv /\ [Next]_vars => HomeInv'
  <2> SUFFICES ASSUME Inv, Inv', HomeInv, [Next]_vars PROVE HomeInv'
    OBVIOUS
  <2>0. OriginInv /\ PromisedInv /\ SwitchInv /\ PressInv /\ GatewayInv /\ DashInv
    BY DEF HomeInv
  <2>1. OriginInv' BY <1>1, <2>0, OriginStep
  <2>2. PromisedInv' BY <1>1, <2>0, PromisedStep
  <2>3. SwitchInv' BY <1>1, <2>0, SwitchStep
  <2>4. PressInv' BY <1>1, <2>0, PressStep
  <2>5. GatewayInv' BY <1>1, <2>0, ReportedStep
  <2>6. DashInv' BY <1>1, <2>0, DashStep
  <2>7. QED BY <2>1, <2>2, <2>3, <2>4, <2>5, <2>6 DEF HomeInv, Inv
<1>4. QED BY <1>2, <1>3, Invariance, PTL DEF Spec

(* At rest nobody has anything left to hear.                               *)
LEMMA QuietHeard ==
  ASSUME Assumptions, Quiet, NoTrouble, NEW l \in Light, NEW d \in Node
  PROVE  /\ net[<<l, d>>] = << >> /\ net[<<d, l>>] = << >>
         /\ bpc[l] = "idle" /\ Clean(l) /\ ~Unheard(l, d)
<1>1. <<l, d>> \in Channel /\ <<d, l>> \in Channel BY Nodes DEF Channel
<1>2. net[<<l, d>>] = << >> /\ net[<<d, l>>] = << >> BY <1>1 DEF Quiet, Silent
<1>3. bpc[l] = "idle" /\ Clean(l) BY DEF Quiet, Settled, NoTrouble, Clean
<1>4. QED BY <1>2, <1>3, NoStatus DEF Unheard, Undisturbed

(* At rest, with nothing lost, the switch believes what one of the lights  *)
(* of its group shows (SwitchTracksGroup), whoever sent that light's last  *)
(* SET: the report of it is the last thing the switch heard of the light.  *)
THEOREM SwitchTracks == Spec => []SwitchTracksGroup
<1> USE MaxLossAssumption, LightAssumption, SwitchAssumption, GatewayAssumption,
        NetworkAssumption
<1>1. Assumptions BY DEF Assumptions
<1>2. Inv /\ HomeInv => SwitchTracksGroup
  <2> SUFFICES ASSUME Inv, HomeInv, Quiet, NothingLost, NoTrouble, sure, Group # {}
               PROVE  \E l \in Group : state_button = state_led[l]
    BY DEF SwitchTracksGroup
  <2>1. PICK l \in Group : SwitchFollows(l) BY DEF HomeInv, SwitchInv
  <2>2. l \in Light /\ Switch \in Node BY <1>1, Nodes
  <2>3. promised[l] = state_button BY <1>1, <2>1, <2>2, QuietHeard DEF SwitchFollows
  <2>4. state_button # NoValue BY DEF Inv, TypeOK, S_TypeOK, LightAssumption
  <2>5. KeepsPromise(l) BY <2>2 DEF HomeInv, PromisedInv, NothingLost
  <2>6. QED BY <2>3, <2>4, <2>5 DEF KeepsPromise
<1>3. QED BY <1>2, Invariance, HomeInvariance, PTL

(* At rest, with nothing lost and nobody but the switch in charge, the     *)
(* lights of the group agree with each other and with it (GroupAgrees):    *)
(* the last press reached every one of them, and what the switch believes  *)
(* is what one of them shows.                                              *)
THEOREM PairAgrees == Spec => []GroupAgrees
<1> USE MaxLossAssumption, LightAssumption, SwitchAssumption, GatewayAssumption,
        NetworkAssumption
<1>1. Assumptions BY DEF Assumptions
<1>2. Inv /\ HomeInv => GroupAgrees
  <2> SUFFICES ASSUME Inv, HomeInv, Quiet, NothingLost, NoTrouble, sure, commands = 0,
                      refusals = 0, taps > 0, NEW k \in Group
               PROVE  state_led[k] = state_button
    BY DEF GroupAgrees
  <2>1. PICK v \in OnOff : \A l \in Group : PressReaches(l, v) BY DEF HomeInv, PressInv
  <2>2. PICK w \in Group : SwitchFollows(w) BY DEF HomeInv, SwitchInv
  <2>3. ASSUME NEW l \in Group PROVE promised[l] = v /\ state_led[l] = v
    <3>1. l \in Light /\ Switch \in Node BY <1>1, Nodes
    <3>2. net[<<Switch, l>>] = << >> /\ bpc[l] = "idle" /\ Clean(l)
      BY <1>1, <3>1, QuietHeard
    <3>3. promised[l] = v BY <2>1, <3>2 DEF PressReaches
    <3>4. v # NoValue BY DEF LightAssumption
    <3>5. KeepsPromise(l) BY <3>1 DEF HomeInv, PromisedInv, NothingLost
    <3>6. QED BY <3>3, <3>4, <3>5 DEF KeepsPromise
  <2>4. w \in Light /\ Switch \in Node BY <1>1, Nodes
  <2>5. promised[w] = state_button BY <1>1, <2>2, <2>4, QuietHeard DEF SwitchFollows
  <2>6. QED BY <2>3, <2>5
<1>3. QED BY <1>2, Invariance, HomeInvariance, PTL

(* At rest, with nothing lost, garbled or late, the dashboard of a home    *)
(* with one button shows what a light of that button reported last         *)
(* (DashboardTracks): the filter on value_pre drops no report that would   *)
(* have changed it.                                                        *)
THEOREM DashboardIsTrue == Spec => []DashboardTracks
<1> USE MaxLossAssumption, LightAssumption, SwitchAssumption, GatewayAssumption,
        NetworkAssumption
<1>1. Assumptions BY DEF Assumptions
<1>2. Inv /\ HomeInv => DashboardTracks
  <2> SUFFICES ASSUME Inv, HomeInv, Quiet, NothingLost, NoTrouble, mishaps = {}, OneButton,
                      \E l \in Light : promised[l] # NoValue
               PROVE  \E l \in Light : promised[l] # NoValue /\ dash[Button[l]] = promised[l]
    BY DEF DashboardTracks
  <2>1. PICK l \in Light : GatewayFollows(l) BY DEF HomeInv, GatewayInv
  <2>2. l \in Target /\ Gateway \in Node BY <1>1, Nodes
  <2>3. promised[l] = value_pre BY <1>1, <2>1, <2>2, QuietHeard DEF GatewayFollows
  <2>4. value_pre # NoValue BY DEF Inv, TypeOK, G_TypeOK, LightAssumption
  <2>5. Button[l] \in Name BY <2>2 DEF Name
  <2>6. dash[Button[l]] = value_pre BY <2>5 DEF HomeInv, DashInv, Quiet
  <2>7. QED BY <2>3, <2>4, <2>6
<1>3. QED BY <1>2, Invariance, HomeInvariance, PTL
=============================================================================
