----------------------------- MODULE GatewayNode -----------------------------
(***************************************************************************)
(* The gateway of src/Light-SW/Light-SW/GateWay once it is connected:      *)
(* main.c and app_mqtt.c.  The MQTT task turns commands of the broker into *)
(* SETs; the Bluetooth task turns the lights' STATUS messages into reports *)
(* to the broker.  They share value and string_json without a lock.        *)
(*                                                                         *)
(* The build has one core and the Bluetooth task outranks the MQTT task,   *)
(* so the callback of the former runs in one go up to its first wait: the  *)
(* MQTT client's lock, taken by a publish and held by the MQTT task while  *)
(* it dispatches a command.  Both are external.                            *)
(***************************************************************************)
EXTENDS MeshNet

CONSTANTS
  Gateway,       \* the gateway, a node
  Target,        \* the lights: the nodes a command can address
  Light3, Light4,\* the pair a command to Light3 addresses together
  Button,        \* Button[l]: the name l is reported under
  Command,       \* the commands the broker may send
  None,          \* a field that is missing or does not parse
  TidModulus,    \* the transaction identifiers wrap at 256
  MaxCommand,    \* bound: commands in a behaviour
  MaxGet,        \* bound: GETs the gateway's button sends
  MaxGatewayRefusal \* bound: sends the mesh stack refuses

(* A command addresses a light, or has no usable method; it carries a      *)
(* Boolean, or no usable params.                                           *)
Commands == [addr : Target \cup {None}, val : OnOff \cup {None}]

ASSUME GatewayAssumption ==
  /\ Gateway \in Node
  /\ Target \subseteq Node
  /\ Button \in [Target -> STRING]
  /\ Light3 \in Target => Light4 \in Target
  /\ None \notin Target \cup {Light3} \cup OnOff
  /\ Command \subseteq Commands /\ None \notin Command
  /\ TidModulus \in Nat \ {0}
  /\ MaxCommand \in Nat
  /\ MaxGet \in Nat
  /\ MaxGatewayRefusal \in Nat

VARIABLES
  address_des,  \* destination of the last command that had one
  value,        \* shared: the command's value, and the last STATUS
  value_pre,    \* the value last reported, of whatever light
  string_json,  \* shared: the text of the command, and of the report
  tid,          \* store.tid, the next transaction identifier
  nvs_tid,      \* store.tid as stored in NVS
  pendingOp,    \* the acknowledged operation the mesh stack awaits from a light
  gpc,          \* where the MQTT task is in mqtt_data_callback
  cbpc,         \* where the Bluetooth task is in the client callback
  dash,         \* what the broker was last told, by name of the button
  cmd,          \* history: the command in progress
  overlapped,   \* history: a STATUS came while the command was in progress
  mishaps,      \* history: what kept the dashboard from the truth
  commands, gets, gwRefusals

gatewayData == <<address_des, value, value_pre, string_json, tid, nvs_tid, pendingOp>>
gatewayHist == <<cmd, overlapped, mishaps>>
gatewayVars == <<gatewayData, gpc, cbpc, dash, gatewayHist, commands, gets, gwRefusals>>

(* The text in string_json, by what a reader of it can tell.               *)
Blank == [text |-> "blank"]
CommandText(c) == [text |-> "command", cmd |-> c]
ReportText(b, v) == [text |-> "report", button |-> b, onoff |-> v]
Name == {Button[l] : l \in Target}
Text == {Blank} \cup {CommandText(c) : c \in Command}
        \cup {ReportText(b, v) : b \in Name, v \in OnOff}

G_TypeOK ==
  /\ address_des \in Target \cup {None}
  /\ value \in OnOff
  /\ value_pre \in OnOff
  /\ string_json \in Text
  /\ tid \in 0..(TidModulus - 1)
  /\ nvs_tid \in 0..(TidModulus - 1)
  /\ pendingOp \in [Target -> {"none", "GET", "SET"}]
  /\ gpc \in {"idle", "parse", "wipe", "send", "pair"}
  /\ cbpc \in {"idle", "publish"}
  /\ dash \in [Name -> OnOff]
  /\ cmd \in Command \cup {None}
  /\ overlapped \in BOOLEAN
  /\ mishaps \subseteq {"garbled", "late"}
  /\ commands \in 0..MaxCommand
  /\ gets \in 0..MaxGet
  /\ gwRefusals \in 0..MaxGatewayRefusal

G_Init ==
  /\ address_des = None
  /\ value = 0
  /\ value_pre = 0
  /\ string_json = Blank
  /\ tid = 0
  /\ nvs_tid = 0
  /\ pendingOp = [l \in Target |-> "none"]
  /\ gpc = "idle"
  /\ cbpc = "idle"
  /\ dash = [b \in Name |-> 0]
  /\ cmd = None
  /\ overlapped = FALSE
  /\ mishaps = {}
  /\ commands = 0
  /\ gets = 0
  /\ gwRefusals = 0

-----------------------------------------------------------------------------
(* The MQTT task: mqtt_data_callback.                                      *)

MqttGoes(from, to) == gpc = from /\ gpc' = to

(* MQTT_EVENT_DATA; the payload is printed into string_json, in which it   *)
(* is taken to fit.  It names a light of the home, or none (Command).      *)
CommandArrives(c) ==
  /\ commands < MaxCommand
  /\ commands' = commands + 1
  /\ MqttGoes("idle", "parse")
  /\ string_json' = CommandText(c)
  /\ cmd' = c
  /\ overlapped' = FALSE
  /\ UNCHANGED <<netVars, address_des, value, value_pre, tid, nvs_tid, pendingOp, cbpc, dash,
                 mishaps, gets, gwRefusals>>

(* Mutant: a command without a usable method turns its light off.          *)
ParseDefaultsValue ==
  /\ MqttGoes("parse", "wipe")
  /\ LET isCommand == string_json.text = "command" IN
     /\ address_des' = IF isCommand /\ string_json.cmd.addr # None
                         THEN string_json.cmd.addr ELSE address_des
     /\ value' = IF isCommand /\ string_json.cmd.addr # None /\ string_json.cmd.val # None
                   THEN string_json.cmd.val ELSE 0
  /\ UNCHANGED <<netVars, value_pre, string_json, tid, nvs_tid, pendingOp, cbpc, dash,
                 gatewayHist, commands, gets, gwRefusals>>

(* parse_json_string: a field that is missing leaves its global alone.     *)
ParseCommand ==
  /\ MqttGoes("parse", "wipe")
  /\ LET isCommand == string_json.text = "command" IN
     /\ address_des' = IF isCommand /\ string_json.cmd.addr # None
                         THEN string_json.cmd.addr ELSE address_des
     /\ value' = IF isCommand /\ string_json.cmd.val # None
                   THEN string_json.cmd.val ELSE value
  /\ UNCHANGED <<netVars, value_pre, string_json, tid, nvs_tid, pendingOp, cbpc, dash,
                 gatewayHist, commands, gets, gwRefusals>>

WipeCommand ==
  /\ MqttGoes("wipe", "send")
  /\ string_json' = Blank
  /\ UNCHANGED <<netVars, address_des, value, value_pre, tid, nvs_tid, pendingOp, cbpc, dash,
                 gatewayHist, commands, gets, gwRefusals>>

(* example_ble_mesh_send_gen_onoff_set(to, value): the identifier is used  *)
(* up whether or not the stack takes the message, and stored only when it  *)
(* does.  Address 0, before any command named one, is refused.  The stack  *)
(* awaits an answer to an acknowledged opcode only.                        *)
SetOpcode == "SET_UNACK"

Await(l, op) == pendingOp' = IF op \in {"GET", "SET"}
                               THEN [pendingOp EXCEPT ![l] = op] ELSE pendingOp

SendSet(to) ==
  /\ tid' = (tid + 1) % TidModulus
  /\ \/ /\ to # None
        /\ Send(Gateway, {to}, [op |-> SetOpcode, onoff |-> value])
        /\ Await(to, SetOpcode)
        /\ nvs_tid' = tid'
        /\ UNCHANGED gwRefusals
     \/ /\ to # None
        /\ gwRefusals < MaxGatewayRefusal
        /\ gwRefusals' = gwRefusals + 1
        /\ UNCHANGED <<netVars, nvs_tid, pendingOp>>
     \/ /\ to = None
        /\ UNCHANGED <<netVars, nvs_tid, pendingOp, gwRefusals>>

CommandOver == /\ gpc' = "idle"
               /\ cmd' = None

(* Mutant: the command waits for the callback to finish.                   *)
SendCommandWaits ==
  /\ gpc = "send"
  /\ cbpc = "idle"
  /\ SendSet(address_des)
  /\ IF address_des = Light3 THEN gpc' = "pair" /\ UNCHANGED cmd ELSE CommandOver
  /\ UNCHANGED <<address_des, value, value_pre, string_json, cbpc, dash,
                 overlapped, mishaps, commands, gets>>

SendCommand ==
  /\ gpc = "send"
  /\ SendSet(address_des)
  /\ IF address_des = Light3 THEN gpc' = "pair" /\ UNCHANGED cmd ELSE CommandOver
  /\ UNCHANGED <<address_des, value, value_pre, string_json, cbpc, dash,
                 overlapped, mishaps, commands, gets>>

(* Mutant: the second SET of a pair goes to the light of the first.        *)
SendPairTwice ==
  /\ gpc = "pair"
  /\ SendSet(address_des)
  /\ CommandOver
  /\ UNCHANGED <<address_des, value, value_pre, string_json, cbpc, dash,
                 overlapped, mishaps, commands, gets>>

SendPair ==
  /\ gpc = "pair"
  /\ SendSet(Light4)
  /\ CommandOver
  /\ UNCHANGED <<address_des, value, value_pre, string_json, cbpc, dash,
                 overlapped, mishaps, commands, gets>>

-----------------------------------------------------------------------------
(* The Bluetooth task: example_ble_mesh_generic_client_cb.                 *)

(* Mutant: value_pre is never updated.                                     *)
PublishEvtForgets(l, v) ==
  /\ value' = v
  /\ overlapped' = (overlapped \/ gpc # "idle")
  /\ IF v # value_pre
       THEN /\ string_json' = ReportText(Button[l], v)
            /\ cbpc' = "publish"
       ELSE UNCHANGED <<string_json, cbpc>>
  /\ UNCHANGED <<value_pre, address_des, tid, nvs_tid, gpc, dash, cmd, commands, gets,
                 gwRefusals>>

(* PUBLISH_EVT: remember the value; only when it differs from the last one *)
(* reported, for whatever light, write the report and go on to publish it. *)
ClientPublishEvt(l, v) ==
  /\ value' = v
  /\ overlapped' = (overlapped \/ gpc # "idle")
  /\ IF v # value_pre
       THEN /\ value_pre' = v
            /\ string_json' = ReportText(Button[l], v)
            /\ cbpc' = "publish"
       ELSE UNCHANGED <<value_pre, string_json, cbpc>>
  /\ UNCHANGED <<address_des, tid, nvs_tid, gpc, dash, cmd, commands, gets, gwRefusals>>

GatewayRecvStatus(l) ==
  /\ cbpc = "idle"
  /\ Arrives(l, Gateway, "STATUS")
  /\ ClientPublishEvt(l, Head(net[<<l, Gateway>>]).onoff)
  /\ Take(l, Gateway)
  /\ UNCHANGED <<pendingOp, mishaps>>

(* The answer to a GET is only logged (GET_STATE_EVT); after the request   *)
(* has timed out the stack passes it on as a PUBLISH_EVT.                  *)
GatewayRecvReply(l) ==
  /\ cbpc = "idle"
  /\ Arrives(l, Gateway, "REPLY")
  /\ Take(l, Gateway)
  /\ pendingOp' = [pendingOp EXCEPT ![l] = "none"]
  /\ IF pendingOp[l] = "GET"
       THEN UNCHANGED <<address_des, value, value_pre, string_json, tid, nvs_tid, gpc,
                        cbpc, dash, gatewayHist, commands, gets, gwRefusals>>
       ELSE /\ ClientPublishEvt(l, Head(net[<<l, Gateway>>]).onoff)
            /\ mishaps' = mishaps \cup {"late"}

(* TIMEOUT_EVT: an acknowledged SET is sent again, to the address and with *)
(* the value of the moment; for a GET nothing is done.                     *)
ClientTimeout(l) ==
  /\ cbpc = "idle"
  /\ pendingOp[l] # "none"
  /\ IF pendingOp[l] = "SET"
       THEN SendSet(address_des)
       ELSE /\ pendingOp' = [pendingOp EXCEPT ![l] = "none"]
            /\ UNCHANGED <<netVars, tid, nvs_tid, gwRefusals>>
  /\ UNCHANGED <<address_des, value, value_pre, string_json, gpc, cbpc, dash,
                 gatewayHist, commands, gets>>

(* Mutant: the report is sent only when string_json still holds it.        *)
PublishIntact ==
  /\ cbpc = "publish"
  /\ gpc = "idle"
  /\ string_json.text = "report"
  /\ cbpc' = "idle"
  /\ dash' = [dash EXCEPT ![string_json.button] = string_json.onoff]
  /\ string_json' = Blank
  /\ UNCHANGED <<netVars, address_des, value, value_pre, tid, nvs_tid, pendingOp, gpc,
                 gatewayHist, commands, gets, gwRefusals>>

(* app_mqtt_publish waits for the client's lock; what goes out is what     *)
(* string_json holds then.  memset follows.                                *)
PublishReport ==
  /\ cbpc = "publish"
  /\ gpc = "idle"
  /\ cbpc' = "idle"
  /\ IF string_json.text = "report"
       THEN /\ dash' = [dash EXCEPT ![string_json.button] = string_json.onoff]
            /\ UNCHANGED mishaps
       ELSE /\ mishaps' = mishaps \cup {"garbled"}
            /\ UNCHANGED dash
  /\ string_json' = Blank
  /\ UNCHANGED <<netVars, address_des, value, value_pre, tid, nvs_tid, pendingOp, gpc, cmd,
                 overlapped, commands, gets, gwRefusals>>

-----------------------------------------------------------------------------
(* board.c calls example_ble_mesh_send_gen_onoff_get without its address:  *)
(* the callee finds whatever the register holds.  A second GET to a light  *)
(* that owes an answer is refused; one to no light goes unnoticed.         *)
GatewayTap ==
  /\ gets < MaxGet
  /\ gets' = gets + 1
  /\ \E l \in Target :
       /\ pendingOp[l] = "none"
       /\ Send(Gateway, {l}, [op |-> "GET", onoff |-> 0])
       /\ Await(l, "GET")
  /\ UNCHANGED <<address_des, value, value_pre, string_json, tid, nvs_tid, gpc, cbpc,
                 dash, gatewayHist, commands, gwRefusals>>

MqttTask == \/ \E c \in Command : CommandArrives(c)
            \/ ParseCommand
            \/ WipeCommand
            \/ SendCommand
            \/ SendPair

GatewayCallback == \/ \E l \in Target : 
                        GatewayRecvStatus(l) \/ GatewayRecvReply(l) \/ ClientTimeout(l)
                   \/ PublishReport

G_Next == MqttTask \/ GatewayCallback \/ GatewayTap

-----------------------------------------------------------------------------
(* What a command has become at each step of mqtt_data_callback, as long   *)
(* as no STATUS came in: the text in string_json until it is parsed, then  *)
(* the globals address_des and value until the last SET is out, however    *)
(* many reports, timeouts and GETs happen meanwhile.                       *)
CommandInv ==
  /\ cmd = None <=> gpc = "idle"
  /\ gpc = "pair" => address_des = Light3
  /\ gpc = "parse" /\ ~overlapped => string_json = CommandText(cmd)
  /\ gpc \in {"wipe", "send", "pair"} /\ ~overlapped =>
       /\ cmd.addr # None => address_des = cmd.addr
       /\ cmd.val # None => value = cmd.val
=============================================================================
