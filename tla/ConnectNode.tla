------------------------------ MODULE ConnectNode ------------------------------
(***************************************************************************)
(* The programs on the libraries WifiStation, BleServer and PostHandler    *)
(* model: BLE-Connect's app_main starts BLE first, LAB's waits for Wi-Fi   *)
(* before it does; a third node runs the web server alone.                 *)
(***************************************************************************)
EXTENDS WifiStation, BleServer, PostHandler

VARIABLES
  app,        \* the program; it never changes
  main        \* where its app_main is

vars == <<wifiVars, bleVars, postVars, app, main>>

App == {"BLE-Connect", "LAB", "server"}

TypeOK == W_TypeOK /\ B_TypeOK /\ H_TypeOK /\ app \in App /\ main \in {"start", "wifi", "last", "over"}

Init == W_Init /\ B_Init /\ H_Init /\ app \in App /\ main = "start"

(* app_main of BLE-Connect: BLE_start, wifi_init_sta, mqtt_app_start.      *)
ConnectBle == /\ app = "BLE-Connect" /\ main = "start"
              /\ BLE_start /\ main' = "wifi"
              /\ UNCHANGED <<wifiVars, postVars, app>>

ConnectMqtt == /\ app = "BLE-Connect" /\ main = "last"
               /\ mqtt_app_start /\ main' = "over"
               /\ UNCHANGED <<wifiVars, postVars, app>>

(* app_main of LAB: wifi_init_sta, BLE_start.                              *)
LabWifi == /\ app = "LAB" /\ main = "start"
           /\ main' = "wifi"
           /\ UNCHANGED <<wifiVars, bleVars, postVars, app>>

LabBle == /\ app = "LAB" /\ main = "last"
          /\ BLE_start /\ main' = "over"
          /\ UNCHANGED <<wifiVars, postVars, app>>

MainInWifi == /\ main = "wifi" /\ wifi_init_sta
              /\ main' = IF wpc' = "over" THEN "last" ELSE "wifi"
              /\ UNCHANGED <<bleVars, postVars, app>>

AppMain == ConnectBle \/ ConnectMqtt \/ LabWifi \/ LabBle \/ MainInWifi

(* The tasks of the SDK that call the handlers.                            *)
Loop == EventLoop /\ UNCHANGED <<bleVars, postVars, app, main>>
Driver == AttemptEnds /\ UNCHANGED <<bleVars, postVars, app, main>>
Dhcp == GetsAddress /\ UNCHANGED <<bleVars, postVars, app, main>>
Link == LinkBreaks /\ UNCHANGED <<bleVars, postVars, app, main>>
Host == ble_app_on_sync /\ UNCHANGED <<wifiVars, postVars, app, main>>
Phone == /\ (\E ok \in BOOLEAN : GapConnect(ok)) \/ GapDisconnect \/ device_write
         /\ app = "BLE-Connect" \/ writes' = writes
         /\ UNCHANGED <<wifiVars, postVars, app, main>>
Broker == /\ \/ sta = "up" /\ (MqttConnected \/ Arrives)
             \/ MqttDisconnected \/ Expires
          /\ UNCHANGED <<wifiVars, postVars, app, main>>
Panic == /\ MqttData \/ StackFails
         /\ W_Restart /\ main' = "start"
         /\ UNCHANGED <<stale, postVars, app>>

Web == /\ app = "server"
       /\ \/ PostEcho \/ PostSwitch \/ PostWifi \/ PostSlider
          \/ Piece \/ PieceError \/ PostEnd
       /\ UNCHANGED <<wifiVars, bleVars, app, main>>

Next == AppMain \/ Loop \/ Driver \/ Dhcp \/ Link \/ Host \/ Phone \/ Broker \/ Panic \/ Web

Spec == Init /\ [][Next]_vars

(* Tasks run and an attempt to connect ends, one way or the other; nobody  *)
(* promises an address.                                                    *)
FairSpec == Spec /\ WF_vars(AppMain) /\ WF_vars(Loop) /\ WF_vars(Driver) /\ WF_vars(Host)

-----------------------------------------------------------------------------
(* Wi-Fi or no Wi-Fi, app_main gets past wifi_init_sta, so that the LAB    *)
(* node can be reached over BLE and BLE-Connect's starts its client, and   *)
(* does so again after every restart.  One thing alone can hold it there:  *)
(* an access point that lets the station in and never gives it an address, *)
(* which ends neither the attempt nor the row of retries.  (app_main.c:46, *)
(* main.c:39, wifi_application.c:107.)                                     *)
MainGoesOn == app # "server" => []<>(main = "over") \/ <>[](sta = "associated")

(* Until a phone has been connected the node can be reached, however many  *)
(* connections fail on the way; after that, against BLE_app.c:76, never    *)
(* again before a restart.                                                 *)
ReachableOnce == gap = "silent" <=> served /\ gap # "connected"

(* The station tries again only until the wait is over: a link that breaks *)
(* afterwards stays broken, whatever was on its way.                       *)
StaysBroken == [][main = "over" /\ sta = "idle" => sta' \in {"idle", "off"}]_vars

(* app_main is over, the station is left alone and the client has noticed. *)
Cut == main = "over" /\ sta = "idle" /\ mqtt # "up"

(* A node that is cut off has no way back but a restart, and until then    *)
(* nothing a phone writes, nor anything the client still keeps, gets to    *)
(* the broker: nobody is left who would connect.  (wifi_application.c:126, *)
(* BLE_app.c:23.)                                                          *)
CutForGood == [][Cut => (Cut' /\ arrived' = arrived) \/ main' = "start"]_vars
=============================================================================
