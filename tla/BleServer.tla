------------------------------- MODULE BleServer -------------------------------
(***************************************************************************)
(* The BLE server of BLE-Connect (LIB/Bluetooth_low_energy/BLE_app.c),     *)
(* which hands what a phone writes to MQTT, and of LAB, which only prints  *)
(* it.  Advertising ends when a phone connects.                            *)
(***************************************************************************)
EXTENDS Naturals

CONSTANTS CopySize,     \* the size of copy in device_write
          MaxLen,       \* bound: the longest string a write leaves in the buffer
          MaxWrite,     \* bound: writes of a phone
          MaxControl    \* bound: messages of the broker

ASSUME BleAssumption == /\ CopySize \in Nat /\ MaxLen \in Nat
                        /\ MaxWrite \in Nat /\ MaxControl \in Nat

VARIABLES
  gap,        \* the GAP procedure
  served,     \* history: a phone has been connected since the start
  mqtt,       \* the global client: NULL until mqtt_app_start
  subscribed, \* the broker knows the control topic
  kept,       \* writes the client keeps, at QoS 1, until the broker has them
  arrived,    \* history: writes the broker has
  smashed,    \* a write has run over the end of copy
  writes, controls

bleVars == <<gap, served, mqtt, subscribed, kept, arrived, smashed, writes, controls>>

B_TypeOK ==
  /\ gap \in {"off", "syncing", "advertising", "connected", "silent"}
  /\ served \in BOOLEAN /\ subscribed \in BOOLEAN /\ smashed \in BOOLEAN
  /\ mqtt \in {"NULL", "trying", "up"}
  /\ kept \in 0..MaxWrite /\ arrived \in 0..MaxWrite
  /\ writes \in 0..MaxWrite /\ controls \in 0..MaxControl

B_Init == /\ gap = "off" /\ served = FALSE /\ mqtt = "NULL" /\ subscribed = FALSE
          /\ kept = 0 /\ arrived = 0 /\ smashed = FALSE /\ writes = 0 /\ controls = 0

(* The client keeps its messages in RAM.                                   *)
B_Restart == /\ gap' = "off" /\ served' = FALSE /\ mqtt' = "NULL" /\ subscribed' = FALSE
             /\ kept' = 0 /\ smashed' = FALSE

(* BLE_start: the host task runs and synchronises with the controller.     *)
BLE_start == /\ gap = "off"
             /\ gap' = "syncing"
             /\ UNCHANGED <<served, mqtt, subscribed, kept, arrived, smashed, writes, controls>>

ble_app_on_sync == /\ gap = "syncing"
                   /\ gap' = "advertising"
                   /\ UNCHANGED <<served, mqtt, subscribed, kept, arrived, smashed, writes, controls>>

(* ble_gap_event: a connection that fails is followed by advertising.      *)
GapConnect(ok) ==
  /\ gap = "advertising"
  /\ gap' = IF ok THEN "connected" ELSE "advertising"
  /\ served' = (served \/ ok)
  /\ UNCHANGED <<mqtt, subscribed, kept, arrived, smashed, writes, controls>>

(* The end of a connection is only logged.                                 *)
GapDisconnect ==
  /\ gap = "connected"
  /\ gap' = "silent"
  /\ UNCHANGED <<served, mqtt, subscribed, kept, arrived, smashed, writes, controls>>

(* device_write: what the phone wrote is wiped after the publication,      *)
(* whether there was a client to take it or not.  len is what strlen finds *)
(* in the buffer, 0 when there is nothing to do; a string that does not    *)
(* fit in copy, with its NUL, runs over the stack of the host task.        *)
device_write ==
  /\ gap = "connected" /\ writes < MaxWrite
  /\ \E len \in 1..MaxLen : smashed' = (smashed \/ len >= CopySize)
  /\ writes' = writes + 1
  /\ kept' = IF mqtt = "NULL" THEN kept ELSE kept + 1
  /\ UNCHANGED <<gap, served, mqtt, subscribed, arrived, controls>>

(* What comes of it is not defined: nothing, or sooner or later a restart. *)
StackFails ==
  /\ smashed
  /\ B_Restart
  /\ UNCHANGED <<arrived, writes, controls>>

(* The client (external) delivers what it keeps, or gives it up when it    *)
(* has grown old.                                                          *)
Arrives ==
  /\ mqtt = "up" /\ kept > 0
  /\ kept' = kept - 1 /\ arrived' = arrived + 1
  /\ UNCHANGED <<gap, served, mqtt, subscribed, smashed, writes, controls>>

Expires ==
  /\ mqtt # "NULL" /\ kept > 0
  /\ kept' = kept - 1
  /\ UNCHANGED <<gap, served, mqtt, subscribed, arrived, smashed, writes, controls>>

mqtt_app_start ==
  /\ mqtt = "NULL"
  /\ mqtt' = "trying"
  /\ UNCHANGED <<gap, served, subscribed, kept, arrived, smashed, writes, controls>>

(* mqtt_event_handler_cb: every connection subscribes.                     *)
MqttConnected ==
  /\ mqtt = "trying"
  /\ mqtt' = "up" /\ subscribed' = TRUE
  /\ UNCHANGED <<gap, served, kept, arrived, smashed, writes, controls>>

MqttDisconnected ==
  /\ mqtt = "up"
  /\ mqtt' = "trying" /\ subscribed' = FALSE
  /\ UNCHANGED <<gap, served, kept, arrived, smashed, writes, controls>>

(* MQTT_EVENT_DATA: strcpy reads from the address the low byte of the      *)
(* topic's makes, where nothing can be read, and the node restarts.        *)
MqttData ==
  /\ mqtt = "up" /\ subscribed
  /\ controls < MaxControl
  /\ controls' = controls + 1
  /\ B_Restart
  /\ UNCHANGED <<arrived, writes>>
=============================================================================
