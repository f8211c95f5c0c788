----------------------------- MODULE ClientStore -----------------------------
(***************************************************************************)
(* What a client node of the mesh (Switch, GateWay and onoff_client, each  *)
(* in its main.c) remembers of its network: the struct store in RAM, its   *)
(* copy in NVS, and the callbacks of provisioning and configuration that   *)
(* keep them up to date.  The mesh stack, which keeps the node's own keys, *)
(* the provisioner and ble_mesh_nvs_store/restore are external.            *)
(*                                                                         *)
(* Two tasks use store without a lock: the Bluetooth task in the callbacks *)
(* and, on the gateway, the MQTT task when it sends a SET.                 *)
(***************************************************************************)
EXTENDS Naturals

CONSTANTS
  NetKey,     \* indices of the network keys a provisioner may give the node
  AppKey,     \* indices of the application keys it may bind
  KEY_UNUSED, \* ESP_BLE_MESH_KEY_UNUSED
  NoInfo,     \* nothing is stored in NVS
  NoTid,      \* no SET was sent yet
  TidModulus, \* the transaction identifiers wrap at 256
  Settings,   \* CONFIG_BLE_MESH_SETTINGS: the stack keeps its keys over a restart
  StoresSet,  \* the program counts its SETs and stores the count (GateWay)
  MaxConfig,  \* bound: operations of the provisioner
  MaxSend,    \* bound: SETs
  MaxCrash,   \* bound: losses of power
  MaxFault    \* bound: NVS and Bluetooth calls that fail

ASSUME StoreAssumption ==
  /\ KEY_UNUSED \notin NetKey \cup AppKey
  /\ TidModulus \in Nat /\ TidModulus >= 2
  /\ NoTid \notin Nat
  /\ Settings \in BOOLEAN /\ StoresSet \in BOOLEAN
  /\ MaxConfig \in Nat /\ MaxSend \in Nat /\ MaxCrash \in Nat /\ MaxFault \in Nat

Tid == 0..(TidModulus - 1)
Info == [net_idx : NetKey \cup {KEY_UNUSED}, app_idx : AppKey \cup {KEY_UNUSED}, tid : Tid]

ASSUME NoInfoAssumption == NoInfo \notin Info

VARIABLES
  store,    \* the struct in RAM
  flash,    \* its copy in NVS
  net,      \* the network the stack is provisioned into, or KEY_UNUSED
  bound,    \* the application keys the stack has bound to the client model
  bpc,      \* where the Bluetooth task is
  spc,      \* where the MQTT task is in a SET
  latest,   \* history: the key bound last
  lastTid,  \* history: the identifier of the last SET the stack took
  mishaps,  \* history: what kept store and flash apart
  configs, sends, crashes, faults

node   == <<net, bound>>
hist   == <<latest, lastTid>>
counts == <<configs, sends, crashes, faults>>
vars   == <<store, flash, node, bpc, spc, hist, mishaps, counts>>

Blank == [net_idx |-> KEY_UNUSED, app_idx |-> KEY_UNUSED, tid |-> 0]

TypeOK ==
  /\ store \in Info
  /\ flash \in Info \cup {NoInfo}
  /\ net \in NetKey \cup {KEY_UNUSED}
  /\ bound \in SUBSET AppKey
  /\ bpc \in {"off", "start", "register", "idle", "bind"}
  /\ spc \in {"idle", "store"}
  /\ latest \in AppKey \cup {KEY_UNUSED}
  /\ lastTid \in Tid \cup {NoTid}
  /\ mishaps \subseteq {"unread", "unsaved", "wrapped"}
  /\ configs \in 0..MaxConfig /\ sends \in 0..MaxSend
  /\ crashes \in 0..MaxCrash /\ faults \in 0..MaxFault

(* A device fresh from the factory, without power.                         *)
Init ==
  /\ store = Blank
  /\ flash = NoInfo
  /\ net = KEY_UNUSED
  /\ bound = {}
  /\ bpc = "off"
  /\ spc = "idle"
  /\ latest = KEY_UNUSED
  /\ lastTid = NoTid
  /\ mishaps = {}
  /\ configs = 0 /\ sends = 0 /\ crashes = 0 /\ faults = 0

BluetoothGoes(from, to) == bpc = from /\ bpc' = to

Fault == /\ faults < MaxFault
         /\ faults' = faults + 1

(* The stack has come up and the callback has restored store.              *)
Restored == bpc \in {"idle", "bind"}

(* store.tid++ on a uint8_t.                                               *)
NextTid(t) == IF t = TidModulus - 1 THEN 0 ELSE t + 1

-----------------------------------------------------------------------------
(* Start and loss of power.                                                *)

(* app_main up to ble_mesh_init: an NVS partition without a free page is   *)
(* erased, the stack's keys with it.  A stack without Settings starts      *)
(* unprovisioned.                                                          *)
Boot ==
  /\ BluetoothGoes("off", "start")
  /\ store' = Blank
  /\ \/ /\ UNCHANGED <<flash, faults, lastTid>>
        /\ IF Settings THEN UNCHANGED <<node, latest>>
                       ELSE net' = KEY_UNUSED /\ bound' = {} /\ latest' = KEY_UNUSED
     \/ /\ Fault
        /\ flash' = NoInfo
        /\ net' = KEY_UNUSED /\ bound' = {} /\ latest' = KEY_UNUSED
        /\ lastTid' = NoTid
  /\ UNCHANGED <<spc, mishaps, configs, sends, crashes>>

(* Mutant: prov_complete stores what it has so far.                        *)
ProvCompleteAndStore ==
  /\ BluetoothGoes("start", "register")
  /\ net # KEY_UNUSED
  /\ store' = [store EXCEPT !.net_idx = net]
  /\ flash' = store'
  /\ UNCHANGED <<node, spc, hist, mishaps, counts>>

(* Mutant: the event is only logged.                                       *)
ProvCompleteLogged ==
  /\ BluetoothGoes("start", "register")
  /\ net # KEY_UNUSED
  /\ UNCHANGED <<store, flash, node, spc, hist, mishaps, counts>>

(* A node that starts provisioned hears of it first: prov_complete.        *)
ProvCompleteAtBoot ==
  /\ BluetoothGoes("start", "register")
  /\ net # KEY_UNUSED
  /\ store' = [store EXCEPT !.net_idx = net]
  /\ UNCHANGED <<flash, node, spc, hist, mishaps, counts>>

(* ESP_BLE_MESH_PROV_REGISTER_COMP_EVT: mesh_example_info_restore reads    *)
(* the whole struct; when that fails store stays as it is.                 *)
RegisterComplete ==
  /\ IF net = KEY_UNUSED THEN BluetoothGoes("start", "idle")
                         ELSE BluetoothGoes("register", "idle")
  /\ \/ /\ store' = IF flash = NoInfo THEN store ELSE flash
        /\ UNCHANGED <<mishaps, faults>>
     \/ /\ Fault
        /\ mishaps' = mishaps \cup {"unread"}
        /\ UNCHANGED store
  /\ UNCHANGED <<flash, node, spc, hist, configs, sends, crashes>>

(* The node loses its power; a store that was due is lost.                 *)
PowerCycle ==
  /\ crashes < MaxCrash
  /\ crashes' = crashes + 1
  /\ bpc # "off"
  /\ bpc' = "off"
  /\ spc' = "idle"
  /\ mishaps' = IF bpc = "bind" \/ spc = "store" THEN mishaps \cup {"unsaved"} ELSE mishaps
  /\ UNCHANGED <<store, flash, node, hist, configs, sends, faults>>

-----------------------------------------------------------------------------
(* The provisioner, and the callbacks its operations cause.                *)

Configure == /\ configs < MaxConfig
             /\ configs' = configs + 1
             /\ bpc = "idle"

(* The node is taken into a network: ESP_BLE_MESH_NODE_PROV_COMPLETE_EVT.  *)
Join(n) ==
  /\ Configure
  /\ net = KEY_UNUSED
  /\ net' = n
  /\ store' = [store EXCEPT !.net_idx = n]
  /\ UNCHANGED <<flash, bound, bpc, spc, hist, mishaps, sends, crashes, faults>>

(* The node is reset; ESP_BLE_MESH_NODE_PROV_RESET_EVT does nothing.       *)
Leave ==
  /\ Configure
  /\ net # KEY_UNUSED
  /\ net' = KEY_UNUSED
  /\ bound' = {}
  /\ latest' = KEY_UNUSED
  /\ UNCHANGED <<store, flash, bpc, spc, lastTid, mishaps, sends, crashes, faults>>

(* ESP_BLE_MESH_MODEL_OP_MODEL_APP_BIND for the client model, the only one *)
(* a key can be bound to.                                                  *)
Bind(k) ==
  /\ Configure
  /\ net # KEY_UNUSED
  /\ bound' = bound \cup {k}
  /\ latest' = k
  /\ store' = [store EXCEPT !.app_idx = k]
  /\ bpc' = "bind"
  /\ UNCHANGED <<flash, net, spc, lastTid, mishaps, sends, crashes, faults>>

(* mesh_example_info_store at the end of that callback; a failure is not   *)
(* looked at.                                                              *)
BindStore ==
  /\ BluetoothGoes("bind", "idle")
  /\ \/ /\ flash' = store
        /\ UNCHANGED <<mishaps, faults>>
     \/ /\ Fault
        /\ mishaps' = mishaps \cup {"unsaved"}
        /\ UNCHANGED flash
  /\ UNCHANGED <<store, node, spc, hist, configs, sends, crashes>>

(* MODEL_APP_UNBIND is an operation the callback does not look at.         *)
Unbind(k) ==
  /\ Configure
  /\ k \in bound
  /\ bound' = bound \ {k}
  /\ UNCHANGED <<store, flash, net, bpc, spc, hist, mishaps, sends, crashes, faults>>

-----------------------------------------------------------------------------
(* example_ble_mesh_send_gen_onoff_set of the gateway, in the MQTT task.   *)
(* The Bluetooth task has the higher priority and the broker is a network  *)
(* round trip away, so commands come once store is restored.               *)

(* The identifier is used up; the stack takes the SET or refuses it.       *)
SendSet ==
  /\ StoresSet /\ Restored
  /\ sends < MaxSend
  /\ sends' = sends + 1
  /\ spc = "idle"
  /\ store' = [store EXCEPT !.tid = NextTid(@)]
  /\ \/ /\ lastTid' = store.tid
        /\ spc' = "store"
        /\ UNCHANGED mishaps
     \/ /\ mishaps' = IF NextTid(store.tid) = lastTid THEN mishaps \cup {"wrapped"} ELSE mishaps
        /\ UNCHANGED <<lastTid, spc>>
  /\ UNCHANGED <<flash, node, bpc, latest, configs, crashes, faults>>

(* Mutant: the count is not stored.                                        *)
StoreSetSkipped ==
  /\ spc = "store"
  /\ spc' = "idle"
  /\ UNCHANGED <<store, flash, node, bpc, hist, mishaps, counts>>

(* mesh_example_info_store, of whatever store holds by now.                *)
StoreSet ==
  /\ spc = "store"
  /\ spc' = "idle"
  /\ \/ /\ flash' = store
        /\ UNCHANGED <<mishaps, faults>>
     \/ /\ Fault
        /\ mishaps' = mishaps \cup {"unsaved"}
        /\ UNCHANGED flash
  /\ UNCHANGED <<store, node, bpc, hist, configs, sends, crashes>>

-----------------------------------------------------------------------------
Next ==
  \/ Boot
  \/ ProvCompleteAtBoot
  \/ RegisterComplete
  \/ PowerCycle
  \/ \E n \in NetKey : Join(n)
  \/ Leave
  \/ \E k \in AppKey : Bind(k)
  \/ BindStore
  \/ \E k \in AppKey : Unbind(k)
  \/ SendSet
  \/ StoreSet

Spec == Init /\ [][Next]_vars

-----------------------------------------------------------------------------
(* Once a key is bound it is the one in use and the one a restart brings   *)
(* back, through power cycles, further binds, and SETs that store the same *)
(* struct from the other task, unless NVS failed or the power was lost     *)
(* before the key was stored (Switch/main/main.c:127-135 warns of the      *)
(* order of events that would break it).                                   *)
BoundKeyKept ==
  mishaps = {} /\ latest \in bound =>
    /\ bpc # "bind" => flash # NoInfo /\ flash.app_idx = latest
    /\ Restored => store.app_idx = latest

(* The network key in use is the stack's own, unless NVS still holds the   *)
(* one of a network the node has left (main.c prov_complete and restore).  *)
NetKeyInUse ==
  Restored /\ net # KEY_UNUSED /\ (flash = NoInfo \/ flash.net_idx = net)
    => store.net_idx = net

(* The gateway does not use the identifier of its last SET again, not even *)
(* after a restart, or the lights would take the next SET for a repeat     *)
(* (GateWay/main/main.c:229-238).                                          *)
FreshTid ==
  mishaps = {} /\ lastTid # NoTid =>
    /\ spc = "idle" => flash # NoInfo /\ flash.tid # lastTid
    /\ Restored => store.tid # lastTid

(* "Restore proper mesh example info" (Switch/main/main.c:144): a node     *)
(* whose keys are bound sends under the network key of its network.        *)
RestoredIsProper ==
  Restored /\ bound # {} /\ mishaps = {} => store.net_idx = net

(* What holds in every state, in the middle of a callback too.             *)
BusyOnlyRestored == spc = "store" => Restored
BoundOnlyInNetwork == net = KEY_UNUSED => bound = {}
RegisteringInNetwork == bpc = "register" => net # KEY_UNUSED /\ store.net_idx = net
StoreInv == BusyOnlyRestored /\ BoundOnlyInNetwork /\ RegisteringInNetwork
            /\ BoundKeyKept /\ FreshTid
=============================================================================
