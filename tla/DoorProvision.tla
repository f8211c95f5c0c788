----------------------------- MODULE DoorProvision -----------------------------
(***************************************************************************)
(* The door lock's Wi-Fi: src/Smart_door_lock_ESP32-master/Components/     *)
(* wifi_provision.c as its sdkconfig builds it (BLE, security 1, reset     *)
(* after five failures).  The task waits for an address; event_handler     *)
(* runs in the default event loop and reconnects for ever.                 *)
(***************************************************************************)
EXTENDS ProvManager

CONSTANT MaxRetry    \* CONFIG_EXAMPLE_PROV_MGR_MAX_RETRY_CNT

ASSUME RetryAssumption == MaxRetry \in Nat \ {0}

VARIABLES
  doorPc,       \* where init_wifi_provisioning_via_ble is
  connectedBit, \* WIFI_CONNECTED_EVENT
  retries,      \* failures counted by event_handler
  fails         \* history: failures since the last success, reset or start

doorVars == <<doorPc, connectedBit, retries, fails>>

W_TypeOK ==
  /\ doorPc \in {"boot", "wait", "running"}
  /\ connectedBit \in BOOLEAN
  /\ retries \in 0..(MaxRetry - 1)
  /\ fails \in 0..MaxRetry

W_Init == doorPc = "boot" /\ connectedBit = FALSE /\ retries = 0 /\ fails = 0

(* Mutant: CONFIG_EXAMPLE_RESET_PROVISIONED is set.                        *)
DoorBootAnew ==
  /\ doorPc = "boot"
  /\ doorPc' = "wait"
  /\ saved' = "none"
  /\ mgr' = "started"
  /\ sta' = "idle"
  /\ events' = Append(events, "STA_START")
  /\ UNCHANGED <<ap, bounds, connectedBit, retries, fails>>

(* init_wifi_provisioning_via_ble up to its wait: a node without an SSID   *)
(* starts the manager, whose BLE scheme starts the station too; one with   *)
(* an SSID lets the manager go and calls wifi_init_sta.                    *)
DoorBoot ==
  /\ doorPc = "boot"
  /\ doorPc' = "wait"
  /\ mgr' = IF saved = "none" THEN "started" ELSE "off"
  /\ sta' = "idle"
  /\ events' = Append(events, "STA_START")
  /\ UNCHANGED <<saved, ap, bounds, connectedBit, retries, fails>>

(* The wait takes the bit back.                                            *)
DoorRuns ==
  /\ doorPc = "wait" /\ connectedBit
  /\ doorPc' = "running"
  /\ connectedBit' = FALSE
  /\ UNCHANGED <<provVars, retries, fails>>

(* Mutant: no reconnection once the link was lost.                         *)
DoorReconnectsAtStart ==
  \E e \in Reason \cup {"STA_START"} :
    /\ Delivers(e)
    /\ sta' = IF e = "STA_START" THEN Connected(sta) ELSE sta
    /\ mgr' = MgrAfter(e)
    /\ UNCHANGED <<saved, ap, bounds, doorVars>>

DoorReconnects ==
  \E e \in Reason \cup {"STA_START"} :
    /\ Delivers(e)
    /\ sta' = Connected(sta)
    /\ mgr' = MgrAfter(e)
    /\ UNCHANGED <<saved, ap, bounds, doorVars>>

DoorGotIp ==
  /\ Delivers("GOT_IP")
  /\ mgr' = MgrAfter("GOT_IP")
  /\ connectedBit' = TRUE
  /\ UNCHANGED <<saved, sta, ap, bounds, doorPc, retries, fails>>

(* The manager is reset at the last of MaxRetry failures, and counting     *)
(* starts anew whether the reset was carried out or not.                   *)
DoorCredFail ==
  /\ Delivers("CRED_FAIL")
  /\ IF retries + 1 >= MaxRetry
       THEN ResetOnFailure /\ retries' = 0
       ELSE retries' = retries + 1 /\ UNCHANGED <<mgr, saved>>
  /\ fails' = IF saved' # saved THEN 0 ELSE IF fails = MaxRetry THEN fails ELSE fails + 1
  /\ UNCHANGED <<sta, ap, bounds, doorPc, connectedBit>>

(* Mutant: failures before a success count towards the reset.              *)
DoorSuccessForgets ==
  /\ Delivers("CRED_SUCCESS")
  /\ fails' = 0
  /\ UNCHANGED <<saved, sta, mgr, ap, bounds, doorPc, connectedBit, retries>>

DoorCredSuccess ==
  /\ Delivers("CRED_SUCCESS")
  /\ retries' = 0 /\ fails' = 0
  /\ UNCHANGED <<saved, sta, mgr, ap, bounds, doorPc, connectedBit>>

(* wifi_prov_mgr_deinit.                                                   *)
DoorEnd ==
  /\ Delivers("END")
  /\ mgr' = "off"
  /\ UNCHANGED <<saved, sta, ap, bounds, doorVars>>

DoorEvents == DoorReconnects \/ DoorGotIp \/ DoorCredFail \/ DoorCredSuccess \/ DoorEnd

DoorTask == DoorBoot \/ DoorRuns

DoorPowerLoss ==
  /\ cycles < MaxCycle
  /\ cycles' = cycles + 1
  /\ P_Restart
  /\ doorPc' = "boot" /\ connectedBit' = FALSE /\ retries' = 0 /\ fails' = 0
  /\ UNCHANGED <<saved, ap, troubles, entries>>
=============================================================================
