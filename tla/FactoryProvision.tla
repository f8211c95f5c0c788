---------------------------- MODULE FactoryProvision ---------------------------
(***************************************************************************)
(* Factory provisioning over BLE: src/ESP32_factory-ble-prov-master, its   *)
(* src/factory_ble_prov.c and the program of test/main/main.c around it.   *)
(* Unlike the door lock it resets the manager at every failure, gives an   *)
(* attempt three retries per kind of failure, and calls                    *)
(* ble_prov_start_provisioning from the event loop as well.                *)
(***************************************************************************)
EXTENDS ProvManager

CONSTANTS
  Attempts,      \* BLE_PROV_RECONN_ATTEMPTS
  MaxNvsFault    \* bound: NVS and configuration calls that fail

ASSUME FactoryAssumption == Attempts \in Nat /\ MaxNvsFault \in Nat

VARIABLES
  mainPc,        \* where app_main is
  endBit,        \* WIFI_PROV_END_EVENT, of the group provisioning creates
  ap_not_found,  \* _retry_num
  ap_auth_fail,
  loopWaits,     \* the event loop itself waits for the END event
  mqttUrl,       \* "mqtt_url" in NVS
  nvsFaults

factoryVars == <<mainPc, endBit, ap_not_found, ap_auth_fail, loopWaits, mqttUrl, nvsFaults>>

F_TypeOK ==
  /\ mainPc \in {"boot", "stopped", "wait", "over"}
  /\ endBit \in BOOLEAN
  /\ ap_not_found \in 0..Attempts /\ ap_auth_fail \in 0..Attempts
  /\ loopWaits \in BOOLEAN /\ mqttUrl \in BOOLEAN
  /\ nvsFaults \in 0..MaxNvsFault

F_Init ==
  /\ mainPc = "boot"
  /\ endBit = FALSE
  /\ ap_not_found = 0 /\ ap_auth_fail = 0
  /\ loopWaits = FALSE /\ mqttUrl = FALSE
  /\ nvsFaults = 0

(* A restart: the power is lost, or ESP_ERROR_CHECK aborts.                *)
FactoryRestart ==
  /\ P_Restart
  /\ mainPc' = "boot" /\ endBit' = FALSE
  /\ ap_not_found' = 0 /\ ap_auth_fail' = 0
  /\ loopWaits' = FALSE

(* app_main with _init_nvs and _init_wifi.  A node with an SSID starts its *)
(* station.  The other provisions: the manager is started, the station     *)
(* with it, and app_main waits.                                            *)
FactoryBoot ==
  /\ mainPc = "boot"
  /\ IF saved # "none"
       THEN mainPc' = "over" /\ UNCHANGED mgr
       ELSE mainPc' = "wait" /\ mgr' = "started"
  /\ sta' = "idle"
  /\ events' = Append(events, "STA_START")
  /\ endBit' = FALSE
  /\ UNCHANGED <<saved, ap, bounds, ap_not_found, ap_auth_fail, loopWaits, mqttUrl, nvsFaults>>

(* The configuration cannot be read: app_main returns with nothing begun.  *)
FactoryUnread ==
  /\ mainPc = "boot" /\ nvsFaults < MaxNvsFault
  /\ nvsFaults' = nvsFaults + 1
  /\ mainPc' = "stopped"
  /\ UNCHANGED <<provVars, endBit, ap_not_found, ap_auth_fail, loopWaits, mqttUrl>>

(* ble_prov_start_provisioning returns.                                    *)
FactoryDone ==
  /\ mainPc = "wait" /\ endBit
  /\ mainPc' = "over"
  /\ UNCHANGED <<provVars, endBit, ap_not_found, ap_auth_fail, loopWaits, mqttUrl, nvsFaults>>

LoopRuns == ~loopWaits

(* _handle_sta_got_ip.                                                     *)
FactoryGotIp ==
  /\ LoopRuns /\ Delivers("GOT_IP")
  /\ mgr' = MgrAfter("GOT_IP")
  /\ ap_not_found' = 0 /\ ap_auth_fail' = 0
  /\ UNCHANGED <<saved, sta, ap, bounds, mainPc, endBit, loopWaits, mqttUrl, nvsFaults>>

(* _handle_wifi_sta_start, and _handle_wifi_sta_disconnect for any reason  *)
(* but those below.                                                        *)
FactoryConnects ==
  \E e \in {"STA_START", "OTHER"} :
    /\ LoopRuns /\ Delivers(e)
    /\ sta' = Connected(sta)
    /\ UNCHANGED <<saved, mgr, ap, bounds, factoryVars>>

(* _handle_wifi_sta_disconnect: the access point was not found.            *)
FactoryNoAp ==
  /\ LoopRuns /\ Delivers("NO_AP")
  /\ IF ap_not_found < Attempts
       THEN ap_not_found' = ap_not_found + 1 /\ sta' = Connected(sta)
       ELSE UNCHANGED <<ap_not_found, sta>>
  /\ mgr' = MgrAfter("NO_AP")
  /\ UNCHANGED <<saved, ap, bounds, mainPc, endBit, ap_auth_fail, loopWaits, mqttUrl, nvsFaults>>

(* The same for an authentication error, while there are retries.          *)
FactoryAuthRetry ==
  /\ LoopRuns /\ Delivers("AUTH")
  /\ ap_auth_fail < Attempts
  /\ ap_auth_fail' = ap_auth_fail + 1
  /\ sta' = Connected(sta)
  /\ mgr' = MgrAfter("AUTH")
  /\ UNCHANGED <<saved, ap, bounds, mainPc, endBit, ap_not_found, loopWaits, mqttUrl, nvsFaults>>

(* Mutant: the error of wifi_prov_mgr_init is not checked.                 *)
FactoryAuthCarriesOn ==
  /\ LoopRuns /\ Delivers("AUTH")
  /\ ap_auth_fail = Attempts
  /\ mgr # "off"
  /\ IF saved # "none"
       THEN mgr' = "off" /\ UNCHANGED <<endBit, loopWaits>>
       ELSE endBit' = FALSE /\ loopWaits' = TRUE /\ UNCHANGED mgr
  /\ UNCHANGED <<saved, sta, ap, bounds, mainPc, ap_not_found, ap_auth_fail, mqttUrl, nvsFaults>>

(* _start_provisioning in the event loop.  wifi_prov_mgr_init of a manager *)
(* that is there already fails, and ESP_ERROR_CHECK restarts the node.     *)
FactoryAuthAborts ==
  /\ LoopRuns /\ events # <<>> /\ Head(events) = "AUTH"
  /\ ap_auth_fail = Attempts
  /\ mgr # "off"
  /\ FactoryRestart
  /\ UNCHANGED <<saved, ap, bounds, mqttUrl, nvsFaults>>

(* Else the manager looks at NVS: with an SSID there it is let go again,   *)
(* without one the loop waits for an event only the loop delivers.         *)
FactoryAuthGivesUp ==
  /\ LoopRuns /\ Delivers("AUTH")
  /\ ap_auth_fail = Attempts
  /\ mgr = "off"
  /\ IF saved # "none"
       THEN UNCHANGED <<mgr, endBit, loopWaits>>
       ELSE mgr' = "started" /\ endBit' = FALSE /\ loopWaits' = TRUE
  /\ UNCHANGED <<saved, sta, ap, bounds, mainPc, ap_not_found, ap_auth_fail, mqttUrl, nvsFaults>>

(* prov_event_handler.                                                     *)
FactoryCredFail ==
  /\ LoopRuns /\ Delivers("CRED_FAIL")
  /\ ResetOnFailure
  /\ UNCHANGED <<sta, ap, bounds, factoryVars>>

FactoryCredSuccess ==
  /\ LoopRuns /\ Delivers("CRED_SUCCESS")
  /\ UNCHANGED <<saved, sta, mgr, ap, bounds, factoryVars>>

(* Mutant: nobody tells app_main.                                          *)
FactoryEndSilent ==
  /\ LoopRuns /\ Delivers("END")
  /\ mgr' = "off"
  /\ UNCHANGED <<saved, sta, ap, bounds, factoryVars>>

FactoryEnd ==
  /\ LoopRuns /\ Delivers("END")
  /\ mgr' = "off"
  /\ endBit' = TRUE
  /\ UNCHANGED <<saved, sta, ap, bounds, mainPc, ap_not_found, ap_auth_fail, loopWaits, mqttUrl, nvsFaults>>

FactoryEvents == \/ FactoryConnects \/ FactoryNoAp \/ FactoryGotIp
                 \/ FactoryAuthRetry \/ FactoryAuthAborts \/ FactoryAuthGivesUp
                 \/ FactoryCredFail \/ FactoryCredSuccess \/ FactoryEnd

(* _mqtt_config_handler, called by the manager while it provisions: the    *)
(* URL is in NVS before the phone hears SUCCESS; a failing call aborts.    *)
PhoneSetsUrl ==
  /\ mgr \notin {"off", "ended"} /\ ~mqttUrl
  /\ mqttUrl' = TRUE
  /\ UNCHANGED <<provVars, mainPc, endBit, ap_not_found, ap_auth_fail, loopWaits, nvsFaults>>

PhoneUrlAborts ==
  /\ mgr \notin {"off", "ended"} /\ nvsFaults < MaxNvsFault
  /\ nvsFaults' = nvsFaults + 1
  /\ FactoryRestart
  /\ UNCHANGED <<saved, ap, bounds, mqttUrl>>

FactoryTask == FactoryBoot \/ FactoryUnread \/ FactoryDone

FactoryPowerLoss ==
  /\ cycles < MaxCycle
  /\ cycles' = cycles + 1
  /\ FactoryRestart
  /\ UNCHANGED <<saved, ap, troubles, entries, mqttUrl, nvsFaults>>
=============================================================================
