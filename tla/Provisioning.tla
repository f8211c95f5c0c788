------------------------------ MODULE Provisioning -----------------------------
(***************************************************************************)
(* A node that runs one of the repository's two programs for getting Wi-Fi *)
(* credentials from a phone: the door lock's, or the factory program.      *)
(***************************************************************************)
EXTENDS DoorProvision, FactoryProvision

VARIABLE app     \* the program of the node; it never changes

vars == <<provVars, doorVars, factoryVars, app>>

TypeOK == P_TypeOK /\ W_TypeOK /\ F_TypeOK /\ app \in {"door", "factory"}

Init == P_Init /\ W_Init /\ F_Init /\ app \in {"door", "factory"}

Alone == UNCHANGED <<doorVars, factoryVars, app>>

Door == app = "door" /\ UNCHANGED <<factoryVars, app>>
Factory == app = "factory" /\ UNCHANGED <<doorVars, app>>

Next == \/ Station /\ Alone
        \/ Stops /\ Alone
        \/ Outside /\ Alone
        \/ Door /\ (DoorTask \/ DoorEvents \/ DoorPowerLoss)
        \/ Factory /\ (FactoryTask \/ FactoryEvents \/ FactoryPowerLoss)
        \/ Factory /\ (PhoneSetsUrl \/ PhoneUrlAborts)

Spec == Init /\ [][Next]_vars

(* Tasks and the event loop run, the driver ends an attempt, and the       *)
(* manager stops after a success; people, power and network do as they     *)
(* like.                                                                   *)
Fairness ==
  /\ WF_vars(Station /\ Alone)
  /\ WF_vars(Stops /\ Alone)
  /\ WF_vars(Door /\ DoorTask)
  /\ WF_vars(Door /\ DoorEvents)
  /\ WF_vars(Factory /\ FactoryTask)
  /\ WF_vars(Factory /\ FactoryEvents)

FairSpec == Spec /\ Fairness

-----------------------------------------------------------------------------
(* Credentials leave NVS only from a failed state machine, at the door     *)
(* lock only after MaxRetry failures with no success between: a good link  *)
(* makes up for every earlier failure.  (wifi_provision.c:130-151,         *)
(* factory_ble_prov.c:70-77.)                                              *)
ErasedAfterFailures == [][
  saved # "none" /\ saved' = "none" =>
    mgr = "fail" /\ (app = "door" => fails + 1 >= MaxRetry)]_vars

(* Both programs do what Enrolment says of the credentials, with the        *)
(* manager's state as the phase: they ask only when NVS has none, and lose *)
(* what they were given only after a failure.  (wifi_provision.c:123-155,  *)
(* 343-347, 479; factory_ble_prov.c:70-88, 196-246.)                       *)
Phase == CASE mgr = "off" -> "closed"
           [] mgr = "started" -> "offered"
           [] mgr = "recv" -> "trying"
           [] mgr = "fail" -> "failed"
           [] mgr = "success" -> "accepted"
           [] mgr = "ended" -> "done"

Enrol == INSTANCE Enrolment WITH
  Credential <- Credentials \ {"none"}, Nothing <- "none", kept <- saved, phase <- Phase

ImplementsEnrolment == Enrol!EnrolSpec

(* What a node has kept past the end of its provisioning, or started with, *)
(* it never loses again, with whatever events are still on their way.      *)
(* (wifi_provision.c:152, 479; factory_ble_prov.c:83-88, 246.)             *)
KeptForGood == [][mgr = "off" => saved' = saved]_vars

(* A station with credentials is never left alone: it is on line, trying,  *)
(* or an event that makes its program try again is on its way; only the    *)
(* factory program gives up, after as many retries of one kind as it has,  *)
(* or when it cannot read its configuration.                               *)
(* (wifi_provision.c:161-167, main.c:76-103, 150-153.)                     *)
Pending == \E i \in 1..Len(events) : events[i] \in Reason \cup {"STA_START"}
GaveUp == /\ app = "factory"
          /\ ap_not_found = Attempts \/ ap_auth_fail = Attempts \/ mainPc = "stopped"

NeverIdle == sta = "idle" /\ saved # "none" /\ ~Pending => GaveUp

(* The event loop never waits for the END event that only the event loop   *)
(* can deliver, although it calls ble_prov_start_provisioning: an          *)
(* authentication error finds a manager or an SSID.  (main.c:98,           *)
(* factory_ble_prov.c:237.)                                                *)
LoopNeverWaits == ~loopWaits

(* With good credentials and an access point in reach from some time on,   *)
(* the door lock gets on line; the factory program does, or has given up.  *)
GetsOnLine == <>[](saved = "right" /\ ap) => <>(sta = "up" \/ GaveUp)

(* A provisioning that succeeded ends: the manager is let go and app_main  *)
(* goes on, unless the link is lost or the node restarts first.            *)
ProvisioningEnds == mgr = "success" ~> (mgr \in {"off", "fail"} /\ mainPc # "wait") \/ mgr = "fail"
=============================================================================
