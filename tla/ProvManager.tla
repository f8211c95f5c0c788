------------------------------ MODULE ProvManager ------------------------------
(***************************************************************************)
(* What ESP-IDF gives the two programs that get their Wi-Fi credentials    *)
(* from a phone: the provisioning manager, the station and the queue of    *)
(* the default event loop.  None of it is in the repository; the module    *)
(* says what the programs' handlers rely on.  The station's configuration  *)
(* is kept in NVS, which is what makes a node provisioned.                 *)
(***************************************************************************)
EXTENDS Naturals, Sequences

CONSTANTS
  MaxCycle,    \* bound: losses of power
  MaxTrouble,  \* bound: times the network comes, goes, or fails an attempt
  MaxEntry     \* bound: credentials the phone sends

ASSUME ProvAssumption == MaxCycle \in Nat /\ MaxTrouble \in Nat /\ MaxEntry \in Nat

VARIABLES
  saved,      \* the credentials in NVS, which are the driver's
  sta,        \* the station
  mgr,        \* the manager's state machine
  events,     \* what the default event loop has still to deliver
  ap,         \* the access point can be reached
  cycles, troubles, entries

provVars == <<saved, sta, mgr, events, ap, cycles, troubles, entries>>
bounds == <<cycles, troubles, entries>>

Credentials == {"none", "wrong", "right"}
Reason == {"AUTH", "NO_AP", "OTHER"}       \* of WIFI_EVENT_STA_DISCONNECTED
Event == Reason \cup {"STA_START", "GOT_IP", "CRED_FAIL", "CRED_SUCCESS", "END"}

P_TypeOK ==
  /\ saved \in Credentials
  /\ sta \in {"off", "idle", "connecting", "up"}
  /\ mgr \in {"off", "started", "recv", "fail", "success", "ended"}
  /\ events \in Seq(Event)
  /\ ap \in BOOLEAN
  /\ cycles \in 0..MaxCycle /\ troubles \in 0..MaxTrouble /\ entries \in 0..MaxEntry

P_Init ==
  /\ saved = "none"
  /\ sta = "off"
  /\ mgr = "off"
  /\ events = <<>>
  /\ ap = TRUE
  /\ cycles = 0 /\ troubles = 0 /\ entries = 0

(* What is lost with the power.                                            *)
P_Restart == sta' = "off" /\ mgr' = "off" /\ events' = <<>>

(* esp_wifi_connect: refused while an attempt runs and without an SSID.    *)
Connected(s) == IF s = "idle" /\ saved # "none" THEN "connecting" ELSE s

-----------------------------------------------------------------------------
(* The station.                                                            *)

Attaches ==
  /\ sta = "connecting" /\ saved = "right" /\ ap
  /\ sta' = "up"
  /\ events' = Append(events, "GOT_IP")
  /\ UNCHANGED <<saved, mgr, ap, bounds>>

(* The attempt fails for what is wrong: the access point is away, the      *)
(* password is, or the configuration has been taken away meanwhile.        *)
Reasons == IF saved = "none" THEN {"OTHER"}
           ELSE IF ~ap THEN {"NO_AP"}
           ELSE IF saved = "wrong" THEN {"AUTH"} ELSE {}

Fails ==
  /\ sta = "connecting"
  /\ \E reason \in Reasons : events' = Append(events, reason)
  /\ sta' = "idle"
  /\ UNCHANGED <<saved, mgr, ap, bounds>>

(* It fails, or a link breaks, although nothing is wrong.                  *)
Drops ==
  /\ sta \in {"connecting", "up"}
  /\ troubles < MaxTrouble
  /\ troubles' = troubles + 1
  /\ sta' = "idle"
  /\ \E reason \in Reason : events' = Append(events, reason)
  /\ UNCHANGED <<saved, mgr, ap, cycles, entries>>

(* The access point goes, with the link to it, or comes back.              *)
ApGoes ==
  /\ troubles < MaxTrouble
  /\ troubles' = troubles + 1
  /\ ap' = ~ap
  /\ IF sta = "up"
       THEN sta' = "idle" /\ events' = Append(events, "OTHER")
       ELSE UNCHANGED <<sta, events>>
  /\ UNCHANGED <<saved, mgr, cycles, entries>>

Station == Attaches \/ Fails

-----------------------------------------------------------------------------
(* The manager.                                                            *)

(* The phone's credentials are stored and tried at once; none are taken    *)
(* while earlier ones are being tried or have failed.                      *)
PhoneSends ==
  /\ mgr = "started"
  /\ entries < MaxEntry
  /\ entries' = entries + 1
  /\ saved' \in {"wrong", "right"}
  /\ mgr' = "recv"
  /\ sta' = IF sta = "idle" THEN "connecting" ELSE sta
  /\ UNCHANGED <<events, ap, cycles, troubles>>

(* Provisioning stops some time after the success.                         *)
Stops ==
  /\ mgr = "success"
  /\ mgr' = "ended"
  /\ events' = Append(events, "END")
  /\ UNCHANGED <<saved, sta, ap, bounds>>

(* What the manager makes of an event, after the program's own handler.    *)
Watching == mgr \in {"recv", "fail", "success"}
MgrAfter(e) == IF Watching /\ e \in {"AUTH", "NO_AP"} THEN "fail"
               ELSE IF Watching /\ e = "GOT_IP" THEN "success" ELSE mgr
Posted(e) == IF Watching /\ e \in {"AUTH", "NO_AP"} THEN <<"CRED_FAIL">>
             ELSE IF Watching /\ e = "GOT_IP" THEN <<"CRED_SUCCESS">> ELSE <<>>

(* wifi_prov_mgr_reset_sm_state_on_failure: only a failed state machine    *)
(* is reset, and the driver may refuse a new configuration while it tries. *)
ResetOnFailure ==
  \/ mgr = "fail" /\ mgr' = "started" /\ saved' = "none"
  \/ (mgr # "fail" \/ sta = "connecting") /\ UNCHANGED <<mgr, saved>>

(* The head of the queue is delivered.                                     *)
Delivers(e) == /\ events # <<>> /\ e = Head(events)
               /\ events' = Tail(events) \o Posted(e)

Outside == Drops \/ ApGoes \/ PhoneSends
=============================================================================
