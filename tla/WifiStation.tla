------------------------------ MODULE WifiStation ------------------------------
(***************************************************************************)
(* The Wi-Fi station of BLE-Connect and LAB (LIB/wifi_application/         *)
(* wifi_application.c, the same but for the names): wifi_init_sta waits    *)
(* for one of two bits event_handler sets in the default event loop, then  *)
(* unregisters the handler twice over and deletes the group of the bits.   *)
(***************************************************************************)
EXTENDS Naturals, Sequences

CONSTANT MaximumRetry    \* ESP_MAXIMUM_RETRY

ASSUME RetryAssumption == MaximumRetry \in Nat

VARIABLES
  wpc,           \* where wifi_init_sta is
  sta,           \* the station (the driver's); "up" has an address
  events,        \* what the event loop has still to deliver
  s_retry_num,
  bits,          \* s_wifi_event_group
  registered,    \* the handlers the loop still calls
  row,           \* history: disconnections handled since the last address
  stale          \* history: a bit was set in a group that had been deleted

wifiVars == <<wpc, sta, events, s_retry_num, bits, registered, row, stale>>

W_TypeOK ==
  /\ wpc \in {"off", "wait", "unregisterIp", "unregisterWifi", "delete", "over"}
  /\ sta \in {"off", "idle", "connecting", "associated", "up"}
  /\ events \in Seq({"START", "DISCONNECTED", "GOT_IP"})
  /\ s_retry_num \in 0..MaximumRetry
  /\ bits \subseteq {"CONNECTED", "FAIL"}
  /\ registered \subseteq {"wifi", "ip"}
  /\ row \in 0..(MaximumRetry + 1)
  /\ stale \in BOOLEAN

W_Restart == /\ wpc' = "off" /\ sta' = "off" /\ events' = <<>> /\ s_retry_num' = 0
             /\ bits' = {} /\ registered' = {} /\ row' = 0

W_Init == /\ wpc = "off" /\ sta = "off" /\ events = <<>> /\ s_retry_num = 0
          /\ bits = {} /\ registered = {} /\ row = 0 /\ stale = FALSE

(* wifi_init_sta up to the wait.                                           *)
StaStart ==
  /\ wpc = "off"
  /\ wpc' = "wait"
  /\ registered' = {"wifi", "ip"}
  /\ sta' = "idle"
  /\ events' = Append(events, "START")
  /\ UNCHANGED <<s_retry_num, bits, row, stale>>

(* The bits are not taken back.                                            *)
StaWaited ==
  /\ wpc = "wait" /\ bits # {}
  /\ wpc' = "unregisterIp"
  /\ UNCHANGED <<sta, events, s_retry_num, bits, registered, row, stale>>

StaUnregisterIp ==
  /\ wpc = "unregisterIp"
  /\ registered' = registered \ {"ip"}
  /\ wpc' = "unregisterWifi"
  /\ UNCHANGED <<sta, events, s_retry_num, bits, row, stale>>

(* Mutant: the group is deleted before the last handler is unregistered.   *)
StaDeleteFirst ==
  /\ wpc = "unregisterWifi"
  /\ wpc' = "over"
  /\ UNCHANGED <<sta, events, s_retry_num, bits, registered, row, stale>>

(* Mutant: the handler of the address is unregistered once more.           *)
StaUnregisterIpTwice ==
  /\ wpc = "unregisterWifi"
  /\ registered' = registered \ {"ip"}
  /\ wpc' = "delete"
  /\ UNCHANGED <<sta, events, s_retry_num, bits, row, stale>>

StaUnregisterWifi ==
  /\ wpc = "unregisterWifi"
  /\ registered' = registered \ {"wifi"}
  /\ wpc' = "delete"
  /\ UNCHANGED <<sta, events, s_retry_num, bits, row, stale>>

(* vEventGroupDelete, and the caller goes on, on line or not.              *)
StaDelete ==
  /\ wpc = "delete"
  /\ wpc' = "over"
  /\ UNCHANGED <<sta, events, s_retry_num, bits, registered, row, stale>>

wifi_init_sta == StaStart \/ StaWaited \/ StaUnregisterIp \/ StaUnregisterWifi \/ StaDelete

(* What the loop delivers; an event nobody is registered for is dropped.   *)
Delivers(e, handler) == /\ events # <<>> /\ e = Head(events)
                        /\ handler \in registered
                        /\ events' = Tail(events)

SetBit(b) == bits' = bits \cup {b} /\ stale' = (stale \/ wpc = "over")

Connect == sta' = IF sta = "idle" THEN "connecting" ELSE sta

HandleStart ==
  /\ Delivers("START", "wifi")
  /\ Connect
  /\ UNCHANGED <<wpc, s_retry_num, bits, registered, row, stale>>

(* Mutant: nobody is told that the retries are used up.                    *)
HandleDisconnectedSilent ==
  /\ Delivers("DISCONNECTED", "wifi")
  /\ row' = IF row > MaximumRetry THEN row ELSE row + 1
  /\ IF s_retry_num < MaximumRetry
       THEN Connect /\ s_retry_num' = s_retry_num + 1
       ELSE UNCHANGED <<sta, s_retry_num>>
  /\ UNCHANGED <<wpc, bits, registered, stale>>

HandleDisconnected ==
  /\ Delivers("DISCONNECTED", "wifi")
  /\ row' = IF row > MaximumRetry THEN row ELSE row + 1
  /\ IF s_retry_num < MaximumRetry
       THEN Connect /\ s_retry_num' = s_retry_num + 1 /\ UNCHANGED <<bits, stale>>
       ELSE SetBit("FAIL") /\ UNCHANGED <<sta, s_retry_num>>
  /\ UNCHANGED <<wpc, registered>>

(* Mutant: an address does not give the retries back.                      *)
HandleGotIpKeeps ==
  /\ Delivers("GOT_IP", "ip")
  /\ row' = 0
  /\ SetBit("CONNECTED")
  /\ UNCHANGED <<wpc, sta, s_retry_num, registered>>

HandleGotIp ==
  /\ Delivers("GOT_IP", "ip")
  /\ s_retry_num' = 0 /\ row' = 0
  /\ SetBit("CONNECTED")
  /\ UNCHANGED <<wpc, sta, registered>>

DropEvent ==
  /\ events # <<>>
  /\ (IF Head(events) = "GOT_IP" THEN "ip" ELSE "wifi") \notin registered
  /\ events' = Tail(events)
  /\ UNCHANGED <<wpc, sta, s_retry_num, bits, registered, row, stale>>

EventLoop == HandleStart \/ HandleDisconnected \/ HandleGotIp \/ DropEvent

(* The driver (external): an attempt succeeds or fails, an access point    *)
(* gives an address or does not, a link may break with or without one.     *)
AttemptEnds ==
  /\ sta = "connecting"
  /\ \/ sta' = "associated" /\ events' = events
     \/ sta' = "idle" /\ events' = Append(events, "DISCONNECTED")
  /\ UNCHANGED <<wpc, s_retry_num, bits, registered, row, stale>>

GetsAddress ==
  /\ sta = "associated"
  /\ sta' = "up"
  /\ events' = Append(events, "GOT_IP")
  /\ UNCHANGED <<wpc, s_retry_num, bits, registered, row, stale>>

LinkBreaks ==
  /\ sta \in {"associated", "up"}
  /\ sta' = "idle"
  /\ events' = Append(events, "DISCONNECTED")
  /\ UNCHANGED <<wpc, s_retry_num, bits, registered, row, stale>>

-----------------------------------------------------------------------------
(* The handler never sets a bit of a group wifi_init_sta has deleted,      *)
(* whatever event is on its way when the wait is over.  (Lines 125-128.)   *)
GroupIsThere == ~stale

(* wifi_init_sta gives up only after one attempt more than there are       *)
(* retries has failed in a row: every address gives all of them back.      *)
(* (Lines 51-63.)                                                          *)
FailIsEarned == "FAIL" \in bits => row = MaximumRetry + 1
=============================================================================
