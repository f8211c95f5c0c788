---------------------------- MODULE GatewayBringup ----------------------------
(***************************************************************************)
(* How the gateway of src/Light-SW/Light-SW/GateWay gets from power-on to  *)
(* the broker: main.c and app_mqtt.c.  Four tasks: app_main reads the      *)
(* credentials from NVS; the event task runs event_handler; the SmartConfig*)
(* task waits on an event group, brings up Bluetooth, the mesh and MQTT,   *)
(* and ends once a phone has delivered credentials; the MQTT client's task *)
(* connects.  The Wi-Fi driver, SmartConfig's radio side, the MQTT client  *)
(* and the phone are external.                                             *)
(***************************************************************************)
EXTENDS Naturals, Sequences

CONSTANTS
  Net,        \* the Wi-Fi networks in reach
  Offer,      \* the credentials a phone may send, right and wrong ones
  None,       \* nothing stored
  Garbage,    \* what a buffer nobody wrote holds
  MaxDrop,    \* bound: attempts and links of a right network that fail
  MaxPhone,   \* bound: credentials sent by phones
  MaxCrash,   \* bound: losses of power
  MaxFault,   \* bound: NVS, Wi-Fi and Bluetooth calls that fail
  MaxBroker   \* bound: connections the broker refuses or drops

(* A pair is right when the password is that of the network.               *)
Pair(s, p) == [ssid |-> s, password |-> p]
Word == Net \cup {None, Garbage}
Right(c) == c.ssid \in Net /\ c.password = c.ssid

ASSUME BringupAssumption ==
  /\ Offer \subseteq [ssid : Net, password : Net]
  /\ None \notin Net /\ Garbage \notin Net /\ None # Garbage
  /\ MaxDrop \in Nat /\ MaxPhone \in Nat /\ MaxCrash \in Nat /\ MaxFault \in Nat
  /\ MaxBroker \in Nat

VARIABLES
  app,        \* where app_main is
  events,     \* the event loop's queue
  epc,        \* where event_handler is while it saves credentials
  got,        \* the credentials it is handling
  bits,       \* s_wifi_event_group
  sc,         \* where the SmartConfig task is
  uxBits,     \* what its xEventGroupWaitBits returned
  link,       \* the Wi-Fi driver
  cfg,        \* the driver's configuration
  phone,      \* SmartConfig's radio side
  bt,         \* Bluetooth is initialised
  mqtt,       \* the MQTT client
  subscribed, \* the broker sends this client the commands
  nvs,        \* what nvs_get_str returns for "ssid" and "password"
  flash,      \* what of it is committed
  trouble,    \* history: what befell the credentials in NVS
  ips,        \* history: how often the link came up since the start; two is often
  failed,     \* history: Bluetooth or its NVS could not be started
  unheard,    \* history: the broker refused or dropped a connection since the start
  drops, phones, crashes, faults, refusals

wifi    == <<link, cfg>>
eventTask == <<events, epc, got>>
scTask  == <<sc, uxBits>>
client  == <<bt, mqtt, subscribed>>
store   == <<nvs, flash>>
hist    == <<trouble, ips, failed, unheard>>
counts  == <<drops, phones, crashes, faults, refusals>>
vars == <<app, eventTask, bits, scTask, wifi, phone, client, store, hist, counts>>

Credentials == [ssid : Word, password : Word]
NoPair == Pair(None, None)

Event == {[kind |-> k] : k \in {"START", "DISCONNECTED", "GOT_IP", "SEND_ACK_DONE"}}
         \cup {[kind |-> "GOT_SSID_PSWD", pair |-> c] : c \in Offer}

TypeOK ==
  /\ app \in {"off", "read", "ready"}
  /\ events \in Seq(Event)
  /\ epc \in {"idle", "password", "commit", "apply"}
  /\ got \in Credentials
  /\ bits \subseteq {"CONNECTED", "DONE"}
  /\ sc \in {"none", "start", "waiting", "woken", "mqtt", "subscribe", "done?", "returned", "gone"}
  /\ uxBits \subseteq {"CONNECTED", "DONE"}
  /\ link \in {"down", "connecting", "up"}
  /\ cfg \in Credentials
  /\ phone \in {"deaf", "listening", "sent", "acked"}
  /\ bt \in BOOLEAN
  /\ mqtt \in {"off", "connecting", "connected", "waiting"}
  /\ subscribed \in BOOLEAN
  /\ nvs \in Credentials /\ flash \in Credentials
  /\ trouble \subseteq {"unsaved", "torn"}
  /\ ips \in 0..2 /\ failed \in BOOLEAN /\ unheard \in BOOLEAN
  /\ drops \in 0..MaxDrop /\ phones \in 0..MaxPhone /\ crashes \in 0..MaxCrash
  /\ faults \in 0..MaxFault /\ refusals \in 0..MaxBroker

(* What a start finds in RAM.                                              *)
FreshRam ==
  /\ app' = "off"
  /\ events' = <<>> /\ epc' = "idle" /\ got' = NoPair
  /\ bits' = {} /\ sc' = "none" /\ uxBits' = {}
  /\ link' = "down" /\ cfg' = NoPair
  /\ phone' = "deaf"
  /\ bt' = FALSE /\ mqtt' = "off" /\ subscribed' = FALSE
  /\ ips' = 0 /\ failed' = FALSE /\ unheard' = FALSE

Init ==
  /\ app = "off"
  /\ events = <<>> /\ epc = "idle" /\ got = NoPair
  /\ bits = {} /\ sc = "none" /\ uxBits = {}
  /\ link = "down" /\ cfg = NoPair
  /\ phone = "deaf"
  /\ bt = FALSE /\ mqtt = "off" /\ subscribed = FALSE
  /\ ips = 0 /\ failed = FALSE /\ unheard = FALSE
  /\ nvs \in Offer \cup {NoPair}
  /\ flash = nvs
  /\ trouble = {}
  /\ drops = 0 /\ phones = 0 /\ crashes = 0 /\ faults = 0 /\ refusals = 0

Fault == /\ faults < MaxFault
         /\ faults' = faults + 1

Ev(k) == [kind |-> k]

-----------------------------------------------------------------------------
(* The Wi-Fi driver.                                                       *)

(* esp_wifi_connect: without a configuration, or when a connection is up   *)
(* or under way, it has no effect.                                         *)
Connecting(l, c) == IF l = "down" /\ c # NoPair THEN "connecting" ELSE l

LinkUp ==
  /\ link = "connecting" /\ Right(cfg)
  /\ link' = "up"
  /\ events' = Append(events, Ev("GOT_IP"))
  /\ UNCHANGED <<app, epc, got, bits, scTask, cfg, phone, client, store, hist, counts>>

(* A wrong pair fails every time, a right one now and then.                *)
LinkDown ==
  /\ \/ link = "connecting" /\ ~Right(cfg) /\ UNCHANGED drops
     \/ link # "down" /\ Right(cfg) /\ drops < MaxDrop /\ drops' = drops + 1
  /\ link' = "down"
  /\ events' = Append(events, Ev("DISCONNECTED"))
  /\ UNCHANGED <<app, epc, got, bits, scTask, cfg, phone, client, store, hist,
                 phones, crashes, faults, refusals>>

(* A phone sends credentials while SmartConfig listens; it takes seconds,  *)
(* and app_main is through long before.                                    *)
PhoneSends(c) ==
  /\ phone = "listening" /\ app = "ready"
  /\ phones < MaxPhone
  /\ phones' = phones + 1
  /\ phone' = "sent"
  /\ events' = Append(events, [kind |-> "GOT_SSID_PSWD", pair |-> c])
  /\ UNCHANGED <<app, epc, got, bits, scTask, wifi, client, store, hist,
                 drops, crashes, faults, refusals>>

(* SmartConfig tells the phone once the link is up under its credentials.  *)
PhoneAcked ==
  /\ phone = "sent" /\ link = "up" /\ cfg = got
  /\ phone' = "acked"
  /\ events' = Append(events, Ev("SEND_ACK_DONE"))
  /\ UNCHANGED <<app, epc, got, bits, scTask, wifi, client, store, hist, counts>>

-----------------------------------------------------------------------------
(* app_main.                                                               *)

(* Up to esp_wifi_start in initialise_wifi; an NVS partition without a     *)
(* free page is erased.                                                    *)
AppStart ==
  /\ app = "off"
  /\ app' = "read"
  /\ events' = Append(events, Ev("START"))
  /\ \/ UNCHANGED <<store, trouble, faults>>
     \/ Fault /\ nvs' = NoPair /\ flash' = NoPair /\ trouble' = {}
  /\ UNCHANGED <<epc, got, bits, scTask, wifi, phone, client,
                 ips, failed, unheard, drops, phones, crashes, refusals>>

(* The rest of initialise_wifi.  ret is that of the password only: an SSID *)
(* that could not be read leaves its buffer as it was.                     *)
ReadCredentials ==
  /\ app = "read"
  /\ app' = "ready"
  /\ IF nvs.password # None
       THEN /\ cfg' = IF nvs.ssid = None THEN Pair(Garbage, nvs.password) ELSE nvs
            /\ link' = Connecting(link, cfg')
       ELSE UNCHANGED wifi
  /\ UNCHANGED <<eventTask, bits, scTask, phone, client, store, hist, counts>>

-----------------------------------------------------------------------------
(* The event task: event_handler.                                          *)

Handle(k) == /\ epc = "idle"
             /\ events # <<>> /\ Head(events).kind = k
             /\ events' = Tail(events)

(* Mutant: clearOnExit is false.                                           *)
SetBitsKept(b) ==
  /\ bits' = bits \cup {b}
  /\ IF sc = "waiting" THEN sc' = "woken" /\ uxBits' = bits \cup {b} ELSE UNCHANGED scTask

(* xEventGroupSetBits; a waiting task leaves with the bits, and takes them *)
(* out of the group (clearOnExit).                                         *)
SetBits(b) ==
  IF sc = "waiting"
    THEN sc' = "woken" /\ uxBits' = bits \cup {b} /\ bits' = {}
    ELSE bits' = bits \cup {b} /\ UNCHANGED scTask

HandleStart ==
  /\ Handle("START")
  /\ sc' = "start"
  /\ UNCHANGED <<app, epc, got, bits, uxBits, wifi, phone, client, store, hist, counts>>

(* Mutant: the station does not try again.                                 *)
HandleDisconnectedIdle ==
  /\ Handle("DISCONNECTED")
  /\ bits' = bits \ {"CONNECTED"}
  /\ UNCHANGED <<app, epc, got, scTask, wifi, phone, client, store, hist, counts>>

HandleDisconnected ==
  /\ Handle("DISCONNECTED")
  /\ link' = Connecting(link, cfg)
  /\ bits' = bits \ {"CONNECTED"}
  /\ UNCHANGED <<app, epc, got, scTask, cfg, phone, client, store, hist, counts>>

HandleGotIp ==
  /\ Handle("GOT_IP")
  /\ SetBits("CONNECTED")
  /\ ips' = IF ips = 2 THEN 2 ELSE ips + 1
  /\ UNCHANGED <<app, epc, got, wifi, phone, client, store, trouble, failed, unheard, counts>>

HandleAckDone ==
  /\ Handle("SEND_ACK_DONE")
  /\ SetBits("DONE")
  /\ UNCHANGED <<app, epc, got, wifi, phone, client, store, hist, counts>>

(* SC_EVENT_GOT_SSID_PSWD: save_wifi_config_to_nvs gives up when NVS does  *)
(* not open; otherwise every call is made, whatever the others returned.   *)
SaveSsid ==
  /\ Handle("GOT_SSID_PSWD")
  /\ got' = Head(events).pair
  /\ \/ nvs' = [nvs EXCEPT !.ssid = got'.ssid] /\ epc' = "password" /\ UNCHANGED <<trouble, faults>>
     \/ Fault /\ epc' \in {"password", "apply"} /\ trouble' = trouble \cup {"unsaved"} /\ UNCHANGED nvs
  /\ UNCHANGED <<app, bits, scTask, wifi, phone, client, flash,
                 ips, failed, unheard, drops, phones, crashes, refusals>>

SavePassword ==
  /\ epc = "password"
  /\ epc' = "commit"
  /\ \/ nvs' = [nvs EXCEPT !.password = got.password] /\ UNCHANGED <<trouble, faults>>
     \/ Fault /\ trouble' = trouble \cup {"unsaved"} /\ UNCHANGED nvs
  /\ UNCHANGED <<app, events, got, bits, scTask, wifi, phone, client, flash,
                 ips, failed, unheard, drops, phones, crashes, refusals>>

(* Mutant: the pair is not committed.                                      *)
SaveWithoutCommit ==
  /\ epc = "commit"
  /\ epc' = "apply"
  /\ UNCHANGED <<app, events, got, bits, scTask, wifi, phone, client, store, hist, counts>>

SaveCommit ==
  /\ epc = "commit"
  /\ epc' = "apply"
  /\ \/ flash' = nvs /\ UNCHANGED <<trouble, faults>>
     \/ Fault /\ trouble' = trouble \cup {"unsaved"} /\ UNCHANGED flash
  /\ UNCHANGED <<app, events, got, bits, scTask, wifi, phone, client, nvs,
                 ips, failed, unheard, drops, phones, crashes, refusals>>

(* esp_wifi_disconnect, esp_wifi_set_config, esp_wifi_connect.             *)
ApplyCredentials ==
  /\ epc = "apply"
  /\ epc' = "idle"
  /\ events' = IF link = "down" THEN events ELSE Append(events, Ev("DISCONNECTED"))
  /\ cfg' = got
  /\ link' = "connecting"
  /\ UNCHANGED <<app, got, bits, scTask, phone, client, store, hist, counts>>

-----------------------------------------------------------------------------
(* The SmartConfig task.                                                   *)

(* xEventGroupWaitBits: whatever is set is returned and cleared.           *)
WaitBits ==
  IF bits = {} THEN sc' = "waiting" /\ UNCHANGED <<uxBits, bits>>
               ELSE sc' = "woken" /\ uxBits' = bits /\ bits' = {}

(* Mutant: the bits are cleared before the first wait.                     *)
SmartConfigStartClears ==
  /\ sc = "start"
  /\ phone' = "listening"
  /\ sc' = "waiting" /\ bits' = {}
  /\ UNCHANGED <<app, eventTask, uxBits, wifi, client, store, hist, counts>>

(* esp_smartconfig_start and the first wait.                               *)
SmartConfigStart ==
  /\ sc = "start"
  /\ phone' = "listening"
  /\ WaitBits
  /\ UNCHANGED <<app, eventTask, wifi, client, store, hist, counts>>

(* bluetooth_init, ble_mesh_nvs_open, ble_mesh_init.  Bluetooth starts     *)
(* once: a second bluetooth_init is an error, and on an error the task     *)
(* function returns.                                                       *)
BringUp ==
  /\ sc = "woken" /\ "CONNECTED" \in uxBits
  /\ \/ ~bt /\ bt' = TRUE /\ sc' = "mqtt" /\ UNCHANGED <<failed, faults>>
     \/ ~bt /\ Fault /\ failed' = TRUE /\ sc' = "returned" /\ UNCHANGED bt
     \/ bt /\ sc' = "returned" /\ UNCHANGED <<bt, failed, faults>>
  /\ UNCHANGED <<app, eventTask, bits, uxBits, wifi, phone, mqtt, subscribed, store,
                 trouble, ips, unheard, drops, phones, crashes, refusals>>

OnlyDone ==
  /\ sc = "woken" /\ "CONNECTED" \notin uxBits
  /\ sc' = "done?"
  /\ UNCHANGED <<app, eventTask, bits, uxBits, wifi, phone, client, store, hist, counts>>

MqttStart ==
  /\ sc = "mqtt"
  /\ sc' = "subscribe"
  /\ mqtt' = "connecting"
  /\ UNCHANGED <<app, eventTask, bits, uxBits, wifi, phone, bt, subscribed, store, hist, counts>>

(* Mutant: it does not wait for the client.                                *)
SubscribeAtOnce ==
  /\ sc = "subscribe"
  /\ sc' = "done?"
  /\ subscribed' = (mqtt = "connected")
  /\ UNCHANGED <<app, eventTask, bits, uxBits, wifi, phone, bt, mqtt, store, hist, counts>>

(* app_mqtt_subscribe waits for the client's lock, which the client's task *)
(* holds while it connects, and fails unless the client is connected.      *)
Subscribe ==
  /\ sc = "subscribe" /\ mqtt # "connecting"
  /\ sc' = "done?"
  /\ subscribed' = (mqtt = "connected")
  /\ UNCHANGED <<app, eventTask, bits, uxBits, wifi, phone, bt, mqtt, store, hist, counts>>

(* Mutant: the task waits without looking at ESPTOUCH_DONE_BIT.            *)
LoopForEver ==
  /\ sc = "done?"
  /\ WaitBits
  /\ UNCHANGED <<app, eventTask, wifi, phone, client, store, hist, counts>>

LoopOrEnd ==
  /\ sc = "done?"
  /\ IF "DONE" \in uxBits
       THEN sc' = "gone" /\ phone' = "deaf" /\ UNCHANGED <<uxBits, bits>>
       ELSE WaitBits /\ UNCHANGED phone
  /\ UNCHANGED <<app, eventTask, wifi, client, store, hist, counts>>

-----------------------------------------------------------------------------
(* The MQTT client's task.                                                 *)

BrokerAccepts ==
  /\ mqtt = "connecting" /\ link = "up"
  /\ mqtt' = "connected"
  /\ UNCHANGED <<app, eventTask, bits, scTask, wifi, phone, bt, subscribed, store, hist, counts>>

(* A connection fails or ends with the link, or because of the broker.  It *)
(* was a clean session: the broker forgets the subscription.               *)
BrokerGone ==
  /\ mqtt \in {"connecting", "connected"}
  /\ \/ link # "up" /\ UNCHANGED refusals
     \/ link = "up" /\ refusals < MaxBroker /\ refusals' = refusals + 1
  /\ mqtt' = "waiting"
  /\ subscribed' = FALSE
  /\ unheard' = TRUE
  /\ UNCHANGED <<app, eventTask, bits, scTask, wifi, phone, bt, store,
                 trouble, ips, failed, drops, phones, crashes, faults>>

(* The client tries again after a while; nobody subscribes again           *)
(* (app_mqtt.c:35-45).                                                     *)
Reconnect ==
  /\ mqtt = "waiting"
  /\ mqtt' = "connecting"
  /\ UNCHANGED <<app, eventTask, bits, scTask, wifi, phone, bt, subscribed, store, hist, counts>>

-----------------------------------------------------------------------------
(* Restarts.  What was set and not committed may or may not have reached   *)
(* the flash; NVS writes in order, so the password has not without the     *)
(* ssid.                                                                   *)
Restart ==
  /\ FreshRam
  /\ nvs' \in {flash, Pair(nvs.ssid, flash.password), nvs}
  /\ flash' = nvs'
  /\ trouble' = IF epc \in {"password", "commit"} THEN trouble \cup {"torn"} ELSE trouble

PowerCycle ==
  /\ crashes < MaxCrash
  /\ crashes' = crashes + 1
  /\ app # "off"
  /\ Restart
  /\ UNCHANGED <<drops, phones, faults, refusals>>

(* A task function that returns aborts the program (the wrapper FreeRTOS   *)
(* puts around it), and the panic handler restarts it.                     *)
Abort ==
  /\ sc = "returned"
  /\ Restart
  /\ UNCHANGED counts

(* An ESP_ERROR_CHECK on the way to the network fails and aborts the       *)
(* program: of esp_wifi_disconnect or esp_wifi_set_config once the pair is *)
(* saved, or of the start of SmartConfig.                                  *)
CheckAborts ==
  /\ epc = "apply" \/ sc = "start"
  /\ Fault
  /\ Restart
  /\ UNCHANGED <<drops, phones, crashes, refusals>>

AppMain == AppStart \/ ReadCredentials
EventTask == HandleStart \/ HandleDisconnected \/ HandleGotIp \/ HandleAckDone
             \/ SaveSsid \/ SavePassword \/ SaveCommit \/ ApplyCredentials
SmartConfigTask == SmartConfigStart \/ BringUp \/ OnlyDone \/ MqttStart \/ Subscribe \/ LoopOrEnd
Broker == BrokerAccepts \/ Reconnect

Next ==
  \/ AppMain \/ EventTask \/ SmartConfigTask \/ Abort \/ CheckAborts
  \/ LinkUp \/ LinkDown
  \/ \E c \in Offer : PhoneSends(c)
  \/ PhoneAcked
  \/ Broker \/ BrokerGone
  \/ PowerCycle

Spec == Init /\ [][Next]_vars

(* The tasks run when they can, the driver and the client end an attempt.  *)
Fairness == /\ WF_vars(AppMain) /\ WF_vars(EventTask) /\ WF_vars(SmartConfigTask)
            /\ WF_vars(Abort) /\ WF_vars(LinkUp \/ LinkDown) /\ WF_vars(Broker \/ BrokerGone)

FairSpec == Spec /\ Fairness

-----------------------------------------------------------------------------
(* What NVS holds is a pair a phone sent, ssid and password of the same    *)
(* message, unless a call failed or the power was lost between the two     *)
(* (main.c:423-435).                                                       *)
CredentialsWhole ==
  trouble = {} /\ epc \in {"idle", "apply"} => nvs \in Offer \cup {NoPair} /\ flash = nvs

(* The driver is never given anything else, in particular not the buffer   *)
(* of an SSID that was not read (main.c:554-563).                          *)
ConfigIsOffered == trouble = {} => cfg \in Offer \cup {NoPair}

(* SmartConfig is over only after the task saw the link come up, however   *)
(* links, acknowledgements and drops interleave: otherwise nobody is left  *)
(* to start the mesh and MQTT (main.c:496-525).                            *)
OverMeansUp == sc = "gone" => bt

(* The SmartConfig task returns, which restarts the gateway, only when the *)
(* link came up more than once or Bluetooth failed (main.c:499-508).       *)
RestartsOnReconnect == sc = "returned" => ips = 2 \/ failed

(* A client that never lost the broker is subscribed once the task has     *)
(* asked, although it asks while the client may still be connecting        *)
(* (main.c:518-519, app_mqtt.c:70-92).                                     *)
HeardFromTheStart ==
  mqtt = "connected" /\ ~unheard /\ sc # "subscribe" => subscribed

(* "Co thong tin WiFi, thiet lap va ket noi" (there is Wi-Fi information,  *)
(* set up and connect; main.c:558): what the driver is given was read.     *)
InfoIsThere == cfg.ssid # Garbage

(* A gateway that knows a network in reach gets to the broker, through     *)
(* dropped links, restarts and phones, unless a save went wrong and the    *)
(* driver has other credentials than NVS (main.c:437-527).                 *)
ComesUp ==
  Right(nvs) /\ trouble = {} ~> mqtt = "connected" \/ ~Right(nvs) \/ trouble # {}

(* SmartConfig that a phone acknowledged ends, or the gateway restarts     *)
(* (main.c:484-485 and 521-525).                                           *)
AckEnds == "DONE" \in bits \cup uxBits ~> sc \in {"gone", "none"}

-----------------------------------------------------------------------------
(* The inductive invariant, by what each part is about.                    *)

(* The queue q has an event of kind k; has one only in front; has a j      *)
(* before every k; has a j behind every k.                                 *)
Queued(q, k) == \E i \in DOMAIN q : q[i].kind = k
OnlyInFront(q, k) == \A i \in DOMAIN q : q[i].kind = k => i = 1
EachAfter(q, k, j) ==
  \A i \in DOMAIN q : q[i].kind = k => \E m \in DOMAIN q : m < i /\ q[m].kind = j
EachBefore(q, k, j) ==
  \A i \in DOMAIN q : q[i].kind = k => \E m \in DOMAIN q : m > i /\ q[m].kind = j

(* A start begins with nothing, and reads the credentials before a phone   *)
(* can change them.                                                        *)
StartInv ==
  /\ app = "off" => events = <<>> /\ sc = "none" /\ cfg = NoPair
  /\ app # "ready" => link = "down" /\ cfg = NoPair /\ epc = "idle"
                       /\ ~Queued(events, "GOT_SSID_PSWD")
  /\ OnlyInFront(events, "START")
  /\ Queued(events, "START") => sc = "none"
  /\ sc \in {"none", "start"} => phone = "deaf" /\ ~bt /\ "DONE" \notin bits \cup uxBits
                                  /\ ~Queued(events, "SEND_ACK_DONE")

(* A save that is not interrupted ends with the pair that began it.        *)
CredentialInv ==
  /\ got \in Offer \cup {NoPair}
  /\ epc # "idle" => got \in Offer
  /\ trouble = {} /\ epc = "password" => nvs.ssid = got.ssid
  /\ trouble = {} /\ epc = "commit" => nvs = got
  /\ CredentialsWhole
  /\ ConfigIsOffered

(* CONNECTED_BIT stands for a link that came up after the one that was     *)
(* acted on.                                                               *)
RestartInv ==
  /\ ips = 0 => ~bt /\ "CONNECTED" \notin bits \cup uxBits
  /\ "CONNECTED" \in bits /\ bt => ips = 2
  /\ sc = "woken" /\ "CONNECTED" \in uxBits /\ (bt \/ "CONNECTED" \in bits) => ips = 2
  /\ RestartsOnReconnect

(* Until the client loses the broker it is connecting, with the task at    *)
(* its lock, or connected.                                                 *)
ClientInv ==
  /\ ~bt => mqtt = "off"
  /\ sc \in {"mqtt", "subscribe", "done?", "gone"} => bt
  /\ sc = "mqtt" <=> bt /\ mqtt = "off"
  /\ ~unheard => mqtt # "waiting"
  /\ bt /\ ~unheard /\ sc \notin {"mqtt", "subscribe"} => mqtt = "connected" /\ subscribed

(* The task saw the link come up.                                          *)
Seen == bt \/ sc = "returned" \/ (sc = "woken" /\ "CONNECTED" \in uxBits)

(* The acknowledgement of a phone comes behind the link it needs.          *)
AckInv ==
  /\ sc = "woken" => uxBits # {}
  /\ "DONE" \in bits \cup uxBits => Seen
  /\ Seen \/ EachAfter(events, "SEND_ACK_DONE", "GOT_IP")
  /\ link = "up" => EachBefore(events, "DISCONNECTED", "GOT_IP")
  /\ link = "up" => Seen \/ Queued(events, "GOT_IP")
                    \/ (sc \in {"none", "start"} /\ "CONNECTED" \in bits)

BringupInv == StartInv /\ CredentialInv /\ RestartInv /\ ClientInv /\ AckInv
=============================================================================
