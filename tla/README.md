# A TLA+ model of Do-EE2-IoT/Old-Project

The repository holds the firmware of a small smart home on ESP32 boards: the
BLE-mesh lights of `Light-SW` (lights, a wall switch, a gateway to an MQTT
broker), a door lock with keypad and fingerprint reader, two programs that get
Wi-Fi credentials from a phone, and a number of smaller programs the team
learned on. This directory models the lights, the door lock, provisioning and
the BLE and web servers of `BLE-Connect` and `LAB`, checks the models with TLC
and proves what matters most with TLAPS.

Paths below are relative to `src/`; `Light/`, `Switch/` and `GateWay/` stand
for `Light-SW/Light-SW/Light/` and so on, a bare file name for the file of that
name in the program the sentence is about.

## Inventory

| Part | State | Operations | Interacts with |
| --- | --- | --- | --- |
| Light (`Light/main/main.c`, `bee_app_nvs.c`, `board.c`) | `state_led`, LED pin, `my_handle`, NVS key, mesh model | start and restore (`app_main`), SET, GET | mesh: takes SET/GET, publishes STATUS |
| Wall switch (`Switch/main/main.c`, `board.c`) | `state_button`, `store` | button tap, STATUS | mesh: SET to group 0xC111, takes STATUS |
| Gateway (`GateWay/main/main.c`, `app_mqtt.c`, `board.c`) | `address_des`, `value`, `value_pre`, `string_json`, `store.tid` | MQTT command, STATUS, GET and its answer, timeout | MQTT broker, mesh |
| Gateway bring-up (`GateWay/main/main.c:423-618`) | Wi-Fi event bits, credentials in NVS, SmartConfig task | connect, reconnect, SmartConfig, start of Bluetooth and MQTT | Wi-Fi driver, broker |
| Provisioning store (`store` of switch and gateway) | `net_idx`, `app_idx`, `tid` and their NVS copy | provisioning and configuration callbacks | provisioner |
| Door lock, keypad (`Components/Key_pad.c`, `main/Smart_door_lock_ESP32.c`) | `keypad_queue`, `time_old_isr`, `password`, `the_position`, `enable_door_lock`, gpio 2 | key interrupt, password task | shares gpio 2 with the finger |
| Door lock, finger (`Components/jm101.c`) | what is on the serial line, `fingerprint_confirm_callback` | one function per command, `jm101_reponse`, the parser, the task | UART reader; callback publishes over MQTT |
| Door lock, MQTT (`Components/mqtt_config.c`) | the client and its lock | start, publish | two tasks of the lock, broker |
| Door lock, provisioning (`Components/wifi_provision.c`) | `retries`, `WIFI_CONNECTED_EVENT`, credentials in NVS | start, wait, events of manager, Wi-Fi and IP | provisioning manager, Wi-Fi driver, phone |
| `ESP32_factory-ble-prov` (`src/factory_ble_prov.c`, `test/main/main.c`) | `_retry_num`, `WIFI_PROV_END_EVENT`, credentials and `mqtt_url` in NVS | `app_main`, Wi-Fi events, manager events, URL handler | provisioning manager, Wi-Fi driver, phone |
| `BLE-Connect`, `LAB` (`LIB/`, `main/`) | `s_retry_num` and two event bits, GAP procedure, MQTT client, POST loop | `wifi_init_sta` with its handler, GAP events, `device_write`, MQTT events, POST handlers | Wi-Fi driver, phone, broker |
| `onoff_client` | `store`; an acknowledged SET with its retry loop nobody calls | button, client callback | mesh |
| `blink`, `nvs_rw_value`, `softAP`, `esp_http_client`, `FreeRTOS-ESP-IDF-HTTPS`, `ESP32-HD44780`, `Practice` | next to none | SDK demonstrations | - |

What is hard in the lights, and what therefore must hold:

- **Two tasks, no lock.** `ble_mesh_init` returns before `app_main` restores the
  LED, so SETs are handled while the restore runs; both sides use `state_led`,
  the pin and one static `my_handle`. A light at rest must agree with its flash
  once a SET came through unharmed.
- **Loss of power anywhere**, between `nvs_set_i32`, `nvs_commit` and the report:
  what a light reported must be what comes back.
- **Calls that fail** and are only logged.
- **Several senders, no order between them.** STATUS messages of two lights, the
  button and the broker meet in `state_button` of the switch and in `value`,
  `value_pre` and `string_json` of the gateway.
- **A callback that blocks.** The gateway's Bluetooth task publishes from a mesh
  callback and waits for the MQTT client's lock, which the MQTT task holds while
  it hands a command to the mesh.
- **Unacknowledged messages**: nothing is repeated.
- **One struct, two tasks, one copy in NVS.** The gateway's SETs count `store.tid`
  while the mesh callbacks change the keys in the same struct, and each side stores
  all of it. The restore comes *after* the event that sets `net_idx`.
- **Bits that stand for events.** The SmartConfig task brings everything up when it
  is woken by `CONNECTED_BIT`, which a dropped link clears again, and ends for good
  on `ESPTOUCH_DONE_BIT`. If it ended before it saw a link, nothing would start.

What is hard in the others:

- **An interrupt and a task.** The interrupt handler puts keys into a queue of five
  and does not look at whether it took them; the task that empties it sleeps. Only
  the debouncing, which counts whole seconds, keeps the two in step.
- **Memory that outlives an entry.** `password` is never cleared, `the_position`
  counts past its end, and the loop compares every window up to it.
- **Answers without names.** An answer of the fingerprint reader does not say which
  command it is for, and nothing empties the receive buffer before a command. A late
  answer is parsed as that of the next command, with its callback.
- **A callback that blocks**, again: the finger's publishes while the MQTT client may
  be holding its lock for a broker that is not there.
- **Event loops that call the world.** Reconnection, reset and give-up are decided in
  handlers, while the driver goes on posting events. The factory program even calls,
  in a handler, a function that waits for an event of the same loop.
- **An event group that goes away.** `wifi_init_sta` deletes the group its own handler
  sets bits in.
- **Bodies in pieces.** A POST body comes in as many pieces as the network likes.

## Modules

| Module | What it models |
| --- | --- |
| `MeshNet` | the mesh as the handlers use it (external): FIFO between two nodes, loss, nothing else ordered |
| `LightNode` | a light: both tasks, one action per call; its properties and their inductive invariant |
| `ReportedLamp` | the abstract lamp: what a report promises |
| `LightAlone` | lights against arbitrary clients; the refinement of `ReportedLamp` |
| `SwitchNode` | the wall switch |
| `GatewayNode` | the gateway between MQTT and the mesh, once connected |
| `LightNetwork` | lights, switch and gateway over one `MeshNet`, and the properties of the home |
| `ClientStore` | what switch, gateway and `onoff_client` remember of their network: `store`, its copy in NVS, provisioning and configuration callbacks |
| `GatewayBringup` | the gateway from power-on to the broker: credentials, Wi-Fi events, SmartConfig, the first start of Bluetooth and MQTT |
| `Jm101Frames` | the commands of the fingerprint reader's library as frames with their checksum, and the codes its parser tells apart |
| `Jm101` | the conversation of one task with the reader: send, answer in steps, late and cut answers, `jm101_reponse` |
| `DoorKeypad` | interrupt handler, queue and password task |
| `PasswordLatch` | the abstract latch: what typing promises |
| `DoorLock` | keypad, finger and MQTT client composed; the refinement of `PasswordLatch` |
| `ProvManager` | the provisioning manager, the station and the default event loop as the two programs use them (external) |
| `Enrolment` | the abstract node: when it asks a phone, and what it may forget |
| `DoorProvision`, `FactoryProvision` | the door lock's and the factory program's handlers and tasks |
| `Provisioning` | a node with one of the two, and the properties; the refinement of `Enrolment` |
| `WifiStation`, `BleServer`, `PostHandler` | the three libraries of `BLE-Connect` and `LAB` |
| `ConnectNode` | their `app_main`s, and a node that runs the web server alone |
| `MCLightAlone`, `MCLightNetwork`, `MCClientStore`, `MCGatewayBringup`, `MCDoorLock`, `MCProvisioning`, `MCConnectNode` | the instances TLC checks |
| `LightNode_proofs`, `LightAlone_proofs`, `LightNetwork_proofs`, `ClientStore_proofs`, `GatewayBringup_proofs`, `DoorLock_proofs`, `Provisioning_proofs`, `ConnectNode_proofs` | the proofs |

### LightNode

`app_main` is the program counter `mpc`: `BootStart` is everything up to and
including `ble_mesh_init` (pin off, an NVS without free pages erased, a Bluetooth
failure that ends the task, a mesh failure that does not), then `RestoreOpen`,
`RestoreGet`, `RestoreClose` are the calls of `app_nvs_get_value`, and
`RestoreShow` writes the pin. The server callback is `bpc`: `RecvSet` assigns
`state_led`, `ShowSet` writes the pin, `SaveOpen`, `SaveSet`, `SaveCommit`,
`SaveClose` are the calls of `app_nvs_set_value`, `Publish` sends `state_led` as
it is by then. Steps of the two tasks interleave at every call: the tasks share
one core, and flash writes yield it (`CONFIG_SPI_FLASH_YIELD_DURING_ERASE`), so
`app_main` does run in the middle of a handler.

NVS hands out handles; a call on a handle that was closed fails without effect.
`written` is what `nvs_get_i32` would return, `flash` what survives for certain;
`PowerCycle` brings back either, for a value set but not committed may have
reached the flash. `RecvGet` answers from `srv->state.onoff`, which is the
constant 0, for only code that is never called assigns it.

Four variables are history and no code reads them. `trouble[l]` remembers
whether the last SET met the restore (`raced`), a save that failed (`unsaved`)
or a restore that could not open or read NVS (`unread`); a new SET clears it.
`promised[l]` is the last report not yet put in doubt by another SET. `crashes`
and `faults` count against their bounds. The properties of a light are said of
clean lights (`trouble[l] = {}`); the model itself keeps running through all the
troubled ones, which is how they are told apart.

### SwitchNode and GatewayNode

`Tap` is the button callback with the SET it sends, one step because nothing in
it waits; the toggle stands when the stack refuses the message. `sure` is history:
`state_button` stems from a STATUS or a SET that went out.

The gateway's MQTT task is `gpc` (`CommandArrives`, `ParseCommand`,
`WipeCommand`, `SendCommand`, `SendPair`), its Bluetooth task `cbpc`. The
Bluetooth task has the higher priority on the one core this build uses
(`CONFIG_FREERTOS_UNICORE`), so its callback runs in one go, up to the MQTT
client's lock in `PublishReport`. What is sent there is what `string_json` holds by
then. A command is its two fields, each there or not: that its text fits in the 100
bytes of `string_json` (`main.c:596` prints it without a bound) and that an address it names is
a light's are assumptions of the model; a SET to an address of no light reaches nobody.
`overlapped` is history (a STATUS came while a command was in progress),
`mishaps` too (a report replaced before it was published, a GET answered after
its timeout).

### ClientStore

`bpc` is the Bluetooth task: `Boot` is `app_main`, `ProvCompleteAtBoot` the
`PROV_COMPLETE` a provisioned node hears first, `RegisterComplete` the restore.
After that the provisioner acts: `Join`, `Leave`, `Bind` with its `BindStore`, and
`Unbind`, which the callback does not look at. On the gateway `SendSet` and
`StoreSet` are the MQTT task (`spc`), which uses up a `tid` and stores the struct
as it is by then. `net` and `bound` are the stack's own keys; they survive a
restart when `CONFIG_BLE_MESH_SETTINGS` is set (`Settings`: the sdkconfig of
Switch and GateWay sets it, `onoff_client/sdkconfig:692` does not).

History: `latest` (the key bound last), `lastTid` (of the last SET the stack
took) and `mishaps`: NVS could not be read (`unread`) or written, or the power was
lost before a store that was due (`unsaved`), or refused SETs used up so many
identifiers that the next is the last one again (`wrapped`). Properties are said of nodes
without mishaps. Commands come only to a restored `store`: the Bluetooth task has the
higher priority, and the broker is a round trip away.

### GatewayBringup

`app_main` is `app` (`AppStart` up to `esp_wifi_start`, then `ReadCredentials`). The
event task takes the head of `events`, one action per branch of `event_handler`;
saving credentials is split at each NVS call (`epc`). `SetBits` and `WaitBits` are
FreeRTOS's event group with `clearOnExit`: the bits leave the group with the task
that was woken. The SmartConfig task is `sc`: `SmartConfigStart`, then per turn
`BringUp` (Bluetooth, NVS, mesh; the second time an error, and the task function
returns), `MqttStart`, `Subscribe`, which waits for the lock the MQTT client holds while it
connects, and `LoopOrEnd`. A task function that returns aborts the program
(`Abort`), so does an `ESP_ERROR_CHECK` that fails between the saved pair and the connection, or
at the start of SmartConfig (`CheckAborts`), and the node starts again with what NVS held. `BrokerGone` ends a clean
session: nobody subscribes again.

External are the driver (`LinkUp`, `LinkDown`), SmartConfig's radio side with the
phone (`PhoneSends`, `PhoneAcked`: only when the link is up under the credentials
sent) and the broker. What was set but not committed may survive a power cycle, the
password never without the SSID, since NVS writes in order. A phone takes seconds, so
its credentials come after `app_main` is through. History: `trouble` (a save that
failed or was cut short), `ips` (0, 1, or more links since the start), `failed`,
`unheard`.

### Jm101Frames, Jm101

A frame is its instruction, its data and its sum; header, address and the split of
the sum into bytes are the same in every function and left out. `CheckSum` is
`check_sum` as compiled: `sizeof` is that of a pointer, so four bytes of the caller's
data are added whatever the frame carries; sums are reduced modulo 256 only when they
are 256 or less (`Narrowed`); data that begin with `#` are taken for a length
(`MarkedSum`). `Accepted` is the reader's side.

`request` is the command whose answer is awaited. `Send` may be missed by the reader
(`uart_write_bytes` cannot tell) and interrupts what it was doing. `ReaderAnswers`
answers GR_Auto in up to three steps. `Read` is `jm101_reponse` 800 ms later: it takes all
the receive buffer holds and parses the first package, by the instruction of the
*request*. An answer under way by then is cut, with anything in the byte that
is not there yet, and its rest is what the next read starts with (`torn`). `Calls` is how
often the parser calls the callback. History: `late`, and `origin` (whose answer was
parsed).

### DoorKeypad, PasswordLatch, DoorLock

Time is two bits. `elapsed`: the second has changed since the last interrupt, which is
when the handler takes a key. `polled`: the task has looked into the queue in this
second. `Tick` changes the second, and never without the task having looked, for it does so ten
times a second. `Click` is a press or a bounce; `Glitch` one whose key is up before the
columns are read. `Taken`, `PollKey` and `PollEnter` are a turn of the task. Windows of
`password` beyond its end read memory of others: whether they match is a choice
(`stray`). The password has 16 bytes in the code and `BufSize` in the model.

`DoorLock` adds the three functions the fingerprint task calls, each as the frame it
sends (`Ask...`) and the answer it reads (`Read...`), the callback (`CallbackOpens`,
then `app_mqtt_publish`, which waits for the client's lock) and the client. `PasswordLatch`
promises of every entry shorter than the buffer that Enter opens if the secret was in it and
closes otherwise; a finger opens. The refinement maps `entry` and `pin` to themselves:
everything else of the lock, the stale password memory included, stutters.

### ProvManager, DoorProvision, FactoryProvision

`saved` are the credentials in NVS, which are the driver's. The manager's state machine
(`mgr`) sees an event after the program's handler, and posts its own events at the end
of the queue (`Delivers`). It can be reset only when it failed, and the driver may refuse that
while it tries (`ResetOnFailure`). `DoorBoot` is `init_wifi_provisioning_via_ble` up to
its wait; the handlers are one action per branch. The factory program's
`_start_provisioning` from the event loop has two outcomes: with a manager there
`wifi_prov_mgr_init` fails and `ESP_ERROR_CHECK` restarts the node
(`FactoryAuthAborts`), else the manager is let go again (`FactoryAuthGivesUp`).
The branch in which the loop would wait for itself is in the model, and
`LoopNeverWaits` says it is not reached. When NVS does not say whether the node is
provisioned, `app_main` returns with nothing begun (`FactoryUnread`); such a node is not
promised to get on line (`GaveUp`). `fails` is history.

### WifiStation, BleServer, PostHandler, ConnectNode

`wifi_init_sta` is `wpc`, one action per call from the wait to the deletion of the
group, so that the event loop runs between any two. `row` and `stale` are history. An attempt of the
station ends in failure or in an association (`AttemptEnds`); the address is a step of its own
(`GetsAddress`), which may never come.
`BleServer` has the GAP procedure (`gap`), the MQTT client and what a phone's write
comes to: wiped before there is a client, else kept in the client's RAM (`kept`) until the broker has it
(`arrived`, history), it expires, or the node restarts. A string that does not fit in `copy`
(`BLE_app.c:20`, `CopySize`) runs over the stack, after which the node may go on or restart at any time
(`StackFails`). The broker's first message restarts the node, since `strcpy` is given the low
byte of a pointer (`BLE_app.c:189`). `PostHandler` is one request at a time, since
the server has one task; the callbacks are the program's and no program sets one. `BLE-Connect` and `LAB` differ in `app_main` and in
what becomes of a write. No program of the repository starts the web server: it runs as a node
of its own.

## Runs

All but `door` run with `CHECK_DEADLOCK FALSE`: senders, losses and failures are
bounded, so a behaviour that has used up its budget rightly stops. The door lock's
tasks are loops, so there deadlock is checked.

| Run | Bounds | What it shows |
| --- | --- | --- |
| `light_restart` | 1 light, 1 client, 3 sends, 2 power cycles, 1 failed call, 1 loss | `SettledAgree`, `Durable`, `HandlesBounded`, `ReportsAreTrue`, and `ImplementsLamp`: the light is a `ReportedLamp` |
| `light_get` | 2 sends | `GetTellsState` is **violated**: a light that is on answers a GET with off |
| `network_group` | 2 lights, 2 taps; either 1 command, or 1 loss, 1 refused send and 1 power cycle of the switch | `SwitchTracksGroup`, `GroupAgrees`, `AirMatchesCommand` |
| `network_rest` | 1 light, fair tasks; either 1 tap, 1 proper command, 1 power cycle of the light and 1 failed call, or 2 commands (proper, without method, without params), 1 GET and 1 refused send | `DashboardTracks`, `HomeInv`, and under fairness `ComesToRest`, `CommandEnds`, `ReportGoesOut` |
| `store_gateway` | 2 network keys, 2 application keys, 5 operations of the provisioner, 3 SETs, 2 power cycles, 1 failed call, `tid` modulo 3 | `BoundKeyKept`, `NetKeyInUse`, `FreshTid` |
| `store_rejoin` | the same without SETs and failures | `RestoredIsProper` is **violated**: the key of a network the node has left comes back |
| `bringup` | 2 networks, 3 credentials (one with the wrong password), 1 drop, 1 phone, 1 power cycle, 1 failed call (of NVS, Wi-Fi or Bluetooth), 1 refusal of the broker, fair tasks | `CredentialsWhole`, `OverMeansUp`, `RestartsOnReconnect`, `HeardFromTheStart`, and under fairness `ComesUp`, `AckEnds` |
| `bringup_ssid` | 1 failed call, 1 power cycle | `InfoIsThere` is **violated**: Wi-Fi is configured with an SSID that was never read |
| `network_resend` | 1 command, 1 loss, fair tasks | `LostIsResent` is **violated**: a lost SET is never sent again |
| `door` | 3 keys, a secret of 2, a buffer of 3, 6 interrupts, 3 codes of the reader, 2 answers in the receive buffer, fair tasks; people type more than one key only while the finger's side rests | `NoKeyLost`, `EntryHeld`, `NoFrameRefused`, `OwnAnswer`, `OpensForGR_Auto`, `ImplementsLatch`: the lock is a `PasswordLatch`; under fairness `PublishReturns` |
| `prov` | 5 failures before a reset, 3 retries, 2 credentials, 2 troubles of the network, 1 power cycle, 1 failed NVS call, fair tasks | `NeverIdle`, `LoopNeverWaits`, `ErasedAfterFailures`, `ImplementsEnrolment`: a node keeps its credentials as `Enrolment` says; under fairness `GetsOnLine`, `ProvisioningEnds` |
| `connect` | 6 retries, 2 writes of strings to length 2 with `copy` of size 2, 1 message of the broker, buffer of 3, bodies to 7 bytes, fair tasks | `GroupIsThere`, `FailIsEarned`, `CutForGood`: a link lost after the wait is lost until a restart, and what a phone wrote with it; under fairness `MainGoesOn` |

The type invariants, the inductive invariants and what follows from them (`PromiseShown`, `KeptForGood`,
`ConfigIsOffered`, `CallbackIsSet`, `ReachableOnce`, `StaysBroken`, `EchoWhole`) are proved,
and no run repeats them but `HomeInv`, the invariant of the whole home. Before its proof TLC
also found it true on `network_group`'s instance and on one with a light that is still starting.

Why the bounds are enough to meet the interesting cases: three sends and two
power cycles give a SET that races the restore, one that repairs the damage, a
report, and a loss of power at every point of the next one. Four handles are one more
than the two tasks and a leak can occupy. Two taps and a command are the least that let the
STATUS of an earlier SET come after a later one. `TidModulus` is 4 in place of
256. Five operations of the provisioner are join, bind, leave, join and bind: a second
network with its key. One drop and one phone give up to three links in one start, and the
second is what makes the gateway restart. `Settings = FALSE`
(`onoff_client`) has no run: the proofs are of both values. Six interrupts are more than the
buffer and an Enter: an entry that wraps, one after it that meets what it left, and a
bounce. `prov` and `connect` have the retry counts of the code. Two credentials are a wrong
pair and the right one after it. Bodies of seven bytes in a buffer of three
are the least with a full piece, a short one and one in between. Strings of length 1 and 2 for a `copy` of size 2
are one that fits and one that does not, by its NUL. The proofs below drop all
of these bounds.

Three runs join two cases with an "either ... or" over what people, the power and the
outside world do (`GroupSpec`, `RestSpec`, `MCSpec`). No task is ever held back by it:
a step is excluded only when it would spend the budgets of both cases. In
`door` the two sides share gpio 2 and nothing else, and `DoorLock_proofs` is of both
without the restriction.

The conditions in the properties say what the code does not guarantee. The switch
tracks and the pair agrees only when nothing was lost, since SETs are not
acknowledged. `SwitchTracksGroup` says that the switch agrees with *one* light:
when the switch and the gateway command the pair at once the two lights may see
the SETs in different orders and disagree for good. `DashboardTracks` is said of a
home with one button name (`OneButton`): with two, `value_pre`, which is one for all, swallows
reports. `AirMatchesCommand` excludes commands overlapped by a STATUS, which may
overwrite `value`.

**Fairness.** Weak fairness of each task's steps as a whole (`AppMain`,
`Callback`, the MQTT task after a command has arrived, the gateway's callback, the
switch's): FreeRTOS runs a task that is ready, and the only lock is the MQTT
client's. `bringup` adds that the driver and the MQTT client end an attempt one way or the
other. `door` assumes the fingerprint task runs and an attempt to connect ends; and
strong fairness of `app_mqtt_publish`, for the client's lock is a FreeRTOS mutex, which
goes to the waiting task of the highest priority whenever the client lets it go. `prov`
assumes the tasks, the event loop and the driver, and that the manager stops after a
success; `connect` the tasks, the event loop, the driver and the BLE host, but not that an access
point gives an address: `MainGoesOn` excepts, by name, a station that stays associated without one. Nothing is assumed of people, clients, the broker, the air or the
power.

## Proofs

`LightNode_proofs` has the network's types, and proves of one step of
one light, in any surroundings, that it keeps the types and `LightInv`.
`LightInv` strengthens the properties by what holds in the middle: `RestInv` says
what the restore still has to make equal, by `mpc`; `CallbackInv` what the
callback has made equal so far, by `bpc`; `PromiseInv` that a promise is both in
`written` and in `flash`, so that neither outcome of a power cycle can break it;
`HandleInv` that at most one handle besides `my_handle` is open, which needs the
fact that only a restore that starts inside a save can leave one behind. A light
whose `trouble` is not empty owes nothing, and only a SET empties it.

`LightAlone_proofs` concludes, for every number of lights, clients, messages,
losses, power cycles and failures: `TypeCorrect`, `LightInvariant`,
`RestingLightsAgree`, `ReportsAreDurable`, `ReportsAreShown`,
`HandlesStayBounded`, `ReportsAreMadeTrue`, and `LightImplementsLamp`, the
refinement. `LightNetwork_proofs` proves for the whole home `TypeCorrect`,
`LightsInTheHome` and `HomeReportsAreTrue` (the lights' properties, by the same step
lemmas), `HomeOfLamps` (its lights are `ReportedLamp`s, whoever commands them),
`CommandInvariant` and `CommandsReachTheAir`: a SET of the gateway is the broker's
command. The argument for the last has two halves: only the gateway's own sends
lengthen its channels (`LightSendsElsewhere`, `SwitchSendsElsewhere`), and in the
middle of a command only `SendCommand` and `SendPair` send a SET, because the stack
never awaits an answer to one (`NoSetAwaited`), which `CommandInv` turns into the
command's fields.

`HomeInvariance` carries the rest: `SwitchTracks`, `PairAgrees` and `DashboardIsTrue`
speak of the home at rest, and what is true at rest comes from where every piece of news
was before. `HomeInv` follows it, one part per question:

- `OriginInv`, who sent what is on a channel: a STATUS comes from a light to one of its
  subscribers, a SET from the switch, or from the gateway once the broker has sent a command. Without it
  the switch could hear of lights that are not in its group.
- `PromisedInv`: while no light lost its power, a light's promise is what `state_led` holds, and
  the *last* STATUS on the way to any subscriber says it. A light's own channel keeps its
  order, so an older report may come before it and none after.
- `SwitchInv` and `GatewayInv`: there is a light whose promise is what the switch
  (`state_button`) or the gateway (`value_pre`) believes, or which it has still to hear of, or which has
  still to hear of the switch. "Some light" is all there is: whoever is heard last decides.
- `PressInv`: the value of the last press is at the end of the channel to each light of the group, or is
  what that light handles, or what it promised.
- `DashInv`: what `value_pre` says is on the dashboard, or in `string_json` on its way to it. The name of the
  button is in the text, so this needs a home with one button.

Each step of a light that keeps its power is one of four things (`LightMoves`: it hears a SET, reports,
answers a GET, or goes on alone), each step of the gateway one of four (`GatewayStep`), so that
every part is proved by a case for each and the lemmas on channels (`TailKeepsLast`,
`TailWaits`, `TailEnd`, `AppendStatus`, `AppendOther`). At rest channels are empty and handlers over
(`QuietHeard`), and the parts that are left are the three properties.

`ClientStore_proofs` proves `StoreInvariant`, `BoundKeysAreKept`, `IdentifiersAreFresh` and
`NetworkKeysAreCurrent` from `StoreInv`: what the properties say, and that a store by the MQTT
task only comes after the restore, that keys are bound only in a network, and that
`net_idx` is the stack's while the node registers.

`GatewayBringup_proofs` proves `BringupInv`, in five parts, and from it the five
safety properties. `OverOnlyWhenUp` needs the most: that the task has seen the link
come up (`Seen`) before an acknowledgement ends it. `AckInv` follows the evidence
through every place it can be: a link that is up has its `GOT_IP` in the queue, or
in the event group of a task that has not waited yet, or the task has seen it; in
the queue an acknowledgement comes behind a `GOT_IP`, and behind every
`DISCONNECTED` of a link that is up there is another one, so that a cleared bit
comes again. Three lemmas about the queue (`Appended`, `Taken`, `Empty`) carry it.

`DoorLock_proofs` begins with the frames: `VfyPwdFrame` says for which passwords the
reader accepts `VfyPwd` at all (`PasswordAssumption` is just that), `LoadCharPageZeroOnly`
that templates can only be loaded from page 0. `DoorInv` is `KeypadInv` and
`FingerInv`. `KeypadInv` bounds the queue by the two bits of time: a key in it means that
the second, or the task's turn in it, has not yet passed. From this follow `NoKeyLost`, and with
`EntryHeld` the refinement `LatchImplemented`: one lemma per step of the keypad. `FingerInv` is what
holds along the conversation (`LineInv` in the proof: of the line alone, whichever task; and
`TaskInv`: of the task's place in it): which command can be outstanding where, that the callback is set
before the first GR_Auto, that an open call means nothing is outstanding, and
that an unbroken conversation has nothing in the buffer but its own answer.

`ConnectNode_proofs` has one invariant per library. `StationInv`: what is registered and
which calls are behind agree (`Registration`); the events on the way are one of a few short
queues (`OnTheWay`), by the state of the station; and the two rows of counters agree (`Rows`).
`BleInv` relates GAP, `served` and where `app_main` is; `PostInv` adds up what was echoed
and what remains. `CutForGoodAlways` needs the first two: past the wait no handler is registered that connects,
and a client that is not connected needs the link for anything to arrive.

`Provisioning_proofs` proves `KeptForGoodAlways` from who changes the credentials (`SavedChanges`), `ErasedAfterFailuresAlways`
from `CountInv` (retries never exceed failures), `NeverIdleAlways` from `IdleInv`, and
`LoopNeverWaitsAlways` from `LoopInv`. `IdleInv` has the argument: a station that
is idle has an event on its way that starts it, and an address in the queue of an idle station has
a disconnection behind it (`Covered`), so that a handler which does not connect never
takes the last event that would. `ProvTypes` has the types. `LoopInv`: a manager that is gone, or past its first
credentials, left them in NVS. `EnrolmentImplemented` maps the manager's state to the phase of
`Enrolment`; a handler is one of five kinds of step (it rests, closes, offers, hears or resets: a lemma
each), and only the starts need an invariant, `IdleInv`: there is no manager before them.
`AsksWhenEmptyAlways` is proved of `Enrolment` alone and carried to both programs by the refinement.

Assumptions: `StoreAssumption`, `NoInfoAssumption`, `BringupAssumption` (the special
values are special, the bounds are numbers), `MaxLossAssumption`, `LightAssumption` (lights are nodes, at least four
handles, the special values are special), `ClientAssumption`, `SwitchAssumption`,
`GatewayAssumption` (the pair is known or not at all), `NetworkAssumption` (the
three kinds of nodes are different), `WiringAssumption` (lights publish to the gateway, and those of
the group 0xC111 to the switch, which is how `Switch/main/main.c:184` addresses them), `KeypadAssumption` (a queue of two or more places, a
secret without Enter), `Jm101Assumption`, `PasswordAssumption`, `ProvAssumption`,
`RetryAssumption`, `FactoryAssumption`, `BleAssumption`, `PostAssumption` (bounds are numbers). Only
model-checked: everything under fairness (`ComesToRest`, `CommandEnds`, `ReportGoesOut`, `ComesUp`,
`AckEnds`, `PublishReturns`, `GetsOnLine`, `ProvisioningEnds`, `MainGoesOn`), which the prover cannot reach.
Every safety property a run checks is a theorem.

## Where code and documentation disagree

- GET (`light_get`): `Light/main/main.c:126` answers from a state no SET updates;
  `GateWay/tutorial/BLE_Mesh_Node_OnOff_Client_Example_Walkthrough.md:10` says the
  node reports its state.
- Resend (`network_resend`): the comment at `GateWay/main/main.c:353` promises that
  an unanswered SET is sent again; the opcode at line 217 is unacknowledged and
  never times out.
- Restore (`store_rejoin`): "Restore proper mesh example info"
  (`Switch/main/main.c:144`, the same in GateWay) restores `net_idx` too, over the
  one `prov_complete` took from the stack. A node that changed networks and lost
  its power before its first bind stores the old network's `net_idx` with the new `app_idx`.
- Credentials (`bringup_ssid`): the comment at `GateWay/main/main.c:558`, "there is
  Wi-Fi information", follows a test that looks at the password's result only
  (line 555); an SSID that is missing in NVS is taken from an uninitialised buffer.

Found while modelling or proving, without a run of their own:

- `jm101.h:26` calls the checksum one modulo 256; `check_sum` reduces only sums of 256
  and less (`jm101.c:81`). The reader wants the plain sum, so the comment is wrong and the
  code right, but for a sum of exactly 256.
- `jm101.h:178-185` gives Store a `page_id` that never reaches the frame: templates go to page
  0. For Store and LoadChar the page is in the sum all the same, so that other pages are
  refused (`LoadCharPageZeroOnly`). Img2Tz names buffer 1 whatever it is asked for.
- A password or other data that begin with `#` are taken for a length mark by `check_sum`.
- The parser calls the callback for every GR_Auto answer with code 0 (`jm101.c:1033`), also
  for the first, "command valid", and twice for the last. `OpensForGR_Auto` says what is left: a success,
  in the loop. An answer cut after nine bytes reads as code 0.
- `main.c:98` of the factory program: "Restart provisioning if authentication fails". It does not:
  the manager is there, so the call aborts, or an SSID is, so it is let go again and
  the node stays off line (`GaveUp` in `NeverIdle`).
- `BLE_app.c:76`: "Advertise again after completion of the event"; the branch only logs
  (`ReachableOnce` says when a node is silent).
- The callbacks of the POST handlers are given `content_len` with each piece instead of what the piece
  brought (`http_serve.c:140`, 177, 216). No program sets one, so this has no property; `EchoWhole` is of
  what is sent back.

Not promised by the code, and so not stated: a gateway that stays up when Wi-Fi
reconnects during SmartConfig (it restarts, `RestartsOnReconnect` says when the task returns); a
subscription after the broker was lost; keys forgotten after an unbind or a reset; a way
back to provisioning for a node that lost its power with wrong credentials saved; an answer of the
reader matched to its command when one came late; a node that can be reached over BLE a second
time, or a write of a phone that gets to the broker whenever it is made (it is wiped before there is a
client, lost with a restart, and held back once the link is lost: `CutForGood`).

## Plan

What is left, in this order:

1. `onoff_client`'s acknowledged SET with its retry loop, as a library: it has no caller.
2. The gateway's power cycles in the composed home.
3. The lock's program as one: `Provisioning` and `DoorLock` share the network stack and
   the processor, and no variable.

## Not modelled

- `blink` (LED, LCD and RFID drivers): bit-level I/O; the registers are the state.
- `soft_ap.c`, `keypad_delete`, `app_mqtt_subscribe` and `app_mqtt_stop` of the lock,
  `protocomm_handlers.c` of the factory program: nothing calls them.
- The GET handlers, web pages and sensor libraries of `BLE-Connect` and `LAB`.
- `nvs_rw_value`, `softAP`, `esp_http_client`, `FreeRTOS-ESP-IDF-HTTPS`, `ESP32-HD44780`,
  `Practice`: demonstrations of the SDK, one call after the other.
- ESP-IDF itself beyond what the handlers rely on: the six-second window of the mesh's
  transaction identifiers, lwIP's start (the lock's MQTT task may start its client before another
  task has initialised the network), the BLE pairing of a provisioning session.
