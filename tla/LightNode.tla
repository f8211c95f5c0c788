------------------------------ MODULE LightNode ------------------------------
(***************************************************************************)
(* A light of src/Light-SW/Light-SW/Light: main.c, bee_app_nvs.c, board.c. *)
(* Two tasks run on each light and share state_led, the LED pin and the    *)
(* static NVS handle my_handle without a lock: app_main, which starts the  *)
(* mesh and only then restores the LED, and the Bluetooth task, in which   *)
(* the mesh stack calls the server callback.  A step is one call; the      *)
(* tasks interleave between calls.                                         *)
(***************************************************************************)
EXTENDS MeshNet, FiniteSets

CONSTANTS
  Light,        \* the lights, a set of nodes
  Subscribers,  \* Subscribers[l]: the nodes that receive what l publishes
  Handle,       \* handles nvs_open can return
  NoHandle,     \* the zero my_handle starts with
  NoValue,      \* "nothing stored", "nothing promised"
  Booted,       \* the lights that are up and at rest when a behaviour starts
  MaxCrash,     \* bound: power cycles of lights in a behaviour
  MaxFault      \* bound: NVS and Bluetooth calls that fail in a behaviour

ASSUME LightAssumption ==
  /\ Light \subseteq Node
  /\ Subscribers \in [Light -> SUBSET Node]
  /\ Booted \subseteq Light
  /\ Cardinality(Handle) >= 4 /\ NoHandle \notin Handle
  /\ NoValue \notin OnOff
  /\ MaxCrash \in Nat
  /\ MaxFault \in Nat

VARIABLES
  state_led,   \* the global the two tasks share
  gpio,        \* the level of the LED pin
  my_handle,   \* the static handle of bee_app_nvs.c, shared by the two tasks
  open,        \* the handles NVS has handed out and not yet taken back
  written,     \* what nvs_get_i32 returns for KEY_WORD
  flash,       \* what is committed to flash for KEY_WORD
  meshUp,      \* the mesh stack runs and delivers messages
  mpc,         \* where app_main is
  bpc,         \* where the server callback is
  arg,         \* the value parameter of the app_nvs_set_value in progress
  trouble,     \* history: what befell the last SET or the restore
  promised,    \* history: the last report that no later SET has put in doubt
  crashes, faults

lightTasks == <<mpc, bpc, arg>>
lightStore == <<my_handle, open, written, flash>>
lightVars  == <<state_led, gpio, lightStore, meshUp, lightTasks,
                trouble, promised, crashes, faults>>

Stored == OnOff \cup {NoValue}

L_TypeOK ==
  /\ state_led \in [Light -> OnOff]
  /\ gpio \in [Light -> OnOff]
  /\ my_handle \in [Light -> Handle \cup {NoHandle}]
  /\ open \in [Light -> SUBSET Handle]
  /\ written \in [Light -> Stored]
  /\ flash \in [Light -> Stored]
  /\ meshUp \in [Light -> BOOLEAN]
  /\ mpc \in [Light -> {"init", "open", "get", "close", "gpio", "done", "halted"}]
  /\ bpc \in [Light -> {"idle", "gpio", "open", "set", "commit", "close", "publish"}]
  /\ arg \in [Light -> OnOff]
  /\ trouble \in [Light -> SUBSET {"raced", "unsaved", "unread"}]
  /\ promised \in [Light -> Stored]
  /\ crashes \in 0..MaxCrash
  /\ faults \in 0..MaxFault

Shown(v) == IF v = NoValue THEN 0 ELSE v

(* A light starts at power-on, with anything in its flash, or, when it is  *)
(* Booted, where its restore has left it.                                  *)
L_Init ==
  /\ written \in [Light -> Stored]
  /\ flash = written
  /\ state_led = [l \in Light |-> IF l \in Booted THEN Shown(written[l]) ELSE 0]
  /\ gpio = state_led
  /\ my_handle = [l \in Light |-> IF l \in Booted THEN CHOOSE h \in Handle : TRUE
                                   ELSE NoHandle]
  /\ open = [l \in Light |-> {}]
  /\ meshUp = [l \in Light |-> l \in Booted]
  /\ mpc = [l \in Light |-> IF l \in Booted THEN "done" ELSE "init"]
  /\ bpc = [l \in Light |-> "idle"]
  /\ arg = [l \in Light |-> 0]
  /\ trouble = [l \in Light |-> {}]
  /\ promised = [l \in Light |-> NoValue]
  /\ crashes = 0
  /\ faults = 0

Fault == /\ faults < MaxFault
         /\ faults' = faults + 1

Count(b) == IF b THEN 1 ELSE 0

MainGoes(l, from, to) == /\ mpc[l] = from
                         /\ mpc' = [mpc EXCEPT ![l] = to]

CallbackGoes(l, from, to) == /\ bpc[l] = from
                             /\ bpc' = [bpc EXCEPT ![l] = to]

Note(l, what) == trouble' = [trouble EXCEPT ![l] = @ \cup what]

(* app_main holds, or is about to use, my_handle or state_led.             *)
Restoring(l) == mpc[l] \in {"get", "close", "gpio"}

-----------------------------------------------------------------------------
(* The NVS calls bee_app_nvs.c makes; the NVS library is external.  A call *)
(* on a handle that is closed fails and changes nothing; bee_app_nvs.c     *)
(* prints the error and goes on.                                           *)

(* nvs_open: a handle nothing refers to, or an error that leaves my_handle *)
(* as it was.                                                              *)
Unused(l) == Handle \ (open[l] \cup {my_handle[l]})

NvsOpen(l) == LET h == CHOOSE u \in Unused(l) : TRUE IN
  /\ Unused(l) # {}
  /\ my_handle' = [my_handle EXCEPT ![l] = h]
  /\ open' = [open EXCEPT ![l] = @ \cup {h}]

NvsValid(l) == my_handle[l] \in open[l]

NvsClose(l) == open' = [open EXCEPT ![l] = @ \ {my_handle[l]}]

-----------------------------------------------------------------------------
(* app_main.                                                               *)

(* board_init, nvs_flash_init (which erases the partition when it has no   *)
(* free page), bluetooth_init and ble_mesh_init.  app_main returns when    *)
(* Bluetooth fails and goes on to the restore when only the mesh does.     *)
BootStart(l) == \E erased, bluetooth, mesh \in BOOLEAN :
  /\ faults' = faults + Count(erased) + Count(~bluetooth) + Count(~mesh)
  /\ faults' <= MaxFault
  /\ gpio' = [gpio EXCEPT ![l] = 0]
  /\ written' = IF erased THEN [written EXCEPT ![l] = NoValue] ELSE written
  /\ flash' = IF erased THEN [flash EXCEPT ![l] = NoValue] ELSE flash
  /\ promised' = IF erased THEN [promised EXCEPT ![l] = NoValue] ELSE promised
  /\ MainGoes(l, "init", IF bluetooth THEN "open" ELSE "halted")
  /\ meshUp' = [meshUp EXCEPT ![l] = bluetooth /\ mesh]
  /\ UNCHANGED <<netVars, state_led, my_handle, open, bpc, arg, trouble, crashes>>

(* app_nvs_get_value: nvs_open, nvs_get_i32 into state_led, nvs_close.     *)
RestoreOpen(l) ==
  /\ MainGoes(l, "open", "get")
  /\ \/ /\ NvsOpen(l)
        /\ Note(l, IF bpc[l] = "idle" THEN {} ELSE {"raced"})
        /\ UNCHANGED faults
     \/ /\ Fault
        /\ Note(l, {"unread"})
        /\ UNCHANGED <<my_handle, open>>
  /\ UNCHANGED <<netVars, state_led, gpio, written, flash, meshUp, bpc, arg,
                 promised, crashes>>

RestoreGet(l) ==
  /\ MainGoes(l, "get", "close")
  /\ \/ /\ state_led' = IF NvsValid(l) /\ written[l] # NoValue
                           THEN [state_led EXCEPT ![l] = written[l]] ELSE state_led
        /\ UNCHANGED <<trouble, faults>>
     \/ /\ NvsValid(l)
        /\ Fault
        /\ Note(l, {"unread"})
        /\ UNCHANGED state_led
  /\ UNCHANGED <<netVars, gpio, lightStore, meshUp, bpc, arg, promised, crashes>>

RestoreClose(l) ==
  /\ MainGoes(l, "close", "gpio")
  /\ NvsClose(l)
  /\ UNCHANGED <<netVars, state_led, gpio, my_handle, written, flash, meshUp, bpc,
                 arg, trouble, promised, crashes, faults>>

RestoreShow(l) ==
  /\ MainGoes(l, "gpio", "done")
  /\ gpio' = [gpio EXCEPT ![l] = state_led[l]]
  /\ UNCHANGED <<netVars, state_led, lightStore, meshUp, bpc, arg,
                 trouble, promised, crashes, faults>>

-----------------------------------------------------------------------------
(* The server callback, in the Bluetooth task, one message at a time.      *)

Listening(l) == meshUp[l] /\ bpc[l] = "idle"

(* Generic OnOff SET or SET_UNACK, treated alike: state_led, the pin, NVS, *)
(* a report; the sender of a SET gets no answer of its own.                *)
RecvSet(l, c) ==
  /\ Listening(l)
  /\ Arrives(c, l, "SET") \/ Arrives(c, l, "SET_UNACK")
  /\ state_led' = [state_led EXCEPT ![l] = Head(net[<<c, l>>]).onoff]
  /\ CallbackGoes(l, "idle", "gpio")
  /\ trouble' = [trouble EXCEPT ![l] = IF Restoring(l) THEN {"raced"} ELSE {}]
  /\ promised' = [promised EXCEPT ![l] = NoValue]
  /\ Take(c, l)
  /\ UNCHANGED <<gpio, lightStore, meshUp, mpc, arg, crashes, faults>>

(* Mutant: the SET never reaches the pin.                                  *)
ShowSetSkipped(l) ==
  /\ CallbackGoes(l, "gpio", "open")
  /\ UNCHANGED <<netVars, state_led, gpio, lightStore, meshUp, mpc, arg,
                 trouble, promised, crashes, faults>>

ShowSet(l) ==
  /\ CallbackGoes(l, "gpio", "open")
  /\ gpio' = [gpio EXCEPT ![l] = state_led[l]]
  /\ UNCHANGED <<netVars, state_led, lightStore, meshUp, mpc, arg,
                 trouble, promised, crashes, faults>>

(* app_nvs_set_value(KEY_WORD, state_led): nvs_open, nvs_set_i32,          *)
(* nvs_commit, nvs_close, each whatever the one before it returned.        *)
SaveOpen(l) ==
  /\ CallbackGoes(l, "open", "set")
  /\ arg' = [arg EXCEPT ![l] = state_led[l]]
  /\ \/ NvsOpen(l) /\ UNCHANGED <<trouble, faults>>
     \/ Fault /\ Note(l, {"unsaved"}) /\ UNCHANGED <<my_handle, open>>
  /\ UNCHANGED <<netVars, state_led, gpio, written, flash, meshUp, mpc,
                 promised, crashes>>

SaveSet(l) ==
  /\ CallbackGoes(l, "set", "commit")
  /\ \/ /\ NvsValid(l)
        /\ written' = [written EXCEPT ![l] = arg[l]]
        /\ UNCHANGED <<trouble, faults>>
     \/ /\ NvsValid(l)
        /\ Fault
        /\ Note(l, {"unsaved"})
        /\ UNCHANGED written
     \/ /\ ~NvsValid(l)
        /\ Note(l, {"unsaved"})
        /\ UNCHANGED <<written, faults>>
  /\ UNCHANGED <<netVars, state_led, gpio, my_handle, open, flash, meshUp, mpc, arg,
                 promised, crashes>>

(* Mutant: nvs_commit is left out.                                         *)
SaveWithoutCommit(l) ==
  /\ CallbackGoes(l, "commit", "close")
  /\ UNCHANGED <<netVars, state_led, gpio, lightStore, meshUp, mpc, arg,
                 trouble, promised, crashes, faults>>

SaveCommit(l) ==
  /\ CallbackGoes(l, "commit", "close")
  /\ \/ /\ NvsValid(l)
        /\ flash' = [flash EXCEPT ![l] = written[l]]
        /\ UNCHANGED <<trouble, faults>>
     \/ /\ NvsValid(l)
        /\ Fault
        /\ Note(l, {"unsaved"})
        /\ UNCHANGED flash
     \/ /\ ~NvsValid(l)
        /\ Note(l, {"unsaved"})
        /\ UNCHANGED <<flash, faults>>
  /\ UNCHANGED <<netVars, state_led, gpio, my_handle, open, written, meshUp, mpc, arg,
                 promised, crashes>>

(* Mutant: nvs_close is left out.                                          *)
SaveWithoutClose(l) ==
  /\ CallbackGoes(l, "close", "publish")
  /\ UNCHANGED <<netVars, state_led, gpio, lightStore, meshUp, mpc,
                 arg, trouble, promised, crashes, faults>>

(* Mutant: the handler insists on closing a handle of its own.             *)
SaveCloseWaits(l) ==
  /\ NvsValid(l)
  /\ CallbackGoes(l, "close", "publish")
  /\ NvsClose(l)
  /\ UNCHANGED <<netVars, state_led, gpio, my_handle, written, flash, meshUp, mpc,
                 arg, trouble, promised, crashes, faults>>

SaveClose(l) ==
  /\ CallbackGoes(l, "close", "publish")
  /\ NvsClose(l)
  /\ UNCHANGED <<netVars, state_led, gpio, my_handle, written, flash, meshUp, mpc,
                 arg, trouble, promised, crashes, faults>>

(* server_send_pub_msg_to_client(state_led): state_led as it is now.       *)
Publish(l) ==
  /\ CallbackGoes(l, "publish", "idle")
  /\ Send(l, Subscribers[l], [op |-> "STATUS", onoff |-> state_led[l]])
  /\ promised' = [promised EXCEPT
                    ![l] = IF trouble[l] = {} THEN state_led[l] ELSE NoValue]
  /\ UNCHANGED <<state_led, gpio, lightStore, meshUp, mpc, arg,
                 trouble, crashes, faults>>

(* srv->state.onoff, zero from the start: only example_handle_gen_onoff_msg *)
(* assigns it, in its SET branch, and the call that would reach that       *)
(* branch is commented out.                                                *)
SrvStateOnoff == 0

(* Generic OnOff GET: the answer carries srv->state.onoff.                 *)
RecvGet(l, c) ==
  /\ Listening(l)
  /\ Arrives(c, l, "GET")
  /\ net' = Sent(Taken(net, c, l), l, {c}, [op |-> "REPLY", onoff |-> SrvStateOnoff])
  /\ UNCHANGED lost
  /\ UNCHANGED lightVars

-----------------------------------------------------------------------------
(* Power is lost and comes back: RAM starts over, NVS keeps what was       *)
(* committed, and a value set but not committed may or may not have        *)
(* reached the flash.                                                      *)
PowerCycle(l) ==
  /\ crashes < MaxCrash
  /\ crashes' = crashes + 1
  /\ mpc[l] # "init"
  /\ mpc' = [mpc EXCEPT ![l] = "init"]
  /\ bpc' = [bpc EXCEPT ![l] = "idle"]
  /\ meshUp' = [meshUp EXCEPT ![l] = FALSE]
  /\ state_led' = [state_led EXCEPT ![l] = 0]
  /\ gpio' = [gpio EXCEPT ![l] = 0]
  /\ my_handle' = [my_handle EXCEPT ![l] = NoHandle]
  /\ open' = [open EXCEPT ![l] = {}]
  /\ \E v \in {written[l], flash[l]} :
       /\ written' = [written EXCEPT ![l] = v]
       /\ flash' = [flash EXCEPT ![l] = v]
  /\ trouble' = [trouble EXCEPT ![l] = {}]
  /\ arg' = [arg EXCEPT ![l] = 0]
  /\ Deafen(l)
  /\ UNCHANGED <<promised, faults>>

-----------------------------------------------------------------------------
AppMain(l) == \/ BootStart(l)
              \/ RestoreOpen(l)
              \/ RestoreGet(l)
              \/ RestoreClose(l)
              \/ RestoreShow(l)

Callback(l) == \/ \E c \in Node : RecvSet(l, c) \/ RecvGet(l, c)
               \/ ShowSet(l)
               \/ SaveOpen(l)
               \/ SaveSet(l)
               \/ SaveCommit(l)
               \/ SaveClose(l)
               \/ Publish(l)

L_Next(l) == AppMain(l) \/ Callback(l) \/ PowerCycle(l)

-----------------------------------------------------------------------------
(* Both tasks of a light are at rest: the restore is over and no SET is    *)
(* being handled.                                                          *)
Settled(l) == mpc[l] = "done" /\ bpc[l] = "idle"

(* No SET ran into the restore, and no NVS call failed, since the last SET *)
(* began or since power-on.                                                *)
Clean(l) == trouble[l] = {}

(* When both tasks of a light rest and nothing befell them, the pin, the   *)
(* global and the flash agree: what the light shows is what a power cycle  *)
(* would bring back.  A SET that ran into the restore can leave them in    *)
(* disagreement, but only until the next SET is handled.                   *)
(* (main.c:205-214 and 316-318, bee_app_nvs.c:24-45 and 74-97.)            *)
SettledAgree == \A l \in Light : Settled(l) /\ Clean(l) =>
  /\ gpio[l] = state_led[l]
  /\ state_led[l] = Shown(flash[l])
  /\ written[l] = flash[l]

(* A report is a promise: once a light has published a value, and until it *)
(* takes another SET, that value is what its flash holds, through any      *)
(* number of power cycles at any point of a later restore.                 *)
Durable == \A l \in Light : promised[l] # NoValue => flash[l] = promised[l]

(* ... and what its LED shows, as soon as a restart has restored it.       *)
PromiseShown == \A l \in Light :
  Settled(l) /\ Clean(l) /\ promised[l] # NoValue => gpio[l] = promised[l]

(* The shared my_handle leaks at most one handle between two restarts,     *)
(* however the restore and the SETs overlap: no two are open when both     *)
(* tasks rest, and never more than one besides the one my_handle names.    *)
HandlesBounded == \A l \in Light :
  /\ Settled(l) => \A g, h \in open[l] : g = h
  /\ \A g, h \in open[l] \ {my_handle[l]} : g = h

(* A report is true when it is made: what goes out is what the pin shows   *)
(* and what the flash holds, so the network never believes a state that a  *)
(* power failure in the next instant would undo.                           *)
ReportsAreTrue == [][\A l \in Light : Publish(l) /\ Clean(l) =>
  /\ gpio[l] = state_led[l]
  /\ flash[l] = state_led[l]]_<<netVars, lightVars>>

-----------------------------------------------------------------------------
(* What others may rely on of the lights: they are ReportedLamps with the  *)
(* flash as the store.                                                     *)
Reported == INSTANCE ReportedLamp
              WITH Lamp <- Light, Level <- OnOff, Nothing <- NoValue, stored <- flash

-----------------------------------------------------------------------------
(* The inductive invariant behind these, by where the two tasks are.       *)

Holding(l) == bpc[l] \in {"set", "commit", "close"}

(* The mesh is up only after BootStart, and only then is there a callback. *)
CallbackNeedsMesh(l) ==
  /\ mpc[l] \in {"init", "halted"} => ~meshUp[l]
  /\ ~meshUp[l] => bpc[l] = "idle"

(* Between callbacks: what app_main still has to do decides what is equal. *)
RestInv(l) == Clean(l) /\ bpc[l] = "idle" =>
  /\ written[l] = flash[l]
  /\ mpc[l] = "init" => state_led[l] = 0
  /\ mpc[l] \in {"open", "get"} /\ written[l] = NoValue => state_led[l] = 0
  /\ mpc[l] = "get" => NvsValid(l)
  /\ mpc[l] \in {"close", "gpio", "done"} => state_led[l] = Shown(written[l])
  /\ mpc[l] = "done" => gpio[l] = state_led[l]

(* Inside a callback: what it has done so far is what the SET asked for.   *)
CallbackInv(l) == Clean(l) /\ bpc[l] # "idle" =>
  /\ mpc[l] \in {"open", "done"}
  /\ bpc[l] # "gpio" => gpio[l] = state_led[l]
  /\ bpc[l] \in {"set", "commit"} => NvsValid(l)
  /\ bpc[l] = "set" => arg[l] = state_led[l]
  /\ bpc[l] \in {"commit", "close", "publish"} => written[l] = state_led[l]
  /\ bpc[l] \in {"close", "publish"} => flash[l] = state_led[l]

PromiseInv(l) == promised[l] # NoValue =>
  /\ bpc[l] = "idle"
  /\ written[l] = promised[l]
  /\ flash[l] = promised[l]

HandleInv(l) ==
  /\ \A g, h \in open[l] \ {my_handle[l]} : g = h
  /\ ~Holding(l) => \A g, h \in open[l] : g = h
  /\ mpc[l] \in {"init", "open", "halted"} =>
       IF Holding(l) THEN open[l] \subseteq {my_handle[l]} ELSE open[l] = {}

OneLightInv(l) == /\ CallbackNeedsMesh(l)
                  /\ RestInv(l)
                  /\ CallbackInv(l)
                  /\ PromiseInv(l)
                  /\ HandleInv(l)

LightInv == \A l \in Light : OneLightInv(l)
=============================================================================
