------------------------------ MODULE SwitchNode ------------------------------
(***************************************************************************)
(* The wall switch of src/Light-SW/Light-SW/Switch: main.c and board.c.    *)
(* state_button is shared by the button callback, which toggles it and     *)
(* sends it to the group, and the Bluetooth task, which overwrites it with *)
(* every STATUS a light publishes.  On this build (one core, the button    *)
(* timer above the Bluetooth task, no blocking call between the toggle and *)
(* the read of the argument) a tap is one step.  A send also copies the    *)
(* value to store.onoff, which nothing reads back.                         *)
(***************************************************************************)
EXTENDS MeshNet

CONSTANTS
  Switch,     \* the switch, a node
  Group,      \* the lights subscribed to the group address 0xC111
  MaxTap,     \* bound: presses of the button in a behaviour
  MaxOutage,  \* bound: power cycles of the switch in a behaviour
  MaxRefusal  \* bound: sends the mesh stack of the switch refuses

ASSUME SwitchAssumption ==
  /\ Switch \in Node
  /\ Group \subseteq Node
  /\ MaxTap \in Nat
  /\ MaxOutage \in Nat
  /\ MaxRefusal \in Nat

VARIABLES
  state_button,  \* what the switch believes the group shows
  sure,          \* history: state_button stems from a STATUS, or from a
                 \* press whose SET went out, and from nothing later
  taps, refusals, outages

switchVars == <<state_button, sure, taps, refusals, outages>>

S_TypeOK == /\ state_button \in OnOff
            /\ sure \in BOOLEAN
            /\ outages \in 0..MaxOutage
            /\ taps \in 0..MaxTap
            /\ refusals \in 0..MaxRefusal

S_Init == /\ state_button = 0
          /\ sure = FALSE
          /\ taps = 0
          /\ refusals = 0
          /\ outages = 0

(* Mutant: the SET goes to the address of one light, not of the group.      *)
TapReachesOne ==
  /\ taps < MaxTap
  /\ taps' = taps + 1
  /\ state_button' = 1 - state_button
  /\ Send(Switch, {CHOOSE l \in Group : TRUE}, [op |-> "SET_UNACK", onoff |-> state_button'])
  /\ sure' = TRUE
  /\ UNCHANGED <<refusals, outages>>

(* button_tap_cb and example_ble_mesh_send_gen_onoff_set: the toggle       *)
(* stands even when the stack refuses to send.                             *)
Tap ==
  /\ taps < MaxTap
  /\ taps' = taps + 1
  /\ state_button' = 1 - state_button
  /\ \/ /\ Send(Switch, Group, [op |-> "SET_UNACK", onoff |-> state_button'])
        /\ sure' = TRUE
        /\ UNCHANGED refusals
     \/ /\ refusals < MaxRefusal
        /\ refusals' = refusals + 1
        /\ sure' = FALSE
        /\ UNCHANGED netVars
  /\ UNCHANGED outages

(* Mutant: a STATUS is only logged.                                        *)
SwitchIgnoresStatus(l) ==
  /\ Arrives(l, Switch, "STATUS")
  /\ sure' = TRUE
  /\ Take(l, Switch)
  /\ UNCHANGED <<state_button, taps, refusals, outages>>

(* Mutant: a STATUS makes the switch send the value on to its group.       *)
SwitchEchoes(l) ==
  /\ Arrives(l, Switch, "STATUS")
  /\ state_button' = Head(net[<<l, Switch>>]).onoff
  /\ net' = Sent(Taken(net, l, Switch), Switch, Group,
                 [op |-> "SET_UNACK", onoff |-> state_button'])
  /\ UNCHANGED <<sure, taps, refusals, outages, lost>>

(* PUBLISH_EVT with a STATUS, from whichever light.                        *)
SwitchRecvStatus(l) ==
  /\ Arrives(l, Switch, "STATUS")
  /\ state_button' = Head(net[<<l, Switch>>]).onoff
  /\ sure' = TRUE
  /\ Take(l, Switch)
  /\ UNCHANGED <<taps, refusals, outages>>

(* Power fails and comes back: state_button starts over at 0.  The restore *)
(* of store does not reach it.                                             *)
SwitchPowerCycle ==
  /\ outages < MaxOutage
  /\ outages' = outages + 1
  /\ state_button' = 0
  /\ sure' = FALSE
  /\ Deafen(Switch)
  /\ UNCHANGED <<taps, refusals>>

SwitchHears == \E l \in Node : SwitchRecvStatus(l)

S_Next == Tap \/ SwitchHears \/ SwitchPowerCycle
=============================================================================
