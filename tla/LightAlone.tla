------------------------------ MODULE LightAlone ------------------------------
(***************************************************************************)
(* One or more lights with nothing known of the clients: any client sends  *)
(* any SET or GET at any moment, messages are lost, power fails, NVS calls *)
(* fail.  What is said here of a light holds in every system it is part of.*)
(***************************************************************************)
EXTENDS LightNode

CONSTANTS Client,   \* the nodes that send
          MaxSend   \* bound: messages the clients send in a behaviour

ASSUME ClientAssumption == Client \subseteq Node /\ MaxSend \in Nat

VARIABLE sends

vars == <<netVars, lightVars, sends>>

TypeOK == N_TypeOK /\ L_TypeOK /\ sends \in 0..MaxSend

Init == N_Init /\ L_Init /\ sends = 0

ClientSends(c, l) ==
  /\ sends < MaxSend
  /\ sends' = sends + 1
  /\ \/ \E v \in OnOff, o \in {"SET", "SET_UNACK"} : Send(c, {l}, [op |-> o, onoff |-> v])
     \/ Send(c, {l}, [op |-> "GET", onoff |-> 0])
  /\ UNCHANGED lightVars

(* A client takes what a light publishes or answers.                       *)
ClientReceives(c, l) ==
  /\ net[<<l, c>>] # << >>
  /\ Take(l, c)
  /\ UNCHANGED <<lightVars, sends>>

AirLoses == \E c \in Channel : Lose(c[1], c[2]) /\ UNCHANGED <<lightVars, sends>>

LightMoves == \E l \in Light : L_Next(l) /\ UNCHANGED sends

Next == \/ LightMoves
        \/ \E c \in Client, l \in Light : ClientSends(c, l) \/ ClientReceives(c, l)
        \/ AirLoses

Spec == Init /\ [][Next]_vars

-----------------------------------------------------------------------------
(* The light with its two tasks, its NVS and its crashes is a ReportedLamp *)
(* whose store is the flash: no interleaving of calls, failure or loss of  *)
(* power moves the flash while a report stands, and nothing is reported    *)
(* that the flash does not hold.  (main.c:205-214, bee_app_nvs.c:24-45.)   *)
ImplementsLamp == Reported!LampSpec

-----------------------------------------------------------------------------
(* A reader of the GET answer is told what the light shows: the demo text  *)
(* GateWay/tutorial/BLE_Mesh_Node_OnOff_Client_Example_Walkthrough.md:10   *)
(* says the destination node reports its OnOff state.                      *)
GetTellsState == [][\A l \in Light : \A c \in Node :
  RecvGet(l, c) /\ Settled(l) /\ trouble[l] = {} => SrvStateOnoff = gpio[l]]_vars
=============================================================================
