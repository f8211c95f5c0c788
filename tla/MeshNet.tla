------------------------------- MODULE MeshNet -------------------------------
(***************************************************************************)
(* The BLE-mesh network as the nodes of src/Light-SW use it.  The mesh     *)
(* stack is ESP-IDF's and not part of the repository, so this module is    *)
(* external: it says what the handlers may count on.  Every source node    *)
(* numbers its network PDUs and a receiver discards a number it has seen   *)
(* or passed (replay protection), so between two nodes the messages arrive *)
(* in order and at most once; an unacknowledged message may be lost.       *)
(* Nothing orders messages of different senders, or to different nodes.    *)
(***************************************************************************)
EXTENDS Naturals, Sequences

CONSTANTS
  Node,      \* every node of the mesh
  MaxLoss    \* bound: messages the air may lose in a behaviour

ASSUME MaxLossAssumption == MaxLoss \in Nat

VARIABLES
  net,       \* net[<<s, d>>]: what d has still to receive from s, oldest first
  lost       \* how many messages the air has lost

netVars == <<net, lost>>

OnOff == {0, 1}

(* REPLY is the STATUS message that answers a GET, STATUS the one a light  *)
(* publishes to a group address.                                           *)
Message == [op : {"SET", "SET_UNACK", "GET", "REPLY", "STATUS"}, onoff : OnOff]

Channel == Node \X Node

N_TypeOK == /\ net \in [Channel -> Seq(Message)]
            /\ lost \in 0..MaxLoss

N_Init == /\ net = [c \in Channel |-> << >>]
          /\ lost = 0

(* The message d may receive next from s is one of operation op.           *)
Arrives(s, d, op) == /\ net[<<s, d>>] # << >>
                     /\ Head(net[<<s, d>>]).op = op

(* What a network value becomes when s sends m to every node of dsts, and  *)
(* when d takes the oldest message of s.                                   *)
Sent(n, s, dsts, m) ==
  [c \in Channel |-> IF c[1] = s /\ c[2] \in dsts THEN Append(n[c], m) ELSE n[c]]

Taken(n, s, d) == [n EXCEPT ![<<s, d>>] = Tail(@)]

Send(s, dsts, m) == /\ net' = Sent(net, s, dsts, m)
                    /\ UNCHANGED lost

Take(s, d) == /\ net' = Taken(net, s, d)
              /\ UNCHANGED lost

(* A node that loses power loses what was on its way to it.                *)
Deafen(d) == /\ net' = [c \in Channel |-> IF c[2] = d THEN << >> ELSE net[c]]
             /\ UNCHANGED lost

Lose(s, d) == /\ lost < MaxLoss
              /\ net[<<s, d>>] # << >>
              /\ net' = Taken(net, s, d)
              /\ lost' = lost + 1

Silent == \A c \in Channel : net[c] = << >>
=============================================================================
