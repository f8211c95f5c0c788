------------------------------- MODULE MCDoorLock ------------------------------
(***************************************************************************)
(* The door lock with a keypad of three keys, a secret of two and room for *)
(* three; the reader gives success, "not received" and "no finger".        *)
(***************************************************************************)
EXTENDS DoorLock

MCKey == {"1", "2", "#"}
MCSecret == <<"1", "2">>
MCCode == {0, 1, 9}
MCPassword == <<0, 0, 0, 0>>

(* Either people type more than one key, or the reader answers and the     *)
(* client connects: the two sides meet at gpio 2 only.  What is held back  *)
(* is what people and the world outside do, never a task of the lock.      *)
Typing == presses > 1
Asking == callback \/ rx # <<>> \/ torn \/ client = "connecting"

MCNext == Next /\ ~(Typing' /\ Asking')
MCSpec == Init /\ [][MCNext]_vars
MCFairSpec == MCSpec /\ Fairness
=============================================================================
