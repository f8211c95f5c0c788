----------------------------- MODULE PasswordLatch -----------------------------
(***************************************************************************)
(* What the door lock's keypad promises: the latch opens on Enter if the   *)
(* secret is somewhere among the keys typed since the last Enter, and      *)
(* closes otherwise; a recognised finger opens it too.  Of entries as long *)
(* as Limit nothing is promised.                                           *)
(***************************************************************************)
EXTENDS Naturals, Sequences

CONSTANTS
  Key,      \* the keys
  Enter,    \* the key that ends an entry
  Secret,   \* the keys that open
  Limit     \* the length from which on nothing is promised

VARIABLES
  entry,    \* the keys typed since the last Enter
  pin       \* the latch: 1 is open

(* The secret, somewhere in e.                                             *)
Occurs(e) == \E i \in 0..Len(e) : /\ i + Len(Secret) <= Len(e)
                                  /\ \A j \in 1..Len(Secret) : e[i + j] = Secret[j]

Init == entry = <<>> /\ pin = 0

Type(k) == entry' = Append(entry, k) /\ UNCHANGED pin

Submit == /\ entry' = <<>>
          /\ pin' \in {0, 1}
          /\ Len(entry) < Limit => pin' = IF Occurs(entry) THEN 1 ELSE 0

Finger == pin' = 1 /\ UNCHANGED entry

Next == Submit \/ Finger \/ \E k \in Key \ {Enter} : Type(k)

Spec == Init /\ [][Next]_<<entry, pin>>
=============================================================================
