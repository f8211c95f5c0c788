----------------------------- MODULE ReportedLamp -----------------------------
(***************************************************************************)
(* What the rest of the home may rely on of a light, with no word about    *)
(* its tasks, its RAM, its NVS handles or the mesh.  A lamp stores a value *)
(* and may report it; a report stands until the lamp is set again or its   *)
(* store is erased, and as long as one stands the store does not move.     *)
(***************************************************************************)
CONSTANTS Lamp, Level, Nothing

VARIABLES stored,    \* what survives a loss of power
          promised   \* the report that stands, or Nothing

lampVars == <<stored, promised>>

LampInit == /\ stored \in [Lamp -> Level \cup {Nothing}]
            /\ promised = [l \in Lamp |-> Nothing]

(* The lamp is set: whatever it reported no longer binds it.               *)
Doubt(l) == /\ promised' = [promised EXCEPT ![l] = Nothing]
            /\ UNCHANGED stored

(* With no report standing the store may take any value, at once or after  *)
(* a loss of power.                                                        *)
Store(l, v) == /\ promised[l] = Nothing
               /\ stored' = [stored EXCEPT ![l] = v]
               /\ UNCHANGED promised

(* Only what is stored is reported.                                        *)
Report(l) == /\ promised[l] = Nothing
             /\ stored[l] # Nothing
             /\ promised' = [promised EXCEPT ![l] = stored[l]]
             /\ UNCHANGED stored

Erase(l) == /\ stored' = [stored EXCEPT ![l] = Nothing]
            /\ promised' = [promised EXCEPT ![l] = Nothing]

LampNext == \E l \in Lamp : \/ Doubt(l)
                            \/ Report(l)
                            \/ Erase(l)
                            \/ \E v \in Level \cup {Nothing} : Store(l, v)

LampSpec == LampInit /\ [][LampNext]_lampVars
=============================================================================
