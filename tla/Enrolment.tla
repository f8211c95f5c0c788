------------------------------- MODULE Enrolment -------------------------------
(***************************************************************************)
(* What a node that gets its credentials from a phone promises, whichever  *)
(* program it runs, with no word about its tasks, its station, its retries *)
(* or the events on their way.  It asks for credentials only when it has   *)
(* none, tries the ones it is given, and forgets them only while the last  *)
(* thing it knows is that they failed.  A power cycle forgets nothing.     *)
(***************************************************************************)
CONSTANTS Credential, Nothing

VARIABLES kept,     \* what survives a loss of power
          phase     \* how far the conversation with the phone is

enrolVars == <<kept, phase>>

EnrolInit == kept \in Credential \cup {Nothing} /\ phase = "closed"

Offer == /\ phase = "closed" /\ kept = Nothing
         /\ phase' = "offered"
         /\ UNCHANGED kept

Take(c) == /\ phase = "offered"
           /\ phase' = "trying"
           /\ kept' = c

(* A later answer of the network replaces an earlier one.                  *)
Judge == /\ phase \in {"trying", "failed", "accepted"}
         /\ phase' \in {"failed", "accepted"}
         /\ UNCHANGED kept

Forget == /\ phase = "failed"
          /\ phase' = "offered"
          /\ kept' = Nothing

Finish == /\ phase = "accepted"
          /\ phase' = "done"
          /\ UNCHANGED kept

(* The end of the conversation, at any point: a restart, or let go.        *)
Close == phase' = "closed" /\ UNCHANGED kept

EnrolNext == \/ Offer \/ Judge \/ Forget \/ Finish \/ Close
             \/ \E c \in Credential : Take(c)

EnrolSpec == EnrolInit /\ [][EnrolNext]_enrolVars

(* A node asks for credentials only when it has none, and one that was     *)
(* given some has them, until it forgets them.                             *)
AsksWhenEmpty ==
  /\ phase = "offered" => kept = Nothing
  /\ phase \in {"trying", "failed", "accepted", "done"} => kept # Nothing
=============================================================================
