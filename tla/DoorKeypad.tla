------------------------------- MODULE DoorKeypad ------------------------------
(***************************************************************************)
(* The door lock's keypad: the interrupt handler of Components/Key_pad.c   *)
(* and Task_keypad_input of main/Smart_door_lock_ESP32.c, with the queue   *)
(* between them.  time(NULL) counts whole seconds, so the handler takes a  *)
(* key only when the second has changed since its last interrupt.  The     *)
(* task looks ten times a second; a second never passes without it.        *)
(***************************************************************************)
EXTENDS Naturals, Sequences, FiniteSets

CONSTANTS
  Key,        \* the keys of the pad
  Enter,      \* '#'
  Nul,        \* what password holds where no key was written
  Secret,     \* key[6]
  BufSize,    \* the size of password
  QueueSize,  \* the length of keypad_queue
  MaxPress    \* bound: interrupts

ASSUME KeypadAssumption ==
  /\ Enter \in Key /\ Nul \notin Key
  /\ Secret \in Seq(Key \ {Enter}) /\ Secret # <<>>
  /\ BufSize \in Nat \ {0} /\ QueueSize \in Nat /\ QueueSize >= 2 /\ MaxPress \in Nat

VARIABLES
  queue,      \* keypad_queue
  elapsed,    \* the second has changed since time_old_isr
  polled,     \* the task has looked into the queue in this second
  password,   \* password[16]
  the_position,
  enable_door_lock,
  pin,        \* gpio 2
  entry,      \* history: the keys the task took since the last Enter
  refused,    \* history: a key met a full queue
  presses

keypadVars == <<queue, elapsed, polled, password, the_position, enable_door_lock, pin,
                entry, refused, presses>>

Slot == 0..(BufSize - 1)

K_TypeOK ==
  /\ queue \in Seq(Key)
  /\ elapsed \in BOOLEAN /\ polled \in BOOLEAN
  /\ password \in [Slot -> Key \cup {Nul}]
  /\ the_position \in Nat
  /\ enable_door_lock \in BOOLEAN
  /\ pin \in {0, 1}
  /\ entry \in Seq(Key)
  /\ refused \in BOOLEAN
  /\ presses \in 0..MaxPress

(* time_old_isr is 0 and so is the clock at the start.                     *)
K_Init ==
  /\ queue = <<>>
  /\ elapsed = FALSE /\ polled = FALSE
  /\ password = [s \in Slot |-> Nul]
  /\ the_position = 0
  /\ enable_door_lock = FALSE
  /\ pin = 0
  /\ entry = <<>>
  /\ refused = FALSE
  /\ presses = 0

Tick ==
  /\ polled
  /\ polled' = FALSE
  /\ elapsed' = TRUE
  /\ UNCHANGED <<queue, password, the_position, enable_door_lock, pin, entry, refused, presses>>

(* Mutant: every interrupt is a key, bounces too.                          *)
ClickUndebounced(k) ==
  /\ presses < MaxPress
  /\ presses' = presses + 1
  /\ elapsed' = FALSE
  /\ IF Len(queue) < QueueSize
       THEN queue' = Append(queue, k) /\ UNCHANGED refused
       ELSE refused' = TRUE /\ UNCHANGED queue
  /\ UNCHANGED <<polled, password, the_position, enable_door_lock, pin, entry>>

(* intr_click_handler: a press of k or a bounce of it.  Whether the queue  *)
(* took the key is not looked at; too early an interrupt starts the wait   *)
(* anew.                                                                   *)
Click(k) ==
  /\ presses < MaxPress
  /\ presses' = presses + 1
  /\ elapsed' = FALSE
  /\ queue' = IF elapsed /\ Len(queue) < QueueSize THEN Append(queue, k) ELSE queue
  /\ refused' = (refused \/ (elapsed /\ Len(queue) >= QueueSize))
  /\ UNCHANGED <<polled, password, the_position, enable_door_lock, pin, entry>>

(* The key is up again before the columns are read.                        *)
Glitch ==
  /\ presses < MaxPress
  /\ presses' = presses + 1
  /\ elapsed' = FALSE
  /\ UNCHANGED <<queue, polled, password, the_position, enable_door_lock, pin, entry, refused>>

(* The windows of password the loop compares with key, up to the position  *)
(* behind the new key; those that reach beyond password read other memory, *)
(* and may match or not.                                                   *)
Windows(pos) == {i \in 0..pos : i + Len(Secret) <= pos}
Fits(i) == i + Len(Secret) <= BufSize

(* Mutant: one window short.                                               *)
MatchesButLast(pw, pos) ==
  \E i \in Windows(pos) : /\ Fits(i) /\ i + Len(Secret) < pos
                          /\ \A j \in 1..Len(Secret) : pw[i + j - 1] = Secret[j]

Matches(pw, pos) ==
  \E i \in Windows(pos) : Fits(i) /\ \A j \in 1..Len(Secret) : pw[i + j - 1] = Secret[j]

MayStray(pos) == \E i \in Windows(pos) : ~Fits(i)

PollEmpty ==
  /\ queue = <<>>
  /\ polled' = TRUE
  /\ UNCHANGED <<queue, elapsed, password, the_position, enable_door_lock, pin, entry, refused, presses>>

(* What a turn of the task does with the key before it looks for '#'.      *)
Taken(k, stray) ==
  /\ queue # <<>> /\ k = Head(queue)
  /\ queue' = Tail(queue)
  /\ polled' = TRUE
  /\ password' = [password EXCEPT ![the_position % BufSize] = k]
  /\ stray => MayStray(the_position + 1)
  /\ UNCHANGED <<elapsed, refused, presses>>

Enabled(stray) == enable_door_lock \/ stray \/ Matches(password', the_position + 1)

PollKey ==
  \E k \in Key \ {Enter}, stray \in BOOLEAN :
    /\ Taken(k, stray)
    /\ the_position' = the_position + 1
    /\ enable_door_lock' = Enabled(stray)
    /\ entry' = Append(entry, k)
    /\ UNCHANGED pin

(* Mutant: enable_door_lock is not reset once the door is open.            *)
PollEnterStaysEnabled ==
  \E stray \in BOOLEAN :
    /\ Taken(Enter, stray)
    /\ the_position' = 0
    /\ pin' = IF Enabled(stray) THEN 1 ELSE 0
    /\ enable_door_lock' = Enabled(stray)
    /\ entry' = <<>>

PollEnter ==
  \E stray \in BOOLEAN :
    /\ Taken(Enter, stray)
    /\ the_position' = 0
    /\ pin' = IF Enabled(stray) THEN 1 ELSE 0
    /\ enable_door_lock' = FALSE
    /\ entry' = <<>>

Task_keypad_input == PollEmpty \/ PollKey \/ PollEnter

K_Next == Tick \/ Glitch \/ Task_keypad_input \/ \E k \in Key : Click(k)

-----------------------------------------------------------------------------
(* No key the handler has accepted is lost to a full queue, since the task *)
(* takes at least one a second and the handler lets one in.  (Key_pad.c:88 *)
(* and 111, Smart_door_lock_ESP32.c:115.)                                  *)
NoKeyLost == ~refused

(* While an entry fits into password, password holds it, and the door is   *)
(* enabled just when the secret is in it; before the first key past its    *)
(* end nothing old is ever compared.  (Smart_door_lock_ESP32.c:91-114.)    *)
Occurs(e) == \E i \in 0..Len(e) : /\ i + Len(Secret) <= Len(e)
                                  /\ \A j \in 1..Len(Secret) : e[i + j] = Secret[j]

EntryHeld ==
  the_position <= BufSize =>
    /\ \A i \in 1..the_position : password[i - 1] = entry[i]
    /\ enable_door_lock <=> Occurs(entry)

(* The inductive invariant.                                                *)
KeypadInv ==
  /\ NoKeyLost
  /\ Len(queue) <= (IF elapsed THEN 0 ELSE 1) + (IF polled THEN 0 ELSE 1)
  /\ the_position = Len(entry)
  /\ EntryHeld
=============================================================================
