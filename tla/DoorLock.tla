-------------------------------- MODULE DoorLock ------------------------------
(***************************************************************************)
(* The door lock (src/Smart_door_lock_ESP32-master): its keypad, the task  *)
(* that asks the fingerprint reader, and the MQTT client through which the *)
(* task reports an opening, composed.  Keypad and finger share gpio 2; the *)
(* task and the client's own task share the client's lock, which the       *)
(* latter holds while it connects.  Wi-Fi is in Provisioning.              *)
(***************************************************************************)
EXTENDS DoorKeypad, Jm101

CONSTANT Password     \* default_password of main, four bytes

(* What check_sum cannot carry is not among it (the code has four zeros).  *)
ASSUME PasswordAssumption ==
  /\ Password \in Seq(Byte) /\ Len(Password) = 4
  /\ Password[1] # Flag /\ Sum4(Password) # 229

VARIABLES
  fpc,          \* where Task_for_fingerprint is
  publishing,   \* callback waits in app_mqtt_publish
  mpc,          \* where Task_for_mqtt_communicate is
  client,       \* the MQTT client
  fault         \* history: the parser called a callback nobody had set

taskVars == <<fpc, publishing, mpc, client, fault>>
vars == <<keypadVars, jmVars, taskVars>>

D_TypeOK ==
  /\ K_TypeOK
  /\ J_TypeOK
  /\ fpc \in {"verify", "count", "auto", "ended"}
  /\ publishing \in BOOLEAN
  /\ mpc \in {"start", "publish", "ended"}
  /\ client \in {"init", "waiting", "connecting", "connected"}
  /\ fault \in BOOLEAN

(* app_main: keypad_initalize, jm101_init, app_mqtt_init, the tasks.       *)
Init ==
  /\ K_Init
  /\ J_Init
  /\ fpc = "verify"
  /\ publishing = FALSE
  /\ mpc = "start"
  /\ client = "init"
  /\ fault = FALSE

-----------------------------------------------------------------------------
(* The MQTT client: while it connects it holds its lock.                   *)

ClientFree == client # "connecting"

(* Task_for_mqtt_communicate.                                              *)
app_mqtt_start ==
  /\ mpc = "start"
  /\ mpc' = "publish"
  /\ client' = "waiting"
  /\ UNCHANGED <<keypadVars, jmVars, fpc, publishing, fault>>

MqttHello ==
  /\ mpc = "publish" /\ ClientFree
  /\ mpc' = "ended"
  /\ UNCHANGED <<keypadVars, jmVars, fpc, publishing, client, fault>>

(* The client's own task (external); mqtt_event_handler only logs what it  *)
(* reports, for nothing is ever subscribed and no data come.               *)
ClientConnects ==
  /\ client = "waiting"
  /\ client' = "connecting"
  /\ UNCHANGED <<keypadVars, jmVars, fpc, publishing, mpc, fault>>

ConnectEnds ==
  /\ client = "connecting"
  /\ client' \in {"connected", "waiting"}
  /\ UNCHANGED <<keypadVars, jmVars, fpc, publishing, mpc, fault>>

BrokerLost ==
  /\ client = "connected"
  /\ client' = "waiting"
  /\ UNCHANGED <<keypadVars, jmVars, fpc, publishing, mpc, fault>>

-----------------------------------------------------------------------------
(* Task_for_fingerprint.                                                   *)

TaskSends(frame) == Send(frame) /\ UNCHANGED <<keypadVars, taskVars>>

AskVfyPwd == fpc = "verify" /\ TaskSends(VfyPwd(Password))
AskTempleteNum == fpc = "count" /\ TaskSends(TempleteNum)
AskGR_Auto == fpc = "auto" /\ TaskSends(GR_Auto)

(* jm101_reponse within VfyPwd.  Only a reader that took its password is   *)
(* asked again, and then the callback is set.                              *)
ReadVfyPwd ==
  /\ fpc = "verify" /\ jm101_reponse
  /\ IF confirmation' = 0
       THEN fpc' = "count" /\ set_fingerprint_confirm_callback
       ELSE fpc' = "ended" /\ UNCHANGED callback
  /\ UNCHANGED <<keypadVars, publishing, mpc, client, fault>>

ReadTempleteNum ==
  /\ fpc = "count" /\ jm101_reponse
  /\ fpc' = "auto"
  /\ UNCHANGED <<keypadVars, callback, publishing, mpc, client, fault>>

ReadGR_Auto ==
  /\ fpc = "auto" /\ jm101_reponse
  /\ UNCHANGED <<keypadVars, callback, taskVars>>

(* callback: gpio 2 is set, and app_mqtt_publish asks for the client.      *)
CallbackOpens ==
  /\ calls > 0 /\ ~publishing
  /\ IF callback
       THEN pin' = 1 /\ publishing' = TRUE /\ UNCHANGED fault
       ELSE fault' = TRUE /\ UNCHANGED <<pin, publishing>>
  /\ ~fault
  /\ UNCHANGED <<queue, elapsed, polled, password, the_position, enable_door_lock, entry,
                 refused, presses, jmVars, fpc, mpc, client>>

(* Mutant: the publication waits until the broker is there.                *)
PublishWhenUp ==
  /\ publishing /\ client = "connected"
  /\ publishing' = FALSE
  /\ calls' = calls - 1
  /\ UNCHANGED <<keypadVars, request, reader, rx, torn, confirmation, callback, late, origin,
                 fpc, mpc, client, fault>>

(* app_mqtt_publish: with QoS 1 the message is kept by the client until    *)
(* the broker has it, so that only the lock is waited for.                 *)
app_mqtt_publish ==
  /\ publishing /\ ClientFree
  /\ publishing' = FALSE
  /\ calls' = calls - 1
  /\ UNCHANGED <<keypadVars, request, reader, rx, torn, confirmation, callback, late, origin,
                 fpc, mpc, client, fault>>

Keypad == K_Next /\ UNCHANGED <<jmVars, taskVars>>
Reader == ReaderAnswers /\ UNCHANGED <<keypadVars, taskVars>>

Task_for_fingerprint == \/ AskVfyPwd \/ AskTempleteNum \/ AskGR_Auto
                        \/ ReadVfyPwd \/ ReadTempleteNum \/ ReadGR_Auto
                        \/ CallbackOpens \/ app_mqtt_publish

Next == \/ Keypad \/ Reader \/ Task_for_fingerprint
        \/ app_mqtt_start \/ MqttHello
        \/ ClientConnects \/ ConnectEnds \/ BrokerLost

Spec == Init /\ [][Next]_vars

(* Tasks run; an attempt to connect ends, for it has a time limit.  The    *)
(* client's lock goes to the task of the higher priority that waits for it *)
(* whenever the client's own task lets it go: strong fairness.             *)
Fairness ==
  /\ WF_vars(ConnectEnds)
  /\ WF_vars(Task_for_fingerprint)
  /\ SF_vars(app_mqtt_publish)

FairSpec == Spec /\ Fairness

-----------------------------------------------------------------------------
(* The reader refuses none of the lock's commands for its checksum, though *)
(* check_sum is neither the sum modulo 256 that jm101.h:26 describes nor   *)
(* the plain one.  (jm101.c:56.)                                           *)
NoFrameRefused == reader # Nothing => reader.ok

(* The parser never calls a callback nobody has set: GR_Auto is not sent   *)
(* before VfyPwd succeeded, and neither a late answer nor half an answer   *)
(* gets there earlier.  (jm101.c:1033, Smart_door_lock_ESP32.c:123.)       *)
CallbackIsSet == ~fault

(* When no answer was late, the finger's task opens only for an answer of  *)
(* the reader to GR_Auto that says success; when one was, still only in    *)
(* the loop and only for a success.  (jm101.c:1009-1033.)                  *)
OpensForGR_Auto ==
  calls > 0 => /\ fpc = "auto" /\ confirmation = 0
               /\ ~late => origin = "own"

(* Whatever the reader and the broker do, the latch follows what is typed  *)
(* as PasswordLatch describes for entries shorter than password.           *)
Latch == INSTANCE PasswordLatch WITH Limit <- BufSize
ImplementsLatch == Latch!Spec

(* A call that waits for the MQTT client gets it, so that the task returns *)
(* to the reader although the broker may never be reached.                 *)
PublishReturns == publishing ~> ~publishing

(* The inductive invariant of the finger's task.                           *)
FingerInv ==
  /\ NoFrameRefused
  /\ CallbackIsSet
  /\ OwnAnswer
  /\ OpensForGR_Auto
  /\ request \in {None, CASE fpc = "verify" -> 19 [] fpc = "count" -> 29
                          [] fpc = "auto" -> 50 [] fpc = "ended" -> None}
  /\ fpc \in {"count", "auto"} => callback
  /\ calls > 0 => request = None
  /\ publishing => calls > 0
  /\ ~late => /\ ~torn
              /\ \A i \in 1..Len(rx) : rx[i].own
              /\ request = None => rx = <<>>

DoorInv == KeypadInv /\ FingerInv
=============================================================================
