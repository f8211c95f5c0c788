--------------------------- MODULE LightNode_proofs ---------------------------
(***************************************************************************)
(* What sending, taking and losing messages leave true of the network, and *)
(* what one step of a light preserves, whatever the other nodes are.  The  *)
(* systems a light is part of cite these lemmas.                           *)
(***************************************************************************)
EXTENDS LightNode, TLAPS, FiniteSetTheorems

(* The network starts well typed.                                          *)
LEMMA NetInit == ASSUME N_Init PROVE N_TypeOK
BY MaxLossAssumption DEF N_Init, N_TypeOK, MaxLossAssumption

(* A message put on any set of channels keeps the network well typed.      *)
LEMMA SentType ==
  ASSUME NEW n \in [Channel -> Seq(Message)], NEW s, NEW dsts, NEW m \in Message
  PROVE  Sent(n, s, dsts, m) \in [Channel -> Seq(Message)]
<1>1. ASSUME NEW c \in Channel PROVE Append(n[c], m) \in Seq(Message)
  OBVIOUS
<1>2. QED BY <1>1 DEF Sent

(* Taking the oldest message of a channel keeps the network well typed.    *)
LEMMA TakenType ==
  ASSUME NEW n \in [Channel -> Seq(Message)], NEW s \in Node, NEW d \in Node,
         n[<<s, d>>] # << >>
  PROVE  Taken(n, s, d) \in [Channel -> Seq(Message)]
<1>1. <<s, d>> \in Channel BY DEF Channel
<1>2. Tail(n[<<s, d>>]) \in Seq(Message) BY <1>1
<1>3. QED BY <1>1, <1>2 DEF Taken

(* The message a node takes is a message.                                  *)
LEMMA HeadIsMessage ==
  ASSUME N_TypeOK, NEW c \in Node, NEW d \in Node, net[<<c, d>>] # << >>
  PROVE  Head(net[<<c, d>>]) \in Message
<1>1. net[<<c, d>>] \in Seq(Message) BY DEF N_TypeOK, Channel
<1>2. QED BY <1>1

(* The four ways a step changes the network.                               *)
LEMMA SendType ==
  ASSUME N_TypeOK, NEW s, NEW dsts, NEW m \in Message, Send(s, dsts, m)
  PROVE  N_TypeOK'
BY SentType DEF Send, N_TypeOK

LEMMA TakeType ==
  ASSUME N_TypeOK, NEW s \in Node, NEW d \in Node, net[<<s, d>>] # << >>, Take(s, d)
  PROVE  N_TypeOK'
BY TakenType DEF Take, N_TypeOK

LEMMA DeafenType == ASSUME N_TypeOK, NEW d, Deafen(d) PROVE N_TypeOK'
<1>1. << >> \in Seq(Message) OBVIOUS
<1>2. QED BY <1>1 DEF Deafen, N_TypeOK

LEMMA LoseType ==
  ASSUME N_TypeOK, NEW s \in Node, NEW d \in Node, Lose(s, d)
  PROVE  N_TypeOK'
<1>1. net' \in [Channel -> Seq(Message)] BY TakenType DEF Lose, N_TypeOK
<1>2. lost' \in 0..MaxLoss BY MaxLossAssumption DEF Lose, N_TypeOK, MaxLossAssumption
<1>3. QED BY <1>1, <1>2 DEF N_TypeOK

LEMMA NetStutter == ASSUME N_TypeOK, UNCHANGED netVars PROVE N_TypeOK'
BY DEF N_TypeOK, netVars

(* The lights start in the invariant.                                      *)
LEMMA LightInit == ASSUME LightAssumption, N_Init, L_Init
                   PROVE  L_TypeOK /\ LightInv
<1> USE LightAssumption
<1>0. Handle # {}
  <2>1. SUFFICES ASSUME Handle = {} PROVE FALSE OBVIOUS
  <2>2. Cardinality(Handle) = 0 BY <2>1, FS_EmptySet
  <2>3. QED BY <2>2, LightAssumption DEF LightAssumption
<1>1. state_led \in [Light -> OnOff]
  BY DEF L_Init, Shown, Stored, OnOff
<1>2. L_TypeOK
  BY <1>0, <1>1 DEF L_Init, L_TypeOK, Stored, OnOff, LightAssumption
<1>3. LightInv
  BY <1>0 DEF L_Init, LightInv, OneLightInv, CallbackNeedsMesh, RestInv, CallbackInv, PromiseInv, HandleInv,
     Holding, Clean, Shown, LightAssumption, Stored, OnOff
<1>4. QED BY <1>2, <1>3

(* A step that leaves everything of a light alone leaves its invariant.    *)
LEMMA LightStutter == ASSUME UNCHANGED lightVars, L_TypeOK, LightInv
                      PROVE  L_TypeOK' /\ LightInv'
BY DEF lightVars, lightStore, lightTasks, L_TypeOK, LightInv, OneLightInv,
       CallbackNeedsMesh, RestInv, CallbackInv, PromiseInv, HandleInv, Holding, Clean,
       NvsValid

-----------------------------------------------------------------------------
(* Types, one action at a time.                                            *)

(* A handle nvs_open returns is one nothing refers to.                     *)
LEMMA OpenIsUnused ==
  ASSUME NEW l \in Light, Unused(l) # {}
  PROVE  (CHOOSE u \in Unused(l) : TRUE) \in Unused(l)
OBVIOUS

(* BootStart counts what failed and stays within the bound.                *)
LEMMA BootStartType ==
  ASSUME LightAssumption, L_TypeOK, NEW l \in Light, BootStart(l)
  PROVE  L_TypeOK'
<1>1. faults' \in 0..MaxFault
  BY DEF BootStart, Count, LightAssumption, L_TypeOK
<1>2. QED BY <1>1 DEF BootStart, L_TypeOK, MainGoes, Stored, OnOff

(* app_main keeps the types.                                               *)
LEMMA AppMainType ==
  ASSUME LightAssumption, L_TypeOK, NEW l \in Light, AppMain(l)
  PROVE  L_TypeOK'
<1>1. CASE BootStart(l) BY <1>1, BootStartType
<1>2. CASE RestoreOpen(l)
  BY <1>2, OpenIsUnused DEF RestoreOpen, NvsOpen, Unused, Note, Fault, MainGoes, L_TypeOK,
     LightAssumption
<1>3. CASE RestoreGet(l)
  BY <1>3 DEF RestoreGet, Note, Fault, MainGoes, L_TypeOK, LightAssumption, lightStore, Stored
<1>4. CASE RestoreClose(l)
  BY <1>4 DEF RestoreClose, NvsClose, MainGoes, L_TypeOK
<1>5. CASE RestoreShow(l)
  BY <1>5 DEF RestoreShow, MainGoes, L_TypeOK, lightStore
<1>6. QED BY <1>1, <1>2, <1>3, <1>4, <1>5 DEF AppMain

(* The server callback keeps the types.                                    *)
LEMMA CallbackType ==
  ASSUME LightAssumption, N_TypeOK, L_TypeOK, NEW l \in Light, Callback(l)
  PROVE  L_TypeOK'
<1>1. ASSUME NEW c \in Node, RecvSet(l, c) PROVE L_TypeOK'
  <2>1. Head(net[<<c, l>>]).onoff \in OnOff
    BY <1>1, HeadIsMessage DEF RecvSet, Arrives, Message, LightAssumption
  <2>2. QED BY <1>1, <2>1 DEF RecvSet, CallbackGoes, L_TypeOK, lightStore, Stored
<1>2. ASSUME NEW c \in Node, RecvGet(l, c) PROVE L_TypeOK'
  BY <1>2 DEF RecvGet, L_TypeOK, lightVars, lightStore, lightTasks
<1>3. CASE ShowSet(l)
  BY <1>3 DEF ShowSet, CallbackGoes, L_TypeOK, lightStore
<1>4. CASE SaveOpen(l)
  BY <1>4, OpenIsUnused DEF SaveOpen, NvsOpen, Unused, Note, Fault, CallbackGoes, L_TypeOK,
     LightAssumption
<1>5. CASE SaveSet(l)
  BY <1>5 DEF SaveSet, Note, Fault, CallbackGoes, L_TypeOK, LightAssumption, Stored
<1>6. CASE SaveCommit(l)
  BY <1>6 DEF SaveCommit, Note, Fault, CallbackGoes, L_TypeOK, LightAssumption
<1>7. CASE SaveClose(l)
  BY <1>7 DEF SaveClose, NvsClose, CallbackGoes, L_TypeOK
<1>8. CASE Publish(l)
  BY <1>8 DEF Publish, CallbackGoes, L_TypeOK, lightStore, Stored
<1>9. QED BY <1>1, <1>2, <1>3, <1>4, <1>5, <1>6, <1>7, <1>8 DEF Callback

(* A power cycle brings back one of the two values of the flash.           *)
LEMMA PowerCycleType ==
  ASSUME LightAssumption, L_TypeOK, NEW l \in Light, PowerCycle(l)
  PROVE  L_TypeOK'
<1>1. PICK v \in {written[l], flash[l]} : /\ written' = [written EXCEPT ![l] = v]
                                         /\ flash' = [flash EXCEPT ![l] = v]
  BY DEF PowerCycle
<1>2. v \in Stored BY <1>1 DEF L_TypeOK
<1>3. QED BY <1>1, <1>2 DEF PowerCycle, L_TypeOK, LightAssumption, OnOff

(* What a light sends and takes leaves the network well typed.             *)
LEMMA LightStepNet ==
  ASSUME LightAssumption, N_TypeOK, L_TypeOK, NEW l \in Light, L_Next(l)
  PROVE  N_TypeOK'
<1> l \in Node BY DEF LightAssumption
<1>1. CASE AppMain(l)
  BY <1>1, NetStutter DEF AppMain, BootStart, RestoreOpen, RestoreGet, RestoreClose, RestoreShow
<1>2. ASSUME NEW c \in Node, RecvSet(l, c) PROVE N_TypeOK'
  BY <1>2, TakeType DEF RecvSet, Arrives
<1>3. ASSUME NEW c \in Node, RecvGet(l, c) PROVE N_TypeOK'
  <2>1. Taken(net, c, l) \in [Channel -> Seq(Message)]
    BY <1>3, TakenType DEF RecvGet, Arrives, N_TypeOK
  <2>2. [op |-> "REPLY", onoff |-> SrvStateOnoff] \in Message
    BY DEF Message, OnOff, SrvStateOnoff
  <2>3. net' \in [Channel -> Seq(Message)]
    BY <1>3, <2>1, <2>2, SentType DEF RecvGet
  <2>4. QED BY <1>3, <2>3 DEF RecvGet, N_TypeOK
<1>4. CASE ShowSet(l) \/ SaveOpen(l) \/ SaveSet(l) \/ SaveCommit(l) \/ SaveClose(l)
  BY <1>4, NetStutter DEF ShowSet, SaveOpen, SaveSet, SaveCommit, SaveClose
<1>5. CASE Publish(l)
  <2>1. [op |-> "STATUS", onoff |-> state_led[l]] \in Message
    BY DEF Message, L_TypeOK
  <2>2. QED BY <1>5, <2>1, SendType DEF Publish
<1>6. CASE PowerCycle(l) BY <1>6, DeafenType DEF PowerCycle
<1>7. QED BY <1>1, <1>2, <1>3, <1>4, <1>5, <1>6 DEF L_Next, Callback

(* A step of a light keeps the types.                                      *)
LEMMA LightStepType ==
  ASSUME LightAssumption, N_TypeOK, L_TypeOK, NEW l \in Light, L_Next(l)
  PROVE  L_TypeOK'
BY AppMainType, CallbackType, PowerCycleType DEF L_Next

-----------------------------------------------------------------------------
(* The invariant, one action at a time.  Only the light that moves matters. *)

(* Nothing of light k changes.                                             *)
SameAt(k) == /\ state_led'[k] = state_led[k]
             /\ gpio'[k] = gpio[k]
             /\ my_handle'[k] = my_handle[k]
             /\ open'[k] = open[k]
             /\ written'[k] = written[k]
             /\ flash'[k] = flash[k]
             /\ meshUp'[k] = meshUp[k]
             /\ mpc'[k] = mpc[k]
             /\ bpc'[k] = bpc[k]
             /\ arg'[k] = arg[k]
             /\ trouble'[k] = trouble[k]
             /\ promised'[k] = promised[k]

(* A light nothing happens to keeps its invariant.                         *)
LEMMA OtherLight ==
  ASSUME NEW k \in Light, SameAt(k), OneLightInv(k)
  PROVE  OneLightInv(k)'
BY DEF SameAt, OneLightInv, CallbackNeedsMesh, RestInv, CallbackInv, PromiseInv, HandleInv,
       Holding, Clean, NvsValid

(* A step of light l changes no other light.                               *)
LEMMA StepIsLocal ==
  ASSUME L_TypeOK, NEW l \in Light, L_Next(l), NEW k \in Light, k # l
  PROVE  SameAt(k)
<1> USE DEF SameAt, L_TypeOK, lightStore, MainGoes, CallbackGoes, Note
<1>1. CASE BootStart(l) BY <1>1 DEF BootStart
<1>2. CASE RestoreOpen(l) BY <1>2 DEF RestoreOpen, NvsOpen
<1>3. CASE RestoreGet(l) BY <1>3 DEF RestoreGet
<1>4. CASE RestoreClose(l) BY <1>4 DEF RestoreClose, NvsClose
<1>5. CASE RestoreShow(l) BY <1>5 DEF RestoreShow
<1>6. ASSUME NEW c \in Node, RecvSet(l, c) PROVE SameAt(k) BY <1>6 DEF RecvSet
<1>7. ASSUME NEW c \in Node, RecvGet(l, c) PROVE SameAt(k)
  BY <1>7 DEF RecvGet, lightVars, lightTasks
<1>8. CASE ShowSet(l) BY <1>8 DEF ShowSet
<1>9. CASE SaveOpen(l) BY <1>9 DEF SaveOpen, NvsOpen
<1>10. CASE SaveSet(l) BY <1>10 DEF SaveSet
<1>11. CASE SaveCommit(l) BY <1>11 DEF SaveCommit
<1>12. CASE SaveClose(l) BY <1>12 DEF SaveClose, NvsClose
<1>13. CASE Publish(l) BY <1>13 DEF Publish
<1>14. CASE PowerCycle(l) BY <1>14 DEF PowerCycle
<1>15. QED BY <1>1, <1>2, <1>3, <1>4, <1>5, <1>6, <1>7, <1>8, <1>9, <1>10, <1>11, <1>12,
              <1>13, <1>14 DEF L_Next, AppMain, Callback

(* app_main keeps the invariant of its light: the restore brings RAM and pin *)
(* to what the flash holds, or leaves a trace in trouble.                  *)
LEMMA AppMainInv ==
  ASSUME LightAssumption, L_TypeOK, NEW l \in Light, OneLightInv(l), AppMain(l)
  PROVE  OneLightInv(l)'
<1> USE DEF OneLightInv, CallbackNeedsMesh, RestInv, CallbackInv, PromiseInv, HandleInv,
            Holding, Clean, NvsValid, L_TypeOK, lightStore, MainGoes
<1>1. CASE BootStart(l)
  <2>1. /\ mpc[l] = "init" /\ mpc'[l] \in {"open", "halted"}
        /\ mpc'[l] = "halted" => ~meshUp'[l]
        /\ UNCHANGED <<state_led, my_handle, open, bpc, arg, trouble>>
    BY <1>1 DEF BootStart
  <2>2. \/ UNCHANGED <<written, flash, promised>>
        \/ written'[l] = NoValue /\ flash'[l] = NoValue /\ promised'[l] = NoValue
    BY <1>1 DEF BootStart
  <2>3. bpc[l] = "idle" BY <2>1
  <2>4. CallbackNeedsMesh(l)' BY <2>1, <2>3
  <2>5. RestInv(l)'
    <3>1. Clean(l)' => written[l] = flash[l] /\ state_led[l] = 0
      BY <2>1, <2>3
    <3>2. QED BY <2>1, <2>2, <3>1
  <2>6. CallbackInv(l)' BY <2>1, <2>3
  <2>7. PromiseInv(l)' /\ HandleInv(l)' BY <2>1, <2>2, <2>3
  <2>8. QED BY <2>4, <2>5, <2>6, <2>7
<1>2. CASE RestoreOpen(l)
  <2>1. /\ mpc[l] = "open" /\ mpc'[l] = "get"
        /\ UNCHANGED <<state_led, gpio, written, flash, meshUp, bpc, arg, promised>>
    BY <1>2 DEF RestoreOpen
  <2>2. ASSUME NvsOpen(l), trouble'[l] = trouble[l] \cup (IF bpc[l] = "idle" THEN {} ELSE {"raced"})
        PROVE  OneLightInv(l)'
    <3>1. /\ my_handle'[l] \in open'[l]
          /\ open'[l] \ {my_handle'[l]} = open[l]
      BY <2>2, OpenIsUnused DEF NvsOpen, Unused
    <3>2. RestInv(l)' BY <2>1, <2>2, <3>1
    <3>3. CallbackInv(l)' BY <2>1, <2>2, <3>1
    <3>4. HandleInv(l)' BY <2>1, <3>1
    <3>5. QED BY <2>1, <3>2, <3>3, <3>4
  <2>3. ASSUME "unread" \in trouble'[l], UNCHANGED <<my_handle, open>>
        PROVE  OneLightInv(l)'
    BY <2>1, <2>3
  <2>4. QED BY <1>2, <2>2, <2>3 DEF RestoreOpen, Note
<1>3. CASE RestoreGet(l)
  <2>1. /\ mpc[l] = "get" /\ mpc'[l] = "close"
        /\ UNCHANGED <<gpio, my_handle, open, written, flash, meshUp, bpc, arg, promised>>
    BY <1>3 DEF RestoreGet
  <2>2. \/ /\ state_led' = IF NvsValid(l) /\ written[l] # NoValue
                              THEN [state_led EXCEPT ![l] = written[l]] ELSE state_led
           /\ UNCHANGED trouble
        \/ "unread" \in trouble'[l] /\ UNCHANGED state_led
    BY <1>3 DEF RestoreGet, Note
  <2>3. RestInv(l)' BY <2>1, <2>2 DEF Shown
  <2>4. CallbackInv(l)'
    <3>1. CASE UNCHANGED trouble BY <2>1, <3>1
    <3>2. CASE "unread" \in trouble'[l] BY <3>2
    <3>3. QED BY <2>2, <3>1, <3>2
  <2>5. QED BY <2>1, <2>3, <2>4
<1>4. CASE RestoreClose(l)
  <2>1. /\ mpc[l] = "close" /\ mpc'[l] = "gpio"
        /\ open'[l] = open[l] \ {my_handle[l]}
        /\ UNCHANGED <<state_led, gpio, my_handle, written, flash, meshUp, bpc, arg,
                       trouble, promised>>
    BY <1>4 DEF RestoreClose, NvsClose
  <2>2. CallbackNeedsMesh(l)' /\ PromiseInv(l)' BY <2>1
  <2>3. RestInv(l)' BY <2>1 DEF Shown
  <2>4. CallbackInv(l)' BY <2>1
  <2>5. HandleInv(l)' BY <2>1
  <2>6. QED BY <2>2, <2>3, <2>4, <2>5
<1>5. CASE RestoreShow(l) BY <1>5 DEF RestoreShow, Shown
<1>6. QED BY <1>1, <1>2, <1>3, <1>4, <1>5 DEF AppMain

(* The server callback keeps the invariant of its light: each call adds its *)
(* part of the agreement, in the order the promise needs.                  *)
LEMMA CallbackKeepsInv ==
  ASSUME LightAssumption, N_TypeOK, L_TypeOK, NEW l \in Light, OneLightInv(l), Callback(l)
  PROVE  OneLightInv(l)'
<1> USE DEF OneLightInv, CallbackNeedsMesh, RestInv, CallbackInv, PromiseInv, HandleInv,
            Holding, Clean, NvsValid, L_TypeOK, lightStore, CallbackGoes
<1>1. ASSUME NEW c \in Node, RecvSet(l, c) PROVE OneLightInv(l)'
  BY <1>1 DEF RecvSet, Listening, Restoring
<1>2. ASSUME NEW c \in Node, RecvGet(l, c) PROVE OneLightInv(l)'
  BY <1>2 DEF RecvGet, lightVars, lightTasks
<1>3. CASE ShowSet(l) BY <1>3 DEF ShowSet
<1>4. CASE SaveOpen(l)
  <2>1. /\ bpc[l] = "open" /\ bpc'[l] = "set" /\ arg'[l] = state_led[l]
        /\ UNCHANGED <<state_led, gpio, written, flash, meshUp, mpc, promised>>
    BY <1>4 DEF SaveOpen
  <2>2. ASSUME NvsOpen(l), UNCHANGED trouble PROVE OneLightInv(l)'
    <3>1. /\ my_handle'[l] \in open'[l]
          /\ open'[l] \ {my_handle'[l]} = open[l]
      BY <2>2, OpenIsUnused DEF NvsOpen, Unused
    <3>2. RestInv(l)' /\ CallbackInv(l)' BY <2>1, <2>2, <3>1
    <3>3. HandleInv(l)' BY <2>1, <3>1
    <3>4. QED BY <2>1, <3>2, <3>3
  <2>3. ASSUME "unsaved" \in trouble'[l], UNCHANGED <<my_handle, open>>
        PROVE  OneLightInv(l)'
    BY <2>1, <2>3
  <2>4. QED BY <1>4, <2>2, <2>3 DEF SaveOpen, Note
<1>5. CASE SaveSet(l)
  <2>1. /\ bpc[l] = "set" /\ bpc'[l] = "commit"
        /\ UNCHANGED <<state_led, gpio, my_handle, open, flash, meshUp, mpc, arg, promised>>
    BY <1>5 DEF SaveSet
  <2>2. \/ written'[l] = arg[l] /\ UNCHANGED trouble
        \/ written'[l] = written[l] /\ "unsaved" \in trouble'[l]
    BY <1>5 DEF SaveSet, Note
  <2>3. CallbackInv(l)' BY <2>1, <2>2
  <2>4. HandleInv(l)' BY <2>1
  <2>5. QED BY <2>1, <2>3, <2>4
<1>6. CASE SaveCommit(l)
  <2>1. /\ bpc[l] = "commit" /\ bpc'[l] = "close"
        /\ UNCHANGED <<state_led, gpio, my_handle, open, written, meshUp, mpc, arg, promised>>
    BY <1>6 DEF SaveCommit
  <2>2. \/ flash'[l] = written[l] /\ UNCHANGED trouble
        \/ flash'[l] = flash[l] /\ "unsaved" \in trouble'[l]
    BY <1>6 DEF SaveCommit, Note
  <2>3. CallbackInv(l)' BY <2>1, <2>2
  <2>4. HandleInv(l)' BY <2>1
  <2>5. QED BY <2>1, <2>3, <2>4
<1>7. CASE SaveClose(l) BY <1>7 DEF SaveClose, NvsClose
<1>8. CASE Publish(l) BY <1>8 DEF Publish, Shown, LightAssumption
<1>9. QED BY <1>1, <1>2, <1>3, <1>4, <1>5, <1>6, <1>7, <1>8 DEF Callback

(* A power cycle keeps it: whatever reached the flash is what is restored. *)
LEMMA PowerCycleInv ==
  ASSUME LightAssumption, L_TypeOK, NEW l \in Light, OneLightInv(l), PowerCycle(l)
  PROVE  OneLightInv(l)'
BY DEF OneLightInv, CallbackNeedsMesh, RestInv, CallbackInv, PromiseInv, HandleInv,
       Holding, Clean, NvsValid, L_TypeOK, PowerCycle

(* A step of any light keeps the types and the invariant of all lights.    *)
LEMMA LightStepInv ==
  ASSUME LightAssumption, N_TypeOK, L_TypeOK, LightInv, NEW l \in Light, L_Next(l)
  PROVE  L_TypeOK' /\ LightInv'
<1>1. L_TypeOK' BY LightStepType
<1>2. ASSUME NEW k \in Light PROVE OneLightInv(k)'
  <2>1. OneLightInv(k) BY DEF LightInv
  <2>2. CASE k = l
    BY <2>1, <2>2, AppMainInv, CallbackKeepsInv, PowerCycleInv DEF L_Next
  <2>3. CASE k # l BY <2>1, <2>3, StepIsLocal, OtherLight
  <2>4. QED BY <2>2, <2>3
<1>3. QED BY <1>1, <1>2 DEF LightInv

(* What the invariant says of lights at rest.                              *)
LEMMA LightInvImplies ==
  ASSUME LightAssumption, L_TypeOK, LightInv
  PROVE  SettledAgree /\ Durable /\ PromiseShown /\ HandlesBounded
<1>1. SettledAgree
  BY DEF SettledAgree, Settled, LightInv, OneLightInv, RestInv
<1>2. Durable
  BY DEF Durable, LightInv, OneLightInv, PromiseInv
<1>3. PromiseShown
  BY DEF PromiseShown, Settled, LightInv, OneLightInv, RestInv, PromiseInv, Shown
<1>4. HandlesBounded
  BY DEF HandlesBounded, Settled, LightInv, OneLightInv, HandleInv, Holding
<1>5. QED BY <1>1, <1>2, <1>3, <1>4

(* What a clean callback publishes is what the pin and the flash hold.     *)
LEMMA LightInvReports ==
  ASSUME LightInv, NEW l \in Light, Publish(l), Clean(l)
  PROVE  gpio[l] = state_led[l] /\ flash[l] = state_led[l]
BY DEF LightInv, OneLightInv, CallbackInv, Publish, CallbackGoes
-----------------------------------------------------------------------------
(* The refinement: a step of the light is one of the lamp or a stutter.    *)

(* Outside a callback that takes it back, a promise and the flash move     *)
(* together or not at all.                                                 *)
LEMMA StepRefines ==
  ASSUME LightAssumption, L_TypeOK, LightInv, NEW l \in Light, L_Next(l)
  PROVE  [Reported!LampNext]_(Reported!lampVars)
<1> USE DEF Reported!LampNext, Reported!lampVars
<1>0. /\ flash \in [Light -> Stored] /\ written \in [Light -> Stored]
      /\ promised \in [Light -> Stored]
      /\ state_led \in [Light -> OnOff]
      /\ OneLightInv(l)
      /\ NoValue \notin OnOff
  BY DEF L_TypeOK, LightInv, LightAssumption
<1>1. CASE BootStart(l)
  <2>1. CASE UNCHANGED <<flash, promised>> BY <2>1
  <2>2. CASE Reported!Erase(l) BY <2>2
  <2>3. QED BY <1>1, <2>1, <2>2 DEF BootStart, Reported!Erase
<1>2. CASE RestoreOpen(l) \/ RestoreGet(l) \/ RestoreClose(l) \/ RestoreShow(l)
  BY <1>2 DEF RestoreOpen, RestoreGet, RestoreClose, RestoreShow, lightStore
<1>3. ASSUME NEW c \in Node, RecvSet(l, c) PROVE Reported!Doubt(l)
  BY <1>3 DEF RecvSet, lightStore, Reported!Doubt
<1>4. ASSUME NEW c \in Node, RecvGet(l, c) PROVE UNCHANGED <<flash, promised>>
  BY <1>4 DEF RecvGet, lightVars, lightStore
<1>5. CASE ShowSet(l) \/ SaveOpen(l) \/ SaveSet(l) \/ SaveClose(l)
  BY <1>5 DEF ShowSet, SaveOpen, SaveSet, SaveClose, lightStore
<1>6. CASE SaveCommit(l)
  <2>1. promised[l] = NoValue
    BY <1>0, <1>6 DEF SaveCommit, CallbackGoes, OneLightInv, PromiseInv
  <2>2. written[l] \in OnOff \cup {NoValue} BY <1>0 DEF Stored
  <2>3. UNCHANGED flash \/ flash' = [flash EXCEPT ![l] = written[l]]
    BY <1>6 DEF SaveCommit
  <2>4. UNCHANGED promised BY <1>6 DEF SaveCommit
  <2>5. UNCHANGED <<flash, promised>> \/ Reported!Store(l, written[l])
    BY <2>1, <2>3, <2>4 DEF Reported!Store
  <2>6. QED BY <2>2, <2>5
<1>7. CASE Publish(l)
  <2>1. /\ promised[l] = NoValue
        /\ UNCHANGED flash
        /\ trouble[l] = {} => flash[l] = state_led[l]
    BY <1>0, <1>7 DEF Publish, CallbackGoes, lightStore, OneLightInv, PromiseInv, CallbackInv,
                      Clean
  <2>2. CASE trouble[l] = {}
    <3>1. promised' = [promised EXCEPT ![l] = flash[l]] BY <1>7, <2>1, <2>2 DEF Publish
    <3>2. flash[l] # NoValue BY <1>0, <2>1, <2>2
    <3>3. QED BY <2>1, <3>1, <3>2 DEF Reported!Report
  <2>3. CASE trouble[l] # {}
    <3>1. promised' = [promised EXCEPT ![l] = NoValue] BY <1>7, <2>3 DEF Publish
    <3>2. QED BY <2>1, <3>1 DEF Reported!Doubt
  <2>4. QED BY <2>2, <2>3
<1>8. CASE PowerCycle(l)
  <2>1. PICK v \in {written[l], flash[l]} : flash' = [flash EXCEPT ![l] = v]
    BY <1>8 DEF PowerCycle
  <2>2. UNCHANGED promised BY <1>8 DEF PowerCycle
  <2>3. CASE promised[l] = NoValue
    <3>1. v \in OnOff \cup {NoValue} BY <1>0, <2>1 DEF Stored
    <3>2. Reported!Store(l, v) BY <2>1, <2>2, <2>3 DEF Reported!Store
    <3>3. QED BY <3>1, <3>2
  <2>4. CASE promised[l] # NoValue
    <3>1. v = flash[l] BY <1>0, <2>1, <2>4 DEF OneLightInv, PromiseInv
    <3>2. UNCHANGED flash BY <1>0, <2>1, <3>1
    <3>3. QED BY <2>2, <3>2
  <2>5. QED BY <2>3, <2>4
<1>9. QED BY <1>1, <1>2, <1>3, <1>4, <1>5, <1>6, <1>7, <1>8 DEF L_Next, AppMain, Callback

LEMMA InitRefines == L_Init => Reported!LampInit
BY DEF L_Init, Reported!LampInit, Stored

LEMMA StutterRefines ==
  ASSUME UNCHANGED lightVars
  PROVE  [Reported!LampNext]_(Reported!lampVars)
BY DEF lightVars, lightStore, Reported!lampVars
=============================================================================
