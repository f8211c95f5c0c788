-------------------------- MODULE LightAlone_proofs --------------------------
(***************************************************************************)
(* The theorems about lights in any surroundings: every number of lights   *)
(* and clients, of messages sent and lost, of power cycles and of failing  *)
(* NVS calls.                                                              *)
(***************************************************************************)
EXTENDS LightAlone, LightNode_proofs

Inv == TypeOK /\ LightInv

(* The initial states satisfy the invariant.                               *)
LEMMA InitInv == Init => Inv
BY LightInit, NetInit, LightAssumption, ClientAssumption
   DEF Init, Inv, TypeOK, ClientAssumption

(* What a client may put on air is a message.                              *)
LEMMA ClientMessages ==
  ASSUME NEW v \in OnOff, NEW o \in {"SET", "SET_UNACK", "GET"}
  PROVE  [op |-> o, onoff |-> v] \in Message
BY DEF Message

(* Every step keeps the invariant; only the lights' own steps disturb more *)
(* than the network.                                                       *)
LEMMA NextInv == Inv /\ [Next]_vars => Inv'
<1> SUFFICES ASSUME Inv, [Next]_vars PROVE Inv'
  OBVIOUS
<1> USE LightAssumption, ClientAssumption
<1>1. N_TypeOK /\ L_TypeOK /\ LightInv /\ sends \in 0..MaxSend BY DEF Inv, TypeOK
<1>2. ASSUME NEW l \in Light, L_Next(l), UNCHANGED sends PROVE Inv'
  BY <1>1, <1>2, LightStepInv, LightStepNet DEF Inv, TypeOK
<1>3. ASSUME NEW c \in Client, NEW l \in Light, ClientSends(c, l) PROVE Inv'
  <2>1. N_TypeOK'
    <3>1. CASE \E v \in OnOff, o \in {"SET", "SET_UNACK"} : Send(c, {l}, [op |-> o, onoff |-> v])
      BY <1>1, <3>1, SendType, ClientMessages
    <3>2. CASE Send(c, {l}, [op |-> "GET", onoff |-> 0])
      <4>1. 0 \in OnOff BY DEF OnOff
      <4>2. QED BY <1>1, <3>2, <4>1, SendType, ClientMessages
    <3>3. QED BY <1>3, <3>1, <3>2 DEF ClientSends
  <2>2. sends' \in 0..MaxSend BY <1>1, <1>3 DEF ClientSends, ClientAssumption
  <2>3. QED BY <1>1, <1>3, <2>1, <2>2, LightStutter DEF ClientSends, Inv, TypeOK
<1>4. ASSUME NEW c \in Client, NEW l \in Light, ClientReceives(c, l) PROVE Inv'
  <2>1. N_TypeOK'
    BY <1>1, <1>4, TakeType DEF ClientReceives, LightAssumption, ClientAssumption
  <2>2. QED BY <1>1, <1>4, <2>1, LightStutter DEF ClientReceives, Inv, TypeOK
<1>5. CASE AirLoses
  <2>1. PICK c \in Channel : Lose(c[1], c[2]) /\ UNCHANGED <<lightVars, sends>>
    BY <1>5 DEF AirLoses
  <2>2. N_TypeOK' BY <1>1, <2>1, LoseType DEF Channel
  <2>3. QED BY <1>1, <2>1, <2>2, LightStutter DEF Inv, TypeOK
<1>6. CASE UNCHANGED vars
  BY <1>1, <1>6, NetStutter, LightStutter DEF vars, Inv, TypeOK
<1>7. QED BY <1>2, <1>3, <1>4, <1>5, <1>6 DEF Next, LightMoves

(* The invariant holds in every reachable state.                           *)
THEOREM Invariance == Spec => []Inv
BY InitInv, NextInv, PTL DEF Spec

-----------------------------------------------------------------------------
(* Every variable of the lights, the network and the clients keeps its     *)
(* type: app_main and the callback never store anything but 0 and 1.       *)
THEOREM TypeCorrect == Spec => []TypeOK
<1>1. Inv => TypeOK BY DEF Inv
<1>2. QED BY <1>1, Invariance, PTL

(* The inductive invariant by itself.                                      *)
THEOREM LightInvariant == Spec => []LightInv
<1>1. Inv => LightInv BY DEF Inv
<1>2. QED BY <1>1, Invariance, PTL

(* A light at rest that nothing befell shows what it would restore         *)
(* (main.c:205-214 and 316-318, bee_app_nvs.c).                            *)
THEOREM RestingLightsAgree == Spec => []SettledAgree
<1>1. Inv => SettledAgree BY LightInvImplies, LightAssumption DEF Inv, TypeOK
<1>2. QED BY <1>1, Invariance, PTL

(* A published value survives every power cycle (main.c:213-214).          *)
THEOREM ReportsAreDurable == Spec => []Durable
<1>1. Inv => Durable BY LightInvImplies, LightAssumption DEF Inv, TypeOK
<1>2. QED BY <1>1, Invariance, PTL

(* A published value is what a restarted light shows (main.c:316-318).     *)
THEOREM ReportsAreShown == Spec => []PromiseShown
<1>1. Inv => PromiseShown BY LightInvImplies, LightAssumption DEF Inv, TypeOK
<1>2. QED BY <1>1, Invariance, PTL

(* The two tasks' shared my_handle leaks at most one handle between two    *)
(* restarts, however often they meet (bee_app_nvs.c:20, 24-45, 74-97).     *)
THEOREM HandlesStayBounded == Spec => []HandlesBounded
<1>1. Inv => HandlesBounded BY LightInvImplies, LightAssumption DEF Inv, TypeOK
<1>2. QED BY <1>1, Invariance, PTL

(* A report never runs ahead of the pin or of the flash (main.c:212-214).  *)
THEOREM ReportsAreMadeTrue == Spec => ReportsAreTrue
<1>1. Inv /\ [Next]_vars =>
        [\A l \in Light : Publish(l) /\ Clean(l) =>
           /\ gpio[l] = state_led[l]
           /\ flash[l] = state_led[l]]_<<netVars, lightVars>>
  BY LightInvReports DEF Inv
<1>2. QED BY <1>1, Invariance, PTL DEF Spec, ReportsAreTrue

-----------------------------------------------------------------------------
(* Every light implements the lamp the rest of the home relies on.         *)
THEOREM LightImplementsLamp == Spec => ImplementsLamp
<1>1. Init => Reported!LampInit BY InitRefines DEF Init
<1>2. Inv /\ [Next]_vars => [Reported!LampNext]_(Reported!lampVars)
  <2> SUFFICES ASSUME Inv, [Next]_vars PROVE [Reported!LampNext]_(Reported!lampVars)
    OBVIOUS
  <2>1. CASE LightMoves BY <2>1, StepRefines, LightAssumption DEF Inv, TypeOK, LightMoves
  <2>2. CASE UNCHANGED lightVars BY <2>2, StutterRefines
  <2>3. QED BY <2>1, <2>2 DEF Next, vars, ClientSends, ClientReceives, AirLoses
<1>3. QED BY <1>1, <1>2, Invariance, PTL DEF Spec, ImplementsLamp, Reported!LampSpec
=============================================================================
