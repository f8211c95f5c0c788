--------------------------- MODULE Provisioning_proofs -------------------------
(***************************************************************************)
(* Proofs about getting credentials from a phone: when they are erased,    *)
(* that they are kept, and that a station with credentials is not left.    *)
(***************************************************************************)
EXTENDS Provisioning, TLAPS, SequenceTheorems

-----------------------------------------------------------------------------
(* Who changes the credentials.                                            *)

LEMMA SavedChanges ==
  ASSUME [Next]_vars
  PROVE  \/ saved' = saved
         \/ mgr = "started" /\ PhoneSends /\ saved' # "none"
         \/ app = "door" /\ DoorCredFail /\ ResetOnFailure /\ retries + 1 >= MaxRetry
         \/ app = "factory" /\ FactoryCredFail /\ ResetOnFailure
<1>1. CASE Station /\ Alone
  BY <1>1 DEF Station, Attaches, Fails
<1>2. CASE Stops /\ Alone
  BY <1>2 DEF Stops
<1>3. CASE Outside /\ Alone
  BY <1>3 DEF Outside, Drops, ApGoes, PhoneSends
<1>4. CASE Door /\ (DoorTask \/ DoorEvents \/ DoorPowerLoss)
  <2>1. CASE DoorCredFail
    BY <1>4, <2>1 DEF Door, DoorCredFail
  <2>2. CASE ~DoorCredFail
    BY <1>4, <2>2
    DEF DoorTask, DoorBoot, DoorRuns, DoorEvents, DoorReconnects, DoorGotIp, DoorCredSuccess,
        DoorEnd, DoorPowerLoss, provVars
  <2> QED BY <2>1, <2>2
<1>5. CASE Factory /\ (FactoryTask \/ FactoryEvents \/ FactoryPowerLoss)
  <2>1. CASE FactoryCredFail
    BY <1>5, <2>1 DEF Factory, FactoryCredFail
  <2>2. CASE ~FactoryCredFail
    BY <1>5, <2>2
    DEF FactoryTask, FactoryBoot, FactoryUnread, FactoryDone, FactoryEvents, FactoryConnects, FactoryNoAp,
        FactoryGotIp, FactoryAuthRetry, FactoryAuthAborts, FactoryAuthGivesUp, FactoryCredSuccess,
        FactoryEnd, FactoryPowerLoss, provVars
  <2> QED BY <2>1, <2>2
<1>6. CASE Factory /\ (PhoneSetsUrl \/ PhoneUrlAborts)
  BY <1>6 DEF PhoneSetsUrl, PhoneUrlAborts, provVars
<1>7. CASE UNCHANGED vars
  BY <1>7 DEF vars, provVars
<1> QED BY <1>1, <1>2, <1>3, <1>4, <1>5, <1>6, <1>7 DEF Next

(* Once the manager has been let go the credentials stay.                  *)
THEOREM KeptForGoodAlways == Spec => KeptForGood
<1>1. ASSUME [Next]_vars, mgr = "off" PROVE saved' = saved
  BY <1>1, SavedChanges DEF ResetOnFailure
<1>2. [Next]_vars => [mgr = "off" => saved' = saved]_vars
  BY <1>1
<1> QED BY <1>2, PTL DEF Spec, KeptForGood

-----------------------------------------------------------------------------
(* The door lock's two counts: what event_handler counts are failures      *)
(* since the last success, reset or start.                                 *)

CountInv ==
  /\ retries \in 0..(MaxRetry - 1)
  /\ fails \in 0..MaxRetry
  /\ retries <= fails

LEMMA CountInit == Init => CountInv
BY RetryAssumption DEF Init, W_Init, CountInv

LEMMA CountStep ==
  ASSUME CountInv, [Next]_vars
  PROVE  CountInv'
<1> USE RetryAssumption
<1>1. CASE DoorCredFail
  <2>1. CASE retries + 1 >= MaxRetry
    BY <1>1, <2>1 DEF DoorCredFail, CountInv
  <2>2. CASE ~(retries + 1 >= MaxRetry)
    <3>1. retries' = retries + 1 /\ saved' = saved
      BY <1>1, <2>2 DEF DoorCredFail
    <3>2. fails' = IF fails = MaxRetry THEN fails ELSE fails + 1
      BY <1>1, <3>1 DEF DoorCredFail
    <3> QED BY <2>2, <3>1, <3>2 DEF CountInv
  <2> QED BY <2>1, <2>2
<1>2. CASE DoorCredSuccess
  BY <1>2 DEF DoorCredSuccess, CountInv
<1>3. CASE DoorPowerLoss
  BY <1>3 DEF DoorPowerLoss, CountInv
<1>4. CASE UNCHANGED <<retries, fails>>
  BY <1>4 DEF CountInv
<1> QED
  BY <1>1, <1>2, <1>3, <1>4
  DEF Next, vars, doorVars, Alone, Door, Factory, DoorTask, DoorBoot, DoorRuns, DoorEvents,
      DoorReconnects, DoorGotIp, DoorEnd

(* The lock's retries never exceed the failures since its last success.   *)
THEOREM CountInvariant == Spec => []CountInv
BY CountInit, CountStep, PTL DEF Spec

(* Credentials are erased only from a failed manager, by the door lock     *)
(* only after MaxRetry failures in a row, for every MaxRetry.              *)
THEOREM ErasedAfterFailuresAlways == Spec => ErasedAfterFailures
<1>1. ASSUME CountInv, [Next]_vars, saved # "none", saved' = "none"
      PROVE  mgr = "fail" /\ (app = "door" => fails + 1 >= MaxRetry)
  <2>1. CASE app = "door" /\ DoorCredFail /\ ResetOnFailure /\ retries + 1 >= MaxRetry
    <3>1. mgr = "fail"
      BY <1>1, <2>1 DEF ResetOnFailure
    <3>2. fails + 1 >= MaxRetry
      BY <1>1, <2>1, RetryAssumption DEF CountInv
    <3> QED BY <3>1, <3>2
  <2>2. CASE app = "factory" /\ ResetOnFailure
    BY <1>1, <2>2 DEF ResetOnFailure
  <2> QED BY <1>1, <2>1, <2>2, SavedChanges
<1>2. CountInv /\ [Next]_vars =>
        [saved # "none" /\ saved' = "none" =>
           mgr = "fail" /\ (app = "door" => fails + 1 >= MaxRetry)]_vars
  BY <1>1
<1> QED BY <1>2, CountInvariant, PTL DEF Spec, ErasedAfterFailures
-----------------------------------------------------------------------------
(* The queue of the event loop.  While the station is idle, an address in  *)
(* the queue is followed by a disconnection.                               *)

Again == Reason \cup {"STA_START"}

Covered == \A i \in 1..Len(events) :
             events[i] = "GOT_IP" => \E j \in (i + 1)..Len(events) : events[j] \in Reason

LEMMA Appended ==
  ASSUME events \in Seq(Event), NEW e \in Event, events' = Append(events, e)
  PROVE  /\ events' \in Seq(Event)
         /\ Pending => Pending'
         /\ e \in Again => Pending'
         /\ e # "GOT_IP" /\ Covered => Covered'
         /\ e \in Reason => Covered'
<1>1. /\ events' \in Seq(Event) /\ Len(events') = Len(events) + 1 /\ Len(events) \in Nat
      /\ events'[Len(events) + 1] = e
      /\ \A i \in 1..Len(events) : events'[i] = events[i]
  BY AppendProperties, LenProperties
<1>2. Pending => Pending'
  BY <1>1 DEF Pending
<1>3. e \in Again => Pending'
  BY <1>1 DEF Pending, Again
<1>4. ASSUME e # "GOT_IP", Covered PROVE Covered'
  <2>1. SUFFICES ASSUME NEW i \in 1..Len(events'), events'[i] = "GOT_IP"
                 PROVE  \E j \in (i + 1)..Len(events') : events'[j] \in Reason
    BY DEF Covered
  <2>2. i \in 1..Len(events) /\ events[i] = "GOT_IP"
    BY <1>1, <1>4, <2>1
  <2>3. PICK j \in (i + 1)..Len(events) : events[j] \in Reason
    BY <1>4, <2>2 DEF Covered
  <2> QED BY <1>1, <2>2, <2>3
<1>5. ASSUME e \in Reason PROVE Covered'
  <2>1. SUFFICES ASSUME NEW i \in 1..Len(events'), events'[i] = "GOT_IP"
                 PROVE  \E j \in (i + 1)..Len(events') : events'[j] \in Reason
    BY DEF Covered
  <2>2. i # Len(events) + 1
    BY <1>1, <1>5, <2>1 DEF Reason
  <2> QED BY <1>1, <1>5, <2>2
<1> QED BY <1>1, <1>2, <1>3, <1>4, <1>5

LEMMA PostedTyped ==
  ASSUME NEW e
  PROVE  /\ Posted(e) \in Seq(Event)
         /\ \A i \in 1..Len(Posted(e)) : Posted(e)[i] # "GOT_IP"
<1>1. <<>> \in Seq(Event) /\ 1..Len(<<>>) = {}
  BY EmptySeq
<1>2. /\ <<"CRED_FAIL">> \in Seq(Event) /\ <<"CRED_SUCCESS">> \in Seq(Event)
      /\ \A i \in 1..Len(<<"CRED_FAIL">>) : <<"CRED_FAIL">>[i] = "CRED_FAIL"
      /\ \A i \in 1..Len(<<"CRED_SUCCESS">>) : <<"CRED_SUCCESS">>[i] = "CRED_SUCCESS"
  <2>1. "CRED_FAIL" \in Event /\ "CRED_SUCCESS" \in Event
    BY DEF Event
  <2> QED BY <2>1
<1>3. Posted(e) \in {<<>>, <<"CRED_FAIL">>, <<"CRED_SUCCESS">>}
  BY Zenon DEF Posted
<1>4. CASE Posted(e) = <<>>
  BY <1>1, <1>4
<1>5. CASE Posted(e) = <<"CRED_FAIL">>
  BY <1>2, <1>5
<1>6. CASE Posted(e) = <<"CRED_SUCCESS">>
  BY <1>2, <1>6
<1> QED BY <1>3, <1>4, <1>5, <1>6

LEMMA Delivered ==
  ASSUME events \in Seq(Event), NEW e, Delivers(e)
  PROVE  /\ events' \in Seq(Event)
         /\ e \notin Again /\ Pending => Pending'
         /\ Covered => Covered'
         /\ e = "GOT_IP" /\ Covered => Pending'
<1> DEFINE t == Tail(events)
           p == Posted(e)
<1>1. /\ t \in Seq(Event) /\ Len(t) = Len(events) - 1 /\ Len(events) \in Nat /\ Len(events) > 0
      /\ \A i \in 1..Len(t) : t[i] = events[i + 1]
      /\ events[1] = e
  BY HeadTailProperties, LenProperties, EmptySeq DEF Delivers
<1>2. p \in Seq(Event) /\ \A i \in 1..Len(p) : p[i] # "GOT_IP"
  BY PostedTyped
<1> HIDE DEF p
<1>3. /\ events' \in Seq(Event) /\ Len(events') = Len(t) + Len(p) /\ Len(p) \in Nat
      /\ \A i \in 1..Len(t) : events'[i] = events[i + 1]
      /\ \A i \in (Len(t) + 1)..(Len(t) + Len(p)) : events'[i] = p[i - Len(t)]
  <2>1. events' = t \o p
    BY DEF Delivers, p
  <2>2. Len(t) \in Nat /\ Len(p) \in Nat
    BY <1>1, <1>2, LenProperties
  <2>3. \A i \in 1..(Len(t) + Len(p)) : (t \o p)[i] = IF i <= Len(t) THEN t[i] ELSE p[i - Len(t)]
    BY <1>1, <1>2, ConcatProperties
  <2>4. t \o p \in Seq(Event) /\ Len(t \o p) = Len(t) + Len(p)
    BY <1>1, <1>2, ConcatProperties
  <2> HIDE DEF t
  <2>5. \A i \in 1..Len(t) : events'[i] = t[i]
    BY <2>1, <2>2, <2>3
  <2>6. \A i \in (Len(t) + 1)..(Len(t) + Len(p)) : events'[i] = p[i - Len(t)]
    BY <2>1, <2>2, <2>3
  <2> QED BY <1>1, <2>1, <2>2, <2>4, <2>5, <2>6
<1> HIDE DEF t
<1>4. ASSUME e \notin Again, Pending PROVE Pending'
  <2>1. PICK i \in 1..Len(events) : events[i] \in Again
    BY <1>4 DEF Pending, Again
  <2>2. i # 1 /\ i - 1 \in 1..Len(t)
    BY <1>1, <1>4, <2>1
  <2>3. events'[i - 1] \in Again /\ i - 1 \in 1..Len(events')
    BY <1>1, <1>3, <2>1, <2>2
  <2> QED BY <2>3 DEF Pending, Again
<1>5. ASSUME Covered PROVE Covered'
  <2>1. SUFFICES ASSUME NEW i \in 1..Len(events'), events'[i] = "GOT_IP"
                 PROVE  \E j \in (i + 1)..Len(events') : events'[j] \in Reason
    BY DEF Covered
  <2>2. i \in 1..Len(t)
    <3>1. SUFFICES ASSUME i \in (Len(t) + 1)..(Len(t) + Len(p)) PROVE FALSE
      BY <1>1, <1>3
    <3>2. i - Len(t) \in 1..Len(p)
      BY <1>1, <1>3, <3>1
    <3> QED BY <1>2, <1>3, <2>1, <3>1, <3>2
  <2>3. i + 1 \in 1..Len(events) /\ events[i + 1] = "GOT_IP"
    BY <1>1, <1>3, <2>1, <2>2
  <2>4. PICK j \in (i + 2)..Len(events) : events[j] \in Reason
    BY <1>1, <1>5, <2>2, <2>3 DEF Covered
  <2>5. j - 1 \in 1..Len(t) /\ j - 1 \in (i + 1)..Len(events')
    BY <1>1, <1>3, <2>2, <2>4
  <2>6. events'[j - 1] = events[j]
    BY <1>3, <2>5
  <2> QED BY <2>4, <2>5, <2>6
<1>6. ASSUME e = "GOT_IP", Covered PROVE Pending'
  <2>1. PICK j \in 2..Len(events) : events[j] \in Reason
    BY <1>1, <1>6 DEF Covered
  <2>2. j - 1 \in 1..Len(t) /\ j - 1 \in 1..Len(events') /\ events'[j - 1] = events[j]
    BY <1>1, <1>3, <2>1
  <2> QED BY <2>1, <2>2 DEF Pending
<1> QED BY <1>3, <1>4, <1>5, <1>6

-----------------------------------------------------------------------------
(* A node that has not started has nothing under way.                      *)

AtRest == sta = "off" /\ mgr = "off" /\ events = <<>>

IdleInv ==
  /\ events \in Seq(Event)
  /\ ap_not_found \in 0..Attempts /\ ap_auth_fail \in 0..Attempts
  /\ app = "door" /\ doorPc = "boot" => AtRest
  /\ app = "factory" /\ mainPc \in {"boot", "stopped"} => AtRest
  /\ sta = "idle" => Covered
  /\ NeverIdle

LEMMA IdleInit == Init => IdleInv
<1>1. SUFFICES ASSUME Init PROVE IdleInv
  OBVIOUS
<1>2. events \in Seq(Event) /\ AtRest
  BY <1>1, EmptySeq DEF Init, P_Init, AtRest
<1> QED BY <1>1, <1>2, FactoryAssumption DEF Init, P_Init, F_Init, IdleInv, AtRest, NeverIdle

LEMMA Kinds ==
  /\ Reason \subseteq Event /\ Again \subseteq Event
  /\ \A e \in {"GOT_IP", "CRED_FAIL", "CRED_SUCCESS", "END"} : e \in Event /\ e \notin Again
  /\ "STA_START" \in Again /\ "STA_START" # "GOT_IP" /\ Reason \subseteq Again
BY DEF Again, Reason, Event

(* A step that ends with an idle station and no counter reset.             *)
LEMMA IdleWorld ==
  ASSUME IdleInv, Station \/ Stops \/ Outside, Alone
  PROVE  IdleInv'
<1>0. UNCHANGED <<ap_not_found, ap_auth_fail, app, doorPc, mainPc>>
  BY DEF Alone, doorVars, factoryVars
<1>1. CASE Attaches
  <2>1. sta = "connecting" /\ sta' = "up" /\ events' = Append(events, "GOT_IP")
    BY <1>1 DEF Attaches
  <2>2. events' \in Seq(Event)
    BY <2>1, Appended, Kinds DEF IdleInv
  <2> QED BY <1>0, <2>1, <2>2 DEF IdleInv, AtRest, NeverIdle
<1>2. ASSUME NEW r \in Reason, sta # "off", sta' = "idle", events' = Append(events, r)
      PROVE  IdleInv'
  <2>1. r \in Event /\ r \in Again
    BY Kinds
  <2>2. events' \in Seq(Event) /\ Pending' /\ Covered'
    BY <1>2, <2>1, Appended DEF IdleInv
  <2> QED BY <1>0, <1>2, <2>2 DEF IdleInv, AtRest, NeverIdle
<1>3. CASE Fails
  BY <1>2, <1>3 DEF Fails, Reasons, Reason
<1>4. CASE Drops
  BY <1>2, <1>4 DEF Drops
<1>5. CASE ApGoes
  <2>1. CASE sta = "up"
    BY <1>2, <1>5, <2>1 DEF ApGoes, Reason
  <2>2. CASE sta # "up"
    <3>1. UNCHANGED <<sta, events, mgr, saved>>
      BY <1>5, <2>2 DEF ApGoes
    <3> QED BY <1>0, <3>1 DEF IdleInv, AtRest, NeverIdle, Covered, Pending, GaveUp
  <2> QED BY <2>1, <2>2
<1>6. CASE PhoneSends
  <2>1. mgr = "started" /\ events' = events /\ sta' # "idle"
    BY <1>6 DEF PhoneSends
  <2> QED BY <1>0, <2>1 DEF IdleInv, AtRest, NeverIdle
<1>7. CASE Stops
  <2>1. mgr = "success" /\ events' = Append(events, "END") /\ sta' = sta /\ saved' = saved
    BY <1>7 DEF Stops
  <2>2. events' \in Seq(Event) /\ (Pending => Pending') /\ (Covered => Covered')
    BY <2>1, Appended, Kinds DEF IdleInv
  <2> QED BY <1>0, <2>1, <2>2 DEF IdleInv, AtRest, NeverIdle, GaveUp
<1> QED BY <1>1, <1>3, <1>4, <1>5, <1>6, <1>7 DEF Station, Outside

(* A program starts its station.                                           *)
LEMMA IdleBoots ==
  ASSUME IdleInv, AtRest, sta' = "idle", events' = Append(events, "STA_START"),
         UNCHANGED <<ap_not_found, ap_auth_fail, app>>,
         app = "door" => doorPc' # "boot", app = "factory" => mainPc' \notin {"boot", "stopped"}
  PROVE  IdleInv'
<1>1. Covered
  BY EmptySeq DEF AtRest, Covered
<1>2. events' \in Seq(Event) /\ Pending' /\ Covered'
  BY <1>1, Appended, Kinds DEF IdleInv
<1> QED BY <1>2 DEF IdleInv, NeverIdle

(* A program restarts.                                                     *)
LEMMA IdleRestarts ==
  ASSUME IdleInv, P_Restart, ap_not_found' \in 0..Attempts, ap_auth_fail' \in 0..Attempts
  PROVE  IdleInv'
<1>1. AtRest' /\ events' \in Seq(Event)
  BY EmptySeq DEF P_Restart, AtRest
<1> QED BY <1>1 DEF IdleInv, NeverIdle, AtRest

(* A program handles an event and tries to connect, or has reason not to.  *)
LEMMA IdleTries ==
  ASSUME IdleInv, NEW e, Delivers(e), saved' = saved, UNCHANGED <<app, doorPc, mainPc>>,
         ap_not_found' \in 0..Attempts, ap_auth_fail' \in 0..Attempts,
         sta' = Connected(sta) \/ (sta' = sta /\ GaveUp')
  PROVE  IdleInv'
<1>1. events' \in Seq(Event) /\ (Covered => Covered') /\ events # <<>>
  BY Delivered DEF IdleInv, Delivers
<1>2. sta' = "idle" => sta = "idle" /\ (saved' = "none" \/ GaveUp')
  BY DEF Connected
<1> QED BY <1>1, <1>2 DEF IdleInv, AtRest, NeverIdle

(* A program handles another event.                                        *)
LEMMA IdleHandles ==
  ASSUME IdleInv, NEW e, e \notin Again, Delivers(e), sta' = sta,
         saved' = saved \/ saved' = "none", UNCHANGED <<app, doorPc, mainPc>>,
         ap_not_found' \in 0..Attempts, ap_auth_fail' \in 0..Attempts,
         UNCHANGED <<ap_not_found, ap_auth_fail>> \/ e = "GOT_IP"
  PROVE  IdleInv'
<1>1. /\ events' \in Seq(Event) /\ (Covered => Covered') /\ events # <<>>
      /\ Pending => Pending'
      /\ e = "GOT_IP" /\ Covered => Pending'
  BY Delivered DEF IdleInv, Delivers
<1>2. CASE e = "GOT_IP"
  BY <1>1, <1>2 DEF IdleInv, AtRest, NeverIdle
<1>3. CASE UNCHANGED <<ap_not_found, ap_auth_fail>>
  BY <1>1, <1>3 DEF IdleInv, AtRest, NeverIdle, GaveUp
<1> QED BY <1>2, <1>3

LEMMA IdleDoor ==
  ASSUME IdleInv, Door, DoorTask \/ DoorEvents \/ DoorPowerLoss
  PROVE  IdleInv'
<1>0. /\ UNCHANGED <<ap_not_found, ap_auth_fail, app, mainPc>> /\ app = "door"
      /\ ap_not_found' \in 0..Attempts /\ ap_auth_fail' \in 0..Attempts
  BY DEF Door, factoryVars, IdleInv
<1>1. CASE DoorBoot
  <2>1. AtRest /\ doorPc' # "boot"
    BY <1>0, <1>1 DEF DoorBoot, IdleInv
  <2> QED BY <1>0, <1>1, <2>1, IdleBoots DEF DoorBoot
<1>2. CASE DoorRuns
  <2>1. UNCHANGED <<sta, events, mgr, saved>> /\ doorPc' # "boot"
    BY <1>2 DEF DoorRuns, provVars
  <2> QED BY <1>0, <2>1 DEF IdleInv, AtRest, NeverIdle, Covered, Pending, GaveUp
<1>3. CASE DoorReconnects
  <2>1. PICK e \in Again : Delivers(e) /\ sta' = Connected(sta) /\ saved' = saved /\ doorPc' = doorPc
    BY <1>3 DEF DoorReconnects, doorVars, Again
  <2> QED BY <1>0, <2>1, IdleTries
<1>4. CASE DoorGotIp
  BY <1>0, <1>4, Kinds, IdleHandles DEF DoorGotIp
<1>5. CASE DoorCredFail
  <2>1. saved' = saved \/ saved' = "none"
    BY <1>5 DEF DoorCredFail, ResetOnFailure
  <2> QED BY <1>0, <1>5, <2>1, Kinds, IdleHandles DEF DoorCredFail
<1>6. CASE DoorCredSuccess
  BY <1>0, <1>6, Kinds, IdleHandles DEF DoorCredSuccess
<1>7. CASE DoorEnd
  BY <1>0, <1>7, Kinds, IdleHandles DEF DoorEnd, doorVars
<1>8. CASE DoorPowerLoss
  BY <1>0, <1>8, IdleRestarts DEF DoorPowerLoss
<1> QED BY <1>1, <1>2, <1>3, <1>4, <1>5, <1>6, <1>7, <1>8 DEF DoorTask, DoorEvents

LEMMA IdleFactory ==
  ASSUME IdleInv, Factory,
         FactoryTask \/ FactoryEvents \/ FactoryPowerLoss \/ PhoneSetsUrl \/ PhoneUrlAborts
  PROVE  IdleInv'
<1>0. /\ UNCHANGED <<app, doorPc>> /\ app = "factory"
      /\ ap_not_found \in 0..Attempts /\ ap_auth_fail \in 0..Attempts /\ Attempts \in Nat
      /\ 0 \in 0..Attempts
  BY FactoryAssumption DEF Factory, doorVars, IdleInv
<1>1. CASE FactoryBoot
  <2>1. AtRest /\ mainPc' \notin {"boot", "stopped"}
    BY <1>0, <1>1 DEF FactoryBoot, IdleInv
  <2> QED BY <1>0, <1>1, <2>1, IdleBoots DEF FactoryBoot
<1>2. CASE FactoryDone \/ PhoneSetsUrl
  <2>1. /\ UNCHANGED <<sta, events, mgr, saved, ap_not_found, ap_auth_fail>>
        /\ mainPc' \in {"boot", "stopped"} => mainPc \in {"boot", "stopped"}
    BY <1>2 DEF FactoryDone, PhoneSetsUrl, provVars
  <2> QED BY <1>0, <2>1 DEF IdleInv, AtRest, NeverIdle, Covered, Pending, GaveUp
<1>12. CASE FactoryUnread
  <2>1. UNCHANGED <<sta, events, mgr, saved, ap_not_found, ap_auth_fail>> /\ AtRest
    BY <1>0, <1>12 DEF FactoryUnread, provVars, IdleInv
  <2> QED BY <1>0, <2>1 DEF IdleInv, AtRest, NeverIdle
<1>3. CASE FactoryConnects
  <2>1. PICK e : Delivers(e) /\ sta' = Connected(sta) /\ saved' = saved
                 /\ UNCHANGED <<mainPc, ap_not_found, ap_auth_fail>>
    BY <1>3 DEF FactoryConnects, factoryVars
  <2> QED BY <1>0, <2>1, IdleTries
<1>4. CASE FactoryNoAp
  <2>1. /\ Delivers("NO_AP") /\ saved' = saved /\ UNCHANGED <<mainPc, ap_auth_fail>>
        /\ ap_not_found' \in 0..Attempts
    BY <1>0, <1>4 DEF FactoryNoAp
  <2>2. sta' = Connected(sta) \/ (sta' = sta /\ GaveUp')
    BY <1>0, <1>4 DEF FactoryNoAp, GaveUp
  <2> QED BY <1>0, <2>1, <2>2, IdleTries
<1>5. CASE FactoryAuthRetry
  <2>1. /\ Delivers("AUTH") /\ saved' = saved /\ UNCHANGED <<mainPc, ap_not_found>>
        /\ ap_auth_fail' \in 0..Attempts /\ sta' = Connected(sta)
    BY <1>0, <1>5 DEF FactoryAuthRetry
  <2> QED BY <1>0, <2>1, IdleTries
<1>6. CASE FactoryAuthGivesUp
  <2>1. /\ Delivers("AUTH") /\ saved' = saved /\ UNCHANGED <<mainPc, ap_not_found, ap_auth_fail>>
        /\ sta' = sta /\ ap_auth_fail' = Attempts
    BY <1>6 DEF FactoryAuthGivesUp
  <2>2. GaveUp'
    BY <1>0, <2>1 DEF GaveUp
  <2> QED BY <1>0, <2>1, <2>2, IdleTries
<1>7. CASE FactoryAuthAborts \/ FactoryPowerLoss \/ PhoneUrlAborts
  BY <1>0, <1>7, IdleRestarts DEF FactoryAuthAborts, FactoryPowerLoss, PhoneUrlAborts, FactoryRestart
<1>8. CASE FactoryGotIp
  BY <1>0, <1>8, Kinds, IdleHandles DEF FactoryGotIp
<1>9. CASE FactoryCredFail
  <2>1. saved' = saved \/ saved' = "none"
    BY <1>9 DEF FactoryCredFail, ResetOnFailure
  <2> QED BY <1>0, <1>9, <2>1, Kinds, IdleHandles DEF FactoryCredFail, factoryVars
<1>10. CASE FactoryCredSuccess
  BY <1>0, <1>10, Kinds, IdleHandles DEF FactoryCredSuccess, factoryVars
<1>11. CASE FactoryEnd
  BY <1>0, <1>11, Kinds, IdleHandles DEF FactoryEnd
<1> QED BY <1>1, <1>2, <1>3, <1>4, <1>5, <1>6, <1>7, <1>8, <1>9, <1>10, <1>11, <1>12
  DEF FactoryTask, FactoryEvents

LEMMA IdleStep ==
  ASSUME IdleInv, [Next]_vars
  PROVE  IdleInv'
<1>1. CASE UNCHANGED vars
  BY <1>1 DEF vars, provVars, doorVars, factoryVars, IdleInv, AtRest, NeverIdle, Covered, Pending, GaveUp
<1> QED BY <1>1, IdleWorld, IdleDoor, IdleFactory DEF Next

(* The inductive invariant behind NeverIdle: a node that has not started  *)
(* has nothing under way, and while the station is idle every address in  *)
(* the queue is followed by a disconnection whose handler connects again. *)
THEOREM IdleInvariant == Spec => []IdleInv
BY IdleInit, IdleStep, PTL DEF Spec

(* A station with credentials is on line, trying, or about to be told to   *)
(* try; only the factory program gives up, for every number of attempts.   *)
THEOREM NeverIdleAlways == Spec => []NeverIdle
BY IdleInvariant, PTL DEF IdleInv

-----------------------------------------------------------------------------
(* The factory program's event loop.                                       *)

HasEnd == \E i \in 1..Len(events) : events[i] = "END"

LEMMA EndAppended ==
  ASSUME events \in Seq(Event), NEW e \in Event, events' = Append(events, e), e # "END"
  PROVE  HasEnd' => HasEnd
<1>1. /\ Len(events') = Len(events) + 1 /\ Len(events) \in Nat
      /\ events'[Len(events) + 1] = e
      /\ \A i \in 1..Len(events) : events'[i] = events[i]
  BY AppendProperties, LenProperties
<1>2. ASSUME NEW i \in 1..Len(events'), events'[i] = "END" PROVE i \in 1..Len(events) /\ events[i] = "END"
  BY <1>1, <1>2
<1> QED BY <1>2 DEF HasEnd

LEMMA EndDelivered ==
  ASSUME events \in Seq(Event), NEW e, Delivers(e)
  PROVE  (HasEnd' => HasEnd) /\ (e = "END" => HasEnd)
<1> DEFINE t == Tail(events)
           p == Posted(e)
<1>1. /\ t \in Seq(Event) /\ Len(t) = Len(events) - 1 /\ Len(events) \in Nat /\ Len(events) > 0
      /\ \A i \in 1..Len(t) : t[i] = events[i + 1]
      /\ events[1] = e
  BY HeadTailProperties, LenProperties, EmptySeq DEF Delivers
<1>2. p \in Seq(Event) /\ \A i \in 1..Len(p) : p[i] # "END"
  <2>1. p \in Seq(Event)
    BY PostedTyped
  <2>2. p \in {<<>>, <<"CRED_FAIL">>, <<"CRED_SUCCESS">>}
    BY Zenon DEF Posted
  <2>3. /\ 1..Len(<<>>) = {}
        /\ \A i \in 1..Len(<<"CRED_FAIL">>) : <<"CRED_FAIL">>[i] = "CRED_FAIL"
        /\ \A i \in 1..Len(<<"CRED_SUCCESS">>) : <<"CRED_SUCCESS">>[i] = "CRED_SUCCESS"
    BY EmptySeq
  <2> HIDE DEF p
  <2>4. CASE p = <<>>
    BY <2>1, <2>3, <2>4
  <2>5. CASE p = <<"CRED_FAIL">>
    BY <2>1, <2>3, <2>5
  <2>6. CASE p = <<"CRED_SUCCESS">>
    BY <2>1, <2>3, <2>6
  <2> QED BY <2>2, <2>4, <2>5, <2>6
<1>3. /\ Len(t \o p) = Len(t) + Len(p) /\ Len(t) \in Nat /\ Len(p) \in Nat
      /\ \A i \in 1..(Len(t) + Len(p)) : (t \o p)[i] = IF i <= Len(t) THEN t[i] ELSE p[i - Len(t)]
  BY <1>1, <1>2, ConcatProperties, LenProperties
<1>4. events' = t \o p
  BY DEF Delivers
<1> HIDE DEF t, p
<1>5. ASSUME NEW i \in 1..Len(events'), events'[i] = "END" PROVE HasEnd
  <2>1. i \in 1..(Len(t) + Len(p))
    BY <1>3, <1>4, <1>5
  <2>2. CASE i <= Len(t)
    <3>1. i + 1 \in 1..Len(events) /\ events[i + 1] = "END"
      BY <1>1, <1>3, <1>4, <1>5, <2>1, <2>2
    <3> QED BY <3>1 DEF HasEnd
  <2>3. CASE ~(i <= Len(t))
    <3>1. i - Len(t) \in 1..Len(p)
      BY <1>3, <2>1, <2>3
    <3> QED BY <1>2, <1>3, <1>4, <1>5, <2>1, <2>3, <3>1
  <2> QED BY <2>2, <2>3
<1> QED BY <1>1, <1>5 DEF HasEnd

(* A manager that has been sent credentials, or has been let go, leaves    *)
(* some in NVS; and END is on its way only behind a manager that ended.    *)
LoopInv ==
  /\ IdleInv
  /\ LoopNeverWaits
  /\ app = "factory" =>
       /\ mgr \in {"recv", "fail", "success", "ended"} => saved # "none"
       /\ mgr = "off" /\ mainPc \notin {"boot", "stopped"} => saved # "none"
       /\ HasEnd => mgr \in {"ended", "off"}

(* What the manager makes of an event is settled by where it was.          *)
LEMMA ManagerAfter ==
  ASSUME NEW e
  PROVE  /\ mgr \in {"ended", "off"} => MgrAfter(e) = mgr
         /\ MgrAfter(e) = "off" => mgr = "off"
         /\ MgrAfter(e) \in {"recv", "fail", "success", "ended"} =>
              mgr \in {"recv", "fail", "success", "ended"}
BY DEF MgrAfter, Watching

LEMMA LoopInit == Init => LoopInv
<1>1. SUFFICES ASSUME Init PROVE LoopInv
  OBVIOUS
<1>2. ~HasEnd
  BY <1>1, EmptySeq DEF Init, P_Init, HasEnd
<1>3. LoopNeverWaits
  BY <1>1, Zenon DEF Init, F_Init, LoopNeverWaits
<1> QED BY <1>1, <1>2, <1>3, IdleInit DEF Init, P_Init, F_Init, LoopInv

LEMMA LoopRestarts ==
  ASSUME LoopInv, FactoryRestart, IdleInv'
  PROVE  LoopInv'
<1>1. ~HasEnd'
  BY EmptySeq DEF FactoryRestart, P_Restart, HasEnd
<1>2. mgr' = "off" /\ mainPc' = "boot"
  BY DEF FactoryRestart, P_Restart
<1>3. ~loopWaits'
  BY Zenon DEF FactoryRestart
<1> QED BY <1>1, <1>2, <1>3 DEF LoopInv, LoopNeverWaits

(* A handler leaves the manager to what it makes of the event.             *)
LEMMA LoopHandles ==
  ASSUME LoopInv, app = "factory", IdleInv', NEW e, Delivers(e),
         mgr' = MgrAfter(e) \/ mgr' = mgr, UNCHANGED <<saved, mainPc, loopWaits>>
  PROVE  LoopInv'
<1>1. HasEnd' => HasEnd
  BY EndDelivered DEF LoopInv, IdleInv
<1> QED BY <1>1, ManagerAfter DEF LoopInv, LoopNeverWaits

LEMMA LoopStep ==
  ASSUME LoopInv, [Next]_vars, IdleInv'
  PROVE  LoopInv'
<1>0. events \in Seq(Event)
  BY DEF LoopInv, IdleInv
<1>1. CASE (Station \/ Stops \/ Outside) /\ Alone
  <2>1. UNCHANGED <<app, mainPc, loopWaits>>
    BY <1>1 DEF Alone, factoryVars
  <2>2. ASSUME NEW e \in Event, e # "END", events' = Append(events, e), UNCHANGED <<mgr, saved>>
        PROVE  LoopInv'
    BY <1>0, <2>1, <2>2, EndAppended DEF LoopInv, LoopNeverWaits
  <2>3. CASE Attaches
    BY <2>2, <2>3, Kinds DEF Attaches
  <2>4. CASE Fails \/ Drops
    BY <2>2, <2>4, Kinds DEF Fails, Reasons, Drops, Reason
  <2>5. CASE ApGoes
    <3>1. CASE sta = "up"
      BY <2>2, <2>5, <3>1, Kinds DEF ApGoes, Reason
    <3>2. CASE sta # "up"
      BY <2>1, <2>5, <3>2 DEF ApGoes, LoopInv, LoopNeverWaits, HasEnd
    <3> QED BY <3>1, <3>2
  <2>6. CASE PhoneSends
    BY <2>1, <2>6 DEF PhoneSends, LoopInv, LoopNeverWaits, HasEnd
  <2>7. CASE Stops
    BY <2>1, <2>7 DEF Stops, LoopInv, LoopNeverWaits
  <2> QED BY <1>1, <2>3, <2>4, <2>5, <2>6, <2>7 DEF Station, Outside
<1>2. CASE Door
  BY <1>2 DEF Door, factoryVars, LoopInv, LoopNeverWaits
<1>3. CASE Factory /\ FactoryBoot
  <2>1. ~HasEnd' /\ mainPc' \notin {"boot", "stopped"}
    <3>1. ~HasEnd /\ app = "factory"
      BY <1>3, EmptySeq DEF Factory, FactoryBoot, LoopInv, IdleInv, AtRest, HasEnd
    <3> QED BY <1>0, <1>3, <3>1, EndAppended, Kinds DEF FactoryBoot, Event
  <2>2. /\ mgr' = "started" \/ (mgr' = mgr /\ saved # "none") 
        /\ UNCHANGED <<saved, loopWaits, app>>
    BY <1>3 DEF Factory, FactoryBoot
  <2> QED BY <2>1, <2>2 DEF LoopInv, LoopNeverWaits
<1>4. CASE Factory /\ (FactoryDone \/ PhoneSetsUrl)
  <2>1. UNCHANGED <<mgr, saved, events, loopWaits, app>> /\ (mainPc' \notin {"boot", "stopped"} => mainPc \notin {"boot", "stopped"})
    BY <1>4 DEF Factory, FactoryDone, PhoneSetsUrl, provVars
  <2> QED BY <2>1 DEF LoopInv, LoopNeverWaits, HasEnd
<1>12. CASE Factory /\ FactoryUnread
  <2>1. UNCHANGED <<mgr, saved, events, loopWaits, app>> /\ mainPc' = "stopped"
    BY <1>12 DEF Factory, FactoryUnread, provVars
  <2> QED BY <2>1 DEF LoopInv, LoopNeverWaits, HasEnd
<1>5. CASE Factory /\ FactoryConnects
  <2>1. PICK e : Delivers(e) /\ mgr' = mgr /\ UNCHANGED <<saved, mainPc, loopWaits>>
    BY <1>5 DEF FactoryConnects, factoryVars
  <2> QED BY <1>5, <2>1, LoopHandles DEF Factory
<1>6. CASE Factory /\ (FactoryNoAp \/ FactoryAuthRetry \/ FactoryGotIp \/ FactoryCredSuccess)
  BY <1>6, LoopHandles
  DEF Factory, FactoryNoAp, FactoryAuthRetry, FactoryGotIp, FactoryCredSuccess, factoryVars
<1>7. CASE Factory /\ FactoryAuthGivesUp
  <2>1. /\ Delivers("AUTH") /\ mgr = "off" /\ app = "factory" /\ events # <<>>
    BY <1>7 DEF Factory, FactoryAuthGivesUp, Delivers
  <2>2. mainPc \notin {"boot", "stopped"} /\ saved # "none"
    BY <2>1 DEF LoopInv, IdleInv, AtRest
  <2>3. UNCHANGED <<mgr, saved, mainPc, loopWaits>>
    BY <1>7, <2>2 DEF FactoryAuthGivesUp
  <2> QED BY <2>1, <2>3, LoopHandles
<1>8. CASE Factory /\ (FactoryAuthAborts \/ FactoryPowerLoss \/ PhoneUrlAborts)
  BY <1>8, LoopRestarts DEF FactoryAuthAborts, FactoryPowerLoss, PhoneUrlAborts
<1>9. CASE Factory /\ FactoryCredFail
  <2>1. /\ Delivers("CRED_FAIL") /\ app = "factory" /\ UNCHANGED <<mainPc, loopWaits, app>>
        /\ \/ mgr = "fail" /\ mgr' = "started" /\ saved' = "none"
           \/ UNCHANGED <<mgr, saved>>
    BY <1>9 DEF Factory, FactoryCredFail, ResetOnFailure, factoryVars
  <2>2. HasEnd' => HasEnd
    BY <1>0, <2>1, EndDelivered
  <2> QED BY <2>1, <2>2 DEF LoopInv, LoopNeverWaits
<1>10. CASE Factory /\ FactoryEnd
  <2>1. /\ Delivers("END") /\ mgr' = "off" /\ app = "factory" /\ UNCHANGED <<saved, mainPc, loopWaits, app>>
        /\ events # <<>>
    BY <1>10 DEF Factory, FactoryEnd, Delivers
  <2>2. HasEnd /\ mainPc \notin {"boot", "stopped"}
    BY <1>0, <2>1, EndDelivered DEF LoopInv, IdleInv, AtRest
  <2>3. saved # "none"
    BY <2>1, <2>2 DEF LoopInv
  <2> QED BY <2>1, <2>3 DEF LoopInv, LoopNeverWaits
<1>11. CASE UNCHANGED vars
  BY <1>11 DEF vars, provVars, factoryVars, LoopInv, LoopNeverWaits, HasEnd
<1> QED
  BY <1>1, <1>2, <1>3, <1>4, <1>5, <1>6, <1>7, <1>8, <1>9, <1>10, <1>11, <1>12
  DEF Next, FactoryTask, FactoryEvents

(* The inductive invariant behind LoopNeverWaits: a manager that was given*)
(* credentials, or is off after app_main has begun, leaves them in NVS, so*)
(* no handler on the event loop waits there for the manager's end.        *)
THEOREM LoopInvariant == Spec => []LoopInv
<1>1. LoopInv /\ [Next]_vars => LoopInv'
  BY IdleStep, LoopStep DEF LoopInv
<1> QED BY <1>1, LoopInit, PTL DEF Spec

(* The event loop never waits for itself: where an authentication error    *)
(* starts provisioning again, a manager is there or credentials are.       *)
THEOREM LoopNeverWaitsAlways == Spec => []LoopNeverWaits
BY LoopInvariant, PTL DEF LoopInv

-----------------------------------------------------------------------------
(* The types of a node.  CountInv has those of the lock's counts, IdleInv  *)
(* those of the queue and of the factory program's retries.                *)

Flags ==
  /\ ap \in BOOLEAN /\ connectedBit \in BOOLEAN /\ endBit \in BOOLEAN
  /\ loopWaits \in BOOLEAN /\ mqttUrl \in BOOLEAN

Counts ==
  /\ cycles \in 0..MaxCycle /\ troubles \in 0..MaxTrouble /\ entries \in 0..MaxEntry
  /\ nvsFaults \in 0..MaxNvsFault

Places ==
  /\ saved \in {"none", "wrong", "right"}
  /\ sta \in {"off", "idle", "connecting", "up"}
  /\ mgr \in {"off", "started", "recv", "fail", "success", "ended"}
  /\ doorPc \in {"boot", "wait", "running"}
  /\ mainPc \in {"boot", "stopped", "wait", "over"}
  /\ app \in {"door", "factory"}

LEMMA FlagsStep ==
  ASSUME Flags, [Next]_vars
  PROVE  Flags'
BY Zenon
DEF Flags, Next, vars, provVars, bounds, doorVars, factoryVars, Alone, Door, Factory, Station,
    Attaches, Fails, Stops, Outside, Drops, ApGoes, PhoneSends, DoorTask, DoorBoot, DoorRuns,
    DoorEvents, DoorReconnects, DoorGotIp, DoorCredFail, DoorCredSuccess, DoorEnd, DoorPowerLoss,
    FactoryTask, FactoryBoot, FactoryUnread, FactoryDone, FactoryEvents, FactoryConnects, FactoryNoAp,
    FactoryGotIp, FactoryAuthRetry, FactoryAuthAborts, FactoryAuthGivesUp, FactoryCredFail,
    FactoryCredSuccess, FactoryEnd, FactoryPowerLoss, PhoneSetsUrl, PhoneUrlAborts, FactoryRestart

LEMMA CountsStep ==
  ASSUME Counts, [Next]_vars
  PROVE  Counts'
<1> USE ProvAssumption, FactoryAssumption
<1>1. CASE Outside /\ Alone
  BY <1>1 DEF Counts, Outside, Drops, ApGoes, PhoneSends, Alone, factoryVars
<1>2. CASE DoorPowerLoss /\ Door
  BY <1>2 DEF Counts, DoorPowerLoss, Door, factoryVars
<1>3. CASE Factory /\ FactoryPowerLoss
  BY <1>3 DEF Counts, FactoryPowerLoss
<1>4. CASE Factory /\ PhoneUrlAborts
  BY <1>4 DEF Counts, PhoneUrlAborts, bounds
<1>5. CASE UNCHANGED <<cycles, troubles, entries, nvsFaults>>
  BY <1>5 DEF Counts
<1>6. CASE Door /\ (DoorTask \/ DoorEvents)
  BY <1>5, <1>6
  DEF Door, DoorTask, DoorBoot, DoorRuns, DoorEvents, DoorReconnects, DoorGotIp, DoorCredFail,
      DoorCredSuccess, DoorEnd, provVars, bounds, factoryVars
<1>10. CASE Factory /\ FactoryUnread
  BY <1>10 DEF Counts, FactoryUnread, provVars, bounds
<1>7. CASE Factory /\ (FactoryBoot \/ FactoryDone \/ FactoryEvents \/ PhoneSetsUrl)
  BY <1>5, <1>7
  DEF Factory, FactoryBoot, FactoryDone, FactoryEvents, FactoryConnects, FactoryNoAp,
      FactoryGotIp, FactoryAuthRetry, FactoryAuthAborts, FactoryAuthGivesUp, FactoryCredFail,
      FactoryCredSuccess, FactoryEnd, FactoryRestart, PhoneSetsUrl, provVars, bounds, factoryVars
<1>8. CASE (Station \/ Stops) /\ Alone
  BY <1>5, <1>8 DEF Station, Attaches, Fails, Stops, Alone, bounds, factoryVars
<1>9. CASE UNCHANGED vars
  BY <1>5, <1>9 DEF vars, provVars, factoryVars
<1> QED BY <1>1, <1>2, <1>3, <1>4, <1>6, <1>7, <1>8, <1>9, <1>10 DEF Next, FactoryTask

LEMMA PlacesStep ==
  ASSUME Places, [Next]_vars
  PROVE  Places'
<1>1. CASE (Station \/ Stops) /\ Alone
  BY <1>1 DEF Places, Station, Attaches, Fails, Stops, Alone, doorVars, factoryVars
<1>2. CASE Outside /\ Alone
  BY <1>2 DEF Places, Outside, Drops, ApGoes, PhoneSends, Alone, doorVars, factoryVars
<1>3. CASE Door /\ (DoorTask \/ DoorPowerLoss)
  BY <1>3
  DEF Places, Door, DoorTask, DoorBoot, DoorRuns, DoorPowerLoss, P_Restart, provVars, factoryVars
<1>4. CASE Door /\ DoorCredFail
  BY <1>4 DEF Places, Door, DoorCredFail, ResetOnFailure, factoryVars
<1>5. CASE Door /\ (DoorReconnects \/ DoorGotIp \/ DoorCredSuccess \/ DoorEnd)
  BY <1>5
  DEF Places, Door, DoorReconnects, DoorGotIp, DoorCredSuccess, DoorEnd, Connected, MgrAfter,
      doorVars, factoryVars
<1>6. CASE Factory /\ (FactoryTask \/ FactoryPowerLoss \/ PhoneSetsUrl \/ PhoneUrlAborts)
  BY <1>6
  DEF Places, Factory, FactoryTask, FactoryBoot, FactoryUnread, FactoryDone, FactoryPowerLoss, PhoneSetsUrl,
      PhoneUrlAborts, FactoryRestart, P_Restart, provVars, doorVars
<1>7. CASE Factory /\ (FactoryConnects \/ FactoryNoAp \/ FactoryGotIp \/ FactoryAuthRetry)
  BY <1>7
  DEF Places, Factory, FactoryConnects, FactoryNoAp, FactoryGotIp, FactoryAuthRetry, Connected,
      MgrAfter, doorVars, factoryVars
<1>8. CASE Factory /\ (FactoryAuthAborts \/ FactoryAuthGivesUp \/ FactoryCredSuccess \/ FactoryEnd)
  BY <1>8
  DEF Places, Factory, FactoryAuthAborts, FactoryAuthGivesUp, FactoryCredSuccess, FactoryEnd,
      FactoryRestart, P_Restart, doorVars, factoryVars
<1>9. CASE Factory /\ FactoryCredFail
  BY <1>9 DEF Places, Factory, FactoryCredFail, ResetOnFailure, doorVars, factoryVars
<1>10. CASE UNCHANGED vars
  BY <1>10 DEF Places, vars, provVars, doorVars, factoryVars
<1> QED
  BY <1>1, <1>2, <1>3, <1>4, <1>5, <1>6, <1>7, <1>8, <1>9, <1>10
  DEF Next, DoorEvents, FactoryEvents

(* A node that provisions stays well typed, for every number of retries.   *)
THEOREM ProvTypes == Spec => []TypeOK
<1>1. Init => Flags
  BY DEF Init, P_Init, W_Init, F_Init, Flags
<1>2. Init => Counts
  BY ProvAssumption, FactoryAssumption DEF Init, P_Init, F_Init, Counts
<1>3. Init => Places
  BY DEF Init, P_Init, W_Init, F_Init, Places
<1>4. Spec => [](Flags /\ Counts /\ Places)
  BY <1>1, <1>2, <1>3, FlagsStep, CountsStep, PlacesStep, PTL DEF Spec
<1>5. Flags /\ Counts /\ Places /\ CountInv /\ IdleInv => TypeOK
  BY DEF Flags, Counts, Places, CountInv, IdleInv, TypeOK, P_TypeOK, W_TypeOK, F_TypeOK, Credentials
<1> QED BY <1>4, <1>5, CountInvariant, IdleInvariant, PTL

-----------------------------------------------------------------------------
(* The refinement of Enrolment: each handler is one of its steps, or moves *)
(* neither the credentials nor the manager.                                *)

LEMMA Phases ==
  /\ mgr = "off" => Phase = "closed"
  /\ mgr = "started" => Phase = "offered"
  /\ mgr = "recv" => Phase = "trying"
  /\ mgr = "fail" => Phase = "failed"
  /\ mgr = "success" => Phase = "accepted"
  /\ mgr = "ended" => Phase = "done"
BY DEF Phase

LEMMA PhasesNext ==
  /\ mgr' = mgr => Phase' = Phase
  /\ mgr' = "off" => Phase' = "closed"
  /\ mgr' = "started" => Phase' = "offered"
  /\ mgr' = "recv" => Phase' = "trying"
  /\ mgr' = "fail" => Phase' = "failed"
  /\ mgr' = "success" => Phase' = "accepted"
  /\ mgr' = "ended" => Phase' = "done"
BY DEF Phase

Enrols == [Enrol!EnrolNext]_<<saved, Phase>>

LEMMA EnrolRests ==
  ASSUME mgr' = mgr, saved' = saved
  PROVE  Enrols
BY PhasesNext DEF Enrols

LEMMA EnrolCloses ==
  ASSUME mgr' = "off", saved' = saved
  PROVE  Enrols
BY PhasesNext DEF Enrols, Enrol!EnrolNext, Enrol!Close

LEMMA EnrolOffers ==
  ASSUME mgr = "off", saved = "none", mgr' = "started", saved' = saved
  PROVE  Enrols
BY Phases, PhasesNext DEF Enrols, Enrol!EnrolNext, Enrol!Offer

(* A handler that leaves the manager to what it makes of the event.        *)
LEMMA EnrolHears ==
  ASSUME NEW e, mgr' = MgrAfter(e), saved' = saved
  PROVE  Enrols
<1>1. CASE mgr' = mgr
  BY <1>1, EnrolRests
<1>2. CASE mgr' # mgr
  <2>1. mgr \in {"recv", "fail", "success"} /\ mgr' \in {"fail", "success"}
    BY <1>2 DEF MgrAfter, Watching
  <2>2. Phase \in {"trying", "failed", "accepted"} /\ Phase' \in {"failed", "accepted"}
    BY <2>1, Phases, PhasesNext
  <2> QED BY <2>2 DEF Enrols, Enrol!EnrolNext, Enrol!Judge
<1> QED BY <1>1, <1>2

LEMMA EnrolResets ==
  ASSUME ResetOnFailure \/ UNCHANGED <<mgr, saved>>
  PROVE  Enrols
<1>1. CASE mgr = "fail" /\ mgr' = "started" /\ saved' = "none"
  BY <1>1, Phases, PhasesNext DEF Enrols, Enrol!EnrolNext, Enrol!Forget
<1>2. CASE UNCHANGED <<mgr, saved>>
  BY <1>2, EnrolRests
<1> QED BY <1>1, <1>2 DEF ResetOnFailure

LEMMA EnrolWorld ==
  ASSUME Station \/ Stops \/ Outside
  PROVE  Enrols
<1>1. CASE PhoneSends
  <2>1. Phase = "offered" /\ Phase' = "trying"
    BY <1>1, Phases, PhasesNext DEF PhoneSends
  <2>2. PICK c \in {"wrong", "right"} : saved' = c
    BY <1>1 DEF PhoneSends
  <2>3. c \in Credentials \ {"none"}
    BY <2>2 DEF Credentials
  <2> QED BY <2>1, <2>2, <2>3 DEF Enrols, Enrol!EnrolNext, Enrol!Take
<1>2. CASE Stops
  <2>1. Phase = "accepted" /\ Phase' = "done" /\ saved' = saved
    BY <1>2, Phases, PhasesNext DEF Stops
  <2> QED BY <2>1 DEF Enrols, Enrol!EnrolNext, Enrol!Finish
<1>3. CASE Station \/ Drops \/ ApGoes
  BY <1>3, EnrolRests DEF Station, Attaches, Fails, Drops, ApGoes
<1> QED BY <1>1, <1>2, <1>3 DEF Outside

LEMMA EnrolDoor ==
  ASSUME IdleInv, Door, DoorTask \/ DoorEvents \/ DoorPowerLoss
  PROVE  Enrols
<1>1. CASE DoorBoot
  <2>1. mgr = "off" /\ saved' = saved /\ mgr' = IF saved = "none" THEN "started" ELSE "off"
    BY <1>1 DEF Door, DoorBoot, IdleInv, AtRest
  <2> QED BY <2>1, EnrolOffers, EnrolCloses
<1>2. CASE DoorRuns \/ DoorCredSuccess
  BY <1>2, EnrolRests DEF DoorRuns, DoorCredSuccess, provVars
<1>3. CASE DoorReconnects
  BY <1>3, EnrolHears DEF DoorReconnects
<1>4. CASE DoorGotIp
  BY <1>4, EnrolHears DEF DoorGotIp
<1>5. CASE DoorCredFail
  BY <1>5, EnrolResets DEF DoorCredFail
<1>6. CASE DoorEnd \/ DoorPowerLoss
  BY <1>6, EnrolCloses DEF DoorEnd, DoorPowerLoss, P_Restart
<1> QED BY <1>1, <1>2, <1>3, <1>4, <1>5, <1>6 DEF DoorTask, DoorEvents

LEMMA EnrolFactory ==
  ASSUME IdleInv, Factory,
         FactoryTask \/ FactoryEvents \/ FactoryPowerLoss \/ PhoneSetsUrl \/ PhoneUrlAborts
  PROVE  Enrols
<1>1. CASE FactoryBoot
  <2>1. mgr = "off"
    BY <1>1 DEF Factory, FactoryBoot, IdleInv, AtRest
  <2>2. saved' = saved /\ IF saved # "none" THEN mgr' = mgr ELSE mgr' = "started"
    BY <1>1 DEF FactoryBoot
  <2> QED BY <2>1, <2>2, EnrolOffers, EnrolRests
<1>2. CASE FactoryUnread \/ FactoryDone \/ FactoryConnects \/ FactoryCredSuccess \/ PhoneSetsUrl
  BY <1>2, EnrolRests DEF FactoryUnread, FactoryDone, FactoryConnects, FactoryCredSuccess, PhoneSetsUrl, provVars
<1>3. CASE FactoryGotIp \/ FactoryNoAp \/ FactoryAuthRetry
  BY <1>3, EnrolHears DEF FactoryGotIp, FactoryNoAp, FactoryAuthRetry
<1>4. CASE FactoryAuthGivesUp
  <2>1. /\ mgr = "off" /\ saved' = saved
        /\ IF saved # "none" THEN mgr' = mgr ELSE mgr' = "started"
    BY <1>4 DEF FactoryAuthGivesUp
  <2> QED BY <2>1, EnrolRests, EnrolOffers
<1>5. CASE FactoryCredFail
  BY <1>5, EnrolResets DEF FactoryCredFail
<1>6. CASE FactoryAuthAborts \/ FactoryEnd \/ FactoryPowerLoss \/ PhoneUrlAborts
  BY <1>6, EnrolCloses
  DEF FactoryAuthAborts, FactoryEnd, FactoryPowerLoss, PhoneUrlAborts, FactoryRestart, P_Restart
<1> QED BY <1>1, <1>2, <1>3, <1>4, <1>5, <1>6 DEF FactoryTask, FactoryEvents

LEMMA EnrolStep ==
  ASSUME IdleInv, [Next]_vars
  PROVE  Enrols
<1>1. CASE UNCHANGED vars
  BY <1>1, EnrolRests DEF vars, provVars
<1> QED BY <1>1, EnrolWorld, EnrolDoor, EnrolFactory DEF Next

(* Both programs implement Enrolment, for every number of retries: what a  *)
(* phone gave is lost only in a failed conversation, and a node that has   *)
(* credentials never asks for others.                                      *)
THEOREM EnrolmentImplemented == Spec => ImplementsEnrolment
<1>1. Init => Enrol!EnrolInit
  BY Phases DEF Init, P_Init, Enrol!EnrolInit
<1>2. IdleInv /\ [Next]_vars => [Enrol!EnrolNext]_Enrol!enrolVars
  BY EnrolStep DEF Enrols, Enrol!enrolVars
<1> QED BY <1>1, <1>2, IdleInvariant, PTL DEF Spec, ImplementsEnrolment, Enrol!EnrolSpec

(* What the abstract specification alone gives, carried to both programs:  *)
(* the manager offers itself to a phone only while NVS has no credentials, *)
(* and while it tries some, or has judged them, they are there.            *)
THEOREM AsksWhenEmptyAlways == Spec => []Enrol!AsksWhenEmpty
<1>1. Enrol!EnrolInit => Enrol!AsksWhenEmpty
  BY DEF Enrol!EnrolInit, Enrol!AsksWhenEmpty
<1>2. Enrol!AsksWhenEmpty /\ [Enrol!EnrolNext]_Enrol!enrolVars => Enrol!AsksWhenEmpty'
  BY DEF Enrol!AsksWhenEmpty, Enrol!EnrolNext, Enrol!enrolVars, Enrol!Offer, Enrol!Take, Enrol!Judge,
         Enrol!Forget, Enrol!Finish, Enrol!Close
<1>3. ImplementsEnrolment => []Enrol!AsksWhenEmpty
  BY <1>1, <1>2, PTL DEF ImplementsEnrolment, Enrol!EnrolSpec
<1> QED BY <1>3, EnrolmentImplemented, PTL

=============================================================================
