---------------------------- MODULE ConnectNode_proofs -------------------------
(***************************************************************************)
(* Proofs about the nodes of BLE-Connect and LAB: the station and its      *)
(* group of bits, the BLE server, and the POST handlers.                   *)
(***************************************************************************)
EXTENDS ConnectNode, TLAPS, SequenceTheorems

-----------------------------------------------------------------------------
(* The station.                                                            *)

(* What can be on its way while the station is what it is; with the FAIL   *)
(* bit set nothing is, so that no address can come after it.               *)
OnTheWay ==
  /\ sta = "off" => events = <<>>
  /\ sta = "idle" => events \in {<<>>, <<"START">>, <<"DISCONNECTED">>, <<"GOT_IP", "DISCONNECTED">>}
  /\ sta \in {"connecting", "associated"} => events = <<>>
  /\ sta = "up" => events \in {<<>>, <<"GOT_IP">>}
  /\ "FAIL" \in bits => sta = "idle" /\ events = <<>>

(* Who is registered while wifi_init_sta is where it is.                   *)
Registration ==
  /\ wpc = "off" => sta = "off" /\ bits = {} /\ row = 0 /\ s_retry_num = 0
  /\ wpc = "unregisterWifi" => "ip" \notin registered
  /\ wpc \in {"off", "delete", "over"} => registered = {}
  /\ registered \subseteq {"wifi", "ip"}

Rows ==
  /\ s_retry_num \in 0..MaximumRetry
  /\ row = s_retry_num \/ (s_retry_num = MaximumRetry /\ row = MaximumRetry + 1)

StationInv == OnTheWay /\ Registration /\ Rows /\ GroupIsThere /\ FailIsEarned /\ W_TypeOK

LEMMA StationInit == W_Init => StationInv
<1> SUFFICES ASSUME W_Init PROVE StationInv
  OBVIOUS
<1>1. events \in Seq({"START", "DISCONNECTED", "GOT_IP"})
  BY EmptySeq DEF W_Init
<1>2. OnTheWay /\ Registration /\ Rows
  BY RetryAssumption DEF W_Init, OnTheWay, Registration, Rows
<1>3. GroupIsThere /\ FailIsEarned
  BY DEF W_Init, GroupIsThere, FailIsEarned
<1>4. W_TypeOK
  <2>1. stale \in BOOLEAN
    BY Zenon DEF W_Init
  <2>2. /\ wpc = "off" /\ sta = "off" /\ s_retry_num \in 0..MaximumRetry
        /\ row \in 0..(MaximumRetry + 1) /\ bits = {} /\ registered = {}
    BY RetryAssumption DEF W_Init
  <2> QED BY <1>1, <2>1, <2>2 DEF W_TypeOK
<1> QED BY <1>2, <1>3, <1>4 DEF StationInv

LEMMA HeadTailOne ==
  \A a : Head(<<a>>) = a /\ Tail(<<a>>) = <<>> /\ Append(<<>>, a) = <<a>>
OBVIOUS

LEMMA HeadTailTwo ==
  \A a, b : Head(<<a, b>>) = a /\ Tail(<<a, b>>) = <<b>> /\ Append(<<a>>, b) = <<a, b>>
<1> SUFFICES ASSUME NEW a, NEW b
             PROVE  Head(<<a, b>>) = a /\ Tail(<<a, b>>) = <<b>> /\ Append(<<a>>, b) = <<a, b>>
  OBVIOUS
<1> DEFINE S == {a, b}
<1>1. <<a, b>> \in Seq(S) /\ <<a>> \in Seq(S) /\ <<b>> \in Seq(S) /\ a \in S /\ b \in S
  OBVIOUS
<1>2. /\ Len(<<a, b>>) = 2 /\ <<a, b>>[1] = a /\ <<a, b>>[2] = b
      /\ Len(<<a>>) = 1 /\ <<a>>[1] = a /\ Len(<<b>>) = 1 /\ <<b>>[1] = b
  OBVIOUS
<1>3. Tail(<<a, b>>) = <<b>>
  <2>1. <<a, b>> # <<>>
    BY <1>2, EmptySeq
  <2>2. /\ Tail(<<a, b>>) \in Seq(S) /\ Len(Tail(<<a, b>>)) = 1
        /\ Tail(<<a, b>>)[1] = b
    BY <1>1, <1>2, <2>1, HeadTailProperties
  <2>3. \A i \in 1..Len(Tail(<<a, b>>)) : Tail(<<a, b>>)[i] = <<b>>[i]
    BY <1>2, <2>2
  <2> QED BY <1>1, <1>2, <2>2, <2>3, SeqEqual
<1>4. Append(<<a>>, b) = <<a, b>>
  <2>1. Append(<<a>>, b) \in Seq(S) /\ Len(Append(<<a>>, b)) = 2
    BY <1>1, <1>2, AppendProperties
  <2>2. Append(<<a>>, b)[1] = a /\ Append(<<a>>, b)[2] = b
    BY <1>1, <1>2, AppendProperties
  <2>3. \A i \in 1..2 : Append(<<a>>, b)[i] = <<a, b>>[i]
    BY <1>2, <2>2
  <2> QED BY <1>1, <1>2, <2>1, <2>3, SeqEqual
<1> QED BY <1>2, <1>3, <1>4

Kinds == {"START", "DISCONNECTED", "GOT_IP"}
Short == {<<>>, <<"START">>, <<"GOT_IP">>, <<"DISCONNECTED">>, <<"GOT_IP", "DISCONNECTED">>}

LEMMA ShortTyped == \A e \in Short : e \in Seq({"START", "DISCONNECTED", "GOT_IP"})
<1>1. \A a, b \in Kinds : <<>> \in Seq(Kinds) /\ <<a>> \in Seq(Kinds) /\ <<a, b>> \in Seq(Kinds)
  BY EmptySeq
<1>2. "START" \in Kinds /\ "DISCONNECTED" \in Kinds /\ "GOT_IP" \in Kinds
  BY DEF Kinds
<1> QED BY <1>1, <1>2 DEF Short, Kinds

(* What the first of them is, and what is left without it.                 *)
LEMMA ShortHead ==
  ASSUME NEW e \in Short, e # <<>>
  PROVE  \/ e = <<"START">> /\ Head(e) = "START" /\ Tail(e) = <<>>
         \/ e = <<"DISCONNECTED">> /\ Head(e) = "DISCONNECTED" /\ Tail(e) = <<>>
         \/ e = <<"GOT_IP">> /\ Head(e) = "GOT_IP" /\ Tail(e) = <<>>
         \/ e = <<"GOT_IP", "DISCONNECTED">> /\ Head(e) = "GOT_IP" /\ Tail(e) = <<"DISCONNECTED">>
<1>1. CASE e = <<"START">>
  BY <1>1, HeadTailOne
<1>2. CASE e = <<"DISCONNECTED">>
  BY <1>2, HeadTailOne
<1>3. CASE e = <<"GOT_IP">>
  BY <1>3, HeadTailOne
<1>4. CASE e = <<"GOT_IP", "DISCONNECTED">>
  BY <1>4, HeadTailTwo, Zenon
<1> QED BY <1>1, <1>2, <1>3, <1>4 DEF Short

(* The five are different.                                                 *)
LEMMA ShortDiffer ==
  /\ \A a : <<a>> # <<>>
  /\ \A a, b : <<a, b>> # <<>>
  /\ \A a, b : <<a>> = <<b>> => a = b
  /\ \A a, b, c : <<a, b>> # <<c>>
OBVIOUS

(* The events are always one of few sequences.                             *)
LEMMA ShortEvents == ASSUME StationInv PROVE events \in Short
BY DEF StationInv, OnTheWay, W_TypeOK, Short

LEMMA NoneDelivered == ASSUME NEW e, NEW h, Delivers(e, h) PROVE events # <<>> /\ h \in registered
BY DEF Delivers

LEMMA StationStart ==
  ASSUME StationInv, StaStart
  PROVE  StationInv'
<1>1. events = <<>> /\ events' = <<"START">> /\ bits = {}
  BY HeadTailOne DEF StationInv, OnTheWay, Registration, StaStart
<1>2. events' \in Seq({"START", "DISCONNECTED", "GOT_IP"})
  BY <1>1, ShortTyped DEF Short
<1> QED BY <1>1, <1>2, RetryAssumption
  DEF StationInv, OnTheWay, Registration, Rows, GroupIsThere, FailIsEarned, W_TypeOK, StaStart

LEMMA StationWaits ==
  ASSUME StationInv, StaWaited \/ StaUnregisterIp \/ StaUnregisterWifi \/ StaDelete
  PROVE  StationInv'
<1>1. CASE StaWaited
  BY <1>1 DEF StationInv, OnTheWay, Registration, Rows, GroupIsThere, FailIsEarned, W_TypeOK, StaWaited
<1>2. CASE StaUnregisterIp
  BY <1>2 DEF StationInv, OnTheWay, Registration, Rows, GroupIsThere, FailIsEarned, W_TypeOK, StaUnregisterIp
<1>3. CASE StaUnregisterWifi
  BY <1>3 DEF StationInv, OnTheWay, Registration, Rows, GroupIsThere, FailIsEarned, W_TypeOK, StaUnregisterWifi
<1>4. CASE StaDelete
  BY <1>4 DEF StationInv, OnTheWay, Registration, Rows, GroupIsThere, FailIsEarned, W_TypeOK, StaDelete
<1> QED BY <1>1, <1>2, <1>3, <1>4

LEMMA StationHandles ==
  ASSUME StationInv, EventLoop
  PROVE  StationInv'
<1> USE RetryAssumption
<1>0. /\ events \in Short /\ events # <<>> /\ "FAIL" \notin bits
      /\ sta \in {"idle", "up"} /\ (sta = "up" => events = <<"GOT_IP">>)
      /\ events # <<"GOT_IP">> => sta = "idle"
      /\ MaximumRetry \in Nat
  BY ShortEvents
  DEF EventLoop, HandleStart, HandleDisconnected, HandleGotIp, DropEvent, Delivers,
      StationInv, OnTheWay, W_TypeOK
<1>1. CASE HandleStart
  <2>1. events = <<"START">> /\ events' = <<>>
    BY <1>0, <1>1, HeadTailOne, HeadTailTwo DEF HandleStart, Delivers, Short
  <2>2. sta = "idle" /\ sta' = "connecting"
    BY <1>0, <1>1, <2>1 DEF HandleStart, Connect
  <2> QED BY <1>0, <1>1, <2>1, <2>2, ShortTyped
    DEF HandleStart, StationInv, OnTheWay, Registration, Rows, GroupIsThere, FailIsEarned, W_TypeOK, Short
<1>2. CASE HandleDisconnected
  <2>1. events = <<"DISCONNECTED">> /\ events' = <<>> /\ sta = "idle"
    BY <1>0, <1>2, HeadTailOne, HeadTailTwo DEF HandleDisconnected, Delivers, Short
  <2>2. "wifi" \in registered /\ wpc \notin {"off", "delete", "over"}
    BY <1>2 DEF HandleDisconnected, Delivers, StationInv, Registration
  <2>3. events' \in Seq({"START", "DISCONNECTED", "GOT_IP"})
    BY <2>1, ShortTyped DEF Short
  <2>4. CASE s_retry_num < MaximumRetry
    <3>1. row = s_retry_num /\ row' = row + 1 /\ s_retry_num' = s_retry_num + 1
          /\ sta' = "connecting" /\ bits' = bits /\ stale' = stale
      BY <1>2, <2>1, <2>4 DEF HandleDisconnected, Connect, StationInv, Rows
    <3>2. UNCHANGED <<wpc, registered>>
      BY <1>2 DEF HandleDisconnected
    <3>3. OnTheWay' /\ FailIsEarned' /\ GroupIsThere'
      BY <1>0, <2>1, <3>1 DEF OnTheWay, FailIsEarned, StationInv, GroupIsThere
    <3>4. Registration'
      BY <2>2, <3>2 DEF Registration, StationInv
    <3>5. Rows'
      BY <1>0, <2>4, <3>1 DEF Rows, StationInv, W_TypeOK
    <3>6. W_TypeOK'
      BY <1>0, <2>3, <2>4, <3>1, <3>2, <3>5 DEF StationInv, Rows, W_TypeOK
    <3> QED BY <3>3, <3>4, <3>5, <3>6 DEF StationInv
  <2>5. CASE ~(s_retry_num < MaximumRetry)
    <3>1. /\ s_retry_num = MaximumRetry /\ s_retry_num' = s_retry_num /\ row' = MaximumRetry + 1
          /\ sta' = "idle" /\ bits' = bits \cup {"FAIL"}
      BY <1>0, <1>2, <2>1, <2>5 DEF HandleDisconnected, SetBit, StationInv, Rows
    <3>2. ~stale'
      BY <1>2, <2>2, <2>5 DEF HandleDisconnected, SetBit, StationInv, GroupIsThere
    <3>3. UNCHANGED <<wpc, registered>>
      BY <1>2 DEF HandleDisconnected
    <3>4. OnTheWay' /\ FailIsEarned' /\ GroupIsThere'
      BY <2>1, <3>1, <3>2 DEF OnTheWay, FailIsEarned, GroupIsThere
    <3>5. Registration'
      BY <2>2, <3>3 DEF Registration, StationInv
    <3>6. Rows'
      BY <1>0, <3>1 DEF Rows
    <3>7. W_TypeOK'
      <4>1. stale' \in BOOLEAN
        BY <1>2, <2>5 DEF HandleDisconnected, SetBit
      <4> QED BY <1>0, <2>3, <3>1, <3>3, <4>1 DEF StationInv, W_TypeOK
    <3> QED BY <3>4, <3>5, <3>6, <3>7 DEF StationInv
  <2> QED BY <2>4, <2>5
<1>3. CASE HandleGotIp
  <2>1. /\ \/ events = <<"GOT_IP">> /\ events' = <<>>
           \/ events = <<"GOT_IP", "DISCONNECTED">> /\ events' = <<"DISCONNECTED">>
        /\ events' \in Short
    <3>1. Head(events) = "GOT_IP" /\ events' = Tail(events)
      BY <1>3 DEF HandleGotIp, Delivers
    <3>2. \/ events = <<"GOT_IP">> /\ events' = <<>>
          \/ events = <<"GOT_IP", "DISCONNECTED">> /\ events' = <<"DISCONNECTED">>
      BY <1>0, <3>1, ShortHead
    <3> QED BY <3>2 DEF Short
  <2>2. "ip" \in registered /\ wpc \notin {"off", "unregisterWifi", "delete", "over"}
    BY <1>3 DEF HandleGotIp, Delivers, StationInv, Registration
  <2>3. ~stale' /\ bits' = bits \cup {"CONNECTED"}
    BY <1>3, <2>2 DEF HandleGotIp, SetBit, StationInv, GroupIsThere
  <2>4. /\ s_retry_num' = 0 /\ row' = 0 /\ UNCHANGED <<wpc, sta, registered>>
        /\ stale' \in BOOLEAN
    BY <1>3 DEF HandleGotIp, SetBit
  <2>5. OnTheWay'
    BY <1>0, <2>1, <2>3, <2>4, ShortDiffer DEF OnTheWay, StationInv
  <2>6. Registration'
    BY <2>2, <2>4 DEF Registration, StationInv
  <2>7. Rows' /\ GroupIsThere' /\ FailIsEarned'
    BY <1>0, <2>3, <2>4 DEF Rows, GroupIsThere, FailIsEarned
  <2>8. W_TypeOK'
    BY <1>0, <2>1, <2>3, <2>4, ShortTyped DEF StationInv, W_TypeOK
  <2> QED BY <2>5, <2>6, <2>7, <2>8 DEF StationInv
<1>4. CASE DropEvent
  <2>1. /\ events' \in Short
        /\ sta = "up" => events' = <<>>
        /\ sta = "idle" => events' \in {<<>>, <<"DISCONNECTED">>}
    <3>1. events' = Tail(events) /\ sta' = sta
      BY <1>4 DEF DropEvent
    <3>2. events' \in {<<>>, <<"DISCONNECTED">>}
      BY <1>0, <3>1, ShortHead
    <3>3. sta = "up" => events' = <<>>
      BY <1>0, <3>1, HeadTailOne
    <3> QED BY <3>2, <3>3 DEF Short
  <2> QED BY <1>0, <1>4, <2>1, ShortTyped
    DEF DropEvent, StationInv, OnTheWay, Registration, Rows, GroupIsThere, FailIsEarned, W_TypeOK
<1> QED BY <1>1, <1>2, <1>3, <1>4 DEF EventLoop

LEMMA StationDriver ==
  ASSUME StationInv, AttemptEnds \/ GetsAddress \/ LinkBreaks
  PROVE  StationInv'
<1> USE RetryAssumption
<1>1. CASE AttemptEnds
  <2>1. /\ sta = "connecting" /\ events = <<>> /\ "FAIL" \notin bits
        /\ \/ sta' = "associated" /\ events' = <<>>
           \/ sta' = "idle" /\ events' = <<"DISCONNECTED">>
    BY <1>1, HeadTailOne DEF AttemptEnds, StationInv, OnTheWay
  <2>2. events' \in Short
    BY <2>1 DEF Short
  <2> QED BY <1>1, <2>1, <2>2, ShortTyped
    DEF AttemptEnds, StationInv, OnTheWay, Registration, Rows, GroupIsThere, FailIsEarned, W_TypeOK
<1>2. CASE GetsAddress
  <2>1. sta = "associated" /\ "FAIL" \notin bits /\ sta' = "up" /\ events' = <<"GOT_IP">>
    BY <1>2, HeadTailOne DEF GetsAddress, StationInv, OnTheWay
  <2>2. events' \in Short
    BY <2>1 DEF Short
  <2> QED BY <1>2, <2>1, <2>2, ShortTyped
    DEF GetsAddress, StationInv, OnTheWay, Registration, Rows, GroupIsThere, FailIsEarned, W_TypeOK
<1>3. CASE LinkBreaks
  <2>1. /\ sta \in {"associated", "up"} /\ sta' = "idle" /\ "FAIL" \notin bits
        /\ events' \in {<<"DISCONNECTED">>, <<"GOT_IP", "DISCONNECTED">>}
    BY <1>3, HeadTailOne, HeadTailTwo DEF LinkBreaks, StationInv, OnTheWay
  <2>2. events' \in Short
    BY <2>1 DEF Short
  <2> QED BY <1>3, <2>1, <2>2, ShortTyped
    DEF LinkBreaks, StationInv, OnTheWay, Registration, Rows, GroupIsThere, FailIsEarned, W_TypeOK
<1> QED BY <1>1, <1>2, <1>3

LEMMA StationStep ==
  ASSUME StationInv, [Next]_vars
  PROVE  StationInv'
<1>1. CASE MainInWifi
  BY <1>1, StationStart, StationWaits DEF MainInWifi, wifi_init_sta
<1>2. CASE Loop
  BY <1>2, StationHandles DEF Loop
<1>3. CASE Driver \/ Dhcp \/ Link
  BY <1>3, StationDriver DEF Driver, Dhcp, Link
<1>4. CASE Panic
  BY <1>4, RetryAssumption, EmptySeq
  DEF Panic, W_Restart, StationInv, OnTheWay, Registration, Rows, GroupIsThere, FailIsEarned, W_TypeOK
<1>5. CASE UNCHANGED wifiVars
  BY <1>5 DEF wifiVars, StationInv, OnTheWay, Registration, Rows, GroupIsThere, FailIsEarned, W_TypeOK
<1> QED
  BY <1>1, <1>2, <1>3, <1>4, <1>5
  DEF Next, vars, AppMain, ConnectBle, ConnectMqtt, LabWifi, LabBle, Host, Phone, Broker, Web

(* The inductive invariant of wifi_init_sta and its handler: the events on*)
(* the way, what is registered and the two rows of BITs agree with each   *)
(* other in every state of every interleaving.                            *)
THEOREM StationInvariant == Spec => []StationInv
<1>1. Init => StationInv
  BY StationInit DEF Init
<1> QED BY <1>1, StationStep, PTL DEF Spec

(* No bit of the deleted group is ever set, for every number of retries.   *)
THEOREM GroupIsThereAlways == Spec => []GroupIsThere
BY StationInvariant, PTL DEF StationInv

(* wifi_init_sta gives up for MaximumRetry + 1 failures in a row alone.    *)
THEOREM FailIsEarnedAlways == Spec => []FailIsEarned
BY StationInvariant, PTL DEF StationInv
-----------------------------------------------------------------------------
(* The BLE server.                                                         *)

BleInv ==
  /\ B_TypeOK
  /\ ReachableOnce
  /\ app \in App /\ main \in {"start", "wifi", "last", "over"}
  /\ gap \in {"off", "syncing", "advertising"} => ~served
  /\ gap = "connected" => served
  /\ kept + arrived <= writes
  /\ app = "BLE-Connect" /\ main = "over" => mqtt # "NULL"
  /\ app = "BLE-Connect" /\ main = "start" => gap = "off"
  /\ app = "LAB" /\ main # "over" => gap = "off"
  /\ app = "server" => gap = "off"
  /\ app # "server" /\ main = "over" => wpc = "over"
  /\ main = "last" => wpc = "over"
  /\ app = "server" => main = "start"

LEMMA BleInit == Init => BleInv
<1>1. SUFFICES ASSUME Init PROVE BleInv
  OBVIOUS
<1>2. served \in BOOLEAN /\ subscribed \in BOOLEAN /\ smashed \in BOOLEAN
  BY <1>1, Zenon DEF Init, B_Init
<1>3. B_TypeOK
  BY <1>1, <1>2, BleAssumption DEF Init, B_Init, B_TypeOK
<1> QED BY <1>1, <1>3 DEF Init, B_Init, W_Init, BleInv, ReachableOnce, App

LEMMA BleStep ==
  ASSUME BleInv, [Next]_vars
  PROVE  BleInv'
<1> USE BleAssumption
<1>1. CASE ConnectBle
  BY <1>1 DEF ConnectBle, BLE_start, wifiVars, BleInv, B_TypeOK, ReachableOnce
<1>2. CASE ConnectMqtt
  BY <1>2 DEF ConnectMqtt, mqtt_app_start, wifiVars, BleInv, B_TypeOK, ReachableOnce
<1>3. CASE LabWifi
  BY <1>3 DEF LabWifi, wifiVars, bleVars, BleInv, B_TypeOK, ReachableOnce
<1>4. CASE LabBle
  BY <1>4 DEF LabBle, BLE_start, wifiVars, BleInv, B_TypeOK, ReachableOnce
<1>5. CASE MainInWifi
  BY <1>5 DEF MainInWifi, bleVars, BleInv, B_TypeOK, ReachableOnce
<1>6. CASE Loop \/ Driver \/ Dhcp \/ Link
  <2>1. UNCHANGED <<wpc, bleVars, app, main>>
    BY <1>6 DEF Loop, EventLoop, HandleStart, HandleDisconnected, HandleGotIp, DropEvent,
                Driver, AttemptEnds, Dhcp, GetsAddress, Link, LinkBreaks
  <2> QED BY <2>1 DEF bleVars, BleInv, B_TypeOK, ReachableOnce
<1>7. CASE Host
  BY <1>7 DEF Host, ble_app_on_sync, wifiVars, BleInv, B_TypeOK, ReachableOnce
<1>8. CASE Phone
  <2>1. UNCHANGED <<wpc, app, main>>
    BY <1>8 DEF Phone, wifiVars
  <2>2. CASE \E ok \in BOOLEAN : GapConnect(ok)
    <3>1. PICK ok \in BOOLEAN : GapConnect(ok)
      BY <2>2
    <3>2. CASE ok
      BY <2>1, <3>1, <3>2 DEF GapConnect, BleInv, B_TypeOK, ReachableOnce
    <3>3. CASE ~ok
      BY <2>1, <3>1, <3>3 DEF GapConnect, BleInv, B_TypeOK, ReachableOnce
    <3> QED BY <3>2, <3>3
  <2>3. CASE GapDisconnect
    BY <2>1, <2>3 DEF GapDisconnect, BleInv, B_TypeOK, ReachableOnce
  <2>4. CASE device_write
    <3>1. PICK len \in 1..MaxLen : smashed' = (smashed \/ len >= CopySize)
      BY <2>4 DEF device_write
    <3>2. smashed' \in BOOLEAN
      BY <3>1
    <3>3. /\ writes' = writes + 1 /\ writes' \in 0..MaxWrite
          /\ kept' \in {kept, kept + 1} /\ kept' + arrived <= writes'
          /\ UNCHANGED <<gap, served, mqtt, subscribed, arrived, controls>>
      BY <2>4 DEF device_write, BleInv, B_TypeOK
    <3>4. kept' \in 0..MaxWrite
      BY <3>3 DEF BleInv, B_TypeOK
    <3> QED BY <2>1, <3>2, <3>3, <3>4 DEF BleInv, B_TypeOK, ReachableOnce
  <2> QED BY <1>8, <2>2, <2>3, <2>4 DEF Phone
<1>9. CASE Broker
  <2>1. /\ UNCHANGED <<gap, served, smashed, writes, controls, wpc, app, main>>
        /\ mqtt' \in {"trying", "up"} /\ mqtt # "NULL" /\ subscribed' \in BOOLEAN
    BY <1>9 DEF Broker, MqttConnected, MqttDisconnected, Arrives, Expires, wifiVars, BleInv, B_TypeOK
  <2>2. /\ kept' \in 0..MaxWrite /\ arrived' \in 0..MaxWrite
        /\ kept' + arrived' <= writes'
    BY <1>9 DEF Broker, MqttConnected, MqttDisconnected, Arrives, Expires, BleInv, B_TypeOK
  <2> QED BY <2>1, <2>2 DEF BleInv, B_TypeOK, ReachableOnce
<1>10. CASE Panic
  <2>1. B_Restart /\ main' = "start" /\ app' = app /\ UNCHANGED <<arrived, writes>>
    BY <1>10 DEF Panic, MqttData, StackFails
  <2>2. controls' \in 0..MaxControl
    BY <1>10 DEF Panic, MqttData, StackFails, BleInv, B_TypeOK
  <2>3. ~served' /\ served' \in BOOLEAN /\ subscribed' \in BOOLEAN /\ smashed' \in BOOLEAN
    BY <2>1, Zenon DEF B_Restart
  <2>4. gap' = "off" /\ mqtt' = "NULL" /\ kept' = 0
    BY <2>1 DEF B_Restart
  <2> QED BY <2>1, <2>2, <2>3, <2>4 DEF BleInv, B_TypeOK, ReachableOnce
<1>11. CASE Web \/ UNCHANGED vars
  BY <1>11 DEF Web, vars, wifiVars, bleVars, BleInv, B_TypeOK, ReachableOnce
<1> QED
  BY <1>1, <1>2, <1>3, <1>4, <1>5, <1>6, <1>7, <1>8, <1>9, <1>10, <1>11 DEF Next, AppMain

(* The inductive invariant of BLE_app.c: the GAP server is reachable or   *)
(* has already served, and a client exists once app_main is over.         *)
THEOREM BleInvariant == Spec => []BleInv
BY BleInit, BleStep, PTL DEF Spec

(* A node can be reached until a phone has been connected, however many    *)
(* connections fail, and never after that connection has ended.            *)
THEOREM ReachableOnceAlways == Spec => []ReachableOnce
BY BleInvariant, PTL DEF BleInv

(* Once app_main is past the wait a broken link stays broken.              *)
THEOREM StaysBrokenAlways == Spec => StaysBroken
<1>1. ASSUME StationInv, BleInv, [Next]_vars, main = "over", sta = "idle"
      PROVE  sta' \in {"idle", "off"}
  <2>1. registered = {}
    BY <1>1 DEF StationInv, Registration, BleInv, App
  <2>2. CASE Loop
    BY <1>1, <2>1, <2>2
    DEF Loop, EventLoop, HandleStart, HandleDisconnected, HandleGotIp, DropEvent, Delivers
  <2>3. CASE Driver \/ Dhcp \/ Link
    BY <1>1, <2>3 DEF Driver, AttemptEnds, Dhcp, GetsAddress, Link, LinkBreaks
  <2>4. CASE Panic
    BY <2>4 DEF Panic, W_Restart
  <2>5. CASE sta' = sta
    BY <1>1, <2>5
  <2> QED
    BY <1>1, <2>2, <2>3, <2>4, <2>5
    DEF Next, vars, wifiVars, AppMain, ConnectBle, ConnectMqtt, LabWifi, LabBle, MainInWifi, Host,
        Phone, Broker, Web
<1>2. StationInv /\ BleInv /\ [Next]_vars => [main = "over" /\ sta = "idle" => sta' \in {"idle", "off"}]_vars
  BY <1>1
<1> QED BY <1>2, StationInvariant, BleInvariant, PTL DEF Spec, StaysBroken

(* A node that is cut off stays so until its next restart, and until then  *)
(* nothing gets from it to the broker: the station is nobody's to connect, *)
(* and without an address the client is not connected either.              *)
THEOREM CutForGoodAlways == Spec => CutForGood
<1>1. ASSUME StationInv, BleInv, [Next]_vars, Cut
      PROVE  (Cut' /\ arrived' = arrived) \/ main' = "start"
  <2>1. registered = {}
    BY <1>1 DEF StationInv, Registration, BleInv, App, Cut
  <2>2. CASE Loop
    BY <1>1, <2>1, <2>2
    DEF Cut, Loop, EventLoop, HandleStart, HandleDisconnected, HandleGotIp, DropEvent, Delivers, bleVars
  <2>3. CASE Driver \/ Dhcp \/ Link
    BY <1>1, <2>3 DEF Cut, Driver, AttemptEnds, Dhcp, GetsAddress, Link, LinkBreaks
  <2>4. CASE Panic
    BY <2>4 DEF Panic
  <2>5. CASE Broker
    BY <1>1, <2>5 DEF Cut, Broker, MqttConnected, MqttDisconnected, Arrives, Expires, wifiVars
  <2>6. CASE Host \/ Phone
    BY <1>1, <2>6
    DEF Cut, Host, Phone, ble_app_on_sync, GapConnect, GapDisconnect, device_write, wifiVars
  <2>7. CASE AppMain
    BY <1>1, <2>7 DEF Cut, AppMain, ConnectBle, ConnectMqtt, LabWifi, LabBle, MainInWifi
  <2>8. CASE Web \/ UNCHANGED vars
    BY <1>1, <2>8 DEF Cut, Web, vars, wifiVars, bleVars
  <2> QED BY <1>1, <2>2, <2>3, <2>4, <2>5, <2>6, <2>7, <2>8 DEF Next
<1>2. StationInv /\ BleInv /\ [Next]_vars
        => [Cut => (Cut' /\ arrived' = arrived) \/ main' = "start"]_vars
  BY <1>1
<1> QED BY <1>2, StationInvariant, BleInvariant, PTL DEF Spec, CutForGood

-----------------------------------------------------------------------------
(* The POST handlers.                                                      *)

PostInv ==
  /\ H_TypeOK
  /\ EchoWhole
  /\ echoed + remaining = content_len

LEMMA PostInit == Init => PostInv
BY PostAssumption DEF Init, H_Init, PostInv, H_TypeOK, EchoWhole

LEMMA PostStep ==
  ASSUME PostInv, [Next]_vars
  PROVE  PostInv'
<1> USE PostAssumption
<1>0. content_len \in Nat /\ remaining \in Nat /\ echoed \in Nat /\ content_len <= MaxBody
  BY DEF PostInv, H_TypeOK
<1>1. ASSUME NEW h \in Handler, NEW n \in 0..MaxBody, Request(h, n)
      PROVE  PostInv'
  <2>1. handler' = h /\ content_len' = n /\ remaining' = n /\ echoed' = 0 /\ h # "done"
    BY <1>1 DEF Request, Handler
  <2> QED BY <1>0, <2>1 DEF PostInv, H_TypeOK, EchoWhole
<1>2. CASE PostEcho \/ PostSwitch \/ PostWifi \/ PostSlider
  BY <1>1, <1>2 DEF PostEcho, PostSwitch, PostWifi, PostSlider, Handler
<1>3. CASE Piece
  <2>1. PICK ret \in 1..Least(remaining, BufLen) :
          remaining' = remaining - ret /\ echoed' = echoed + ret
    BY <1>3 DEF Piece
  <2>2. ret \in Nat /\ ret > 0 /\ ret <= remaining
    BY <1>0, <2>1 DEF Least
  <2>3. handler' = handler /\ content_len' = content_len /\ handler # "done"
    BY <1>3 DEF Piece, Handler
  <2>4. H_TypeOK'
    BY <1>0, <2>1, <2>2, <2>3 DEF PostInv, H_TypeOK
  <2> QED BY <1>0, <2>1, <2>2, <2>3, <2>4 DEF PostInv, EchoWhole
<1>4. CASE PieceError
  BY <1>0, <1>4 DEF PieceError, PostInv, H_TypeOK, EchoWhole
<1>5. CASE PostEnd
  BY <1>0, <1>5 DEF PostEnd, PostInv, H_TypeOK, EchoWhole
<1>6. CASE UNCHANGED postVars
  BY <1>6 DEF postVars, PostInv, H_TypeOK, EchoWhole
<1> QED
  BY <1>2, <1>3, <1>4, <1>5, <1>6
  DEF Next, vars, AppMain, ConnectBle, ConnectMqtt, LabWifi, LabBle, MainInWifi, Loop, Driver, Link,
      Dhcp, Host, Phone, Broker, Panic, Web

(* The inductive invariant of the POST handlers: what was read and what is*)
(* left always make up the declared length of the body.                   *)
THEOREM PostInvariant == Spec => []PostInv
BY PostInit, PostStep, PTL DEF Spec

(* A request that ended well has sent back what came, for every buffer.    *)
THEOREM EchoWholeAlways == Spec => []EchoWhole
BY PostInvariant, PTL DEF PostInv

(* The types of the whole node.                                            *)
THEOREM ConnectTypes == Spec => []TypeOK
<1>1. StationInv /\ BleInv /\ PostInv => TypeOK
  BY DEF StationInv, BleInv, PostInv, TypeOK
<1> QED BY <1>1, StationInvariant, BleInvariant, PostInvariant, PTL

=============================================================================
