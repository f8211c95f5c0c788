------------------------- MODULE GatewayBringup_proofs -------------------------
(***************************************************************************)
(* The theorems about the gateway's start, for every set of networks and   *)
(* credentials and every number of drops, phones, power cycles, failures   *)
(* and refusals.                                                           *)
(***************************************************************************)
EXTENDS GatewayBringup, TLAPS

-----------------------------------------------------------------------------
(* The event loop's queue.                                                 *)

(* What an event is, by its kind.                                          *)
LEMMA Events ==
  /\ \A k \in {"START", "DISCONNECTED", "GOT_IP", "SEND_ACK_DONE"} :
       Ev(k) \in Event /\ Ev(k).kind = k
  /\ \A c \in Offer : LET e == [kind |-> "GOT_SSID_PSWD", pair |-> c] IN
       e \in Event /\ e.kind = "GOT_SSID_PSWD"
  /\ \A e \in Event : e.kind = "GOT_SSID_PSWD" => e.pair \in Offer
<1>1. ASSUME NEW k \in {"START", "DISCONNECTED", "GOT_IP", "SEND_ACK_DONE"}
      PROVE  Ev(k) \in Event /\ Ev(k).kind = k
  BY DEF Event, Ev
<1>2. ASSUME NEW c \in Offer
      PROVE  /\ [kind |-> "GOT_SSID_PSWD", pair |-> c] \in Event
             /\ [kind |-> "GOT_SSID_PSWD", pair |-> c].kind = "GOT_SSID_PSWD"
  BY DEF Event
<1>3. ASSUME NEW e \in Event, e.kind = "GOT_SSID_PSWD" PROVE e.pair \in Offer
  <2>1. CASE e \in {[kind |-> k] : k \in {"START", "DISCONNECTED", "GOT_IP", "SEND_ACK_DONE"}}
    BY <1>3, <2>1
  <2>2. CASE e \in {[kind |-> "GOT_SSID_PSWD", pair |-> c] : c \in Offer}
    BY <2>2
  <2>3. QED BY <2>1, <2>2 DEF Event
<1>4. QED BY <1>1, <1>2, <1>3

(* An event put behind a queue.                                            *)
LEMMA Appended ==
  ASSUME NEW q \in Seq(Event), NEW e \in Event
  PROVE  /\ Append(q, e) \in Seq(Event)
         /\ \A k : Queued(Append(q, e), k) <=> Queued(q, k) \/ e.kind = k
         /\ \A k : OnlyInFront(q, k) /\ (e.kind # k \/ q = <<>>) => OnlyInFront(Append(q, e), k)
         /\ \A k, j : EachAfter(q, k, j) /\ (e.kind # k \/ Queued(q, j))
                        => EachAfter(Append(q, e), k, j)
         /\ \A k, j : EachBefore(q, k, j) /\ e.kind # k => EachBefore(Append(q, e), k, j)
         /\ \A k, j : e.kind = j /\ j # k => EachBefore(Append(q, e), k, j)
<1> DEFINE n == Len(q)  r == Append(q, e)
<1>1. /\ n \in Nat /\ DOMAIN q = 1..n /\ DOMAIN r = 1..(n + 1)
      /\ \A i \in 1..n : r[i] = q[i]
      /\ r[n + 1] = e
      /\ r \in Seq(Event)
      /\ q = <<>> => n = 0
  OBVIOUS
<1> HIDE DEF n, r
<1>2. ASSUME NEW k PROVE Queued(r, k) <=> Queued(q, k) \/ e.kind = k
  BY <1>1 DEF Queued
<1>3. ASSUME NEW k, OnlyInFront(q, k), e.kind # k \/ q = <<>> PROVE OnlyInFront(r, k)
  BY <1>1, <1>3 DEF OnlyInFront
<1>4. ASSUME NEW k, NEW j, EachAfter(q, k, j), e.kind # k \/ Queued(q, j)
      PROVE  EachAfter(r, k, j)
  BY <1>1, <1>4 DEF EachAfter, Queued
<1>5. ASSUME NEW k, NEW j, EachBefore(q, k, j), e.kind # k PROVE EachBefore(r, k, j)
  BY <1>1, <1>5 DEF EachBefore
<1>6. ASSUME NEW k, NEW j, e.kind = j, j # k PROVE EachBefore(r, k, j)
  <2> SUFFICES ASSUME NEW i \in DOMAIN r, r[i].kind = k
               PROVE  \E m \in DOMAIN r : m > i /\ r[m].kind = j
    BY DEF EachBefore
  <2>1. i # n + 1 BY <1>1, <1>6
  <2>2. QED BY <1>1, <1>6, <2>1
<1>7. QED BY <1>1, <1>2, <1>3, <1>4, <1>5, <1>6 DEF r

(* The event at the head of a queue taken.                                 *)
LEMMA Taken ==
  ASSUME NEW q \in Seq(Event), q # <<>>
  PROVE  /\ Tail(q) \in Seq(Event) /\ Head(q) \in Event
         /\ \A k : Queued(q, k) <=> Head(q).kind = k \/ Queued(Tail(q), k)
         /\ \A k : OnlyInFront(q, k) => ~Queued(Tail(q), k) /\ OnlyInFront(Tail(q), k)
         /\ \A k, j : EachAfter(q, k, j) /\ Head(q).kind # j => EachAfter(Tail(q), k, j)
         /\ \A k, j : EachAfter(q, k, j) => Head(q).kind # k
         /\ \A k, j : EachBefore(q, k, j) => EachBefore(Tail(q), k, j)
         /\ \A k, j : EachBefore(q, k, j) /\ Head(q).kind = k => Queued(Tail(q), j)
<1> DEFINE n == Len(q)  r == Tail(q)
<1>1. /\ n \in Nat /\ n > 0 /\ DOMAIN q = 1..n /\ DOMAIN r = 1..(n - 1)
      /\ \A i \in 1..(n - 1) : r[i] = q[i + 1]
      /\ Head(q) = q[1] /\ q[1] \in Event
      /\ r \in Seq(Event)
  OBVIOUS
<1> HIDE DEF n, r
<1>2. \A i \in 1..n : i = 1 \/ (i - 1 \in 1..(n - 1) /\ q[i] = r[i - 1])
  BY <1>1
<1>3. ASSUME NEW k PROVE Queued(q, k) <=> q[1].kind = k \/ Queued(r, k)
  <2>1. Queued(q, k) => q[1].kind = k \/ Queued(r, k) BY <1>1, <1>2 DEF Queued
  <2>2. q[1].kind = k => Queued(q, k) BY <1>1 DEF Queued
  <2>3. Queued(r, k) => Queued(q, k)
    <3> SUFFICES ASSUME NEW i \in 1..(n - 1), r[i].kind = k PROVE Queued(q, k)
      BY <1>1 DEF Queued
    <3>1. i + 1 \in 1..n /\ q[i + 1].kind = k BY <1>1
    <3>2. QED BY <1>1, <3>1 DEF Queued
  <2>4. QED BY <2>1, <2>2, <2>3
<1>4. ASSUME NEW k, OnlyInFront(q, k) PROVE ~Queued(r, k) /\ OnlyInFront(r, k)
  <2>1. ASSUME NEW i \in 1..(n - 1) PROVE r[i].kind # k
    <3>1. i + 1 \in 1..n /\ i + 1 # 1 BY <1>1
    <3>2. QED BY <1>1, <1>4, <3>1 DEF OnlyInFront
  <2>2. QED BY <1>1, <2>1 DEF Queued, OnlyInFront
<1>5. ASSUME NEW k, NEW j, EachAfter(q, k, j), q[1].kind # j PROVE EachAfter(r, k, j)
  <2> SUFFICES ASSUME NEW i \in 1..(n - 1), r[i].kind = k
               PROVE  \E m \in 1..(n - 1) : m < i /\ r[m].kind = j
    BY <1>1 DEF EachAfter
  <2>1. i + 1 \in 1..n /\ q[i + 1].kind = k BY <1>1
  <2>2. PICK m \in 1..n : m < i + 1 /\ q[m].kind = j BY <1>1, <1>5, <2>1 DEF EachAfter
  <2>3. m - 1 \in 1..(n - 1) /\ m - 1 < i /\ r[m - 1].kind = j BY <1>2, <1>5, <2>2
  <2>4. QED BY <2>3
<1>6. ASSUME NEW k, NEW j, EachAfter(q, k, j) PROVE q[1].kind # k
  BY <1>1, <1>6 DEF EachAfter
<1>7. ASSUME NEW k, NEW j, EachBefore(q, k, j)
      PROVE  EachBefore(r, k, j) /\ (q[1].kind = k => Queued(r, j))
  <2>1. ASSUME NEW i \in 1..n, q[i].kind = k
        PROVE  \E m \in 1..(n - 1) : m > i - 1 /\ r[m].kind = j
    <3>1. PICK m \in 1..n : m > i /\ q[m].kind = j BY <1>1, <1>7, <2>1 DEF EachBefore
    <3>2. m - 1 \in 1..(n - 1) /\ m - 1 > i - 1 /\ r[m - 1].kind = j BY <1>2, <3>1
    <3>3. QED BY <3>2
  <2>2. EachBefore(r, k, j)
    <3> SUFFICES ASSUME NEW i \in 1..(n - 1), r[i].kind = k
                 PROVE  \E m \in 1..(n - 1) : m > i /\ r[m].kind = j
      BY <1>1 DEF EachBefore
    <3>1. i + 1 \in 1..n /\ q[i + 1].kind = k BY <1>1
    <3>2. \E m \in 1..(n - 1) : m > (i + 1) - 1 /\ r[m].kind = j BY <2>1, <3>1
    <3>3. QED BY <3>2
  <2>3. ASSUME q[1].kind = k PROVE Queued(r, j)
    <3>1. 1 \in 1..n BY <1>1
    <3>2. QED BY <1>1, <2>1, <2>3, <3>1 DEF Queued
  <2>4. QED BY <2>2, <2>3
<1>8. QED BY <1>1, <1>3, <1>4, <1>5, <1>6, <1>7 DEF r

(* An empty queue.                                                         *)
LEMMA Empty ==
  /\ <<>> \in Seq(Event)
  /\ \A k : ~Queued(<<>>, k) /\ OnlyInFront(<<>>, k)
  /\ \A k, j : EachAfter(<<>>, k, j) /\ EachBefore(<<>>, k, j)
BY DEF Queued, OnlyInFront, EachAfter, EachBefore

(* What becomes of the queue when a step puts an event behind it.          *)
LEMMA Arrives ==
  ASSUME TypeOK, NEW e \in Event, events' = Append(events, e)
  PROVE  /\ events' \in Seq(Event)
         /\ \A k : Queued(events', k) <=> Queued(events, k) \/ e.kind = k
         /\ \A k : OnlyInFront(events, k) /\ (e.kind # k \/ events = <<>>) => OnlyInFront(events', k)
         /\ \A k, j : EachAfter(events, k, j) /\ (e.kind # k \/ Queued(events, j))
                        => EachAfter(events', k, j)
         /\ \A k, j : EachBefore(events, k, j) /\ e.kind # k => EachBefore(events', k, j)
         /\ \A k, j : e.kind = j /\ j # k => EachBefore(events', k, j)
BY Appended DEF TypeOK

(* What becomes of it when event_handler takes one.                        *)
LEMMA Handled ==
  ASSUME TypeOK, NEW h, Handle(h)
  PROVE  /\ epc = "idle"
         /\ events' \in Seq(Event) /\ Head(events) \in Event /\ Head(events).kind = h
         /\ \A k : Queued(events, k) <=> h = k \/ Queued(events', k)
         /\ \A k : OnlyInFront(events, k) => ~Queued(events', k) /\ OnlyInFront(events', k)
         /\ \A k, j : EachAfter(events, k, j) /\ h # j => EachAfter(events', k, j)
         /\ \A k, j : EachAfter(events, k, j) => h # k
         /\ \A k, j : EachBefore(events, k, j) => EachBefore(events', k, j)
         /\ \A k, j : EachBefore(events, k, j) /\ h = k => Queued(events', j)
BY Taken DEF TypeOK, Handle

-----------------------------------------------------------------------------
(* Types.                                                                  *)

(* Nothing, and every pair a phone may send, are credentials.              *)
LEMMA Pairs == NoPair \in Credentials /\ Offer \subseteq Credentials
BY BringupAssumption DEF NoPair, Pair, Credentials, Word

(* The first start has the types.                                          *)
LEMMA InitType == Init => TypeOK
<1> SUFFICES ASSUME Init PROVE TypeOK
  OBVIOUS
<1>1. /\ app \in {"off", "read", "ready"}
      /\ events \in Seq(Event) /\ epc \in {"idle", "password", "commit", "apply"}
      /\ got \in Credentials /\ cfg \in Credentials /\ nvs \in Credentials /\ flash \in Credentials
  BY Pairs, Empty DEF Init
<1>2. /\ bits \subseteq {"CONNECTED", "DONE"} /\ uxBits \subseteq {"CONNECTED", "DONE"}
      /\ trouble \subseteq {"unsaved", "torn"}
  BY DEF Init
<1>3. bt \in BOOLEAN /\ subscribed \in BOOLEAN /\ failed \in BOOLEAN /\ unheard \in BOOLEAN
  BY DEF Init
<1>4. /\ ips \in 0..2 /\ drops \in 0..MaxDrop /\ phones \in 0..MaxPhone
      /\ crashes \in 0..MaxCrash /\ faults \in 0..MaxFault /\ refusals \in 0..MaxBroker
  BY BringupAssumption DEF Init
<1>5. QED BY <1>1, <1>2, <1>3, <1>4 DEF Init, TypeOK

(* A restart keeps them.                                                   *)
LEMMA RestartType ==
  ASSUME TypeOK, Restart, crashes' \in 0..MaxCrash, faults' \in 0..MaxFault,
         UNCHANGED <<drops, phones, refusals>>
  PROVE  TypeOK'
<1>1. nvs' \in Credentials /\ flash' \in Credentials
  BY DEF TypeOK, Restart, Credentials, Pair
<1>2. trouble' \subseteq {"unsaved", "torn"} BY DEF TypeOK, Restart
<1>3. /\ events' \in Seq(Event) /\ got' \in Credentials /\ cfg' \in Credentials
      /\ bits' \subseteq {"CONNECTED", "DONE"} /\ uxBits' \subseteq {"CONNECTED", "DONE"}
      /\ app' \in {"off", "read", "ready"} /\ epc' \in {"idle", "password", "commit", "apply"}
  BY Pairs, Empty DEF Restart, FreshRam
<1>4. bt' \in BOOLEAN /\ subscribed' \in BOOLEAN /\ failed' \in BOOLEAN /\ unheard' \in BOOLEAN
  BY DEF Restart, FreshRam
<1>5. ips' \in 0..2 BY DEF Restart, FreshRam
<1>6. QED BY <1>1, <1>2, <1>3, <1>4, <1>5 DEF TypeOK, Restart, FreshRam

(* What one call that fails, a bit that is set, a wait and a connect leave.*)
LEMMA Parts ==
  ASSUME TypeOK
  PROVE  /\ Fault => faults' \in 0..MaxFault
         /\ \A b \in {"CONNECTED", "DONE"} : SetBits(b) =>
              /\ bits' \subseteq {"CONNECTED", "DONE"} /\ uxBits' \subseteq {"CONNECTED", "DONE"}
              /\ sc' \in {sc, "woken"}
         /\ WaitBits =>
              /\ bits' \subseteq {"CONNECTED", "DONE"} /\ uxBits' \subseteq {"CONNECTED", "DONE"}
              /\ sc' \in {"waiting", "woken"}
         /\ \A c : Connecting(link, c) \in {link, "connecting"}
<1>1. Fault => faults' \in 0..MaxFault
  BY BringupAssumption DEF TypeOK, Fault
<1>2. ASSUME NEW b \in {"CONNECTED", "DONE"}, SetBits(b)
      PROVE  /\ bits' \subseteq {"CONNECTED", "DONE"} /\ uxBits' \subseteq {"CONNECTED", "DONE"}
             /\ sc' \in {sc, "woken"}
  BY <1>2 DEF TypeOK, SetBits, scTask
<1>3. ASSUME WaitBits
      PROVE  /\ bits' \subseteq {"CONNECTED", "DONE"} /\ uxBits' \subseteq {"CONNECTED", "DONE"}
             /\ sc' \in {"waiting", "woken"}
  BY <1>3 DEF TypeOK, WaitBits
<1>4. \A c : Connecting(link, c) \in {link, "connecting"} BY DEF Connecting
<1>5. QED BY <1>1, <1>2, <1>3, <1>4

(* So does every step.                                                     *)
LEMMA NextType == TypeOK /\ [Next]_vars => TypeOK'
<1> SUFFICES ASSUME TypeOK, [Next]_vars PROVE TypeOK'
  OBVIOUS
<1> USE BringupAssumption DEF eventTask, scTask, wifi, client, store, hist, counts
<1>1. CASE AppStart
  <2>1. events' \in Seq(Event) BY <1>1, Events, Arrives DEF AppStart
  <2>2. /\ nvs' \in Credentials /\ flash' \in Credentials
        /\ trouble' \subseteq {"unsaved", "torn"} /\ faults' \in 0..MaxFault
    BY <1>1, Pairs, Parts DEF TypeOK, AppStart
  <2>3. QED BY <1>1, <2>1, <2>2 DEF TypeOK, AppStart
<1>2. CASE ReadCredentials
  <2>1. cfg' \in Credentials BY <1>2 DEF TypeOK, ReadCredentials, Credentials, Pair, Word
  <2>2. link' \in {link, "connecting"} BY <1>2, Parts DEF ReadCredentials
  <2>3. QED BY <1>2, <2>1, <2>2 DEF TypeOK, ReadCredentials
<1>3. CASE HandleStart
  <2>1. events' \in Seq(Event) /\ Head(events) \in Event BY <1>3, Handled DEF HandleStart
  <2>2. QED BY <1>3, <2>1 DEF TypeOK, HandleStart
<1>4. CASE HandleDisconnected
  <2>1. events' \in Seq(Event) /\ Head(events) \in Event BY <1>4, Handled DEF HandleDisconnected
  <2>2. link' \in {link, "connecting"} BY <1>4, Parts DEF HandleDisconnected
  <2>3. QED BY <1>4, <2>1, <2>2 DEF TypeOK, HandleDisconnected
<1>5. CASE HandleGotIp
  <2>1. events' \in Seq(Event) /\ Head(events) \in Event BY <1>5, Handled DEF HandleGotIp
  <2>2. /\ bits' \subseteq {"CONNECTED", "DONE"} /\ uxBits' \subseteq {"CONNECTED", "DONE"}
        /\ sc' \in {sc, "woken"}
    BY <1>5, Parts DEF HandleGotIp
  <2>3. ips' \in 0..2 BY <1>5 DEF TypeOK, HandleGotIp
  <2>4. QED BY <1>5, <2>1, <2>2, <2>3 DEF TypeOK, HandleGotIp
<1>6. CASE HandleAckDone
  <2>1. events' \in Seq(Event) /\ Head(events) \in Event BY <1>6, Handled DEF HandleAckDone
  <2>2. /\ bits' \subseteq {"CONNECTED", "DONE"} /\ uxBits' \subseteq {"CONNECTED", "DONE"}
        /\ sc' \in {sc, "woken"}
    BY <1>6, Parts DEF HandleAckDone
  <2>3. QED BY <1>6, <2>1, <2>2 DEF TypeOK, HandleAckDone
<1>7. CASE SaveSsid
  <2>1. events' \in Seq(Event) /\ Head(events) \in Event BY <1>7, Handled DEF SaveSsid
  <2>2. got' \in Offer BY <1>7, <2>1, Events DEF Handle, SaveSsid
  <2>3. got' \in Credentials BY <2>2, Pairs
  <2>4. nvs' \in Credentials BY <1>7, <2>3 DEF TypeOK, SaveSsid, Credentials
  <2>5. /\ trouble' \subseteq {"unsaved", "torn"} /\ faults' \in 0..MaxFault
        /\ epc' \in {"idle", "password", "commit", "apply"}
    BY <1>7, Parts DEF TypeOK, SaveSsid
  <2>6. QED BY <1>7, <2>1, <2>3, <2>4, <2>5 DEF TypeOK, SaveSsid
<1>8. CASE SavePassword
  <2>1. nvs' \in Credentials BY <1>8 DEF TypeOK, SavePassword, Credentials
  <2>2. trouble' \subseteq {"unsaved", "torn"} /\ faults' \in 0..MaxFault
    BY <1>8, Parts DEF TypeOK, SavePassword
  <2>3. QED BY <1>8, <2>1, <2>2 DEF TypeOK, SavePassword
<1>9. CASE SaveCommit
  <2>1. flash' \in Credentials BY <1>9 DEF TypeOK, SaveCommit
  <2>2. trouble' \subseteq {"unsaved", "torn"} /\ faults' \in 0..MaxFault
    BY <1>9, Parts DEF TypeOK, SaveCommit
  <2>3. QED BY <1>9, <2>1, <2>2 DEF TypeOK, SaveCommit
<1>10. CASE ApplyCredentials
  <2>1. events' \in Seq(Event) BY <1>10, Events, Arrives DEF TypeOK, ApplyCredentials
  <2>2. QED BY <1>10, <2>1 DEF TypeOK, ApplyCredentials
<1>11. CASE SmartConfigStart
  BY <1>11, Parts DEF TypeOK, SmartConfigStart
<1>12. CASE BringUp
  <2>1. bt' \in BOOLEAN /\ failed' \in BOOLEAN /\ faults' \in 0..MaxFault /\ sc' \in {"mqtt", "returned"}
    BY <1>12, Parts DEF TypeOK, BringUp
  <2>2. QED BY <1>12, <2>1 DEF TypeOK, BringUp
<1>13. CASE OnlyDone
  BY <1>13 DEF TypeOK, OnlyDone
<1>14. CASE MqttStart
  BY <1>14 DEF TypeOK, MqttStart
<1>15. CASE Subscribe
  BY <1>15 DEF TypeOK, Subscribe
<1>16. CASE LoopOrEnd
  <2>1. /\ bits' \subseteq {"CONNECTED", "DONE"} /\ uxBits' \subseteq {"CONNECTED", "DONE"}
        /\ sc' \in {"gone", "waiting", "woken"} /\ phone' \in {phone, "deaf"}
    BY <1>16, Parts DEF TypeOK, LoopOrEnd
  <2>2. QED BY <1>16, <2>1 DEF TypeOK, LoopOrEnd
<1>17. CASE Abort
  BY <1>17, RestartType DEF TypeOK, Abort
<1>18. CASE LinkUp
  <2>1. events' \in Seq(Event) BY <1>18, Events, Arrives DEF LinkUp
  <2>2. QED BY <1>18, <2>1 DEF TypeOK, LinkUp
<1>19. CASE LinkDown
  <2>1. events' \in Seq(Event) BY <1>19, Events, Arrives DEF LinkDown
  <2>2. drops' \in 0..MaxDrop BY <1>19 DEF TypeOK, LinkDown
  <2>3. /\ link' = "down"
        /\ UNCHANGED <<app, epc, got, bits, scTask, cfg, phone, client, store, hist,
                       phones, crashes, faults, refusals>>
    BY <1>19 DEF LinkDown
  <2>4. QED BY <2>1, <2>2, <2>3 DEF TypeOK
<1>20. ASSUME NEW c \in Offer, PhoneSends(c) PROVE TypeOK'
  <2>1. events' \in Seq(Event) BY <1>20, Events, Arrives DEF PhoneSends
  <2>2. QED BY <1>20, <2>1 DEF TypeOK, PhoneSends
<1>21. CASE PhoneAcked
  <2>1. events' \in Seq(Event) BY <1>21, Events, Arrives DEF PhoneAcked
  <2>2. QED BY <1>21, <2>1 DEF TypeOK, PhoneAcked
<1>22. CASE BrokerAccepts
  BY <1>22 DEF TypeOK, BrokerAccepts
<1>23. CASE Reconnect
  BY <1>23 DEF TypeOK, Reconnect
<1>24. CASE BrokerGone
  <2>1. refusals' \in 0..MaxBroker BY <1>24 DEF TypeOK, BrokerGone
  <2>2. subscribed' \in BOOLEAN /\ unheard' \in BOOLEAN /\ mqtt' = "waiting"
    BY <1>24 DEF BrokerGone
  <2>3. UNCHANGED <<app, eventTask, bits, scTask, wifi, phone, bt, store,
                    trouble, ips, failed, drops, phones, crashes, faults>>
    BY <1>24 DEF BrokerGone
  <2>4. QED BY <2>1, <2>2, <2>3 DEF TypeOK
<1>25. CASE PowerCycle
  BY <1>25, RestartType DEF TypeOK, PowerCycle
<1>28. CASE CheckAborts
  BY <1>28, Parts, RestartType DEF TypeOK, CheckAborts
<1>26. CASE UNCHANGED vars BY <1>26 DEF TypeOK, vars
<1>27. QED BY <1>1, <1>2, <1>3, <1>4, <1>5, <1>6, <1>7, <1>8, <1>9, <1>10, <1>11, <1>12,
              <1>13, <1>14, <1>15, <1>16, <1>17, <1>18, <1>19, <1>20, <1>21, <1>22, <1>23,
              <1>24, <1>25, <1>26, <1>28
         DEF Next, AppMain, EventTask, SmartConfigTask, Broker

-----------------------------------------------------------------------------
(* The inductive invariant.                                                *)

(* The first start satisfies it.                                           *)
LEMMA InitBringup == Init => BringupInv
<1> SUFFICES ASSUME Init PROVE BringupInv
  OBVIOUS
<1>1. StartInv BY Empty DEF Init, StartInv
<1>2. CredentialInv
  BY DEF Init, CredentialInv, CredentialsWhole, ConfigIsOffered
<1>3. RestartInv BY DEF Init, RestartInv, RestartsOnReconnect
<1>4. ClientInv BY DEF Init, ClientInv
<1>5. AckInv BY Empty DEF Init, AckInv
<1>6. QED BY <1>1, <1>2, <1>3, <1>4, <1>5 DEF BringupInv

(* So does every later one: what is left in NVS is a pair, or the history  *)
(* tells why not.                                                          *)
LEMMA Restarted == TypeOK /\ BringupInv /\ Restart => BringupInv'
<1> SUFFICES ASSUME TypeOK, BringupInv, Restart PROVE BringupInv'
  OBVIOUS
<1>1. StartInv' BY Empty DEF Restart, FreshRam, StartInv
<1>2. CredentialInv'
  <2>1. got' = NoPair /\ cfg' = NoPair /\ epc' = "idle" BY DEF Restart, FreshRam
  <2>2. ASSUME trouble' = {} PROVE nvs' \in Offer \cup {NoPair} /\ flash' = nvs'
    <3>1. trouble = {} /\ epc \in {"idle", "apply"} BY <2>2 DEF Restart, TypeOK
    <3>2. nvs \in Offer \cup {NoPair} /\ flash = nvs
      BY <3>1 DEF BringupInv, CredentialInv, CredentialsWhole
    <3>3. nvs = Pair(nvs.ssid, nvs.password) BY DEF TypeOK, Credentials, Pair
    <3>4. QED BY <3>2, <3>3 DEF Restart
  <2>3. QED BY <2>1, <2>2 DEF CredentialInv, CredentialsWhole, ConfigIsOffered
<1>3. RestartInv' BY DEF Restart, FreshRam, RestartInv, RestartsOnReconnect
<1>4. ClientInv' BY DEF Restart, FreshRam, ClientInv
<1>5. AckInv' BY Empty DEF Restart, FreshRam, AckInv
<1>6. QED BY <1>1, <1>2, <1>3, <1>4, <1>5 DEF BringupInv

(* A start: nothing is up yet, and the credentials are read first.         *)
LEMMA NextStart == TypeOK /\ BringupInv /\ [Next]_vars => StartInv'
<1> SUFFICES ASSUME TypeOK, BringupInv, [Next]_vars PROVE StartInv'
  OBVIOUS
<1> USE DEF BringupInv, StartInv, eventTask, scTask, wifi, client, store, hist, counts,
            Connecting, SetBits, WaitBits, Handle, TypeOK
<1>1. CASE AppStart
  BY <1>1, Events, Arrives DEF AppStart
<1>2. CASE ReadCredentials
  BY <1>2 DEF ReadCredentials
<1>3. CASE HandleStart
  BY <1>3, Handled DEF HandleStart
<1>4. CASE HandleDisconnected
  BY <1>4, Handled DEF HandleDisconnected
<1>5. CASE HandleGotIp
  BY <1>5, Handled DEF HandleGotIp
<1>6. CASE HandleAckDone
  BY <1>6, Handled DEF HandleAckDone
<1>7. CASE SaveSsid
  BY <1>7, Handled DEF SaveSsid
<1>8. CASE SavePassword
  BY <1>8 DEF SavePassword
<1>9. CASE SaveCommit
  BY <1>9 DEF SaveCommit
<1>10. CASE ApplyCredentials
  BY <1>10, Events, Arrives DEF ApplyCredentials
<1>11. CASE SmartConfigStart
  BY <1>11 DEF SmartConfigStart
<1>12. CASE BringUp
  BY <1>12 DEF BringUp
<1>13. CASE OnlyDone
  BY <1>13 DEF OnlyDone
<1>14. CASE MqttStart
  BY <1>14 DEF MqttStart
<1>15. CASE Subscribe
  BY <1>15 DEF Subscribe
<1>16. CASE LoopOrEnd
  BY <1>16 DEF LoopOrEnd
<1>17. CASE Abort
  BY <1>17, Restarted DEF Abort, BringupInv
<1>18. CASE LinkUp
  BY <1>18, Events, Arrives DEF LinkUp
<1>19. CASE LinkDown
  BY <1>19, Events, Arrives DEF LinkDown
<1>20. ASSUME NEW c \in Offer, PhoneSends(c) PROVE StartInv'
  BY <1>20, Events, Arrives DEF PhoneSends
<1>21. CASE PhoneAcked
  BY <1>21, Events, Arrives DEF PhoneAcked
<1>22. CASE BrokerAccepts
  BY <1>22 DEF BrokerAccepts
<1>23. CASE Reconnect
  BY <1>23 DEF Reconnect
<1>24. CASE BrokerGone
  BY <1>24 DEF BrokerGone
<1>25. CASE PowerCycle
  BY <1>25, Restarted DEF PowerCycle, BringupInv
<1>28. CASE CheckAborts
  BY <1>28, Restarted DEF CheckAborts, BringupInv
<1>26. CASE UNCHANGED vars BY <1>26 DEF vars
<1>27. QED BY <1>1, <1>2, <1>3, <1>4, <1>5, <1>6, <1>7, <1>8, <1>9, <1>10, <1>11, <1>12,
              <1>13, <1>14, <1>15, <1>16, <1>17, <1>18, <1>19, <1>20, <1>21, <1>22, <1>23,
              <1>24, <1>25, <1>26, <1>28
         DEF Next, AppMain, EventTask, SmartConfigTask, Broker

(* The credentials, through every call of a save.                          *)
LEMMA NextCredential == TypeOK /\ BringupInv /\ [Next]_vars => CredentialInv'
<1> SUFFICES ASSUME TypeOK, BringupInv, [Next]_vars PROVE CredentialInv'
  OBVIOUS
<1> USE DEF BringupInv, CredentialInv, CredentialsWhole, ConfigIsOffered, StartInv,
            eventTask, scTask, wifi, client, store, hist, counts,
            Connecting, SetBits, WaitBits, Handle, TypeOK
<1>1. CASE AppStart
  BY <1>1 DEF AppStart
<1>2. CASE ReadCredentials
  <2>1. trouble' = trouble /\ nvs' = nvs /\ flash' = flash /\ epc' = epc /\ got' = got
    BY <1>2 DEF ReadCredentials
  <2>2. cfg = NoPair /\ epc = "idle" BY <1>2 DEF ReadCredentials
  <2>3. ASSUME trouble = {}, nvs.password # None PROVE cfg' \in Offer
    <3>1. nvs \in Offer BY <2>2, <2>3 DEF NoPair, Pair
    <3>2. nvs.ssid # None BY <3>1, BringupAssumption
    <3>3. QED BY <1>2, <2>3, <3>1, <3>2 DEF ReadCredentials
  <2>4. nvs.password = None => cfg' = cfg BY <1>2 DEF ReadCredentials
  <2>5. QED BY <2>1, <2>2, <2>3, <2>4
<1>3. CASE HandleStart
  BY <1>3 DEF HandleStart
<1>4. CASE HandleDisconnected
  BY <1>4 DEF HandleDisconnected
<1>5. CASE HandleGotIp
  BY <1>5 DEF HandleGotIp
<1>6. CASE HandleAckDone
  BY <1>6 DEF HandleAckDone
<1>7. CASE SaveSsid
  <2>1. got' \in Offer BY <1>7, Handled, Events DEF SaveSsid
  <2>2. ASSUME trouble' = {} PROVE epc' = "password" /\ nvs'.ssid = got'.ssid /\ trouble = {}
    BY <1>7, <2>2 DEF SaveSsid, Credentials
  <2>3. epc' \in {"password", "apply"} /\ cfg' = cfg BY <1>7 DEF SaveSsid
  <2>4. QED BY <2>1, <2>2, <2>3
<1>8. CASE SavePassword
  <2>1. got \in Offer /\ got' = got /\ epc' = "commit" /\ cfg' = cfg BY <1>8 DEF SavePassword
  <2>2. ASSUME trouble' = {} PROVE trouble = {} /\ nvs' = got
    <3>1. trouble = {} /\ nvs' = [nvs EXCEPT !.password = got.password] BY <1>8, <2>2 DEF SavePassword
    <3>2. nvs.ssid = got.ssid BY <1>8, <3>1 DEF SavePassword
    <3>3. QED BY <3>1, <3>2 DEF Credentials
  <2>3. QED BY <2>1, <2>2
<1>9. CASE SaveCommit
  BY <1>9 DEF SaveCommit
<1>10. CASE ApplyCredentials
  BY <1>10 DEF ApplyCredentials
<1>11. CASE SmartConfigStart
  BY <1>11 DEF SmartConfigStart
<1>12. CASE BringUp
  BY <1>12 DEF BringUp
<1>13. CASE OnlyDone
  BY <1>13 DEF OnlyDone
<1>14. CASE MqttStart
  BY <1>14 DEF MqttStart
<1>15. CASE Subscribe
  BY <1>15 DEF Subscribe
<1>16. CASE LoopOrEnd
  BY <1>16 DEF LoopOrEnd
<1>17. CASE Abort
  BY <1>17, Restarted DEF Abort, BringupInv
<1>18. CASE LinkUp
  BY <1>18 DEF LinkUp
<1>19. CASE LinkDown
  BY <1>19 DEF LinkDown
<1>20. ASSUME NEW c \in Offer, PhoneSends(c) PROVE CredentialInv'
  BY <1>20 DEF PhoneSends
<1>21. CASE PhoneAcked
  BY <1>21 DEF PhoneAcked
<1>22. CASE BrokerAccepts
  BY <1>22 DEF BrokerAccepts
<1>23. CASE Reconnect
  BY <1>23 DEF Reconnect
<1>24. CASE BrokerGone
  BY <1>24 DEF BrokerGone
<1>25. CASE PowerCycle
  BY <1>25, Restarted DEF PowerCycle, BringupInv
<1>28. CASE CheckAborts
  BY <1>28, Restarted DEF CheckAborts, BringupInv
<1>26. CASE UNCHANGED vars BY <1>26 DEF vars
<1>27. QED BY <1>1, <1>2, <1>3, <1>4, <1>5, <1>6, <1>7, <1>8, <1>9, <1>10, <1>11, <1>12,
              <1>13, <1>14, <1>15, <1>16, <1>17, <1>18, <1>19, <1>20, <1>21, <1>22, <1>23,
              <1>24, <1>25, <1>26, <1>28
         DEF Next, AppMain, EventTask, SmartConfigTask, Broker

(* The links seen and counted.                                             *)
LEMMA NextRestart == TypeOK /\ BringupInv /\ [Next]_vars => RestartInv'
<1> SUFFICES ASSUME TypeOK, BringupInv, [Next]_vars PROVE RestartInv'
  OBVIOUS
<1> USE DEF BringupInv, RestartInv, RestartsOnReconnect, StartInv, eventTask, scTask, wifi,
            client, store, hist, counts,
            Connecting, SetBits, WaitBits, Handle, TypeOK
<1>1. CASE AppStart
  BY <1>1 DEF AppStart
<1>2. CASE ReadCredentials
  BY <1>2 DEF ReadCredentials
<1>3. CASE HandleStart
  BY <1>3 DEF HandleStart
<1>4. CASE HandleDisconnected
  BY <1>4 DEF HandleDisconnected
<1>5. CASE HandleGotIp
  BY <1>5 DEF HandleGotIp
<1>6. CASE HandleAckDone
  BY <1>6 DEF HandleAckDone
<1>7. CASE SaveSsid
  BY <1>7 DEF SaveSsid
<1>8. CASE SavePassword
  BY <1>8 DEF SavePassword
<1>9. CASE SaveCommit
  BY <1>9 DEF SaveCommit
<1>10. CASE ApplyCredentials
  BY <1>10 DEF ApplyCredentials
<1>11. CASE SmartConfigStart
  BY <1>11 DEF SmartConfigStart
<1>12. CASE BringUp
  BY <1>12 DEF BringUp
<1>13. CASE OnlyDone
  BY <1>13 DEF OnlyDone
<1>14. CASE MqttStart
  BY <1>14 DEF MqttStart
<1>15. CASE Subscribe
  BY <1>15 DEF Subscribe
<1>16. CASE LoopOrEnd
  BY <1>16 DEF LoopOrEnd
<1>17. CASE Abort
  BY <1>17, Restarted DEF Abort, BringupInv
<1>18. CASE LinkUp
  BY <1>18 DEF LinkUp
<1>19. CASE LinkDown
  BY <1>19 DEF LinkDown
<1>20. ASSUME NEW c \in Offer, PhoneSends(c) PROVE RestartInv'
  BY <1>20 DEF PhoneSends
<1>21. CASE PhoneAcked
  BY <1>21 DEF PhoneAcked
<1>22. CASE BrokerAccepts
  BY <1>22 DEF BrokerAccepts
<1>23. CASE Reconnect
  BY <1>23 DEF Reconnect
<1>24. CASE BrokerGone
  BY <1>24 DEF BrokerGone
<1>25. CASE PowerCycle
  BY <1>25, Restarted DEF PowerCycle, BringupInv
<1>28. CASE CheckAborts
  BY <1>28, Restarted DEF CheckAborts, BringupInv
<1>26. CASE UNCHANGED vars BY <1>26 DEF vars
<1>27. QED BY <1>1, <1>2, <1>3, <1>4, <1>5, <1>6, <1>7, <1>8, <1>9, <1>10, <1>11, <1>12,
              <1>13, <1>14, <1>15, <1>16, <1>17, <1>18, <1>19, <1>20, <1>21, <1>22, <1>23,
              <1>24, <1>25, <1>26, <1>28
         DEF Next, AppMain, EventTask, SmartConfigTask, Broker

(* The MQTT client and the task that starts it.                            *)
LEMMA NextClient == TypeOK /\ BringupInv /\ [Next]_vars => ClientInv'
<1> SUFFICES ASSUME TypeOK, BringupInv, [Next]_vars PROVE ClientInv'
  OBVIOUS
<1> USE DEF BringupInv, ClientInv, StartInv, eventTask, scTask, wifi, client, store, hist,
            counts,
            Connecting, SetBits, WaitBits, Handle, TypeOK
<1>1. CASE AppStart
  BY <1>1 DEF AppStart
<1>2. CASE ReadCredentials
  BY <1>2 DEF ReadCredentials
<1>3. CASE HandleStart
  <2>1. sc = "none" BY <1>3, Handled DEF HandleStart
  <2>2. QED BY <1>3, <2>1 DEF HandleStart
<1>4. CASE HandleDisconnected
  BY <1>4 DEF HandleDisconnected
<1>5. CASE HandleGotIp
  BY <1>5 DEF HandleGotIp
<1>6. CASE HandleAckDone
  BY <1>6 DEF HandleAckDone
<1>7. CASE SaveSsid
  BY <1>7 DEF SaveSsid
<1>8. CASE SavePassword
  BY <1>8 DEF SavePassword
<1>9. CASE SaveCommit
  BY <1>9 DEF SaveCommit
<1>10. CASE ApplyCredentials
  BY <1>10 DEF ApplyCredentials
<1>11. CASE SmartConfigStart
  BY <1>11 DEF SmartConfigStart
<1>12. CASE BringUp
  BY <1>12 DEF BringUp
<1>13. CASE OnlyDone
  <2>1. bt
    <3>1. "DONE" \in uxBits BY <1>13 DEF OnlyDone, AckInv
    <3>2. QED BY <1>13, <3>1 DEF OnlyDone, AckInv, Seen
  <2>2. QED BY <1>13, <2>1 DEF OnlyDone
<1>14. CASE MqttStart
  <2>1. bt /\ bt' = bt BY <1>14 DEF MqttStart
  <2>2. sc' = "subscribe" /\ mqtt' = "connecting" /\ unheard' = unheard BY <1>14 DEF MqttStart
  <2>3. QED BY <2>1, <2>2
<1>15. CASE Subscribe
  BY <1>15 DEF Subscribe
<1>16. CASE LoopOrEnd
  BY <1>16 DEF LoopOrEnd
<1>17. CASE Abort
  BY <1>17, Restarted DEF Abort, BringupInv
<1>18. CASE LinkUp
  BY <1>18 DEF LinkUp
<1>19. CASE LinkDown
  BY <1>19 DEF LinkDown
<1>20. ASSUME NEW c \in Offer, PhoneSends(c) PROVE ClientInv'
  BY <1>20 DEF PhoneSends
<1>21. CASE PhoneAcked
  BY <1>21 DEF PhoneAcked
<1>22. CASE BrokerAccepts
  BY <1>22 DEF BrokerAccepts
<1>23. CASE Reconnect
  BY <1>23 DEF Reconnect
<1>24. CASE BrokerGone
  BY <1>24 DEF BrokerGone
<1>25. CASE PowerCycle
  BY <1>25, Restarted DEF PowerCycle, BringupInv
<1>28. CASE CheckAborts
  BY <1>28, Restarted DEF CheckAborts, BringupInv
<1>26. CASE UNCHANGED vars BY <1>26 DEF vars
<1>27. QED BY <1>1, <1>2, <1>3, <1>4, <1>5, <1>6, <1>7, <1>8, <1>9, <1>10, <1>11, <1>12,
              <1>13, <1>14, <1>15, <1>16, <1>17, <1>18, <1>19, <1>20, <1>21, <1>22, <1>23,
              <1>24, <1>25, <1>26, <1>28
         DEF Next, AppMain, EventTask, SmartConfigTask, Broker

(* Past its first wait, the task has seen the link come up.                *)
LEMMA AllSeen ==
  ASSUME TypeOK, BringupInv, ~Seen PROVE sc \in {"none", "start", "waiting"}
BY DEF TypeOK, BringupInv, ClientInv, AckInv, Seen

(* A phone's acknowledgement behind the link it needs.                     *)
LEMMA NextAck == TypeOK /\ BringupInv /\ [Next]_vars => AckInv'
<1> SUFFICES ASSUME TypeOK, BringupInv, [Next]_vars PROVE AckInv'
  OBVIOUS
<1> USE DEF BringupInv, AckInv, Seen, StartInv, eventTask, scTask, wifi, client, store,
            hist, counts,
            Connecting, SetBits, WaitBits, Handle, TypeOK
<1>1. CASE AppStart
  BY <1>1, Events, Arrives DEF AppStart
<1>2. CASE ReadCredentials
  BY <1>2 DEF ReadCredentials
<1>3. CASE HandleStart
  BY <1>3, Handled DEF HandleStart
<1>4. CASE HandleDisconnected
  BY <1>4, Handled DEF HandleDisconnected
<1>5. CASE HandleGotIp
  <2>1. /\ \A k, j : EachBefore(events, k, j) => EachBefore(events', k, j)
        /\ \A k : Queued(events, k) <=> k = "GOT_IP" \/ Queued(events', k)
    BY <1>5, Handled DEF HandleGotIp
  <2>2. SetBits("CONNECTED") /\ link' = link /\ bt' = bt BY <1>5 DEF HandleGotIp
  <2>3. CASE sc = "waiting"
    <3>1. sc' = "woken" /\ "CONNECTED" \in uxBits' BY <2>2, <2>3
    <3>2. QED BY <2>1, <2>2, <3>1
  <2>4. CASE sc # "waiting"
    <3>1. sc' = sc /\ uxBits' = uxBits /\ bits' = bits \cup {"CONNECTED"} BY <2>2, <2>4
    <3>2. Seen' <=> Seen BY <2>2, <3>1
    <3>3. CASE Seen BY <2>1, <2>2, <3>1, <3>2, <3>3
    <3>4. CASE ~Seen
      <4>1. sc \in {"none", "start"} BY <2>4, <3>4, AllSeen
      <4>2. EachAfter(events', "SEND_ACK_DONE", "GOT_IP") BY <2>1, <4>1 DEF EachAfter, Queued
      <4>3. QED BY <2>1, <2>2, <3>1, <3>2, <4>1, <4>2
    <3>5. QED BY <3>3, <3>4
  <2>5. QED BY <2>3, <2>4
<1>6. CASE HandleAckDone
  BY <1>6, Handled DEF HandleAckDone
<1>7. CASE SaveSsid
  BY <1>7, Handled DEF SaveSsid
<1>8. CASE SavePassword
  BY <1>8 DEF SavePassword
<1>9. CASE SaveCommit
  BY <1>9 DEF SaveCommit
<1>10. CASE ApplyCredentials
  BY <1>10, Events, Arrives DEF ApplyCredentials
<1>11. CASE SmartConfigStart
  BY <1>11 DEF SmartConfigStart
<1>12. CASE BringUp
  BY <1>12 DEF BringUp
<1>13. CASE OnlyDone
  BY <1>13 DEF OnlyDone
<1>14. CASE MqttStart
  BY <1>14 DEF MqttStart
<1>15. CASE Subscribe
  BY <1>15 DEF Subscribe
<1>16. CASE LoopOrEnd
  BY <1>16 DEF LoopOrEnd
<1>17. CASE Abort
  BY <1>17, Restarted DEF Abort, BringupInv
<1>18. CASE LinkUp
  BY <1>18, Events, Arrives DEF LinkUp
<1>19. CASE LinkDown
  BY <1>19, Events, Arrives DEF LinkDown
<1>20. ASSUME NEW c \in Offer, PhoneSends(c) PROVE AckInv'
  BY <1>20, Events, Arrives DEF PhoneSends
<1>21. CASE PhoneAcked
  BY <1>21, Events, Arrives DEF PhoneAcked
<1>22. CASE BrokerAccepts
  BY <1>22 DEF BrokerAccepts
<1>23. CASE Reconnect
  BY <1>23 DEF Reconnect
<1>24. CASE BrokerGone
  BY <1>24 DEF BrokerGone
<1>25. CASE PowerCycle
  BY <1>25, Restarted DEF PowerCycle, BringupInv
<1>28. CASE CheckAborts
  BY <1>28, Restarted DEF CheckAborts, BringupInv
<1>26. CASE UNCHANGED vars BY <1>26 DEF vars
<1>27. QED BY <1>1, <1>2, <1>3, <1>4, <1>5, <1>6, <1>7, <1>8, <1>9, <1>10, <1>11, <1>12,
              <1>13, <1>14, <1>15, <1>16, <1>17, <1>18, <1>19, <1>20, <1>21, <1>22, <1>23,
              <1>24, <1>25, <1>26, <1>28
         DEF Next, AppMain, EventTask, SmartConfigTask, Broker

-----------------------------------------------------------------------------
(* The theorems.                                                           *)

(* The types and the inductive invariant hold throughout.                  *)
THEOREM Invariance == Spec => [](TypeOK /\ BringupInv)
<1>1. Init => TypeOK /\ BringupInv BY InitType, InitBringup
<1>2. TypeOK /\ BringupInv /\ [Next]_vars => TypeOK' /\ BringupInv'
  BY NextType, NextStart, NextCredential, NextRestart, NextClient, NextAck DEF BringupInv
<1>3. QED BY <1>1, <1>2, PTL DEF Spec

(* The gateway's variables keep their types.                               *)
THEOREM TypeCorrect == Spec => []TypeOK
BY Invariance, PTL

(* What is stored is a pair a phone sent, unless a call failed or the power*)
(* was lost in the middle of a save.                                       *)
THEOREM CredentialsAreWhole == Spec => []CredentialsWhole
<1>1. BringupInv => CredentialsWhole BY DEF BringupInv, CredentialInv
<1>2. QED BY <1>1, Invariance, PTL

(* The Wi-Fi driver is given nothing but such a pair.                      *)
THEOREM ConfigurationIsOffered == Spec => []ConfigIsOffered
<1>1. BringupInv => ConfigIsOffered BY DEF BringupInv, CredentialInv
<1>2. QED BY <1>1, Invariance, PTL

(* SmartConfig is over only with Bluetooth, and hence the mesh, started:   *)
(* the acknowledgement that ends it comes behind a link that came up.      *)
THEOREM OverOnlyWhenUp == Spec => []OverMeansUp
<1>1. BringupInv => OverMeansUp BY DEF BringupInv, ClientInv, OverMeansUp
<1>2. QED BY <1>1, Invariance, PTL

(* The gateway restarts itself only after a reconnect or a failed call.    *)
THEOREM RestartsOnlyOnReconnect == Spec => []RestartsOnReconnect
<1>1. BringupInv => RestartsOnReconnect BY DEF BringupInv, RestartInv
<1>2. QED BY <1>1, Invariance, PTL

(* A client that never lost the broker hears the commands.                 *)
THEOREM SubscribedFromTheStart == Spec => []HeardFromTheStart
<1>1. BringupInv => HeardFromTheStart
  BY DEF BringupInv, ClientInv, HeardFromTheStart
<1>2. QED BY <1>1, Invariance, PTL
=============================================================================
