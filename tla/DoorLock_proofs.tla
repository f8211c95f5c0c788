----------------------------- MODULE DoorLock_proofs ---------------------------
(***************************************************************************)
(* Proofs about the door lock: what frames the reader takes, the keypad's  *)
(* queue and password, the finger's task, and the latch they implement.    *)
(***************************************************************************)
EXTENDS DoorLock, TLAPS, SequenceTheorems

-----------------------------------------------------------------------------
(* The frames.                                                             *)

(* Whatever the password, the reader takes VfyPwd's frame unless the sum   *)
(* is just 256 or the password begins with the mark.  (jm101.c:56-122.)    *)
THEOREM VfyPwdFrame ==
  ASSUME NEW pw \in Seq(Byte), Len(pw) = 4, pw[1] # Flag
  PROVE  Accepted(VfyPwd(pw)) <=> Sum4(pw) # 229
<1>1. /\ At(pw, 1) = pw[1] /\ At(pw, 2) = pw[2] /\ At(pw, 3) = pw[3] /\ At(pw, 4) = pw[4]
      /\ At(pw, 5) = 0
  BY DEF At
<1>2. pw[1] \in Byte /\ pw[2] \in Byte /\ pw[3] \in Byte /\ pw[4] \in Byte
  <2>1. \A i \in 1..4 : pw[i] \in Byte
    BY ElementOfSeq
  <2> QED BY <2>1
<1>3. Sum4(Head4(19, 4)) = 27
  BY DEF Sum4, Head4, At
<1>4. Sum4(pw) \in Nat /\ Sum5(pw) = Sum4(pw)
  <2>1. pw[1] \in Nat /\ pw[2] \in Nat /\ pw[3] \in Nat /\ pw[4] \in Nat
    <3>1. \A x \in Byte : x \in Nat
      BY DEF Byte
    <3> QED BY <1>2, <3>1
  <2>2. Sum4(pw) = pw[1] + pw[2] + pw[3] + pw[4]
    BY <1>1 DEF Sum4
  <2>3. Sum4(pw) \in Nat
    BY <2>1, <2>2
  <2> QED BY <1>1, <2>3 DEF Sum5
<1>5. VfyPwd(pw) = [instr |-> 19, data |-> pw, sum |-> Narrowed(27 + Sum4(pw))]
  BY <1>1, <1>3 DEF VfyPwd, Passing, Frame, CheckSum
<1>6. Declared(VfyPwd(pw)) = 27 + Sum4(pw)
  <2>1. VfyPwd(pw).instr = 19 /\ VfyPwd(pw).data = pw
    BY <1>5
  <2> QED BY <1>3, <1>4, <2>1 DEF Declared
<1>7. Narrowed(27 + Sum4(pw)) = 27 + Sum4(pw) <=> Sum4(pw) # 229
  BY <1>4 DEF Narrowed
<1> QED BY <1>5, <1>6, <1>7 DEF Accepted

(* The frame of LoadChar never names the page, but its sum counts it: the  *)
(* reader takes it for the page 0 alone.  (jm101.c:686-725.)               *)
THEOREM LoadCharPageZeroOnly ==
  ASSUME NEW b \in {1, 2}, NEW high \in Byte, NEW low \in Byte
  PROVE  Accepted(LoadChar(b, <<high, low>>)) <=> high = 0 /\ low = 0
<1>1. Sum4(Head4(7, 3)) = 14
  BY DEF Sum4, Head4, At
<1> DEFINE arg == <<b, high, low, 0>>
<1>2. Sum4(arg) = b + high + low /\ At(arg, 1) # Flag
  BY DEF Sum4, At, Flag, Byte
<1>3. Sum5(<<b, 0, 0>>) = b
  BY DEF Sum5, Sum4, At
<1>4. LoadChar(b, <<high, low>>) = [instr |-> 7, data |-> <<b, 0, 0>>, sum |-> Narrowed(14 + (b + high + low))]
  BY <1>1, <1>2 DEF LoadChar, Frame, CheckSum
<1>5. Declared(LoadChar(b, <<high, low>>)) = 14 + b
  <2>1. LoadChar(b, <<high, low>>).instr = 7 /\ LoadChar(b, <<high, low>>).data = <<b, 0, 0>>
    BY <1>4
  <2>2. Len(<<b, 0, 0>>) = 3
    OBVIOUS
  <2> QED BY <1>1, <1>3, <2>1, <2>2 DEF Declared
<1>6. Narrowed(14 + (b + high + low)) = 14 + b <=> high = 0 /\ low = 0
  BY DEF Narrowed, Byte
<1> QED BY <1>4, <1>5, <1>6 DEF Accepted

LEMMA LockFrames ==
  /\ VfyPwd(Password).instr = 19 /\ Accepted(VfyPwd(Password))
  /\ TempleteNum.instr = 29 /\ Accepted(TempleteNum)
  /\ GR_Auto.instr = 50 /\ Accepted(GR_Auto)
<1>1. Len(Password) = 4
  BY PasswordAssumption
<1>2. Accepted(VfyPwd(Password)) /\ VfyPwd(Password).instr = 19
  BY <1>1, VfyPwdFrame, PasswordAssumption DEF VfyPwd, Passing, Frame
<1>3. TempleteNum.instr = 29 /\ Accepted(TempleteNum)
  BY DEF TempleteNum, Plain, Frame, CheckSumOf, Narrowed, Accepted, Declared, Sum4, Sum5, Head4, At
<1>4. GR_Auto.instr = 50 /\ Accepted(GR_Auto)
  <2> DEFINE d == <<3, 255, 255, 0, 0>>
  <2>1. Len(d) = 5 /\ Sum5(d) = 513
    BY DEF Sum5, Sum4, At
  <2>2. Sum4(Head4(50, 5)) = 59
    BY DEF Sum4, Head4, At
  <2>3. GR_Auto = [instr |-> 50, data |-> d, sum |-> 572]
    BY <2>1, <2>2 DEF GR_Auto, Frame, CheckSumOf, Narrowed
  <2> QED BY <2>1, <2>2, <2>3 DEF Accepted, Declared
<1> QED BY <1>2, <1>3, <1>4

-----------------------------------------------------------------------------
(* The keypad.                                                             *)

LEMMA ModRange ==
  ASSUME NEW a \in Nat, NEW b \in Nat \ {0}
  PROVE  /\ a % b \in 0..(b - 1)
         /\ a < b => a % b = a
OBVIOUS

LEMMA KeypadTypeInit == Init => K_TypeOK
BY KeypadAssumption DEF Init, K_Init, K_TypeOK, Slot

LEMMA KeypadType ==
  ASSUME K_TypeOK, [Next]_vars
  PROVE  K_TypeOK'
<1> USE KeypadAssumption
<1>1. CASE Tick
  BY <1>1 DEF Tick, K_TypeOK
<1>2. CASE Glitch
  <2>1. presses' \in 0..MaxPress
    BY <1>2 DEF Glitch, K_TypeOK
  <2> QED BY <1>2, <2>1 DEF Glitch, K_TypeOK
<1>3. CASE \E k \in Key : Click(k)
  <2>1. PICK k \in Key : Click(k)
    BY <1>3
  <2>2. presses' \in 0..MaxPress
    BY <2>1 DEF Click, K_TypeOK
  <2>3. queue' \in Seq(Key) /\ refused' \in BOOLEAN
    <3>1. Append(queue, k) \in Seq(Key)
      BY AppendProperties DEF K_TypeOK
    <3>2. elapsed \in BOOLEAN /\ Len(queue) \in Nat /\ QueueSize \in Nat
      BY LenProperties DEF K_TypeOK
    <3>3. queue' \in {queue, Append(queue, k)} /\ refused' \in {refused, TRUE}
      BY <2>1, <3>2 DEF Click, K_TypeOK
    <3> QED BY <3>1, <3>3 DEF K_TypeOK
  <2> QED BY <2>1, <2>2, <2>3 DEF Click, K_TypeOK
<1>4. CASE PollEmpty
  BY <1>4 DEF PollEmpty, K_TypeOK
<1>5. ASSUME NEW k \in Key, NEW stray \in BOOLEAN, Taken(k, stray)
      PROVE  /\ queue' \in Seq(Key) /\ polled' \in BOOLEAN
             /\ password' \in [Slot -> Key \cup {Nul}]
             /\ Enabled(stray) \in BOOLEAN
             /\ elapsed' \in BOOLEAN /\ refused' \in BOOLEAN /\ presses' \in 0..MaxPress
  <2>1. the_position % BufSize \in Slot
    BY ModRange DEF K_TypeOK, Slot
  <2>2. password' \in [Slot -> Key \cup {Nul}]
    BY <1>5, <2>1 DEF Taken, K_TypeOK
  <2>3. queue' \in Seq(Key)
    BY <1>5, HeadTailProperties DEF Taken, K_TypeOK
  <2>4. Enabled(stray) \in BOOLEAN
    BY DEF Enabled, K_TypeOK, Matches
  <2> QED BY <1>5, <2>2, <2>3, <2>4 DEF Taken, K_TypeOK
<1>6. CASE PollKey
  <2>1. PICK k \in Key \ {Enter}, stray \in BOOLEAN :
          /\ Taken(k, stray)
          /\ the_position' = the_position + 1
          /\ enable_door_lock' = Enabled(stray)
          /\ entry' = Append(entry, k)
          /\ UNCHANGED pin
    BY <1>6 DEF PollKey
  <2>2. entry' \in Seq(Key) /\ the_position' \in Nat /\ pin' \in {0, 1}
    <3>1. entry \in Seq(Key) /\ k \in Key /\ the_position \in Nat /\ pin \in {0, 1}
      BY <2>1 DEF K_TypeOK
    <3>2. Append(entry, k) \in Seq(Key)
      BY <3>1, AppendProperties
    <3>3. entry' \in Seq(Key)
      BY <2>1, <3>2
    <3>4. the_position' \in Nat /\ pin' \in {0, 1}
      BY <2>1, <3>1
    <3> QED BY <3>3, <3>4
  <2> QED BY <1>5, <2>1, <2>2 DEF K_TypeOK
<1>7. CASE PollEnter
  <2>1. PICK stray \in BOOLEAN :
          /\ Taken(Enter, stray)
          /\ the_position' = 0
          /\ pin' = IF Enabled(stray) THEN 1 ELSE 0
          /\ enable_door_lock' = FALSE
          /\ entry' = <<>>
    BY <1>7 DEF PollEnter
  <2>2. the_position' \in Nat /\ pin' \in {0, 1} /\ enable_door_lock' \in BOOLEAN
    BY <2>1
  <2>3. entry' \in Seq(Key)
    BY <2>1, EmptySeq
  <2> QED BY <1>5, <2>1, <2>2, <2>3 DEF K_TypeOK
<1>8. CASE CallbackOpens
  BY <1>8 DEF CallbackOpens, K_TypeOK
<1>9. CASE UNCHANGED keypadVars
  BY <1>9 DEF keypadVars, K_TypeOK
<1> QED
  BY <1>1, <1>2, <1>3, <1>4, <1>6, <1>7, <1>8, <1>9
  DEF Next, vars, Keypad, K_Next, Task_keypad_input, Reader, Task_for_fingerprint, TaskSends,
      AskVfyPwd, AskTempleteNum, AskGR_Auto, ReadVfyPwd, ReadTempleteNum, ReadGR_Auto,
      app_mqtt_publish, app_mqtt_start, MqttHello, ClientConnects, ConnectEnds, BrokerLost
(* How much may be in the queue: a key the handler took in this second,    *)
(* and one of the second before that the task has not come to.             *)
Room == Len(queue) <= (IF elapsed THEN 0 ELSE 1) + (IF polled THEN 0 ELSE 1)

LEMMA QueueInv ==
  ASSUME K_TypeOK, NoKeyLost, Room, [Next]_vars
  PROVE  NoKeyLost' /\ Room'
<1> USE KeypadAssumption
<1>0. Len(queue) \in Nat /\ elapsed \in BOOLEAN /\ polled \in BOOLEAN /\ queue \in Seq(Key)
  BY LenProperties DEF K_TypeOK
<1>1. CASE Tick
  BY <1>0, <1>1 DEF Tick, NoKeyLost, Room
<1>2. CASE Glitch
  BY <1>0, <1>2 DEF Glitch, NoKeyLost, Room
<1>3. CASE \E k \in Key : Click(k)
  <2>1. PICK k \in Key : Click(k)
    BY <1>3
  <2>2. CASE elapsed
    <3>1. Len(queue) <= 1 /\ Len(queue) < QueueSize
      BY <1>0, <2>2 DEF Room
    <3>2. queue' = Append(queue, k)
      BY <2>1, <2>2, <3>1 DEF Click
    <3>5. ~refused'
      <4>1. ~(Len(queue) >= QueueSize)
        BY <1>0, <3>1
      <4> QED BY <2>1, <4>1, Zenon DEF Click, NoKeyLost
    <3>3. Len(queue') = Len(queue) + 1
      BY <1>0, <3>2, AppendProperties
    <3>4. elapsed' = FALSE /\ polled' = polled
      BY <2>1 DEF Click
    <3> QED BY <1>0, <2>2, <3>2, <3>3, <3>4, <3>5 DEF NoKeyLost, Room
  <2>3. CASE ~elapsed
    <3>1. queue' = queue /\ elapsed' = FALSE /\ polled' = polled
      BY <2>1, <2>3 DEF Click
    <3>2. ~refused'
      BY <2>1, <2>3, Zenon DEF Click, NoKeyLost
    <3> QED BY <1>0, <2>3, <3>1, <3>2 DEF NoKeyLost, Room
  <2> QED BY <2>2, <2>3
<1>4. CASE PollEmpty
  BY <1>0, <1>4 DEF PollEmpty, NoKeyLost, Room
<1>5. ASSUME NEW k \in Key, NEW stray \in BOOLEAN, Taken(k, stray)
      PROVE  NoKeyLost' /\ Room'
  <2>1. Len(queue') = Len(queue) - 1
    BY <1>0, <1>5, HeadTailProperties DEF Taken
  <2>2. polled' = TRUE /\ elapsed' = elapsed /\ refused' = refused
    BY <1>5 DEF Taken
  <2> QED BY <1>0, <2>1, <2>2 DEF NoKeyLost, Room
<1>6. CASE PollKey
  BY <1>5, <1>6 DEF PollKey
<1>7. CASE PollEnter
  BY <1>5, <1>7 DEF PollEnter
<1>8. CASE UNCHANGED <<queue, elapsed, polled, refused>>
  BY <1>8 DEF NoKeyLost, Room
<1> QED
  BY <1>1, <1>2, <1>3, <1>4, <1>6, <1>7, <1>8
  DEF Next, vars, keypadVars, Keypad, K_Next, Task_keypad_input, Reader, Task_for_fingerprint,
      TaskSends, AskVfyPwd, AskTempleteNum, AskGR_Auto, ReadVfyPwd, ReadTempleteNum, ReadGR_Auto,
      CallbackOpens, app_mqtt_publish, app_mqtt_start, MqttHello, ClientConnects, ConnectEnds,
      BrokerLost

(* What was typed is found in the password of the lock just as Occurs      *)
(* finds it, once the new key is in.                                       *)
LEMMA MatchesOccurs ==
  ASSUME NEW pw, NEW e \in Seq(Key), Len(e) <= BufSize,
         \A i \in 1..Len(e) : pw[i - 1] = e[i]
  PROVE  Matches(pw, Len(e)) <=> Occurs(e)
<1> USE KeypadAssumption
<1>1. Len(e) \in Nat /\ Len(Secret) \in Nat /\ BufSize \in Nat
  BY LenProperties
<1>2. ASSUME NEW i \in 0..Len(e), i + Len(Secret) <= Len(e), NEW j \in 1..Len(Secret)
      PROVE  pw[i + j - 1] = e[i + j]
  BY <1>1, <1>2
<1>3. \A i \in 0..Len(e) : i + Len(Secret) <= Len(e) => Fits(i)
  BY <1>1 DEF Fits
<1>4. Matches(pw, Len(e)) <=> \E i \in 0..Len(e) : /\ i + Len(Secret) <= Len(e) /\ Fits(i)
                                                  /\ \A j \in 1..Len(Secret) : pw[i + j - 1] = Secret[j]
  BY DEF Matches, Windows
<1>5. Matches(pw, Len(e)) <=> \E i \in 0..Len(e) : /\ i + Len(Secret) <= Len(e)
                                                  /\ \A j \in 1..Len(Secret) : pw[i + j - 1] = Secret[j]
  BY <1>3, <1>4
<1> QED BY <1>2, <1>5 DEF Occurs

LEMMA OccursAppend ==
  ASSUME NEW e \in Seq(Key), NEW k \in Key, Occurs(e)
  PROVE  Occurs(Append(e, k))
<1> USE KeypadAssumption
<1>1. Len(e) \in Nat /\ Len(Secret) \in Nat
  BY LenProperties
<1>2. PICK i \in 0..Len(e) : /\ i + Len(Secret) <= Len(e)
                             /\ \A j \in 1..Len(Secret) : e[i + j] = Secret[j]
  BY DEF Occurs
<1>3. Len(Append(e, k)) = Len(e) + 1 /\ \A n \in 1..Len(e) : Append(e, k)[n] = e[n]
  BY AppendProperties
<1>4. i \in 0..Len(Append(e, k)) /\ i + Len(Secret) <= Len(Append(e, k))
  BY <1>1, <1>2, <1>3
<1>5. \A j \in 1..Len(Secret) : i + j \in 1..Len(e)
  BY <1>1, <1>2
<1> QED BY <1>2, <1>3, <1>4, <1>5 DEF Occurs

LEMMA OccursEmpty == ~Occurs(<<>>)
<1> USE KeypadAssumption
<1>1. Len(Secret) \in Nat /\ Len(Secret) # 0
  BY LenProperties, EmptySeq
<1> QED BY <1>1 DEF Occurs

LEMMA NoStrays ==
  ASSUME NEW pos \in Nat, pos <= BufSize
  PROVE  ~MayStray(pos)
<1> USE KeypadAssumption
<1>1. Len(Secret) \in Nat
  BY LenProperties
<1> QED BY <1>1 DEF Windows, Fits, MayStray

(* A turn of the task with the key k.                                      *)
LEMMA TurnHolds ==
  ASSUME K_TypeOK, the_position = Len(entry), EntryHeld, the_position + 1 <= BufSize,
         NEW k \in Key, NEW stray \in BOOLEAN, Taken(k, stray)
  PROVE  /\ \A i \in 1..(the_position + 1) : password'[i - 1] = Append(entry, k)[i]
         /\ Enabled(stray) <=> Occurs(Append(entry, k))
<1> USE KeypadAssumption
<1>1. the_position \in Nat /\ entry \in Seq(Key) /\ BufSize \in Nat /\ the_position < BufSize
  BY DEF K_TypeOK
<1>2. password' = [password EXCEPT ![the_position] = k]
  BY <1>1, ModRange DEF Taken
<1>3. Append(entry, k) \in Seq(Key) /\ Len(Append(entry, k)) = the_position + 1
  BY <1>1, AppendProperties
<1>4. /\ \A i \in 1..the_position : password[i - 1] = entry[i]
      /\ enable_door_lock <=> Occurs(entry)
  BY <1>1 DEF EntryHeld
<1>5. ASSUME NEW i \in 1..(the_position + 1)
      PROVE  password'[i - 1] = Append(entry, k)[i]
  <2>1. password \in [0..(BufSize - 1) -> Key \cup {Nul}] /\ i - 1 \in 0..(BufSize - 1)
    BY <1>1 DEF K_TypeOK, Slot
  <2>2. CASE i = the_position + 1
    <3>1. Append(entry, k)[i] = k
      BY <1>1, <2>2, AppendProperties
    <3>2. i - 1 = the_position
      BY <1>1, <2>2
    <3> QED BY <1>2, <2>1, <3>1, <3>2
  <2>3. CASE i # the_position + 1
    <3>1. i \in 1..Len(entry) /\ i - 1 # the_position
      BY <1>1, <2>3
    <3>2. Append(entry, k)[i] = entry[i]
      BY <1>1, <3>1, AppendProperties
    <3>3. password'[i - 1] = password[i - 1]
      BY <1>2, <2>1, <3>1
    <3> QED BY <1>4, <3>1, <3>2, <3>3
  <2> QED BY <2>2, <2>3
<1>6. ~stray
  BY <1>1, NoStrays DEF Taken
<1>7. Matches(password', the_position + 1) <=> Occurs(Append(entry, k))
  BY <1>1, <1>3, <1>5, MatchesOccurs
<1>8. Occurs(entry) => Occurs(Append(entry, k))
  BY <1>1, OccursAppend
<1> QED BY <1>4, <1>5, <1>6, <1>7, <1>8 DEF Enabled

LEMMA EntryInv ==
  ASSUME K_TypeOK, the_position = Len(entry), EntryHeld, [Next]_vars
  PROVE  the_position' = Len(entry') /\ EntryHeld'
<1> USE KeypadAssumption
<1>1. CASE PollKey
  <2>1. PICK k \in Key \ {Enter}, stray \in BOOLEAN :
          /\ Taken(k, stray)
          /\ the_position' = the_position + 1
          /\ enable_door_lock' = Enabled(stray)
          /\ entry' = Append(entry, k)
    BY <1>1 DEF PollKey
  <2>2. the_position' = Len(entry')
    BY <2>1, AppendProperties DEF K_TypeOK
  <2>3. the_position' <= BufSize =>
          /\ \A i \in 1..the_position' : password'[i - 1] = entry'[i]
          /\ enable_door_lock' <=> Occurs(entry')
    BY <2>1, TurnHolds
  <2> QED BY <2>2, <2>3 DEF EntryHeld, Occurs
<1>2. CASE PollEnter
  <2>1. the_position' = 0 /\ entry' = <<>> /\ enable_door_lock' = FALSE
    BY <1>2 DEF PollEnter
  <2>2. the_position' = Len(entry') /\ 1..the_position' = {}
    BY <2>1, EmptySeq
  <2>3. ~Occurs(entry')
    BY <2>1, OccursEmpty
  <2> QED BY <2>1, <2>2, <2>3 DEF EntryHeld, Occurs
<1>3. CASE UNCHANGED <<password, the_position, enable_door_lock, entry>>
  BY <1>3 DEF EntryHeld, Occurs
<1> QED
  BY <1>1, <1>2, <1>3
  DEF Next, vars, keypadVars, Keypad, K_Next, Tick, Glitch, Click, PollEmpty, Task_keypad_input,
      Reader, Task_for_fingerprint,
      TaskSends, AskVfyPwd, AskTempleteNum, AskGR_Auto, ReadVfyPwd, ReadTempleteNum, ReadGR_Auto,
      CallbackOpens, app_mqtt_publish, app_mqtt_start, MqttHello, ClientConnects, ConnectEnds,
      BrokerLost

LEMMA KeypadInvInit == Init => KeypadInv
<1>1. Init => Len(<<>>) = 0 /\ ~Occurs(<<>>) /\ 1..0 = {}
  BY EmptySeq, OccursEmpty
<1> QED BY <1>1 DEF Init, K_Init, KeypadInv, NoKeyLost, EntryHeld, Occurs

LEMMA KeypadInvStep ==
  ASSUME K_TypeOK, KeypadInv, [Next]_vars
  PROVE  KeypadInv'
BY QueueInv, EntryInv DEF KeypadInv, Room

(* The types of the keypad's state and its invariant, for every pad,       *)
(* secret and size.                                                        *)
THEOREM KeypadInvariant == Spec => [](K_TypeOK /\ KeypadInv)
BY KeypadTypeInit, KeypadType, KeypadInvInit, KeypadInvStep, PTL DEF Spec

(* No key is lost to a full queue of two or more.                          *)
THEOREM NoKeyLostAlways == Spec => []NoKeyLost
BY KeypadInvariant, PTL DEF KeypadInv

(* password holds what was typed and the door is enabled just for the      *)
(* secret, as long as the entry fits.                                      *)
THEOREM EntryHeldAlways == Spec => []EntryHeld
BY KeypadInvariant, PTL DEF KeypadInv

-----------------------------------------------------------------------------
(* The latch.                                                              *)

LEMMA EnterAddsNothing ==
  ASSUME NEW e \in Seq(Key), Occurs(Append(e, Enter))
  PROVE  Occurs(e)
<1> USE KeypadAssumption
<1> DEFINE f == Append(e, Enter)
<1>1. Len(e) \in Nat /\ Len(Secret) \in Nat /\ Len(Secret) > 0
  BY LenProperties, EmptySeq
<1>2. Len(f) = Len(e) + 1 /\ f[Len(e) + 1] = Enter /\ \A n \in 1..Len(e) : f[n] = e[n]
  BY AppendProperties
<1>3. PICK i \in 0..Len(f) : /\ i + Len(Secret) <= Len(f)
                             /\ \A j \in 1..Len(Secret) : f[i + j] = Secret[j]
  BY DEF Occurs
<1>4. i + Len(Secret) # Len(e) + 1
  <2>1. SUFFICES ASSUME i + Len(Secret) = Len(e) + 1 PROVE FALSE
    OBVIOUS
  <2>2. Len(Secret) \in 1..Len(Secret)
    BY <1>1
  <2>3. Secret[Len(Secret)] = Enter
    BY <1>2, <1>3, <2>1, <2>2
  <2>4. Secret[Len(Secret)] \in Key \ {Enter}
    BY <2>2, ElementOfSeq
  <2> QED BY <2>3, <2>4
<1>5. i \in 0..Len(e) /\ i + Len(Secret) <= Len(e)
  BY <1>1, <1>2, <1>3, <1>4
<1>6. \A j \in 1..Len(Secret) : i + j \in 1..Len(e)
  BY <1>1, <1>5
<1> QED BY <1>2, <1>3, <1>5, <1>6 DEF Occurs

LEMMA LatchInit == Init => Latch!Init
BY DEF Init, K_Init, Latch!Init

LEMMA LatchStep ==
  ASSUME K_TypeOK, KeypadInv, [Next]_vars
  PROVE  [Latch!Next]_<<entry, pin>>
<1> USE KeypadAssumption
<1>1. CASE PollKey
  <2>1. PICK k \in Key \ {Enter} : entry' = Append(entry, k) /\ UNCHANGED pin
    BY <1>1 DEF PollKey
  <2> QED BY <2>1 DEF Latch!Next, Latch!Type
<1>2. CASE PollEnter
  <2>1. PICK stray \in BOOLEAN :
          /\ Taken(Enter, stray)
          /\ pin' = IF Enabled(stray) THEN 1 ELSE 0
          /\ entry' = <<>>
    BY <1>2 DEF PollEnter
  <2>2. ASSUME Len(entry) < BufSize
        PROVE  pin' = IF Occurs(entry) THEN 1 ELSE 0
    <3>1. entry \in Seq(Key) /\ Len(entry) \in Nat /\ the_position = Len(entry) /\ EntryHeld
      BY LenProperties DEF K_TypeOK, KeypadInv
    <3>2. the_position + 1 <= BufSize
      BY <2>2, <3>1
    <3>3. Enabled(stray) <=> Occurs(Append(entry, Enter))
      BY <2>1, <3>1, <3>2, TurnHolds
    <3>4. Occurs(Append(entry, Enter)) <=> Occurs(entry)
      BY <3>1, OccursAppend, EnterAddsNothing
    <3> QED BY <2>1, <3>3, <3>4
  <2>3. Latch!Submit
    BY <2>1, <2>2 DEF Latch!Submit, Latch!Occurs, Occurs
  <2> QED BY <2>3 DEF Latch!Next
<1>3. CASE CallbackOpens
  BY <1>3 DEF CallbackOpens, Latch!Next, Latch!Finger
<1>4. CASE UNCHANGED <<entry, pin>>
  BY <1>4
<1> QED
  BY <1>1, <1>2, <1>3, <1>4
  DEF Next, vars, keypadVars, Keypad, K_Next, Tick, Glitch, Click, PollEmpty, Task_keypad_input,
      Reader, Task_for_fingerprint,
      TaskSends, AskVfyPwd, AskTempleteNum, AskGR_Auto, ReadVfyPwd, ReadTempleteNum, ReadGR_Auto,
      app_mqtt_publish, app_mqtt_start, MqttHello, ClientConnects, ConnectEnds, BrokerLost

(* The door lock implements PasswordLatch: keys, finger, reader and broker *)
(* in any order move the latch as it says, for every secret and size.      *)
THEOREM LatchImplemented == Spec => ImplementsLatch
<1>1. [Next]_vars /\ K_TypeOK /\ KeypadInv => [Latch!Next]_<<entry, pin>>
  BY LatchStep
<1> QED BY <1>1, LatchInit, KeypadInvariant, PTL DEF Spec, ImplementsLatch, Latch!Spec

-----------------------------------------------------------------------------
(* The finger's task.                                                      *)

LEMMA WorkTyped ==
  ASSUME J_TypeOK, reader # Nothing
  PROVE  /\ reader \in Work
         /\ reader.instr \in Instr /\ reader.par \in Param /\ reader.own \in BOOLEAN
         /\ reader.ok \in BOOLEAN /\ reader.fresh \in BOOLEAN
BY DEF J_TypeOK, Work, Param

LEMMA SendType ==
  ASSUME J_TypeOK, NEW frame, frame.instr \in Instr, Accepted(frame) \in BOOLEAN, Send(frame)
  PROVE  J_TypeOK'
<1>1. rx' \in Seq(Answer)
  <2>1. rx' = [i \in 1..Len(rx) |-> [rx[i] EXCEPT !.own = FALSE]]
    BY DEF Send
  <2>2. \A i \in 1..Len(rx) : rx[i] \in Answer
    BY ElementOfSeq DEF J_TypeOK
  <2>3. \A i \in 1..Len(rx) : [rx[i] EXCEPT !.own = FALSE] \in Answer
    BY <2>2 DEF Answer
  <2>4. Len(rx) \in Nat
    BY LenProperties DEF J_TypeOK
  <2> QED BY <2>1, <2>3, <2>4, IsASeq
<1>2. reader' \in Work \cup {Nothing}
  <2>1. CASE reader' = [instr |-> frame.instr, ok |-> Accepted(frame), par |-> 0, fresh |-> TRUE, own |-> TRUE]
    BY <2>1 DEF Work
  <2>2. CASE reader' = IF reader = Nothing THEN Nothing ELSE [reader EXCEPT !.own = FALSE]
    <3>1. CASE reader = Nothing
      BY <2>2, <3>1
    <3>2. CASE reader # Nothing
      <4>1. [reader EXCEPT !.own = FALSE] \in Work
        BY <3>2, WorkTyped DEF Work
      <4> QED BY <2>2, <3>2, <4>1
    <3> QED BY <3>1, <3>2
  <2> QED BY <2>1, <2>2 DEF Send
<1>3. /\ request' \in Instr \cup {None} /\ late' \in BOOLEAN /\ origin' \in Origins
      /\ UNCHANGED <<torn, confirmation, calls, callback>>
  BY DEF Send, J_TypeOK, Silent, Origins
<1> QED BY <1>1, <1>2, <1>3 DEF J_TypeOK

LEMMA CallsRange == ASSUME NEW i, NEW c, NEW p PROVE Calls(i, c, p) \in 0..2
BY DEF Calls

LEMMA ReadType ==
  ASSUME J_TypeOK, NEW cut \in BOOLEAN, Read(cut)
  PROVE  /\ request' \in Instr \cup {None} /\ reader' \in Work \cup {Nothing}
         /\ rx' \in Seq(Answer) /\ torn' \in BOOLEAN /\ confirmation' \in Code
         /\ calls' \in 0..2 /\ late' \in BOOLEAN /\ origin' \in Origins
<1> USE Jm101Assumption
<1>1. /\ request' \in Instr \cup {None} /\ reader' \in Work \cup {Nothing}
      /\ rx' \in Seq(Answer) /\ torn' \in BOOLEAN /\ late' \in BOOLEAN
  BY EmptySeq DEF Read, J_TypeOK, Drained
<1>2. CASE rx = <<>> /\ ~torn
  BY <1>1, <1>2 DEF Read, Origins
<1>3. CASE ~(rx = <<>> /\ ~torn)
  <2>1. PICK code \in Code, par \in Param :
          /\ confirmation' = code
          /\ calls' = Calls(request, code, par)
          /\ origin' = IF ~Whole(cut) THEN "torn"
                       ELSE IF Head(rx).own THEN "own" ELSE "another"
    BY <1>3 DEF Read
  <2> QED BY <1>1, <2>1, CallsRange DEF Origins
<1> QED BY <1>2, <1>3

LEMMA AnswerType ==
  ASSUME J_TypeOK, ReaderAnswers
  PROVE  J_TypeOK'
<1> USE Jm101Assumption
<1>1. PICK code \in Code, par \in Param :
        /\ rx' = Append(rx, [instr |-> reader.instr, code |-> code, par |-> par, own |-> reader.own])
        /\ reader' = IF reader.instr = 50 /\ code = 0 /\ par # 5
                       THEN [reader EXCEPT !.par = par, !.fresh = FALSE]
                       ELSE Nothing
  BY DEF ReaderAnswers
<1>2. reader # Nothing
  BY DEF ReaderAnswers
<1>3. rx' \in Seq(Answer)
  <2>1. [instr |-> reader.instr, code |-> code, par |-> par, own |-> reader.own] \in Answer
    BY <1>2, WorkTyped DEF Answer
  <2> QED BY <1>1, <2>1, AppendProperties DEF J_TypeOK
<1>4. reader' \in Work \cup {Nothing}
  <2>1. [reader EXCEPT !.par = par, !.fresh = FALSE] \in Work
    BY <1>2, WorkTyped DEF Work, Param
  <2> QED BY <1>1, <2>1
<1>5. late' \in BOOLEAN
  BY DEF ReaderAnswers
<1> QED BY <1>3, <1>4, <1>5 DEF ReaderAnswers, J_TypeOK

(* What is left of the types: the task's own.                              *)
TaskTypeOK ==
  /\ fpc \in {"verify", "count", "auto", "ended"}
  /\ publishing \in BOOLEAN
  /\ mpc \in {"start", "publish", "ended"}
  /\ client \in {"init", "waiting", "connecting", "connected"}
  /\ fault \in BOOLEAN

LEMMA LockType ==
  ASSUME J_TypeOK, TaskTypeOK, FingerInv, [Next]_vars
  PROVE  J_TypeOK' /\ TaskTypeOK'
<1> USE Jm101Assumption
<1>1. ASSUME NEW frame, TaskSends(frame), frame.instr \in Instr, Accepted(frame) \in BOOLEAN
      PROVE  J_TypeOK' /\ TaskTypeOK'
  BY <1>1, SendType DEF TaskSends, taskVars, TaskTypeOK
<1>2. CASE AskVfyPwd \/ AskTempleteNum \/ AskGR_Auto
  <2>1. VfyPwd(Password).instr \in Instr /\ TempleteNum.instr \in Instr /\ GR_Auto.instr \in Instr
    BY LockFrames DEF Instr
  <2>2. Accepted(VfyPwd(Password)) \in BOOLEAN /\ Accepted(TempleteNum) \in BOOLEAN /\ Accepted(GR_Auto) \in BOOLEAN
    BY DEF Accepted
  <2> QED BY <1>1, <1>2, <2>1, <2>2 DEF AskVfyPwd, AskTempleteNum, AskGR_Auto
<1>3. ASSUME jm101_reponse, callback' \in BOOLEAN
      PROVE  J_TypeOK'
  BY <1>3, ReadType DEF jm101_reponse, J_TypeOK
<1>4. CASE ReadVfyPwd
  BY <1>3, <1>4 DEF ReadVfyPwd, set_fingerprint_confirm_callback, TaskTypeOK, J_TypeOK
<1>5. CASE ReadTempleteNum
  BY <1>3, <1>5 DEF ReadTempleteNum, TaskTypeOK, J_TypeOK
<1>6. CASE ReadGR_Auto
  BY <1>3, <1>6 DEF ReadGR_Auto, taskVars, TaskTypeOK, J_TypeOK
<1>7. CASE CallbackOpens
  BY <1>7 DEF CallbackOpens, jmVars, TaskTypeOK, J_TypeOK
<1>8. CASE app_mqtt_publish
  <2>1. calls' \in 0..2
    BY <1>8 DEF app_mqtt_publish, FingerInv, J_TypeOK
  <2> QED BY <1>8, <2>1 DEF app_mqtt_publish, TaskTypeOK, J_TypeOK
<1>9. CASE Reader
  BY <1>9, AnswerType DEF Reader, taskVars, TaskTypeOK
<1>10. CASE app_mqtt_start \/ MqttHello \/ ClientConnects \/ ConnectEnds \/ BrokerLost
  BY <1>10 DEF app_mqtt_start, MqttHello, ClientConnects, ConnectEnds, BrokerLost, jmVars,
               TaskTypeOK, J_TypeOK
<1>11. CASE UNCHANGED <<jmVars, taskVars>>
  BY <1>11 DEF jmVars, taskVars, TaskTypeOK, J_TypeOK
<1> QED
  BY <1>2, <1>4, <1>5, <1>6, <1>7, <1>8, <1>9, <1>10, <1>11
  DEF Next, vars, Keypad, Task_for_fingerprint

(* The command the task waits for.                                         *)
Awaits == CASE fpc = "verify" -> 19 [] fpc = "count" -> 29
            [] fpc = "auto" -> 50 [] fpc = "ended" -> None

LEMMA AwaitsCases ==
  /\ fpc = "verify" => Awaits = 19
  /\ fpc = "count" => Awaits = 29
  /\ fpc = "auto" => Awaits = 50
  /\ fpc = "ended" => Awaits = None
BY DEF Awaits

LEMMA NextAwaitsCases ==
  /\ fpc' = "verify" => Awaits' = 19
  /\ fpc' = "count" => Awaits' = 29
  /\ fpc' = "auto" => Awaits' = 50
  /\ fpc' = "ended" => Awaits' = None
BY DEF Awaits

(* What only the line and its history are about.                           *)
LineInv ==
  /\ NoFrameRefused
  /\ OwnAnswer
  /\ ~late => /\ ~torn
              /\ \A i \in 1..Len(rx) : rx[i].own
              /\ request = None => rx = <<>>

LEMMA LineSend ==
  ASSUME J_TypeOK, LineInv, NEW frame, frame.instr \in Instr, Accepted(frame), Send(frame)
  PROVE  LineInv'
<1>1. NoFrameRefused'
  <2>1. CASE reader' = [instr |-> frame.instr, ok |-> Accepted(frame), par |-> 0, fresh |-> TRUE, own |-> TRUE]
    BY <2>1 DEF NoFrameRefused
  <2>2. CASE reader' = IF reader = Nothing THEN Nothing ELSE [reader EXCEPT !.own = FALSE]
    <3>1. CASE reader = Nothing
      BY <2>2, <3>1 DEF NoFrameRefused, Nothing
    <3>2. CASE reader # Nothing
      BY <2>2, <3>2, WorkTyped DEF LineInv, NoFrameRefused, Work
    <3> QED BY <3>1, <3>2
  <2> QED BY <2>1, <2>2 DEF Send
<1>2. OwnAnswer'
  BY DEF Send, OwnAnswer
<1>3. ~late' => ~torn' /\ rx' = <<>>
  <2>1. SUFFICES ASSUME ~late' PROVE ~torn' /\ rx' = <<>>
    OBVIOUS
  <2>2. ~torn /\ rx = <<>>
    BY <2>1 DEF Send, Silent, LineInv
  <2>3. Len(rx) = 0
    BY <2>2, EmptySeq
  <2> QED BY <2>2, <2>3 DEF Send
<1>4. request' # None
  BY DEF Send, Instr, None
<1>5. ~late' => \A i \in 1..Len(rx') : rx'[i].own
  BY <1>3, EmptySeq
<1> QED BY <1>1, <1>2, <1>3, <1>4, <1>5 DEF LineInv

LEMMA LineRead ==
  ASSUME J_TypeOK, LineInv, jm101_reponse
  PROVE  /\ LineInv'
         /\ calls' > 0 => /\ request = 50 /\ confirmation' = 0
                          /\ ~late' => origin' = "own"
<1>1. PICK cut \in BOOLEAN : Read(cut)
  BY DEF jm101_reponse
<1>2. reader' = reader /\ rx' = <<>> /\ request' = None /\ torn' = cut /\ late' = (late \/ cut)
  BY <1>1 DEF Read, Drained
<1>3. NoFrameRefused'
  BY <1>2 DEF LineInv, NoFrameRefused
<1>4. ~late' => ~torn' /\ ~late /\ ~cut /\ ~torn
  BY <1>2, Zenon DEF LineInv
<1>5. /\ OwnAnswer'
      /\ calls' > 0 => /\ request = 50 /\ confirmation' = 0
                       /\ ~late' => origin' = "own"
  <2>1. CASE rx = <<>> /\ ~torn
    BY <1>1, <2>1 DEF Read, OwnAnswer
  <2>2. CASE ~(rx = <<>> /\ ~torn)
    <3>1. PICK code \in Code, par \in Param :
            /\ confirmation' = code
            /\ calls' = Calls(request, code, par)
            /\ origin' = IF ~Whole(cut) THEN "torn"
                         ELSE IF Head(rx).own THEN "own" ELSE "another"
      BY <1>1, <2>2 DEF Read
    <3>2. calls' > 0 => request = 50 /\ confirmation' = 0
      <4>1. request \in Instr \cup {None}
        BY DEF J_TypeOK
      <4> QED BY <3>1, <4>1 DEF Calls, Instr, None
    <3>3. ~late' => origin' = "own"
      <4>1. SUFFICES ASSUME ~late' PROVE origin' = "own"
        OBVIOUS
      <4>2. rx # <<>> /\ Whole(cut)
        BY <1>4, <2>2, <4>1 DEF Whole
      <4>3. 1 \in 1..Len(rx) /\ Head(rx) = rx[1]
        BY <4>2, EmptySeq, LenProperties DEF J_TypeOK
      <4>4. Head(rx).own
        BY <1>4, <4>1, <4>3 DEF LineInv
      <4> QED BY <3>1, <4>2, <4>4
    <3> QED BY <3>2, <3>3 DEF OwnAnswer
  <2> QED BY <2>1, <2>2
<1>6. 1..Len(rx') = {}
  BY <1>2, EmptySeq
<1> QED BY <1>2, <1>3, <1>4, <1>5, <1>6 DEF LineInv

LEMMA LineAnswer ==
  ASSUME J_TypeOK, LineInv, ReaderAnswers
  PROVE  LineInv'
<1>1. PICK code \in Code, par \in Param :
        /\ rx' = Append(rx, [instr |-> reader.instr, code |-> code, par |-> par, own |-> reader.own])
        /\ reader' = IF reader.instr = 50 /\ code = 0 /\ par # 5
                       THEN [reader EXCEPT !.par = par, !.fresh = FALSE]
                       ELSE Nothing
  BY DEF ReaderAnswers
<1>2. reader # Nothing /\ late' = (late \/ request = None \/ ~reader.own)
      /\ UNCHANGED <<request, torn, origin>>
  BY DEF ReaderAnswers
<1>3. NoFrameRefused'
  <2>1. reader \in Work /\ reader.ok
    BY <1>2, WorkTyped DEF LineInv, NoFrameRefused
  <2>2. [reader EXCEPT !.par = par, !.fresh = FALSE].ok = reader.ok
    BY <2>1 DEF Work
  <2> QED BY <1>1, <2>1, <2>2 DEF NoFrameRefused
<1>4. ~late' => ~late /\ request # None /\ reader.own
  BY <1>2, Zenon
<1>5. OwnAnswer'
  BY <1>2, <1>4 DEF LineInv, OwnAnswer
<1>6. ~late' => \A i \in 1..Len(rx') : rx'[i].own
  <2> DEFINE a == [instr |-> reader.instr, code |-> code, par |-> par, own |-> reader.own]
  <2>1. a \in Answer
    BY <1>2, WorkTyped DEF Answer
  <2>2. Len(rx') = Len(rx) + 1 /\ rx'[Len(rx) + 1] = a /\ \A i \in 1..Len(rx) : rx'[i] = rx[i]
    BY <1>1, <2>1, AppendProperties DEF J_TypeOK
  <2>3. a.own = reader.own
    OBVIOUS
  <2>4. Len(rx) \in Nat
    BY LenProperties DEF J_TypeOK
  <2>5. SUFFICES ASSUME ~late', NEW i \in 1..Len(rx') PROVE rx'[i].own
    OBVIOUS
  <2>6. CASE i \in 1..Len(rx)
    BY <1>4, <2>2, <2>5, <2>6 DEF LineInv
  <2>7. CASE i = Len(rx) + 1
    BY <1>4, <2>2, <2>3, <2>5, <2>7
  <2> QED BY <2>2, <2>4, <2>6, <2>7
<1> QED BY <1>2, <1>3, <1>4, <1>5, <1>6 DEF LineInv

(* What the task itself keeps.                                             *)
TaskInv ==
  /\ CallbackIsSet
  /\ OpensForGR_Auto
  /\ request \in {None, Awaits}
  /\ fpc \in {"count", "auto"} => callback
  /\ calls > 0 => request = None
  /\ publishing => calls > 0

LEMMA FingerParts == FingerInv <=> LineInv /\ TaskInv
BY DEF FingerInv, LineInv, TaskInv, Awaits

LEMMA LineStep ==
  ASSUME J_TypeOK, LineInv, [Next]_vars
  PROVE  LineInv'
<1>1. CASE AskVfyPwd
  BY <1>1, LockFrames, LineSend DEF AskVfyPwd, TaskSends, Instr
<1>2. CASE AskTempleteNum
  BY <1>2, LockFrames, LineSend DEF AskTempleteNum, TaskSends, Instr
<1>3. CASE AskGR_Auto
  BY <1>3, LockFrames, LineSend DEF AskGR_Auto, TaskSends, Instr
<1>4. CASE ReadVfyPwd \/ ReadTempleteNum \/ ReadGR_Auto
  BY <1>4, LineRead DEF ReadVfyPwd, ReadTempleteNum, ReadGR_Auto
<1>5. CASE Reader
  BY <1>5, LineAnswer DEF Reader
<1>6. CASE UNCHANGED <<reader, late, origin, torn, rx, request>>
  BY <1>6 DEF LineInv, NoFrameRefused, OwnAnswer
<1> QED
  BY <1>1, <1>2, <1>3, <1>4, <1>5, <1>6
  DEF Next, vars, jmVars, Keypad, Task_for_fingerprint, CallbackOpens, app_mqtt_publish,
      app_mqtt_start, MqttHello, ClientConnects, ConnectEnds, BrokerLost

LEMMA TaskStep ==
  ASSUME J_TypeOK, TaskTypeOK, LineInv, TaskInv, [Next]_vars
  PROVE  TaskInv'
<1>1. ASSUME NEW frame, TaskSends(frame), frame.instr = Awaits
      PROVE  TaskInv'
  <2>1. request' = Awaits' /\ calls = 0 /\ calls' = 0 /\ fpc' = fpc /\ callback' = callback
        /\ publishing' = publishing /\ fault' = fault
    BY <1>1 DEF TaskSends, Send, taskVars, Awaits
  <2> QED BY <2>1 DEF TaskInv, CallbackIsSet, OpensForGR_Auto
<1>2. CASE AskVfyPwd
  BY <1>1, <1>2, LockFrames, AwaitsCases DEF AskVfyPwd
<1>3. CASE AskTempleteNum
  BY <1>1, <1>3, LockFrames, AwaitsCases DEF AskTempleteNum
<1>4. CASE AskGR_Auto
  BY <1>1, <1>4, LockFrames, AwaitsCases DEF AskGR_Auto
<1>5. ASSUME jm101_reponse
      PROVE  request' = None /\ request # None /\ request = Awaits /\ calls = 0
  BY <1>5 DEF jm101_reponse, Read, TaskInv, J_TypeOK
<1>6. CASE ReadVfyPwd
  <2>1. request = 19 /\ jm101_reponse
    BY <1>5, <1>6, AwaitsCases DEF ReadVfyPwd
  <2>2. ~(calls' > 0)
    BY <2>1, LineRead
  <2>3. fault' = fault /\ publishing' = publishing /\ ~publishing
    BY <1>5, <2>1, <1>6 DEF ReadVfyPwd, TaskInv
  <2>4. fpc' \in {"count", "auto"} => callback'
    BY <1>6 DEF ReadVfyPwd, set_fingerprint_confirm_callback
  <2> QED BY <1>5, <2>1, <2>2, <2>3, <2>4 DEF TaskInv, CallbackIsSet, OpensForGR_Auto
<1>7. CASE ReadTempleteNum
  <2>1. request = 29 /\ jm101_reponse /\ callback
    BY <1>5, <1>7, AwaitsCases DEF ReadTempleteNum, TaskInv
  <2>2. ~(calls' > 0)
    BY <2>1, LineRead
  <2>3. fault' = fault /\ publishing' = publishing /\ ~publishing /\ callback' = callback
    BY <1>5, <2>1, <1>7 DEF ReadTempleteNum, TaskInv
  <2> QED BY <1>5, <2>1, <2>2, <2>3 DEF TaskInv, CallbackIsSet, OpensForGR_Auto
<1>8. CASE ReadGR_Auto
  <2>1. jm101_reponse /\ fpc = "auto" /\ fpc' = "auto"
    BY <1>8 DEF ReadGR_Auto, taskVars
  <2>2. calls' > 0 => confirmation' = 0 /\ (~late' => origin' = "own")
    BY <2>1, LineRead
  <2>3. fault' = fault /\ publishing' = publishing /\ ~publishing /\ callback' = callback
    BY <1>5, <2>1, <1>8 DEF ReadGR_Auto, taskVars, TaskInv
  <2> QED BY <1>5, <2>1, <2>2, <2>3 DEF TaskInv, CallbackIsSet, OpensForGR_Auto
<1>9. CASE CallbackOpens
  <2>1. callback
    BY <1>9 DEF CallbackOpens, TaskInv, OpensForGR_Auto
  <2> QED BY <1>9, <2>1 DEF CallbackOpens, jmVars, TaskInv, CallbackIsSet, OpensForGR_Auto, Awaits
<1>10. CASE app_mqtt_publish
  <2>1. /\ calls \in 0..2 /\ calls > 0 /\ calls' = calls - 1 /\ ~publishing'
        /\ UNCHANGED <<request, confirmation, callback, late, origin, fpc, fault>>
    BY <1>10 DEF app_mqtt_publish, TaskInv, J_TypeOK
  <2> QED BY <2>1 DEF TaskInv, CallbackIsSet, OpensForGR_Auto, Awaits
<1>11. CASE Reader
  <2>1. /\ UNCHANGED <<request, confirmation, calls, callback, origin, fpc, publishing, fault>>
        /\ late' = (late \/ request = None \/ ~reader.own)
    BY <1>11 DEF Reader, ReaderAnswers, taskVars
  <2> QED BY <2>1 DEF TaskInv, CallbackIsSet, OpensForGR_Auto, Awaits
<1>12. CASE UNCHANGED <<jmVars, fpc, publishing, fault>>
  BY <1>12 DEF jmVars, TaskInv, CallbackIsSet, OpensForGR_Auto, Awaits
<1> QED
  BY <1>2, <1>3, <1>4, <1>6, <1>7, <1>8, <1>9, <1>10, <1>11, <1>12
  DEF Next, vars, taskVars, Keypad, Task_for_fingerprint, app_mqtt_start, MqttHello,
      ClientConnects, ConnectEnds, BrokerLost

LEMMA FingerInit == Init => J_TypeOK /\ TaskTypeOK /\ LineInv /\ TaskInv
<1> USE Jm101Assumption
<1>1. Init => J_TypeOK /\ TaskTypeOK
  <2>1. <<>> \in Seq(Answer) /\ 1 \in Code
    BY EmptySeq
  <2>2. Init => J_TypeOK
    <3>1. SUFFICES ASSUME J_Init PROVE J_TypeOK
      BY DEF Init
    <3>2. request \in Instr \cup {None} /\ reader \in Work \cup {Nothing} /\ rx \in Seq(Answer)
      BY <2>1, <3>1 DEF J_Init
    <3>3. torn \in BOOLEAN /\ callback \in BOOLEAN /\ late \in BOOLEAN
      BY <3>1, Zenon DEF J_Init
    <3>4. calls \in 0..2 /\ confirmation \in Code /\ origin \in Origins
      BY <2>1, <3>1 DEF J_Init, Origins
    <3> QED BY <3>2, <3>3, <3>4 DEF J_TypeOK
  <2>3. Init => TaskTypeOK
    BY DEF Init, TaskTypeOK
  <2> QED BY <2>2, <2>3
<1>2. 1..Len(<<>>) = {}
  BY EmptySeq
<1>3. Init => LineInv /\ TaskInv
  BY <1>2 DEF Init, J_Init, LineInv, TaskInv, NoFrameRefused, OwnAnswer, CallbackIsSet,
              OpensForGR_Auto
<1> QED BY <1>1, <1>3

LEMMA FingerStep ==
  ASSUME J_TypeOK, TaskTypeOK, FingerInv, [Next]_vars
  PROVE  J_TypeOK' /\ TaskTypeOK' /\ FingerInv'
<1>1. LineInv /\ TaskInv
  BY FingerParts
<1>2. LineInv' /\ TaskInv'
  BY <1>1, LineStep, TaskStep
<1>3. FingerInv'
  BY <1>2 DEF FingerInv, LineInv, TaskInv, Awaits
<1> QED BY <1>3, LockType

(* The inductive invariant of the whole lock.                              *)
THEOREM DoorInvariant == Spec => [](D_TypeOK /\ DoorInv)
<1>1. Init => J_TypeOK /\ TaskTypeOK /\ FingerInv
  BY FingerInit, FingerParts
<1>2. Spec => [](J_TypeOK /\ TaskTypeOK /\ FingerInv)
  BY <1>1, FingerStep, PTL DEF Spec
<1>3. K_TypeOK /\ J_TypeOK /\ TaskTypeOK => D_TypeOK
  BY DEF D_TypeOK, TaskTypeOK
<1> QED BY <1>2, <1>3, KeypadInvariant, PTL DEF DoorInv

(* The reader refuses no command of the lock, for every password the       *)
(* checksum can carry.                                                     *)
THEOREM NoFrameRefusedAlways == Spec => []NoFrameRefused
BY DoorInvariant, PTL DEF DoorInv, FingerInv

(* A command is never given the answer of another while every answer comes *)
(* in time, and again from the first silence after one that did not.       *)
THEOREM OwnAnswerAlways == Spec => []OwnAnswer
BY DoorInvariant, PTL DEF DoorInv, FingerInv

(* The parser's callback is there when it is called, late answers or not.  *)
THEOREM CallbackIsSetAlways == Spec => []CallbackIsSet
BY DoorInvariant, PTL DEF DoorInv, FingerInv

(* The finger's task opens for a successful GR_Auto alone.                 *)
THEOREM OpensForGR_AutoAlways == Spec => []OpensForGR_Auto
BY DoorInvariant, PTL DEF DoorInv, FingerInv

=============================================================================
