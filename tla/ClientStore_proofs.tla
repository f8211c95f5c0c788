-------------------------- MODULE ClientStore_proofs --------------------------
(***************************************************************************)
(* The theorems about what a client node remembers, for every set of keys, *)
(* every modulus of the identifiers and every number of operations, SETs,  *)
(* power cycles and failures.                                              *)
(***************************************************************************)
EXTENDS ClientStore, TLAPS

Inv == TypeOK /\ StoreInv /\ NetKeyInUse

(* The identifier after t is one, and another one.                         *)
LEMMA NextTidIsNew ==
  ASSUME NEW t \in Tid PROVE NextTid(t) \in Tid /\ NextTid(t) # t
BY StoreAssumption DEF NextTid, Tid

(* Assigning one field of the struct gives a struct and leaves the others. *)
LEMMA InfoUpdate ==
  ASSUME NEW s \in Info
  PROVE  /\ \A n \in NetKey \cup {KEY_UNUSED} : LET u == [s EXCEPT !.net_idx = n] IN
              u \in Info /\ u.net_idx = n /\ u.app_idx = s.app_idx /\ u.tid = s.tid
         /\ \A k \in AppKey : LET u == [s EXCEPT !.app_idx = k] IN
              u \in Info /\ u.app_idx = k /\ u.net_idx = s.net_idx /\ u.tid = s.tid
         /\ \A t \in Tid : LET u == [s EXCEPT !.tid = t] IN
              u \in Info /\ u.tid = t /\ u.net_idx = s.net_idx /\ u.app_idx = s.app_idx
BY DEF Info

(* The struct app_main starts with.                                        *)
LEMMA BlankInfo == Blank \in Info
BY StoreAssumption DEF Blank, Info, Tid

(* A device fresh from the factory satisfies the invariant.                *)
LEMMA InitInv == Init => Inv
BY BlankInfo, StoreAssumption
   DEF Init, Inv, TypeOK, StoreInv, BusyOnlyRestored, BoundOnlyInNetwork,
       RegisteringInNetwork, BoundKeyKept, FreshTid, NetKeyInUse, Restored

(* Every step keeps the types.                                             *)
LEMMA NextType == TypeOK /\ [Next]_vars => TypeOK'
<1> SUFFICES ASSUME TypeOK, [Next]_vars PROVE TypeOK'
  OBVIOUS
<1> USE StoreAssumption DEF TypeOK, BluetoothGoes, Fault, Configure
<1>1. CASE Boot BY <1>1, BlankInfo DEF Boot, node, hist
<1>2. CASE ProvCompleteAtBoot BY <1>2, InfoUpdate DEF ProvCompleteAtBoot, node, hist, counts
<1>3. CASE RegisterComplete
  <2>1. store' \in Info BY <1>3 DEF RegisterComplete
  <2>2. mishaps' \subseteq {"unread", "unsaved", "wrapped"} BY <1>3 DEF RegisterComplete
  <2>3. bpc' = "idle" /\ faults' \in 0..MaxFault BY <1>3 DEF RegisterComplete
  <2>4. QED BY <1>3, <2>1, <2>2, <2>3 DEF RegisterComplete, node, hist
<1>4. CASE PowerCycle
  <2>1. mishaps' \subseteq {"unread", "unsaved", "wrapped"} BY <1>4 DEF PowerCycle
  <2>2. crashes' \in 0..MaxCrash BY <1>4 DEF PowerCycle
  <2>3. QED BY <1>4, <2>1, <2>2 DEF PowerCycle, node, hist
<1>5. ASSUME NEW n \in NetKey, Join(n) PROVE TypeOK' BY <1>5, InfoUpdate DEF Join, hist
<1>6. CASE Leave BY <1>6 DEF Leave
<1>7. ASSUME NEW k \in AppKey, Bind(k) PROVE TypeOK' BY <1>7, InfoUpdate DEF Bind
<1>8. CASE BindStore
  <2>1. mishaps' \subseteq {"unread", "unsaved", "wrapped"} BY <1>8 DEF BindStore
  <2>2. flash' \in Info \cup {NoInfo} /\ faults' \in 0..MaxFault BY <1>8 DEF BindStore
  <2>3. QED BY <1>8, <2>1, <2>2 DEF BindStore, node, hist
<1>9. ASSUME NEW k \in AppKey, Unbind(k) PROVE TypeOK' BY <1>9 DEF Unbind, hist
<1>10. CASE SendSet
  <2>1. store.tid \in Tid BY DEF Info
  <2>2. store' \in Info BY <1>10, <2>1, NextTidIsNew, InfoUpdate DEF SendSet
  <2>3. mishaps' \subseteq {"unread", "unsaved", "wrapped"} BY <1>10 DEF SendSet
  <2>4. sends' \in 0..MaxSend BY <1>10 DEF SendSet
  <2>5. QED BY <1>10, <2>1, <2>2, <2>3, <2>4 DEF SendSet, node
<1>11. CASE StoreSet
  <2>1. mishaps' \subseteq {"unread", "unsaved", "wrapped"} BY <1>11 DEF StoreSet
  <2>2. flash' \in Info \cup {NoInfo} /\ faults' \in 0..MaxFault BY <1>11 DEF StoreSet
  <2>3. QED BY <1>11, <2>1, <2>2 DEF StoreSet, node, hist
<1>12. CASE UNCHANGED vars BY <1>12 DEF vars, node, hist, counts
<1>13. QED BY <1>1, <1>2, <1>3, <1>4, <1>5, <1>6, <1>7, <1>8, <1>9, <1>10, <1>11, <1>12 DEF Next

(* Every step keeps the bound key, the identifier and the network key.     *)
LEMMA NextInv == Inv /\ [Next]_vars => Inv'
<1> SUFFICES ASSUME Inv, [Next]_vars PROVE Inv'
  OBVIOUS
<1>0. TypeOK /\ TypeOK' /\ store \in Info BY NextType DEF Inv, TypeOK
<1> USE StoreAssumption
    DEF Inv, StoreInv, BusyOnlyRestored, BoundOnlyInNetwork, RegisteringInNetwork,
        BoundKeyKept, FreshTid, NetKeyInUse, Restored, BluetoothGoes, Fault, Configure
<1>1. CASE Boot BY <1>0, <1>1 DEF Boot, node, hist, TypeOK
<1>2. CASE ProvCompleteAtBoot
  <2>1. store' \in Info /\ store'.net_idx = net
    BY <1>0, <1>2, InfoUpdate DEF ProvCompleteAtBoot, TypeOK
  <2>2. QED BY <1>0, <1>2, <2>1 DEF ProvCompleteAtBoot, node, hist, counts
<1>3. CASE RegisterComplete BY <1>0, <1>3, NoInfoAssumption DEF RegisterComplete, node, hist, TypeOK
<1>4. CASE PowerCycle BY <1>0, <1>4 DEF PowerCycle, node, hist, TypeOK
<1>5. ASSUME NEW n \in NetKey, Join(n) PROVE Inv'
  <2>1. store'.net_idx = n /\ store'.app_idx = store.app_idx /\ store'.tid = store.tid
    BY <1>0, <1>5, InfoUpdate DEF Join
  <2>2. QED BY <1>0, <1>5, <2>1 DEF Join, hist
<1>6. CASE Leave BY <1>0, <1>6 DEF Leave
<1>7. ASSUME NEW k \in AppKey, Bind(k) PROVE Inv'
  <2>1. store'.net_idx = store.net_idx /\ store'.app_idx = k /\ store'.tid = store.tid
    BY <1>0, <1>7, InfoUpdate DEF Bind
  <2>2. QED BY <1>0, <1>7, <2>1 DEF Bind
<1>8. CASE BindStore BY <1>0, <1>8, NoInfoAssumption DEF BindStore, node, hist, TypeOK
<1>9. ASSUME NEW k \in AppKey, Unbind(k) PROVE Inv' BY <1>0, <1>9 DEF Unbind, hist
<1>10. CASE SendSet
  <2>1. store.tid \in Tid BY <1>0 DEF Info
  <2>2. store'.net_idx = store.net_idx /\ store'.app_idx = store.app_idx
        /\ store'.tid = NextTid(store.tid) /\ NextTid(store.tid) # store.tid
    BY <1>0, <1>10, <2>1, NextTidIsNew, InfoUpdate DEF SendSet
  <2>3. QED BY <1>0, <1>10, <2>2 DEF SendSet, node, TypeOK
<1>11. CASE StoreSet BY <1>0, <1>11, NoInfoAssumption DEF StoreSet, node, hist, TypeOK
<1>12. CASE UNCHANGED vars BY <1>0, <1>12 DEF vars, node, hist, counts
<1>13. QED BY <1>1, <1>2, <1>3, <1>4, <1>5, <1>6, <1>7, <1>8, <1>9, <1>10, <1>11, <1>12 DEF Next

(* The invariant holds in every reachable state.                           *)
THEOREM Invariance == Spec => []Inv
BY InitInv, NextInv, PTL DEF Spec

-----------------------------------------------------------------------------
(* The struct, its copy and the tasks keep their types: an identifier      *)
(* stays one octet however many SETs are sent (GateWay/main/main.c:225).   *)
THEOREM TypeCorrect == Spec => []TypeOK
<1>1. Inv => TypeOK BY DEF Inv
<1>2. QED BY <1>1, Invariance, PTL

(* Before the stack is registered and store restored nothing writes store, *)
(* and a bound key is never without a network (Switch/main/main.c:122-136, *)
(* GateWay/main/main.c:153-184).                                           *)
THEOREM StoreInvariant == Spec => []StoreInv
<1>1. Inv => StoreInv BY DEF Inv
<1>2. QED BY <1>1, Invariance, PTL

(* The bound key survives power cycles, event orders and the other task's  *)
(* stores (Switch/main/main.c:127-135 and 283-287).                        *)
THEOREM BoundKeysAreKept == Spec => []BoundKeyKept
<1>1. Inv => BoundKeyKept BY DEF Inv, StoreInv
<1>2. QED BY <1>1, Invariance, PTL

(* No identifier is used twice in a row, over restarts too                 *)
(* (GateWay/main/main.c:225-234).                                          *)
THEOREM IdentifiersAreFresh == Spec => []FreshTid
<1>1. Inv => FreshTid BY DEF Inv, StoreInv
<1>2. QED BY <1>1, Invariance, PTL

(* Only the store of an earlier network can bring a wrong network key back *)
(* (main.c prov_complete and mesh_example_info_restore).                   *)
THEOREM NetworkKeysAreCurrent == Spec => []NetKeyInUse
<1>1. Inv => NetKeyInUse BY DEF Inv
<1>2. QED BY <1>1, Invariance, PTL
=============================================================================
