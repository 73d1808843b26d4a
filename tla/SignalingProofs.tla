--------------------------- MODULE SignalingProofs ---------------------------
(***************************************************************************)
(* Proofs about Signaling for any number of nodes, devices, users and      *)
(* sessions and any number of faults: types, the connection counter that   *)
(* enforces the global limit never undercounts, the tables of every hub    *)
(* agree, no message crosses users; and, until something fails or a device *)
(* has two sessions, what the documentation promises (QuietPromises).      *)
(***************************************************************************)
EXTENDS MCSignaling, FiniteSetTheorems, TLAPS

(* The part of the type invariant the counter argument needs.              *)
CountType == pc \in [Sessions -> Steps] /\ global_count \in Int

LEMMA NextCountType == CountType /\ [Next]_vars => CountType'
<1> SUFFICES ASSUME CountType, [Next]_vars PROVE CountType'
  OBVIOUS
<1> USE DEF CountType
<1>1. CASE UNCHANGED vars
  BY <1>1 DEF vars
<1>2. ASSUME NEW s \in Sessions, NEW from, NEW to \in Steps, Goto(s, from, to),
             global_count' \in Int
      PROVE CountType'
  BY <1>2 DEF Goto
<1>3. ASSUME NEW s \in Sessions, NEW n \in Nodes, NEW d \in Devices, Open(s, n, d)
      PROVE CountType'
  BY <1>2, <1>3 DEF Open, redis, Steps, Connecting
<1>4. ASSUME NEW s \in Sessions,
             \/ CheckGlobal(s) \/ CheckUser(s) \/ HubConnect(s) \/ RegisterKey(s)
             \/ RegisterUser(s) \/ Close(s) \/ Finally(s) \/ UnregisterKey(s)
             \/ UnregisterUser(s) \/ HubDisconnect(s)
      PROVE CountType'
  <2>1. global_count' \in Int
    BY <1>4 DEF CheckGlobal, CheckUser, HubConnect, RegisterKey, RegisterUser, Close,
                Finally, UnregisterKey, UnregisterUser, HubDisconnect, redis
  <2> QED
    BY <1>2, <1>4, <2>1
       DEF CheckGlobal, CheckUser, HubConnect, RegisterKey, RegisterUser, Close, Finally,
           UnregisterKey, UnregisterUser, HubDisconnect, Steps, Connecting, Disconnecting
<1>5. ASSUME NEW s \in Sessions, RegisterGlobal(s) \/ UnregisterGlobal(s)
      PROVE CountType'
  BY <1>5, <1>2 DEF RegisterGlobal, UnregisterGlobal, Steps, Connecting, Disconnecting
<1>6. ASSUME NEW s \in Sessions, NEW t \in Devices,
             RelayLocal(s, t) \/ RelayFails(s, t) \/ RelayRemote(s, t)
      PROVE CountType'
  BY <1>6 DEF RelayLocal, RelayFails, RelayRemote, redis
<1>7. ASSUME NEW s \in Sessions, RedisError(s) PROVE CountType'
  BY <1>7 DEF RedisError, redis, Steps
<1>8. ASSUME NEW n \in Nodes, Crash(n) PROVE CountType'
  BY <1>8 DEF Crash, redis, Steps
<1>9. ASSUME NEW n \in Nodes, NEW m \in Devices \X Devices, Consume(n, m) PROVE CountType'
  BY <1>9 DEF Consume, redis
<1>10. ASSUME NEW u \in Users, ExpireUserCount(u) PROVE CountType'
  BY <1>10 DEF ExpireUserCount
<1>11. ASSUME NEW d \in Devices, ExpireKey(d) PROVE CountType'
  BY <1>11 DEF ExpireKey
<1> QED
  BY <1>1, <1>3, <1>4, <1>5, <1>6, <1>7, <1>8, <1>9, <1>10, <1>11 DEF Next

-----------------------------------------------------------------------------
LEMMA CountedFinite ==
    IsFiniteSet(Counted) /\ Cardinality(Counted) \in Nat
  BY SessionsAssumption, FS_Subset, FS_CardinalityType DEF Counted

(* A step that counts nobody new and leaves the counter alone.             *)
LEMMA CountShrinks ==
    ASSUME CountType, NeverUndercounts, Counted' \subseteq Counted,
           global_count' = global_count
    PROVE  NeverUndercounts'
<1>1. IsFiniteSet(Counted') /\ Cardinality(Counted') <= Cardinality(Counted)
  BY CountedFinite, FS_Subset
<1>2. Cardinality(Counted') \in Nat
  BY <1>1, FS_CardinalityType
<1> QED
  BY <1>1, <1>2, CountedFinite DEF NeverUndercounts, CountType

(* Only the increment lets a session into Counted and only the decrement   *)
(* lowers the counter; each moves both sides by one.                       *)
LEMMA NextCounts == CountType /\ NeverUndercounts /\ [Next]_vars => NeverUndercounts'
<1> SUFFICES ASSUME CountType, NeverUndercounts, [Next]_vars PROVE NeverUndercounts'
  OBVIOUS
<1>1. CASE UNCHANGED vars
  BY <1>1, CountShrinks DEF vars, Counted
<1>2. ASSUME NEW s \in Sessions, NEW from, NEW to, Goto(s, from, to),
             to \in {"incr_user", "open", "finally", "delete", "decr_global"}
                => from \in {"incr_user", "open", "finally", "delete", "decr_global"}
      PROVE Counted' \subseteq Counted
  BY <1>2 DEF Goto, Counted, CountType
<1>3. ASSUME NEW s \in Sessions, NEW n \in Nodes, NEW d \in Devices, Open(s, n, d)
      PROVE NeverUndercounts'
  <2>1. Counted' \subseteq Counted
    BY <1>2, <1>3 DEF Open
  <2> QED
    BY <1>3, <2>1, CountShrinks DEF Open, redis
<1>4. ASSUME NEW s \in Sessions,
             \/ CheckGlobal(s) \/ CheckUser(s) \/ HubConnect(s) \/ RegisterKey(s)
             \/ RegisterUser(s) \/ Close(s) \/ Finally(s) \/ UnregisterKey(s)
             \/ UnregisterUser(s) \/ HubDisconnect(s)
      PROVE NeverUndercounts'
  <2>1. global_count' = global_count
    BY <1>4 DEF CheckGlobal, CheckUser, HubConnect, RegisterKey, RegisterUser, Close,
                Finally, UnregisterKey, UnregisterUser, HubDisconnect, redis
  <2>2. Counted' \subseteq Counted
    BY <1>2, <1>4 DEF CheckGlobal, CheckUser, HubConnect, RegisterKey, RegisterUser,
                      Close, Finally, UnregisterKey, UnregisterUser, HubDisconnect
  <2> QED
    BY <2>1, <2>2, CountShrinks
<1>5. ASSUME NEW s \in Sessions, RegisterGlobal(s) PROVE NeverUndercounts'
  <2>1. Counted' = Counted \cup {s} /\ s \notin Counted
    BY <1>5 DEF RegisterGlobal, Goto, Counted, CountType
  <2>2. Cardinality(Counted') = Cardinality(Counted) + 1
    BY <2>1, CountedFinite, FS_AddElement
  <2> QED
    BY <1>5, <2>2, CountedFinite DEF RegisterGlobal, NeverUndercounts, CountType
<1>6. ASSUME NEW s \in Sessions, UnregisterGlobal(s) PROVE NeverUndercounts'
  <2>1. Counted' = Counted \ {s} /\ s \in Counted
    BY <1>6 DEF UnregisterGlobal, Goto, Counted, CountType
  <2>2. Cardinality(Counted') = Cardinality(Counted) - 1
    BY <2>1, CountedFinite, FS_RemoveElement
  <2> QED
    BY <1>6, <2>2, CountedFinite DEF UnregisterGlobal, NeverUndercounts, CountType
<1>7. ASSUME NEW s \in Sessions, NEW t \in Devices,
             RelayLocal(s, t) \/ RelayFails(s, t) \/ RelayRemote(s, t)
      PROVE NeverUndercounts'
  BY <1>7, CountShrinks DEF RelayLocal, RelayFails, RelayRemote, redis, Counted
<1>8. ASSUME NEW s \in Sessions, RedisError(s) PROVE NeverUndercounts'
  <2>1. Counted' \subseteq Counted
    BY <1>8 DEF RedisError, Counted, CountType
  <2> QED
    BY <1>8, <2>1, CountShrinks DEF RedisError, redis
<1>9. ASSUME NEW n \in Nodes, Crash(n) PROVE NeverUndercounts'
  <2>1. Counted' \subseteq Counted
    BY <1>9 DEF Crash, Counted
  <2> QED
    BY <1>9, <2>1, CountShrinks DEF Crash, redis
<1>10. ASSUME NEW n \in Nodes, NEW m \in Devices \X Devices, Consume(n, m)
       PROVE NeverUndercounts'
  BY <1>10, CountShrinks DEF Consume, redis, Counted
<1>11. ASSUME NEW u \in Users, ExpireUserCount(u) PROVE NeverUndercounts'
  BY <1>11, CountShrinks DEF ExpireUserCount, Counted
<1>12. ASSUME NEW d \in Devices, ExpireKey(d) PROVE NeverUndercounts'
  BY <1>12, CountShrinks DEF ExpireKey, Counted
<1> QED
  BY <1>1, <1>3, <1>4, <1>5, <1>6, <1>7, <1>8, <1>9, <1>10, <1>11, <1>12 DEF Next

(* The counter behind check_global_connection_limit is never below the     *)
(* number of sessions that registered and have not unregistered, whatever  *)
(* Redis round trips fail, nodes crash or devices reconnect.               *)
THEOREM CounterSafe == Spec => []NeverUndercounts
<1>1. Init => CountType
  BY DEF Init, CountType, Steps
<1>2. Init => NeverUndercounts
  <2> SUFFICES ASSUME Init PROVE NeverUndercounts
    OBVIOUS
  <2>1. Counted = {}
    BY DEF Init, Counted
  <2> QED
    BY <2>1, FS_EmptySet DEF Init, NeverUndercounts
<1> QED
  BY <1>1, <1>2, NextCountType, NextCounts, PTL DEF Spec

-----------------------------------------------------------------------------
(* Types, in the parts that the steps touch together.                      *)
SessionType ==
    /\ pc \in [Sessions -> Steps]
    /\ DOMAIN home \subseteq Sessions
    /\ home \in [DOMAIN home -> [node : Nodes, device : Devices]]
    /\ \A s \in Sessions : s \in DOMAIN home <=> pc[s] # "unused"
TablesType(cs, us) ==
    /\ cs \in [DOMAIN cs -> Sessions]
    /\ DOMAIN cs \subseteq Devices
    /\ DOMAIN us \subseteq Users
    /\ us \in [DOMAIN us -> SUBSET Devices]
HubType ==
    /\ \A n \in Nodes : TablesType(connections[n], user_devices[n])
    /\ DOMAIN connections = Nodes /\ DOMAIN user_devices = Nodes
RegistryType == DOMAIN registry \subseteq Devices /\ registry \in [DOMAIN registry -> Nodes]
CounterType == global_count \in Int /\ user_count \in [Users -> Int]
MailType ==
    /\ channel \in [Nodes -> SUBSET (Devices \X Devices)]
    /\ delivered \subseteq Devices \X Devices /\ dropped \subseteq Devices \X Devices
FaultType == faults \in 0 .. MaxFaults

LEMMA TypeParts ==
    TypeOK <=> /\ SessionType /\ HubType /\ RegistryType /\ CounterType /\ MailType /\ FaultType
  BY DEF TypeOK, SessionType, HubType, TablesType, RegistryType, CounterType, MailType, FaultType

(* A table with one key more, or one less.                                 *)
LEMMA PutFacts ==
    ASSUME NEW f, NEW k, NEW v
    PROVE  /\ Put(f, k, v) = [x \in DOMAIN f \cup {k} |-> IF x = k THEN v ELSE f[x]]
           /\ DOMAIN Put(f, k, v) = DOMAIN f \cup {k} /\ Put(f, k, v)[k] = v
           /\ \A x \in DOMAIN f : x # k => Put(f, k, v)[x] = f[x]
  BY DEF Put
LEMMA DropFacts ==
    ASSUME NEW f, NEW k
    PROVE  /\ Drop(f, k) = [x \in DOMAIN f \ {k} |-> f[x]]
           /\ DOMAIN Drop(f, k) = DOMAIN f \ {k} /\ \A x \in DOMAIN f : x # k => Drop(f, k)[x] = f[x]
  BY DEF Drop

(* A session that is open anywhere has a node, a device and an owner.      *)
LEMMA SessionKnown ==
    ASSUME SessionType, NEW s \in Sessions, pc[s] # "unused"
    PROVE  NodeOf(s) \in Nodes /\ DeviceOf(s) \in Devices /\ OwnerOf(s) \in Users
<1>1. s \in DOMAIN home
  BY DEF SessionType
<1>2. home[s] \in [node : Nodes, device : Devices]
  BY <1>1 DEF SessionType
<1> QED
  BY <1>2, OwnersAssumption DEF NodeOf, DeviceOf, OwnerOf

(* A session that goes on.                                                 *)
LEMMA SessionMoves ==
    ASSUME SessionType, NEW s \in Sessions, NEW from, NEW to \in Steps, Goto(s, from, to),
           from # "unused", to # "unused", home' = home
    PROVE  /\ SessionType' /\ pc[s] # "unused"
           /\ NodeOf(s) \in Nodes /\ DeviceOf(s) \in Devices /\ OwnerOf(s) \in Users
<1>1. pc[s] = from /\ pc' = [pc EXCEPT ![s] = to]
  BY DEF Goto
<1>2. pc' \in [Sessions -> Steps]
  BY <1>1 DEF SessionType
<1>3. \A r \in Sessions : pc'[r] # "unused" <=> pc[r] # "unused"
  BY <1>1 DEF SessionType
<1> QED
  BY <1>1, <1>2, <1>3, SessionKnown DEF SessionType

(* What the hub's two operations do to the tables of their node.           *)
LEMMA TablesAdd ==
    ASSUME NEW cs, NEW us, TablesType(cs, us), NEW d \in Devices, NEW u \in Users, NEW s \in Sessions,
           NEW D \in SUBSET Devices
    PROVE  TablesType(Put(cs, d, s), Put(us, u, D))
<1>1. Put(cs, d, s) \in [DOMAIN Put(cs, d, s) -> Sessions] /\ DOMAIN Put(cs, d, s) \subseteq Devices
  BY DEF TablesType, Put
<1>2. Put(us, u, D) \in [DOMAIN Put(us, u, D) -> SUBSET Devices] /\ DOMAIN Put(us, u, D) \subseteq Users
  BY DEF TablesType, Put
<1> QED
  BY <1>1, <1>2 DEF TablesType

LEMMA TablesRemove ==
    ASSUME NEW cs, NEW us, TablesType(cs, us), NEW d \in Devices, NEW u \in Users, NEW D \in SUBSET Devices
    PROVE  TablesType(Drop(cs, d), IF D = {} THEN Drop(us, u) ELSE Put(us, u, D))
<1>1. Drop(cs, d) \in [DOMAIN Drop(cs, d) -> Sessions] /\ DOMAIN Drop(cs, d) \subseteq Devices
  BY DEF TablesType, Drop
<1>2. Drop(us, u) \in [DOMAIN Drop(us, u) -> SUBSET Devices] /\ DOMAIN Drop(us, u) \subseteq Users
  BY DEF TablesType, Drop
<1>3. Put(us, u, D) \in [DOMAIN Put(us, u, D) -> SUBSET Devices] /\ DOMAIN Put(us, u, D) \subseteq Users
  BY DEF TablesType, Put
<1> QED
  BY <1>1, <1>2, <1>3 DEF TablesType

LEMMA DevicesAtType ==
    ASSUME HubType, NEW n \in Nodes, NEW u
    PROVE  DevicesAt(n, u) \in SUBSET Devices
  BY DEF HubType, TablesType, DevicesAt

(* The tables of one node are replaced.                                    *)
LEMMA TablesReplaced ==
    ASSUME HubType, NEW n \in Nodes, NEW cs, NEW us, TablesType(cs, us),
           connections' = [connections EXCEPT ![n] = cs], user_devices' = [user_devices EXCEPT ![n] = us]
    PROVE  HubType'
  BY DEF HubType

LEMMA HubRemoveType ==
    ASSUME HubType, NEW n \in Nodes, NEW d \in Devices, HubRemove(n, d)
    PROVE  HubType'
<1>1. CASE d \notin DOMAIN connections[n]
  <2>1. connections' = connections /\ user_devices' = user_devices
    BY <1>1 DEF HubRemove, hub
  <2> QED
    BY <2>1 DEF HubType
<1>2. CASE d \in DOMAIN connections[n]
  <2> DEFINE u == UserOf[d]
             rest == DevicesAt(n, u) \ {d}
             us == IF rest = {} THEN Drop(user_devices[n], u) ELSE Put(user_devices[n], u, rest)
  <2>1. /\ connections' = [connections EXCEPT ![n] = Drop(connections[n], d)]
        /\ user_devices' = [user_devices EXCEPT ![n] = us]
    BY <1>2 DEF HubRemove
  <2>2. u \in Users /\ rest \in SUBSET Devices
    BY OwnersAssumption, DevicesAtType
  <2>3. TablesType(Drop(connections[n], d), us)
    BY <2>2, TablesRemove DEF HubType
  <2> QED
    BY <2>1, <2>3, TablesReplaced
<1> QED
  BY <1>1, <1>2

LEMMA PublishType ==
    ASSUME MailType, RegistryType, NEW s, DeviceOf(s) \in Devices, NEW t \in Devices, Publish(s, t)
    PROVE  channel' \in [Nodes -> SUBSET (Devices \X Devices)]
<1>1. CASE channel' = channel
  BY <1>1 DEF MailType
<1>2. CASE t \in DOMAIN registry
            /\ channel' = [channel EXCEPT ![registry[t]] = @ \cup {<<DeviceOf(s), t>>}]
  <2>1. registry[t] \in Nodes /\ channel[registry[t]] \in SUBSET (Devices \X Devices)
    BY <1>2 DEF RegistryType, MailType
  <2>2. channel[registry[t]] \cup {<<DeviceOf(s), t>>} \in SUBSET (Devices \X Devices)
    BY <2>1
  <2> QED
    BY <1>2, <2>1, <2>2 DEF MailType
<1> QED
  BY <1>1, <1>2 DEF Publish

LEMMA InitType == Init => TypeOK
<1> SUFFICES ASSUME Init PROVE TypeOK
  OBVIOUS
<1>1. SessionType /\ HubType
  BY DEF Init, SessionType, HubType, TablesType, Steps
<1>2. RegistryType /\ CounterType /\ MailType
  BY DEF Init, RegistryType, CounterType, MailType
<1>3. FaultType
  BY LimitAssumption DEF Init, FaultType
<1> QED
  BY <1>1, <1>2, <1>3, TypeParts

(* Every step preserves the types.                                         *)
LEMMA NextType == TypeOK /\ [Next]_vars => TypeOK'
<1> SUFFICES ASSUME TypeOK, [Next]_vars PROVE TypeOK'
  OBVIOUS
<1>t. SessionType /\ HubType /\ RegistryType /\ CounterType /\ MailType /\ FaultType
  BY TypeParts
<1>s. ASSUME home' = home, pc' = pc PROVE SessionType'
  BY <1>s, <1>t DEF SessionType
<1>h. ASSUME UNCHANGED hub PROVE HubType'
  BY <1>h, <1>t DEF HubType, TablesType, hub
<1>m. ASSUME UNCHANGED mail PROVE MailType'
  BY <1>m, <1>t DEF MailType, mail
<1>r. ASSUME registry' = registry PROVE RegistryType'
  BY <1>r, <1>t DEF RegistryType
<1>c. ASSUME global_count' = global_count, user_count' = user_count PROVE CounterType'
  BY <1>c, <1>t DEF CounterType
<1>f. ASSUME faults' = faults \/ Fault PROVE FaultType'
  BY <1>f, <1>t, LimitAssumption DEF FaultType, Fault
<1>p. TypeOK' <=> /\ SessionType' /\ HubType' /\ RegistryType' /\ CounterType' /\ MailType' /\ FaultType'
  BY TypeParts, PTL
<1>1. CASE UNCHANGED vars
  BY <1>1, <1>s, <1>h, <1>m, <1>r, <1>c, <1>f, <1>p DEF vars, hub, mail
<1>2. ASSUME NEW s \in Sessions, NEW n \in Nodes, NEW d \in Devices, Open(s, n, d) PROVE TypeOK'
  <2>1. SessionType'
    <3>1. pc' = [pc EXCEPT ![s] = "check_global"] /\ home' = Put(home, s, [node |-> n, device |-> d])
      BY <1>2 DEF Open, Goto
    <3>2. pc' \in [Sessions -> Steps] /\ \A r \in Sessions : pc'[r] # "unused" <=> r = s \/ pc[r] # "unused"
      BY <1>t, <3>1 DEF SessionType, Steps, Connecting
    <3>3. DOMAIN home' = DOMAIN home \cup {s} /\ home' \in [DOMAIN home' -> [node : Nodes, device : Devices]]
      BY <1>t, <3>1 DEF SessionType, Put
    <3> QED
      BY <1>t, <3>2, <3>3 DEF SessionType
  <2>2. UNCHANGED <<hub, redis, mail, faults>>
    BY <1>2 DEF Open
  <2> QED
    BY <2>1, <2>2, <1>h, <1>m, <1>r, <1>c, <1>f, <1>p DEF redis
<1>3. ASSUME NEW s \in Sessions, CheckGlobal(s) \/ CheckUser(s) \/ Close(s) \/ Finally(s) PROVE TypeOK'
  <2>1. UNCHANGED <<home, hub, redis, mail, faults>>
    BY <1>3 DEF CheckGlobal, CheckUser, Close, Finally
  <2>2. SessionType'
    BY <1>3, <1>t, <2>1, SessionMoves
       DEF CheckGlobal, CheckUser, Close, Finally, Steps, Connecting, Disconnecting
  <2> QED
    BY <2>1, <2>2, <1>h, <1>m, <1>r, <1>c, <1>f, <1>p DEF redis
<1>4. ASSUME NEW s \in Sessions, HubConnect(s) PROVE TypeOK'
  <2>1. UNCHANGED <<home, redis, mail, faults>>
    BY <1>4 DEF HubConnect
  <2>2. SessionType' /\ NodeOf(s) \in Nodes /\ DeviceOf(s) \in Devices /\ OwnerOf(s) \in Users
    BY <1>4, <1>t, <2>1, SessionMoves DEF HubConnect, Steps, Connecting
  <2>3. HubType'
    <3>1. CASE UNCHANGED hub
      BY <3>1, <1>h
    <3>2. CASE ~ UNCHANGED hub
      <4> DEFINE n == NodeOf(s)
                 cs == Put(connections[n], DeviceOf(s), s)
                 us == Put(user_devices[n], OwnerOf(s), DevicesAt(n, OwnerOf(s)) \cup {DeviceOf(s)})
      <4>1. connections' = [connections EXCEPT ![n] = cs] /\ user_devices' = [user_devices EXCEPT ![n] = us]
        BY <1>4, <3>2 DEF HubConnect
      <4>2. DevicesAt(n, OwnerOf(s)) \cup {DeviceOf(s)} \in SUBSET Devices
        BY <1>t, <2>2, DevicesAtType
      <4>3. TablesType(cs, us)
        BY <1>t, <2>2, <4>2, TablesAdd DEF HubType
      <4> QED
        BY <1>t, <2>2, <4>1, <4>3, TablesReplaced
    <3> QED
      BY <3>1, <3>2
  <2> QED
    BY <2>1, <2>2, <2>3, <1>m, <1>r, <1>c, <1>f, <1>p DEF redis
<1>5. ASSUME NEW s \in Sessions, RegisterKey(s) \/ UnregisterKey(s) PROVE TypeOK'
  <2>1. UNCHANGED <<home, hub, global_count, user_count, mail, faults>>
    BY <1>5 DEF RegisterKey, UnregisterKey
  <2>2. SessionType' /\ NodeOf(s) \in Nodes /\ DeviceOf(s) \in Devices
    BY <1>5, <1>t, <2>1, SessionMoves DEF RegisterKey, UnregisterKey, Steps, Connecting, Disconnecting
  <2>3. registry' = Put(registry, DeviceOf(s), NodeOf(s)) \/ registry' = Drop(registry, DeviceOf(s))
    BY <1>5 DEF RegisterKey, UnregisterKey
  <2>4. RegistryType'
    BY <1>t, <2>2, <2>3 DEF RegistryType, Put, Drop
  <2> QED
    BY <2>1, <2>2, <2>4, <1>h, <1>m, <1>c, <1>f, <1>p
<1>6. ASSUME NEW s \in Sessions, RegisterGlobal(s) \/ RegisterUser(s) \/ UnregisterGlobal(s) \/ UnregisterUser(s)
      PROVE TypeOK'
  <2>1. UNCHANGED <<home, hub, registry, mail, faults>>
    BY <1>6 DEF RegisterGlobal, RegisterUser, UnregisterGlobal, UnregisterUser
  <2>2. SessionType' /\ OwnerOf(s) \in Users
    BY <1>6, <1>t, <2>1, SessionMoves
       DEF RegisterGlobal, RegisterUser, UnregisterGlobal, UnregisterUser, Steps, Connecting, Disconnecting
  <2>3. CounterType'
    BY <1>6, <1>t, <2>2 DEF RegisterGlobal, RegisterUser, UnregisterGlobal, UnregisterUser, CounterType
  <2> QED
    BY <2>1, <2>2, <2>3, <1>h, <1>m, <1>r, <1>f, <1>p
<1>7. ASSUME NEW s \in Sessions, HubDisconnect(s) PROVE TypeOK'
  <2>1. UNCHANGED <<home, redis, mail, faults>>
    BY <1>7 DEF HubDisconnect
  <2>2. SessionType' /\ NodeOf(s) \in Nodes /\ DeviceOf(s) \in Devices
    BY <1>7, <1>t, <2>1, SessionMoves DEF HubDisconnect, Steps, Disconnecting
  <2>3. HubType'
    BY <1>7, <1>t, <2>2, HubRemoveType DEF HubDisconnect
  <2> QED
    BY <2>1, <2>2, <2>3, <1>m, <1>r, <1>c, <1>f, <1>p DEF redis
<1>8. ASSUME NEW s \in Sessions, NEW t \in Devices, RelayLocal(s, t) \/ RelayFails(s, t) \/ RelayRemote(s, t)
      PROVE TypeOK'
  <2>1. pc[s] # "unused"
    BY <1>8 DEF RelayLocal, RelayFails, RelayRemote, CanRelayLocally
  <2>2. NodeOf(s) \in Nodes /\ DeviceOf(s) \in Devices
    BY <1>t, <2>1, SessionKnown
  <2>3. pc' = pc /\ home' = home /\ UNCHANGED redis /\ (faults' = faults \/ Fault)
    BY <1>8 DEF RelayLocal, RelayFails, RelayRemote
  <2>4. HubType'
    BY <1>8, <1>t, <1>h, <2>2, HubRemoveType DEF RelayLocal, RelayFails, RelayRemote
  <2>5. MailType'
    <3>1. CASE RelayLocal(s, t)
      BY <3>1, <1>t, <2>2 DEF RelayLocal, MailType
    <3>2. CASE RelayFails(s, t) \/ RelayRemote(s, t)
      <4>1. Publish(s, t) /\ delivered' = delivered /\ dropped' = dropped
        BY <3>2 DEF RelayFails, RelayRemote
      <4>2. channel' \in [Nodes -> SUBSET (Devices \X Devices)]
        BY <1>t, <2>2, <4>1, PublishType
      <4> QED
        BY <1>t, <4>1, <4>2 DEF MailType
    <3> QED
      BY <1>8, <3>1, <3>2
  <2> QED
    BY <2>3, <2>4, <2>5, <1>s, <1>r, <1>c, <1>f, <1>p DEF redis
<1>9. ASSUME NEW s \in Sessions, RedisError(s) PROVE TypeOK'
  <2>1. UNCHANGED <<home, hub, redis, mail>> /\ Fault
    BY <1>9 DEF RedisError
  <2>2. SessionType'
    <3>1. Goto(s, pc[s], "gone") /\ pc[s] # "unused"
      BY <1>9 DEF RedisError, Goto, AtRedis
    <3> QED
      BY <1>t, <2>1, <3>1 DEF SessionType, Goto, Steps
  <2> QED
    BY <2>1, <2>2, <1>h, <1>m, <1>r, <1>c, <1>f, <1>p DEF redis
<1>10. ASSUME NEW n \in Nodes, NEW m \in Devices \X Devices, Consume(n, m) PROVE TypeOK'
  <2>1. UNCHANGED <<pc, home, hub, redis, faults>>
    BY <1>10 DEF Consume
  <2>2. MailType'
    BY <1>10, <1>t DEF Consume, MailType
  <2> QED
    BY <2>1, <2>2, <1>s, <1>h, <1>r, <1>c, <1>f, <1>p DEF redis
<1>11. ASSUME NEW n \in Nodes, Crash(n) PROVE TypeOK'
  <2>1. UNCHANGED <<home, redis, delivered, dropped>> /\ Fault
    BY <1>11 DEF Crash
  <2>2. SessionType'
    <3>1. pc' \in [Sessions -> Steps] /\ \A s \in Sessions : pc'[s] # "unused" <=> pc[s] # "unused"
      BY <1>11, <1>t DEF Crash, SessionType, Steps
    <3> QED
      BY <1>t, <2>1, <3>1 DEF SessionType
  <2>3. HubType'
    <3> DEFINE cs == [d \in {} |-> 0]
               us == [u \in {} |-> 0]
    <3>1. connections' = [connections EXCEPT ![n] = cs] /\ user_devices' = [user_devices EXCEPT ![n] = us]
      BY <1>11 DEF Crash
    <3>2. TablesType(cs, us)
      BY DEF TablesType
    <3> HIDE DEF cs, us
    <3> QED
      BY <1>t, <3>1, <3>2, TablesReplaced
  <2>4. MailType'
    BY <1>11, <1>t DEF Crash, MailType
  <2> QED
    BY <2>1, <2>2, <2>3, <2>4, <1>r, <1>c, <1>f, <1>p DEF redis
<1>12. ASSUME NEW u \in Users, ExpireUserCount(u) PROVE TypeOK'
  <2>1. UNCHANGED <<pc, home, hub, registry, mail>> /\ Fault
    BY <1>12 DEF ExpireUserCount
  <2>2. CounterType'
    BY <1>12, <1>t DEF ExpireUserCount, CounterType
  <2> QED
    BY <2>1, <2>2, <1>s, <1>h, <1>m, <1>r, <1>f, <1>p
<1>13. ASSUME NEW d \in Devices, ExpireKey(d) PROVE TypeOK'
  <2>1. UNCHANGED <<pc, home, hub, global_count, user_count, mail>> /\ Fault
    BY <1>13 DEF ExpireKey
  <2>2. RegistryType'
    BY <1>13, <1>t DEF ExpireKey, RegistryType, Drop
  <2> QED
    BY <2>1, <2>2, <1>s, <1>h, <1>m, <1>c, <1>f, <1>p
<1> QED
  BY <1>1, <1>2, <1>3, <1>4, <1>5, <1>6, <1>7, <1>8, <1>9, <1>10, <1>11, <1>12, <1>13 DEF Next

(* Shapes of sessions, hub tables and Redis keys, in every instance.       *)
THEOREM TypeCorrect == Spec => []TypeOK
  BY InitType, NextType, PTL DEF Spec

-----------------------------------------------------------------------------
(* One node's tables describe the same connections.                        *)
Agree(cs, us) ==
    /\ \A d \in Devices : d \in DOMAIN cs <=> UserOf[d] \in DOMAIN us /\ d \in us[UserOf[d]]
    /\ \A u \in DOMAIN us : us[u] # {} /\ \A d \in us[u] : UserOf[d] = u

LEMMA HubAgrees == HubConsistent <=> \A n \in Nodes : Agree(connections[n], user_devices[n])
  BY DEF HubConsistent, Agree, DevicesAt

(* SignalingHub.connect keeps them in agreement.                           *)
LEMMA AgreeAdd ==
    ASSUME NEW cs, NEW us, TablesType(cs, us), Agree(cs, us), NEW d \in Devices, NEW s,
           NEW D, D = (IF UserOf[d] \in DOMAIN us THEN us[UserOf[d]] ELSE {}) \cup {d}
    PROVE  Agree(Put(cs, d, s), Put(us, UserOf[d], D))
<1> DEFINE u == UserOf[d]
           us2 == Put(us, u, D)
<1>1. DOMAIN Put(cs, d, s) = DOMAIN cs \cup {d}
  BY PutFacts
<1>2. DOMAIN us2 = DOMAIN us \cup {u} /\ us2[u] = D /\ \A v \in DOMAIN us : v # u => us2[v] = us[v]
  BY DEF Put
<1> HIDE DEF us2
<1>3. ASSUME NEW e \in Devices PROVE e \in DOMAIN cs \cup {d} <=> UserOf[e] \in DOMAIN us2 /\ e \in us2[UserOf[e]]
  <2>1. CASE UserOf[e] = u
    BY <1>2, <2>1 DEF Agree
  <2>2. CASE UserOf[e] # u
    BY <1>2, <2>2 DEF Agree
  <2> QED
    BY <2>1, <2>2
<1>4. ASSUME NEW v \in DOMAIN us2 PROVE us2[v] # {} /\ \A e \in us2[v] : UserOf[e] = v
  <2>1. CASE v = u
    BY <1>2, <2>1 DEF Agree
  <2>2. CASE v # u
    BY <1>2, <1>4, <2>2 DEF Agree
  <2> QED
    BY <2>1, <2>2
<1>5. Agree(Put(cs, d, s), us2)
  BY <1>1, <1>3, <1>4 DEF Agree
<1> QED
  BY <1>5 DEF us2

(* SignalingHub.disconnect does, too.                                      *)
LEMMA AgreeRemove ==
    ASSUME NEW cs, NEW us, TablesType(cs, us), Agree(cs, us), NEW d \in Devices, d \in DOMAIN cs,
           NEW D, D = us[UserOf[d]] \ {d}
    PROVE  Agree(Drop(cs, d), IF D = {} THEN Drop(us, UserOf[d]) ELSE Put(us, UserOf[d], D))
<1> DEFINE u == UserOf[d]
           us2 == IF D = {} THEN Drop(us, u) ELSE Put(us, u, D)
<1>1. DOMAIN Drop(cs, d) = DOMAIN cs \ {d}
  BY DropFacts
<1>2. u \in DOMAIN us
  BY DEF Agree
<1>3. /\ \A v : v # u => (v \in DOMAIN us2 <=> v \in DOMAIN us) /\ (v \in DOMAIN us => us2[v] = us[v])
      /\ u \in DOMAIN us2 <=> D # {}
      /\ D # {} => us2[u] = D
  <2>1. CASE D = {}
    <3>1. us2 = Drop(us, u)
      BY <2>1
    <3> HIDE DEF us2
    <3>2. DOMAIN us2 = DOMAIN us \ {u} /\ \A x \in DOMAIN us : x # u => us2[x] = us[x]
      BY <3>1 DEF Drop
    <3> QED
      BY <2>1, <3>2
  <2>2. CASE D # {}
    <3>1. us2 = Put(us, u, D)
      BY <2>2
    <3> HIDE DEF us2
    <3>2. DOMAIN us2 = DOMAIN us \cup {u} /\ us2[u] = D /\ \A x \in DOMAIN us : x # u => us2[x] = us[x]
      BY <3>1 DEF Put
    <3> QED
      BY <1>2, <2>2, <3>2
  <2> QED
    BY <2>1, <2>2
<1> HIDE DEF us2
<1>4. ASSUME NEW e \in Devices PROVE e \in DOMAIN cs \ {d} <=> UserOf[e] \in DOMAIN us2 /\ e \in us2[UserOf[e]]
  <2>1. CASE UserOf[e] = u
    BY <1>2, <1>3, <2>1 DEF Agree
  <2>2. CASE UserOf[e] # u
    BY <1>3, <2>2 DEF Agree
  <2> QED
    BY <2>1, <2>2
<1>5. ASSUME NEW v \in DOMAIN us2 PROVE us2[v] # {} /\ \A e \in us2[v] : UserOf[e] = v
  <2>1. CASE v = u
    BY <1>2, <1>3, <1>5, <2>1 DEF Agree
  <2>2. CASE v # u
    BY <1>3, <1>5, <2>2 DEF Agree
  <2> QED
    BY <2>1, <2>2
<1>6. Agree(Drop(cs, d), us2)
  BY <1>1, <1>4, <1>5 DEF Agree
<1> QED
  BY <1>6 DEF us2

(* One node's tables are replaced by tables that agree.                    *)
LEMMA AgreeReplaced ==
    ASSUME HubType, HubConsistent, NEW n \in Nodes, NEW cs, NEW us, Agree(cs, us),
           connections' = [connections EXCEPT ![n] = cs], user_devices' = [user_devices EXCEPT ![n] = us]
    PROVE  HubConsistent'
<1>1. \A k \in Nodes : Agree(connections'[k], user_devices'[k])
  <2> TAKE k \in Nodes
  <2>1. CASE k = n
    <3>1. connections'[k] = cs /\ user_devices'[k] = us
      BY <2>1 DEF HubType
    <3> QED
      BY <3>1
  <2>2. CASE k # n
    <3>1. connections'[k] = connections[k] /\ user_devices'[k] = user_devices[k]
      BY <2>2 DEF HubType
    <3> QED
      BY <3>1, HubAgrees
  <2> QED
    BY <2>1, <2>2
<1>2. HubConsistent' <=> \A k \in Nodes : Agree(connections'[k], user_devices'[k])
  BY DEF HubConsistent, Agree, DevicesAt
<1> QED
  BY <1>1, <1>2

LEMMA HubRemoveAgrees ==
    ASSUME HubType, HubConsistent, NEW n \in Nodes, NEW d \in Devices, HubRemove(n, d)
    PROVE  HubConsistent'
<1>1. CASE d \notin DOMAIN connections[n]
  <2>1. connections' = connections /\ user_devices' = user_devices
    BY <1>1 DEF HubRemove, hub
  <2> QED
    BY <2>1 DEF HubConsistent, DevicesAt
<1>2. CASE d \in DOMAIN connections[n]
  <2> DEFINE cs == connections[n]
             us == user_devices[n]
             rest == DevicesAt(n, UserOf[d]) \ {d}
             us2 == IF rest = {} THEN Drop(us, UserOf[d]) ELSE Put(us, UserOf[d], rest)
  <2>1. connections' = [connections EXCEPT ![n] = Drop(cs, d)] /\ user_devices' = [user_devices EXCEPT ![n] = us2]
    BY <1>2 DEF HubRemove
  <2>2. Agree(cs, us) /\ TablesType(cs, us)
    BY HubAgrees DEF HubType
  <2>3. rest = us[UserOf[d]] \ {d}
    BY <1>2, <2>2 DEF Agree, DevicesAt
  <2>4. Agree(Drop(cs, d), us2)
    BY <1>2, <2>2, <2>3, AgreeRemove
  <2> HIDE DEF us2
  <2> QED
    BY <2>1, <2>4, AgreeReplaced
<1> QED
  BY <1>1, <1>2

LEMMA NextHub == TypeOK /\ HubConsistent /\ [Next]_vars => HubConsistent'
<1> SUFFICES ASSUME TypeOK, HubConsistent, [Next]_vars PROVE HubConsistent'
  OBVIOUS
<1>t. SessionType /\ HubType
  BY TypeParts
<1>h. ASSUME UNCHANGED hub PROVE HubConsistent'
  BY <1>h DEF hub, HubConsistent, DevicesAt
<1>1. ASSUME NEW s \in Sessions, HubConnect(s) PROVE HubConsistent'
  <2>1. NodeOf(s) \in Nodes /\ DeviceOf(s) \in Devices
    BY <1>1, <1>t, SessionMoves DEF HubConnect, Steps, Connecting
  <2>2. CASE UNCHANGED hub
    BY <2>2, <1>h
  <2>3. CASE ~ UNCHANGED hub
    <3> DEFINE n == NodeOf(s)
               d == DeviceOf(s)
               D == DevicesAt(n, OwnerOf(s)) \cup {d}
               us2 == Put(user_devices[n], UserOf[d], D)
    <3>1. /\ connections' = [connections EXCEPT ![n] = Put(connections[n], d, s)]
          /\ user_devices' = [user_devices EXCEPT ![n] = us2]
      BY <1>1, <2>3 DEF HubConnect, OwnerOf
    <3>2. Agree(connections[n], user_devices[n]) /\ TablesType(connections[n], user_devices[n])
      BY <1>t, <2>1, HubAgrees DEF HubType
    <3>3. D = (IF UserOf[d] \in DOMAIN user_devices[n] THEN user_devices[n][UserOf[d]] ELSE {}) \cup {d}
      BY DEF DevicesAt, OwnerOf
    <3> HIDE DEF D
    <3>4. Agree(Put(connections[n], d, s), us2)
      BY <2>1, <3>2, <3>3, AgreeAdd
    <3> HIDE DEF us2
    <3> QED
      BY <1>t, <2>1, <3>1, <3>4, AgreeReplaced
  <2> QED
    BY <2>2, <2>3
<1>2. ASSUME NEW s \in Sessions, HubDisconnect(s) PROVE HubConsistent'
  <2>1. NodeOf(s) \in Nodes /\ DeviceOf(s) \in Devices
    BY <1>2, <1>t, SessionMoves DEF HubDisconnect, Steps, Disconnecting
  <2> QED
    BY <1>2, <1>t, <2>1, HubRemoveAgrees DEF HubDisconnect
<1>3. ASSUME NEW s \in Sessions, NEW t \in Devices, RelayFails(s, t) PROVE HubConsistent'
  <2>1. NodeOf(s) \in Nodes
    BY <1>3, <1>t, SessionKnown DEF RelayFails, CanRelayLocally
  <2> QED
    BY <1>3, <1>t, <2>1, HubRemoveAgrees DEF RelayFails
<1>4. ASSUME NEW n \in Nodes, Crash(n) PROVE HubConsistent'
  <2> DEFINE cs == [d \in {} |-> 0]
             us == [u \in {} |-> 0]
  <2>1. connections' = [connections EXCEPT ![n] = cs] /\ user_devices' = [user_devices EXCEPT ![n] = us]
    BY <1>4 DEF Crash
  <2>2. Agree(cs, us)
    BY DEF Agree
  <2> HIDE DEF cs, us
  <2> QED
    BY <1>t, <2>1, <2>2, AgreeReplaced
<1>5. ASSUME NEW s \in Sessions, NEW n \in Nodes, NEW d \in Devices, Open(s, n, d) PROVE HubConsistent'
  BY <1>5, <1>h DEF Open
<1>6. ASSUME NEW s \in Sessions,
             \/ CheckGlobal(s) \/ CheckUser(s) \/ Close(s) \/ Finally(s) \/ RedisError(s)
             \/ RegisterKey(s) \/ RegisterGlobal(s) \/ RegisterUser(s)
             \/ UnregisterKey(s) \/ UnregisterGlobal(s) \/ UnregisterUser(s)
      PROVE HubConsistent'
  BY <1>6, <1>h DEF CheckGlobal, CheckUser, Close, Finally, RedisError, RegisterKey, RegisterGlobal,
                    RegisterUser, UnregisterKey, UnregisterGlobal, UnregisterUser
<1>7. ASSUME NEW s \in Sessions, NEW t \in Devices, RelayLocal(s, t) \/ RelayRemote(s, t) PROVE HubConsistent'
  BY <1>7, <1>h DEF RelayLocal, RelayRemote
<1>8. ASSUME \/ \E n \in Nodes, m \in Devices \X Devices : Consume(n, m)
             \/ \E u \in Users : ExpireUserCount(u)
             \/ \E d \in Devices : ExpireKey(d)
             \/ UNCHANGED vars
      PROVE HubConsistent'
  BY <1>8, <1>h DEF Consume, ExpireUserCount, ExpireKey, vars, hub
<1> QED
  BY <1>1, <1>2, <1>3, <1>4, <1>5, <1>6, <1>7, <1>8 DEF Next

(* SignalingHub: _connections and _user_devices agree on every node,       *)
(* whatever sessions race, sends fail or nodes crash.                      *)
THEOREM HubsConsistent == Spec => []HubConsistent
<1>1. Init => HubConsistent
  BY DEF Init, HubConsistent, DevicesAt
<1> QED
  BY <1>1, NextHub, TypeCorrect, PTL DEF Spec

-----------------------------------------------------------------------------
LEMMA NextUser == TypeOK /\ NoCrossUser /\ [Next]_vars => NoCrossUser'
<1> SUFFICES ASSUME TypeOK, NoCrossUser, [Next]_vars PROVE NoCrossUser'
  OBVIOUS
<1>t. SessionType /\ MailType /\ RegistryType
  BY TypeParts
<1>m. ASSUME delivered' = delivered, channel' = channel PROVE NoCrossUser'
  BY <1>m DEF NoCrossUser
<1>1. ASSUME NEW s \in Sessions, NEW t \in Devices, RelayLocal(s, t) PROVE NoCrossUser'
  <2>1. delivered' = delivered \cup {<<DeviceOf(s), t>>} /\ channel' = channel /\ UserOf[DeviceOf(s)] = UserOf[t]
    BY <1>1 DEF RelayLocal, CanRelayLocally, SameUser
  <2> QED
    BY <2>1 DEF NoCrossUser
<1>2. ASSUME NEW s \in Sessions, NEW t \in Devices, RelayFails(s, t) \/ RelayRemote(s, t) PROVE NoCrossUser'
  <2>1. Publish(s, t) /\ delivered' = delivered
    BY <1>2 DEF RelayFails, RelayRemote
  <2>2. CASE channel' = channel
    BY <2>1, <2>2, <1>m
  <2>3. CASE channel' # channel
    <3>1. /\ UserOf[DeviceOf(s)] = UserOf[t] /\ t \in DOMAIN registry
          /\ channel' = [channel EXCEPT ![registry[t]] = @ \cup {<<DeviceOf(s), t>>}]
      BY <2>1, <2>3 DEF Publish, SameUser
    <3>2. registry[t] \in Nodes
      BY <1>t, <3>1 DEF RegistryType
    <3>3. \A n \in Nodes : channel'[n] \subseteq channel[n] \cup {<<DeviceOf(s), t>>}
      BY <1>t, <3>1, <3>2 DEF MailType
    <3> QED
      BY <2>1, <3>1, <3>3 DEF NoCrossUser
  <2> QED
    BY <2>2, <2>3
<1>3. ASSUME NEW n \in Nodes, NEW m \in Devices \X Devices, Consume(n, m) PROVE NoCrossUser'
  <2>1. delivered' = delivered /\ \A k \in Nodes : channel'[k] \subseteq channel[k]
    BY <1>3, <1>t DEF Consume, HandlerSet, MailType
  <2> QED
    BY <2>1 DEF NoCrossUser
<1>4. ASSUME NEW n \in Nodes, Crash(n) PROVE NoCrossUser'
  <2>1. delivered' = delivered /\ \A k \in Nodes : channel'[k] \subseteq channel[k]
    BY <1>4, <1>t DEF Crash, MailType
  <2> QED
    BY <2>1 DEF NoCrossUser
<1>5. ASSUME NEW s \in Sessions, NEW n \in Nodes, NEW d \in Devices, Open(s, n, d) PROVE NoCrossUser'
  BY <1>5, <1>m DEF Open, mail
<1>6. ASSUME NEW s \in Sessions,
             \/ CheckGlobal(s) \/ CheckUser(s) \/ Close(s) \/ Finally(s) \/ RedisError(s)
             \/ RegisterKey(s) \/ RegisterGlobal(s) \/ RegisterUser(s) \/ HubConnect(s)
             \/ UnregisterKey(s) \/ UnregisterGlobal(s) \/ UnregisterUser(s) \/ HubDisconnect(s)
      PROVE NoCrossUser'
  BY <1>6, <1>m DEF CheckGlobal, CheckUser, Close, Finally, RedisError, RegisterKey, RegisterGlobal, HubConnect,
                    RegisterUser, UnregisterKey, UnregisterGlobal, UnregisterUser, HubDisconnect, mail
<1>7. ASSUME \/ \E u \in Users : ExpireUserCount(u)
             \/ \E d \in Devices : ExpireKey(d)
             \/ UNCHANGED vars
      PROVE NoCrossUser'
  BY <1>7, <1>m DEF ExpireUserCount, ExpireKey, vars, mail
<1> QED
  BY <1>1, <1>2, <1>3, <1>4, <1>5, <1>6, <1>7 DEF Next

(* relay_signal: whatever is delivered, or under way between nodes, stays  *)
(* within one user; the registry that names a node may be out of date.     *)
THEOREM WithinUser == Spec => []NoCrossUser
<1>1. Init => NoCrossUser
  BY DEF Init, NoCrossUser
<1> QED
  BY <1>1, NextUser, TypeCorrect, PTL DEF Spec

-----------------------------------------------------------------------------
\* Where a session is in its hub's tables, in the registry, in the counter.
HeldSteps       == {"set", "incr_global", "incr_user", "open"} \cup Disconnecting
RegisteredSteps == {"incr_global", "incr_user", "open", "finally", "delete"}
CountedSteps    == {"incr_user", "open", "finally", "delete", "decr_global"}

(* What holds until something fails or a device has two sessions: nobody   *)
(* took away what a session recorded, so its finally clause finds its own. *)
Single     == \A r, s \in Live : DeviceOf(r) = DeviceOf(s) => r = s
Alive      == faults = 0 /\ \A s \in Sessions : pc[s] # "gone"
Held       == \A s \in Sessions : pc[s] \in HeldSteps => DeviceOf(s) \in DOMAIN connections[NodeOf(s)]
Registered == \A s \in Sessions : pc[s] \in RegisteredSteps =>
                DeviceOf(s) \in DOMAIN registry /\ registry[DeviceOf(s)] = NodeOf(s)
Exact      == global_count = Cardinality(Counted)
QuietInv   == Single /\ Alive /\ Held /\ Registered /\ Exact

(* A session that goes on leaves the others where they stand.              *)
LEMMA OnlyMoves ==
    ASSUME SessionType, NEW s \in Sessions, NEW from, NEW to, Goto(s, from, to), home' = home
    PROVE  /\ pc[s] = from /\ pc'[s] = to /\ \A r \in Sessions : r # s => pc'[r] = pc[r]
           /\ \A r : NodeOf(r)' = NodeOf(r) /\ DeviceOf(r)' = DeviceOf(r)
  BY DEF SessionType, Goto, NodeOf, DeviceOf

LEMMA HeldKept ==
    ASSUME SessionType, Held, NEW s \in Sessions, NEW from, NEW to, Goto(s, from, to), home' = home,
           connections' = connections, to \in HeldSteps => from \in HeldSteps
    PROVE  Held'
  BY OnlyMoves DEF Held

LEMMA RegisteredKept ==
    ASSUME SessionType, Registered, NEW s \in Sessions, NEW from, NEW to, Goto(s, from, to),
           home' = home, registry' = registry, to \in RegisteredSteps => from \in RegisteredSteps
    PROVE  Registered'
  BY OnlyMoves DEF Registered

LEMMA ExactKept ==
    ASSUME SessionType, Exact, NEW s \in Sessions, NEW from, NEW to, Goto(s, from, to), home' = home,
           global_count' = global_count, to \in CountedSteps <=> from \in CountedSteps
    PROVE  Exact'
<1>1. Counted' = Counted
  BY OnlyMoves DEF Counted, CountedSteps
<1> QED
  BY <1>1 DEF Exact

(* Two sessions under way are of different devices.                        *)
LEMMA Distinct ==
    ASSUME Single, NEW r \in Sessions, NEW s \in Sessions, r # s,
           pc[r] \notin {"unused", "closed"}, pc[s] \notin {"unused", "closed"}
    PROVE  DeviceOf(r) # DeviceOf(s)
  BY DEF Single, Live

(* A session that opens has recorded nothing.                              *)
LEMMA OpenQuiet ==
    ASSUME SessionType, Held, Registered, Exact,
           NEW s \in Sessions, NEW n \in Nodes, NEW d \in Devices, Open(s, n, d)
    PROVE  Held' /\ Registered' /\ Exact'
<1>1. /\ pc[s] = "unused" /\ pc'[s] = "check_global"
      /\ \A r \in Sessions : r # s => pc'[r] = pc[r]
      /\ UNCHANGED <<hub, redis>>
  BY DEF Open, Goto, SessionType
<1>2. \A r \in Sessions : r # s /\ pc[r] # "unused" =>
        NodeOf(r)' = NodeOf(r) /\ DeviceOf(r)' = DeviceOf(r)
  BY DEF Open, Put, SessionType, NodeOf, DeviceOf
<1>3. Held'
  BY <1>1, <1>2 DEF Held, HeldSteps, Disconnecting, hub
<1>4. Registered'
  BY <1>1, <1>2 DEF Registered, RegisteredSteps, redis
<1>5. Counted' = Counted
  BY <1>1 DEF Counted
<1> QED
  BY <1>1, <1>3, <1>4, <1>5 DEF Exact, redis

(* The tables of one node are replaced, keeping every device but d.        *)
LEMMA HeldReplaced ==
    ASSUME SessionType, HubType, Single, Held, NEW s \in Sessions, pc[s] \notin {"unused", "closed"},
           NEW from, NEW to, Goto(s, from, to), home' = home,
           NEW cs, connections' = [connections EXCEPT ![NodeOf(s)] = cs],
           DOMAIN connections[NodeOf(s)] \ {DeviceOf(s)} \subseteq DOMAIN cs,
           to \in HeldSteps => DeviceOf(s) \in DOMAIN cs
    PROVE  Held'
<1>1. NodeOf(s) \in Nodes
  BY SessionKnown
<1>2. ASSUME NEW r \in Sessions, pc'[r] \in HeldSteps
      PROVE DeviceOf(r) \in DOMAIN connections'[NodeOf(r)]
  <2>1. CASE r = s
    BY <1>1, <1>2, <2>1, OnlyMoves DEF HubType
  <2>2. CASE r # s
    <3>1. pc[r] \in HeldSteps /\ pc[r] \notin {"unused", "closed"}
      BY <1>2, <2>2, OnlyMoves DEF HeldSteps, Disconnecting
    <3>2. DeviceOf(r) # DeviceOf(s) /\ NodeOf(r) \in Nodes
      BY <2>2, <3>1, Distinct, SessionKnown
    <3>3. DeviceOf(r) \in DOMAIN connections[NodeOf(r)]
      BY <3>1 DEF Held
    <3>4. CASE NodeOf(r) = NodeOf(s)
      BY <1>1, <3>2, <3>3, <3>4 DEF HubType
    <3>5. CASE NodeOf(r) # NodeOf(s)
      BY <3>2, <3>3, <3>5 DEF HubType
    <3> QED
      BY <3>4, <3>5
  <2> QED
    BY <2>1, <2>2
<1> QED
  BY <1>2, OnlyMoves DEF Held

(* The registry entry of s changes.                                        *)
LEMMA RegisteredReplaced ==
    ASSUME SessionType, Single, Registered, NEW s \in Sessions, pc[s] \notin {"unused", "closed"},
           NEW from, NEW to, Goto(s, from, to), home' = home,
           \A d \in DOMAIN registry : d # DeviceOf(s) => d \in DOMAIN registry' /\ registry'[d] = registry[d],
           to \in RegisteredSteps =>
              DeviceOf(s) \in DOMAIN registry' /\ registry'[DeviceOf(s)] = NodeOf(s)
    PROVE  Registered'
<1>1. ASSUME NEW r \in Sessions, pc'[r] \in RegisteredSteps
      PROVE DeviceOf(r) \in DOMAIN registry' /\ registry'[DeviceOf(r)] = NodeOf(r)
  <2>1. CASE r = s
    BY <1>1, <2>1, OnlyMoves
  <2>2. CASE r # s
    <3>1. pc[r] \in RegisteredSteps /\ pc[r] \notin {"unused", "closed"}
      BY <1>1, <2>2, OnlyMoves DEF RegisteredSteps
    <3>2. DeviceOf(r) # DeviceOf(s)
      BY <2>2, <3>1, Distinct
    <3> QED
      BY <3>1, <3>2 DEF Registered
  <2> QED
    BY <2>1, <2>2
<1> QED
  BY <1>1, OnlyMoves DEF Registered

(* Every step that neither fails nor makes a second session keeps it.      *)
LEMMA NextQuiet ==
    TypeOK /\ QuietInv /\ Next /\ faults' = 0 /\ Single' => QuietInv'
<1> SUFFICES ASSUME TypeOK, QuietInv, Next, faults' = 0, Single'
             PROVE  (\A s \in Sessions : pc'[s] # "gone") /\ Held' /\ Registered' /\ Exact'
  BY DEF QuietInv, Alive
<1>t. SessionType /\ HubType /\ Single /\ Held /\ Registered /\ Exact /\ ~ Fault
      /\ CounterType /\ \A s \in Sessions : pc[s] # "gone"
  BY TypeParts DEF QuietInv, Alive, Fault
<1>g. ASSUME NEW s \in Sessions, NEW from, NEW to, Goto(s, from, to), to # "gone"
      PROVE \A r \in Sessions : pc'[r] # "gone"
  BY <1>g, <1>t DEF Goto, SessionType
<1> USE DEF HeldSteps, RegisteredSteps, CountedSteps, Disconnecting
<1>1. ASSUME NEW s \in Sessions, NEW n \in Nodes, NEW d \in Devices, Open(s, n, d)
      PROVE (\A r \in Sessions : pc'[r] # "gone") /\ Held' /\ Registered' /\ Exact'
  BY <1>1, <1>t, <1>g, OpenQuiet DEF Open
<1>2. ASSUME NEW s \in Sessions,
             \/ CheckGlobal(s) \/ CheckUser(s) \/ RegisterUser(s) \/ Close(s) \/ UnregisterUser(s)
      PROVE (\A r \in Sessions : pc'[r] # "gone") /\ Held' /\ Registered' /\ Exact'
  <2> DEFINE Moves(from, to) == Goto(s, from, to)
  <2>1. /\ home' = home /\ connections' = connections /\ registry' = registry /\ global_count' = global_count
        /\ \/ Moves("check_global", "check_user") \/ Moves("check_global", "closed")
           \/ Moves("check_user", "hub") \/ Moves("check_user", "closed")
           \/ Moves("incr_user", "open") \/ Moves("open", "finally") \/ Moves("decr_user", "pop")
    BY <1>2 DEF CheckGlobal, CheckUser, RegisterUser, Close, UnregisterUser, hub, redis
  <2> HIDE DEF Moves
  <2>2. ASSUME NEW from, NEW to, Moves(from, to), to # "gone", to \in HeldSteps => from \in HeldSteps,
               to \in RegisteredSteps => from \in RegisteredSteps, to \in CountedSteps <=> from \in CountedSteps
        PROVE (\A r \in Sessions : pc'[r] # "gone") /\ Held' /\ Registered' /\ Exact'
    <3>1. Goto(s, from, to)
      BY <2>2 DEF Moves
    <3>2. \A r \in Sessions : pc'[r] # "gone"
      BY <1>g, <2>2, <3>1
    <3>3. Held'
      BY <1>t, <2>1, <2>2, <3>1, HeldKept
    <3>4. Registered'
      BY <1>t, <2>1, <2>2, <3>1, RegisteredKept
    <3>5. Exact'
      BY <1>t, <2>1, <2>2, <3>1, ExactKept
    <3> QED
      BY <3>2, <3>3, <3>4, <3>5
  <2>3. CASE Moves("check_global", "check_user")
    BY <2>2, <2>3
  <2>4. CASE Moves("check_global", "closed")
    BY <2>2, <2>4
  <2>5. CASE Moves("check_user", "hub")
    BY <2>2, <2>5
  <2>6. CASE Moves("check_user", "closed")
    BY <2>2, <2>6
  <2>7. CASE Moves("incr_user", "open")
    BY <2>2, <2>7
  <2>8. CASE Moves("open", "finally")
    BY <2>2, <2>8
  <2>9. CASE Moves("decr_user", "pop")
    BY <2>2, <2>9
  <2> QED
    BY <2>1, <2>3, <2>4, <2>5, <2>6, <2>7, <2>8, <2>9
<1>3. ASSUME NEW s \in Sessions, HubConnect(s)
      PROVE (\A r \in Sessions : pc'[r] # "gone") /\ Held' /\ Registered' /\ Exact'
  <2>1. home' = home /\ registry' = registry /\ global_count' = global_count
    BY <1>3 DEF HubConnect, redis
  <2>2. CASE Goto(s, "hub", "closed") /\ UNCHANGED hub
    BY <1>t, <1>g, <2>1, <2>2, HeldKept, RegisteredKept, ExactKept DEF hub
  <2>3. CASE Goto(s, "hub", "set")
    <3> DEFINE cs == Put(connections[NodeOf(s)], DeviceOf(s), s)
    <3>1. connections' = [connections EXCEPT ![NodeOf(s)] = cs]
      BY <1>3, <1>t, <2>3 DEF HubConnect, Goto, SessionType
    <3>2. DOMAIN cs = DOMAIN connections[NodeOf(s)] \cup {DeviceOf(s)} /\ pc[s] = "hub"
      BY <2>3, PutFacts DEF Goto
    <3> HIDE DEF cs
    <3>3. Held'
      BY <1>t, <2>1, <2>3, <3>1, <3>2, HeldReplaced
    <3> QED
      BY <1>t, <1>g, <2>1, <2>3, <3>3, RegisteredKept, ExactKept
  <2> QED
    BY <1>3, <2>2, <2>3 DEF HubConnect
<1>4. ASSUME NEW s \in Sessions, RegisterKey(s)
      PROVE (\A r \in Sessions : pc'[r] # "gone") /\ Held' /\ Registered' /\ Exact'
  <2>1. /\ home' = home /\ connections' = connections /\ global_count' = global_count
        /\ Goto(s, "set", "incr_global") /\ pc[s] = "set"
        /\ registry' = Put(registry, DeviceOf(s), NodeOf(s))
    BY <1>4 DEF RegisterKey, hub, Goto
  <2>2. Registered'
    <3>1. /\ DeviceOf(s) \in DOMAIN registry' /\ registry'[DeviceOf(s)] = NodeOf(s)
          /\ \A d \in DOMAIN registry : d # DeviceOf(s) => d \in DOMAIN registry' /\ registry'[d] = registry[d]
      BY <2>1 DEF Put
    <3> QED
      BY <1>t, <2>1, <3>1, RegisteredReplaced
  <2> QED
    BY <1>t, <1>g, <2>1, <2>2, HeldKept, ExactKept
<1>5. ASSUME NEW s \in Sessions, RegisterGlobal(s)
      PROVE (\A r \in Sessions : pc'[r] # "gone") /\ Held' /\ Registered' /\ Exact'
  <2>1. /\ home' = home /\ connections' = connections /\ registry' = registry
        /\ global_count' = global_count + 1 /\ Goto(s, "incr_global", "incr_user")
    BY <1>5 DEF RegisterGlobal, hub
  <2>2. Counted' = Counted \cup {s} /\ s \notin Counted
    BY <1>t, <2>1, OnlyMoves DEF Counted
  <2>3. Exact'
    BY <1>t, <2>1, <2>2, CountedFinite, FS_AddElement DEF Exact
  <2> QED
    BY <1>t, <1>g, <2>1, <2>3, HeldKept, RegisteredKept
<1>6. ASSUME NEW s \in Sessions, Finally(s)
      PROVE (\A r \in Sessions : pc'[r] # "gone") /\ Held' /\ Registered' /\ Exact'
  <2>1. home' = home /\ connections' = connections /\ registry' = registry /\ global_count' = global_count
    BY <1>6 DEF Finally, hub, redis
  <2>2. Goto(s, "finally", "delete")
    BY <1>6, <1>t DEF Finally, Goto, Held
  <2> QED
    BY <1>t, <1>g, <2>1, <2>2, HeldKept, RegisteredKept, ExactKept
<1>7. ASSUME NEW s \in Sessions, UnregisterKey(s)
      PROVE (\A r \in Sessions : pc'[r] # "gone") /\ Held' /\ Registered' /\ Exact'
  <2>1. /\ home' = home /\ connections' = connections /\ global_count' = global_count
        /\ Goto(s, "delete", "decr_global") /\ pc[s] = "delete"
        /\ registry' = Drop(registry, DeviceOf(s))
    BY <1>7 DEF UnregisterKey, hub, Goto
  <2>2. Registered'
    <3>1. \A d \in DOMAIN registry : d # DeviceOf(s) => d \in DOMAIN registry' /\ registry'[d] = registry[d]
      BY <2>1 DEF Drop
    <3> QED
      BY <1>t, <2>1, <3>1, RegisteredReplaced
  <2> QED
    BY <1>t, <1>g, <2>1, <2>2, HeldKept, ExactKept
<1>8. ASSUME NEW s \in Sessions, UnregisterGlobal(s)
      PROVE (\A r \in Sessions : pc'[r] # "gone") /\ Held' /\ Registered' /\ Exact'
  <2>1. /\ home' = home /\ connections' = connections /\ registry' = registry
        /\ global_count' = global_count - 1 /\ Goto(s, "decr_global", "decr_user")
    BY <1>8 DEF UnregisterGlobal, hub
  <2>2. Counted' = Counted \ {s} /\ s \in Counted
    BY <1>t, <2>1, OnlyMoves DEF Counted
  <2>3. Exact'
    BY <1>t, <2>1, <2>2, CountedFinite, FS_RemoveElement DEF Exact
  <2> QED
    BY <1>t, <1>g, <2>1, <2>3, HeldKept, RegisteredKept
<1>9. ASSUME NEW s \in Sessions, HubDisconnect(s)
      PROVE (\A r \in Sessions : pc'[r] # "gone") /\ Held' /\ Registered' /\ Exact'
  <2>1. /\ home' = home /\ registry' = registry /\ global_count' = global_count
        /\ Goto(s, "pop", "closed") /\ pc[s] = "pop" /\ HubRemove(NodeOf(s), DeviceOf(s))
    BY <1>9 DEF HubDisconnect, redis, Goto
  <2>2. Held'
    <3> DEFINE cs == Drop(connections[NodeOf(s)], DeviceOf(s))
    <3>1. connections' = [connections EXCEPT ![NodeOf(s)] = cs]
      BY <1>t, <2>1 DEF HubRemove, Held
    <3>2. DOMAIN cs = DOMAIN connections[NodeOf(s)] \ {DeviceOf(s)}
      BY DropFacts
    <3>3. "closed" \notin HeldSteps /\ pc[s] \notin {"unused", "closed"}
      BY <2>1
    <3>4. DOMAIN connections[NodeOf(s)] \ {DeviceOf(s)} \subseteq DOMAIN cs
      BY <3>2
    <3> HIDE DEF cs, HeldSteps
    <3> QED
      BY <1>t, <2>1, <3>1, <3>3, <3>4, HeldReplaced
  <2> QED
    BY <1>t, <1>g, <2>1, <2>2, RegisteredKept, ExactKept
<1>10. ASSUME UNCHANGED <<pc, home, hub, redis>>
       PROVE (\A r \in Sessions : pc'[r] # "gone") /\ Held' /\ Registered' /\ Exact'
  BY <1>10, <1>t DEF hub, redis, Held, Registered, Exact, Counted, NodeOf, DeviceOf
<1>11. ASSUME NEW s \in Sessions, NEW t \in Devices, RelayLocal(s, t) \/ RelayFails(s, t) \/ RelayRemote(s, t)
       PROVE (\A r \in Sessions : pc'[r] # "gone") /\ Held' /\ Registered' /\ Exact'
  BY <1>10, <1>11, <1>t DEF RelayLocal, RelayFails, RelayRemote
<1>12. ASSUME NEW n \in Nodes, NEW m \in Devices \X Devices, Consume(n, m)
       PROVE (\A r \in Sessions : pc'[r] # "gone") /\ Held' /\ Registered' /\ Exact'
  BY <1>10, <1>12 DEF Consume
<1>13. ~ \/ \E s \in Sessions : RedisError(s)
         \/ \E n \in Nodes : Crash(n)
         \/ \E u \in Users : ExpireUserCount(u)
         \/ \E d \in Devices : ExpireKey(d)
  BY <1>t DEF RedisError, Crash, ExpireUserCount, ExpireKey
<1> QED
  BY <1>1, <1>2, <1>3, <1>4, <1>5, <1>6, <1>7, <1>8, <1>9, <1>11, <1>12, <1>13 DEF Next

LEMMA StutterQuiet ==
    ASSUME TypeOK, QuietInv, UNCHANGED vars PROVE QuietInv'
  BY DEF QuietInv, Single, Alive, Held, Registered, Exact, Counted, Live, NodeOf, DeviceOf, vars

LEMMA QuietGives ==
    ASSUME TypeOK, QuietInv PROVE SessionTracked /\ CountersExact /\ RegistryFinds
<1> USE DEF QuietInv, HeldSteps, RegisteredSteps
<1>1. SessionTracked
  BY DEF SessionTracked, Held
<1>2. ASSUME Quiescent PROVE Counted = {s \in Sessions : pc[s] = "open"}
  BY <1>2 DEF Quiescent, Counted
<1>3. CountersExact
  BY <1>2 DEF CountersExact, Exact
<1>4. RegistryFinds
  BY DEF RegistryFinds, Registered
<1> QED
  BY <1>1, <1>3, <1>4

(* Until something fails or a device has two sessions, the hub knows every *)
(* open session, the global counter is exact and the registry names the    *)
(* node of every connected device, for any number of sessions and nodes.   *)
THEOREM QuietSound == MCSpec => []QuietPromises
<1> DEFINE Inv == TypeOK /\ (quiet => QuietInv)
<1>1. MCInit => Inv
  <2> SUFFICES ASSUME Init PROVE QuietInv
    BY InitType DEF MCInit
  <2>1. Counted = {}
    BY DEF Init, Counted
  <2> QED
    BY <2>1, FS_EmptySet DEF Init, QuietInv, Single, Live, Alive, Held, HeldSteps, Disconnecting,
                             Registered, RegisteredSteps, Exact
<1>2. Inv /\ [MCNext]_<<vars, quiet>> => Inv'
  <2> SUFFICES ASSUME Inv, [MCNext]_<<vars, quiet>> PROVE Inv'
    OBVIOUS
  <2>1. CASE MCNext
    <3>1. TypeOK'
      BY <2>1, NextType DEF MCNext
    <3>2. ASSUME quiet' PROVE QuietInv'
      <4>1. QuietInv /\ Next /\ faults' = 0
        BY <2>1, <3>2 DEF MCNext
      <4>2. Single'
        BY <2>1, <3>2 DEF MCNext, Single, DeviceOf
      <4> QED
        BY <4>1, <4>2, NextQuiet
    <3> QED
      BY <3>1, <3>2
  <2>2. CASE UNCHANGED <<vars, quiet>>
    <3>1. TypeOK'
      BY <2>2, NextType
    <3> QED
      BY <2>2, <3>1, StutterQuiet
  <2> QED
    BY <2>1, <2>2
<1>3. Inv => QuietPromises
  BY QuietGives DEF QuietPromises
<1> QED
  BY <1>1, <1>2, <1>3, PTL DEF MCSpec
=============================================================================
