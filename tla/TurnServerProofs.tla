--------------------------- MODULE TurnServerProofs ---------------------------
(***************************************************************************)
(* Proofs about TurnServer for any number of handlers, clients and ports   *)
(* and any quota and lifetimes.  Whatever the interleaving: the types,     *)
(* AuthenticatedOwner, LifetimeBound, StatsNeverOvercount,                 *)
(* AllocationStable, and QuotaOvershoot on what the unlocked quota check   *)
(* lets through.  As long as handlers do not overlap: what the             *)
(* documentation promises (SequentialPromises, SequentialKept).            *)
(***************************************************************************)
EXTENDS MCTurnServer, SumTheorems

(* What LifetimeBound needs of the handlers in flight.                     *)
LifetimeInv ==
    /\ LifetimeBound
    /\ \A w \in DOMAIN tasks :
        /\ tasks[w].step \in {"quota", "assign"} => tasks[w].lifetime <= MaxLifetime
        /\ tasks[w].step = "insert" =>
            tasks[w].allocation.expires_at <= now + MaxLifetime

(* The handlers that passed the quota check for host ip and have yet to    *)
(* insert: the allocations they announced are not in the table.            *)
PastQuota(ip) ==
    {w \in DOMAIN tasks :
        \/ tasks[w].step = "assign" /\ IpOf[tasks[w].client_addr] = ip
        \/ tasks[w].step = "insert" /\ IpOf[tasks[w].allocation.client_addr] = ip}

(* Stored and announced allocations together exceed the quota by at most   *)
(* the number of handlers less one.                                        *)
QuotaInv ==
    \A ip \in IPs :
        Cardinality(PortsOfIp(ip)) + Cardinality(PastQuota(ip))
            <= max_allocations_per_ip + Cardinality(Workers) - 1

-----------------------------------------------------------------------------
(* HashMap facts: what insert and remove do to a partial function.         *)
LEMMA PutType ==
    ASSUME NEW S, NEW T, NEW f, IsMap(f, S, T), NEW k \in S, NEW v \in T
    PROVE  /\ IsMap(Put(f, k, v), S, T)
           /\ DOMAIN Put(f, k, v) = DOMAIN f \cup {k}
           /\ Put(f, k, v)[k] = v
           /\ \A x \in DOMAIN f : x # k => Put(f, k, v)[x] = f[x]
  BY DEF IsMap, Put

LEMMA DropType ==
    ASSUME NEW S, NEW T, NEW f, IsMap(f, S, T), NEW K
    PROVE  /\ IsMap(Drop(f, K), S, T)
           /\ DOMAIN Drop(f, K) = DOMAIN f \ K
           /\ \A x \in DOMAIN f \ K : Drop(f, K)[x] = f[x]
  BY DEF IsMap, Drop

(* A member of Task at a given step has the fields of that step.           *)
LEMMA TaskFields ==
    ASSUME TypeOK, NEW w \in DOMAIN tasks
    PROVE  /\ w \in Workers /\ tasks[w] \in Task
           /\ tasks[w].step \in {"quota", "assign"} => tasks[w] \in AllocatingTask
           /\ tasks[w].step = "insert" => tasks[w] \in InsertingTask
           /\ tasks[w].step = "account" => tasks[w] \in SendingTask
  BY DEF TypeOK, IsMap, Task, AllocatingTask, InsertingTask, SendingTask

LEMMA ClampType ==
    ASSUME NEW l \in Requested \cup {DefaultLifetime}
    PROVE  ClampLifetime(l) \in Nat /\ ClampLifetime(l) <= MaxLifetime
  BY LifetimeAssumption DEF ClampLifetime, Lesser, Greater

-----------------------------------------------------------------------------
LEMMA InitType == Init => TypeOK
  BY BoundAssumption DEF Init, TypeOK, IsMap, Ports, Nonces

(* Every action keeps the tables, the handlers and the histories typed.    *)
LEMMA NextType == TypeOK /\ [Next]_vars => TypeOK'
<1> SUFFICES ASSUME TypeOK, [Next]_vars PROVE TypeOK'
  OBVIOUS
<1>1. CASE UNCHANGED vars
  BY <1>1 DEF TypeOK, vars, IsMap
<1>2. ASSUME NEW u \in Users, NEW pw \in Passwords, AddCredential(u, pw)
      PROVE TypeOK'
  <2>1. IsMap(credentials', Users, Passwords)
    BY <1>2, PutType DEF AddCredential, TypeOK
  <2> QED
    BY <1>2, <2>1 DEF AddCredential, TypeOK, IsMap
<1>3. ASSUME NEW w \in Workers, NEW c \in Clients, NEW u \in Users,
             NEW pw \in Passwords, NEW l \in Requested \cup {DefaultLifetime},
             Allocate(w, c, u, pw, l)
      PROVE TypeOK'
  <2> DEFINE t == [step |-> "quota", client_addr |-> c, username |-> u,
                   lifetime |-> ClampLifetime(l)]
  <2>1. t \in Task
    BY ClampType DEF Task, AllocatingTask
  <2>2. tasks' = Put(tasks, w, t)
    BY <1>3 DEF Allocate, Start
  <2>3. IsMap(tasks', Workers, Task)
    BY <2>1, <2>2, PutType DEF TypeOK
  <2> QED
    BY <1>3, <2>3 DEF Allocate, TypeOK, IsMap
<1>4. ASSUME NEW w \in Workers, CheckQuota(w) PROVE TypeOK'
  <2> DEFINE t == [tasks[w] EXCEPT !.step = "assign"]
  <2>1. w \in DOMAIN tasks /\ tasks[w] \in AllocatingTask
    BY <1>4, TaskFields DEF CheckQuota, At
  <2>2. t \in Task
    BY <2>1 DEF Task, AllocatingTask
  <2>3. CASE tasks' = [tasks EXCEPT ![w] = t]
    BY <1>4, <2>1, <2>2, <2>3 DEF CheckQuota, TypeOK, IsMap
  <2>4. CASE Return(w)
    <3>1. IsMap(tasks', Workers, Task)
      BY <2>4, DropType DEF Return, TypeOK
    <3> QED
      BY <1>4, <3>1 DEF CheckQuota, TypeOK, IsMap
  <2> QED
    BY <1>4, <2>3, <2>4 DEF CheckQuota, Goto
<1>5. ASSUME NEW w \in Workers, AssignPort(w) PROVE TypeOK'
  <2>1. w \in DOMAIN tasks /\ tasks[w] \in AllocatingTask
    BY <1>5, TaskFields DEF AssignPort, At
  <2>2. CASE Return(w) /\ UNCHANGED nonces
    <3>1. IsMap(tasks', Workers, Task)
      BY <2>2, DropType DEF Return, TypeOK
    <3> QED
      BY <1>5, <2>2, <3>1 DEF AssignPort, TypeOK, IsMap
  <2>3. ASSUME NEW p \in Ports, nonces < MaxNonce, nonces' = nonces + 1,
               Goto(w, [step |-> "insert", relayed_addr |-> p,
                        allocation |->
                          [client_addr |-> tasks[w].client_addr,
                           username |-> tasks[w].username,
                           expires_at |-> now + tasks[w].lifetime,
                           nonce |-> nonces + 1,
                           channel_bindings |-> [n \in {} |-> 0],
                           bytes_sent |-> 0, bandwidth_limit |-> 0]])
        PROVE TypeOK'
    <3> DEFINE a == [client_addr |-> tasks[w].client_addr,
                     username |-> tasks[w].username,
                     expires_at |-> now + tasks[w].lifetime,
                     nonce |-> nonces + 1,
                     channel_bindings |-> [n \in {} |-> 0],
                     bytes_sent |-> 0, bandwidth_limit |-> 0]
               t == [step |-> "insert", relayed_addr |-> p, allocation |-> a]
    <3>1. [n \in {} |-> 0] \in Map(ValidChannels, Peers)
      BY DEF Map
    <3>2. nonces + 1 \in Nonces /\ nonces' \in 0 .. MaxNonce
      BY <2>3, BoundAssumption DEF TypeOK, Nonces
    <3>3. a \in Allocation
      BY <2>1, <3>1, <3>2, BytesAssumption DEF Allocation, AllocatingTask, TypeOK
    <3>4. t \in Task
      BY <3>3 DEF Task, InsertingTask
    <3>5. IsMap(tasks', Workers, Task)
      BY <2>1, <2>3, <3>4 DEF Goto, TypeOK, IsMap
    <3> QED
      BY <1>5, <3>2, <3>5 DEF AssignPort, TypeOK, IsMap
  <2> QED
    BY <1>5, <2>2, <2>3 DEF AssignPort
<1>6. ASSUME NEW w \in Workers, InsertAllocation(w) PROVE TypeOK'
  <2>1. w \in DOMAIN tasks /\ tasks[w] \in InsertingTask
    BY <1>6, TaskFields DEF InsertAllocation, At
  <2> DEFINE p == tasks[w].relayed_addr
             a == tasks[w].allocation
  <2>2. p \in Ports /\ a \in Allocation /\ a.nonce \in Nonces
    BY <2>1 DEF InsertingTask, Allocation
  <2>3. IsMap(allocations', Ports, Allocation)
    BY <1>6, <2>2, PutType DEF InsertAllocation, TypeOK
  <2>4. IsMap(tasks', Workers, Task)
    BY <1>6, DropType DEF InsertAllocation, Return, TypeOK
  <2>5. holders' \in [Ports -> SUBSET Nonces]
    BY <1>6, <2>2 DEF InsertAllocation, TypeOK
  <2> QED
    BY <1>6, <2>3, <2>4, <2>5 DEF InsertAllocation, TypeOK, IsMap
<1>7. ASSUME NEW w \in Workers, NEW c \in Clients, NEW p \in Ports,
             NEW len \in Lengths, SendCheck(w, c, p, len)
      PROVE TypeOK'
  <2> DEFINE t == [step |-> "account", relayed_addr |-> p, len |-> len]
  <2>1. t \in Task
    BY DEF Task, SendingTask
  <2>2. IsMap(tasks', Workers, Task)
    BY <1>7, <2>1, PutType DEF SendCheck, Start, TypeOK
  <2>3. len \in Nat
    BY BytesAssumption
  <2>4. allocations[p].nonce \in Nonces
    BY <1>7 DEF SendCheck, MaySend, TypeOK, IsMap, Allocation
  <2>5. accepted' \in [Nonces -> Nat]
    BY <1>7, <2>3, <2>4 DEF SendCheck, TypeOK
  <2> QED
    BY <1>7, <2>2, <2>5 DEF SendCheck, TypeOK, IsMap
<1>8. ASSUME NEW w \in Workers, SendAccount(w) PROVE TypeOK'
  <2>1. w \in DOMAIN tasks /\ tasks[w] \in SendingTask
    BY <1>8, TaskFields DEF SendAccount, At
  <2> DEFINE p == tasks[w].relayed_addr
  <2>2. IsMap(tasks', Workers, Task)
    BY <1>8, DropType DEF SendAccount, Return, TypeOK
  <2>3. CASE p \in DOMAIN allocations
    <3>1. allocations[p] \in Allocation
      BY <2>3 DEF TypeOK, IsMap
    <3>2. tasks[w].len \in Nat
      BY <2>1, BytesAssumption DEF SendingTask
    <3>3. Counted(allocations[p], tasks[w].len) \in Allocation
      BY <3>1, <3>2, BytesAssumption DEF Counted, SaturatingAdd, Lesser, Allocation
    <3>4. IsMap(allocations', Ports, Allocation)
      BY <1>8, <2>3, <3>3 DEF SendAccount, TypeOK, IsMap
    <3> QED
      BY <1>8, <2>2, <3>4 DEF SendAccount, TypeOK, IsMap
  <2>4. CASE p \notin DOMAIN allocations
    BY <1>8, <2>2, <2>4 DEF SendAccount, TypeOK, IsMap
  <2> QED
    BY <2>3, <2>4
<1>9. ASSUME NEW c \in Clients, NEW p \in Ports, NEW l \in Requested, Refresh(c, p, l)
      PROVE TypeOK'
  <2> DEFINE a == [allocations[p] EXCEPT !.expires_at = now + RefreshLifetime(l)]
  <2>1. p \in DOMAIN allocations /\ allocations[p] \in Allocation
    BY <1>9 DEF Refresh, TypeOK, IsMap
  <2>2. now + RefreshLifetime(l) \in Nat
    BY LifetimeAssumption DEF RefreshLifetime, Lesser, TypeOK
  <2>3. a \in Allocation
    BY <2>1, <2>2 DEF Allocation
  <2>4. IsMap(allocations', Ports, Allocation)
    BY <1>9, <2>1, <2>3 DEF Refresh, TypeOK, IsMap
  <2> QED
    BY <1>9, <2>4 DEF Refresh, TypeOK, IsMap
<1>10. ASSUME NEW c \in Clients, NEW p \in Ports, NEW n \in Channels,
              NEW peer \in Peers, ChannelBind(c, p, n, peer)
       PROVE TypeOK'
  <2> DEFINE b == Put(allocations[p].channel_bindings, n, peer)
             a == [allocations[p] EXCEPT !.channel_bindings = b]
  <2>1. p \in DOMAIN allocations /\ allocations[p] \in Allocation
    BY <1>10 DEF ChannelBind, TypeOK, IsMap
  <2>2. IsMap(allocations[p].channel_bindings, ValidChannels, Peers)
    BY <2>1 DEF Allocation, Map, IsMap
  <2>3. IsMap(b, ValidChannels, Peers)
    BY <1>10, <2>2, PutType DEF ChannelBind
  <2>4. b \in Map(ValidChannels, Peers)
    BY <2>3 DEF Map, IsMap
  <2>5. a \in Allocation
    BY <2>1, <2>4 DEF Allocation
  <2>6. IsMap(allocations', Ports, Allocation)
    BY <1>10, <2>1, <2>5 DEF ChannelBind, TypeOK, IsMap
  <2> QED
    BY <1>10, <2>6 DEF ChannelBind, TypeOK, IsMap
<1>11. ASSUME NEW P, Forget(P) PROVE TypeOK'
  <2>1. IsMap(allocations', Ports, Allocation)
    BY <1>11, DropType DEF Forget, TypeOK
  <2>2. holders' \in [Ports -> SUBSET Nonces]
    BY <1>11 DEF Forget, TypeOK
  <2> QED
    BY <1>11, <2>1, <2>2 DEF Forget, TypeOK, IsMap
<1>12. CASE Tick
  BY <1>12 DEF Tick, TypeOK, IsMap
<1> QED
  BY <1>1, <1>2, <1>3, <1>4, <1>5, <1>6, <1>7, <1>8, <1>9, <1>10, <1>11, <1>12
     DEF Next, CleanupExpired, ReleaseAllocation

(* Type correctness of every behaviour of the TURN server.                 *)
THEOREM TypeCorrect == Spec => []TypeOK
  BY InitType, NextType, PTL DEF Spec

-----------------------------------------------------------------------------
(* A username in the table, or on its way into it, was verified.           *)
LEMMA NextAuthenticated ==
    TypeOK /\ AuthenticatedOwner /\ [Next]_vars => AuthenticatedOwner'
<1> SUFFICES ASSUME TypeOK, AuthenticatedOwner, [Next]_vars PROVE AuthenticatedOwner'
  OBVIOUS
<1>1. CASE UNCHANGED vars
  BY <1>1 DEF AuthenticatedOwner, vars
<1>2. ASSUME NEW u \in Users, NEW pw \in Passwords, AddCredential(u, pw)
      PROVE AuthenticatedOwner'
  BY <1>2 DEF AddCredential, AuthenticatedOwner, Put
<1>3. ASSUME NEW w \in Workers, NEW c \in Clients, NEW u \in Users,
             NEW pw \in Passwords, NEW l \in Requested \cup {DefaultLifetime},
             Allocate(w, c, u, pw, l)
      PROVE AuthenticatedOwner'
  BY <1>3 DEF Allocate, Verify, Start, Put, AuthenticatedOwner
<1>4. ASSUME NEW w \in Workers, CheckQuota(w) PROVE AuthenticatedOwner'
  <2>1. w \in DOMAIN tasks /\ tasks[w] \in AllocatingTask /\ tasks[w].step = "quota"
    BY <1>4, TaskFields DEF CheckQuota, At
  <2>2. CASE tasks' = [tasks EXCEPT ![w] = [tasks[w] EXCEPT !.step = "assign"]]
    BY <1>4, <2>1, <2>2 DEF CheckQuota, AllocatingTask, AuthenticatedOwner
  <2>3. CASE Return(w)
    BY <1>4, <2>3 DEF CheckQuota, Return, Drop, AuthenticatedOwner
  <2> QED
    BY <1>4, <2>2, <2>3 DEF CheckQuota, Goto
<1>5. ASSUME NEW w \in Workers, AssignPort(w) PROVE AuthenticatedOwner'
  <2>1. w \in DOMAIN tasks /\ tasks[w].step = "assign"
    BY <1>5 DEF AssignPort, At
  <2>2. CASE Return(w)
    BY <1>5, <2>2 DEF AssignPort, Return, Drop, AuthenticatedOwner
  <2>3. ASSUME NEW t, t.step = "insert", t.allocation.username = tasks[w].username,
               Goto(w, t)
        PROVE AuthenticatedOwner'
    BY <1>5, <2>1, <2>3 DEF AssignPort, Goto, AuthenticatedOwner
  <2> QED
    BY <1>5, <2>2, <2>3 DEF AssignPort
<1>6. ASSUME NEW w \in Workers, InsertAllocation(w) PROVE AuthenticatedOwner'
  BY <1>6 DEF InsertAllocation, At, Return, Drop, Put, AuthenticatedOwner
<1>7. ASSUME NEW w \in Workers, NEW c \in Clients, NEW p \in Ports,
             NEW len \in Lengths, SendCheck(w, c, p, len)
      PROVE AuthenticatedOwner'
  BY <1>7 DEF SendCheck, Start, Put, AuthenticatedOwner
<1>8. ASSUME NEW w \in Workers, SendAccount(w) PROVE AuthenticatedOwner'
  <2>1. \A p \in DOMAIN allocations : allocations[p] \in Allocation
    BY DEF TypeOK, IsMap
  <2>2. /\ DOMAIN allocations' = DOMAIN allocations
        /\ \A p \in DOMAIN allocations : allocations'[p].username = allocations[p].username
    BY <1>8, <2>1 DEF SendAccount, Counted, Allocation
  <2> QED
    BY <1>8, <2>2 DEF SendAccount, Return, Drop, AuthenticatedOwner
<1>9. ASSUME NEW c \in Clients, NEW p \in Ports, NEW l \in Requested, Refresh(c, p, l)
      PROVE AuthenticatedOwner'
  <2>1. \A q \in DOMAIN allocations : allocations[q] \in Allocation
    BY DEF TypeOK, IsMap
  <2> QED
    BY <1>9, <2>1 DEF Refresh, Allocation, AuthenticatedOwner
<1>10. ASSUME NEW c \in Clients, NEW p \in Ports, NEW n \in Channels,
              NEW peer \in Peers, ChannelBind(c, p, n, peer)
       PROVE AuthenticatedOwner'
  <2>1. \A q \in DOMAIN allocations : allocations[q] \in Allocation
    BY DEF TypeOK, IsMap
  <2> QED
    BY <1>10, <2>1 DEF ChannelBind, Allocation, AuthenticatedOwner
<1>11. ASSUME NEW P, Forget(P) PROVE AuthenticatedOwner'
  BY <1>11 DEF Forget, Drop, AuthenticatedOwner
<1>12. CASE Tick
  BY <1>12 DEF Tick, AuthenticatedOwner
<1> QED
  BY <1>1, <1>2, <1>3, <1>4, <1>5, <1>6, <1>7, <1>8, <1>9, <1>10, <1>11, <1>12
     DEF Next, CleanupExpired, ReleaseAllocation

(* handle_allocate serves verified usernames only: no interleaving of the  *)
(* handlers puts an allocation of an unverified user into the table.       *)
THEOREM Authenticated == Spec => []AuthenticatedOwner
<1>1. Init => AuthenticatedOwner
  BY DEF Init, AuthenticatedOwner
<1> QED
  BY <1>1, InitType, NextType, NextAuthenticated, PTL DEF Spec

-----------------------------------------------------------------------------
(* A refresh asks for at most MaxLifetime (handle_refresh, min).           *)
LEMMA RefreshType ==
    \A l \in Requested : RefreshLifetime(l) \in Nat /\ RefreshLifetime(l) <= MaxLifetime
<1> SUFFICES ASSUME NEW l \in Requested
             PROVE RefreshLifetime(l) \in Nat /\ RefreshLifetime(l) <= MaxLifetime
  OBVIOUS
<1>1. l \in Nat /\ MaxLifetime \in Nat
  BY LifetimeAssumption
<1> QED
  BY <1>1 DEF RefreshLifetime, Lesser

(* No step moves an expiry further than MaxLifetime into the future.       *)
LEMMA NextLifetime == TypeOK /\ LifetimeInv /\ [Next]_vars => LifetimeInv'
<1> SUFFICES ASSUME TypeOK, LifetimeInv, [Next]_vars PROVE LifetimeInv'
  OBVIOUS
<1> USE LifetimeAssumption DEF LifetimeInv, LifetimeBound
<1>0. /\ now \in Nat
      /\ \A p \in DOMAIN allocations : allocations[p] \in Allocation
  BY DEF TypeOK, IsMap
<1>1. CASE UNCHANGED vars
  BY <1>1 DEF vars
<1>2. ASSUME NEW u \in Users, NEW pw \in Passwords, AddCredential(u, pw)
      PROVE LifetimeInv'
  BY <1>2 DEF AddCredential
<1>3. ASSUME NEW w \in Workers, NEW c \in Clients, NEW u \in Users,
             NEW pw \in Passwords, NEW l \in Requested \cup {DefaultLifetime},
             Allocate(w, c, u, pw, l)
      PROVE LifetimeInv'
  <2>1. ClampLifetime(l) <= MaxLifetime
    BY ClampType
  <2> QED
    BY <1>3, <2>1 DEF Allocate, Start, Put
<1>4. ASSUME NEW w \in Workers, CheckQuota(w) PROVE LifetimeInv'
  <2>1. w \in DOMAIN tasks /\ tasks[w] \in AllocatingTask /\ tasks[w].step = "quota"
    BY <1>4, TaskFields DEF CheckQuota, At
  <2>2. CASE tasks' = [tasks EXCEPT ![w] = [tasks[w] EXCEPT !.step = "assign"]]
    BY <1>4, <2>1, <2>2 DEF CheckQuota, AllocatingTask
  <2>3. CASE Return(w)
    BY <1>4, <2>3 DEF CheckQuota, Return, Drop
  <2> QED
    BY <1>4, <2>2, <2>3 DEF CheckQuota, Goto
<1>5. ASSUME NEW w \in Workers, AssignPort(w) PROVE LifetimeInv'
  <2>1. w \in DOMAIN tasks /\ tasks[w].step = "assign" /\ tasks[w] \in AllocatingTask
    BY <1>5, TaskFields DEF AssignPort, At
  <2>2. now + tasks[w].lifetime <= now + MaxLifetime
    BY <1>0, <2>1 DEF AllocatingTask
  <2>3. CASE Return(w)
    BY <1>5, <2>3 DEF AssignPort, Return, Drop
  <2>4. ASSUME NEW t, t.step = "insert",
               t.allocation.expires_at = now + tasks[w].lifetime, Goto(w, t)
        PROVE LifetimeInv'
    BY <1>5, <2>1, <2>2, <2>4 DEF AssignPort, Goto
  <2> QED
    BY <1>5, <2>3, <2>4 DEF AssignPort
<1>6. ASSUME NEW w \in Workers, InsertAllocation(w) PROVE LifetimeInv'
  BY <1>6 DEF InsertAllocation, At, Return, Drop, Put
<1>7. ASSUME NEW w \in Workers, NEW c \in Clients, NEW p \in Ports,
             NEW len \in Lengths, SendCheck(w, c, p, len)
      PROVE LifetimeInv'
  BY <1>7 DEF SendCheck, Start, Put
<1>8. ASSUME NEW w \in Workers, SendAccount(w) PROVE LifetimeInv'
  <2>1. /\ DOMAIN allocations' = DOMAIN allocations
        /\ \A p \in DOMAIN allocations :
              allocations'[p].expires_at = allocations[p].expires_at
    BY <1>0, <1>8 DEF SendAccount, Counted, Allocation
  <2> QED
    BY <1>8, <2>1 DEF SendAccount, Return, Drop
<1>9. ASSUME NEW c \in Clients, NEW p \in Ports, NEW l \in Requested, Refresh(c, p, l)
      PROVE LifetimeInv'
  <2>0. RefreshLifetime(l) \in Nat /\ RefreshLifetime(l) <= MaxLifetime
    BY RefreshType
  <2>1. now + RefreshLifetime(l) <= now + MaxLifetime
    BY <1>0, <2>0
  <2> QED
    BY <1>0, <1>9, <2>1 DEF Refresh, Allocation
<1>10. ASSUME NEW c \in Clients, NEW p \in Ports, NEW n \in Channels,
              NEW peer \in Peers, ChannelBind(c, p, n, peer)
       PROVE LifetimeInv'
  BY <1>0, <1>10 DEF ChannelBind, Allocation
<1>11. ASSUME NEW P, Forget(P) PROVE LifetimeInv'
  BY <1>11 DEF Forget, Drop
<1>12. CASE Tick
  <2>1. \A w \in DOMAIN tasks : tasks[w].step = "insert" =>
            tasks[w].allocation.expires_at \in Nat
    BY TaskFields DEF InsertingTask, Allocation
  <2> QED
    BY <1>0, <1>12, <2>1 DEF Tick, Allocation
<1> QED
  BY <1>1, <1>2, <1>3, <1>4, <1>5, <1>6, <1>7, <1>8, <1>9, <1>10, <1>11, <1>12
     DEF Next, CleanupExpired, ReleaseAllocation

(* MAX_LIFETIME bounds every allocation's remaining life, whatever         *)
(* lifetimes ALLOCATE and REFRESH ask for and however long a handler waits *)
(* for the write guard.                                                    *)
THEOREM Lifetime == Spec => []LifetimeBound
<1>1. Init => LifetimeInv
  BY DEF Init, LifetimeInv, LifetimeBound
<1>2. LifetimeInv => LifetimeBound
  BY DEF LifetimeInv
<1> QED
  BY <1>1, <1>2, InitType, NextType, NextLifetime, PTL DEF Spec

-----------------------------------------------------------------------------
(* The sets QuotaInv counts are finite.                                    *)
LEMMA QuotaSetsFinite ==
    ASSUME TypeOK, NEW ip
    PROVE  /\ IsFiniteSet(PortsOfIp(ip)) /\ Cardinality(PortsOfIp(ip)) \in Nat
           /\ IsFiniteSet(PastQuota(ip)) /\ Cardinality(PastQuota(ip)) \in Nat
           /\ Cardinality(PastQuota(ip)) <= Cardinality(Workers)
           /\ Cardinality(Workers) \in Nat
<1>1. IsFiniteSet(Ports)
  BY PortAssumption, FS_Interval DEF Ports
<1>2. PortsOfIp(ip) \subseteq Ports /\ PastQuota(ip) \subseteq Workers
  BY DEF TypeOK, IsMap, PortsOfIp, PastQuota
<1> QED
  BY <1>1, <1>2, WorkersAssumption, FS_Subset, FS_CardinalityType

(* A step that only shrinks both sets keeps the bound.                     *)
LEMMA QuotaShrinks ==
    ASSUME TypeOK, TypeOK', QuotaInv,
           \A ip \in IPs : PortsOfIp(ip)' \subseteq PortsOfIp(ip),
           \A ip \in IPs : PastQuota(ip)' \subseteq PastQuota(ip)
    PROVE  QuotaInv'
<1> SUFFICES ASSUME NEW ip \in IPs
             PROVE Cardinality(PortsOfIp(ip)') + Cardinality(PastQuota(ip)')
                     <= max_allocations_per_ip + Cardinality(Workers) - 1
  BY DEF QuotaInv
<1>1. /\ IsFiniteSet(PortsOfIp(ip)) /\ Cardinality(PortsOfIp(ip)) \in Nat
      /\ IsFiniteSet(PastQuota(ip)) /\ Cardinality(PastQuota(ip)) \in Nat
      /\ Cardinality(Workers) \in Nat
  BY QuotaSetsFinite
<1>2. /\ IsFiniteSet(PortsOfIp(ip)')
      /\ Cardinality(PortsOfIp(ip)') <= Cardinality(PortsOfIp(ip))
  BY <1>1, FS_Subset
<1>3. /\ IsFiniteSet(PastQuota(ip)')
      /\ Cardinality(PastQuota(ip)') <= Cardinality(PastQuota(ip))
  BY <1>1, FS_Subset
<1>4. Cardinality(PortsOfIp(ip)') \in Nat /\ Cardinality(PastQuota(ip)') \in Nat
  BY <1>2, <1>3, FS_CardinalityType
<1>5. Cardinality(PortsOfIp(ip)) + Cardinality(PastQuota(ip))
        <= max_allocations_per_ip + Cardinality(Workers) - 1
  BY DEF QuotaInv
<1> QED
  BY <1>1, <1>2, <1>3, <1>4, <1>5, QuotaAssumption

(* Passing the check adds a handler, but only to a host whose stored       *)
(* allocations are below the quota; inserting moves one unit from the      *)
(* announced to the stored allocations.  No other step adds to either set. *)
LEMMA NextQuota == TypeOK /\ QuotaInv /\ [Next]_vars => QuotaInv'
<1> SUFFICES ASSUME TypeOK, QuotaInv, [Next]_vars PROVE QuotaInv'
  OBVIOUS
<1>t. TypeOK'
  BY NextType
<1>0. \A p \in DOMAIN allocations : allocations[p] \in Allocation
  BY DEF TypeOK, IsMap
<1>1. CASE UNCHANGED vars
  BY <1>1, <1>t, QuotaShrinks DEF vars, PortsOfIp, PastQuota
<1>2. ASSUME NEW u \in Users, NEW pw \in Passwords, AddCredential(u, pw)
      PROVE QuotaInv'
  BY <1>2, <1>t, QuotaShrinks DEF AddCredential, PortsOfIp, PastQuota
<1>3. ASSUME NEW w \in Workers, NEW c \in Clients, NEW u \in Users,
             NEW pw \in Passwords, NEW l \in Requested \cup {DefaultLifetime},
             Allocate(w, c, u, pw, l)
      PROVE QuotaInv'
  <2>1. \A ip \in IPs : PortsOfIp(ip)' \subseteq PortsOfIp(ip)
    BY <1>3 DEF Allocate, PortsOfIp
  <2>2. \A ip \in IPs : PastQuota(ip)' \subseteq PastQuota(ip)
    BY <1>3 DEF Allocate, Start, Put, PastQuota
  <2> QED
    BY <2>1, <2>2, <1>t, QuotaShrinks
<1>4. ASSUME NEW w \in Workers, CheckQuota(w) PROVE QuotaInv'
  <2>1. w \in DOMAIN tasks /\ tasks[w] \in AllocatingTask /\ tasks[w].step = "quota"
    BY <1>4, TaskFields DEF CheckQuota, At
  <2>2. CASE /\ QuotaOk(tasks[w].client_addr)
             /\ tasks' = [tasks EXCEPT ![w] = [tasks[w] EXCEPT !.step = "assign"]]
    <3> SUFFICES ASSUME NEW ip \in IPs
                 PROVE Cardinality(PortsOfIp(ip)') + Cardinality(PastQuota(ip)')
                         <= max_allocations_per_ip + Cardinality(Workers) - 1
      BY DEF QuotaInv
    <3>1. PortsOfIp(ip)' = PortsOfIp(ip)
      BY <1>4 DEF CheckQuota, PortsOfIp
    <3>2. CASE IpOf[tasks[w].client_addr] = ip
      <4>1. Cardinality(PortsOfIp(ip)) < max_allocations_per_ip
        BY <2>2, <3>2, QuotaSetsFinite, QuotaAssumption DEF QuotaOk
      <4>2. Cardinality(PastQuota(ip)') <= Cardinality(Workers)
        BY <1>t, QuotaSetsFinite, WorkersAssumption, FS_Subset DEF TypeOK, IsMap, PastQuota
      <4>3. Cardinality(PastQuota(ip)') \in Nat
        BY <1>t, WorkersAssumption, FS_Subset, FS_CardinalityType DEF TypeOK, IsMap, PastQuota
      <4> QED
        BY <3>1, <4>1, <4>2, <4>3, QuotaSetsFinite, QuotaAssumption
    <3>3. CASE IpOf[tasks[w].client_addr] # ip
      <4>1. PastQuota(ip)' = PastQuota(ip)
        BY <2>1, <2>2, <3>3 DEF PastQuota, AllocatingTask
      <4> QED
        BY <3>1, <4>1 DEF QuotaInv
    <3> QED
      BY <3>2, <3>3
  <2>3. CASE Return(w)
    BY <1>4, <2>3, <1>t, QuotaShrinks DEF CheckQuota, Return, Drop, PortsOfIp, PastQuota
  <2> QED
    BY <1>4, <2>2, <2>3 DEF CheckQuota, Goto
<1>5. ASSUME NEW w \in Workers, AssignPort(w) PROVE QuotaInv'
  <2>1. w \in DOMAIN tasks /\ tasks[w].step = "assign"
    BY <1>5 DEF AssignPort, At
  <2>2. \A ip \in IPs : PortsOfIp(ip)' \subseteq PortsOfIp(ip)
    BY <1>5 DEF AssignPort, PortsOfIp
  <2>3. CASE Return(w)
    BY <2>2, <2>3, <1>t, QuotaShrinks DEF Return, Drop, PastQuota
  <2>4. ASSUME NEW t, t.step = "insert",
               t.allocation.client_addr = tasks[w].client_addr, Goto(w, t)
        PROVE QuotaInv'
    <3>1. \A ip \in IPs : PastQuota(ip)' \subseteq PastQuota(ip)
      BY <2>1, <2>4 DEF Goto, PastQuota
    <3> QED
      BY <2>2, <3>1, <1>t, QuotaShrinks
  <2> QED
    BY <1>5, <2>3, <2>4 DEF AssignPort
<1>6. ASSUME NEW w \in Workers, InsertAllocation(w) PROVE QuotaInv'
  <2>1. w \in DOMAIN tasks /\ tasks[w].step = "insert"
    BY <1>6 DEF InsertAllocation, At
  <2> DEFINE p == tasks[w].relayed_addr
             a == tasks[w].allocation
  <2> SUFFICES ASSUME NEW ip \in IPs
               PROVE Cardinality(PortsOfIp(ip)') + Cardinality(PastQuota(ip)')
                       <= max_allocations_per_ip + Cardinality(Workers) - 1
    BY DEF QuotaInv
  <2>2. CASE IpOf[a.client_addr] = ip
    <3>1. w \in PastQuota(ip) /\ PastQuota(ip)' = PastQuota(ip) \ {w}
      BY <1>6, <2>1, <2>2 DEF InsertAllocation, Return, Drop, PastQuota
    <3>2. Cardinality(PastQuota(ip)') = Cardinality(PastQuota(ip)) - 1
      BY <3>1, QuotaSetsFinite, FS_RemoveElement
    <3>3. PortsOfIp(ip)' = PortsOfIp(ip) \cup {p}
      BY <1>6, <2>2 DEF InsertAllocation, Put, PortsOfIp
    <3>a. /\ IsFiniteSet(PortsOfIp(ip)) /\ Cardinality(PortsOfIp(ip)) \in Nat
          /\ Cardinality(PastQuota(ip)) \in Nat /\ Cardinality(Workers) \in Nat
      BY QuotaSetsFinite
    <3>b. Cardinality(PortsOfIp(ip) \cup {p}) =
            IF p \in PortsOfIp(ip) THEN Cardinality(PortsOfIp(ip))
                                   ELSE Cardinality(PortsOfIp(ip)) + 1
      BY <3>a, FS_AddElement
    <3>4. Cardinality(PortsOfIp(ip)') <= Cardinality(PortsOfIp(ip)) + 1
      BY <3>3, <3>a, <3>b
    <3>5. Cardinality(PortsOfIp(ip)') \in Nat
      BY <3>3, <3>a, <3>b
    <3> QED
      BY <3>2, <3>4, <3>5, <3>a, QuotaAssumption DEF QuotaInv
  <2>3. CASE IpOf[a.client_addr] # ip
    <3>1. PastQuota(ip)' = PastQuota(ip)
      BY <1>6, <2>1, <2>3 DEF InsertAllocation, Return, Drop, PastQuota
    <3>2. PortsOfIp(ip)' \subseteq PortsOfIp(ip)
      BY <1>6, <2>3 DEF InsertAllocation, Put, PortsOfIp
    <3>3. /\ Cardinality(PortsOfIp(ip)') <= Cardinality(PortsOfIp(ip))
          /\ Cardinality(PortsOfIp(ip)') \in Nat
      BY <3>2, QuotaSetsFinite, FS_Subset, FS_CardinalityType
    <3> QED
      BY <3>1, <3>3, QuotaSetsFinite, QuotaAssumption DEF QuotaInv
  <2> QED
    BY <2>2, <2>3
<1>7. ASSUME NEW w \in Workers, NEW c \in Clients, NEW p \in Ports,
             NEW len \in Lengths, SendCheck(w, c, p, len)
      PROVE QuotaInv'
  <2>1. \A ip \in IPs : PortsOfIp(ip)' \subseteq PortsOfIp(ip)
    BY <1>7 DEF SendCheck, PortsOfIp
  <2>2. \A ip \in IPs : PastQuota(ip)' \subseteq PastQuota(ip)
    BY <1>7 DEF SendCheck, Start, Put, PastQuota
  <2> QED
    BY <2>1, <2>2, <1>t, QuotaShrinks
<1>8. ASSUME NEW w \in Workers, SendAccount(w) PROVE QuotaInv'
  <2>1. \A ip \in IPs : PortsOfIp(ip)' \subseteq PortsOfIp(ip)
    BY <1>0, <1>8 DEF SendAccount, Counted, Allocation, PortsOfIp
  <2>2. \A ip \in IPs : PastQuota(ip)' \subseteq PastQuota(ip)
    BY <1>8 DEF SendAccount, Return, Drop, PastQuota
  <2> QED
    BY <2>1, <2>2, <1>t, QuotaShrinks
<1>9. ASSUME NEW c \in Clients, NEW p \in Ports, NEW l \in Requested, Refresh(c, p, l)
      PROVE QuotaInv'
  <2>1. \A ip \in IPs : PortsOfIp(ip)' \subseteq PortsOfIp(ip)
    BY <1>0, <1>9 DEF Refresh, Allocation, PortsOfIp
  <2>2. \A ip \in IPs : PastQuota(ip)' \subseteq PastQuota(ip)
    BY <1>9 DEF Refresh, PastQuota
  <2> QED
    BY <2>1, <2>2, <1>t, QuotaShrinks
<1>10. ASSUME NEW c \in Clients, NEW p \in Ports, NEW n \in Channels,
              NEW peer \in Peers, ChannelBind(c, p, n, peer)
       PROVE QuotaInv'
  <2>1. \A ip \in IPs : PortsOfIp(ip)' \subseteq PortsOfIp(ip)
    BY <1>0, <1>10 DEF ChannelBind, Allocation, PortsOfIp
  <2>2. \A ip \in IPs : PastQuota(ip)' \subseteq PastQuota(ip)
    BY <1>10 DEF ChannelBind, PastQuota
  <2> QED
    BY <2>1, <2>2, <1>t, QuotaShrinks
<1>11. ASSUME NEW P, Forget(P) PROVE QuotaInv'
  <2>1. \A ip \in IPs : PortsOfIp(ip)' \subseteq PortsOfIp(ip)
    BY <1>11 DEF Forget, Drop, PortsOfIp
  <2>2. \A ip \in IPs : PastQuota(ip)' \subseteq PastQuota(ip)
    BY <1>11 DEF Forget, PastQuota
  <2> QED
    BY <2>1, <2>2, <1>t, QuotaShrinks
<1>12. CASE Tick
  BY <1>12, <1>t, QuotaShrinks DEF Tick, PortsOfIp, PastQuota
<1> QED
  BY <1>1, <1>2, <1>3, <1>4, <1>5, <1>6, <1>7, <1>8, <1>9, <1>10, <1>11, <1>12
     DEF Next, CleanupExpired, ReleaseAllocation

(* Whatever the number of concurrent handlers, the per-IP quota of          *)
(* handle_allocate is exceeded by less than that number.                   *)
THEOREM QuotaBound == Spec => []QuotaOvershoot
<1>1. Init => QuotaInv
  <2> SUFFICES ASSUME Init, NEW ip \in IPs
               PROVE Cardinality(PortsOfIp(ip)) + Cardinality(PastQuota(ip))
                       <= max_allocations_per_ip + Cardinality(Workers) - 1
    BY DEF QuotaInv
  <2>1. PortsOfIp(ip) = {} /\ PastQuota(ip) = {}
    BY DEF Init, PortsOfIp, PastQuota
  <2>2. Cardinality(Workers) \in Nat
    BY WorkersAssumption, FS_CardinalityType
  <2> QED
    BY <2>1, <2>2, FS_EmptySet, QuotaAssumption
<1>2. TypeOK /\ QuotaInv => QuotaOvershoot
  BY QuotaSetsFinite, QuotaAssumption DEF QuotaInv, QuotaOvershoot
<1> QED
  BY <1>1, <1>2, InitType, NextType, NextQuota, PTL DEF Spec

(* With a single handler the documented quota itself holds.                *)
THEOREM QuotaSequential ==
    ASSUME Cardinality(Workers) = 1 PROVE Spec => []QuotaPerIp
<1>1. QuotaOvershoot => QuotaPerIp
  BY QuotaAssumption DEF QuotaOvershoot, QuotaPerIp
<1> QED
  BY <1>1, QuotaBound, PTL

-----------------------------------------------------------------------------
(* What handle_send accepted and has not accounted for yet, per handler,    *)
(* and the byte counters of the table.                                     *)
Accounting == {w \in DOMAIN tasks : tasks[w].step = "account"}
Owed  == [w \in Accounting |-> tasks[w].len]
Bytes == [p \in DOMAIN allocations |-> allocations[p].bytes_sent]

(* Every accepted byte is charged at most once: what the table counts and  *)
(* what the running handlers will still charge was accepted.               *)
StatsInv ==
    /\ SumFunction(Bytes) + SumFunction(Owed) <= SumFunction(accepted)
    /\ \A w \in DOMAIN tasks :
        tasks[w].step = "insert" => tasks[w].allocation.bytes_sent = 0

LEMMA SummableBytes ==
    ASSUME NEW f, IsMap(f, Ports, Allocation)
    PROVE  /\ Summable([p \in DOMAIN f |-> f[p].bytes_sent])
           /\ SumFunction([p \in DOMAIN f |-> f[p].bytes_sent]) \in Nat
<1> DEFINE b == [p \in DOMAIN f |-> f[p].bytes_sent]
<1>1. IsFiniteSet(Ports)
  BY PortAssumption, FS_Interval DEF Ports
<1>2. IsFiniteSet(DOMAIN f)
  BY <1>1, FS_Subset DEF IsMap
<1>3. \A p \in DOMAIN f : f[p].bytes_sent \in Nat
  BY BytesAssumption DEF IsMap, Allocation
<1>4. Summable(b)
  BY <1>2, <1>3 DEF Summable
<1> QED
  BY <1>4, SumType

LEMMA SummableTables ==
    ASSUME TypeOK
    PROVE  /\ Summable(Bytes) /\ Summable(Owed) /\ Summable(accepted)
           /\ DOMAIN Bytes = DOMAIN allocations /\ DOMAIN Owed = Accounting
           /\ SumFunction(Bytes) \in Nat /\ SumFunction(Owed) \in Nat
           /\ SumFunction(accepted) \in Nat
<1>1. IsFiniteSet(Nonces) /\ IsFiniteSet(Workers)
  BY BoundAssumption, WorkersAssumption, FS_Interval DEF Nonces
<1>2. IsFiniteSet(Accounting)
  BY <1>1, FS_Subset DEF TypeOK, IsMap, Accounting
<1>3. \A w \in Accounting : tasks[w].len \in Nat
  BY TaskFields, BytesAssumption DEF Accounting, SendingTask
<1>4. Summable(Bytes)
  BY SummableBytes DEF TypeOK, Bytes
<1>5. Summable(Owed)
  BY <1>2, <1>3 DEF Summable, Owed
<1>6. Summable(accepted)
  BY <1>1 DEF Summable, TypeOK
<1> QED
  BY <1>4, <1>5, <1>6, SumType DEF Bytes, Owed

(* A step that leaves the counters and the debts alone.                    *)
LEMMA StatsUntouched ==
    ASSUME StatsInv, Bytes' = Bytes, Owed' = Owed, accepted' = accepted,
           \A w \in DOMAIN tasks' :
              tasks'[w].step = "insert" => tasks'[w].allocation.bytes_sent = 0
    PROVE  StatsInv'
  BY DEF StatsInv

(* handle_send owes what it accepts and pays when it accounts; a new        *)
(* allocation starts from zero and a lost one takes its bytes along.       *)
LEMMA NextStats == TypeOK /\ StatsInv /\ [Next]_vars => StatsInv'
<1> SUFFICES ASSUME TypeOK, StatsInv, [Next]_vars PROVE StatsInv'
  OBVIOUS
<1>t. TypeOK'
  BY NextType
<1>i. \A w \in DOMAIN tasks : tasks[w].step = "insert" => tasks[w].allocation.bytes_sent = 0
  BY DEF StatsInv
<1>a. \A p \in DOMAIN allocations : allocations[p] \in Allocation
  BY DEF TypeOK, IsMap
<1>1. CASE UNCHANGED vars
  BY <1>1, <1>i, StatsUntouched DEF vars, Bytes, Owed, Accounting
<1>2. ASSUME NEW u \in Users, NEW pw \in Passwords, AddCredential(u, pw)
      PROVE StatsInv'
  BY <1>2, <1>i, StatsUntouched DEF AddCredential, Bytes, Owed, Accounting
<1>3. ASSUME NEW w \in Workers, NEW c \in Clients, NEW u \in Users,
             NEW pw \in Passwords, NEW l \in Requested \cup {DefaultLifetime},
             Allocate(w, c, u, pw, l)
      PROVE StatsInv'
  <2>1. Accounting' = Accounting
    BY <1>3 DEF Allocate, Start, Put, Accounting
  <2>2. Owed' = Owed
    BY <1>3, <2>1 DEF Allocate, Start, Put, Accounting, Owed
  <2> QED
    BY <1>3, <1>i, <2>2, StatsUntouched DEF Allocate, Start, Put, Bytes
<1>4. ASSUME NEW w \in Workers, CheckQuota(w) PROVE StatsInv'
  <2>1. w \in DOMAIN tasks /\ tasks[w] \in AllocatingTask /\ tasks[w].step = "quota"
    BY <1>4, TaskFields DEF CheckQuota, At
  <2>2. CASE tasks' = [tasks EXCEPT ![w] = [tasks[w] EXCEPT !.step = "assign"]]
    <3>1. Accounting' = Accounting
      BY <2>1, <2>2 DEF Accounting, AllocatingTask
    <3>2. Owed' = Owed
      BY <2>1, <2>2, <3>1 DEF Owed, Accounting
    <3> QED
      BY <1>4, <1>i, <2>1, <2>2, <3>2, StatsUntouched DEF CheckQuota, Bytes, AllocatingTask
  <2>3. CASE Return(w)
    <3>1. Accounting' = Accounting
      BY <2>1, <2>3 DEF Accounting, Return, Drop
    <3>2. Owed' = Owed
      BY <2>1, <2>3, <3>1 DEF Owed, Accounting, Return, Drop
    <3> QED
      BY <1>4, <1>i, <2>3, <3>2, StatsUntouched DEF CheckQuota, Bytes, Return, Drop
  <2> QED
    BY <1>4, <2>2, <2>3 DEF CheckQuota, Goto
<1>5. ASSUME NEW w \in Workers, AssignPort(w) PROVE StatsInv'
  <2>1. w \in DOMAIN tasks /\ tasks[w].step = "assign"
    BY <1>5 DEF AssignPort, At
  <2>2. CASE Return(w)
    <3>1. Accounting' = Accounting
      BY <2>1, <2>2 DEF Accounting, Return, Drop
    <3>2. Owed' = Owed
      BY <2>1, <2>2, <3>1 DEF Owed, Accounting, Return, Drop
    <3> QED
      BY <1>5, <1>i, <2>2, <3>2, StatsUntouched DEF AssignPort, Bytes, Return, Drop
  <2>3. ASSUME NEW t, t.step = "insert", t.allocation.bytes_sent = 0, Goto(w, t)
        PROVE StatsInv'
    <3>1. Accounting' = Accounting
      BY <2>1, <2>3 DEF Accounting, Goto
    <3>2. Owed' = Owed
      BY <2>1, <2>3, <3>1 DEF Owed, Accounting, Goto
    <3> QED
      BY <1>5, <1>i, <2>1, <2>3, <3>2, StatsUntouched DEF AssignPort, Bytes, Goto
  <2> QED
    BY <1>5, <2>2, <2>3 DEF AssignPort
<1>6. ASSUME NEW w \in Workers, InsertAllocation(w) PROVE StatsInv'
  <2>1. w \in DOMAIN tasks /\ tasks[w].step = "insert"
    BY <1>6 DEF InsertAllocation, At
  <2> DEFINE p == tasks[w].relayed_addr
  <2>2. Bytes' = With(Bytes, p, 0)
    BY <1>6, <1>i, <2>1 DEF InsertAllocation, Put, Bytes, With
  <2>3. Accounting' = Accounting
    BY <1>6, <2>1 DEF InsertAllocation, Accounting, Return, Drop
  <2>4. Owed' = Owed
    BY <1>6, <2>1, <2>3 DEF InsertAllocation, Owed, Accounting, Return, Drop
  <2>5. SumFunction(Bytes') <= SumFunction(Bytes) /\ SumFunction(Bytes') \in Nat
    <3>1. p \in DOMAIN Bytes => Bytes[p] \in Nat
      BY SummableTables DEF Summable
    <3>2. SumFunction(Bytes') =
            0 + (IF p \in DOMAIN Bytes THEN SumFunction(Bytes) - Bytes[p] ELSE SumFunction(Bytes))
      BY <2>2, SummableTables, SumWith
    <3>3. SumFunction(Bytes') \in Nat
      BY <1>t, SummableBytes DEF TypeOK, Bytes
    <3> QED
      BY <3>1, <3>2, <3>3, SummableTables
  <2>6. \A v \in DOMAIN tasks' :
            tasks'[v].step = "insert" => tasks'[v].allocation.bytes_sent = 0
    BY <1>6, <1>i DEF InsertAllocation, Return, Drop
  <2>7. accepted' = accepted
    BY <1>6 DEF InsertAllocation
  <2> QED
    BY <2>4, <2>5, <2>6, <2>7, SummableTables DEF StatsInv
<1>7. ASSUME NEW w \in Workers, NEW c \in Clients, NEW p \in Ports,
             NEW len \in Lengths, SendCheck(w, c, p, len)
      PROVE StatsInv'
  <2> DEFINE n == allocations[p].nonce
  <2>0. w \notin DOMAIN tasks /\ n \in Nonces /\ len \in Nat
    BY <1>7, <1>a, BytesAssumption DEF SendCheck, Start, MaySend, Allocation
  <2>1. Bytes' = Bytes
    BY <1>7 DEF SendCheck, Bytes
  <2>2. Accounting' = Accounting \cup {w}
    BY <1>7 DEF SendCheck, Start, Put, Accounting
  <2>3. Owed' = With(Owed, w, len)
    BY <1>7, <2>2 DEF SendCheck, Start, Put, Owed, Accounting, With
  <2>4. accepted' = With(accepted, n, accepted[n] + len)
    BY <1>7, <2>0 DEF SendCheck, With, TypeOK
  <2>5. w \notin DOMAIN Owed
    BY <2>0 DEF Owed, Accounting
  <2>6. SumFunction(Owed') = len + SumFunction(Owed)
    BY <2>0, <2>3, <2>5, SummableTables, SumWith
  <2>7. SumFunction(accepted') = SumFunction(accepted) + len
    <3>1. n \in DOMAIN accepted /\ accepted[n] \in Nat
      BY <2>0 DEF TypeOK
    <3>2. SumFunction(accepted') = (accepted[n] + len) + (SumFunction(accepted) - accepted[n])
      BY <2>0, <2>4, <3>1, SummableTables, SumWith
    <3> QED
      BY <2>0, <3>1, <3>2, SummableTables
  <2>8. \A v \in DOMAIN tasks' :
            tasks'[v].step = "insert" => tasks'[v].allocation.bytes_sent = 0
    BY <1>7, <1>i DEF SendCheck, Start, Put
  <2> HIDE DEF n
  <2> QED
    BY <2>0, <2>1, <2>6, <2>7, <2>8, SummableTables DEF StatsInv
<1>8. ASSUME NEW w \in Workers, SendAccount(w) PROVE StatsInv'
  <2>1. w \in DOMAIN tasks /\ tasks[w].step = "account" /\ tasks[w].len \in Nat
    BY <1>8, TaskFields, BytesAssumption DEF SendAccount, At, SendingTask
  <2> DEFINE p == tasks[w].relayed_addr
             len == tasks[w].len
  <2>2. Accounting' = Accounting \ {w}
    BY <1>8, <2>1 DEF SendAccount, Return, Drop, Accounting
  <2>3. Owed' = Without(Owed, w)
    BY <1>8, <2>1, <2>2 DEF SendAccount, Return, Drop, Owed, Accounting, Without
  <2>4. w \in DOMAIN Owed /\ Owed[w] = len
    BY <2>1 DEF Owed, Accounting
  <2>5. SumFunction(Owed) = len + SumFunction(Owed') /\ SumFunction(Owed') \in Nat
    BY <2>3, <2>4, SummableTables, SumWithout
  <2>6. SumFunction(Bytes') <= SumFunction(Bytes) + len
    <3>1. CASE p \in DOMAIN allocations
      <4> DEFINE b == Counted(allocations[p], len).bytes_sent
      <4>1. b \in Nat /\ b <= Bytes[p] + len /\ Bytes[p] \in Nat
        BY <1>a, <2>1, <3>1, BytesAssumption
           DEF Counted, SaturatingAdd, Lesser, Allocation, Bytes
      <4>2. Bytes' = With(Bytes, p, b)
        BY <1>8, <3>1 DEF SendAccount, Bytes, With
      <4>3. p \in DOMAIN Bytes
        BY <3>1 DEF Bytes
      <4> HIDE DEF b
      <4>4. SumFunction(Bytes') = b + (SumFunction(Bytes) - Bytes[p])
        BY <4>1, <4>2, <4>3, SummableTables, SumWith
      <4> QED
        BY <2>1, <4>1, <4>4, SummableTables
    <3>2. CASE p \notin DOMAIN allocations
      <4>1. Bytes' = Bytes
        BY <1>8, <3>2 DEF SendAccount, Bytes
      <4> QED
        BY <2>1, <4>1, SummableTables
    <3> QED
      BY <3>1, <3>2
  <2>7. SumFunction(Bytes') \in Nat
    BY <1>t, SummableBytes DEF TypeOK, Bytes
  <2>8. \A v \in DOMAIN tasks' :
            tasks'[v].step = "insert" => tasks'[v].allocation.bytes_sent = 0
    BY <1>8, <1>i DEF SendAccount, Return, Drop
  <2>9. accepted' = accepted
    BY <1>8 DEF SendAccount
  <2> HIDE DEF p, len
  <2> QED
    BY <2>1, <2>5, <2>6, <2>7, <2>8, <2>9, SummableTables DEF StatsInv, len
<1>9. ASSUME NEW c \in Clients, NEW p \in Ports, NEW l \in Requested, Refresh(c, p, l)
      PROVE StatsInv'
  <2>1. Bytes' = Bytes
    BY <1>9, <1>a DEF Refresh, Bytes, Allocation
  <2> QED
    BY <1>9, <1>i, <2>1, StatsUntouched DEF Refresh, Owed, Accounting
<1>10. ASSUME NEW c \in Clients, NEW p \in Ports, NEW n \in Channels,
              NEW peer \in Peers, ChannelBind(c, p, n, peer)
       PROVE StatsInv'
  <2>1. Bytes' = Bytes
    BY <1>10, <1>a DEF ChannelBind, Bytes, Allocation
  <2> QED
    BY <1>10, <1>i, <2>1, StatsUntouched DEF ChannelBind, Owed, Accounting
<1>11. ASSUME NEW P, Forget(P) PROVE StatsInv'
  <2> DEFINE S == DOMAIN allocations \ P
  <2>1. Bytes' = [p \in S |-> Bytes[p]]
    BY <1>11 DEF Forget, Drop, Bytes
  <2>2. S \subseteq DOMAIN Bytes
    BY DEF Bytes
  <2>3. SumFunction(Bytes') <= SumFunction(Bytes)
    BY <2>1, <2>2, SummableTables, SumPart
  <2>4. SumFunction(Bytes') \in Nat
    BY <1>t, SummableBytes DEF TypeOK, Bytes
  <2>5. UNCHANGED <<Owed, accepted, tasks>>
    BY <1>11 DEF Forget, Owed, Accounting
  <2> QED
    BY <1>i, <2>3, <2>4, <2>5, SummableTables DEF StatsInv
<1>12. CASE Tick
  BY <1>12, <1>i, StatsUntouched DEF Tick, Bytes, Owed, Accounting
<1> QED
  BY <1>1, <1>2, <1>3, <1>4, <1>5, <1>6, <1>7, <1>8, <1>9, <1>10, <1>11, <1>12
     DEF Next, CleanupExpired, ReleaseAllocation

(* get_stats never reports more sent bytes than handle_send accepted,      *)
(* although the two steps of handle_send may find different allocations.   *)
THEOREM StatsSound == Spec => []StatsNeverOvercount
<1>1. Init => StatsInv
  <2> SUFFICES ASSUME Init PROVE StatsInv
    OBVIOUS
  <2>1. DOMAIN Bytes = {} /\ DOMAIN Owed = {}
    BY DEF Init, Bytes, Owed, Accounting
  <2>2. SumFunction(Bytes) = 0 /\ SumFunction(Owed) = 0
    BY <2>1, SumEmpty
  <2>3. SumFunction(accepted) \in Nat
    BY InitType, SummableTables
  <2> QED
    BY <2>2, <2>3 DEF StatsInv, Init
<1>2. TypeOK /\ StatsInv => StatsNeverOvercount
  <2> SUFFICES ASSUME TypeOK, StatsInv PROVE StatsNeverOvercount
    OBVIOUS
  <2>1. TotalBytesSent = SumFunction(Bytes)
    BY DEF TotalBytesSent, Bytes
  <2> QED
    BY <2>1, SummableTables DEF StatsInv, StatsNeverOvercount
<1> QED
  BY <1>1, <1>2, InitType, NextType, NextStats, PTL DEF Spec

-----------------------------------------------------------------------------
(* Every nonce names one allocation: those in the table and those about to *)
(* enter it were generated, and no pending one is in the table or pending  *)
(* twice.                                                                  *)
NonceInv ==
    /\ \A p \in DOMAIN allocations : allocations[p].nonce <= nonces
    /\ \A w \in DOMAIN tasks : tasks[w].step = "insert" =>
        /\ tasks[w].allocation.nonce <= nonces
        /\ \A p \in DOMAIN allocations : allocations[p].nonce # tasks[w].allocation.nonce
        /\ \A v \in DOMAIN tasks : tasks[v].step = "insert" /\ v # w =>
            tasks[v].allocation.nonce # tasks[w].allocation.nonce

(* What AllocationStable says of one step.                                 *)
StableStep ==
    \A p \in DOMAIN allocations \cap DOMAIN allocations' :
        LET a == allocations[p]
            b == allocations'[p] IN
        a.nonce = b.nonce =>
            /\ b.client_addr = a.client_addr /\ b.username = a.username
            /\ b.bytes_sent >= a.bytes_sent
            /\ DOMAIN a.channel_bindings \subseteq DOMAIN b.channel_bindings

LEMMA UnchangedStable ==
    ASSUME TypeOK, allocations' = allocations PROVE StableStep
  BY BytesAssumption DEF TypeOK, IsMap, Allocation, StableStep

LEMMA NextNonce ==
    TypeOK /\ NonceInv /\ [Next]_vars => NonceInv' /\ StableStep
<1> SUFFICES ASSUME TypeOK, NonceInv, [Next]_vars PROVE NonceInv' /\ StableStep
  OBVIOUS
<1>a. \A p \in DOMAIN allocations :
         /\ allocations[p] \in Allocation /\ allocations[p].nonce \in Nat
         /\ allocations[p].bytes_sent \in Nat
  BY BytesAssumption DEF TypeOK, IsMap, Allocation, Nonces
<1>b. \A w \in DOMAIN tasks : tasks[w].step = "insert" => tasks[w].allocation.nonce \in Nat
  BY TaskFields DEF InsertingTask, Allocation, Nonces
<1>c. nonces \in Nat
  BY BoundAssumption DEF TypeOK
<1>1. CASE UNCHANGED vars
  BY <1>1, UnchangedStable DEF vars, NonceInv
<1>2. ASSUME NEW u \in Users, NEW pw \in Passwords, AddCredential(u, pw)
      PROVE NonceInv' /\ StableStep
  BY <1>2, UnchangedStable DEF AddCredential, NonceInv
<1>3. ASSUME NEW w \in Workers, NEW c \in Clients, NEW u \in Users,
             NEW pw \in Passwords, NEW l \in Requested \cup {DefaultLifetime},
             Allocate(w, c, u, pw, l)
      PROVE NonceInv' /\ StableStep
  BY <1>3, UnchangedStable DEF Allocate, Start, Put, NonceInv
<1>4. ASSUME NEW w \in Workers, CheckQuota(w) PROVE NonceInv' /\ StableStep
  <2>1. w \in DOMAIN tasks /\ tasks[w] \in AllocatingTask /\ tasks[w].step = "quota"
    BY <1>4, TaskFields DEF CheckQuota, At
  <2>2. CASE tasks' = [tasks EXCEPT ![w] = [tasks[w] EXCEPT !.step = "assign"]]
    BY <1>4, <2>1, <2>2, UnchangedStable DEF CheckQuota, AllocatingTask, NonceInv
  <2>3. CASE Return(w)
    BY <1>4, <2>3, UnchangedStable DEF CheckQuota, Return, Drop, NonceInv
  <2> QED
    BY <1>4, <2>2, <2>3 DEF CheckQuota, Goto
<1>5. ASSUME NEW w \in Workers, AssignPort(w) PROVE NonceInv' /\ StableStep
  <2>1. w \in DOMAIN tasks /\ tasks[w].step = "assign"
    BY <1>5 DEF AssignPort, At
  <2>2. StableStep
    BY <1>5, UnchangedStable DEF AssignPort
  <2>3. CASE Return(w) /\ UNCHANGED nonces
    BY <1>5, <2>2, <2>3 DEF AssignPort, Return, Drop, NonceInv
  <2>4. ASSUME NEW t, t.step = "insert", t.allocation.nonce = nonces + 1,
               nonces' = nonces + 1, Goto(w, t)
        PROVE NonceInv'
    <3>1. tasks' = [tasks EXCEPT ![w] = t] /\ allocations' = allocations
      BY <1>5, <2>4 DEF AssignPort, Goto
    <3>2. \A p \in DOMAIN allocations : /\ allocations[p].nonce <= nonces'
                                        /\ allocations[p].nonce # nonces + 1
      BY <1>a, <1>c, <2>4 DEF NonceInv
    <3>3. \A v \in DOMAIN tasks : tasks[v].step = "insert" =>
            tasks[v].allocation.nonce <= nonces' /\ tasks[v].allocation.nonce # nonces + 1
      BY <1>b, <1>c, <2>4 DEF NonceInv
    <3>4. nonces + 1 <= nonces'
      BY <1>c, <2>4
    <3> QED
      BY <2>1, <2>4, <3>1, <3>2, <3>3, <3>4 DEF NonceInv
  <2> QED
    BY <1>5, <2>2, <2>3, <2>4 DEF AssignPort
<1>6. ASSUME NEW w \in Workers, InsertAllocation(w) PROVE NonceInv' /\ StableStep
  <2> DEFINE p == tasks[w].relayed_addr
             a == tasks[w].allocation
  <2>1. w \in DOMAIN tasks /\ tasks[w].step = "insert"
    BY <1>6 DEF InsertAllocation, At
  <2>2. allocations' = Put(allocations, p, a) /\ tasks' = Drop(tasks, {w}) /\ nonces' = nonces
    BY <1>6 DEF InsertAllocation, Return
  <2>3. StableStep
    BY <1>a, <2>1, <2>2 DEF Put, StableStep, NonceInv
  <2>4. NonceInv'
    BY <2>1, <2>2 DEF Put, Drop, NonceInv
  <2> QED
    BY <2>3, <2>4
<1>7. ASSUME NEW w \in Workers, NEW c \in Clients, NEW p \in Ports,
             NEW len \in Lengths, SendCheck(w, c, p, len)
      PROVE NonceInv' /\ StableStep
  BY <1>7, UnchangedStable DEF SendCheck, Start, Put, NonceInv
<1>8. ASSUME NEW w \in Workers, SendAccount(w) PROVE NonceInv' /\ StableStep
  <2>1. w \in DOMAIN tasks /\ tasks[w].len \in Nat
    BY <1>8, TaskFields, BytesAssumption DEF SendAccount, At, SendingTask
  <2>2. /\ DOMAIN allocations' = DOMAIN allocations
        /\ \A p \in DOMAIN allocations :
              /\ allocations'[p].nonce = allocations[p].nonce
              /\ allocations'[p].client_addr = allocations[p].client_addr
              /\ allocations'[p].username = allocations[p].username
              /\ allocations'[p].channel_bindings = allocations[p].channel_bindings
    BY <1>a, <1>8 DEF SendAccount, Counted, Allocation
  <2>3. \A p \in DOMAIN allocations : allocations'[p].bytes_sent >= allocations[p].bytes_sent
    BY <1>a, <1>8, <2>1, BytesAssumption DEF SendAccount, Counted, SaturatingAdd, Lesser, Allocation
  <2>4. StableStep
    BY <2>2, <2>3 DEF StableStep
  <2>5. NonceInv'
    BY <1>8, <2>2 DEF SendAccount, Return, Drop, NonceInv
  <2> QED
    BY <2>4, <2>5
<1>9. ASSUME NEW c \in Clients, NEW p \in Ports, NEW l \in Requested, Refresh(c, p, l)
      PROVE NonceInv' /\ StableStep
  <2>1. StableStep
    BY <1>a, <1>9 DEF Refresh, Allocation, StableStep
  <2>2. NonceInv'
    BY <1>a, <1>9 DEF Refresh, Allocation, NonceInv
  <2> QED
    BY <2>1, <2>2
<1>10. ASSUME NEW c \in Clients, NEW p \in Ports, NEW n \in Channels,
              NEW peer \in Peers, ChannelBind(c, p, n, peer)
       PROVE NonceInv' /\ StableStep
  <2>1. StableStep
    BY <1>a, <1>10 DEF ChannelBind, Put, Allocation, StableStep
  <2>2. NonceInv'
    BY <1>a, <1>10 DEF ChannelBind, Allocation, NonceInv
  <2> QED
    BY <2>1, <2>2
<1>11. ASSUME NEW P, Forget(P) PROVE NonceInv' /\ StableStep
  <2>1. StableStep
    BY <1>a, <1>11 DEF Forget, Drop, StableStep
  <2>2. NonceInv'
    BY <1>11 DEF Forget, Drop, NonceInv
  <2> QED
    BY <2>1, <2>2
<1>12. CASE Tick
  BY <1>12, UnchangedStable DEF Tick, NonceInv
<1> QED
  BY <1>1, <1>2, <1>3, <1>4, <1>5, <1>6, <1>7, <1>8, <1>9, <1>10, <1>11, <1>12
     DEF Next, CleanupExpired, ReleaseAllocation

(* An allocation that stays keeps its owner, its channels and its bytes,   *)
(* whichever handlers overlap: no two ever have the same nonce.            *)
THEOREM Stable == Spec => AllocationStable
<1>1. Init => NonceInv
  BY DEF Init, NonceInv
<1>2. TypeOK /\ NonceInv /\ [Next]_vars => NonceInv'
  BY NextNonce
<1>3. TypeOK /\ NonceInv /\ [Next]_vars => [StableStep]_vars
  BY NextNonce
<1> QED
  BY <1>1, <1>2, <1>3, InitType, NextType, PTL DEF Spec, AllocationStable, StableStep

-----------------------------------------------------------------------------
(* At most one handler runs.                                               *)
Alone == \A v, w \in DOMAIN tasks : v = w

(* What holds as long as handlers do not overlap: what the running one     *)
(* found in the table is still true of it.                                 *)
SequentialInv ==
    /\ QuotaPerIp
    /\ \A w \in DOMAIN tasks :
        /\ tasks[w].step = "assign" => QuotaOk(tasks[w].client_addr)
        /\ tasks[w].step = "insert" =>
            /\ QuotaOk(tasks[w].allocation.client_addr)
            /\ tasks[w].relayed_addr \notin DOMAIN allocations
            /\ tasks[w].allocation.bytes_sent = 0
        /\ tasks[w].step = "account" =>
            LET p == tasks[w].relayed_addr IN
            p \in DOMAIN allocations =>
                allocations[p].bytes_sent + tasks[w].len <= accepted[allocations[p].nonce]
    /\ \A p \in Ports :
        holders[p] = IF p \in DOMAIN allocations THEN {allocations[p].nonce} ELSE {}
    /\ BytesAreOwn

(* The host's allocations a step does not add to stay within the quota.    *)
LEMMA QuotaKept ==
    ASSUME TypeOK, QuotaPerIp, \A ip \in IPs : PortsOfIp(ip)' \subseteq PortsOfIp(ip)
    PROVE  QuotaPerIp' /\ \A c \in Clients : QuotaOk(c) => QuotaOk(c)'
<1>1. ASSUME NEW ip \in IPs
      PROVE  /\ Cardinality(PortsOfIp(ip)') <= Cardinality(PortsOfIp(ip))
             /\ Cardinality(PortsOfIp(ip)') \in Nat /\ Cardinality(PortsOfIp(ip)) \in Nat
  BY QuotaSetsFinite, FS_Subset, FS_CardinalityType
<1>2. QuotaPerIp'
  BY <1>1, QuotaAssumption DEF QuotaPerIp
<1>3. ASSUME NEW c \in Clients, QuotaOk(c) PROVE QuotaOk(c)'
  <2>1. IpOf[c] \in IPs
    BY ClientsAssumption
  <2> DEFINE k == Cardinality(PortsOfIp(IpOf[c]))
  <2>2. k' <= k /\ k' \in Nat /\ k \in Nat
    BY <1>1, <2>1
  <2>3. ~ (k >= max_allocations_per_ip)
    BY <1>3 DEF QuotaOk
  <2>4. ~ (k' >= max_allocations_per_ip)
    BY <2>2, <2>3, QuotaAssumption
  <2> QED
    BY <2>4 DEF QuotaOk
<1> QED
  BY <1>2, <1>3

(* A handler that starts where none overlaps is the only one.              *)
LEMMA StartsAlone ==
    ASSUME Alone', NEW w, NEW t, Start(w, t)
    PROVE  DOMAIN tasks = {} /\ DOMAIN tasks' = {w} /\ tasks'[w] = t
  BY DEF Alone, Start, Put

(* Without overlap no step breaks what the running handler relies on: the  *)
(* table changes under it only by refreshes, bindings, expiry and release. *)
LEMMA NextSequential ==
    TypeOK /\ Alone /\ Alone' /\ SequentialInv /\ [Next]_vars => SequentialInv'
<1> SUFFICES ASSUME TypeOK, Alone, Alone', SequentialInv, [Next]_vars
             PROVE  SequentialInv'
  OBVIOUS
<1>a. \A p \in DOMAIN allocations :
         /\ allocations[p] \in Allocation /\ allocations[p].nonce \in Nonces
         /\ allocations[p].bytes_sent \in Nat /\ allocations[p].client_addr \in Clients
  BY BytesAssumption DEF TypeOK, IsMap, Allocation
<1>b. accepted \in [Nonces -> Nat]
  BY DEF TypeOK
<1>c. \A w \in DOMAIN tasks :
         /\ tasks[w].step \in {"quota", "assign"} => tasks[w].client_addr \in Clients
         /\ tasks[w].step = "insert" =>
              /\ tasks[w].allocation.client_addr \in Clients
              /\ tasks[w].relayed_addr \in Ports
              /\ tasks[w].allocation.nonce \in Nonces
         /\ tasks[w].step = "account" => tasks[w].len \in Nat
  BY TaskFields, BytesAssumption
     DEF AllocatingTask, InsertingTask, SendingTask, Allocation
<1>q. QuotaPerIp
  BY DEF SequentialInv
\* Steps that leave the table of allocations and the histories alone.
<1>s. ASSUME UNCHANGED <<allocations, holders, accepted>>,
             \A w \in DOMAIN tasks' :
                \/ w \in DOMAIN tasks /\ tasks'[w] = tasks[w]
                \/ tasks'[w].step = "quota"
                \/ tasks'[w].step = "assign" /\ QuotaOk(tasks'[w].client_addr)
                \/ /\ tasks'[w].step = "insert"
                   /\ QuotaOk(tasks'[w].allocation.client_addr)
                   /\ tasks'[w].relayed_addr \notin DOMAIN allocations
                   /\ tasks'[w].allocation.bytes_sent = 0
      PROVE  SequentialInv'
  <2>1. (\A ip \in IPs : PortsOfIp(ip)' = PortsOfIp(ip))
    BY <1>s DEF PortsOfIp
  <2>2. \A c : QuotaOk(c)' = QuotaOk(c)
    BY <1>s DEF QuotaOk, PortsOfIp
  <2>3. QuotaPerIp'
    BY <1>q, <2>1 DEF QuotaPerIp
  <2>4. BytesAreOwn'
    BY <1>s DEF SequentialInv, BytesAreOwn
  <2> QED
    BY <1>s, <2>2, <2>3, <2>4 DEF SequentialInv
\* Steps that only update allocations in place, leaving bytes and owners.
<1>u. ASSUME UNCHANGED <<tasks, holders, accepted>>,
             DOMAIN allocations' = DOMAIN allocations,
             \A p \in DOMAIN allocations :
                /\ allocations'[p].client_addr = allocations[p].client_addr
                /\ allocations'[p].nonce = allocations[p].nonce
                /\ allocations'[p].bytes_sent = allocations[p].bytes_sent
      PROVE  SequentialInv'
  <2>1. (\A ip \in IPs : PortsOfIp(ip)' = PortsOfIp(ip))
    BY <1>u DEF PortsOfIp
  <2>2. \A c : QuotaOk(c)' = QuotaOk(c)
    BY <1>u DEF QuotaOk, PortsOfIp
  <2>3. QuotaPerIp'
    BY <1>q, <2>1 DEF QuotaPerIp
  <2>4. BytesAreOwn'
    BY <1>u DEF SequentialInv, BytesAreOwn
  <2> QED
    BY <1>u, <2>2, <2>3, <2>4 DEF SequentialInv
<1>1. CASE UNCHANGED vars
  BY <1>1, <1>s DEF vars
<1>2. ASSUME NEW u \in Users, NEW pw \in Passwords, AddCredential(u, pw)
      PROVE SequentialInv'
  BY <1>2, <1>s DEF AddCredential
<1>3. ASSUME NEW w \in Workers, NEW c \in Clients, NEW u \in Users,
             NEW pw \in Passwords, NEW l \in Requested \cup {DefaultLifetime},
             Allocate(w, c, u, pw, l)
      PROVE SequentialInv'
  BY <1>3, <1>s DEF Allocate, Start, Put
<1>4. ASSUME NEW w \in Workers, CheckQuota(w) PROVE SequentialInv'
  <2>1. w \in DOMAIN tasks /\ tasks[w] \in AllocatingTask /\ tasks[w].step = "quota"
    BY <1>4, TaskFields DEF CheckQuota, At
  <2>2. CASE /\ QuotaOk(tasks[w].client_addr)
             /\ tasks' = [tasks EXCEPT ![w] = [tasks[w] EXCEPT !.step = "assign"]]
    <3>1. tasks'[w].step = "assign" /\ tasks'[w].client_addr = tasks[w].client_addr
      BY <2>1, <2>2 DEF AllocatingTask
    <3> QED
      BY <1>4, <1>s, <2>2, <3>1 DEF CheckQuota
  <2>3. CASE Return(w)
    BY <1>4, <1>s, <2>3 DEF CheckQuota, Return, Drop
  <2> QED
    BY <1>4, <2>2, <2>3 DEF CheckQuota, Goto
<1>5. ASSUME NEW w \in Workers, AssignPort(w) PROVE SequentialInv'
  <2>1. w \in DOMAIN tasks /\ QuotaOk(tasks[w].client_addr)
    BY <1>5 DEF AssignPort, At, SequentialInv
  <2>2. CASE Return(w)
    BY <1>5, <1>s, <2>2 DEF AssignPort, Return, Drop
  <2>3. ASSUME NEW t, t.step = "insert", t.relayed_addr \notin DOMAIN allocations,
               t.allocation.client_addr = tasks[w].client_addr,
               t.allocation.bytes_sent = 0, Goto(w, t)
        PROVE SequentialInv'
    BY <1>5, <1>s, <2>1, <2>3 DEF AssignPort, Goto
  <2> QED
    BY <1>5, <2>2, <2>3 DEF AssignPort, Available
<1>6. ASSUME NEW w \in Workers, InsertAllocation(w) PROVE SequentialInv'
  <2> DEFINE p == tasks[w].relayed_addr
             a == tasks[w].allocation
  <2>1. /\ w \in DOMAIN tasks /\ tasks[w].step = "insert"
        /\ p \in Ports /\ p \notin DOMAIN allocations /\ a.bytes_sent = 0
        /\ QuotaOk(a.client_addr) /\ a.client_addr \in Clients /\ a.nonce \in Nonces
    BY <1>6, <1>c DEF InsertAllocation, At, SequentialInv
  <2>2. tasks' = Drop(tasks, {w})
    BY <1>6 DEF InsertAllocation, Return
  <2>3. DOMAIN tasks' = {}
    BY <2>1, <2>2 DEF Drop, Alone
  <2>4. allocations' = Put(allocations, p, a) /\ accepted' = accepted
    BY <1>6 DEF InsertAllocation
  <2>5. BytesAreOwn'
    <3>1. accepted[a.nonce] >= 0
      BY <1>b, <2>1
    <3> QED
      BY <2>1, <2>4, <3>1 DEF SequentialInv, BytesAreOwn, Put
  <2>6. \A q \in Ports :
          holders'[q] = IF q \in DOMAIN allocations' THEN {allocations'[q].nonce} ELSE {}
    <3>1. holders' = [holders EXCEPT ![p] = @ \cup {a.nonce}]
      BY <1>6 DEF InsertAllocation
    <3>2. holders[p] = {} /\ holders \in [Ports -> SUBSET Nonces]
      BY <2>1 DEF SequentialInv, TypeOK
    <3> QED
      BY <2>1, <2>4, <3>1, <3>2 DEF SequentialInv, Put
  <2>7. ASSUME NEW ip \in IPs PROVE Cardinality(PortsOfIp(ip)') <= max_allocations_per_ip
    <3>1. CASE IpOf[a.client_addr] = ip
      <4>1. PortsOfIp(ip)' = PortsOfIp(ip) \cup {p}
        BY <2>4, <3>1 DEF Put, PortsOfIp
      <4>2. p \notin PortsOfIp(ip)
        BY <2>1 DEF PortsOfIp
      <4>3. Cardinality(PortsOfIp(ip)') = Cardinality(PortsOfIp(ip)) + 1
        BY <4>1, <4>2, QuotaSetsFinite, FS_AddElement
      <4>4. Cardinality(PortsOfIp(ip)) < max_allocations_per_ip
        BY <2>1, <3>1, QuotaSetsFinite, QuotaAssumption DEF QuotaOk
      <4> QED
        BY <4>3, <4>4, QuotaSetsFinite, QuotaAssumption
    <3>2. CASE IpOf[a.client_addr] # ip
      <4>1. PortsOfIp(ip)' = PortsOfIp(ip)
        BY <2>1, <2>4, <3>2 DEF Put, PortsOfIp
      <4> QED
        BY <1>q, <4>1 DEF QuotaPerIp
    <3> QED
      BY <3>1, <3>2
  <2> HIDE DEF p, a
  <2> QED
    BY <2>3, <2>5, <2>6, <2>7 DEF SequentialInv, QuotaPerIp
<1>7. ASSUME NEW w \in Workers, NEW c \in Clients, NEW p \in Ports,
             NEW len \in Lengths, SendCheck(w, c, p, len)
      PROVE SequentialInv'
  <2> DEFINE n == allocations[p].nonce
             t == [step |-> "account", relayed_addr |-> p, len |-> len]
  <2>1. len \in Nat /\ p \in DOMAIN allocations /\ n \in Nonces
    BY <1>7, <1>a, BytesAssumption DEF SendCheck, MaySend
  <2>2. Start(w, t)
    BY <1>7 DEF SendCheck
  <2>3. DOMAIN tasks' = {w} /\ tasks'[w] = t
    <3> HIDE DEF t
    <3> QED
      BY <2>2, StartsAlone
  <2>4. UNCHANGED <<allocations, holders>> /\ accepted' = [accepted EXCEPT ![n] = @ + len]
    BY <1>7 DEF SendCheck
  <2>5. /\ accepted'[n] = accepted[n] + len
        /\ \A m \in Nonces : accepted'[m] >= accepted[m]
    BY <1>b, <2>1, <2>4
  <2>6. \A q \in DOMAIN allocations :
          allocations[q].bytes_sent <= accepted[allocations[q].nonce]
    BY DEF SequentialInv, BytesAreOwn
  <2>7. BytesAreOwn'
    <3>1. \A m \in Nonces : accepted[m] \in Nat /\ accepted'[m] \in Nat
      BY <1>b, <2>1, <2>4
    <3>2. ASSUME NEW q \in DOMAIN allocations
          PROVE allocations[q].bytes_sent <= accepted'[allocations[q].nonce]
      BY <1>a, <2>5, <2>6, <3>1
    <3> QED
      BY <2>4, <3>2 DEF BytesAreOwn
  <2>8. allocations[p].bytes_sent + len <= accepted'[n]
    <3>1. accepted[n] \in Nat /\ allocations[p].bytes_sent \in Nat
      BY <1>a, <1>b, <2>1
    <3>2. allocations[p].bytes_sent <= accepted[n]
      BY <2>1, <2>6
    <3> QED
      BY <2>1, <2>5, <3>1, <3>2
  <2>9. QuotaPerIp'
    BY <1>q, <2>4 DEF QuotaPerIp, PortsOfIp
  <2> QED
    BY <2>3, <2>4, <2>7, <2>8, <2>9 DEF SequentialInv
<1>8. ASSUME NEW w \in Workers, SendAccount(w) PROVE SequentialInv'
  <2> DEFINE p == tasks[w].relayed_addr
             len == tasks[w].len
  <2>1. w \in DOMAIN tasks /\ tasks[w].step = "account" /\ len \in Nat
    BY <1>8, <1>c DEF SendAccount, At
  <2>2. tasks' = Drop(tasks, {w}) /\ UNCHANGED <<holders, accepted>>
    BY <1>8 DEF SendAccount, Return
  <2>3. DOMAIN tasks' = {}
    BY <2>1, <2>2 DEF Drop, Alone
  <2>4. /\ DOMAIN allocations' = DOMAIN allocations
        /\ \A q \in DOMAIN allocations :
              /\ allocations'[q].nonce = allocations[q].nonce
              /\ allocations'[q].client_addr = allocations[q].client_addr
              /\ q # p => allocations'[q] = allocations[q]
    BY <1>a, <1>8 DEF SendAccount, Counted, Allocation
  <2>5. BytesAreOwn'
    <3>1. ASSUME NEW q \in DOMAIN allocations
          PROVE allocations'[q].bytes_sent <= accepted[allocations[q].nonce]
      <4>1. CASE q = p
        <5>1. allocations[p].bytes_sent + len <= accepted[allocations[p].nonce]
          BY <2>1, <4>1 DEF SequentialInv
        <5>2. allocations'[p].bytes_sent <= allocations[p].bytes_sent + len
              /\ allocations'[p].bytes_sent \in Nat
          BY <1>a, <1>8, <2>1, <4>1, BytesAssumption
             DEF SendAccount, Counted, SaturatingAdd, Lesser, Allocation
        <5>3. allocations[p].bytes_sent \in Nat /\ accepted[allocations[p].nonce] \in Nat
          BY <1>a, <1>b, <4>1
        <5> QED
          BY <2>1, <4>1, <5>1, <5>2, <5>3
      <4>2. CASE q # p
        BY <2>4, <4>2 DEF SequentialInv, BytesAreOwn
      <4> QED
        BY <4>1, <4>2
    <3> QED
      BY <2>2, <2>4, <3>1 DEF BytesAreOwn
  <2>6. QuotaPerIp'
    <3>1. \A ip \in IPs : PortsOfIp(ip)' = PortsOfIp(ip)
      BY <2>4 DEF PortsOfIp
    <3> QED
      BY <1>q, <3>1 DEF QuotaPerIp
  <2> QED
    BY <2>2, <2>3, <2>4, <2>5, <2>6 DEF SequentialInv
<1>9. ASSUME NEW c \in Clients, NEW p \in Ports, NEW l \in Requested, Refresh(c, p, l)
      PROVE SequentialInv'
  BY <1>a, <1>9, <1>u DEF Refresh, Allocation
<1>10. ASSUME NEW c \in Clients, NEW p \in Ports, NEW n \in Channels,
              NEW peer \in Peers, ChannelBind(c, p, n, peer)
       PROVE SequentialInv'
  BY <1>a, <1>10, <1>u DEF ChannelBind, Allocation
<1>11. ASSUME NEW P, Forget(P) PROVE SequentialInv'
  <2>1. \A ip \in IPs : PortsOfIp(ip)' \subseteq PortsOfIp(ip)
    BY <1>11 DEF Forget, Drop, PortsOfIp
  <2>2. QuotaPerIp' /\ \A c \in Clients : QuotaOk(c) => QuotaOk(c)'
    BY <1>q, <2>1, QuotaKept
  <2>3. /\ DOMAIN allocations' = DOMAIN allocations \ P
        /\ \A p \in DOMAIN allocations' : allocations'[p] = allocations[p]
        /\ tasks' = tasks /\ accepted' = accepted
    BY <1>11 DEF Forget, Drop
  <2>4. \A p \in Ports :
          holders'[p] = IF p \in DOMAIN allocations' THEN {allocations'[p].nonce} ELSE {}
    BY <1>11, <2>3 DEF Forget, SequentialInv
  <2>5. BytesAreOwn'
    BY <2>3 DEF SequentialInv, BytesAreOwn
  <2> QED
    BY <1>c, <2>2, <2>3, <2>4, <2>5 DEF SequentialInv
<1>12. CASE Tick
  BY <1>12, <1>s DEF Tick
<1> QED
  BY <1>1, <1>2, <1>3, <1>4, <1>5, <1>6, <1>7, <1>8, <1>9, <1>10, <1>11, <1>12
     DEF Next, CleanupExpired, ReleaseAllocation

LEMMA SequentialGives == TypeOK /\ SequentialInv => QuotaPerIp /\ ExclusiveRelay /\ BytesAreOwn
<1> SUFFICES ASSUME TypeOK, SequentialInv PROVE ExclusiveRelay
  BY DEF SequentialInv
<1>1. ASSUME NEW p \in Ports PROVE Cardinality(holders[p]) <= 1
  <2>1. CASE p \in DOMAIN allocations
    <3>1. holders[p] = {allocations[p].nonce}
      BY <2>1 DEF SequentialInv
    <3>2. Cardinality({allocations[p].nonce}) = 1
      BY FS_Singleton
    <3> QED
      BY <3>1, <3>2
  <2>2. CASE p \notin DOMAIN allocations
    <3>1. holders[p] = {}
      BY <2>2 DEF SequentialInv
    <3> QED
      BY <3>1, FS_EmptySet
  <2> QED
    BY <2>1, <2>2
<1> QED
  BY <1>1 DEF ExclusiveRelay

(* Until two handlers overlap, the running one is alone and finds the table *)
(* as it left it.                                                          *)
Undisturbed == ~ overlapped => Alone /\ SequentialInv

\* At most one element: all are equal.
LEMMA AtMostOne ==
    ASSUME NEW S, IsFiniteSet(S), Cardinality(S) <= 1
    PROVE  \A x, y \in S : x = y
<1> SUFFICES ASSUME NEW x \in S, NEW y \in S, x # y PROVE FALSE
  OBVIOUS
<1>1. IsFiniteSet(S \ {x}) /\ Cardinality(S \ {x}) = Cardinality(S) - 1
  BY FS_RemoveElement
<1>2. Cardinality(S) \in Nat /\ Cardinality(S \ {x}) \in Nat
  BY <1>1, FS_CardinalityType
<1>3. Cardinality(S \ {x}) = 0
  BY <1>1, <1>2
<1>4. S \ {x} = {}
  BY <1>1, <1>3, FS_EmptySet
<1> QED
  BY <1>4

LEMMA NextUndisturbed ==
    TypeOK /\ Undisturbed /\ [MCNext]_<<vars, overlapped>> => Undisturbed'
<1> SUFFICES ASSUME TypeOK, Undisturbed, [MCNext]_<<vars, overlapped>>, ~ overlapped'
             PROVE  Alone' /\ SequentialInv'
  BY DEF Undisturbed
<1>1. CASE UNCHANGED <<vars, overlapped>>
  <2>1. Alone /\ SequentialInv
    BY <1>1 DEF Undisturbed
  <2> QED
    BY <1>1, <2>1, NextSequential DEF vars, Alone
<1>2. CASE MCNext
  <2>1. ~ overlapped /\ ~ (Cardinality(DOMAIN tasks') > 1)
    BY <1>2 DEF MCNext
  <2>2. IsFiniteSet(DOMAIN tasks')
    <3>1. TypeOK'
      BY <1>2, NextType DEF MCNext
    <3> QED
      BY <3>1, WorkersAssumption, FS_Subset DEF TypeOK, IsMap
  <2>3. Alone'
    <3>1. Cardinality(DOMAIN tasks') <= 1
      BY <2>1, <2>2, FS_CardinalityType
    <3> QED
      BY <2>2, <3>1, AtMostOne DEF Alone
  <2> QED
    BY <1>2, <2>1, <2>3, NextSequential DEF Undisturbed, MCNext
<1> QED
  BY <1>1, <1>2

LEMMA InitUndisturbed == MCInit => Undisturbed
<1> SUFFICES ASSUME Init PROVE Alone /\ SequentialInv
  BY DEF MCInit, Undisturbed
<1>1. \A ip : PortsOfIp(ip) = {}
  BY DEF Init, PortsOfIp
<1>2. QuotaPerIp
  BY <1>1, FS_EmptySet, QuotaAssumption DEF QuotaPerIp
<1> QED
  BY <1>2 DEF Init, Alone, SequentialInv, BytesAreOwn

LEMMA UndisturbedAlways == MCSpec => [](TypeOK /\ Undisturbed)
<1>1. MCInit => TypeOK
  BY InitType DEF MCInit
<1>2. TypeOK /\ [MCNext]_<<vars, overlapped>> => TypeOK'
  <2>1. [MCNext]_<<vars, overlapped>> => [Next]_vars
    BY DEF MCNext
  <2> QED
    BY <2>1, NextType
<1> QED
  BY <1>1, <1>2, InitUndisturbed, NextUndisturbed, PTL DEF MCSpec

(* The documentation's promises hold for any number of handlers as long as *)
(* no two ALLOCATEs or SENDs overlap: the quota is exact, a relayed address *)
(* serves one ALLOCATE, an allocation is charged its own bytes.            *)
THEOREM Sequential == MCSpec => []SequentialPromises
<1>1. TypeOK /\ Undisturbed => SequentialPromises
  BY SequentialGives DEF Undisturbed, SequentialPromises
<1> QED
  BY <1>1, UndisturbedAlways, PTL

(* Without overlap, handle_allocate overwrites no allocation: one leaves   *)
(* the table, or gives up its address, only expired or released.           *)
THEOREM Kept == MCSpec => SequentialKept
<1>1. TypeOK /\ Undisturbed /\ [MCNext]_<<vars, overlapped>> =>
        [~ overlapped' => KeptStep]_vars
  <2> SUFFICES ASSUME TypeOK, SequentialInv, Next PROVE KeptStep
    BY DEF MCNext, Undisturbed
  <2>a. \A p \in DOMAIN allocations : allocations[p] \in Allocation
    BY DEF TypeOK, IsMap
  <2>0. ASSUME allocations' = allocations PROVE KeptStep
    BY <2>0 DEF KeptStep
  <2>1. ASSUME NEW u \in Users, NEW pw \in Passwords, AddCredential(u, pw) PROVE KeptStep
    BY <2>0, <2>1 DEF AddCredential
  <2>2. ASSUME NEW w \in Workers, NEW c \in Clients, NEW u \in Users,
               NEW pw \in Passwords, NEW l \in Requested \cup {DefaultLifetime},
               Allocate(w, c, u, pw, l)
        PROVE KeptStep
    BY <2>0, <2>2 DEF Allocate
  <2>3. ASSUME NEW w \in Workers, CheckQuota(w) \/ AssignPort(w) PROVE KeptStep
    BY <2>0, <2>3 DEF CheckQuota, AssignPort
  <2>4. ASSUME NEW w \in Workers, InsertAllocation(w) PROVE KeptStep
    BY <2>4 DEF InsertAllocation, At, Put, SequentialInv, KeptStep
  <2>5. ASSUME NEW w \in Workers, NEW c \in Clients, NEW p \in Ports,
               NEW len \in Lengths, SendCheck(w, c, p, len)
        PROVE KeptStep
    BY <2>0, <2>5 DEF SendCheck
  <2>6. ASSUME NEW w \in Workers, SendAccount(w) PROVE KeptStep
    BY <2>a, <2>6 DEF SendAccount, Counted, Allocation, KeptStep
  <2>7. ASSUME NEW c \in Clients, NEW p \in Ports, NEW l \in Requested, Refresh(c, p, l)
        PROVE KeptStep
    BY <2>a, <2>7 DEF Refresh, Allocation, KeptStep
  <2>8. ASSUME NEW c \in Clients, NEW p \in Ports, NEW n \in Channels,
               NEW peer \in Peers, ChannelBind(c, p, n, peer)
        PROVE KeptStep
    BY <2>a, <2>8 DEF ChannelBind, Allocation, KeptStep
  <2>9. CASE CleanupExpired
    <3>1. \A p \in DOMAIN allocations : Expired(allocations[p]) => allocations[p].expires_at <= now
      BY <2>a DEF Expired, Allocation, TypeOK
    <3> QED
      BY <2>9, <3>1 DEF CleanupExpired, Forget, Drop, KeptStep
  <2>10. ASSUME NEW p \in Ports, ReleaseAllocation(p) PROVE KeptStep
    BY <2>10 DEF ReleaseAllocation, Forget, Drop, KeptStep
  <2>11. CASE Tick
    BY <2>0, <2>11 DEF Tick
  <2> QED
    BY <2>1, <2>2, <2>3, <2>4, <2>5, <2>6, <2>7, <2>8, <2>9, <2>10, <2>11 DEF Next
<1> QED
  BY <1>1, UndisturbedAlways, PTL DEF MCSpec, SequentialKept
=============================================================================
