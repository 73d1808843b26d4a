------------------------------ MODULE TurnServer ------------------------------
(***************************************************************************)
(* The embedded TURN server of the data plane (turn/mod.rs): a table of    *)
(* allocations keyed by relayed address behind one RwLock, a table of      *)
(* credentials behind another, and request handlers that are async         *)
(* functions of a shared &TurnServer, so several of them run at once.      *)
(*                                                                         *)
(* A handler is cut into steps exactly where it releases a lock: what it   *)
(* does under one guard is one step, and other handlers, the cleanup and   *)
(* the clock may run between two steps.  handle_allocate has four          *)
(* (credentials, quota, port, insertion), handle_send two (check,          *)
(* accounting); refresh, channel bind, cleanup and release have one.  A    *)
(* handler that returns an error before it changed anything is a           *)
(* stuttering step and is not written out.                                 *)
(*                                                                         *)
(* Operators whose name ends in Mutant are faulty variants of the          *)
(* definition that follows them; no action uses them.                      *)
(***************************************************************************)
EXTENDS Integers, FiniteSets, Functions

CONSTANTS
    Workers,        \* request handlers that may be running at the same time
    Clients,        \* client transport addresses
    IPs,            \* their hosts ...
    IpOf,           \* ... and which host a transport address is on
    Users, Passwords,
    Peers,          \* peer transport addresses a channel may be bound to
    Channels,       \* channel numbers a request may carry (u16)
    Requested,      \* lifetimes a request may ask for (seconds)
    Lengths,        \* payload lengths of a SEND indication
    FirstPort, LastPort,                           \* 50000 and 59999
    MinLifetime, DefaultLifetime, MaxLifetime,     \* 60, 600 and 3600
    max_allocations_per_ip,                        \* 10
    MaxBytes,       \* where the u64 byte counter saturates
    MaxNow, MaxNonce     \* bounds: clock, and number of nonces generated

ASSUME WorkersAssumption == IsFiniteSet(Workers) /\ Workers # {}
ASSUME ClientsAssumption == IpOf \in [Clients -> IPs]
ASSUME PortAssumption    == FirstPort \in Nat /\ LastPort \in Nat
ASSUME LifetimeAssumption ==
    /\ MinLifetime \in Nat /\ DefaultLifetime \in Nat /\ MaxLifetime \in Nat
    /\ MinLifetime <= DefaultLifetime /\ DefaultLifetime <= MaxLifetime
    /\ Requested \subseteq Nat
ASSUME QuotaAssumption == max_allocations_per_ip \in Nat \ {0}
ASSUME BytesAssumption == MaxBytes \in Nat /\ Lengths \subseteq Nat
ASSUME BoundAssumption == MaxNow \in Nat /\ MaxNonce \in Nat

VARIABLES
    allocations,    \* relayed port -> allocation (TurnServer::allocations)
    credentials,    \* username -> password (TurnServer::credentials)
    now,            \* Instant::now()
    nonces,         \* how many nonces were generated
    tasks,          \* the handlers that are between two lock scopes
    holders,        \* history: for each port the nonces of the ALLOCATEs that
                    \* succeeded and were not released or expired since
    accepted        \* history: bytes handle_send accepted for each nonce

vars == <<allocations, credentials, now, nonces, tasks, holders, accepted>>

Ports  == FirstPort .. LastPort
Nonces == 1 .. MaxNonce

\* handle_channel_bind's range, 0x4000 ..= 0x7FFF.
ValidChannels == {n \in Channels : 16384 <= n /\ n <= 32767}

\* A HashMap<S, T> is a partial function; Put is insert, Drop is remove/retain.
Map(S, T) == UNION {[D -> T] : D \in SUBSET S}
IsMap(f, S, T) == DOMAIN f \subseteq S /\ f \in [DOMAIN f -> T]
Put(f, k, v) == [x \in DOMAIN f \cup {k} |-> IF x = k THEN v ELSE f[x]]
Drop(f, K) == [x \in DOMAIN f \ K |-> f[x]]

(* struct Allocation without the fields no code reads back (created_at,    *)
(* lifetime, realm, bytes_received, peer_activity).                        *)
Allocation ==
    [client_addr : Clients, username : Users, expires_at : Nat, nonce : Nonces,
     channel_bindings : Map(ValidChannels, Peers), bytes_sent : 0 .. MaxBytes,
     bandwidth_limit : {0}]

(* A running handler: its next step and the local variables it will use.   *)
AllocatingTask == [step : {"quota", "assign"}, client_addr : Clients,
                   username : Users, lifetime : Nat]
InsertingTask  == [step : {"insert"}, relayed_addr : Ports, allocation : Allocation]
SendingTask    == [step : {"account"}, relayed_addr : Ports, len : Lengths]
Task == AllocatingTask \cup InsertingTask \cup SendingTask

-----------------------------------------------------------------------------
Lesser(a, b)  == IF a <= b THEN a ELSE b
Greater(a, b) == IF a >= b THEN a ELSE b

(* requested_lifetime.unwrap_or(DEFAULT).min(MAX).max(60 s).  A request     *)
(* without a lifetime is one that asks for DefaultLifetime.                *)
ClampLifetime(requested) == Greater(Lesser(requested, MaxLifetime), MinLifetime)

SaturatingAddMutant(a, b) == a + b
SaturatingAdd(a, b) == Lesser(a + b, MaxBytes)

\* The ports whose allocation belongs to a client on host ip.
PortsOfIp(ip) == {p \in DOMAIN allocations : IpOf[allocations[p].client_addr] = ip}

\* get_stats: total_bytes_sent.
TotalBytesSent ==
    SumFunction([p \in DOMAIN allocations |-> allocations[p].bytes_sent])

\* handle_send: owner, not expired, within the (never set) bandwidth limit.
MaySend(c, p) ==
    /\ p \in DOMAIN allocations
    /\ LET a == allocations[p] IN
        /\ a.client_addr = c
        /\ ~ (a.expires_at < now)
        /\ ~ (a.bandwidth_limit > 0 /\ a.bytes_sent > a.bandwidth_limit)

\* A handler that is not running may start; a returning one leaves the table.
Start(w, task) == w \notin DOMAIN tasks /\ tasks' = Put(tasks, w, task)
Goto(w, task)  == tasks' = [tasks EXCEPT ![w] = task]
Return(w)      == tasks' = Drop(tasks, {w})
At(w, step)    == w \in DOMAIN tasks /\ tasks[w].step = step

-----------------------------------------------------------------------------
Init ==
    /\ allocations = [p \in {} |-> 0]
    /\ credentials = [u \in {} |-> 0]
    /\ now = 0
    /\ nonces = 0
    /\ tasks = [w \in {} |-> 0]
    /\ holders = [p \in Ports |-> {}]
    /\ accepted = [n \in Nonces |-> 0]

AddCredential(u, pw) ==
    /\ credentials' = Put(credentials, u, pw)
    /\ UNCHANGED <<allocations, now, nonces, tasks, holders, accepted>>

VerifyMutant(u, pw) == TRUE
(* verify_credentials: the username is known with this password.           *)
Verify(u, pw) == u \in DOMAIN credentials /\ credentials[u] = pw

(* handle_allocate, up to the release of the credentials lock.             *)
Allocate(w, c, u, pw, requested) ==
    /\ Verify(u, pw)
    /\ Start(w, [step |-> "quota", client_addr |-> c, username |-> u,
                 lifetime |-> ClampLifetime(requested)])
    /\ UNCHANGED <<allocations, credentials, now, nonces, holders, accepted>>

QuotaOkMutant(c) == Cardinality(PortsOfIp(IpOf[c])) <= max_allocations_per_ip
QuotaOk(c) == ~ (Cardinality(PortsOfIp(IpOf[c])) >= max_allocations_per_ip)

(* handle_allocate, the block that counts the host's allocations.          *)
CheckQuota(w) ==
    /\ At(w, "quota")
    /\ IF QuotaOk(tasks[w].client_addr)
       THEN Goto(w, [tasks[w] EXCEPT !.step = "assign"])
       ELSE Return(w)                       \* AllocationQuotaExceeded
    /\ UNCHANGED <<allocations, credentials, now, nonces, holders, accepted>>

(* assign_port: p is the first port of the scan that the table lacks.      *)
Available(p) ==
    /\ p \notin DOMAIN allocations
    /\ \A q \in FirstPort .. p - 1 : q \in DOMAIN allocations

(* handle_allocate, assign_port and the construction of the allocation     *)
(* with its nonce and expiry time.                                         *)
AssignPort(w) ==
    /\ At(w, "assign")
    /\ \/ /\ Ports \subseteq DOMAIN allocations
          /\ Return(w)                      \* NoAvailablePorts
          /\ UNCHANGED nonces
       \/ \E p \in Ports :
          /\ Available(p)
          /\ nonces < MaxNonce
          /\ nonces' = nonces + 1
          /\ Goto(w, [step |-> "insert", relayed_addr |-> p,
                      allocation |->
                        [client_addr |-> tasks[w].client_addr,
                         username |-> tasks[w].username,
                         expires_at |-> now + tasks[w].lifetime,
                         nonce |-> nonces + 1,
                         channel_bindings |-> [n \in {} |-> 0],
                         bytes_sent |-> 0, bandwidth_limit |-> 0]])
    /\ UNCHANGED <<allocations, credentials, now, holders, accepted>>

(* handle_allocate, the insertion and the success response.                *)
InsertAllocation(w) ==
    /\ At(w, "insert")
    /\ LET p == tasks[w].relayed_addr
           a == tasks[w].allocation IN
        /\ allocations' = Put(allocations, p, a)
        /\ holders' = [holders EXCEPT ![p] = @ \cup {a.nonce}]
    /\ Return(w)
    /\ UNCHANGED <<credentials, now, nonces, accepted>>

RefreshLifetimeMutant(requested) == requested
\* lifetime.min(MAX_LIFETIME): unlike ALLOCATE, no lower bound.
RefreshLifetime(requested) == Lesser(requested, MaxLifetime)

RefreshMutant(c, p, requested) ==       \* re-inserts instead of updating
    /\ p \in DOMAIN allocations
    /\ allocations' = [allocations EXCEPT
                        ![p].expires_at = now + RefreshLifetime(requested),
                        ![p].bytes_sent = 0]
    /\ UNCHANGED <<credentials, now, nonces, tasks, holders, accepted>>

Refresh(c, p, requested) ==
    /\ p \in DOMAIN allocations
    /\ allocations[p].client_addr = c
    /\ allocations' = [allocations EXCEPT
                        ![p].expires_at = now + RefreshLifetime(requested)]
    /\ UNCHANGED <<credentials, now, nonces, tasks, holders, accepted>>

ChannelBind(c, p, n, peer) ==
    /\ n \in ValidChannels
    /\ p \in DOMAIN allocations
    /\ allocations[p].client_addr = c
    /\ allocations' = [allocations EXCEPT ![p].channel_bindings = Put(@, n, peer)]
    /\ UNCHANGED <<credentials, now, nonces, tasks, holders, accepted>>

(* handle_send, under the read guard.                                      *)
SendCheck(w, c, p, len) ==
    /\ MaySend(c, p)
    /\ SumFunction(accepted) < MaxBytes                    \* bound
    /\ Start(w, [step |-> "account", relayed_addr |-> p, len |-> len])
    /\ accepted' = [accepted EXCEPT ![allocations[p].nonce] = @ + len]
    /\ UNCHANGED <<allocations, credentials, now, nonces, holders>>

CountedMutant(a, len) == [a EXCEPT !.bytes_sent = SaturatingAdd(@, len + 1)]
Counted(a, len) == [a EXCEPT !.bytes_sent = SaturatingAdd(@, len)]

(* handle_send, under the write guard: whatever allocation the relayed      *)
(* address has by now is charged.                                          *)
SendAccount(w) ==
    /\ At(w, "account")
    /\ LET p == tasks[w].relayed_addr IN
        allocations' = IF p \in DOMAIN allocations
                       THEN [allocations EXCEPT ![p] = Counted(@, tasks[w].len)]
                       ELSE allocations
    /\ Return(w)
    /\ UNCHANGED <<credentials, now, nonces, holders, accepted>>

Forget(P) ==
    /\ allocations' = Drop(allocations, P)
    /\ holders' = [p \in Ports |-> IF p \in P THEN {} ELSE holders[p]]
    /\ UNCHANGED <<credentials, now, nonces, tasks, accepted>>

ExpiredMutant(a) == a.expires_at >= now
\* cleanup_expired retains expires_at > now.
Expired(a) == ~ (a.expires_at > now)

CleanupExpired ==
    LET P == {p \in DOMAIN allocations : Expired(allocations[p])}
    IN  P # {} /\ Forget(P)

ReleaseAllocation(p) == p \in DOMAIN allocations /\ Forget({p})

Tick ==
    /\ now < MaxNow
    /\ now' = now + 1
    /\ UNCHANGED <<allocations, credentials, nonces, tasks, holders, accepted>>

Next ==
    \/ \E u \in Users, pw \in Passwords : AddCredential(u, pw)
    \/ \E w \in Workers :
        \/ \E c \in Clients, u \in Users, pw \in Passwords,
              l \in Requested \cup {DefaultLifetime} : Allocate(w, c, u, pw, l)
        \/ CheckQuota(w)
        \/ AssignPort(w)
        \/ InsertAllocation(w)
        \/ \E c \in Clients, p \in Ports, len \in Lengths : SendCheck(w, c, p, len)
        \/ SendAccount(w)
    \/ \E c \in Clients, p \in Ports :
        \/ \E l \in Requested : Refresh(c, p, l)
        \/ \E n \in Channels, peer \in Peers : ChannelBind(c, p, n, peer)
    \/ CleanupExpired
    \/ \E p \in Ports : ReleaseAllocation(p)
    \/ Tick

Spec == Init /\ [][Next]_vars

-----------------------------------------------------------------------------
(* The shape of the two tables, of the running handlers and of the two      *)
(* histories.                                                              *)
TypeOK ==
    /\ IsMap(allocations, Ports, Allocation)
    /\ IsMap(credentials, Users, Passwords)
    /\ now \in Nat
    /\ nonces \in 0 .. MaxNonce
    /\ IsMap(tasks, Workers, Task)
    /\ holders \in [Ports -> SUBSET Nonces]
    /\ accepted \in [Nonces -> Nat]

(* The documented quota ("Max allocations per client IP"): the table never *)
(* holds more than max_allocations_per_ip allocations of one host.         *)
(* handle_allocate counts under a read guard it gives up before it         *)
(* inserts, so this needs handlers that do not overlap.                    *)
QuotaPerIp == \A ip \in IPs : Cardinality(PortsOfIp(ip)) <= max_allocations_per_ip

(* What the quota check guarantees with overlapping handlers: every other  *)
(* handler may have counted the same table, so the excess is at most one   *)
(* allocation for each handler but one.                                    *)
QuotaOvershoot ==
    \A ip \in IPs :
        Cardinality(PortsOfIp(ip)) <= max_allocations_per_ip + Cardinality(Workers) - 1

(* A relayed address serves one successful ALLOCATE at a time: until it is *)
(* released or expires, the address assign_port found available is not     *)
(* given to a second request.                                              *)
ExclusiveRelay == \A p \in Ports : Cardinality(holders[p]) <= 1

(* Nobody holds an allocation, or is about to, with a username that never  *)
(* passed verify_credentials (credentials are only ever added).            *)
AuthenticatedOwner ==
    /\ \A p \in DOMAIN allocations : allocations[p].username \in DOMAIN credentials
    /\ \A w \in DOMAIN tasks :
        /\ tasks[w].step \in {"quota", "assign"} => tasks[w].username \in DOMAIN credentials
        /\ tasks[w].step = "insert" => tasks[w].allocation.username \in DOMAIN credentials

(* No allocation can outlive MAX_LIFETIME without a further REFRESH, even  *)
(* one that waited for the write guard after its expiry was computed.      *)
LifetimeBound ==
    \A p \in DOMAIN allocations : allocations[p].expires_at <= now + MaxLifetime

(* An allocation's byte counter ("Bytes sent via this allocation") never   *)
(* exceeds what handle_send accepted for that same allocation.             *)
BytesAreOwn ==
    \A p \in DOMAIN allocations :
        allocations[p].bytes_sent <= accepted[allocations[p].nonce]

(* get_stats never reports more sent bytes in total than handle_send       *)
(* accepted, whichever allocations the bytes were charged to.              *)
StatsNeverOvercount ==
    TotalBytesSent <= SumFunction(accepted)

(* While one and the same allocation stays in the table, no step of        *)
(* another handler changes who owns it or takes back bytes it was charged, *)
(* and a channel once bound stays bound.                                   *)
AllocationStable ==
    [][\A p \in DOMAIN allocations \cap DOMAIN allocations' :
        LET a == allocations[p]
            b == allocations'[p] IN
        a.nonce = b.nonce =>
            /\ b.client_addr = a.client_addr /\ b.username = a.username
            /\ b.bytes_sent >= a.bytes_sent
            /\ DOMAIN a.channel_bindings \subseteq DOMAIN b.channel_bindings]_vars

\* No allocation is lost before its time: one that the step does not release
\* leaves the table, or gives up its address, only once expired.
KeptStep ==
    \A p \in DOMAIN allocations :
        \/ p \in DOMAIN allocations' /\ allocations'[p].nonce = allocations[p].nonce
        \/ allocations[p].expires_at <= now
        \/ ReleaseAllocation(p)
=============================================================================
