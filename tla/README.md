# p2p-mesh in TLA+

A verification development for p2p-mesh: TLA+ modules translated from the
source, TLC configurations that model-check them on small instances, and TLAPS
proofs that lift the most important results to every instance.
`PROJECT.json` lists components, runs, mutants, the map from definitions to
source lines, findings, hazards and theorems.

## 1. The system

p2p-mesh is a peer-to-peer VPN. A Rust *data plane* (`data-plane/src`) carries
traffic: it finds paths between peers (ICE, STUN, hole punching), relays where
no path exists (TURN, relay), secures links (Noise) and routes through the mesh
(distance vector, Babel, gossip, topology, router, overlay, ACL). A set of
Python *services* (`services/*`) is the control plane: accounts and tokens
(auth), WebSocket signaling between devices (signaling), relay registry
(relay), plans and quotas (usage), devices (user), and a background worker.
`control-plane/` is the monolith that the services were split from.

### Inventory

| component | state it keeps | operations | what is hard |
|---|---|---|---|
| TURN server `turn/mod.rs` | credentials, allocations by relayed address | allocate, refresh, channel bind, send, cleanup, release | handlers give up their lock between check and act |
| Signaling `signaling-service` | per node: connections, devices of a user; Redis: registry, counters, channels | connect, disconnect, relay on a node and between nodes | awaits between every two writes, reconnects, crashes, Redis errors |
| Distance vector `mesh_routing/distance_vector.rs` | a route per prefix, last update per peer | add connected route, process update, build (full) update, expire, remove peer | asynchronous updates, dead routes, counting to infinity |
| Auth `auth-service` | Redis: failed attempts, refresh token, blacklist; accounts | login, refresh, logout, change password, accept token | check-then-act around awaits, second boundaries |
| Worker `worker` | Redis list, batch in hand, rows | pop, write, put back, stop | crash between pop and write, retries |
| Gossip `mesh_routing/gossip.rs` | member views, incarnation | ping, ack, indirect ping, membership update, mark suspect or dead | late acks, refutation, stale rumours |
| Babel `mesh_routing/babel.rs` | neighbours, routes, seqno | hello, IHU, update, remove neighbour | feasibility, starvation |
| ICE `ice/*.rs` | candidates, pairs, role, state | gather, set remote, check, nominate, consent, restart | lock order, role conflict, stale checks |
| Hole puncher `puncher/mod.rs` | attempts, nonces | punch, answer | two sides racing, lost packets |
| Relay, tunnel, `bin/mesh-*` | sessions, traffic batches | open, forward, expire, report | late packets, failed reports |
| Noise `crypto/noise.rs` | handshake state, keys, counters | write and read messages, transport | a bad message in the middle, replays |
| Raft, Kademlia `decentralized/mod.rs` | term, vote, log; buckets | election, append; insert, lookup | competing candidates |
| Router, overlay, ACL, IPAM, DNS, multipath, smart relay, gateway | tables | insert, look up, remove | precedence, expiry, limits |
| Relay service `relay-service` | rows of relays | heartbeat by identifier or name, register, delete, mark stale | transactions that cross, two first heartbeats |
| Rate limits `shared/app/middleware.py`, registration routes | Redis sorted sets and counters, memory of a replica | admit, register | trim, count and add are separate round trips |
| Usage and user services | database rows and Redis shadows | quotas, bans, devices | nothing calls the quota code as it is wired |
| dpdk, io_uring, eBPF, tun, QUIC, STUN, metrics, mobile | device and library handles | I/O | mostly outside a model's reach |

Components interact by calls inside the data plane, by WebSocket signaling
between devices (offers, answers and candidates go through the signaling
service), and by HTTP from the data plane's binaries to the services. The
services share Redis: auth writes the blacklist that all of them read,
signaling writes the registry keys to which the worker's cleanup gives an
expiry, and the worker drains queues that other services fill.

### What makes each part correct

* TURN: quotas per host, a relayed port belongs to one client, traffic is
  charged to its owner, allocations live as long as promised and no longer,
  only authenticated users have any.
* Signaling: the tables of a hub agree, counters never let more connections in
  than they count, devices can be found, messages stay within a user and arrive.
* Distance vector: no forwarding loops, shortest paths, bounded metrics, death
  of a destination spreads.
* Auth: lockout, revocation by logout and by password change, no token for a
  disabled account.
* Worker: no record lost, none billed twice, every record written in the end.
* Paths (ICE, tunnel, multipath, puncher): a table of paths keeps its limit and
  its identities, the choice falls on the better path, a failure leads to the
  fallback, every attempt ends.
* Handshakes (Noise, post-quantum, ICE): both ends come to the same keys,
  algorithms and opposite roles, or to none; a nonce is used once.
* Tables (router, ACL, topology, Kademlia, DNS, IPAM, smart relay): an answer is
  what the entries that were put in imply, an index names what is there, an
  address belongs to one device.
* Relay server, gateway, back ends: limits hold, nothing is counted twice, what is
  reported as done was done.
* Limits and registry of the services: a limit is passed by no more than the
  requests under way, a row agrees with itself, a silent relay goes offline.

The hazards list in `PROJECT.json` says where each of these can go wrong.

## 2. Modules

| component | specification | instances | proofs |
|---|---|---|---|
| TURN server | `TurnServer` | `MCTurnServer` | `TurnServerProofs` |
| Signaling service | `Signaling` | `MCSignaling` | `SignalingProofs` |
| Distance vector | `DistanceVector` | `MCDistanceVector` | `MeshProofs` |
| Gossip | `Gossip` | `MCMesh` | `MeshProofs` |
| Babel | `Babel` | `MCMesh` | `MeshProofs` |
| Auth service | `AuthService` | `MCAuthService` | `AuthServiceProofs` |
| Usage queue | `UsageWorker` | `MCUsageWorker` | `ServicesProofs` |
| Relay registry | `RelayRegistry` | `MCUsageWorker` | `ServicesProofs` |
| Rate and registration limits | `RateLimits` | `MCUsageWorker` | `ServicesProofs` |
| QUIC multipath | `QuicMultipath` | `MCDataPlane` | `DataPlaneProofs` |
| Paths: selection, choice, punching | `PathSelector`, `Multipath`, `Puncher` | `MCDataPlane` | `DataPlaneProofs` |
| ICE: agent, checks | `IceAgent`, `Connectivity` | `MCDataPlane` | `DataPlaneProofs` |
| Handshakes | `NoiseIK`, `PostQuantum` | `MCDataPlane` | `DataPlaneProofs` |
| Relays | `RelayNode`, `SmartRelay` | `RequestParts`, `MCDataPlane` | `RequestsProofs` |
| Overlay, names, gateway, addresses | `Overlay`, `Dns`, `HttpGateway`, `Ipam` | `RequestParts`, `MCDataPlane` | `RequestsProofs` |
| Tables | `Topology`, `RouteTable`, `Acl`, `Decentralized` | `MCDataPlane` | `DataPlaneProofs` |
| Sorting and filtering of lists | `Lists` (used by `RouteTable`, `PathSelector`) | | `DataPlaneProofs` |
| Sums over tables | | | `SumTheorems` |
| Packet I/O | `IoUring`, `Dpdk` | `RequestParts`, `MCDataPlane` | `RequestsProofs` |

Conventions. Hash maps are functions whose domain is the set of keys present
(`Put`, `Drop`). A coroutine or handler that gives up a lock or awaits is cut
there: a program counter per handler says where it stands, and each piece is an
action. Operators ending in `Mutant` are faulty variants that no action uses;
each property of a passing run is shown to fail when one of them replaces the
definition after it. Histories (marked in the VARIABLES) record what properties
talk about and influence nothing.

### TurnServer

`Handlers` are tasks that serve requests. `handle_allocate` is three actions
(`Allocate`: credentials and protocol; `CheckQuota`: count under a read guard;
`AssignPort`; then `InsertAllocation`), since the guard is dropped after each;
`handle_send` is two (`SendCheck`, `SendAccount`); the others hold one guard
throughout and are one action. Ports are chosen by any free port (the code
draws until it finds one). Time is a bounded clock and lifetimes are clamped as
in the code.

*Run.* `turn_concurrent` (two handlers, two hosts with one transport address
each, three ports, quota one): the quota is exceeded by less than the number of
handlers, owners are authenticated, lifetimes bounded, statistics never exceed
what was sent, and nothing that happens to an allocation changes whose it is.
`MCTurnServer` adds a history variable, whether two handlers ever overlapped; as
long as they have not, the documented quota, exclusive ports and exact accounting
(`SequentialPromises`) and no early loss (`SequentialKept`) hold as well. They do not survive an overlap: two ALLOCATEs of
a host both pass the count; two ALLOCATEs take the same port and the second
insertion overwrites the first client's allocation; a SEND that was checked
against one allocation is charged to the one that replaced it. Checking
`QuotaPerIp`, `ExclusiveRelay` or `BytesAreOwn` with the constants of
`TurnConcurrent.cfg` gives the traces.

*Proved.* Type correctness; `AuthenticatedOwner`; `LifetimeBound`, from an
invariant that also bounds the lifetime a handler carries towards insertion;
and `QuotaOvershoot` for any number of handlers. The last needs an invariant
that counts, for each host, its allocations together with the handlers that
have passed the check and not inserted yet: neither is bounded alone.
`QuotaSequential` is the corollary for one handler. `StatsSound` sums over the
table: what the allocations have counted and what running handlers still owe
(`Owed`) is together no more than what was accepted (`StatsInv`). `Stable` needs
that a nonce is in the table, or in the hands of one handler, once (`NonceInv`).
`Sequential` and `Kept` are about handlers that have not overlapped:
`SequentialInv` says, for each step of the only handler, that what it read at
the step before is still true.

### Signaling

A session is one run of `websocket_endpoint`, cut at each await: two limit
checks, the hub's critical section, three Redis writes; on the way out the
lookup, three Redis writes and the hub's critical section. Relaying on a node
is one action (the hub's lock is held or there is no await before the send),
between nodes it is a publish and a consume. Any Redis round trip may raise
(`RedisError`), a send may fail (`RelayFails`), a node may crash, keys may
expire; `MaxFaults` bounds their number. `HandlerSet` is FALSE because
`main.py` binds the name `pubsub_hub` before it is assigned.

*Runs.* `signaling_faults` (two nodes, three devices of two users, three
sessions, reconnects, one fault): the two tables of a hub agree, the global
counter never undercounts, nothing crosses users. `MCSignaling` adds a history
variable, whether everything has been quiet: no fault, and no device with two
sessions at a time. Until then sessions are tracked, counters exact and devices
found (`QuietPromises`). With reconnects, the finally clause of a replaced session removes the
entry of the session that replaced it, the replaced session's unit of the
counters is never given back, and a device that moved to another node is
unregistered by the late disconnect of its old session. `signaling_drop` refutes
the claim that a message relayed to another node is received there.

*Proved.* `CounterSafe`: the global counter is at least the number of sessions
holding a unit of it, for any number of nodes, sessions and faults. The
invariant pairs the counter with the set `Counted` of program points between
increment and decrement. `TypeCorrect`, and from it `HubsConsistent` (`Agree`,
the relation between the two tables of a node, is kept by adding and by removing
a device; both tables change in one critical section) and `WithinUser`.
`QuietSound` is the positive side of the races above: as long as nothing failed
and no device had two sessions, each step finds what the session itself recorded
before (`Held`, `Registered`), so that the counter is exact and not only a bound.

### DistanceVector

One engine per node, one prefix (entries of an update are processed
independently). `UpdateFor` and `FullUpdate` are the two builders,
`ProcessUpdate` the Bellman-Ford step, `ExpireStaleRoutes` and `RemovePeer` as
in the code. The transport is external: one update at a time per link, in
order. Clocks become two facts: a peer is stale, a hold-down is over.

*Runs.* `dv_stable` (triangle, no failures): the metric falls along next hops
in every state, and under fairness the tables converge to shortest paths.
`dv_failures` (triangle, one failure of any kind, restarts): metrics stay below
INFINITY plus a hop and connected routes survive. `dv_death` refutes "Triggered
updates (immediate on metric change)": a route that died is left out of the
updates, and a neighbour routes through it for ever. Two more facts the model
shows: a peer at INFINITY - 1 gives a route at INFINITY that is not marked
poisoned, because the test comes before the cost of the hop is added
(`MetricBound` is therefore not `metric <= INFINITY`), and full updates, which
ignore split horizon, let two survivors count up together.

*Fairness.* Weak fairness of building and processing updates on each link (the
driver exchanges updates every `update_interval`), of expiry, and of noticing
that a peer that is down has been silent. Nothing is assumed of failures.

*Proved*, in `MeshProofs`. Type correctness, `MetricBound` and
`ConnectedSurvives` under any failures; `LoopFree` without failures, for every
network. `ConnectedInv` says why a connected route is never displaced: no update
under way is better than it, and only a learned route is poisoned or held down. `Descending` is not inductive: an update
under way might be better or worse than what its sender has now. The invariant
`LoopInv` adds that an update on a link carries a metric no better than its
sender's present one, that it improves the receiver if the receiver already
routes through the sender, and that a poisoned entry never reaches a node
through its own next hop.

### Gossip and Babel

`Gossip` has one action per arm of `process_message` and per method; datagrams
may be lost, repeated and reordered, and the caller (there is none in the
repository) may ping, spread its view or give a verdict at any time. The join of
a node writes incarnation 0 and a rumour of its death bumps a counter that is
never put into any view, so every incarnation in a view is 0; the strict
comparison then makes membership updates good for introductions only.

`Babel` is the engine of one router for one prefix. `process_update` is two
actions on the path of a retraction (`Retract`, `RemoveSelected`), since the
table's lock is dropped in between, and one otherwise. Sequence numbers wrap and
are compared as plain numbers.

*Run.* `mesh_control`, with a variable that says which of the two engines moves
(`MCMesh` extends `DistanceVector` as well, which rests there, so that the
theorems about the three engines have one module to be about):
hearsay raises no node that is down, no node doubts itself, incarnations move
only for nodes somebody condemned; the route that the data plane is given is the
table's, unless a retraction is between its locks. The last is less obvious than
it looks: a retraction clears the selection only if the table is empty, and it
is the feasibility check, which refuses every second originator, that keeps the
table from holding two routes.

*Proved*, in `MeshProofs`. Type correctness of both (`MeshTypeCorrect`); `HearsayRaisesNoDead`,
`Rumours` and `NoSelfDoubt` from an invariant on views and on the views in
messages (incarnation 0, the dead are condemned); `Backed` for Babel from the
invariant that the table never has two originators.

### AuthService

One account. Each request is cut at its awaits of Redis and of the database.
Time has ticks shorter than a second, since `exp` is in whole seconds, the
blacklist's lifetime is rounded down and Redis expiry is exact.

*Runs.* `auth_concurrent` (two requests, time past a token's expiry): at most
one guess more than the limit, a logged-out token is refused until its last
second, and a revoked session never returns. `auth_logout_edge` shows the last
second: the blacklist entry expires before the token. `auth_password` refutes
"all existing sessions are revoked": the route passes no Redis client. Also in
the model, without a run: a refresh that was compared before a logout mints a
token after it, and a disabled account's refresh token still gives access
tokens (`RefreshMint` has no guard).

*Proved.* `Guesses`: with any number n of concurrent requests at most
LOGIN_MAX_ATTEMPTS + n - 1 wrong passwords between two clearings of the
lockout. The invariant bounds the guesses made by recorded attempts plus
requests about to record one, and guesses plus requests about to guess by the
limit. `LockedSequential` is the case n = 1. `TypeCorrect`, `LoggedOut` and
`Revoked` rest on `TokenInv`: types, tokens numbered without gaps (so that a new
one overwrites none), a blacklist key that outlives its token's expiry less a
second, and a token that is blacklisted by the time its logout deletes the
refresh token. `TtlSuffices` is the arithmetic of the lifetime that is rounded
down.

### UsageWorker, RelayRegistry, RateLimits

Workers share a Redis list. `Pop` is the loop's lpop, `WriteCommits`,
`WriteFails` and `WriteDoubtful` are the outcomes of the transaction, `Requeue`
is one rpush of the except clause.

In `RelayRegistry` a request reads its row (`UpdateHeartbeat`,
`HeartbeatByName`, `RegisterRelay`) and writes when its transaction commits
(`CommitHeartbeat`, `CommitInsert`), the mapper writing the columns that differ
from what it read; `CleanupStaleRelays` is the health loop's UPDATE. In
`RateLimits` every Redis command is an action: `Trim`, `Count`, `Add` of the
sliding window, `Register` and `IncrAndExpire` of account registration,
`IncrRelay` and `ExpireRelay` of relay registration; `CheckMemory` is the
fallback without Redis, which has no await in it.

*Run.* `usage_faults`, with a variable that says which of the three runs: a
record is duplicated only by a commit of unknown outcome and retries cover as
many failures as there are retries (the two halves of `BilledOnce`);
`ServicesSafe` says that a relay's status agrees with its load and its last
heartbeat unless a write went over somebody else's change, that a name has one
row unless first heartbeats crossed or an administrator made a second, that the
limits are passed by less than the number of requests under way (the memory
window by at most its double, at the seam), and that a count without expiry
comes from a request cut off; `AllDone` that every record is written in the end
unless a crash, a stop, a Redis error, a malformed record or one failure too
many gets in the way, and that silent relays go offline.

*Fairness* is weak fairness of each worker's loop, an asyncio task that never
waits on another worker, and of the health loop, which catches what its turn
raises and goes around.

What the models show besides. Records whose retries are used up, and the batch
in hand when a worker stops, are gone: the dead letter that the comment at
worker.py:129 mentions does not exist. Two rows of one name make every later
heartbeat by that name fail (`MultipleResultsFound`), so the relay goes offline
for good. Two requests of one millisecond are one member of the sorted set and
are counted once; `SlidingBound` is therefore about milliseconds. The except
clause of `_check_redis_rate_limit` names `request`, which that method does not
have: a Redis error fails the request, and the budget of 20 that its comment
promises never applies. The services' `app/database.py` import names that
`shared/app/database.py` does not define, and bind `redis_client` before it is
made; both variants of the limit are modelled, since it depends on the repair
which one runs.

*Proved*, in `ServicesProofs`, for any numbers of workers, records, requests and
faults, any limits and windows: `Billed`, `ServicesTyped` and `ServicesSound`,
which are the run's three invariants, and the parts of the last by name.

* For the queue, `Counted` counts the copies of a record over the list and all
  batches (a sum over the workers) and adds the rows written: at most one, plus
  one for each commit of unknown outcome; at least one as long as nothing
  uncovered happened. `Retried` says a copy has been put back no more often than
  the database failed, which is what makes the retries suffice.
* For the registry, `NamesInv`: a name whose registrations did not race has one
  row or one request about to insert it, never both.
* For the sliding window, what was admitted in the last minute is in the sorted
  set (a request trims by the time it was received at, which is past), and
  entries and requests between ZCARD and ZADD are together below the limit and
  the number of requests.
* For the memory of a replica, `Keeps` splits the last minute at the start of the
  present window and bounds the sum of either side by the limit, so that any
  minute (`MinuteBounded`) is bounded by twice the limit.

### The data plane

Twenty further components are modelled each in a module of its own and
checked in one run, `data_plane`. They share no state in the code either, so
`MCDataPlane` has a variable, `focus`, chosen in the initial state, that says
which of them runs; the others stay where they start and the state spaces add up
(142,985 states in all). The eight that answer requests, carry packets or hand
out what there is little of are put together in `RequestParts`, which states
what they promise (`RequestsSafe`) and is proved about on its own;
`MCDataPlane` extends it. An invariant of the run is the conjunction of what its
components promise; the mutant that PROJECT.json names for it breaks one
conjunct, and the definitions marked `Mutant` in the modules break others.
Checking a conjunct alone with a cfg of one's own gives the trace of its
component.

| module | how the code is cut | what is promised (in) |
|---|---|---|
| `QuicMultipath` | `add_path` is a test and an insertion, all else one lock | limit passed by less than the callers (`Overshoot`); identities, flags, counts, least window (`PathsSafe`); congestion never enlarges a window (`StepsSafe`) |
| `PathSelector` | `remove_path` and `get_active_path` take two locks each | IPv6 first among equals, relays last (`PathsSafe`); nothing returns to Active (`StepsSafe`); a removal ends unless it meets a look-up (`AllEnd`) |
| `Multipath` | `establish_p2p_connection` registers, waits for the punch, activates | smoothed times within samples, the fallback is used (`PathsSafe`) |
| `Puncher` | one round of `execute_punch`, then the wait for datagrams | budget passed by one round at most, success only with the peer (`PathsSafe`); every attempt ends (`AllEnd`) |
| `IceAgent` | `set_remote_candidates` waits for its own lock | roles differ as tiebreakers do, no check ever starts (`HandshakesSafe`) |
| `Connectivity` | a check sends, then waits with the peers locked | dead exactly after the failures in a row; late answers are the only foreign ones (`HandshakesSafe`) |
| `NoiseIK` | messages lost, repeated, reordered and spoiled | equal crossed keys, no nonce twice, a spoiled responder never answers (`HandshakesSafe`) |
| `PostQuantum` | negotiation; placeholders compute what the code computes | levels and lists of both, one order gives one choice (`HandshakesSafe`) |
| `Overlay` | two tasks share the tunnels' lock, a main loop shares the socket | received was sent (`RequestsSafe`); outbound is served unless nothing arrives (`AllEnd`) |
| `Dns` | cache, records, upstream and cache again are four critical sections | the cache answers the record unless it changed meanwhile (`RequestsSafe`); a new server list gets in place (`AllEnd`) |
| `HttpGateway` | one action per attempt, the server may record and not answer | success means recorded, bytes are in one report (`RequestsSafe`); calls end (`AllEnd`); success clears the failures (`StepsSafe`) |
| `Ipam` | handlers cut at each await of the database, clients retry | one device per address, what is held is assigned, each but for the mishaps named (`RequestsSafe`) |
| `RelayNode` | `relay_loop` with a packet in hand while routes change | limits hold, packets go to addresses of the destination (`RequestsSafe`) |
| `SmartRelay` | `register_relay` takes four locks in turn, `remove_relay` holds the first | indices complete, and exact unless calls overlapped (`RequestsSafe`) |
| `IoUring` | every method is one lock | entries conserved, a buffer has one owner (`RequestsSafe`) |
| `Dpdk` | `configure_port` is two writes | statistics follow ports, nothing before initialisation, the queue of a flow (`RequestsSafe`) |
| `RouteTable` | `lookup_ecmp` gives up the routes before it takes the groups | look-ups answer the least metric, groups exact until the routes change (`TablesSafe`) |
| `Topology` | `shortest_path` is one turn of its loop at a time | edges backed by links, shortest paths against breadth-first reach (`TablesSafe`) |
| `Acl` | one lock; `check` is an operator | isolation (`TablesSafe`); a rule acts in its direction and below higher priority (`StepsSafe`) |
| `Decentralized` | one action per method of the Raft node and of the buckets | logs in order, buckets exact (`TablesSafe`); terms grow, the nearest peers are found (`StepsSafe`) |

*Fairness.* Where a component states it, it is that of a task that is scheduled
and of tokio's locks, which are fair: `Overlay`'s tasks and `Dns`'s queries and
writer, weak; `HttpGateway`, weak for the next step of a call (each attempt has
a timeout); `Puncher`, weak for the passing of time and for a round;
`PathSelector`, weak for the second half of a removal and strong for the second
half of a look-up, which waits in a queue that removals keep joining. Nothing is
assumed of the network. The two liveness properties that have an exception name
it: a look-up between the two locks of a removal is a deadlock, and an inbound
task that waits with the tunnels locked serves nobody until a datagram comes.

*What the models show besides.* Each of these is a behaviour of the code that a
property above excepts by name, or a conjunct states as it is:

* router: `lookup_ecmp` answers from a group that no removal or deactivation
  rebuilds (mod.rs:182); 0.0.0.0/0 as a CIDR never matches (161);
* topology: a removed node leaves its links; its neighbours' lists still name it;
* tunnel: a failed punch leaves the direct path preferred until it is measured
  slow (tunnel/mod.rs:306); each side makes a session key of its own;
* overlay: the inbound task holds the tunnels while it waits (overlay/mod.rs:197),
  and the main loop swallows datagrams meant for it (bin/mesh-overlay.rs:155);
* path selection: opposite lock orders (path_selection.rs:151), nothing
  reactivates a path, and a negative score times 1.5 makes IPv6 worse, against
  "IPv6 Direct preferred over IPv4 Direct" (path_selection.rs:4):
  `PathSelector!V6DirectPreferred` is the claim, and fails;
* ICE: `set_remote_candidates` waits for itself (ice/mod.rs:271), equal
  tiebreakers leave both controlled, any binding response ends any check;
* Noise: a message that does not open has spoiled the responder (noise.rs:260);
  `transport_keys` starts again from nonce 0 and unswapped (375);
* post-quantum: a failed negotiation keeps the old algorithms, encapsulation
  ignores the negotiated ones, the placeholder never yields one secret at both
  ends, `verify` ignores the key;
* puncher: the nonce is written with 20 characters and read with 10, so that no
  HELLO is ever understood; `HexFields` has both, 20 would be the repaired parser;
* DNS: a late answer is cached after the record changed or the cache was cleared;
* gateway: POSTs are retried and may be recorded twice, a failed report takes its
  batch with it, `compute_backoff` overflows from 33 retries on;
* IPAM: an address whose row could not be written is given out again after a
  restart; two first requests load twice; a late second release frees a new
  allocation; `/peers` is shadowed by `/{device_id}`;
* relay: identifiers shorter than their field are never accepted, routes keep old
  addresses; smart relay: an index entry made after a removal stays, the anycast
  cache is keyed by the client (354);
* QUIC multipath: the weighted choice is not counted (255);
* io_uring: a full queue drops its oldest entries, releases are not checked, a
  poll takes everybody's completions; DPDK: the hash of a flow is a multiple of
  four and blind to addresses, forwarding tasks survive a shutdown;
* Raft: `become_leader` needs no votes, `append_entry` answers one less than the
  index, `commit_index` is taken as told; Kademlia: a full bucket drops newcomers.

*Proved*, in `DataPlaneProofs` and `RequestsProofs`, from what the components
assume of their constants (`DataPlaneAssumption`, `RequestsAssumption`): every
invariant of the run, `TablesSafe`, `PathsSafe`, `HandshakesSafe`, `RequestsSafe`,
`Overshoot` and `DataPlaneTypes`, is one of the composition, and `StepsSafe` holds
of every step (`TablesAnswerRight`, `PathTablesKept`, `EndsAgree`, `RequestsRight`,
`OvershootInDataPlane`, `DataPlaneTyped`, `StepsAllowed`).
The components share no variable, so a step of the whole is a step of each or
leaves it alone (`Steps`); each has an inductive invariant of its own.

* Topology (`GraphInv`). In the middle of `shortest_path` every node at a
  distance has a predecessor one nearer that was visited, every visited node's
  neighbours are at most one further, nothing visited is further than what is
  not, and a distance is the length of a walk. `WalkKnown`, an induction along a
  walk, then gives that the path returned is as short as any walk. The adjacency
  lists cannot change during a search, since the search holds their lock.
* Router (`RouterInv`). The lists of a prefix are in the order of metric, one
  route to a peer; a group is exactly the active routes of least metric unless
  the prefix is among the outdated. Sorting and filtering (`Lists`) are defined
  by the place each entry takes: `SortedByKey` and `Kept` say that they permute,
  order and keep what they should, by induction over the places.
* Access rules. `First` names at most one rule (`FirstOne`) and one if any
  matches (`FirstExists`), so that what an added rule changes can be told from
  its priority alone (`RuleAdded`).
* Raft and Kademlia (`ControlInv`). Entries are numbered by position; two
  identifiers of one bucket differ from ours at the same first bit.
* QUIC multipath. Nothing ever leaves the table: the next identifier is one more
  than the entries and the insertions under way, so it does not wrap before the
  table is full (`Counter`). For windows the invariant adds that a path before its
  first congestion event still has its initial window; for counts, that the total
  is the sum over the paths. The theorems `OvershootBounded` to `WindowsShrink`
  state the same of `QuicMultipath` alone.
* Path selection. `HealthyQuality`: the arithmetic of a score is positive for any
  healthy path, so that the factor for IPv6 makes it larger.
* Path choice. A call that registered the relay finds it as long as no path was
  lost (`ChoiceInv`); the rounded mean stays between the extremes.
* Puncher. A datagram was written by the peer its nonce names and sent to one of
  its candidates (`Datagram`), and the sender's address is that of the peer.
* Connectivity checks (`ChecksInv`). As long as every check was ended by its own
  response, at most one request or response is under way, and it is the one
  waited for; with one unanswered that no longer holds, which is why
  `Attributed` excepts it.
* ICE agent (`AgentInv`). No agent leaves New, Gathering and Restarting, and the
  role of one that resolved a conflict is what the tiebreakers say.
* Noise (`NoiseInv`). The chaining key of a side is that of the messages it
  has seen (`InitiatorRight`, `ResponderRight`); a split one names its two ephemeral
  keys (`FullInjective`). A packet's key is of an earlier handshake of its side or
  of the one that is complete now (`PacketRight`), so keys that were just split
  have encrypted nothing, and of keys not asked for twice every packet's nonce is
  below the next (`NoncesRight`). A responder that was sent a message it could not
  open has a chaining key of two secrets or more after any other, which nobody
  sealed with (`GreetingMixed`).
* Post-quantum (`PqInv`). What an engine works with is what `negotiate_pqc` gives
  for it and its last partner (`Chosen`: listed by both, at the stricter level);
  tokens are distinct, being the number of secrets before.

The components of `RequestParts`, in `RequestsProofs`:

* Overlay (`NetInv`). The two tasks of a node and the queue of its lock are in one
  of eleven situations (`QueueRight`). What a node received from a peer, together
  with the peer's datagrams that wait in its socket, is no more than what the peer
  sent it (`LinkRight`): a datagram taken out is either counted, dropped or
  swallowed, and is never there twice.
* Names (`NamesInv`). The cache is current because an answer on its way to it is
  (`AnswerCurrent`): a call that read the records and has not written the cache
  has what they say now, or the name is among those changed meanwhile.
* Gateway (`HttpInv`). An answer names the attempt it belongs to and an attempt
  that was recorded stays so; a call that succeeded has an answer, its result
  counts one record, and what is in a batch, in a call and in results is together
  what was received (`HttpBytes`, sums over the callers).
* Addresses (`IpInv`). No invariant holds of every history, since each mishap
  spoils another part: `LoadedInv` says what is in memory before the rows are
  loaded, `LateInv` that without late answers a device has one request at the
  service, the one it waits for; `CleanInv`, that with every row loaded and
  written what a device holds is in the table and in the rows, and a row that is
  missing is about to be stored; `UnbrokenInv`, the same of the table alone when
  there was no restart. The three promises name the mishaps each excepts.
* io_uring (`RingInv`). Submissions are what is pending, completed, failed or
  cleared; a buffer is free once or held by one user, or was released twice.
* DPDK (`NicsInv`). What is proved of the hash is for every key and every flow: of
  the 96 bits that go in, the key of bit i is shifted by 97 - i, so that only the
  bits after the 65th reach the word, and these are of the ports (`PortsDecide`);
  a key whose fourth byte is even has its last bit clear, so that bits 0 and 1 of
  the hash are never set and its remainder by 1, 2 or 4 is 0 (`OneQueue`, which says
  so of its hypothesis).
* Relay server (`RelayInv`). The address of a device, and those that routes and
  packets took from it, are among the addresses it was heard from; what a window
  counted is what was received in it (`DeviceRight`, `IpRight`), so that limits
  hold from its beginning and not only at a packet.
* Choice of a relay (`RelaysInv`). What an index does not have yet, a registration
  under way will put there (`Awaits`, by the steps it has left); what it has of a
  relay that was not disturbed is of the relay as it is, or about to go with the
  removal that holds the lock (`ExactRight`).

## 3. Bounds

Two actors are the least that race, and every race found needs two; three
ports, tokens, records or sessions leave one to be taken by a third party.
Quotas and limits are one or two so that they are reached. Gossip needs one verdict and two messages for a
rumour to arrive after an acknowledgement, a third node to spread it, and one
bump; Babel's sequence numbers wrap after three updates. INFINITY is small in
the failure runs so that counting reaches it, and large in `dv_stable` so that
it plays no part. One fault per run is enough for each clause of the fault
handling to be taken at every point; the proofs lift the bounds of the theorems
they cover.

In `data_plane` and `usage_faults` the constants have their values in the cfg
(records and functions, which a cfg cannot write, at the end of the MC module):
two callers (one where only a second call of
the same kind would be new), two or three of whatever is looked up, limits of
one or two so that they are reached and passed, one retry, one fault, sequences
of at most three calls of a kind. Identifiers of `QuicMultipath` wrap at four,
hash keys of `Dpdk` are the code's first four bytes, the metrics of
`PathSelector` are one healthy path, one slow and one lossy. A minute of
`RateLimits` is three ticks of five, enough for a window to pass and for a seam.
CHECK_DEADLOCK is FALSE where the bounds, a shutdown or the code itself (see
`IceAgent`, `PathSelector`) may leave nothing to do.

## 4. Only model-checked

Every invariant and every action property of the passing runs is stated by a
theorem listed in `PROJECT.json`. What TLC alone shows:

* Liveness (`Converges`, `AllDone`, `AllEnd`, `DeathPropagates`): it rests on
  fairness and ENABLED, which the proof system does not handle.
* What the runs that expect a violation refute.

Sums and least elements need induction. The induction theorems of the library
take an operator as a parameter, which no installed prover can instantiate;
`SetInduction` (`SumTheorems`) takes a set instead, whose members are the
numbers that have the property. On it rest the facts about sums (a changed, added
or removed argument, disjoint parts, monotonicity), about sorted lists and about
walks. A recursive operator stays out of reach; no module with a theorem has one.

## 5. Plan

What is left, in this order.

1. Abstract specifications: an allocation service refined by the sequential
   TURN server, a session registry refined by quiet signaling, an at-most-once
   ledger refined by the worker without doubtful commits, an address book
   refined by `Ipam` without mishaps.
2. A composition of signaling, candidates and puncher for the establishment of a
   connection, and of gateway, `Ipam` and limits for a client that retries.
3. The usage service, should its middleware be connected; candidate pairs of the
   ICE agent, should the lock be repaired.

## 6. Not modelled

Wrappers around libraries and devices (eBPF, fast path, TUN, QUIC, STUN,
mobile), message formats, numeric scoring (it is an open order wherever a
modelled component chooses by it; `ai_routing` is nothing else), user interface,
deployment and measurement scripts. The usage service has no behaviour as it is
wired: the middleware never records, the quota check lets a request pass on any
answer but success, and nothing reads the keys of a ban. The user service and
the control-plane monolith are CRUD, but for address management, which `Ipam`
models. `PROJECT.json` gives the reason for each component, and for a component
that is partly modelled the operations that are left out.
