------------------------------- MODULE Signaling -------------------------------
(***************************************************************************)
(* The distributed signaling service (services/signaling-service): every   *)
(* node keeps a SignalingHub with the WebSocket of each device connected   *)
(* to it; Redis holds where each device is connected, a global connection  *)
(* counter and one counter per user, and carries messages between nodes.   *)
(*                                                                         *)
(* A session is one run of websocket_endpoint.  It is cut at its awaits:   *)
(* each Redis round trip is a step, and so is each critical section of the *)
(* hub.  Any round trip may raise, which ends the coroutine where it       *)
(* stands; any node may crash.  Clients are the owners of their devices.   *)
(*                                                                         *)
(* Operators whose name ends in Mutant are faulty variants of the          *)
(* definition that follows them; no action uses them.                      *)
(***************************************************************************)
EXTENDS Integers, FiniteSets

CONSTANTS
    Nodes,      \* signaling service instances
    Devices,
    Users,
    UserOf,     \* the user a device belongs to
    Sessions,   \* WebSocket sessions there can be (bound)
    MaxGlobal,  \* PubSubHub.MAX_GLOBAL_CONNECTIONS, 10000
    MaxPerUser, \* MAX_CONNECTIONS_PER_USER of both hubs, 5
    MaxLocal,   \* SignalingHub.MAX_CONNECTIONS, 10000
    Reconnects, \* whether a device may open a session while it has another
    MaxFaults   \* bound: Redis errors, failed sends, crashes, key expiries

ASSUME SessionsAssumption == IsFiniteSet(Sessions) /\ Sessions # {}
ASSUME OwnersAssumption   == UserOf \in [Devices -> Users]
ASSUME LimitAssumption ==
    /\ MaxGlobal \in Nat \ {0} /\ MaxPerUser \in Nat \ {0} /\ MaxLocal \in Nat \ {0}
    /\ MaxFaults \in Nat /\ Reconnects \in BOOLEAN

VARIABLES
    pc,             \* where each session stands
    home,           \* the node and device of a session that was opened
    connections,    \* per node: device -> session (SignalingHub._connections)
    user_devices,   \* per node: user -> devices (SignalingHub._user_devices)
    registry,       \* Redis ws:user:{user}:{device} -> node
    global_count,   \* Redis signaling:global_connections
    user_count,     \* Redis ws:user_count:{user}
    channel,        \* per node: messages published and not yet consumed
    delivered,      \* history: <<from, to>> sent on the target's WebSocket
    dropped,        \* history: consumed for a connected device, not delivered
    faults

vars == <<pc, home, connections, user_devices, registry, global_count,
          user_count, channel, delivered, dropped, faults>>

hub   == <<connections, user_devices>>
redis == <<registry, global_count, user_count>>
mail  == <<channel, delivered, dropped>>

(* connect runs through the first seven, disconnect through the last five; *)
(* "gone" is a coroutine that ended without cleaning up.                   *)
Connecting    == {"check_global", "check_user", "hub", "set", "incr_global", "incr_user"}
Disconnecting == {"finally", "delete", "decr_global", "decr_user", "pop"}
Steps == {"unused", "open", "closed", "gone"} \cup Connecting \cup Disconnecting

\* Steps that are a round trip to Redis.
AtRedis == {"check_global", "check_user", "set", "incr_global", "incr_user",
            "delete", "decr_global", "decr_user"}

Put(f, k, v) == [x \in DOMAIN f \cup {k} |-> IF x = k THEN v ELSE f[x]]
Drop(f, k)   == [x \in DOMAIN f \ {k} |-> f[x]]

NodeOf(s)   == home[s].node
DeviceOf(s) == home[s].device
OwnerOf(s)  == UserOf[DeviceOf(s)]

Goto(s, from, to) == pc[s] = from /\ pc' = [pc EXCEPT ![s] = to]

Fault == faults < MaxFaults /\ faults' = faults + 1

-----------------------------------------------------------------------------
Init ==
    /\ pc = [s \in Sessions |-> "unused"]
    /\ home = [s \in {} |-> 0]
    /\ connections = [n \in Nodes |-> [d \in {} |-> 0]]
    /\ user_devices = [n \in Nodes |-> [u \in {} |-> 0]]
    /\ registry = [d \in {} |-> 0]
    /\ global_count = 0
    /\ user_count = [u \in Users |-> 0]
    /\ channel = [n \in Nodes |-> {}]
    /\ delivered = {}
    /\ dropped = {}
    /\ faults = 0

(* websocket_endpoint up to distributed_hub.connect, token accepted.       *)
Open(s, n, d) ==
    /\ Goto(s, "unused", "check_global")
    /\ Reconnects \/ \A r \in DOMAIN home : DeviceOf(r) = d => pc[r] = "closed"
    /\ home' = Put(home, s, [node |-> n, device |-> d])
    /\ UNCHANGED <<hub, redis, mail, faults>>

GlobalLimitOk == ~ (global_count >= MaxGlobal)
UserLimitOk(u) == ~ (user_count[u] >= MaxPerUser)

(* The two limit checks of DistributedSignalingHub.connect; a refused      *)
(* session is closed with code 4003 before anything was recorded.          *)
CheckGlobal(s) ==
    /\ \/ Goto(s, "check_global", "check_user") /\ GlobalLimitOk
       \/ Goto(s, "check_global", "closed") /\ ~ GlobalLimitOk
    /\ UNCHANGED <<home, hub, redis, mail, faults>>

CheckUser(s) ==
    /\ \/ Goto(s, "check_user", "hub") /\ UserLimitOk(OwnerOf(s))
       \/ Goto(s, "check_user", "closed") /\ ~ UserLimitOk(OwnerOf(s))
    /\ UNCHANGED <<home, hub, redis, mail, faults>>

DevicesAt(n, u) == IF u \in DOMAIN user_devices[n] THEN user_devices[n][u] ELSE {}

HubHasRoom(n, u) ==
    /\ Cardinality(DOMAIN connections[n]) < MaxLocal
    /\ Cardinality(DevicesAt(n, u)) < MaxPerUser

(* SignalingHub.connect: capacity, then the tables.  A device that is      *)
(* already connected is replaced without closing the socket it had.        *)
HubConnect(s) ==
    LET n == NodeOf(s)
        d == DeviceOf(s)
        u == OwnerOf(s) IN
    /\ \/ /\ Goto(s, "hub", "set")
          /\ HubHasRoom(n, u)
          /\ connections' = [connections EXCEPT ![n] = Put(@, d, s)]
          /\ user_devices' = [user_devices EXCEPT ![n] = Put(@, u, DevicesAt(n, u) \cup {d})]
       \/ /\ Goto(s, "hub", "closed")
          /\ ~ HubHasRoom(n, u)
          /\ UNCHANGED hub
    /\ UNCHANGED <<home, redis, mail, faults>>

(* PubSubHub.register_device: three writes; then the session is open.      *)
RegisterKey(s) ==
    /\ Goto(s, "set", "incr_global")
    /\ registry' = Put(registry, DeviceOf(s), NodeOf(s))
    /\ UNCHANGED <<home, hub, global_count, user_count, mail, faults>>

RegisterGlobalMutant(s) ==
    /\ Goto(s, "incr_global", "incr_user")
    /\ UNCHANGED <<home, hub, registry, global_count, user_count, mail, faults>>
RegisterGlobal(s) ==
    /\ Goto(s, "incr_global", "incr_user")
    /\ global_count' = global_count + 1
    /\ UNCHANGED <<home, hub, registry, user_count, mail, faults>>

RegisterUser(s) ==
    /\ Goto(s, "incr_user", "open")
    /\ user_count' = [user_count EXCEPT ![OwnerOf(s)] = @ + 1]
    /\ UNCHANGED <<home, hub, registry, global_count, mail, faults>>

-----------------------------------------------------------------------------
(* The client goes away; the finally clause runs distributed_hub.disconnect. *)
Close(s) ==
    /\ Goto(s, "open", "finally")
    /\ UNCHANGED <<home, hub, redis, mail, faults>>

(* DistributedSignalingHub.disconnect looks the device up, not the session: *)
(* whichever socket holds the device now decides whether Redis is updated. *)
Finally(s) ==
    /\ \/ /\ Goto(s, "finally", "delete")
          /\ DeviceOf(s) \in DOMAIN connections[NodeOf(s)]
       \/ /\ Goto(s, "finally", "pop")
          /\ DeviceOf(s) \notin DOMAIN connections[NodeOf(s)]
    /\ UNCHANGED <<home, hub, redis, mail, faults>>

(* PubSubHub.unregister_device.                                            *)
UnregisterKey(s) ==
    /\ Goto(s, "delete", "decr_global")
    /\ registry' = Drop(registry, DeviceOf(s))
    /\ UNCHANGED <<home, hub, global_count, user_count, mail, faults>>

UnregisterGlobal(s) ==
    /\ Goto(s, "decr_global", "decr_user")
    /\ global_count' = global_count - 1
    /\ UNCHANGED <<home, hub, registry, user_count, mail, faults>>

UnregisterUser(s) ==
    /\ Goto(s, "decr_user", "pop")
    /\ user_count' = [user_count EXCEPT ![OwnerOf(s)] = @ - 1]
    /\ UNCHANGED <<home, hub, registry, global_count, mail, faults>>

HubRemoveMutant(n, d) ==        \* keeps the device in its user's set
    /\ connections' = [connections EXCEPT ![n] = Drop(@, d)]
    /\ UNCHANGED user_devices
(* SignalingHub.disconnect, the tables: nothing if the device is not there. *)
HubRemove(n, d) ==
    LET u    == UserOf[d]
        rest == DevicesAt(n, u) \ {d} IN
    IF d \in DOMAIN connections[n]
    THEN /\ connections' = [connections EXCEPT ![n] = Drop(@, d)]
         /\ user_devices' = [user_devices EXCEPT ![n] =
                                IF rest = {} THEN Drop(@, u) ELSE Put(@, u, rest)]
    ELSE UNCHANGED hub

HubDisconnectMutant(s) ==       \* drops every device of the user
    /\ Goto(s, "pop", "closed")
    /\ connections' = [connections EXCEPT ![NodeOf(s)] =
                        [d \in {x \in DOMAIN @ : UserOf[x] # OwnerOf(s)} |-> @[d]]]
    /\ user_devices' = [user_devices EXCEPT ![NodeOf(s)] = Drop(@, OwnerOf(s))]
    /\ UNCHANGED <<home, redis, mail, faults>>
HubDisconnect(s) ==
    /\ Goto(s, "pop", "closed")
    /\ HubRemove(NodeOf(s), DeviceOf(s))
    /\ UNCHANGED <<home, redis, mail, faults>>

-----------------------------------------------------------------------------
SameUserMutant(d, t) == TRUE
SameUser(d, t) == UserOf[d] = UserOf[t]

(* relay_signal, target on this node.                                      *)
CanRelayLocally(s, t) ==
    /\ pc[s] = "open" /\ t # DeviceOf(s)
    /\ DeviceOf(s) \in DOMAIN connections[NodeOf(s)]
    /\ t \in DOMAIN connections[NodeOf(s)]
    /\ SameUser(DeviceOf(s), t)

RelayLocal(s, t) ==
    /\ CanRelayLocally(s, t)
    /\ delivered' = delivered \cup {<<DeviceOf(s), t>>}
    /\ UNCHANGED <<pc, home, hub, redis, channel, dropped, faults>>

(* relay_signal of the distributed hub after local delivery did not work:   *)
(* the registry entry under the sender's user names the node to publish to. *)
Publish(s, t) ==
    channel' = IF /\ SameUser(DeviceOf(s), t)
                  /\ t \in DOMAIN registry /\ registry[t] # NodeOf(s)
               THEN [channel EXCEPT ![registry[t]] = @ \cup {<<DeviceOf(s), t>>}]
               ELSE channel

(* relay_signal, send_json on the target's socket raises: the hub forgets  *)
(* the device, Redis does not hear of it, and the other nodes are tried.   *)
RelayFails(s, t) ==
    /\ CanRelayLocally(s, t)
    /\ Fault
    /\ HubRemove(NodeOf(s), t)
    /\ Publish(s, t)
    /\ UNCHANGED <<pc, home, redis, delivered, dropped>>

(* relay_signal, target not on this node (or not of this user).            *)
RelayRemote(s, t) ==
    /\ pc[s] = "open" /\ t # DeviceOf(s)
    /\ ~ CanRelayLocally(s, t)
    /\ DeviceOf(s) \in DOMAIN connections[NodeOf(s)]
    /\ Publish(s, t)
    /\ UNCHANGED <<pc, home, hub, redis, delivered, dropped, faults>>

(* lifespan: main.py imported the name pubsub_hub while it was None, so    *)
(* set_message_handler raises, the error is logged as "local-only mode",   *)
(* and the hub that init_pubsub did create listens without a handler.      *)
HandlerSet == FALSE

(* PubSubHub._listen, and _handle_remote_message if a handler is set.      *)
Consume(n, m) ==
    /\ m \in channel[n]
    /\ channel' = [channel EXCEPT ![n] = @ \ {m}]
    /\ LET connected == m[2] \in DOMAIN connections[n] IN
        /\ delivered' = IF HandlerSet /\ connected THEN delivered \cup {m} ELSE delivered
        /\ dropped' = IF ~ HandlerSet /\ connected THEN dropped \cup {m} ELSE dropped
    /\ UNCHANGED <<pc, home, hub, redis, faults>>

-----------------------------------------------------------------------------
(* A Redis round trip raises.  It is not a RuntimeError, so connect's      *)
(* caller does not handle it and the finally clause is not yet entered;    *)
(* in disconnect it skips what is left, the hub's tables included.         *)
RedisError(s) ==
    /\ pc[s] \in AtRedis
    /\ Fault
    /\ pc' = [pc EXCEPT ![s] = "gone"]
    /\ UNCHANGED <<home, hub, redis, mail>>

CrashMutant(n) ==               \* the node's sessions start over
    /\ Fault
    /\ pc' = [s \in Sessions |->
                IF s \in DOMAIN home /\ NodeOf(s) = n THEN "unused" ELSE pc[s]]
    /\ connections' = [connections EXCEPT ![n] = [d \in {} |-> 0]]
    /\ user_devices' = [user_devices EXCEPT ![n] = [u \in {} |-> 0]]
    /\ UNCHANGED <<home, redis, mail>>
(* A node crashes and restarts with an empty hub; Redis keeps its entries. *)
Crash(n) ==
    /\ Fault
    /\ pc' = [s \in Sessions |->
                IF s \in DOMAIN home /\ NodeOf(s) = n /\ pc[s] # "closed"
                THEN "gone" ELSE pc[s]]
    /\ connections' = [connections EXCEPT ![n] = [d \in {} |-> 0]]
    /\ user_devices' = [user_devices EXCEPT ![n] = [u \in {} |-> 0]]
    /\ channel' = [channel EXCEPT ![n] = {}]
    /\ UNCHANGED <<home, redis, delivered, dropped>>

(* A day after the last connect of a user its counter expires; the worker's *)
(* cleanup gives every registry key without one an expiry of a day.        *)
ExpireUserCount(u) ==
    /\ Fault
    /\ user_count' = [user_count EXCEPT ![u] = 0]
    /\ UNCHANGED <<pc, home, hub, registry, global_count, mail>>

ExpireKey(d) ==
    /\ d \in DOMAIN registry
    /\ Fault
    /\ registry' = Drop(registry, d)
    /\ UNCHANGED <<pc, home, hub, global_count, user_count, mail>>

Next ==
    \/ \E s \in Sessions :
        \/ \E n \in Nodes, d \in Devices : Open(s, n, d)
        \/ CheckGlobal(s) \/ CheckUser(s) \/ HubConnect(s)
        \/ RegisterKey(s) \/ RegisterGlobal(s) \/ RegisterUser(s)
        \/ Close(s) \/ Finally(s)
        \/ UnregisterKey(s) \/ UnregisterGlobal(s) \/ UnregisterUser(s)
        \/ HubDisconnect(s)
        \/ \E t \in Devices : RelayLocal(s, t) \/ RelayFails(s, t) \/ RelayRemote(s, t)
        \/ RedisError(s)
    \/ \E n \in Nodes, m \in Devices \X Devices : Consume(n, m)
    \/ \E n \in Nodes : Crash(n)
    \/ \E u \in Users : ExpireUserCount(u)
    \/ \E d \in Devices : ExpireKey(d)

Spec == Init /\ [][Next]_vars

-----------------------------------------------------------------------------
(* Shapes of the sessions, the hub tables and the Redis keys.              *)
TypeOK ==
    /\ pc \in [Sessions -> Steps]
    /\ DOMAIN home \subseteq Sessions
    /\ home \in [DOMAIN home -> [node : Nodes, device : Devices]]
    /\ \A s \in Sessions : s \in DOMAIN home <=> pc[s] # "unused"
    /\ \A n \in Nodes :
        /\ connections[n] \in [DOMAIN connections[n] -> Sessions]
        /\ DOMAIN connections[n] \subseteq Devices
        /\ DOMAIN user_devices[n] \subseteq Users
        /\ user_devices[n] \in [DOMAIN user_devices[n] -> SUBSET Devices]
    /\ DOMAIN connections = Nodes /\ DOMAIN user_devices = Nodes
    /\ DOMAIN registry \subseteq Devices
    /\ registry \in [DOMAIN registry -> Nodes]
    /\ global_count \in Int
    /\ user_count \in [Users -> Int]
    /\ channel \in [Nodes -> SUBSET (Devices \X Devices)]
    /\ delivered \subseteq Devices \X Devices
    /\ dropped \subseteq Devices \X Devices
    /\ faults \in 0 .. MaxFaults

\* The sessions that hold a unit of the global counter and have not begun
\* to give it back.
Counted == {s \in Sessions : pc[s] \in {"incr_user", "open", "finally", "delete", "decr_global"}}

(* The two tables of a hub describe the same connections: a device is in   *)
(* its owner's set exactly when it has a connection, and no user is left   *)
(* with an empty set.                                                      *)
HubConsistent ==
    \A n \in Nodes :
        /\ \A d \in Devices : d \in DOMAIN connections[n] <=> d \in DevicesAt(n, UserOf[d])
        /\ \A u \in DOMAIN user_devices[n] :
            /\ user_devices[n][u] # {}
            /\ \A d \in user_devices[n][u] : UserOf[d] = u

(* The limit check errs on the safe side: whatever fails, whoever          *)
(* reconnects or crashes, the global counter is never below the number of  *)
(* sessions that hold a unit of it, so no open session goes uncounted.     *)
NeverUndercounts == global_count >= Cardinality(Counted)

(* Signals travel within one user only, on one node or between two.        *)
NoCrossUser ==
    \A m \in delivered \cup UNION {channel[n] : n \in Nodes} : UserOf[m[1]] = UserOf[m[2]]

-----------------------------------------------------------------------------
\* No session is inside connect or disconnect, and none ended in between.
Quiescent == \A s \in Sessions : pc[s] \in {"unused", "open", "closed"}

(* The hub tracks online devices: a device with an open session has a      *)
(* connection on its node.  The finally clause of a replaced session       *)
(* removes the connection of the session that replaced it.                 *)
SessionTracked ==
    \A s \in Sessions : pc[s] = "open" => DeviceOf(s) \in DOMAIN connections[NodeOf(s)]

(* Limits are enforced with Redis counters: between connects and           *)
(* disconnects the global counter is the number of connections.            *)
CountersExact ==
    Quiescent => global_count = Cardinality({s \in Sessions : pc[s] = "open"})

(* A connected device is registered under a node it is connected to, so    *)
(* that the other nodes can reach it.                                      *)
RegistryFinds ==
    Quiescent => \A s \in Sessions : pc[s] = "open" =>
        /\ DeviceOf(s) \in DOMAIN registry
        /\ \E r \in Sessions : /\ pc[r] = "open" /\ DeviceOf(r) = DeviceOf(s)
                               /\ registry[DeviceOf(s)] = NodeOf(r)

(* relay_signal "Returns True if the target device received the message":  *)
(* a message published for a device is not lost when it reaches a node     *)
(* that the device is connected to.                                        *)
RemoteDelivered == dropped = {}
=============================================================================
