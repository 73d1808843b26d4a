------------------------------- MODULE RelayNode -------------------------------
(* The relay (data-plane/src/relay/mod.rs, run by bin/mesh-relay.rs): one loop *)
(* takes a packet at a time through authentication, the two limits of packets  *)
(* per second, the registration of its sender and the routing table, which the *)
(* control plane changes meanwhile.  A device identifier is a sequence of      *)
(* bytes, padded with zeroes to IdLen in a packet.                             *)
EXTENDS Naturals, Sequences, FiniteSets

CONSTANTS
    Devices,      \* identifiers, of up to IdLen bytes
    IdLen,        \* 16 in the code
    Addresses,    \* address -> IP
    DeviceLimit,  \* packets per second of a device: 100 in the code
    IpLimit,      \* packets per second of an IP: 500 in the code
    None,
    MaxSeconds,   \* bound: seconds that pass
    MaxPackets,   \* bound: authentic packets received in a second
    MaxRoutes     \* bound: routes at a time

\* What the constants stand for.
Constants ==
    /\ \A d \in Devices : d \in Seq(Nat \ {0}) /\ Len(d) <= IdLen
    /\ IdLen \in Nat /\ DeviceLimit \in Nat /\ IpLimit \in Nat

VARIABLES
    device_addrs,    \* device -> address, of the devices that are registered
    routes,          \* <<src, dst>> -> address
    rate_limits,     \* device -> <<second, packets>>
    ip_rate_limits,  \* IP -> <<second, packets>>
    stats,           \* device -> packets forwarded
    now,             \* the second
    received,        \* authentic packets received in this second
    packet,          \* the packet in the loop: [pc, src, dst, to]
    known,           \* history: device -> the addresses it was registered at
    forwarded        \* history: packets of this second sent on: [src, dst, ip, to]

vars == <<device_addrs, routes, rate_limits, ip_rate_limits, stats, now, received, packet, known, forwarded>>
limits == <<rate_limits, ip_rate_limits>>

Ips == {Addresses[a] : a \in DOMAIN Addresses}
Empty == [x \in {} |-> None]
Put(f, x, y) == [z \in DOMAIN f \cup {x} |-> IF z = x THEN y ELSE f[z]]
Drop(f, x) == [z \in DOMAIN f \ {x} |-> f[z]]
NoPacket == [pc |-> "none"]

Init ==
    /\ device_addrs = Empty /\ routes = Empty /\ rate_limits = Empty /\ ip_rate_limits = Empty
    /\ stats = [d \in Devices |-> 0] /\ now = 0 /\ received = 0 /\ packet = NoPacket
    /\ known = [d \in Devices |-> {}] /\ forwarded = <<>>

-----------------------------------------------------------------------------
Padded(d) == d \o [i \in 1 .. IdLen - Len(d) |-> 0]
\* compute_hmac, by which clients authenticate: over the two identifiers as they are.
ComputeHmac(src, dst) == src \o dst
\* verify_hmac, over the two fields of the packet.
Verifies(src, dst, tag) == tag = Padded(src) \o Padded(dst)

\* check_rate_limit and check_ip_rate_limit: the packet counts, refused or not.
Counted(table, x) == Put(table, x, IF x \in DOMAIN table /\ table[x][1] = now
                                   THEN <<now, table[x][2] + 1>> ELSE <<now, 1>>)

(* relay_loop, up to the registration of the sender.                       *)
Receive(src, dst, from, tag) ==
    LET counted    == Counted(rate_limits, src)
        ip_counted == Counted(ip_rate_limits, Addresses[from])
        authentic  == Verifies(src, dst, tag)
        in_limit   == authentic /\ counted[src][2] <= DeviceLimit
        accepted   == in_limit /\ ip_counted[Addresses[from]][2] <= IpLimit
    IN  /\ packet = NoPacket /\ received < MaxPackets /\ received' = IF authentic THEN received + 1 ELSE received
        /\ rate_limits' = IF authentic THEN counted ELSE rate_limits
        /\ ip_rate_limits' = IF in_limit THEN ip_counted ELSE ip_rate_limits
        /\ IF accepted
           THEN /\ device_addrs' = Put(device_addrs, src, from)
                /\ known' = [known EXCEPT ![src] = @ \cup {from}]
                /\ packet' = [pc |-> "lookup", src |-> src, dst |-> dst, ip |-> Addresses[from]]
           ELSE UNCHANGED <<device_addrs, known, packet>>
        /\ UNCHANGED <<routes, stats, now, forwarded>>

(* The route, as it is now.                                                *)
Lookup ==
    /\ packet.pc = "lookup"
    /\ packet' = IF <<packet.src, packet.dst>> \in DOMAIN routes
                 THEN [pc |-> "send", src |-> packet.src, dst |-> packet.dst, ip |-> packet.ip,
                       to |-> routes[<<packet.src, packet.dst>>]]
                 ELSE NoPacket
    /\ UNCHANGED <<device_addrs, routes, limits, stats, now, received, known, forwarded>>

(* The payload goes to where the route led, and is counted if it was sent. *)
SendTo(sent) ==
    /\ packet.pc = "send" /\ packet' = NoPacket
    /\ IF sent THEN /\ stats' = [stats EXCEPT ![packet.src] = @ + 1]
                    /\ forwarded' = Append(forwarded, packet)
       ELSE UNCHANGED <<stats, forwarded>>
    /\ UNCHANGED <<device_addrs, routes, limits, now, received, known>>

(* The control plane: add_route copies the address the destination has now.*)
AddressOf(src, dst) == device_addrs[dst]
AddRoute(src, dst) ==
    /\ dst \in DOMAIN device_addrs /\ Cardinality(DOMAIN routes \cup {<<src, dst>>}) <= MaxRoutes
    /\ routes' = Put(routes, <<src, dst>>, AddressOf(src, dst))
    /\ UNCHANGED <<device_addrs, limits, stats, now, received, packet, known, forwarded>>
RemoveRoute(src, dst) ==
    /\ <<src, dst>> \in DOMAIN routes /\ routes' = Drop(routes, <<src, dst>>)
    /\ UNCHANGED <<device_addrs, limits, stats, now, received, packet, known, forwarded>>
(* The routes to and from the device stay.                                 *)
UnregisterDevice(d) ==
    /\ d \in DOMAIN device_addrs /\ device_addrs' = Drop(device_addrs, d)
    /\ UNCHANGED <<routes, limits, stats, now, received, packet, known, forwarded>>

(* A new second (no packet half way: the loop takes far less).             *)
Tick ==
    /\ now < MaxSeconds /\ packet = NoPacket
    /\ now' = now + 1 /\ received' = 0 /\ forwarded' = <<>>
    /\ UNCHANGED <<device_addrs, routes, limits, stats, packet, known>>

Next ==
    \/ \E src, dst \in Devices, from \in DOMAIN Addresses :
          src # dst /\ \/ Receive(src, dst, from, ComputeHmac(src, dst))
                       \/ Receive(src, dst, from, <<>>)
                       \/ AddRoute(src, dst) \/ RemoveRoute(src, dst)
    \/ \E d \in Devices : UnregisterDevice(d)
    \/ Lookup \/ Tick \/ \E sent \in BOOLEAN : SendTo(sent)

Spec == Init /\ [][Next]_vars

-----------------------------------------------------------------------------
(* Shapes.                                                                 *)
TypeOK ==
    /\ Constants
    /\ DOMAIN device_addrs \subseteq Devices /\ DOMAIN routes \subseteq Devices \X Devices
    /\ packet.pc \in {"none", "lookup", "send"}

(* In no second are more packets of one device, or of one IP, sent on than *)
(* the limits allow.                                                       *)
LimitsHold ==
    /\ \A d \in Devices : Cardinality({i \in DOMAIN forwarded : forwarded[i].src = d}) <= DeviceLimit
    /\ \A ip \in Ips : Cardinality({i \in DOMAIN forwarded : forwarded[i].ip = ip}) <= IpLimit

(* A packet goes to an address its destination has sent from; not always   *)
(* the one it has now, since routes keep the address they were made with.  *)
ToTheDestination == \A i \in DOMAIN forwarded : forwarded[i].to \in known[forwarded[i].dst]

(* Only senders whose identifier fills its field are ever registered, and  *)
(* so routed to: the tag of a shorter one is made without the padding.     *)
ShortIdsUnheard == \A d \in DOMAIN device_addrs : Len(d) = IdLen
=============================================================================
