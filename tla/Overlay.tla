--------------------------------- MODULE Overlay ---------------------------------
(* The overlay data path (data-plane/src/overlay/mod.rs) over the encrypted    *)
(* tunnels (tunnel/mod.rs), in the node program bin/mesh-overlay.rs.  Per node *)
(* an outbound and an inbound task share the lock of the tunnels, and the      *)
(* inbound task and the program's main loop read the same socket.  The inbound *)
(* task holds the lock while it waits for a datagram.  tokio's locks are fair: *)
(* a task that asks again goes to the end of the queue.                        *)
(*                                                                             *)
(* Operators whose name ends in Mutant are faulty variants of the definition   *)
(* that follows them; no action uses them.                                     *)
EXTENDS Naturals, Sequences, FiniteSets

CONSTANTS
    Nodes, None,
    Tables,      \* what the tunnels may be: node -> peer -> key, None is no tunnel
    RouteTo,     \* packet -> peer the route table answers, or None
    MaxRead      \* bound: node -> packets read from its TUN device

Packets == DOMAIN RouteTo

\* What the constants stand for.
Constants ==
    /\ None \notin Nodes /\ MaxRead \in [Nodes -> Nat]
    /\ None \notin Packets /\ \A p \in Packets : RouteTo[p] \in Nodes \cup {None}

VARIABLES
    keys,      \* the tunnels, which are set up before the tasks start
    outbound,  \* node -> the packet its outbound task wants to send, or None
    inbound,   \* node -> what its inbound task does: wait for the lock, receive, write, sleep
    queue,     \* node -> tasks that wait for the lock of the tunnels, the holder first
    socket,    \* node -> datagrams under way to it, [from, key]
    in_hand,   \* node -> peer whose packet is to be written to the TUN device, or None
    counters,  \* node -> peer -> [sent, received] of the tunnel, in packets
    read       \* node -> packets read so far

vars == <<keys, outbound, inbound, queue, socket, in_hand, counters, read>>

Init ==
    /\ keys \in Tables
    /\ outbound = [n \in Nodes |-> None] /\ inbound = [n \in Nodes |-> "sleep"]
    /\ queue = [n \in Nodes |-> <<>>]
    /\ socket = [n \in Nodes |-> {}] /\ in_hand = [n \in Nodes |-> None]
    /\ counters = [n \in Nodes |-> [p \in Nodes |-> [sent |-> 0, received |-> 0]]]
    /\ read = [n \in Nodes |-> 0]

Holds(n, task) == queue[n] # <<>> /\ Head(queue[n]) = task
Release(n) == queue' = [queue EXCEPT ![n] = Tail(@)]
Tunnel(n, peer) == keys[n][peer] # None

-----------------------------------------------------------------------------
(* The outbound task reads a packet; without a route it is dropped.        *)
ReadPacket(n, packet) ==
    /\ outbound[n] = None /\ read[n] < MaxRead[n]
    /\ read' = [read EXCEPT ![n] = @ + 1]
    /\ IF RouteTo[packet] = None
       THEN UNCHANGED <<outbound, queue>>
       ELSE /\ outbound' = [outbound EXCEPT ![n] = packet]
            /\ queue' = [queue EXCEPT ![n] = Append(@, "out")]
    /\ UNCHANGED <<keys, inbound, socket, in_hand, counters>>

(* send_to: the packet is counted when it is encrypted, whether or not the *)
(* socket then takes it and the network delivers it.                       *)
SendTo(n) ==
    LET peer == RouteTo[outbound[n]]
        datagram == [from |-> n, key |-> keys[n][peer], number |-> counters[n][peer].sent] IN
    /\ Holds(n, "out")
    /\ IF Tunnel(n, peer)
       THEN /\ counters' = [counters EXCEPT ![n][peer].sent = @ + 1]
            /\ \E sent \in {{}, {datagram}} : socket' = [socket EXCEPT ![peer] = @ \cup sent]
       ELSE UNCHANGED <<counters, socket>>
    /\ outbound' = [outbound EXCEPT ![n] = None] /\ Release(n)
    /\ UNCHANGED <<keys, inbound, in_hand, read>>

-----------------------------------------------------------------------------
LockTunnels(n) ==
    /\ inbound[n] = "wait" /\ Holds(n, "in")
    /\ inbound' = [inbound EXCEPT ![n] = "receive"]
    /\ UNCHANGED <<keys, outbound, queue, socket, in_hand, counters, read>>

Authentic(n, d) == d.from \in Nodes /\ Tunnel(n, d.from) /\ keys[n][d.from] = d.key

(* recv_from: the tunnel is found by the sender's address; a datagram that *)
(* its key does not open counts for nothing, and the task sleeps.          *)
RecvFrom(n) ==
    /\ inbound[n] = "receive"
    /\ \E d \in socket[n] :
           /\ socket' = [socket EXCEPT ![n] = @ \ {d}]
           /\ IF Authentic(n, d)
              THEN /\ counters' = [counters EXCEPT ![n][d.from].received = @ + 1]
                   /\ in_hand' = [in_hand EXCEPT ![n] = d.from]
                   /\ inbound' = [inbound EXCEPT ![n] = "write"]
              ELSE /\ inbound' = [inbound EXCEPT ![n] = "sleep"]
                   /\ UNCHANGED <<counters, in_hand>>
    /\ Release(n)
    /\ UNCHANGED <<keys, outbound, read>>

AsksMutant(n) == <<"in">> \o queue[n]
Asks(n) == Append(queue[n], "in")

(* The packet is written to the TUN device, or the millisecond is over.    *)
LoopInbound(n) ==
    /\ inbound[n] \in {"write", "sleep"}
    /\ inbound' = [inbound EXCEPT ![n] = "wait"] /\ in_hand' = [in_hand EXCEPT ![n] = None]
    /\ queue' = [queue EXCEPT ![n] = Asks(n)]
    /\ UNCHANGED <<keys, outbound, socket, counters, read>>

(* The main loop takes datagrams of the same socket: what is neither a     *)
(* binding request nor a punch message is logged and dropped.              *)
MainLoopTakes(n) ==
    /\ \E d \in socket[n] : socket' = [socket EXCEPT ![n] = @ \ {d}]
    /\ UNCHANGED <<keys, outbound, inbound, queue, in_hand, counters, read>>

(* A datagram of someone else: a binding request, a punch message.         *)
Stray(n) ==
    /\ socket' = [socket EXCEPT ![n] = @ \cup {[from |-> None, key |-> None, number |-> 0]}]
    /\ UNCHANGED <<keys, outbound, inbound, queue, in_hand, counters, read>>

Next == \E n \in Nodes : \/ \E packet \in Packets : ReadPacket(n, packet)
                         \/ SendTo(n) \/ LockTunnels(n) \/ RecvFrom(n) \/ LoopInbound(n)
                         \/ MainLoopTakes(n) \/ Stray(n)

\* Tasks are scheduled; nothing is assumed of the network or of the applications.
Fairness == \A n \in Nodes : /\ WF_vars(SendTo(n)) /\ WF_vars(LockTunnels(n))
                             /\ WF_vars(RecvFrom(n)) /\ WF_vars(LoopInbound(n))
Spec == Init /\ [][Next]_vars /\ Fairness

-----------------------------------------------------------------------------
(* Shapes.  The lock has one holder, and no task waits for it twice.       *)
TypeOK ==
    /\ Constants
    /\ keys \in Tables /\ outbound \in [Nodes -> Packets \cup {None}]
    /\ inbound \in [Nodes -> {"wait", "receive", "write", "sleep"}]
    /\ \A n \in Nodes : queue[n] \in {<<>>, <<"in">>, <<"out">>, <<"in", "out">>, <<"out", "in">>}
    /\ in_hand \in [Nodes -> Nodes \cup {None}]
    /\ \A n \in Nodes : read[n] <= MaxRead[n]

(* Nothing reaches a TUN device but packets a peer with the same key       *)
(* encrypted: what a tunnel counts as received, its other end counted as   *)
(* sent, although either may be short of what the other counted.           *)
ReceivedWereSent ==
    \A n, peer \in Nodes :
        LET in == counters[n][peer].received IN
        in > 0 => keys[n][peer] = keys[peer][n] /\ in <= counters[peer][n].sent

(* An outbound packet is sent in the end, unless the inbound task sits on  *)
(* the lock of the tunnels and no datagram comes: two nodes that only send *)
(* when spoken to wait for each other for ever.                            *)
Stalled(n) == inbound[n] = "receive" /\ socket[n] = {}
OutboundServed == \A n \in Nodes : []<>(outbound[n] = None \/ Stalled(n))
=============================================================================
