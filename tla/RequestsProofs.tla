------------------------------ MODULE RequestsProofs ------------------------------
(* What the components of RequestParts promise, proved: of each an inductive   *)
(* invariant, that the initial states satisfy it, that every step keeps it and *)
(* that the component's shapes and promises follow.  The components share no   *)
(* variable, so that each has a part of its own; RequestsInv is all of them.   *)
(* Parts: the overlay (Net), name resolution (Names), the gateway's client     *)
(* (Http), addresses (IpService), io_uring (Ring), DPDK (Nics), the relay      *)
(* (Relay), the choice of one (Relays).                                        *)
EXTENDS RequestParts, SumTheorems, SequenceTheorems

-----------------------------------------------------------------------------
(* The overlay.                                                              *)
Packet == Net!Packets
\* What the two tasks of a node do, by the queue of the lock.
QueueRight(q, out, in) ==
  \/ q = <<>>            /\ out = None /\ in \in {"write", "sleep"}
  \/ q = <<"in">>        /\ out = None /\ in \in {"wait", "receive"}
  \/ q = <<"out">>       /\ out \in Packet /\ in \in {"write", "sleep"}
  \/ q = <<"in", "out">> /\ out \in Packet /\ in \in {"wait", "receive"}
  \/ q = <<"out", "in">> /\ out \in Packet /\ in = "wait"
TasksInv ==
  /\ outbound \in [Nodes -> Packet \cup {None}] /\ inbound \in [Nodes -> {"wait", "receive", "write", "sleep"}]
  /\ queue = [n \in Nodes |-> queue[n]]
  /\ \A n \in Nodes : QueueRight(queue[n], outbound[n], inbound[n])
  /\ \A n \in Nodes : outbound[n] # None => RouteTo[outbound[n]] \in Nodes
  /\ in_hand \in [Nodes -> Nodes \cup {None}]
  /\ read \in [Nodes -> Nat] /\ \A n \in Nodes : read[n] <= MaxRead[n]
  /\ tunnel_keys \in Tables

\* A datagram of a peer was made with the key the peer has for the node.
DatagramRight(n, d) == d.from \in Nodes => d.key = tunnel_keys[d.from][n]
\* What is received, and what is under way, was sent.
From(datagrams, p) == {d \in datagrams : d.from = p}
LinkRight(n, p) ==
  /\ tunnel_counters[n][p].received + Cardinality(From(socket[n], p)) <= tunnel_counters[p][n].sent
  /\ tunnel_counters[n][p].received > 0 => tunnel_keys[n][p] = tunnel_keys[p][n]
SocketsInv ==
  /\ tunnel_counters \in [Nodes -> [Nodes -> [sent : Nat, received : Nat]]]
  /\ socket = [n \in Nodes |-> socket[n]] /\ \A n \in Nodes : IsFiniteSet(socket[n])
  /\ \A n \in Nodes : \A d \in socket[n] : DatagramRight(n, d)
  /\ \A n, p \in Nodes : LinkRight(n, p)
NetInv == TasksInv /\ SocketsInv

\* What the constants of the overlay stand for.
LEMMA NetConstants ==
  /\ None \notin Nodes /\ MaxRead \in [Nodes -> Nat] /\ None \notin Packet
  /\ \A p \in Packet : RouteTo[p] \in Nodes \cup {None}
  BY RequestsAssumption DEF Net!Constants, Packet

\* The queues there are.
Task == {"in", "out"}
\* A queue of the lock is told by its length and its members.
LEMMA QueuesByTask ==
  /\ \A q \in Seq(Task) : Len(q) = 0 => q = <<>>
  /\ \A q \in Seq(Task), a \in Task : Len(q) = 1 /\ q[1] = a => q = <<a>>
  /\ \A q \in Seq(Task) : Len(q) = 2 /\ q[1] = "in" /\ q[2] = "out" => q = <<"in", "out">>
  /\ \A q \in Seq(Task) : Len(q) = 2 /\ q[1] = "out" /\ q[2] = "in" => q = <<"out", "in">>
<1>1. \A q \in Seq(Task) : Len(q) = 0 => q = <<>>
  BY DEF Task
<1>2. \A q \in Seq(Task), a \in Task : Len(q) = 1 /\ q[1] = a => q = <<a>>
  BY DEF Task
<1>3. \A q \in Seq(Task) : Len(q) = 2 /\ q[1] = "in" /\ q[2] = "out" => q = <<"in", "out">>
  BY DEF Task
<1>4. \A q \in Seq(Task) : Len(q) = 2 /\ q[1] = "out" /\ q[2] = "in" => q = <<"out", "in">>
  BY DEF Task
<1> QED
  BY <1>1, <1>2, <1>3, <1>4

\* What is left of a queue of two.
LEMMA TailOfTwo ==
  ASSUME NEW S, NEW s \in Seq(S), Len(s) = 2 PROVE Tail(s) \in Seq(S) /\ Len(Tail(s)) = 1 /\ Tail(s)[1] = s[2]
<1>1. s # <<>>
  OBVIOUS
<1>2. /\ Tail(s) \in Seq(S) /\ Len(Tail(s)) = Len(s) - 1
      /\ \A i \in 1 .. Len(Tail(s)) : Tail(s)[i] = s[i + 1]
  BY <1>1, HeadTailProperties
<1> QED
  BY <1>2

\* What waiting for the lock and giving it up make of each queue.
LEMMA Queues ==
  /\ Append(<<>>, "in") = <<"in">> /\ Append(<<>>, "out") = <<"out">>
  /\ Append(<<"in">>, "out") = <<"in", "out">> /\ Append(<<"out">>, "in") = <<"out", "in">>
  /\ Tail(<<"in">>) = <<>> /\ Tail(<<"out">>) = <<>>
  /\ Tail(<<"in", "out">>) = <<"out">> /\ Tail(<<"out", "in">>) = <<"in">>
  /\ Head(<<"in">>) = "in" /\ Head(<<"in", "out">>) = "in"
  /\ Head(<<"out">>) = "out" /\ Head(<<"out", "in">>) = "out"
  /\ <<"in">> # <<>> /\ <<"out">> # <<>>
<1>1. Append(<<>>, "in") = <<"in">> /\ Append(<<>>, "out") = <<"out">>
  OBVIOUS
<1>2. ASSUME NEW a \in Task
      PROVE  /\ <<a>> \in Seq(Task) /\ Len(<<a>>) = 1 /\ <<a>>[1] = a /\ Head(<<a>>) = a /\ <<a>> # <<>>
             /\ \A b \in Task : /\ Append(<<a>>, b) \in Seq(Task) /\ Len(Append(<<a>>, b)) = 2
                                /\ Append(<<a>>, b)[1] = a /\ Append(<<a>>, b)[2] = b
  BY DEF Task
<1>3. Append(<<"in">>, "out") = <<"in", "out">> /\ Append(<<"out">>, "in") = <<"out", "in">>
  BY <1>2, QueuesByTask DEF Task
<1>4. ASSUME NEW s \in Seq(Task), s # <<>>
      PROVE  Tail(s) \in Seq(Task) /\ Len(Tail(s)) = Len(s) - 1 /\ \A i \in 1 .. Len(Tail(s)) : Tail(s)[i] = s[i + 1]
  BY <1>4, HeadTailProperties
<1>5. Tail(<<"in">>) = <<>> /\ Tail(<<"out">>) = <<>>
  BY <1>2, <1>4, QueuesByTask DEF Task
<1>6. /\ <<"in", "out">> \in Seq(Task) /\ Len(<<"in", "out">>) = 2
      /\ <<"in", "out">>[1] = "in" /\ <<"in", "out">>[2] = "out" /\ Head(<<"in", "out">>) = "in"
  BY DEF Task
<1>7. /\ <<"out", "in">> \in Seq(Task) /\ Len(<<"out", "in">>) = 2
      /\ <<"out", "in">>[1] = "out" /\ <<"out", "in">>[2] = "in" /\ Head(<<"out", "in">>) = "out"
  BY DEF Task
<1>8. Tail(<<"in", "out">>) = <<"out">>
  <2>1. Tail(<<"in", "out">>) \in Seq(Task) /\ Len(Tail(<<"in", "out">>)) = 1 /\ Tail(<<"in", "out">>)[1] = "out"
    BY <1>6, TailOfTwo
  <2> QED
    BY <2>1, QueuesByTask DEF Task
<1>9. Tail(<<"out", "in">>) = <<"in">>
  <2>1. Tail(<<"out", "in">>) \in Seq(Task) /\ Len(Tail(<<"out", "in">>)) = 1 /\ Tail(<<"out", "in">>)[1] = "in"
    BY <1>7, TailOfTwo
  <2> QED
    BY <2>1, QueuesByTask DEF Task
<1> QED
  BY <1>1, <1>2, <1>3, <1>5, <1>6, <1>7, <1>8, <1>9 DEF Task

\* What a peer has under way.
LEMMA FromFinite ==
  ASSUME NEW S, IsFiniteSet(S), NEW p
  PROVE  IsFiniteSet(From(S, p)) /\ Cardinality(From(S, p)) \in Nat
  BY FS_Subset, FS_CardinalityType DEF From

\* A datagram that arrives adds one at most, and to its sender's alone.
LEMMA FromAdd ==
  ASSUME NEW S, IsFiniteSet(S), NEW d, NEW p
  PROVE  /\ Cardinality(From(S \cup {d}, p)) <= Cardinality(From(S, p)) + 1
         /\ d.from # p => From(S \cup {d}, p) = From(S, p)
<1>1. IsFiniteSet(From(S, p)) /\ Cardinality(From(S, p)) \in Nat
  BY FromFinite
<1>2. From(S \cup {d}, p) = IF d.from = p THEN From(S, p) \cup {d} ELSE From(S, p)
  BY DEF From
<1>3. PICK T : T = From(S, p)
  OBVIOUS
<1>4. Cardinality(T \cup {d}) = IF d \in T THEN Cardinality(T) ELSE Cardinality(T) + 1
  BY <1>1, <1>3, FS_AddElement
<1> QED
  BY <1>1, <1>2, <1>3, <1>4

\* A datagram that is taken out is one less of its sender's.
LEMMA FromRemove ==
  ASSUME NEW S, IsFiniteSet(S), NEW d \in S, NEW p
  PROVE  Cardinality(From(S \ {d}, p)) = Cardinality(From(S, p)) - (IF d.from = p THEN 1 ELSE 0)
<1>1. IsFiniteSet(From(S, p)) /\ Cardinality(From(S, p)) \in Nat
  BY FromFinite
<1>2. From(S \ {d}, p) = IF d.from = p THEN From(S, p) \ {d} ELSE From(S, p)
  BY DEF From
<1>3. PICK T : T = From(S, p)
  OBVIOUS
<1>4. Cardinality(T \ {d}) = IF d \in T THEN Cardinality(T) - 1 ELSE Cardinality(T)
  BY <1>1, <1>3, FS_RemoveElement
<1>5. d \in T <=> d.from = p
  BY <1>3 DEF From
<1> QED
  BY <1>1, <1>2, <1>3, <1>4, <1>5

\* The initial states of the overlay satisfy the invariant.
LEMMA NetInit == Net!Init => NetInv
<1> SUFFICES ASSUME Net!Init PROVE NetInv
  OBVIOUS
<1> USE NetConstants DEF Net!Init
<1>1. TasksInv
  BY DEF TasksInv, QueueRight
<1>2. \A n, p \in Nodes : Cardinality(From(socket[n], p)) = 0
  <2>1. \A p : From({}, p) = {}
    BY DEF From
  <2> QED
    BY <2>1, FS_EmptySet
<1>3. \A n, p \in Nodes : LinkRight(n, p)
  BY <1>2 DEF LinkRight
<1>4. \A n \in Nodes : socket[n] = {}
  OBVIOUS
<1>5. SocketsInv
  BY <1>3, <1>4, FS_EmptySet DEF SocketsInv
<1> QED
  BY <1>1, <1>5 DEF NetInv

\* Every step keeps the tasks and the queues.
LEMMA TasksNext == ASSUME TasksInv, [Net!Next]_overlay_vars PROVE TasksInv'
<1> USE NetConstants
<1> DEFINE Shapes == /\ queue' = [m \in Nodes |-> queue'[m]] /\ in_hand' \in [Nodes -> Nodes \cup {None}]
                     /\ read' \in [Nodes -> Nat] /\ outbound' \in [Nodes -> Packet \cup {None}]
                     /\ inbound' \in [Nodes -> {"wait", "receive", "write", "sleep"}] /\ UNCHANGED tunnel_keys
           Others(n) == \A m \in Nodes \ {n} : /\ queue'[m] = queue[m] /\ outbound'[m] = outbound[m]
                                               /\ inbound'[m] = inbound[m] /\ read'[m] = read[m]
\* One node's queue and tasks change, rightly.
<1>1. ASSUME NEW n \in Nodes, Shapes, Others(n),
             QueueRight(queue'[n], outbound'[n], inbound'[n]), read'[n] <= MaxRead[n],
             outbound'[n] # None => RouteTo[outbound'[n]] \in Nodes
      PROVE  TasksInv'
  <2>1. \A m \in Nodes : QueueRight(queue'[m], outbound'[m], inbound'[m])
    BY <1>1 DEF TasksInv
  <2>2. \A m \in Nodes : (outbound'[m] # None => RouteTo[outbound'[m]] \in Nodes) /\ read'[m] <= MaxRead[m]
    BY <1>1 DEF TasksInv
  <2> QED
    BY <1>1, <2>1, <2>2 DEF TasksInv
<1>t. ASSUME NEW n \in Nodes
      PROVE  /\ outbound[n] \in Packet \cup {None} /\ inbound[n] \in {"wait", "receive", "write", "sleep"}
             /\ in_hand[n] \in Nodes \cup {None} /\ read[n] \in Nat /\ read[n] <= MaxRead[n] /\ MaxRead[n] \in Nat
             /\ QueueRight(queue[n], outbound[n], inbound[n])
             /\ outbound[n] # None => RouteTo[outbound[n]] \in Nodes
  BY DEF TasksInv
<1>2. ASSUME NEW n \in Nodes, NEW packet_ \in Packet, Net!ReadPacket(n, packet_) PROVE TasksInv'
  <2>1. /\ outbound[n] = None /\ read' = [read EXCEPT ![n] = read[n] + 1] /\ read[n] + 1 <= MaxRead[n]
        /\ UNCHANGED <<tunnel_keys, inbound, in_hand>> /\ read[n] + 1 \in Nat
    BY <1>2, <1>t DEF Net!ReadPacket
  <2>2. CASE RouteTo[packet_] = None
    <3>1. UNCHANGED <<outbound, queue>>
      BY <1>2, <2>2 DEF Net!ReadPacket
    <3>2. Shapes /\ Others(n) /\ read'[n] = read[n] + 1
      BY <2>1, <3>1 DEF TasksInv
    <3> QED
      BY <1>1, <1>t, <2>1, <3>1, <3>2
  <2>3. CASE RouteTo[packet_] # None
    <3>1. outbound' = [outbound EXCEPT ![n] = packet_] /\ queue' = [queue EXCEPT ![n] = Append(queue[n], "out")]
      BY <1>2, <2>3 DEF Net!ReadPacket
    <3>2. Shapes /\ Others(n) /\ read'[n] = read[n] + 1 /\ outbound'[n] = packet_ /\ queue'[n] = Append(queue[n], "out")
      BY <2>1, <3>1 DEF TasksInv
    <3>3. \/ queue[n] = <<>> /\ inbound[n] \in {"write", "sleep"}
          \/ queue[n] = <<"in">> /\ inbound[n] \in {"wait", "receive"}
      BY <1>t, <2>1 DEF QueueRight
    <3>4. queue'[n] = IF queue[n] = <<>> THEN <<"out">> ELSE <<"in", "out">>
      BY <3>2, <3>3, Queues
    <3>5. QueueRight(queue'[n], packet_, inbound[n])
      BY <3>3, <3>4, Queues DEF QueueRight
    <3>6. RouteTo[packet_] \in Nodes /\ inbound'[n] = inbound[n]
      BY <2>1, <2>3
    <3>7. /\ QueueRight(queue'[n], outbound'[n], inbound'[n]) /\ read'[n] <= MaxRead[n]
          /\ outbound'[n] # None => RouteTo[outbound'[n]] \in Nodes
      BY <2>1, <3>2, <3>5, <3>6
    <3> HIDE DEF Shapes, Others
    <3> QED
      BY <1>1, <3>2, <3>7
  <2> QED
    BY <2>2, <2>3
<1>3. ASSUME NEW n \in Nodes, Net!SendTo(n) PROVE TasksInv'
  <2>1. /\ queue[n] # <<>> /\ Head(queue[n]) = "out" /\ outbound' = [outbound EXCEPT ![n] = None]
        /\ queue' = [queue EXCEPT ![n] = Tail(queue[n])] /\ UNCHANGED <<tunnel_keys, inbound, in_hand, read>>
    BY <1>3 DEF Net!SendTo, Net!Holds, Net!Release
  <2>2. Shapes /\ Others(n) /\ outbound'[n] = None /\ queue'[n] = Tail(queue[n])
    BY <2>1 DEF TasksInv
  <2>3. QueueRight(queue'[n], None, inbound[n])
    BY <1>t, <2>1, <2>2, Queues DEF QueueRight
  <2>4. QueueRight(queue'[n], outbound'[n], inbound'[n]) /\ read'[n] <= MaxRead[n] /\ outbound'[n] = None
    BY <1>t, <2>1, <2>2, <2>3
  <2> HIDE DEF Shapes, Others
  <2> QED
    BY <1>1, <2>2, <2>4
<1>4. ASSUME NEW n \in Nodes, Net!LockTunnels(n) PROVE TasksInv'
  <2>1. /\ inbound[n] = "wait" /\ queue[n] # <<>> /\ Head(queue[n]) = "in"
        /\ inbound' = [inbound EXCEPT ![n] = "receive"]
        /\ UNCHANGED <<tunnel_keys, outbound, queue, in_hand, read>>
    BY <1>4 DEF Net!LockTunnels, Net!Holds
  <2>2. Shapes /\ Others(n) /\ inbound'[n] = "receive"
    BY <2>1 DEF TasksInv
  <2>3. QueueRight(queue[n], outbound[n], "receive")
    BY <1>t, <2>1, Queues DEF QueueRight
  <2> QED
    BY <1>1, <1>t, <2>1, <2>2, <2>3
<1>5. ASSUME NEW n \in Nodes, Net!RecvFrom(n) PROVE TasksInv'
  <2>1. /\ inbound[n] = "receive" /\ queue' = [queue EXCEPT ![n] = Tail(queue[n])]
        /\ UNCHANGED <<tunnel_keys, outbound, read>>
    BY <1>5 DEF Net!RecvFrom, Net!Release
  <2>2. PICK in \in {"write", "sleep"} :
             inbound' = [inbound EXCEPT ![n] = in] /\ in_hand' \in [Nodes -> Nodes \cup {None}]
    <3>1. PICK d \in socket[n] :
             IF Net!Authentic(n, d)
             THEN in_hand' = [in_hand EXCEPT ![n] = d.from] /\ inbound' = [inbound EXCEPT ![n] = "write"]
             ELSE inbound' = [inbound EXCEPT ![n] = "sleep"] /\ in_hand' = in_hand
      BY <1>5 DEF Net!RecvFrom
    <3>2. Net!Authentic(n, d) => d.from \in Nodes
      BY DEF Net!Authentic
    <3> QED
      BY <3>1, <3>2 DEF TasksInv
  <2>3. Shapes /\ Others(n) /\ inbound'[n] = in /\ queue'[n] = Tail(queue[n])
    BY <2>1, <2>2 DEF TasksInv
  <2>4. QueueRight(queue'[n], outbound[n], in)
    BY <1>t, <2>1, <2>3, Queues DEF QueueRight
  <2>5. /\ QueueRight(queue'[n], outbound'[n], inbound'[n]) /\ read'[n] <= MaxRead[n]
        /\ outbound'[n] # None => RouteTo[outbound'[n]] \in Nodes
    BY <1>t, <2>1, <2>3, <2>4
  <2> HIDE DEF Shapes, Others
  <2> QED
    BY <1>1, <2>3, <2>5
<1>6. ASSUME NEW n \in Nodes, Net!LoopInbound(n) PROVE TasksInv'
  <2>1. /\ inbound[n] \in {"write", "sleep"} /\ inbound' = [inbound EXCEPT ![n] = "wait"]
        /\ in_hand' = [in_hand EXCEPT ![n] = None] /\ queue' = [queue EXCEPT ![n] = Append(queue[n], "in")]
        /\ UNCHANGED <<tunnel_keys, outbound, read>>
    BY <1>6 DEF Net!LoopInbound, Net!Asks
  <2>2. Shapes /\ Others(n) /\ inbound'[n] = "wait" /\ queue'[n] = Append(queue[n], "in")
    BY <2>1 DEF TasksInv
  <2>3. QueueRight(queue'[n], outbound[n], "wait")
    BY <1>t, <2>1, <2>2, Queues DEF QueueRight
  <2>4. /\ QueueRight(queue'[n], outbound'[n], inbound'[n]) /\ read'[n] <= MaxRead[n]
        /\ outbound'[n] # None => RouteTo[outbound'[n]] \in Nodes
    BY <1>t, <2>1, <2>2, <2>3
  <2> HIDE DEF Shapes, Others
  <2> QED
    BY <1>1, <2>2, <2>4
<1>7. ASSUME UNCHANGED <<tunnel_keys, outbound, inbound, queue, in_hand, read>> PROVE TasksInv'
  BY <1>7 DEF TasksInv
<1>8. ASSUME NEW n \in Nodes, Net!MainLoopTakes(n) \/ Net!Stray(n) PROVE TasksInv'
  BY <1>7, <1>8 DEF Net!MainLoopTakes, Net!Stray
<1>9. CASE UNCHANGED overlay_vars
  BY <1>7, <1>9 DEF overlay_vars
<1> QED
  BY <1>2, <1>3, <1>4, <1>5, <1>6, <1>8, <1>9 DEF Net!Next, Packet

\* One counter goes up by one.
LEMMA EntryUpdate ==
  ASSUME NEW A, NEW B, NEW V, NEW C \in [A -> [B -> V]], NEW n \in A, NEW p \in B, NEW x \in V
  PROVE  /\ [C EXCEPT ![n][p] = x] \in [A -> [B -> V]]
         /\ \A m \in A, q \in B : [C EXCEPT ![n][p] = x][m][q] = IF m = n /\ q = p THEN x ELSE C[m][q]
  OBVIOUS

\* send_to counts one packet sent on one tunnel.
LEMMA SentUp ==
  ASSUME NEW C \in [Nodes -> [Nodes -> [sent : Nat, received : Nat]]], NEW n \in Nodes, NEW p \in Nodes,
         NEW D, D = [C EXCEPT ![n][p].sent = @ + 1]
  PROVE  /\ D \in [Nodes -> [Nodes -> [sent : Nat, received : Nat]]]
         /\ \A m, q \in Nodes : /\ D[m][q].received = C[m][q].received
                                /\ D[m][q].sent = C[m][q].sent + IF m = n /\ q = p THEN 1 ELSE 0
<1>1. PICK s \in Nat, r \in Nat : C[n][p] = [sent |-> s, received |-> r]
  <2>1. C[n][p] \in [sent : Nat, received : Nat]
    OBVIOUS
  <2> QED
    BY <2>1
<1>2. ASSUME NEW m \in Nodes, NEW q \in Nodes PROVE C[m][q].sent \in Nat /\ C[m][q].received \in Nat
  <2>1. C[m][q] \in [sent : Nat, received : Nat]
    OBVIOUS
  <2> QED
    BY <2>1
<1>3. [sent |-> s + 1, received |-> r] \in [sent : Nat, received : Nat]
  OBVIOUS
<1>4. PICK x \in [sent : Nat, received : Nat] : x = [sent |-> s + 1, received |-> r]
  BY <1>3, Zenon
<1>5. x = [C[n][p] EXCEPT !.sent = C[n][p].sent + 1]
  BY <1>1, <1>4
<1>6. /\ D \in [Nodes -> [Nodes -> [sent : Nat, received : Nat]]]
      /\ \A m, q \in Nodes : D[m][q] = IF m = n /\ q = p THEN x ELSE C[m][q]
  BY <1>5, EntryUpdate
<1> QED
  BY <1>1, <1>2, <1>4, <1>6

\* A packet that opens is counted on one tunnel.
LEMMA ReceivedUp ==
  ASSUME NEW C \in [Nodes -> [Nodes -> [sent : Nat, received : Nat]]], NEW n \in Nodes, NEW p \in Nodes,
         NEW D, D = [C EXCEPT ![n][p].received = @ + 1]
  PROVE  /\ D \in [Nodes -> [Nodes -> [sent : Nat, received : Nat]]]
         /\ \A m, q \in Nodes : /\ D[m][q].sent = C[m][q].sent
                                /\ D[m][q].received = C[m][q].received + IF m = n /\ q = p THEN 1 ELSE 0
<1>1. PICK s \in Nat, r \in Nat : C[n][p] = [sent |-> s, received |-> r]
  <2>1. C[n][p] \in [sent : Nat, received : Nat]
    OBVIOUS
  <2> QED
    BY <2>1
<1>2. ASSUME NEW m \in Nodes, NEW q \in Nodes PROVE C[m][q].sent \in Nat /\ C[m][q].received \in Nat
  <2>1. C[m][q] \in [sent : Nat, received : Nat]
    OBVIOUS
  <2> QED
    BY <2>1
<1>3. [sent |-> s, received |-> r + 1] \in [sent : Nat, received : Nat]
  OBVIOUS
<1>4. PICK x \in [sent : Nat, received : Nat] : x = [sent |-> s, received |-> r + 1]
  BY <1>3, Zenon
<1>5. x = [C[n][p] EXCEPT !.received = C[n][p].received + 1]
  BY <1>1, <1>4
<1>6. /\ D \in [Nodes -> [Nodes -> [sent : Nat, received : Nat]]]
      /\ \A m, q \in Nodes : D[m][q] = IF m = n /\ q = p THEN x ELSE C[m][q]
  BY <1>5, EntryUpdate
<1> QED
  BY <1>1, <1>2, <1>4, <1>6

\* Every step keeps what is received and under way within what was sent.
LEMMA SocketsNext == ASSUME NetInv, [Net!Next]_overlay_vars PROVE SocketsInv'
<1> USE NetConstants
<1>t. ASSUME NEW n \in Nodes, NEW p \in Nodes
      PROVE  /\ tunnel_counters[n][p].sent \in Nat /\ tunnel_counters[n][p].received \in Nat
             /\ IsFiniteSet(socket[n]) /\ Cardinality(From(socket[n], p)) \in Nat /\ LinkRight(n, p)
  BY FromFinite DEF NetInv, SocketsInv
\* The datagrams of one node change; what is received or under way stays in the bounds.
<1>1. ASSUME NEW n \in Nodes, NEW S, IsFiniteSet(S), \A d \in S : DatagramRight(n, d),
             \A p \in Nodes : Cardinality(From(S, p)) <= Cardinality(From(socket[n], p)),
             socket' = [socket EXCEPT ![n] = S], UNCHANGED <<tunnel_keys, tunnel_counters>>
      PROVE  SocketsInv'
  <2>1. \A m \in Nodes : socket'[m] = IF m = n THEN S ELSE socket[m]
    BY <1>1 DEF NetInv, SocketsInv
  <2>2. socket' = [m \in Nodes |-> socket'[m]]
    BY <1>1 DEF NetInv, SocketsInv
  <2>3. \A m \in Nodes : IsFiniteSet(socket'[m])
    BY <1>1, <2>1 DEF NetInv, SocketsInv
  <2>4. \A m \in Nodes : \A d \in socket'[m] : DatagramRight(m, d)'
    BY <1>1, <2>1 DEF NetInv, SocketsInv, DatagramRight
  <2>5. ASSUME NEW m \in Nodes, NEW p \in Nodes PROVE LinkRight(m, p)'
    <3>1. Cardinality(From(socket'[m], p)) \in Nat
      BY <2>3, FromFinite
    <3>2. Cardinality(From(socket'[m], p)) <= Cardinality(From(socket[m], p))
      BY <1>1, <1>t, <2>1
    <3> QED
      BY <1>1, <1>t, <3>1, <3>2 DEF LinkRight
  <2> QED
    BY <1>1, <2>2, <2>3, <2>4, <2>5 DEF NetInv, SocketsInv
<1>2. ASSUME NEW n \in Nodes, Net!SendTo(n) PROVE SocketsInv'
  <2>1. PICK peer \in Nodes : peer = RouteTo[outbound[n]]
    <3>1. QueueRight(queue[n], outbound[n], inbound[n]) /\ queue[n] # <<>> /\ Head(queue[n]) = "out"
      BY <1>2 DEF NetInv, TasksInv, Net!SendTo, Net!Holds
    <3>2. outbound[n] # None
      BY <3>1, Queues DEF QueueRight
    <3> QED
      BY <3>2 DEF NetInv, TasksInv
  <2>3. CASE ~Net!Tunnel(n, peer)
    BY <1>2, <2>1, <2>3 DEF Net!SendTo, NetInv, SocketsInv, DatagramRight, LinkRight
  <2>4. CASE Net!Tunnel(n, peer)
    <3>1. /\ tunnel_counters' \in [Nodes -> [Nodes -> [sent : Nat, received : Nat]]]
          /\ \A m, p \in Nodes : /\ tunnel_counters'[m][p].received = tunnel_counters[m][p].received
                                 /\ tunnel_counters'[m][p].sent = tunnel_counters[m][p].sent
                                       + IF m = n /\ p = peer THEN 1 ELSE 0
      <4>1. tunnel_counters \in [Nodes -> [Nodes -> [sent : Nat, received : Nat]]]
        BY DEF NetInv, SocketsInv
      <4>2. tunnel_counters' = [tunnel_counters EXCEPT ![n][peer].sent = @ + 1]
        BY <1>2, <2>1, <2>4 DEF Net!SendTo
      <4> QED
        <5>1. tunnel_counters' \in [Nodes -> [Nodes -> [sent : Nat, received : Nat]]]
          BY <4>1, <4>2, SentUp
        <5>2. ASSUME NEW m \in Nodes, NEW p \in Nodes
              PROVE  tunnel_counters'[m][p].received = tunnel_counters[m][p].received
          BY <4>1, <4>2, SentUp
        <5>3. ASSUME NEW m \in Nodes, NEW p \in Nodes
              PROVE  tunnel_counters'[m][p].sent = tunnel_counters[m][p].sent + IF m = n /\ p = peer THEN 1 ELSE 0
          BY <4>1, <4>2, SentUp
        <5> QED
          BY <5>1, <5>2, <5>3
    <3>2. PICK d : d = [from |-> n, key |-> tunnel_keys[n][peer], number |-> tunnel_counters[n][peer].sent]
      OBVIOUS
    <3>3. /\ tunnel_counters' = [tunnel_counters EXCEPT ![n][peer].sent = @ + 1] /\ UNCHANGED tunnel_keys
          /\ \E sent \in {{}, {d}} : socket' = [socket EXCEPT ![peer] = @ \cup sent]
      BY <1>2, <2>1, <2>4, <3>2 DEF Net!SendTo
    <3>4. PICK S \in {socket[peer], socket[peer] \cup {d}} : socket' = [socket EXCEPT ![peer] = S]
      <4>1. socket[peer] \cup {} = socket[peer]
        OBVIOUS
      <4> QED
        BY <3>3, <4>1
    <3>5. \A m \in Nodes : socket'[m] = IF m = peer THEN S ELSE socket[m]
      BY <3>4 DEF NetInv, SocketsInv
    <3>6. socket' = [m \in Nodes |-> socket'[m]]
      BY <3>4 DEF NetInv, SocketsInv
    <3>7. IsFiniteSet(S)
      <4>1. IsFiniteSet(socket[peer])
        BY <1>t
      <4>2. IsFiniteSet(socket[peer] \cup {d})
        BY <4>1, FS_AddElement
      <4> QED
        BY <3>4, <4>1, <4>2
    <3>8. \A m \in Nodes : IsFiniteSet(socket'[m])
      BY <1>t, <3>5, <3>7
    <3>9. \A m \in Nodes : \A e \in socket'[m] : DatagramRight(m, e)'
      BY <3>2, <3>3, <3>4, <3>5 DEF NetInv, SocketsInv, DatagramRight
    <3>10. ASSUME NEW m \in Nodes, NEW p \in Nodes PROVE LinkRight(m, p)'
      <4>1. /\ Cardinality(From(socket'[m], p)) \in Nat
            /\ Cardinality(From(socket'[m], p)) <= Cardinality(From(socket[m], p)) + IF m = peer /\ p = n THEN 1 ELSE 0
        <5>1. CASE m # peer \/ S = socket[peer]
          BY <1>t, <3>5, <5>1
        <5>2. CASE m = peer /\ S = socket[peer] \cup {d}
          <6>1. d.from = n /\ IsFiniteSet(socket[m]) /\ socket'[m] = socket[m] \cup {d} /\ IsFiniteSet(socket'[m])
            BY <1>t, <3>2, <3>5, <3>8, <5>2
          <6> QED
            BY <1>t, <5>2, <6>1, FromAdd, FromFinite
        <5> QED
          BY <3>4, <5>1, <5>2
      <4> QED
        BY <1>t, <3>3, <3>1, <4>1 DEF LinkRight
    <3> QED
      BY <3>1, <3>6, <3>8, <3>9, <3>10 DEF SocketsInv
  <2> QED
    BY <2>3, <2>4
<1>3. ASSUME NEW n \in Nodes, NEW d \in socket[n]
      PROVE  /\ IsFiniteSet(socket[n] \ {d}) /\ \A e \in socket[n] \ {d} : DatagramRight(n, e)
             /\ \A p \in Nodes : Cardinality(From(socket[n] \ {d}, p)) <= Cardinality(From(socket[n], p))
  <2>1. IsFiniteSet(socket[n]) /\ \A e \in socket[n] : DatagramRight(n, e)
    BY DEF NetInv, SocketsInv
  <2>2. ASSUME NEW p \in Nodes PROVE Cardinality(From(socket[n] \ {d}, p)) <= Cardinality(From(socket[n], p))
    BY <2>1, FromRemove, FromFinite
  <2> QED
    BY <2>1, <2>2, FS_RemoveElement
<1>4. ASSUME NEW n \in Nodes, Net!MainLoopTakes(n) PROVE SocketsInv'
  <2>1. PICK d \in socket[n] : socket' = [socket EXCEPT ![n] = socket[n] \ {d}]
    BY <1>4 DEF Net!MainLoopTakes
  <2>2. UNCHANGED <<tunnel_keys, tunnel_counters>>
    BY <1>4 DEF Net!MainLoopTakes
  <2>3. PICK S : S = socket[n] \ {d}
    OBVIOUS
  <2>4. /\ IsFiniteSet(S) /\ \A e \in S : DatagramRight(n, e)
        /\ \A p \in Nodes : Cardinality(From(S, p)) <= Cardinality(From(socket[n], p))
    BY <1>3, <2>3
  <2>5. socket' = [socket EXCEPT ![n] = S]
    BY <2>1, <2>3
  <2> QED
    BY <1>1, <2>2, <2>4, <2>5
<1>5. ASSUME NEW n \in Nodes, Net!RecvFrom(n) PROVE SocketsInv'
  <2>1. PICK d \in socket[n] :
            /\ socket' = [socket EXCEPT ![n] = socket[n] \ {d}] /\ UNCHANGED tunnel_keys
            /\ IF Net!Authentic(n, d)
               THEN tunnel_counters' = [tunnel_counters EXCEPT ![n][d.from].received = @ + 1]
               ELSE tunnel_counters' = tunnel_counters
    BY <1>5 DEF Net!RecvFrom
  <2>2. CASE ~Net!Authentic(n, d)
    <3>1. PICK S : S = socket[n] \ {d}
      OBVIOUS
    <3>2. /\ IsFiniteSet(S) /\ \A e \in S : DatagramRight(n, e)
          /\ \A p \in Nodes : Cardinality(From(S, p)) <= Cardinality(From(socket[n], p))
      BY <1>3, <3>1
    <3>3. socket' = [socket EXCEPT ![n] = S] /\ UNCHANGED <<tunnel_keys, tunnel_counters>>
      BY <2>1, <2>2, <3>1
    <3> QED
      BY <1>1, <3>2, <3>3
  <2>3. CASE Net!Authentic(n, d)
    <3>1. PICK peer \in Nodes : d.from = peer /\ tunnel_keys[n][peer] = tunnel_keys[peer][n]
      BY <2>3 DEF Net!Authentic, NetInv, SocketsInv, DatagramRight
    <3>2. /\ tunnel_counters' \in [Nodes -> [Nodes -> [sent : Nat, received : Nat]]]
          /\ \A m, p \in Nodes : /\ tunnel_counters'[m][p].sent = tunnel_counters[m][p].sent
                                 /\ tunnel_counters'[m][p].received = tunnel_counters[m][p].received
                                       + IF m = n /\ p = peer THEN 1 ELSE 0
      <4>1. tunnel_counters' = [tunnel_counters EXCEPT ![n][peer].received = @ + 1]
        BY <2>1, <2>3, <3>1
      <4>2. tunnel_counters \in [Nodes -> [Nodes -> [sent : Nat, received : Nat]]]
        BY DEF NetInv, SocketsInv
      <4> QED
        BY <4>1, <4>2, ReceivedUp
    <3>3. \A m \in Nodes : socket'[m] = IF m = n THEN socket[n] \ {d} ELSE socket[m]
      BY <2>1 DEF NetInv, SocketsInv
    <3>4. socket' = [m \in Nodes |-> socket'[m]]
      BY <2>1 DEF NetInv, SocketsInv
    <3>5. \A m \in Nodes : IsFiniteSet(socket'[m])
      <4>1. IsFiniteSet(socket[n] \ {d}) /\ \A m \in Nodes : IsFiniteSet(socket[m])
        BY <1>3, <1>t
      <4> QED
        BY <3>3, <4>1
    <3>6. \A m \in Nodes : \A e \in socket'[m] : DatagramRight(m, e)'
      BY <2>1, <3>3 DEF NetInv, SocketsInv, DatagramRight
    <3>7. ASSUME NEW m \in Nodes, NEW p \in Nodes PROVE LinkRight(m, p)'
      <4>1. Cardinality(From(socket'[m], p)) = Cardinality(From(socket[m], p)) - IF m = n /\ p = peer THEN 1 ELSE 0
        <5>1. CASE m # n
          BY <1>t, <3>3, <5>1
        <5>2. CASE m = n
          BY <1>t, <3>1, <3>3, <5>2, FromRemove
        <5> QED
          BY <5>1, <5>2
      <4> QED
        BY <1>t, <2>1, <3>1, <3>2, <4>1 DEF LinkRight
    <3> QED
      BY <3>2, <3>4, <3>5, <3>6, <3>7 DEF SocketsInv
  <2> QED
    BY <2>2, <2>3
<1>6. ASSUME NEW n \in Nodes, Net!Stray(n) PROVE SocketsInv'
  <2>1. PICK d : d = [from |-> None, key |-> None, number |-> 0]
    OBVIOUS
  <2>2. d.from = None /\ socket' = [socket EXCEPT ![n] = socket[n] \cup {d}] /\ UNCHANGED <<tunnel_keys, tunnel_counters>>
    BY <1>6, <2>1 DEF Net!Stray
  <2>3. IsFiniteSet(socket[n] \cup {d}) /\ \A e \in socket[n] \cup {d} : DatagramRight(n, e)
    BY <1>t, <2>2, FS_AddElement DEF NetInv, SocketsInv, DatagramRight
  <2>4. \A p \in Nodes : Cardinality(From(socket[n] \cup {d}, p)) <= Cardinality(From(socket[n], p))
    BY <1>t, <2>2, FromAdd
  <2> QED
    BY <1>1, <2>2, <2>3, <2>4
<1>7. ASSUME UNCHANGED <<tunnel_keys, socket, tunnel_counters>> PROVE SocketsInv'
  BY <1>7 DEF NetInv, SocketsInv, DatagramRight, LinkRight
<1>8. ASSUME NEW n \in Nodes, \/ \E packet_ \in Packet : Net!ReadPacket(n, packet_)
                              \/ Net!LockTunnels(n) \/ Net!LoopInbound(n)
      PROVE  SocketsInv'
  BY <1>7, <1>8 DEF Net!ReadPacket, Net!LockTunnels, Net!LoopInbound
<1>9. CASE UNCHANGED overlay_vars
  BY <1>7, <1>9 DEF overlay_vars
<1> QED
  BY <1>2, <1>4, <1>5, <1>6, <1>8, <1>9 DEF Net!Next, Packet

\* Every step of the overlay keeps the invariant.
LEMMA NetNext == ASSUME NetInv, [Net!Next]_overlay_vars PROVE NetInv'
  BY TasksNext, SocketsNext DEF NetInv

\* What follows from the invariant of the overlay.
LEMMA NetRight == ASSUME NetInv PROVE Net!TypeOK /\ Net!ReceivedWereSent
<1>1. Net!TypeOK
  BY RequestsAssumption DEF NetInv, TasksInv, QueueRight, Net!TypeOK, Packet
<1>2. ASSUME NEW n \in Nodes, NEW p \in Nodes, tunnel_counters[n][p].received > 0
      PROVE  /\ tunnel_keys[n][p] = tunnel_keys[p][n]
             /\ tunnel_counters[n][p].received <= tunnel_counters[p][n].sent
  <2>1. Cardinality(From(socket[n], p)) \in Nat
    BY FromFinite DEF NetInv, SocketsInv
  <2>2. tunnel_counters[n][p].received \in Nat /\ tunnel_counters[p][n].sent \in Nat
    BY DEF NetInv, SocketsInv
  <2> QED
    BY <1>2, <2>1, <2>2 DEF NetInv, SocketsInv, LinkRight
<1> QED
  BY <1>1, <1>2 DEF Net!ReceivedWereSent

-----------------------------------------------------------------------------
(* Name resolution.                                                          *)
ResolverStates == {"records", "upstream", "asking", "caching"}
\* What a resolver knows: mesh names are looked up in the records alone, and an
\* answer it is about to write is what the record says, unless that changed.
ResolverRight(x) ==
  /\ x = [name |-> x.name, at |-> x.at, ip |-> x.ip, left |-> x.left]
  /\ x.name \in Names!Names /\ x.ip \in NameIps \cup {NoNameIp} /\ x.at \in ResolverStates
  /\ x.at \in {"upstream", "asking"} => x.name \notin MeshNames
  /\ x.at = "caching" => x.ip # NoNameIp
AnswerCurrent(x) == x.at = "caching" /\ x.name \in MeshNames \ changed
                        => x.name \in DOMAIN records /\ records[x.name] = x.ip
NamesInv ==
  /\ DOMAIN records \subseteq MeshNames /\ records \in [DOMAIN records -> NameIps]
  /\ DOMAIN name_cache \subseteq Names!Names /\ name_cache \in [DOMAIN name_cache -> NameIps]
  /\ upstream \in ServerLists /\ writing \subseteq ServerLists
  /\ dns_calls = [c \in DOMAIN dns_calls |-> dns_calls[c]]
  /\ \A c \in DOMAIN dns_calls : ResolverRight(dns_calls[c])
  /\ \A c \in DOMAIN dns_calls : AnswerCurrent(dns_calls[c])
  /\ Names!CacheCurrent

\* What the constants of name resolution stand for.
LEMMA NamesConstants ==
  /\ NoNameIp \notin NameIps
  /\ \A r \in Responses : Names!Parsed(r) \in NameIps \cup {NoNameIp}
<1> USE RequestsAssumption DEF Names!Constants
<1>1. ASSUME NEW r \in Responses, Names!ARecords(r.answers) # {} PROVE r.answers[Names!FirstA(r.answers)].ip \in NameIps
  <2>1. Names!ARecords(r.answers) \subseteq Nat
    BY DEF Names!ARecords
  <2>2. PICK i \in Names!ARecords(r.answers) : \A j \in Names!ARecords(r.answers) : i <= j
    BY <1>1, <2>1, LeastNat
  <2>3. Names!FirstA(r.answers) \in Names!ARecords(r.answers)
    BY <2>2 DEF Names!FirstA
  <2> QED
    BY <2>3 DEF Names!ARecords
<1> QED
  BY <1>1 DEF Names!Parsed

\* The initial states of name resolution satisfy the invariant.
LEMMA NamesInit == Names!Init => NamesInv
  BY DEF Names!Init, NamesInv, Names!CacheCurrent

\* Every step of name resolution keeps the invariant.
LEMMA NamesNext == ASSUME NamesInv, [Names!Next]_dns_vars PROVE NamesInv'
<1> USE NamesConstants
<1>2. ASSUME NEW name \in MeshNames, NEW ip \in NameIps, Names!Register(name, ip) PROVE NamesInv'
  <2>1. /\ DOMAIN records' = DOMAIN records \cup {name}
        /\ records' \in [DOMAIN records' -> NameIps]
        /\ \A n \in DOMAIN records : n # name => records'[n] = records[n]
        /\ changed' = changed \cup ({name} \cap Names!Answered) /\ UNCHANGED <<name_cache, upstream, writing, dns_calls>>
    BY <1>2 DEF Names!Register, Names!Put, NamesInv
  <2>2. \A c \in DOMAIN dns_calls : AnswerCurrent(dns_calls[c])'
    BY <2>1 DEF NamesInv, AnswerCurrent, Names!Answered, Names!At
  <2>3. Names!CacheCurrent'
    BY <2>1 DEF NamesInv, Names!CacheCurrent, Names!Answered
  <2> QED
    BY <2>1, <2>2, <2>3 DEF NamesInv
<1>3. ASSUME NEW name \in MeshNames, Names!Unregister(name) PROVE NamesInv'
  <2>1. /\ DOMAIN records' = DOMAIN records \ {name}
        /\ records' \in [DOMAIN records' -> NameIps]
        /\ \A n \in DOMAIN records : n # name => records'[n] = records[n]
        /\ changed' = changed \cup ({name} \cap Names!Answered) /\ UNCHANGED <<name_cache, upstream, writing, dns_calls>>
    BY <1>3 DEF Names!Unregister, Names!Drop, NamesInv
  <2>2. \A c \in DOMAIN dns_calls : AnswerCurrent(dns_calls[c])'
    BY <2>1 DEF NamesInv, AnswerCurrent, Names!Answered, Names!At
  <2>3. Names!CacheCurrent'
    BY <2>1 DEF NamesInv, Names!CacheCurrent, Names!Answered
  <2> QED
    BY <2>1, <2>2, <2>3 DEF NamesInv
<1>4. CASE Names!ClearCache
  <2>1. \A c \in DOMAIN dns_calls : AnswerCurrent(dns_calls[c])'
    BY <1>4 DEF NamesInv, AnswerCurrent, Names!At, Names!ClearCache
  <2> QED
    BY <1>4, <2>1 DEF NamesInv, Names!ClearCache, Names!CacheCurrent
<1>5. ASSUME NEW name \in Names!Names, Names!EntryExpires(name) PROVE NamesInv'
  <2>1. /\ DOMAIN name_cache' = DOMAIN name_cache \ {name}
        /\ name_cache' \in [DOMAIN name_cache' -> NameIps]
        /\ \A n \in DOMAIN name_cache' : name_cache'[n] = name_cache[n]
        /\ UNCHANGED <<records, upstream, writing, dns_calls>>
    BY <1>5 DEF Names!EntryExpires, Names!Drop, NamesInv
  <2>2. \A c \in DOMAIN dns_calls : AnswerCurrent(dns_calls[c])'
    BY <1>5 DEF NamesInv, AnswerCurrent, Names!At, Names!EntryExpires
  <2>3. Names!CacheCurrent'
    BY <1>5, <2>1 DEF NamesInv, Names!CacheCurrent, Names!EntryExpires
  <2> QED
    BY <2>1, <2>2, <2>3 DEF NamesInv
\* One resolver goes on, or ends.
<1>6. ASSUME NEW calls, dns_calls' = calls, calls = [c \in DOMAIN calls |-> calls[c]],
             \A c \in DOMAIN calls : ResolverRight(calls[c]) /\ AnswerCurrent(calls[c]),
             UNCHANGED <<records, name_cache, upstream, writing, changed>>
      PROVE  NamesInv'
  BY <1>6 DEF NamesInv, AnswerCurrent, Names!CacheCurrent
<1>7. ASSUME NEW c, NEW x, ResolverRight(x), AnswerCurrent(x), dns_calls' = Names!Put(dns_calls, c, x),
             UNCHANGED <<records, name_cache, upstream, writing, changed>>
      PROVE  NamesInv'
  <2>1. PICK calls : calls = Names!Put(dns_calls, c, x)
    OBVIOUS
  <2>2. /\ calls = [d \in DOMAIN calls |-> calls[d]]
        /\ \A d \in DOMAIN calls : calls[d] = x \/ (d \in DOMAIN dns_calls /\ calls[d] = dns_calls[d])
    BY <2>1 DEF Names!Put
  <2>3. \A d \in DOMAIN calls : ResolverRight(calls[d]) /\ AnswerCurrent(calls[d])
    BY <1>7, <2>2 DEF NamesInv
  <2> QED
    BY <1>6, <1>7, <2>1, <2>2, <2>3
<1>8. ASSUME NEW c, dns_calls' = Names!Drop(dns_calls, c),
             UNCHANGED <<records, name_cache, upstream, writing, changed>>
      PROVE  NamesInv'
  BY <1>6, <1>8 DEF Names!Drop, NamesInv
<1>9. ASSUME NEW c \in DOMAIN dns_calls, NEW x PROVE [dns_calls EXCEPT ![c] = x] = Names!Put(dns_calls, c, x)
  BY DEF Names!Put, NamesInv
<1>10. ASSUME NEW c \in Resolvers, NEW name \in Names!Names, Names!Resolve(c, name) PROVE NamesInv'
  <2>1. PICK at \in {"records", "upstream"} : at = IF name \in MeshNames THEN "records" ELSE "upstream"
    OBVIOUS
  <2>2. PICK x : x = [name |-> name, at |-> at, ip |-> NoNameIp, left |-> <<>>]
    OBVIOUS
  <2>3. dns_calls' = Names!Put(dns_calls, c, x) /\ UNCHANGED <<records, name_cache, upstream, writing, changed>>
    BY <1>10, <2>1, <2>2 DEF Names!Resolve
  <2>4. ResolverRight(x) /\ AnswerCurrent(x)
    BY <2>1, <2>2 DEF ResolverRight, AnswerCurrent, ResolverStates
  <2> QED
    BY <1>7, <2>3, <2>4
<1>11. ASSUME NEW c \in Resolvers, Names!Authoritative(c) PROVE NamesInv'
  <2>1. /\ c \in DOMAIN dns_calls /\ UNCHANGED <<records, name_cache, upstream, writing, changed>>
        /\ ResolverRight(dns_calls[c])
    BY <1>11 DEF Names!Authoritative, Names!At, NamesInv
  <2>2. PICK y : y = dns_calls[c]
    OBVIOUS
  <2>3. CASE y.name \in DOMAIN records
    <3>1. PICK x : x = [y EXCEPT !.at = "caching", !.ip = records[y.name]]
      OBVIOUS
    <3>2. dns_calls' = Names!Put(dns_calls, c, x)
      BY <1>9, <1>11, <2>1, <2>2, <2>3, <3>1 DEF Names!Authoritative
    <3>3. records[y.name] \in NameIps
      BY <2>3 DEF NamesInv
    <3>4. x = [name |-> y.name, at |-> "caching", ip |-> records[y.name], left |-> y.left]
      BY <2>1, <2>2, <3>1 DEF ResolverRight
    <3>5. ResolverRight(x) /\ AnswerCurrent(x)
      BY <2>1, <2>2, <2>3, <3>3, <3>4 DEF ResolverRight, AnswerCurrent, ResolverStates
    <3> QED
      BY <1>7, <2>1, <3>2, <3>5
  <2>4. CASE y.name \notin DOMAIN records
    BY <1>8, <1>11, <2>1, <2>2, <2>4 DEF Names!Authoritative
  <2> QED
    BY <2>3, <2>4
<1>12. ASSUME NEW c \in Resolvers, Names!Forward(c) PROVE NamesInv'
  <2>1. /\ c \in DOMAIN dns_calls /\ UNCHANGED <<records, name_cache, upstream, writing, changed>>
        /\ ResolverRight(dns_calls[c]) /\ dns_calls[c].at = "upstream"
    BY <1>12 DEF Names!Forward, Names!At, NamesInv
  <2>2. PICK y : y = dns_calls[c]
    OBVIOUS
  <2>3. PICK x : x = [y EXCEPT !.at = "asking", !.left = upstream]
    OBVIOUS
  <2>4. dns_calls' = Names!Put(dns_calls, c, x)
    BY <1>9, <1>12, <2>1, <2>2, <2>3 DEF Names!Forward
  <2>5. x = [name |-> y.name, at |-> "asking", ip |-> y.ip, left |-> upstream]
    BY <2>1, <2>2, <2>3 DEF ResolverRight
  <2>6. ResolverRight(x) /\ AnswerCurrent(x)
    BY <2>1, <2>2, <2>5 DEF ResolverRight, AnswerCurrent, ResolverStates
  <2> QED
    BY <1>7, <2>1, <2>4, <2>6
<1>13. ASSUME NEW c \in Resolvers, Names!DnsQuery(c) PROVE NamesInv'
  <2>1. /\ c \in DOMAIN dns_calls /\ UNCHANGED <<records, name_cache, upstream, writing, changed>>
        /\ ResolverRight(dns_calls[c]) /\ dns_calls[c].at = "asking"
    BY <1>13 DEF Names!DnsQuery, Names!At, NamesInv
  <2>2. PICK y : y = dns_calls[c]
    OBVIOUS
  <2>3. CASE y.left = <<>>
    BY <1>8, <1>13, <2>1, <2>2, <2>3 DEF Names!DnsQuery
  <2>4. CASE y.left # <<>>
    <3>1. PICK ip \in {NoNameIp} \cup {Names!Parsed(r) : r \in Responses} :
             dns_calls' = IF ip = NoNameIp THEN [dns_calls EXCEPT ![c].left = Tail(@)]
                          ELSE [dns_calls EXCEPT ![c] = [@ EXCEPT !.at = "caching", !.ip = ip, !.left = <<>>]]
      BY <1>13, <2>2, <2>4 DEF Names!DnsQuery
    <3>2. ip \in NameIps \cup {NoNameIp}
      BY NamesConstants
    <3>3. CASE ip = NoNameIp
      <4>1. PICK x : x = [y EXCEPT !.left = Tail(y.left)]
        OBVIOUS
      <4>2. dns_calls' = Names!Put(dns_calls, c, x)
        BY <1>9, <2>1, <2>2, <3>1, <3>3, <4>1
      <4>3. x = [name |-> y.name, at |-> y.at, ip |-> y.ip, left |-> Tail(y.left)]
        BY <2>1, <2>2, <4>1 DEF ResolverRight
      <4>4. ResolverRight(x) /\ AnswerCurrent(x)
        BY <2>1, <2>2, <4>3 DEF ResolverRight, AnswerCurrent
      <4> QED
        BY <1>7, <2>1, <4>2, <4>4
    <3>4. CASE ip # NoNameIp
      <4>1. PICK x : x = [y EXCEPT !.at = "caching", !.ip = ip, !.left = <<>>]
        OBVIOUS
      <4>2. dns_calls' = Names!Put(dns_calls, c, x)
        BY <1>9, <2>1, <2>2, <3>1, <3>4, <4>1
      <4>3. x = [name |-> y.name, at |-> "caching", ip |-> ip, left |-> <<>>]
        BY <2>1, <2>2, <4>1 DEF ResolverRight
      <4>4. ResolverRight(x) /\ AnswerCurrent(x)
        BY <2>1, <2>2, <3>2, <3>4, <4>3 DEF ResolverRight, AnswerCurrent, ResolverStates
      <4> QED
        BY <1>7, <2>1, <4>2, <4>4
    <3>5. ip = NoNameIp \/ ip # NoNameIp
      OBVIOUS
    <3> HIDE NamesConstants
    <3> QED
      BY ONLY <3>3, <3>4, <3>5
  <2> QED
    BY <2>3, <2>4
<1>14. ASSUME NEW c, Names!CacheAnswer(c) PROVE NamesInv'
  <2>1. /\ c \in DOMAIN dns_calls /\ dns_calls' = Names!Drop(dns_calls, c)
        /\ UNCHANGED <<records, upstream, writing, changed>>
        /\ ResolverRight(dns_calls[c]) /\ dns_calls[c].at = "caching" /\ AnswerCurrent(dns_calls[c])
    BY <1>14 DEF Names!CacheAnswer, Names!At, NamesInv
  <2>2. PICK y : y = dns_calls[c]
    OBVIOUS
  <2>3. y.name \in Names!Names /\ y.ip \in NameIps
    BY <2>1, <2>2 DEF ResolverRight
  <2>4. name_cache' = [n \in DOMAIN name_cache \cup {y.name} |-> IF n = y.name THEN y.ip ELSE name_cache[n]]
    BY <1>14, <2>2 DEF Names!CacheAnswer, Names!Put
  <2>5. DOMAIN name_cache' \subseteq Names!Names /\ name_cache' \in [DOMAIN name_cache' -> NameIps]
    BY <2>3, <2>4 DEF NamesInv
  <2>6. Names!CacheCurrent'
    BY <2>1, <2>2, <2>4 DEF NamesInv, Names!CacheCurrent, AnswerCurrent
  <2>7. /\ dns_calls' = [d \in DOMAIN dns_calls' |-> dns_calls'[d]]
        /\ \A d \in DOMAIN dns_calls' : d \in DOMAIN dns_calls /\ dns_calls'[d] = dns_calls[d]
    BY <2>1 DEF Names!Drop
  <2>8. \A d \in DOMAIN dns_calls' : ResolverRight(dns_calls'[d])
    BY <2>7 DEF NamesInv
  <2>9. \A d \in DOMAIN dns_calls' : AnswerCurrent(dns_calls[d])'
    BY <2>1, <2>7 DEF NamesInv, AnswerCurrent
  <2> QED
    BY <2>1, <2>5, <2>6, <2>7, <2>8, <2>9 DEF NamesInv
<1>15. ASSUME (\E list \in ServerLists : Names!SetUpstream(list)) \/ Names!SetUpstreamEnd \/ UNCHANGED dns_vars
       PROVE  NamesInv'
  <2>1. /\ UNCHANGED <<records, name_cache, dns_calls, changed>>
        /\ upstream' \in ServerLists /\ writing' \subseteq ServerLists
    BY <1>15 DEF Names!SetUpstream, Names!SetUpstreamEnd, dns_vars, NamesInv
  <2> QED
    BY <2>1 DEF NamesInv, AnswerCurrent, Names!CacheCurrent
<1> QED
  BY <1>2, <1>3, <1>4, <1>5, <1>10, <1>11, <1>12, <1>13, <1>14, <1>15 DEF Names!Next

\* What follows from the invariant of name resolution.
LEMMA NamesRight == ASSUME NamesInv PROVE Names!TypeOK /\ Names!CacheCurrent
  BY RequestsAssumption DEF NamesInv, Names!TypeOK, ResolverRight, ResolverStates

-----------------------------------------------------------------------------
(* The gateway's client.                                                     *)
HttpPcs == {"idle", "send", "wait", "backoff", "succeeded", "refused", "exhausted"}
HttpCall == [pc : HttpPcs, attempt : 0 .. max_retries, report : Nat, bytes : Nat]
HttpRequest == [caller : Reporters, report : Nat, attempt : 0 .. max_retries, bytes : Nat]

\* What a call knows of itself: whether it may try again, what it reports.
CallRight(c) ==
  /\ http_calls[c].pc = "backoff" => http_calls[c].attempt < max_retries
  /\ http_calls[c].pc # "idle" => http_calls[c].bytes = batch[c]
  /\ bytes_received[c] <= MaxBytes
HttpShape ==
  /\ http_calls \in [Reporters -> HttpCall] /\ batch \in [Reporters -> Nat]
  /\ bytes_received \in [Reporters -> Nat] /\ \A c \in Reporters : CallRight(c)

\* The attempt r of the caller whose call is c was sent before now.
SentBefore(r, c) ==
  \/ r.report < c.report
  \/ r.report = c.report /\ r.attempt < c.attempt
  \/ r.report = c.report /\ r.attempt = c.attempt /\ c.pc # "send"
SameAttempt(r, s) == r.caller = s.caller /\ r.report = s.report /\ r.attempt = s.attempt
\* Every attempt is sent once, and so is under way or recorded once.
HttpSent ==
  /\ http_requests \subseteq HttpRequest /\ recorded \subseteq HttpRequest
  /\ \A r \in http_requests \cup recorded : SentBefore(r, http_calls[r.caller])
  /\ \A r, s \in http_requests \cup recorded : SameAttempt(r, s) => r = s

\* An answer is awaited, the attempt it answers is not under way any more, and
\* what is answered with success was recorded.
AnswerRight(a) ==
  /\ a.caller \in Reporters /\ a.status \in Http!Statuses
  /\ http_calls[a.caller].pc = "wait"
  /\ a.status = "Success" => Http!Copies(a.caller, http_calls[a.caller].report) # {}
  /\ \A r \in http_requests : r.caller = a.caller => ~Http!Awaited(r)
HttpAnswers ==
  /\ \A a \in answers : AnswerRight(a)
  /\ \A a, b \in answers : a.caller = b.caller => a = b
  /\ \A c \in Reporters : http_calls[c].pc = "succeeded" => Http!Copies(c, http_calls[c].report) # {}

\* A call that ended has a report of its own.
ResultRight(x) ==
  /\ x[1] \in Reporters /\ x[2] \in Nat /\ x[3] \in Nat
  /\ x[2] <= http_calls[x[1]].report
  /\ http_calls[x[1]].pc # "idle" => x[2] < http_calls[x[1]].report
  /\ x[4] = "succeeded" => Http!Copies(x[1], x[2]) # {}
HttpResults ==
  /\ IsFiniteSet(results) /\ \A x \in results : ResultRight(x)
  /\ consecutive_failures \in 0 .. Cardinality(results)

\* The bytes of the reports of a caller that ended.
Mine(c) == {x \in results : x[1] = c}
Bytes(c) == [x \in Mine(c) |-> x[3]]
HttpBytes == \A c \in Reporters : bytes_received[c] = batch[c] + SumFunction(Bytes(c))

HttpInv == HttpShape /\ HttpSent /\ HttpAnswers /\ HttpResults /\ HttpBytes

\* What the constants of the gateway's client stand for.
LEMMA HttpConstants == max_retries \in Nat /\ MaxReports \in Nat /\ MaxBytes \in Nat
  BY RequestsAssumption DEF Http!Constants

\* The initial states of the gateway's client satisfy the invariant.
LEMMA HttpInit == Http!Init => HttpInv
<1> SUFFICES ASSUME Http!Init PROVE HttpInv
  OBVIOUS
<1> USE HttpConstants DEF Http!Init
<1>1. HttpShape
  BY DEF HttpShape, HttpCall, HttpPcs, CallRight, Http!Idle
<1>2. HttpSent
  BY DEF HttpSent
<1>3. HttpAnswers
  BY DEF HttpAnswers, Http!Idle
<1>4. HttpResults
  BY FS_EmptySet DEF HttpResults
<1>5. HttpBytes
  <2> SUFFICES ASSUME NEW c \in Reporters PROVE bytes_received[c] = batch[c] + SumFunction(Bytes(c))
    BY DEF HttpBytes
  <2>1. DOMAIN Bytes(c) = {}
    BY DEF Bytes, Mine
  <2> QED
    BY <2>1, SumEmpty
<1> QED
  BY <1>1, <1>2, <1>3, <1>4, <1>5 DEF HttpInv

\* Steps that move one call and nothing else of what its results rest on.
LEMMA HttpShapeNext == ASSUME HttpShape, [Http!Next]_http_vars PROVE HttpShape'
<1> USE HttpConstants DEF HttpShape, CallRight
<1>1. ASSUME NEW c \in Reporters, Http!Receive(c) PROVE HttpShape'
  BY <1>1 DEF Http!Receive
<1>2. ASSUME NEW c \in Reporters, Http!ReportTraffic(c) PROVE HttpShape'
  <2>1. [pc |-> "send", attempt |-> 0, report |-> http_calls[c].report + 1, bytes |-> batch[c]] \in HttpCall
    BY DEF HttpCall, HttpPcs
  <2> QED
    BY <1>2, <2>1 DEF Http!ReportTraffic
<1>3. ASSUME NEW c \in Reporters, NEW pc \in HttpPcs, Http!Goto(c, pc), UNCHANGED <<batch, bytes_received>>,
             http_calls[c].pc # "idle",
             pc = "backoff" => http_calls[c].attempt < max_retries
      PROVE  HttpShape'
  BY <1>3 DEF Http!Goto, HttpCall
<1>4. ASSUME NEW c \in Reporters, Http!ExecuteOnce(c) PROVE HttpShape'
  BY <1>3, <1>4 DEF Http!ExecuteOnce, HttpPcs
<1>5. ASSUME NEW c \in Reporters, NEW status, http_calls[c].pc = "wait", Http!Attempted(c, status),
             UNCHANGED <<batch, bytes_received>>
      PROVE  HttpShape'
  <2>1. http_calls[c].attempt \in 0 .. max_retries
    BY DEF HttpCall
  <2>2. PICK pc \in HttpPcs : Http!Goto(c, pc) /\ (pc = "backoff" => http_calls[c].attempt # max_retries)
    BY <1>5 DEF Http!Attempted, Http!Last, HttpPcs
  <2> QED
    BY <1>3, <1>5, <2>1, <2>2
<1>6. ASSUME NEW c \in Reporters, NEW a, Http!Answered(c, a) PROVE HttpShape'
  BY <1>5, <1>6 DEF Http!Answered
<1>7. ASSUME NEW c \in Reporters, Http!NetworkError(c) PROVE HttpShape'
  BY <1>5, <1>7 DEF Http!NetworkError
<1>8. ASSUME NEW c \in Reporters, Http!Retry(c) PROVE HttpShape'
  BY <1>8 DEF Http!Retry, HttpCall, HttpPcs
<1>9. ASSUME NEW c \in Reporters, Http!Return(c) PROVE HttpShape'
  BY <1>9 DEF Http!Return, Http!Kept, Http!Goto, HttpCall, HttpPcs
<1>10. ASSUME UNCHANGED <<http_calls, batch, bytes_received>> PROVE HttpShape'
  BY <1>10
<1>11. ASSUME NEW r, Http!Lose(r) \/ (\E s \in Http!Statuses : Http!Serve(r, s)) PROVE HttpShape'
  BY <1>10, <1>11 DEF Http!Lose, Http!Serve
<1>12. CASE UNCHANGED http_vars
  BY <1>10, <1>12 DEF http_vars
<1> QED
  BY <1>1, <1>2, <1>4, <1>6, <1>7, <1>8, <1>9, <1>11, <1>12 DEF Http!Next
\* A call only moves on, and an attempt that was sent stays sent.
Onwards(c, d) == \A r \in HttpRequest : SentBefore(r, c) => SentBefore(r, d)
\* Every step sends an attempt once.
LEMMA HttpSentNext == ASSUME HttpShape, HttpSent, [Http!Next]_http_vars PROVE HttpSent'
<1> USE HttpConstants
<1>k. \A c \in Reporters : http_calls[c] \in HttpCall
  BY DEF HttpShape
<1>1. ASSUME http_requests' \cup recorded' \subseteq http_requests \cup recorded,
             \A c \in Reporters : Onwards(http_calls[c], http_calls'[c])
      PROVE  HttpSent'
  <2>1. http_requests' \subseteq HttpRequest /\ recorded' \subseteq HttpRequest
    BY <1>1 DEF HttpSent
  <2>2. \A r \in http_requests' \cup recorded' : r.caller \in Reporters
    BY <2>1 DEF HttpRequest
  <2> QED
    BY <1>1, <2>1, <2>2 DEF HttpSent, Onwards
<1>2. ASSUME NEW c \in Reporters, NEW v, http_calls' = [http_calls EXCEPT ![c] = v], Onwards(http_calls[c], v),
             http_requests' \cup recorded' \subseteq http_requests \cup recorded
      PROVE  HttpSent'
  <2>1. \A d \in Reporters : http_calls'[d] = IF d = c THEN v ELSE http_calls[d]
    BY <1>2 DEF HttpShape
  <2> QED
    BY <1>1, <1>2, <2>1 DEF Onwards
<1>3. ASSUME UNCHANGED http_calls, http_requests' \cup recorded' \subseteq http_requests \cup recorded
      PROVE  HttpSent'
  BY <1>1, <1>3 DEF Onwards
<1>4. ASSUME NEW c \in Reporters, NEW pc, http_calls[c].pc # "send", pc # "send", Http!Goto(c, pc),
             UNCHANGED <<http_requests, recorded>>
      PROVE  HttpSent'
  <2>1. Onwards(http_calls[c], [http_calls[c] EXCEPT !.pc = pc])
    BY <1>k, <1>4 DEF Onwards, SentBefore, HttpCall, HttpRequest
  <2> QED
    BY <1>2, <1>4, <2>1 DEF Http!Goto
<1>5. ASSUME NEW c \in Reporters, Http!Receive(c) PROVE HttpSent'
  BY <1>3, <1>5 DEF Http!Receive
<1>6. ASSUME NEW c \in Reporters, Http!ReportTraffic(c) PROVE HttpSent'
  <2> DEFINE v == [pc |-> "send", attempt |-> 0, report |-> http_calls[c].report + 1, bytes |-> batch[c]]
  <2>1. http_calls' = [http_calls EXCEPT ![c] = v] /\ UNCHANGED <<http_requests, recorded>>
    BY <1>6 DEF Http!ReportTraffic
  <2>2. Onwards(http_calls[c], v)
    BY <1>k DEF Onwards, SentBefore, HttpCall, HttpRequest
  <2> HIDE DEF v
  <2> QED
    BY <1>2, <2>1, <2>2
<1>7. ASSUME NEW c \in Reporters, Http!ExecuteOnce(c) PROVE HttpSent'
  <2> DEFINE r == [caller |-> c, report |-> http_calls[c].report,
                   attempt |-> http_calls[c].attempt, bytes |-> http_calls[c].bytes]
  <2>1. /\ http_calls[c].pc = "send" /\ http_calls' = [http_calls EXCEPT ![c].pc = "wait"]
        /\ http_requests' = http_requests \cup {r} /\ UNCHANGED recorded
    BY <1>7 DEF Http!ExecuteOnce, Http!Goto
  <2>2. r \in HttpRequest /\ r.caller = c
    BY <1>k DEF HttpRequest, HttpCall
  <2>3. \A d \in Reporters : http_calls'[d] = IF d = c THEN [http_calls[c] EXCEPT !.pc = "wait"] ELSE http_calls[d]
    BY <2>1 DEF HttpShape
  <2>4. Onwards(http_calls[c], [http_calls[c] EXCEPT !.pc = "wait"])
    BY <1>k, <2>1 DEF Onwards, SentBefore, HttpCall, HttpRequest
  <2>5. SentBefore(r, http_calls'[c])
    BY <1>k, <2>3 DEF SentBefore, HttpCall
  <2>6. \A s \in http_requests \cup recorded : s \in HttpRequest /\ s.caller \in Reporters
    BY DEF HttpSent, HttpRequest
  <2>7. \A s \in http_requests \cup recorded : SentBefore(s, http_calls'[s.caller])
    BY <2>3, <2>4, <2>6 DEF HttpSent, Onwards
  <2>8. \A s \in http_requests \cup recorded : ~SameAttempt(r, s)
    BY <1>k, <2>1, <2>6 DEF HttpSent, SentBefore, SameAttempt, HttpCall, HttpRequest
  <2>9. \A s : SameAttempt(r, s) <=> SameAttempt(s, r)
    BY DEF SameAttempt
  <2> HIDE DEF r
  <2> QED
    BY <2>1, <2>2, <2>5, <2>6, <2>7, <2>8, <2>9 DEF HttpSent
<1>8. ASSUME NEW c \in Reporters, NEW status, http_calls[c].pc = "wait", Http!Attempted(c, status),
             UNCHANGED <<http_requests, recorded>>
      PROVE  HttpSent'
  BY <1>4, <1>8 DEF Http!Attempted
<1>9. ASSUME NEW c \in Reporters, NEW a, Http!Answered(c, a) PROVE HttpSent'
  BY <1>8, <1>9 DEF Http!Answered
<1>10. ASSUME NEW c \in Reporters, Http!NetworkError(c) PROVE HttpSent'
  BY <1>8, <1>10 DEF Http!NetworkError
<1>11. ASSUME NEW c \in Reporters, Http!Retry(c) PROVE HttpSent'
  <2>1. Onwards(http_calls[c], [http_calls[c] EXCEPT !.pc = "send", !.attempt = @ + 1])
    BY <1>k, <1>11 DEF Onwards, SentBefore, HttpCall, HttpRequest, Http!Retry
  <2>2. http_calls' = [http_calls EXCEPT ![c] = [http_calls[c] EXCEPT !.pc = "send", !.attempt = @ + 1]]
    BY <1>k, <1>11 DEF Http!Retry, HttpShape
  <2> QED
    BY <1>2, <1>11, <2>1, <2>2 DEF Http!Retry
<1>12. ASSUME NEW c \in Reporters, Http!Return(c) PROVE HttpSent'
  BY <1>4, <1>12 DEF Http!Return
<1>13. ASSUME NEW r \in http_requests, Http!Lose(r) \/ (\E s \in Http!Statuses : Http!Serve(r, s)) PROVE HttpSent'
  BY <1>3, <1>13 DEF Http!Lose, Http!Serve
<1>14. CASE UNCHANGED http_vars
  BY <1>3, <1>14 DEF http_vars
<1> QED
  BY <1>5, <1>6, <1>7, <1>9, <1>10, <1>11, <1>12, <1>13, <1>14 DEF Http!Next

\* The attempt that is awaited is the only one of its caller that is; when it
\* is answered it is not under way any more.
LEMMA HttpAnswersNext ==
  ASSUME HttpShape, HttpSent, HttpAnswers, [Http!Next]_http_vars PROVE HttpAnswers'
<1> USE HttpConstants
<1>k. \A c \in Reporters : http_calls[c] \in HttpCall
  BY DEF HttpShape
<1>r. \A r \in http_requests \cup recorded : r \in HttpRequest /\ r.caller \in Reporters
  BY DEF HttpSent, HttpRequest
\* The calls of those who have an answer, or have succeeded, stay; nothing is taken back.
<1>1. ASSUME NEW c \in Reporters, NEW v, http_calls' = [http_calls EXCEPT ![c] = v],
             \A a \in answers' : a \in answers /\ a.caller # c,
             \A r \in http_requests' \ http_requests : r.caller = c,
             recorded' = recorded,
             v.pc = "succeeded" => Http!Copies(c, v.report) # {}
      PROVE  HttpAnswers'
  <2>1. \A d \in Reporters : http_calls'[d] = IF d = c THEN v ELSE http_calls[d]
    BY <1>1 DEF HttpShape
  <2>2. \A d \in Reporters, n \in Nat : Http!Copies(d, n)' = Http!Copies(d, n)
    BY <1>1 DEF Http!Copies
  <2>3. ASSUME NEW a \in answers' PROVE AnswerRight(a)'
    <3>1. AnswerRight(a) /\ a.caller # c /\ http_calls'[a.caller] = http_calls[a.caller]
      BY <1>1, <2>1, <2>3 DEF HttpAnswers, AnswerRight
    <3>2. \A r \in http_requests' : r.caller = a.caller => r \in http_requests /\ (Http!Awaited(r)' <=> Http!Awaited(r))
      BY <1>1, <3>1 DEF Http!Awaited
    <3>3. Http!Copies(a.caller, http_calls[a.caller].report)' = Http!Copies(a.caller, http_calls[a.caller].report)
      BY <1>1, <3>1 DEF Http!Copies
    <3> QED
      BY <3>1, <3>2, <3>3 DEF AnswerRight
  <2>4. \A d \in Reporters : http_calls'[d].pc = "succeeded" => Http!Copies(d, http_calls[d].report)' # {}
    BY <1>1, <2>1 DEF HttpAnswers, Http!Copies
  <2> QED
    BY <1>1, <2>3, <2>4 DEF HttpAnswers
<1>2. ASSUME NEW c \in Reporters, http_calls[c].pc # "wait" PROVE \A a \in answers : a.caller # c
  BY <1>2 DEF HttpAnswers, AnswerRight
<1>3. ASSUME NEW c \in Reporters, Http!Receive(c) PROVE HttpAnswers'
  BY <1>3 DEF Http!Receive, HttpAnswers, AnswerRight, Http!Copies, Http!Awaited
<1>4. ASSUME NEW c \in Reporters, Http!ReportTraffic(c) PROVE HttpAnswers'
  BY <1>1, <1>2, <1>4 DEF Http!ReportTraffic
<1>5. ASSUME NEW c \in Reporters, Http!ExecuteOnce(c) PROVE HttpAnswers'
  <2>1. /\ http_calls' = [http_calls EXCEPT ![c] = [http_calls[c] EXCEPT !.pc = "wait"]]
        /\ \A r \in http_requests' \ http_requests : r.caller = c
        /\ http_calls[c].pc = "send" /\ UNCHANGED <<answers, recorded>>
    BY <1>5 DEF Http!ExecuteOnce, Http!Goto
  <2>2. [http_calls[c] EXCEPT !.pc = "wait"].pc = "wait"
    BY <1>k DEF HttpCall
  <2> QED
    BY <1>1, <1>2, <2>1, <2>2
<1>6. ASSUME NEW c \in Reporters, NEW status, http_calls[c].pc = "wait", Http!Attempted(c, status),
             status = "Success" => Http!Copies(c, http_calls[c].report) # {},
             \A a \in answers' : a \in answers /\ a.caller # c,
             UNCHANGED <<http_requests, recorded>>
      PROVE  HttpAnswers'
  <2>0. PICK pc : Http!Goto(c, pc) /\ (pc = "succeeded" => status = "Success")
    BY <1>6 DEF Http!Attempted
  <2>1. http_calls' = [http_calls EXCEPT ![c] = [http_calls[c] EXCEPT !.pc = pc]]
    BY <2>0 DEF Http!Goto
  <2>2. /\ [http_calls[c] EXCEPT !.pc = pc].pc = pc
        /\ [http_calls[c] EXCEPT !.pc = pc].report = http_calls[c].report
    BY <1>k DEF HttpCall
  <2> QED
    BY <1>1, <1>6, <2>0, <2>1, <2>2
<1>7. ASSUME NEW c \in Reporters, NEW a \in answers, Http!Answered(c, a) PROVE HttpAnswers'
  <2>1. \A b \in answers' : b \in answers /\ b.caller # c
    BY <1>7 DEF Http!Answered, HttpAnswers
  <2>2. a.status = "Success" => Http!Copies(c, http_calls[c].report) # {}
    BY <1>7 DEF Http!Answered, HttpAnswers, AnswerRight
  <2> QED
    BY <1>6, <1>7, <2>1, <2>2 DEF Http!Answered
<1>8. ASSUME NEW c \in Reporters, Http!NetworkError(c) PROVE HttpAnswers'
  BY <1>6, <1>8 DEF Http!NetworkError
<1>9. ASSUME NEW c \in Reporters, Http!Retry(c) PROVE HttpAnswers'
  <2>1. http_calls' = [http_calls EXCEPT ![c] = [http_calls[c] EXCEPT !.pc = "send", !.attempt = @ + 1]]
        /\ http_calls[c].pc = "backoff" /\ UNCHANGED <<http_requests, answers, recorded>>
    BY <1>k, <1>9 DEF Http!Retry, HttpShape
  <2>2. [http_calls[c] EXCEPT !.pc = "send", !.attempt = @ + 1].pc = "send"
    BY <1>k DEF HttpCall
  <2> QED
    BY <1>1, <1>2, <2>1, <2>2
<1>10. ASSUME NEW c \in Reporters, Http!Return(c) PROVE HttpAnswers'
  <2>1. /\ http_calls' = [http_calls EXCEPT ![c] = [http_calls[c] EXCEPT !.pc = "idle"]]
        /\ http_calls[c].pc # "wait" /\ UNCHANGED <<http_requests, answers, recorded>>
    BY <1>10 DEF Http!Return, Http!Goto
  <2>2. [http_calls[c] EXCEPT !.pc = "idle"].pc = "idle"
    BY <1>k DEF HttpCall
  <2> QED
    BY <1>1, <1>2, <2>1, <2>2
<1>11. ASSUME NEW r \in http_requests, Http!Lose(r) PROVE HttpAnswers'
  BY <1>11 DEF Http!Lose, HttpAnswers, AnswerRight, Http!Copies, Http!Awaited
<1>12. ASSUME NEW r \in http_requests, NEW s \in Http!Statuses, Http!Serve(r, s) PROVE HttpAnswers'
  <2> DEFINE new == [caller |-> r.caller, status |-> s]
  <2>1. /\ http_requests' = http_requests \ {r} /\ recorded \subseteq recorded'
        /\ answers' \subseteq answers \cup {new} /\ (new \in answers' /\ new \notin answers => Http!Awaited(r))
        /\ s = "Success" => r \in recorded'
        /\ UNCHANGED http_calls
    BY <1>12 DEF Http!Serve
  <2>2. \A c, n : Http!Copies(c, n) \subseteq Http!Copies(c, n)'
    BY <2>1 DEF Http!Copies
  <2>3. \A q : Http!Awaited(q)' <=> Http!Awaited(q)
    BY <2>1 DEF Http!Awaited
  <2>4. ASSUME NEW a \in answers' \cap answers PROVE AnswerRight(a)'
    BY <2>1, <2>2, <2>3, <2>4 DEF HttpAnswers, AnswerRight
  <2>5. ASSUME new \in answers', new \notin answers
        PROVE  AnswerRight(new)' /\ \A a \in answers : a.caller # new.caller
    <3>1. Http!Awaited(r) /\ r.caller \in Reporters /\ new.caller = r.caller /\ new.status = s
      BY <1>r, <2>1, <2>5
    <3>2. \A a \in answers : a.caller # r.caller
      BY <3>1 DEF HttpAnswers, AnswerRight
    <3>3. \A q \in http_requests' : q.caller = r.caller => ~Http!Awaited(q)
      BY <2>1, <3>1 DEF HttpSent, SameAttempt, Http!Awaited
    <3>4. s = "Success" => Http!Copies(r.caller, http_calls[r.caller].report)' # {}
      BY <2>1, <3>1 DEF Http!Copies, Http!Awaited
    <3>5. http_calls'[r.caller].pc = "wait" /\ s \in Http!Statuses
      BY <1>12, <2>1, <3>1 DEF Http!Awaited
    <3> HIDE DEF new
    <3> QED
      BY <2>1, <2>3, <3>1, <3>2, <3>3, <3>4, <3>5 DEF AnswerRight
  <2>6. \A c \in Reporters : http_calls'[c].pc = "succeeded" => Http!Copies(c, http_calls[c].report)' # {}
    BY <2>1, <2>2 DEF HttpAnswers
  <2> HIDE DEF new
  <2> QED
    BY <2>1, <2>4, <2>5, <2>6 DEF HttpAnswers
<1>13. CASE UNCHANGED http_vars
  BY <1>13 DEF http_vars, HttpAnswers, AnswerRight, Http!Copies, Http!Awaited
<1> QED
  BY <1>3, <1>4, <1>5, <1>7, <1>8, <1>9, <1>10, <1>11, <1>12, <1>13 DEF Http!Next
\* What has been recorded stays recorded, and a call that ends has a new report.
LEMMA HttpResultsNext ==
  ASSUME HttpShape, HttpSent, HttpAnswers, HttpResults, [Http!Next]_http_vars
  PROVE  HttpResults' /\ \A c \in Reporters : http_calls[c].pc = "succeeded" /\ http_calls'[c].pc = "idle"
                                                 => consecutive_failures' = 0
<1> DEFINE Clears == \A c \in Reporters : http_calls[c].pc = "succeeded" /\ http_calls'[c].pc = "idle"
                                             => consecutive_failures' = 0
           Ahead(c, d) == d.report >= c.report /\ (d.pc # "idle" => c.pc # "idle" \/ d.report > c.report)
<1> HIDE DEF Ahead
<1> USE HttpConstants
<1>k. \A c \in Reporters : http_calls[c] \in HttpCall
  BY DEF HttpShape
<1>1. ASSUME UNCHANGED <<results, consecutive_failures>>, recorded \subseteq recorded',
             \A c \in Reporters : Ahead(http_calls[c], http_calls'[c]) /\ http_calls'[c] \in HttpCall
      PROVE  HttpResults'
  <2>1. \A c, n : Http!Copies(c, n) \subseteq Http!Copies(c, n)'
    BY <1>1 DEF Http!Copies
  <2>2. ASSUME NEW x \in results PROVE ResultRight(x)'
    <3>1. ResultRight(x)
      BY DEF HttpResults
    <3>2. /\ Ahead(http_calls[x[1]], http_calls'[x[1]])
          /\ http_calls'[x[1]].report \in Nat /\ http_calls[x[1]].report \in Nat
      BY <1>1, <1>k, <3>1 DEF ResultRight, HttpCall
    <3> QED
      BY <2>1, <3>1, <3>2 DEF ResultRight, Ahead
  <2> QED
    BY <1>1, <2>2 DEF HttpResults
<1>2. ASSUME NEW c \in Reporters, NEW v \in HttpCall, http_calls' = [http_calls EXCEPT ![c] = v],
             Ahead(http_calls[c], v), v.pc # "idle", UNCHANGED <<results, consecutive_failures, recorded>>
      PROVE  HttpResults' /\ Clears
  <2>1. \A d \in Reporters : http_calls'[d] = IF d = c THEN v ELSE http_calls[d]
    BY <1>2 DEF HttpShape
  <2>2. \A d \in Reporters : Ahead(http_calls[d], http_calls[d])
    BY <1>k DEF Ahead, HttpCall
  <2> QED
    BY <1>1, <1>2, <1>k, <2>1, <2>2
<1>3. ASSUME UNCHANGED <<results, consecutive_failures, http_calls>>, recorded \subseteq recorded'
      PROVE  HttpResults' /\ Clears
  <2>1. \A d \in Reporters : Ahead(http_calls[d], http_calls[d])
    BY <1>k DEF Ahead, HttpCall
  <2> QED
    BY <1>1, <1>3, <1>k, <2>1
<1>4. ASSUME NEW c \in Reporters, NEW pc \in HttpPcs \ {"idle"}, http_calls[c].pc # "idle", Http!Goto(c, pc),
             UNCHANGED <<results, consecutive_failures, recorded>>
      PROVE  HttpResults' /\ Clears
  <2>1. Ahead(http_calls[c], [http_calls[c] EXCEPT !.pc = pc])
    BY <1>k, <1>4 DEF Ahead, HttpCall
  <2>2. [http_calls[c] EXCEPT !.pc = pc] \in HttpCall /\ [http_calls[c] EXCEPT !.pc = pc].pc # "idle"
    BY <1>k, <1>4 DEF HttpCall
  <2>3. http_calls' = [http_calls EXCEPT ![c] = [http_calls[c] EXCEPT !.pc = pc]]
    BY <1>4 DEF Http!Goto
  <2> QED
    BY <1>2, <1>4, <2>1, <2>2, <2>3
<1>5. ASSUME NEW c \in Reporters, Http!Receive(c) PROVE HttpResults' /\ Clears
  BY <1>3, <1>5 DEF Http!Receive
<1>6. ASSUME NEW c \in Reporters, Http!ReportTraffic(c) PROVE HttpResults' /\ Clears
  <2> DEFINE v == [pc |-> "send", attempt |-> 0, report |-> http_calls[c].report + 1, bytes |-> batch[c]]
  <2>1. http_calls' = [http_calls EXCEPT ![c] = v] /\ UNCHANGED <<results, consecutive_failures, recorded>>
    BY <1>6 DEF Http!ReportTraffic
  <2>2. v \in HttpCall /\ v.pc # "idle" /\ Ahead(http_calls[c], v)
    BY <1>k DEF Ahead, HttpCall, HttpShape, HttpPcs
  <2> HIDE DEF v
  <2> QED
    BY <1>2, <2>1, <2>2
<1>7. ASSUME NEW c \in Reporters, Http!ExecuteOnce(c) PROVE HttpResults' /\ Clears
  BY <1>4, <1>7 DEF Http!ExecuteOnce, HttpPcs
<1>8. ASSUME NEW c \in Reporters, NEW status, http_calls[c].pc = "wait", Http!Attempted(c, status),
             UNCHANGED <<results, consecutive_failures, recorded>>
      PROVE  HttpResults' /\ Clears
  <2>1. PICK pc \in HttpPcs \ {"idle"} : Http!Goto(c, pc)
    BY <1>8 DEF Http!Attempted, HttpPcs
  <2> QED
    BY <1>4, <1>8, <2>1
<1>9. ASSUME NEW c \in Reporters, NEW a, Http!Answered(c, a) PROVE HttpResults' /\ Clears
  BY <1>8, <1>9 DEF Http!Answered
<1>10. ASSUME NEW c \in Reporters, Http!NetworkError(c) PROVE HttpResults' /\ Clears
  BY <1>8, <1>10 DEF Http!NetworkError
<1>11. ASSUME NEW c \in Reporters, Http!Retry(c) PROVE HttpResults' /\ Clears
  <2> DEFINE v == [http_calls[c] EXCEPT !.pc = "send", !.attempt = @ + 1]
  <2>1. http_calls' = [http_calls EXCEPT ![c] = v]
    BY <1>k, <1>11 DEF Http!Retry, HttpShape
  <2>2. v \in HttpCall /\ v.pc # "idle" /\ Ahead(http_calls[c], v)
    BY <1>k, <1>11 DEF Ahead, HttpCall, HttpShape, HttpPcs, CallRight, Http!Retry
  <2> HIDE DEF v
  <2> QED
    BY <1>2, <1>11, <2>1, <2>2 DEF Http!Retry
<1>12. ASSUME NEW c \in Reporters, Http!Return(c) PROVE HttpResults' /\ Clears
  <2>x. PICK x : x = <<c, http_calls[c].report, http_calls[c].bytes, http_calls[c].pc>>
    OBVIOUS
  <2>1. /\ http_calls[c].pc \in {"succeeded", "refused", "exhausted"}
        /\ consecutive_failures' = Http!Failures(http_calls[c].pc) /\ results' = results \cup {x}
        /\ http_calls' = [http_calls EXCEPT ![c].pc = "idle"] /\ UNCHANGED recorded
    BY <1>12, <2>x DEF Http!Return, Http!Goto
  <2>2. /\ \A d \in Reporters : d # c => http_calls'[d] = http_calls[d]
        /\ http_calls'[c].pc = "idle" /\ http_calls'[c].report = http_calls[c].report
        /\ http_calls[c].report \in Nat /\ http_calls[c].bytes \in Nat
    BY <1>k, <2>1 DEF HttpShape, HttpCall
  <2>3. \A d, n : Http!Copies(d, n)' = Http!Copies(d, n)
    BY <2>1 DEF Http!Copies
  <2>4. \A y \in results : ResultRight(y)
    BY DEF HttpResults
  <2>5. \A y \in results : ResultRight(y)'
    BY <2>2, <2>3, <2>4 DEF ResultRight
  <2>6. x[1] = c /\ x[2] = http_calls[c].report /\ x[3] = http_calls[c].bytes /\ x[4] = http_calls[c].pc
    BY <2>x
  <2>7. x \notin results
    BY <2>1, <2>2, <2>4, <2>6 DEF ResultRight
  <2>8. x[4] = "succeeded" => Http!Copies(x[1], x[2])' # {}
    BY <2>1, <2>3, <2>6 DEF HttpAnswers
  <2>9. ResultRight(x)'
    BY <2>2, <2>6, <2>8 DEF ResultRight
  <2>10. IsFiniteSet(results') /\ Cardinality(results') = Cardinality(results) + 1 /\ Cardinality(results) \in Nat
    BY <2>1, <2>7, FS_AddElement, FS_CardinalityType DEF HttpResults
  <2>11. consecutive_failures' \in 0 .. Cardinality(results')
         /\ (http_calls[c].pc = "succeeded" => consecutive_failures' = 0)
    BY <2>1, <2>10 DEF HttpResults, Http!Failures
  <2> QED
    BY <2>1, <2>2, <2>5, <2>9, <2>10, <2>11 DEF HttpResults
<1>13. ASSUME NEW r, Http!Lose(r) \/ (\E s \in Http!Statuses : Http!Serve(r, s)) PROVE HttpResults' /\ Clears
  BY <1>3, <1>13 DEF Http!Lose, Http!Serve
<1>14. CASE UNCHANGED http_vars
  BY <1>3, <1>14 DEF http_vars
<1> QED
  BY <1>5, <1>6, <1>7, <1>9, <1>10, <1>11, <1>12, <1>13, <1>14 DEF Http!Next

\* A byte received goes into the batch, and with the report of the batch into its sum.
LEMMA HttpBytesNext ==
  ASSUME HttpShape, HttpSent, HttpAnswers, HttpResults, HttpBytes, [Http!Next]_http_vars PROVE HttpBytes'
<1>f. \A c \in Reporters : Summable(Bytes(c)) /\ DOMAIN Bytes(c) = Mine(c)
  BY FS_Subset DEF Summable, Bytes, Mine, HttpResults, ResultRight
<1>t. \A c \in Reporters : SumFunction(Bytes(c)) \in Nat
  BY <1>f, SumType
<1>1. ASSUME UNCHANGED <<batch, bytes_received, results>> PROVE HttpBytes'
  BY <1>1 DEF HttpBytes, Bytes, Mine
<1>2. ASSUME NEW c \in Reporters, Http!Receive(c) PROVE HttpBytes'
  <2>1. UNCHANGED results /\ batch' = [batch EXCEPT ![c] = @ + 1] /\ bytes_received' = [bytes_received EXCEPT ![c] = @ + 1]
    BY <1>2 DEF Http!Receive
  <2>2. \A d : Bytes(d)' = Bytes(d)
    BY <2>1 DEF Bytes, Mine
  <2> QED
    BY <1>t, <2>1, <2>2 DEF HttpBytes, HttpShape
<1>3. ASSUME NEW c \in Reporters, Http!Return(c) PROVE HttpBytes'
  <2> DEFINE x == <<c, http_calls[c].report, http_calls[c].bytes, http_calls[c].pc>>
  <2>1. /\ results' = results \cup {x} /\ batch' = [batch EXCEPT ![c] = 0] /\ UNCHANGED bytes_received
        /\ http_calls[c].pc # "idle"
    BY <1>3 DEF Http!Return, Http!Kept
  <2>2. x[1] = c /\ x[2] = http_calls[c].report /\ x[3] = batch[c] /\ batch[c] \in Nat
    BY <2>1 DEF HttpShape, CallRight
  <2>3. x \notin Mine(c)
    BY <2>1, <2>2 DEF Mine, HttpResults, ResultRight, HttpShape, HttpCall
  <2> HIDE DEF x
  <2>4. Bytes(c)' = With(Bytes(c), x, batch[c])
    <3>1. Mine(c)' = Mine(c) \cup {x}
      BY <2>1, <2>2 DEF Mine
    <3>2. \A y \in Mine(c) : Bytes(c)[y] = y[3]
      BY DEF Bytes
    <3> QED
      BY <1>f, <2>2, <2>3, <3>1, <3>2 DEF Bytes, With
  <2>5. SumFunction(Bytes(c)') = batch[c] + SumFunction(Bytes(c))
    BY <1>f, <2>2, <2>3, <2>4, SumWith
  <2>6. \A d \in Reporters : d # c => Bytes(d)' = Bytes(d)
    BY <2>1, <2>2 DEF Bytes, Mine
  <2> QED
    BY <1>t, <2>1, <2>2, <2>5, <2>6 DEF HttpBytes, HttpShape
<1>4. CASE UNCHANGED http_vars
  BY <1>1, <1>4 DEF http_vars
<1>5. ASSUME NEW c \in Reporters, NEW a,
             \/ Http!ReportTraffic(c) \/ Http!ExecuteOnce(c) \/ Http!NetworkError(c) \/ Http!Retry(c) \/ Http!Answered(c, a)
      PROVE  HttpBytes'
  BY <1>1, <1>5 DEF Http!ReportTraffic, Http!ExecuteOnce, Http!NetworkError, Http!Retry, Http!Answered
<1>6. ASSUME NEW r, Http!Lose(r) \/ (\E s \in Http!Statuses : Http!Serve(r, s)) PROVE HttpBytes'
  BY <1>1, <1>6 DEF Http!Lose, Http!Serve
<1> QED
  BY <1>2, <1>3, <1>4, <1>5, <1>6 DEF Http!Next

\* Every step of the gateway's client keeps the invariant.
LEMMA HttpNext ==
  ASSUME HttpInv, [Http!Next]_http_vars
  PROVE  /\ HttpInv'
         /\ \A c \in Reporters : http_calls[c].pc = "succeeded" /\ http_calls'[c].pc = "idle"
                                    => consecutive_failures' = 0
  BY HttpShapeNext, HttpSentNext, HttpAnswersNext, HttpResultsNext, HttpBytesNext DEF HttpInv

\* The library's operators, as the gateway's module has them.
LEMMA SameInHttp ==
  /\ \A S : Http!Cardinality(S) = Cardinality(S)
  /\ \A f : Http!SumFunction(f) = SumFunction(f)
<1>1. ASSUME NEW S PROVE Http!Cardinality(S) = Cardinality(S)
  BY DEF Http!Cardinality, Cardinality
<1>2. ASSUME NEW f PROVE Http!SumFunction(f) = SumFunction(f)
  BY DEF Http!SumFunction, Http!SumFunctionOnSet, Http!FoldFunctionOnSet, Http!MapThenFoldSet,
         SumFunction, SumFunctionOnSet, FoldFunctionOnSet, MapThenFoldSet
<1> QED
  BY <1>1, <1>2

\* What follows from the invariant of the gateway's client.
LEMMA HttpRight == ASSUME HttpInv PROVE Http!TypeOK /\ Http!ReportsRecorded /\ Http!BytesReportedOnce
<1> USE HttpConstants
<1>1. ASSUME NEW c \in Reporters PROVE http_calls[c].attempt <= max_retries /\ batch[c] <= MaxBytes
  <2>1. Summable(Bytes(c))
    BY FS_Subset DEF HttpInv, Summable, Bytes, Mine, HttpResults, ResultRight
  <2>2. SumFunction(Bytes(c)) \in Nat
    BY <2>1, SumType
  <2> QED
    BY <2>2 DEF HttpInv, HttpShape, HttpCall, CallRight, HttpBytes
<1>2. ASSUME NEW c \in Reporters, NEW n PROVE Http!Cardinality(Http!Copies(c, n)) <= max_retries + 1
  <2> DEFINE S == Http!Copies(c, n)
             T == 0 .. max_retries
             f == [r \in S |-> r.attempt]
  <2>1. \A r \in S : r \in recorded /\ r.attempt \in T
    BY DEF Http!Copies, HttpInv, HttpSent, HttpRequest
  <2>2. \A r, s \in S : f[r] = f[s] => r = s
    BY DEF Http!Copies, HttpInv, HttpSent, SameAttempt
  <2>3. f \in Injection(S, T)
    BY <2>1, <2>2 DEF Injection, IsInjective
  <2>4. IsFiniteSet(T) /\ Cardinality(T) = max_retries + 1
    BY FS_Interval
  <2> HIDE DEF S, T, f
  <2>5. Cardinality(S) <= Cardinality(T)
    BY <2>3, <2>4, FS_Injection
  <2> QED
    BY <2>4, <2>5, SameInHttp DEF S
<1>3. Http!TypeOK
  BY <1>1, SameInHttp, RequestsAssumption DEF Http!TypeOK, HttpInv, HttpResults
<1>4. Http!ReportsRecorded
  BY <1>2 DEF Http!ReportsRecorded, HttpInv, HttpResults, ResultRight
<1>5. Http!BytesReportedOnce
  BY SameInHttp DEF Http!BytesReportedOnce, HttpInv, HttpBytes, Bytes, Mine
<1> QED
  BY <1>3, <1>4, <1>5

-----------------------------------------------------------------------------
(* The addresses, and the service that assigns them.                         *)
\* A table of addresses, and one in which a device has an address.
IsTable(t) == DOMAIN t \subseteq Devices /\ t \in [DOMAIN t -> IpService!Ips]
Has(t, d, ip) == d \in DOMAIN t /\ t[d] = ip
\* A request, and what another is made of.
IsRequest(r) ==
  r = [device |-> r.device, op |-> r.op, pc |-> r.pc, ip |-> r.ip, rows |-> r.rows, id |-> r.id]
Made(n, r, pc, ip, rows) ==
  IsRequest(n) /\ n.device = r.device /\ n.op = r.op /\ n.pc = pc /\ n.ip = ip /\ n.rows = rows
RequestShape(r) ==
  /\ IsRequest(r) /\ r.device \in Devices /\ IsTable(r.rows)
  /\ r.op \in {"allocate", "release"} /\ r.ip \in 0 .. Hosts
  /\ r.pc \in {"arrived", "read", "loaded", "store", "delete", "reply"}
IpTypes ==
  /\ client \in [Devices -> [waits : {"none", "allocate", "release"}, our_ip : 0 .. Hosts]]
  /\ \A r \in ip_requests : RequestShape(r)
  /\ IsTable(assigned_ips) /\ IsTable(virtual_ips)
  /\ next_host_idx \in Nat /\ db_loaded \in BOOLEAN
\* Nothing is assigned, and no request goes on, before the flag is set.
RequestGoes(r) ==
  /\ r.pc \in {"loaded", "store", "delete", "reply"} => db_loaded
  /\ (r.pc = "store" => r.op = "allocate" /\ r.ip \in IpService!Ips) /\ (r.pc = "delete" => r.op = "release")
  /\ IpService!Injective(r.rows)
LoadedInv ==
  /\ ~db_loaded => DOMAIN assigned_ips = {}
  /\ \A r \in ip_requests : RequestGoes(r)
\* While no answer is late, a device has one request at the service at most, the one it waits for.
LateInv ==
  "late" \notin mishaps =>
    \A r \in ip_requests : /\ client[r.device].waits = r.op
                           /\ \A s \in ip_requests : s.device = r.device => s = r

\* Every row was loaded and written, and no answer was late.
Clean == mishaps \subseteq {"restarted", "not_deleted"}
CleanRequest(r) ==
  /\ r.pc = "read" /\ ~db_loaded => r.rows = virtual_ips
  /\ r.pc = "store" => Has(assigned_ips, r.device, r.ip) /\ client[r.device].our_ip = Hosts
  /\ r.pc = "reply" /\ r.op = "allocate" =>
        Has(assigned_ips, r.device, r.ip) /\ Has(virtual_ips, r.device, r.ip)
  /\ r.pc = "delete" => r.device \notin DOMAIN assigned_ips
Written(d) == Has(virtual_ips, d, assigned_ips[d]) \/ \E r \in ip_requests : r.device = d /\ r.pc = "store"
ClientKnows(d, ip) ==
  IpService!Holds(d, ip) => Has(virtual_ips, d, ip) /\ (db_loaded => Has(assigned_ips, d, ip))
CleanInv ==
  Clean => /\ \A r \in ip_requests : CleanRequest(r)
           /\ \A d \in DOMAIN assigned_ips : Written(d)
           /\ \A d \in Devices, ip \in IpService!Ips : ClientKnows(d, ip)

\* There was no restart, and no answer was late.
Unbroken == mishaps \cap {"restarted", "late"} = {}
UnbrokenRequest(r) ==
  /\ r.pc = "read" => DOMAIN r.rows = {}
  /\ r.pc = "store" \/ (r.pc = "reply" /\ r.op = "allocate") => Has(assigned_ips, r.device, r.ip)
UnbrokenInv ==
  Unbroken => /\ \A r \in ip_requests : UnbrokenRequest(r)
              /\ ~db_loaded => DOMAIN virtual_ips = {}
              /\ \A d \in Devices, ip \in IpService!Ips :
                    IpService!Holds(d, ip) => Has(assigned_ips, d, ip)
UniqueInv == IpService!OneDevicePerIp
IpInv == IpTypes /\ LoadedInv /\ LateInv /\ CleanInv /\ UnbrokenInv /\ UniqueInv

\* What the constants of the addresses stand for.
LEMMA IpConstants == Hosts \in Nat /\ Hosts > 0 /\ MaxRequests \in Nat /\ MaxFaults \in Nat
  BY RequestsAssumption DEF IpService!Constants

\* The table without entries.
LEMMA EmptyTable == IsTable(IpService!Nothing) /\ DOMAIN IpService!Nothing = {} /\ IpService!Injective(IpService!Nothing)
  BY DEF IsTable, IpService!Nothing, IpService!Injective

\* A table with an entry more, and one less.
LEMMA PutRight ==
  ASSUME NEW t, IsTable(t), NEW d \in Devices, NEW ip \in IpService!Ips
  PROVE  /\ IsTable(IpService!Put(t, d, ip)) /\ Has(IpService!Put(t, d, ip), d, ip)
         /\ DOMAIN IpService!Put(t, d, ip) = DOMAIN t \cup {d}
         /\ \A e, i : e # d => (Has(IpService!Put(t, d, ip), e, i) <=> Has(t, e, i))
         /\ IpService!Injective(t) /\ (\A e \in DOMAIN t : e # d => t[e] # ip)
               => IpService!Injective(IpService!Put(t, d, ip))
<1>1. PICK u : u = IpService!Put(t, d, ip) /\ u = [e \in DOMAIN t \cup {d} |-> IF e = d THEN ip ELSE t[e]]
  BY Zenon DEF IpService!Put
<1>2. IsTable(u)
  BY <1>1 DEF IsTable
<1>3. Has(u, d, ip) /\ DOMAIN u = DOMAIN t \cup {d}
  BY <1>1 DEF Has
<1>4. \A e, i : e # d => (Has(u, e, i) <=> Has(t, e, i))
  BY <1>1 DEF Has
<1>5. IpService!Injective(t) /\ (\A e \in DOMAIN t : e # d => t[e] # ip) => IpService!Injective(u)
  BY <1>1 DEF IpService!Injective
<1> QED
  BY <1>1, <1>2, <1>3, <1>4, <1>5

\* A table with an entry less.
LEMMA DropRight ==
  ASSUME NEW t, IsTable(t), NEW d \in Devices
  PROVE  /\ IsTable(IpService!Drop(t, d)) /\ DOMAIN IpService!Drop(t, d) = DOMAIN t \ {d}
         /\ \A e, i : e # d => (Has(IpService!Drop(t, d), e, i) <=> Has(t, e, i))
         /\ IpService!Injective(t) => IpService!Injective(IpService!Drop(t, d))
<1>1. PICK u : u = IpService!Drop(t, d) /\ u = [e \in DOMAIN t \ {d} |-> t[e]]
  BY Zenon DEF IpService!Drop
<1>2. IsTable(u) /\ DOMAIN u = DOMAIN t \ {d}
  BY <1>1 DEF IsTable
<1>3. \A e, i : e # d => (Has(u, e, i) <=> Has(t, e, i))
  BY <1>1 DEF Has
<1>4. IpService!Injective(t) => IpService!Injective(u)
  BY <1>1 DEF IpService!Injective
<1> QED
  BY <1>1, <1>2, <1>3, <1>4

\* Rows that take the place of what was in memory.
LEMMA TakenOverRight ==
  ASSUME NEW rows, IsTable(rows), NEW t, IsTable(t)
  PROVE  /\ IsTable(IpService!TakenOver(rows, t))
         /\ DOMAIN t = {} => IpService!TakenOver(rows, t) = rows
         /\ DOMAIN rows = {} => IpService!TakenOver(rows, t) = t
<1>1. PICK u : /\ u = IpService!TakenOver(rows, t)
               /\ u = [d \in DOMAIN rows \cup DOMAIN t |-> IF d \in DOMAIN rows THEN rows[d] ELSE t[d]]
  BY Zenon DEF IpService!TakenOver
<1>2. IsTable(u)
  BY <1>1 DEF IsTable
<1>3. DOMAIN t = {} => u = rows
  BY <1>1 DEF IsTable
<1>4. DOMAIN rows = {} => u = t
  BY <1>1 DEF IsTable
<1> QED
  BY <1>1, <1>2, <1>3, <1>4

\* The index behind the last address of the rows.
LEMMA NextIndexRight ==
  ASSUME NEW rows, IsTable(rows)
  PROVE  IpService!NextIndex(rows) \in Nat
<1> USE IpConstants
<1>1. CASE rows = IpService!Nothing
  BY <1>1 DEF IpService!NextIndex
<1>2. CASE rows # IpService!Nothing
  <2>1. PICK U : U = IpService!Used(rows)
    OBVIOUS
  <2>2. U \subseteq IpService!Ips
    BY <2>1 DEF IpService!Used, IsTable
  <2>3. U # {}
    <3>1. DOMAIN rows # {}
      BY <1>2 DEF IsTable, IpService!Nothing
    <3> QED
      BY <2>1, <3>1 DEF IpService!Used
  <2>4. \E i \in U : \A j \in U : j <= i
    <3>1. PICK T : T = {n \in Nat : \E j \in U : n = Hosts - j}
      OBVIOUS
    <3>2. T \subseteq Nat /\ T # {}
      <4>1. PICK j \in U : TRUE
        BY <2>3
      <4>2. Hosts - j \in Nat
        BY <2>2, <4>1 DEF IpService!Ips
      <4> QED
        BY <3>1, <4>2
    <3>3. PICK n \in T : \A m \in T : n <= m
      BY <3>2, LeastNat
    <3>4. PICK i \in U : n = Hosts - i
      BY <3>1
    <3>5. ASSUME NEW j \in U PROVE j <= i
      <4>1. Hosts - j \in T
        BY <2>2, <3>1 DEF IpService!Ips
      <4>2. n <= Hosts - j
        BY <3>3, <4>1
      <4> QED
        BY <2>2, <3>4, <4>2 DEF IpService!Ips
    <3> QED
      BY <3>5
  <2>5. PICK i \in U : i = CHOOSE k \in U : \A j \in U : j <= k
    BY <2>4
  <2>6. IpService!NextIndex(rows) = i + 1
    BY <1>2, <2>1, <2>5 DEF IpService!NextIndex
  <2> QED
    BY <2>2, <2>6 DEF IpService!Ips
<1> QED
  BY <1>1, <1>2

\* What a request is made into.
LEMMA Remade ==
  ASSUME NEW r, IsRequest(r), NEW pc, NEW x
  PROVE  /\ Made([r EXCEPT !.pc = pc], r, pc, r.ip, r.rows)
         /\ Made([r EXCEPT !.pc = pc, !.ip = x], r, pc, x, r.rows)
         /\ Made([r EXCEPT !.pc = pc, !.rows = x], r, pc, r.ip, x)
<1>0. PICK a, b, c, d, e, f : r = [device |-> a, op |-> b, pc |-> c, ip |-> d, rows |-> e, id |-> f]
  BY Zenon DEF IsRequest
<1>1. r.device = a /\ r.op = b /\ r.pc = c /\ r.ip = d /\ r.rows = e /\ r.id = f
  BY <1>0
<1>2. PICK n : n = [device |-> a, op |-> b, pc |-> pc, ip |-> d, rows |-> e, id |-> f]
  OBVIOUS
<1>3. PICK m : m = [device |-> a, op |-> b, pc |-> pc, ip |-> x, rows |-> e, id |-> f]
  OBVIOUS
<1>4. PICK l : l = [device |-> a, op |-> b, pc |-> pc, ip |-> d, rows |-> x, id |-> f]
  OBVIOUS
<1>5. [r EXCEPT !.pc = pc] = n
  BY <1>0, <1>2
<1>6. [n EXCEPT !.ip = x] = m
  BY <1>2, <1>3
<1>7. [n EXCEPT !.rows = x] = l
  BY <1>2, <1>4
<1>8. /\ [r EXCEPT !.pc = pc, !.ip = x] = [[r EXCEPT !.pc = pc] EXCEPT !.ip = x]
      /\ [r EXCEPT !.pc = pc, !.rows = x] = [[r EXCEPT !.pc = pc] EXCEPT !.rows = x]
  BY Zenon
<1>9. [r EXCEPT !.pc = pc, !.ip = x] = m /\ [r EXCEPT !.pc = pc, !.rows = x] = l
  BY <1>5, <1>6, <1>7, <1>8, Zenon
<1>10. Made(n, r, pc, d, e)
  BY <1>1, <1>2 DEF Made, IsRequest
<1>11. Made(m, r, pc, x, e)
  BY <1>1, <1>3 DEF Made, IsRequest
<1>12. Made(l, r, pc, d, x)
  BY <1>1, <1>4 DEF Made, IsRequest
<1> QED
  BY <1>1, <1>5, <1>9, <1>10, <1>11, <1>12, Zenon

\* The initial states of the addresses satisfy the invariant.
LEMMA IpInit == IpService!Init => IpInv
<1> SUFFICES ASSUME IpService!Init PROVE IpInv
  OBVIOUS
<1>0. client = [d \in Devices |-> [waits |-> "none", our_ip |-> Hosts]]
  BY DEF IpService!Init, IpService!NoIp
<1>1. /\ ip_requests = {} /\ assigned_ips = IpService!Nothing /\ virtual_ips = IpService!Nothing
      /\ next_host_idx = 0 /\ db_loaded = FALSE
  BY DEF IpService!Init
<1>2. IpTypes
  <2>1. client \in [Devices -> [waits : {"none", "allocate", "release"}, our_ip : 0 .. Hosts]]
    BY <1>0, IpConstants
  <2> QED
    BY <1>1, <2>1, EmptyTable DEF IpTypes
<1>3. LoadedInv
  BY <1>1, EmptyTable DEF LoadedInv
<1>4. LateInv
  BY <1>1 DEF LateInv
<1>5. \A d \in Devices, ip \in IpService!Ips : ~ IpService!Holds(d, ip)
  BY <1>0, IpConstants DEF IpService!Holds, IpService!Ips
<1>6. CleanInv
  BY <1>1, <1>5, EmptyTable DEF CleanInv, ClientKnows
<1>7. UnbrokenInv
  BY <1>1, <1>5, EmptyTable DEF UnbrokenInv
<1>8. UniqueInv
  BY <1>1, EmptyTable DEF UniqueInv, IpService!OneDevicePerIp
<1> QED
  BY <1>2, <1>3, <1>4, <1>6, <1>7, <1>8 DEF IpInv

-----------------------------------------------------------------------------
\* A request r becomes n; the clients stay as they are.
StepTo(r, n) ==
  /\ r \in ip_requests /\ n.device = r.device /\ n.op = r.op
  /\ ip_requests' = (ip_requests \ {r}) \cup {n}
  /\ client' = client /\ mishaps \subseteq mishaps'
\* A table u has of the devices other than d what a table t has.
SameButFor(t, u, d) == \A e, i : e # d => (Has(u, e, i) <=> Has(t, e, i))

\* Tables that are the same but for one device have the others in common.
LEMMA SameDomain ==
  ASSUME NEW t, NEW u, NEW d, SameButFor(t, u, d), NEW e, e # d
  PROVE  (e \in DOMAIN u <=> e \in DOMAIN t) /\ (e \in DOMAIN t => u[e] = t[e])
<1>1. \A i : Has(u, e, i) <=> Has(t, e, i)
  BY DEF SameButFor
<1>2. \A i : (e \in DOMAIN u /\ u[e] = i) <=> (e \in DOMAIN t /\ t[e] = i)
  BY <1>1 DEF Has
<1> QED
  BY <1>2

\* No other request of its device is at the service.
LEMMA Alone ==
  ASSUME LateInv, "late" \notin mishaps, NEW r \in ip_requests, NEW s \in ip_requests, s # r
  PROVE  s.device # r.device
  BY DEF LateInv

\* A request that goes on keeps the shapes, if what it writes has them.
LEMMA StepTypes ==
  ASSUME IpTypes, NEW r, NEW n, StepTo(r, n), RequestShape(n),
         IsTable(assigned_ips'), IsTable(virtual_ips'), next_host_idx' \in Nat, db_loaded' \in BOOLEAN
  PROVE  IpTypes'
<1>1. \A s \in ip_requests' : RequestShape(s)
  BY DEF IpTypes, StepTo
<1> QED
  BY <1>1 DEF IpTypes, StepTo

\* A request that goes on keeps what is said of memory before the rows are loaded.
LEMMA StepLoaded ==
  ASSUME LoadedInv, NEW r, NEW n, StepTo(r, n), db_loaded => db_loaded',
         ~db_loaded' => DOMAIN assigned_ips' = {}, RequestGoes(n)'
  PROVE  LoadedInv'
<1>1. ASSUME NEW s \in ip_requests' PROVE RequestGoes(s)'
  <2>1. s = n \/ s \in ip_requests
    BY <1>1 DEF StepTo
  <2> QED
    BY <2>1 DEF LoadedInv, RequestGoes
<1> QED
  BY <1>1 DEF LoadedInv

\* A request that goes on is still the only one of its device.
LEMMA StepLate == ASSUME LateInv, NEW r, NEW n, StepTo(r, n) PROVE LateInv'
<1> SUFFICES ASSUME "late" \notin mishaps' PROVE LateInv'
  BY DEF LateInv
<1>1. "late" \notin mishaps /\ r \in ip_requests
  BY DEF StepTo
<1>2. ASSUME NEW s \in ip_requests' PROVE client'[s.device].waits = s.op
  BY <1>1, <1>2 DEF LateInv, StepTo
<1>3. ASSUME NEW s \in ip_requests', NEW q \in ip_requests', q.device = s.device PROVE q = s
  <2>1. (s = n \/ (s \in ip_requests /\ s # r)) /\ (q = n \/ (q \in ip_requests /\ q # r)) /\ n.device = r.device
    BY <1>3 DEF StepTo
  <2> QED
    BY <1>1, <1>3, <2>1 DEF LateInv
<1> QED
  BY <1>2, <1>3 DEF LateInv

\* Without a restart, a request that goes on changes the entry of its device alone.
LEMMA StepUnbroken ==
  ASSUME LateInv, UnbrokenInv, NEW r, NEW n, StepTo(r, n),
         Unbroken' => /\ SameButFor(assigned_ips, assigned_ips', r.device) /\ UnbrokenRequest(n)'
                      /\ ~db_loaded' => DOMAIN virtual_ips' = {}
                      /\ \A ip \in IpService!Ips : IpService!Holds(r.device, ip) => Has(assigned_ips', r.device, ip)
  PROVE  UnbrokenInv'
<1> SUFFICES ASSUME Unbroken' PROVE UnbrokenInv'
  BY DEF UnbrokenInv
<1>1. Unbroken /\ "late" \notin mishaps /\ r \in ip_requests
  BY DEF Unbroken, StepTo
<1>2. ASSUME NEW s \in ip_requests' PROVE UnbrokenRequest(s)'
  <2>1. CASE s = n
    BY <2>1
  <2>2. CASE s # n
    <3>1. s \in ip_requests /\ s # r
      BY <1>2, <2>2 DEF StepTo
    <3>2. s.device # r.device
      BY <1>1, <3>1, Alone
    <3>3. UnbrokenRequest(s)
      BY <1>1, <3>1 DEF UnbrokenInv
    <3>4. Has(assigned_ips', s.device, s.ip) <=> Has(assigned_ips, s.device, s.ip)
      BY <3>2 DEF SameButFor
    <3> QED
      BY <3>3, <3>4 DEF UnbrokenRequest
  <2> QED
    BY <2>1, <2>2
<1>3. ASSUME NEW d \in Devices, NEW ip \in IpService!Ips, IpService!Holds(d, ip)' PROVE Has(assigned_ips', d, ip)
  <2>1. IpService!Holds(d, ip)
    BY <1>3 DEF StepTo, IpService!Holds
  <2>2. CASE d = r.device
    BY <2>1, <2>2
  <2>3. CASE d # r.device
    <3>1. Has(assigned_ips, d, ip)
      BY <1>1, <2>1 DEF UnbrokenInv
    <3> QED
      BY <2>3, <3>1 DEF SameButFor
  <2> QED
    BY <2>2, <2>3
<1> QED
  BY <1>2, <1>3 DEF UnbrokenInv

\* With rows that agree, a request that goes on changes those of its device alone.
LEMMA StepClean ==
  ASSUME LateInv, CleanInv, NEW r, NEW n, StepTo(r, n),
         Clean' => /\ SameButFor(assigned_ips, assigned_ips', r.device)
                   /\ SameButFor(virtual_ips, virtual_ips', r.device)
                   /\ db_loaded' = db_loaded /\ (db_loaded \/ virtual_ips' = virtual_ips)
                   /\ CleanRequest(n)'
                   /\ r.device \in DOMAIN assigned_ips' => Written(r.device)'
                   /\ \A ip \in IpService!Ips : ClientKnows(r.device, ip)'
  PROVE  CleanInv'
<1> SUFFICES ASSUME Clean' PROVE CleanInv'
  BY DEF CleanInv
<1>1. Clean /\ "late" \notin mishaps /\ r \in ip_requests
  BY DEF Clean, StepTo
<1>2. ASSUME NEW s \in ip_requests' PROVE CleanRequest(s)'
  <2>1. CASE s = n
    BY <2>1
  <2>2. CASE s # n
    <3>1. s \in ip_requests /\ s # r
      BY <1>2, <2>2 DEF StepTo
    <3>2. s.device # r.device
      BY <1>1, <3>1, Alone
    <3>3. CleanRequest(s)
      BY <1>1, <3>1 DEF CleanInv
    <3>4. /\ Has(assigned_ips', s.device, s.ip) <=> Has(assigned_ips, s.device, s.ip)
          /\ Has(virtual_ips', s.device, s.ip) <=> Has(virtual_ips, s.device, s.ip)
      BY <3>2 DEF SameButFor
    <3>5. s.device \in DOMAIN assigned_ips' <=> s.device \in DOMAIN assigned_ips
      BY <3>2, SameDomain
    <3>6. client' = client
      BY DEF StepTo
    <3> QED
      BY <3>3, <3>4, <3>5, <3>6 DEF CleanRequest
  <2> QED
    BY <2>1, <2>2
<1>3. ASSUME NEW d \in DOMAIN assigned_ips' PROVE Written(d)'
  <2>1. CASE d = r.device
    BY <1>3, <2>1
  <2>2. CASE d # r.device
    <3>1. d \in DOMAIN assigned_ips /\ assigned_ips'[d] = assigned_ips[d]
      BY <1>3, <2>2, SameDomain
    <3>2. Written(d)
      BY <1>1, <3>1 DEF CleanInv
    <3>3. Has(virtual_ips, d, assigned_ips[d]) => Has(virtual_ips', d, assigned_ips'[d])
      BY <2>2, <3>1 DEF SameButFor
    <3>4. \A s \in ip_requests : s.device = d => s \in ip_requests'
      BY <2>2 DEF StepTo
    <3> QED
      BY <3>2, <3>3, <3>4 DEF Written
  <2> QED
    BY <2>1, <2>2
<1>4. ASSUME NEW d \in Devices, NEW ip \in IpService!Ips PROVE ClientKnows(d, ip)'
  <2>1. CASE d = r.device
    BY <2>1
  <2>2. CASE d # r.device
    <3>1. IpService!Holds(d, ip)' <=> IpService!Holds(d, ip)
      BY DEF StepTo, IpService!Holds
    <3>2. ClientKnows(d, ip)
      BY <1>1 DEF CleanInv
    <3>3. /\ Has(assigned_ips', d, ip) <=> Has(assigned_ips, d, ip)
          /\ Has(virtual_ips', d, ip) <=> Has(virtual_ips, d, ip)
      BY <2>2 DEF SameButFor
    <3> QED
      BY <3>1, <3>2, <3>3 DEF ClientKnows
  <2> QED
    BY <2>1, <2>2
<1> QED
  BY <1>2, <1>3, <1>4 DEF CleanInv

-----------------------------------------------------------------------------
\* An address keeps its one device where the tables do.
LEMMA OneKept ==
  ASSUME UniqueInv, mishaps \subseteq mishaps',
         assigned_ips' = assigned_ips \/ (IpService!Injective(assigned_ips) => IpService!Injective(assigned_ips')),
         virtual_ips' = virtual_ips \/ (IpService!Injective(virtual_ips) => IpService!Injective(virtual_ips'))
  PROVE  UniqueInv'
<1>1. IpService!Injective(virtual_ips) => IpService!Injective(virtual_ips')
  OBVIOUS
<1>2. IpService!Injective(assigned_ips) => IpService!Injective(assigned_ips')
  OBVIOUS
<1> QED
  BY <1>1, <1>2 DEF UniqueInv, IpService!OneDevicePerIp

\* A table is the same as itself.
LEMMA SameTable == ASSUME NEW t, NEW d PROVE SameButFor(t, t, d)
  BY DEF SameButFor

\* _load_from_db: the rows are read.
LEMMA ReadRowsRight == ASSUME IpInv, NEW r \in ip_requests, IpService!ReadRows(r) PROVE IpInv'
<1>0. RequestShape(r) /\ RequestGoes(r)
  BY DEF IpInv, IpTypes, LoadedInv
<1>1. /\ r.pc = "arrived" /\ ~db_loaded
      /\ ip_requests' = (ip_requests \ {r}) \cup {[r EXCEPT !.pc = "read", !.rows = virtual_ips]}
      /\ client' = client /\ assigned_ips' = assigned_ips /\ next_host_idx' = next_host_idx
      /\ db_loaded' = db_loaded /\ virtual_ips' = virtual_ips /\ mishaps' = mishaps
  BY DEF IpService!ReadRows, IpService!memory
<1>2. PICK n : n = [r EXCEPT !.pc = "read", !.rows = virtual_ips] /\ Made(n, r, "read", r.ip, virtual_ips)
  BY <1>0, Remade DEF RequestShape
<1>3. StepTo(r, n)
  BY <1>1, <1>2 DEF StepTo, Made
<1>4. n.device = r.device /\ n.op = r.op /\ n.pc = "read" /\ n.ip = r.ip /\ n.rows = virtual_ips /\ IsRequest(n)
  BY <1>2 DEF Made
<1>5. IpTypes'
  <2>1. RequestShape(n)
    BY <1>0, <1>4 DEF RequestShape, IpInv, IpTypes
  <2> QED
    BY <1>1, <1>3, <2>1, StepTypes DEF IpInv, IpTypes
<1>6. LoadedInv'
  <2>1. RequestGoes(n)'
    BY <1>4 DEF RequestGoes, IpInv, UniqueInv, IpService!OneDevicePerIp
  <2>2. ~db_loaded' => DOMAIN assigned_ips' = {}
    BY <1>1 DEF IpInv, LoadedInv
  <2> QED
    BY <1>1, <1>3, <2>1, <2>2, StepLoaded DEF IpInv
<1>7. LateInv'
  BY <1>3, StepLate DEF IpInv
<1>8. UnbrokenInv'
  <2>1. ASSUME Unbroken'
        PROVE  /\ SameButFor(assigned_ips, assigned_ips', r.device) /\ UnbrokenRequest(n)'
               /\ ~db_loaded' => DOMAIN virtual_ips' = {}
               /\ \A ip \in IpService!Ips : IpService!Holds(r.device, ip) => Has(assigned_ips', r.device, ip)
    <3>1. Unbroken
      BY <1>1, <2>1 DEF Unbroken
    <3> QED
      BY <1>0, <1>1, <1>4, <3>1, SameTable DEF IpInv, UnbrokenInv, UnbrokenRequest, RequestShape
  <2> QED
    BY <1>3, <2>1, StepUnbroken DEF IpInv
<1>9. CleanInv'
  <2>1. ASSUME Clean'
        PROVE  /\ SameButFor(assigned_ips, assigned_ips', r.device)
               /\ SameButFor(virtual_ips, virtual_ips', r.device)
               /\ db_loaded' = db_loaded /\ (db_loaded \/ virtual_ips' = virtual_ips)
               /\ CleanRequest(n)'
               /\ r.device \in DOMAIN assigned_ips' => Written(r.device)'
               /\ \A ip \in IpService!Ips : ClientKnows(r.device, ip)'
    <3>1. Clean
      BY <1>1, <2>1 DEF Clean
    <3>2. CleanRequest(n)'
      BY <1>1, <1>4 DEF CleanRequest
    <3>3. r.device \notin DOMAIN assigned_ips'
      BY <1>1 DEF IpInv, LoadedInv
    <3>4. \A ip \in IpService!Ips : ClientKnows(r.device, ip)'
      <4>1. \A ip \in IpService!Ips : ClientKnows(r.device, ip)
        BY <1>0, <3>1 DEF IpInv, CleanInv, RequestShape
      <4> QED
        BY <1>1, <4>1 DEF ClientKnows, IpService!Holds
    <3> QED
      BY <1>1, <3>2, <3>3, <3>4, SameTable
  <2> QED
    BY <1>3, <2>1, StepClean DEF IpInv
<1>10. UniqueInv'
  BY <1>1, OneKept DEF IpInv
<1> QED
  BY <1>5, <1>6, <1>7, <1>8, <1>9, <1>10 DEF IpInv

\* _load_from_db: memory is filled from them.
LEMMA LoadFromDbRight == ASSUME IpInv, NEW r \in ip_requests, IpService!LoadFromDb(r) PROVE IpInv'
<1>0. RequestShape(r) /\ RequestGoes(r)
  BY DEF IpInv, IpTypes, LoadedInv
<1>1. /\ r.pc = "read"
      /\ ip_requests' = (ip_requests \ {r}) \cup {[r EXCEPT !.pc = "loaded", !.rows = IpService!Nothing]}
      /\ client' = client /\ assigned_ips' = IpService!TakenOver(r.rows, assigned_ips)
      /\ next_host_idx' = IpService!NextIndex(r.rows)
      /\ db_loaded' = TRUE /\ virtual_ips' = virtual_ips
      /\ mishaps' = IF db_loaded THEN mishaps \cup {"loaded_twice"} ELSE mishaps
  BY DEF IpService!LoadFromDb
<1>2. PICK n : n = [r EXCEPT !.pc = "loaded", !.rows = IpService!Nothing] /\ Made(n, r, "loaded", r.ip, IpService!Nothing)
  BY <1>0, Remade DEF RequestShape
<1>3. StepTo(r, n)
  BY <1>1, <1>2 DEF StepTo, Made
<1>4. n.device = r.device /\ n.op = r.op /\ n.pc = "loaded" /\ n.ip = r.ip /\ n.rows = IpService!Nothing /\ IsRequest(n)
  BY <1>2 DEF Made
<1>t. IsTable(r.rows) /\ IsTable(assigned_ips) /\ IsTable(virtual_ips)
  BY <1>0 DEF RequestShape, IpInv, IpTypes
<1>a. /\ IsTable(assigned_ips')
      /\ DOMAIN assigned_ips = {} => assigned_ips' = r.rows
      /\ DOMAIN r.rows = {} => assigned_ips' = assigned_ips
  BY <1>1, <1>t, TakenOverRight
<1>5. IpTypes'
  <2>1. RequestShape(n)
    BY <1>0, <1>4, EmptyTable DEF RequestShape
  <2>2. next_host_idx' \in Nat /\ db_loaded' \in BOOLEAN
    BY <1>1, <1>t, NextIndexRight
  <2>3. IsTable(virtual_ips')
    BY <1>1, <1>t
  <2> QED
    BY <1>3, <1>a, <2>1, <2>2, <2>3, StepTypes DEF IpInv
<1>6. LoadedInv'
  <2>1. RequestGoes(n)'
    BY <1>1, <1>4, EmptyTable DEF RequestGoes
  <2> QED
    BY <1>1, <1>3, <2>1, StepLoaded DEF IpInv
<1>7. LateInv'
  BY <1>3, StepLate DEF IpInv
<1>8. UnbrokenInv'
  <2>1. ASSUME Unbroken'
        PROVE  /\ SameButFor(assigned_ips, assigned_ips', r.device) /\ UnbrokenRequest(n)'
               /\ ~db_loaded' => DOMAIN virtual_ips' = {}
               /\ \A ip \in IpService!Ips : IpService!Holds(r.device, ip) => Has(assigned_ips', r.device, ip)
    <3>1. Unbroken
      BY <1>1, <2>1 DEF Unbroken
    <3>2. assigned_ips' = assigned_ips
      BY <1>1, <1>a, <3>1 DEF IpInv, UnbrokenInv, UnbrokenRequest
    <3>3. UnbrokenRequest(n)'
      BY <1>4 DEF UnbrokenRequest
    <3> QED
      BY <1>0, <1>1, <3>1, <3>2, <3>3, SameTable DEF IpInv, UnbrokenInv, RequestShape
  <2> QED
    BY <1>3, <2>1, StepUnbroken DEF IpInv
<1>b. ~db_loaded => assigned_ips' = r.rows
  BY <1>a DEF IpInv, LoadedInv
<1>9. CleanInv'
  <2> SUFFICES ASSUME Clean' PROVE CleanInv'
    BY DEF CleanInv
  <2>1. Clean /\ ~db_loaded
    BY <1>1 DEF Clean
  <2>2. assigned_ips' = virtual_ips'
    BY <1>1, <1>b, <2>1 DEF IpInv, CleanInv, CleanRequest
  <2>3. ASSUME NEW s \in ip_requests' PROVE CleanRequest(s)'
    <3>1. s = n \/ s \in ip_requests
      BY <2>3, <1>3 DEF StepTo
    <3>2. s.pc \in {"arrived", "read", "loaded"}
      <4>1. CASE s = n
        BY <1>4, <4>1
      <4>2. CASE s \in ip_requests
        BY <2>1, <4>2 DEF IpInv, IpTypes, RequestShape, LoadedInv, RequestGoes
      <4> QED
        BY <3>1, <4>1, <4>2
    <3> QED
      BY <1>1, <3>2 DEF CleanRequest
  <2>4. ASSUME NEW d \in DOMAIN assigned_ips' PROVE Written(d)'
    BY <2>2, <2>4 DEF Written, Has
  <2>5. ASSUME NEW d \in Devices, NEW ip \in IpService!Ips PROVE ClientKnows(d, ip)'
    <3>1. ClientKnows(d, ip)
      BY <2>1 DEF IpInv, CleanInv
    <3> QED
      BY <1>1, <2>2, <3>1 DEF ClientKnows, IpService!Holds
  <2> QED
    BY <2>3, <2>4, <2>5 DEF CleanInv
<1>10. UniqueInv'
  <2>1. IpService!Injective(virtual_ips')
    BY <1>1 DEF IpInv, UniqueInv, IpService!OneDevicePerIp
  <2>2. ASSUME "loaded_twice" \notin mishaps' PROVE IpService!Injective(assigned_ips')
    BY <1>0, <1>1, <1>b, <2>2 DEF RequestGoes
  <2> QED
    BY <2>1, <2>2 DEF UniqueInv, IpService!OneDevicePerIp
<1> QED
  BY <1>5, <1>6, <1>7, <1>8, <1>9, <1>10 DEF IpInv

\* _load_from_db: the database fails.
LEMMA LoadFailsRight == ASSUME IpInv, NEW r \in ip_requests, IpService!LoadFails(r) PROVE IpInv'
<1>0. RequestShape(r) /\ RequestGoes(r)
  BY DEF IpInv, IpTypes, LoadedInv
<1>1. /\ r.pc = "arrived" /\ ~db_loaded
      /\ ip_requests' = (ip_requests \ {r}) \cup {[r EXCEPT !.pc = "loaded"]}
      /\ client' = client /\ assigned_ips' = assigned_ips /\ next_host_idx' = next_host_idx
      /\ db_loaded' = TRUE /\ virtual_ips' = virtual_ips /\ mishaps' = mishaps \cup {"not_loaded"}
  BY DEF IpService!LoadFails, IpService!At
<1>2. PICK n : n = [r EXCEPT !.pc = "loaded"] /\ Made(n, r, "loaded", r.ip, r.rows)
  BY <1>0, Remade DEF RequestShape
<1>3. StepTo(r, n)
  BY <1>1, <1>2 DEF StepTo, Made
<1>4. n.device = r.device /\ n.op = r.op /\ n.pc = "loaded" /\ n.ip = r.ip /\ n.rows = r.rows /\ IsRequest(n)
  BY <1>2 DEF Made
<1>5. IpTypes'
  <2>1. RequestShape(n)
    BY <1>0, <1>4 DEF RequestShape
  <2> QED
    BY <1>1, <1>3, <2>1, StepTypes DEF IpInv, IpTypes
<1>6. LoadedInv'
  <2>1. RequestGoes(n)'
    BY <1>0, <1>1, <1>4 DEF RequestGoes
  <2> QED
    BY <1>1, <1>3, <2>1, StepLoaded DEF IpInv
<1>7. LateInv'
  BY <1>3, StepLate DEF IpInv
<1>8. UnbrokenInv'
  <2>1. ASSUME Unbroken'
        PROVE  /\ SameButFor(assigned_ips, assigned_ips', r.device) /\ UnbrokenRequest(n)'
               /\ ~db_loaded' => DOMAIN virtual_ips' = {}
               /\ \A ip \in IpService!Ips : IpService!Holds(r.device, ip) => Has(assigned_ips', r.device, ip)
    <3>1. Unbroken
      BY <1>1, <2>1 DEF Unbroken
    <3> QED
      BY <1>0, <1>1, <1>4, <3>1, SameTable DEF IpInv, UnbrokenInv, UnbrokenRequest, RequestShape
  <2> QED
    BY <1>3, <2>1, StepUnbroken DEF IpInv
<1>9. CleanInv'
  BY <1>1 DEF CleanInv, Clean
<1>10. UniqueInv'
  BY <1>1, OneKept DEF IpInv
<1> QED
  BY <1>5, <1>6, <1>7, <1>8, <1>9, <1>10 DEF IpInv

\* A request that goes on leaves: nothing else changes.
LEMMA Dropped ==
  ASSUME IpInv, NEW r \in ip_requests, r.pc # "store", ip_requests' = ip_requests \ {r},
         client' = client, assigned_ips' = assigned_ips, next_host_idx' = next_host_idx,
         db_loaded' = db_loaded, virtual_ips' = virtual_ips, mishaps' = mishaps
  PROVE  IpInv'
<1>1. IpTypes'
  BY DEF IpInv, IpTypes
<1>2. LoadedInv'
  BY DEF IpInv, LoadedInv, RequestGoes
<1>3. LateInv'
  BY DEF IpInv, LateInv
<1>4. UnbrokenInv'
  BY DEF IpInv, UnbrokenInv, Unbroken, UnbrokenRequest, IpService!Holds
<1>5. CleanInv'
  <2> SUFFICES ASSUME Clean' PROVE CleanInv'
    BY DEF CleanInv
  <2>1. Clean
    BY DEF Clean
  <2>2. \A s \in ip_requests' : CleanRequest(s)'
    BY <2>1 DEF IpInv, CleanInv, CleanRequest
  <2>3. \A d \in DOMAIN assigned_ips' : Written(d)'
    BY <2>1 DEF IpInv, CleanInv, Written
  <2>4. \A d \in Devices, ip \in IpService!Ips : ClientKnows(d, ip)'
    BY <2>1 DEF IpInv, CleanInv, ClientKnows, IpService!Holds
  <2> QED
    BY <2>2, <2>3, <2>4 DEF CleanInv
<1>6. UniqueInv'
  BY OneKept DEF IpInv
<1> QED
  BY <1>1, <1>2, <1>3, <1>4, <1>5, <1>6 DEF IpInv

\* allocate: an address is found and assigned.
LEMMA AllocateRight == ASSUME IpInv, NEW r \in ip_requests, IpService!Allocate(r) PROVE IpInv'
<1> USE IpConstants
<1>0. RequestShape(r) /\ RequestGoes(r)
  BY DEF IpInv, IpTypes, LoadedInv
<1>1. /\ r.op = "allocate" /\ r.pc \in {"arrived", "loaded"} /\ db_loaded
      /\ client' = client /\ virtual_ips' = virtual_ips /\ mishaps' = mishaps
  BY <1>0 DEF IpService!Allocate, IpService!Loaded, RequestGoes
<1>2. IsTable(r.rows) /\ IsTable(assigned_ips) /\ IsTable(virtual_ips) /\ r.device \in Devices
  BY <1>0 DEF RequestShape, IpInv, IpTypes
\* The device has an address.
<1>3. CASE r.device \in DOMAIN assigned_ips
  <2>1. /\ ip_requests' = (ip_requests \ {r}) \cup {[r EXCEPT !.pc = "reply", !.ip = assigned_ips[r.device]]}
        /\ assigned_ips' = assigned_ips /\ next_host_idx' = next_host_idx /\ db_loaded' = db_loaded
    BY <1>3 DEF IpService!Allocate, IpService!memory
  <2>2. PICK n : /\ n = [r EXCEPT !.pc = "reply", !.ip = assigned_ips[r.device]]
                 /\ Made(n, r, "reply", assigned_ips[r.device], r.rows)
    BY <1>0, Remade DEF RequestShape
  <2>3. StepTo(r, n)
    BY <1>1, <2>1, <2>2 DEF StepTo, Made
  <2>4. /\ n.device = r.device /\ n.op = r.op /\ n.pc = "reply" /\ n.ip = assigned_ips[r.device]
        /\ n.rows = r.rows /\ IsRequest(n)
    BY <2>2 DEF Made
  <2>5. IpTypes'
    <3>1. assigned_ips[r.device] \in 0 .. Hosts
      BY <1>2, <1>3 DEF IsTable, IpService!Ips
    <3>2. RequestShape(n)
      BY <1>0, <2>4, <3>1 DEF RequestShape
    <3> QED
      BY <1>1, <2>1, <2>3, <3>2, StepTypes DEF IpInv, IpTypes
  <2>6. LoadedInv'
    <3>1. RequestGoes(n)'
      BY <1>0, <1>1, <2>1, <2>4 DEF RequestGoes
    <3> QED
      BY <1>1, <2>1, <2>3, <3>1, StepLoaded DEF IpInv
  <2>7. LateInv'
    BY <2>3, StepLate DEF IpInv
  <2>8. Has(assigned_ips, n.device, n.ip)
    BY <1>3, <2>4 DEF Has
  <2>9. UnbrokenInv'
    <3>1. ASSUME Unbroken'
          PROVE  /\ SameButFor(assigned_ips, assigned_ips', r.device) /\ UnbrokenRequest(n)'
                 /\ ~db_loaded' => DOMAIN virtual_ips' = {}
                 /\ \A ip \in IpService!Ips : IpService!Holds(r.device, ip) => Has(assigned_ips', r.device, ip)
      <4>1. Unbroken
        BY <1>1, <3>1 DEF Unbroken
      <4>2. UnbrokenRequest(n)'
        BY <2>1, <2>4, <2>8 DEF UnbrokenRequest
      <4> QED
        BY <1>1, <1>2, <2>1, <4>1, <4>2, SameTable DEF IpInv, UnbrokenInv
    <3> QED
      BY <2>3, <3>1, StepUnbroken DEF IpInv
  <2>10. CleanInv'
    <3>1. ASSUME Clean'
          PROVE  /\ SameButFor(assigned_ips, assigned_ips', r.device)
                 /\ SameButFor(virtual_ips, virtual_ips', r.device)
                 /\ db_loaded' = db_loaded /\ (db_loaded \/ virtual_ips' = virtual_ips)
                 /\ CleanRequest(n)'
                 /\ r.device \in DOMAIN assigned_ips' => Written(r.device)'
                 /\ \A ip \in IpService!Ips : ClientKnows(r.device, ip)'
      <4>1. Clean /\ "late" \notin mishaps
        BY <1>1, <3>1 DEF Clean
      <4>2. Has(virtual_ips, r.device, assigned_ips[r.device])
        <5>1. Written(r.device)
          BY <1>3, <4>1 DEF IpInv, CleanInv
        <5>2. ASSUME NEW s \in ip_requests, s.device = r.device PROVE s = r
          BY <4>1, <5>2, Alone DEF IpInv
        <5> QED
          BY <1>1, <5>1, <5>2 DEF Written
      <4>3. CleanRequest(n)'
        BY <1>1, <2>1, <2>4, <2>8, <4>2 DEF CleanRequest
      <4>4. Written(r.device)'
        BY <1>1, <2>1, <4>2 DEF Written
      <4>5. \A ip \in IpService!Ips : ClientKnows(r.device, ip)'
        <5>1. \A ip \in IpService!Ips : ClientKnows(r.device, ip)
          BY <1>2, <4>1 DEF IpInv, CleanInv
        <5> QED
          BY <1>1, <2>1, <5>1 DEF ClientKnows, IpService!Holds
      <4> QED
        BY <1>1, <2>1, <4>3, <4>4, <4>5, SameTable
    <3> QED
      BY <2>3, <3>1, StepClean DEF IpInv
  <2>11. UniqueInv'
    BY <1>1, <2>1, OneKept DEF IpInv
  <2> QED
    BY <2>5, <2>6, <2>7, <2>9, <2>10, <2>11 DEF IpInv
\* It gets the first that is free.
<1>4. ASSUME r.device \notin DOMAIN assigned_ips,
             NEW k \in IpService!NextSteps,
             assigned_ips' = IpService!Put(assigned_ips, r.device, IpService!InTurn(next_host_idx, k)),
             next_host_idx' = IpService!InTurn(next_host_idx, k + 1),
             ip_requests' = (ip_requests \ {r})
                \cup {[r EXCEPT !.pc = "store", !.ip = IpService!InTurn(next_host_idx, k)]},
             db_loaded' = db_loaded
      PROVE  IpInv'
  <2>1. k \in Nat /\ next_host_idx \in Nat
    BY <1>4 DEF IpService!NextSteps, IpInv, IpTypes
  <2>2. PICK a \in IpService!Ips : a = IpService!InTurn(next_host_idx, k)
    BY <2>1 DEF IpService!InTurn, IpService!Ips
  <2>3. a \notin IpService!Used(assigned_ips)
    BY <1>4, <2>2 DEF IpService!NextSteps, IpService!Free
  <2>4. PICK n : n = [r EXCEPT !.pc = "store", !.ip = a] /\ Made(n, r, "store", a, r.rows)
    BY <1>0, Remade DEF RequestShape
  <2>5. StepTo(r, n)
    BY <1>1, <1>4, <2>2, <2>4 DEF StepTo, Made
  <2>6. n.device = r.device /\ n.op = r.op /\ n.pc = "store" /\ n.ip = a /\ n.rows = r.rows /\ IsRequest(n)
    BY <2>4 DEF Made
  <2>7. assigned_ips' = IpService!Put(assigned_ips, r.device, a)
    BY <1>4, <2>2
  <2>8. /\ IsTable(assigned_ips') /\ Has(assigned_ips', r.device, a)
        /\ SameButFor(assigned_ips, assigned_ips', r.device)
        /\ IpService!Injective(assigned_ips) => IpService!Injective(assigned_ips')
    <3>1. \A e \in DOMAIN assigned_ips : assigned_ips[e] # a
      BY <2>3 DEF IpService!Used
    <3> QED
      BY <1>2, <2>7, <3>1, PutRight DEF SameButFor
  <2>9. IpTypes'
    <3>1. RequestShape(n)
      BY <1>0, <2>6 DEF RequestShape, IpService!Ips
    <3>2. next_host_idx' \in Nat
      BY <1>4, <2>1 DEF IpService!InTurn
    <3>3. IsTable(virtual_ips') /\ db_loaded' \in BOOLEAN
      BY <1>1, <1>2, <1>4
    <3> QED
      BY <2>5, <2>8, <3>1, <3>2, <3>3, StepTypes DEF IpInv
  <2>10. LoadedInv'
    <3>1. RequestGoes(n)'
      BY <1>0, <1>1, <1>4, <2>2, <2>6 DEF RequestGoes
    <3> QED
      BY <1>1, <1>4, <2>5, <3>1, StepLoaded DEF IpInv
  <2>11. LateInv'
    BY <2>5, StepLate DEF IpInv
  <2>12. UnbrokenInv'
    <3>1. ASSUME Unbroken'
          PROVE  /\ SameButFor(assigned_ips, assigned_ips', r.device) /\ UnbrokenRequest(n)'
                 /\ ~db_loaded' => DOMAIN virtual_ips' = {}
                 /\ \A ip \in IpService!Ips : IpService!Holds(r.device, ip) => Has(assigned_ips', r.device, ip)
      <4>1. Unbroken
        BY <1>1, <3>1 DEF Unbroken
      <4>2. UnbrokenRequest(n)'
        BY <2>6, <2>8 DEF UnbrokenRequest
      <4>3. \A ip \in IpService!Ips : ~IpService!Holds(r.device, ip)
        BY <1>2, <1>4, <4>1 DEF IpInv, UnbrokenInv, Has
      <4> QED
        BY <1>1, <1>4, <2>8, <4>2, <4>3
    <3> QED
      BY <2>5, <3>1, StepUnbroken DEF IpInv
  <2>13. CleanInv'
    <3>1. ASSUME Clean'
          PROVE  /\ SameButFor(assigned_ips, assigned_ips', r.device)
                 /\ SameButFor(virtual_ips, virtual_ips', r.device)
                 /\ db_loaded' = db_loaded /\ (db_loaded \/ virtual_ips' = virtual_ips)
                 /\ CleanRequest(n)'
                 /\ r.device \in DOMAIN assigned_ips' => Written(r.device)'
                 /\ \A ip \in IpService!Ips : ClientKnows(r.device, ip)'
      <4>1. Clean /\ "late" \notin mishaps
        BY <1>1, <3>1 DEF Clean
      <4>2. \A ip \in IpService!Ips : ~IpService!Holds(r.device, ip)
        BY <1>1, <1>2, <1>4, <4>1 DEF IpInv, CleanInv, ClientKnows, Has
      <4>3. client[r.device].our_ip = Hosts
        <5>1. client[r.device].waits = "allocate"
          BY <1>1, <4>1 DEF IpInv, LateInv
        <5>2. client[r.device].our_ip \in 0 .. Hosts
          BY <1>2 DEF IpInv, IpTypes
        <5>3. client[r.device].our_ip \notin IpService!Ips
          BY <4>2, <5>1 DEF IpService!Holds
        <5> QED
          BY <5>2, <5>3 DEF IpService!Ips
      <4>4. CleanRequest(n)'
        BY <1>1, <2>6, <2>8, <4>3 DEF CleanRequest
      <4>5. Written(r.device)'
        BY <2>5, <2>6 DEF Written, StepTo
      <4>6. \A ip \in IpService!Ips : ClientKnows(r.device, ip)'
        BY <1>1, <4>2 DEF ClientKnows, IpService!Holds
      <4> QED
        BY <1>1, <1>4, <2>8, <4>4, <4>5, <4>6, SameTable
    <3> QED
      BY <2>5, <3>1, StepClean DEF IpInv
  <2>14. UniqueInv'
    BY <1>1, <2>8, OneKept DEF IpInv
  <2> QED
    BY <2>9, <2>10, <2>11, <2>12, <2>13, <2>14 DEF IpInv
\* There is none.
<1>5. ASSUME ip_requests' = ip_requests \ {r}, UNCHANGED IpService!memory PROVE IpInv'
  BY <1>1, <1>5, Dropped DEF IpService!memory
<1> QED
  BY <1>3, <1>4, <1>5 DEF IpService!Allocate

\* allocate: the row is written, or cannot be.
LEMMA StoreRight ==
  ASSUME IpInv, NEW r \in ip_requests, NEW fails \in BOOLEAN, IpService!Store(r, fails)
  PROVE  IpInv'
<1> USE IpConstants
<1>0. RequestShape(r) /\ RequestGoes(r)
  BY DEF IpInv, IpTypes, LoadedInv
<1>1. /\ r.pc = "store" /\ r.op = "allocate" /\ db_loaded
      /\ ip_requests' = (ip_requests \ {r}) \cup {[r EXCEPT !.pc = "reply"]}
      /\ client' = client /\ assigned_ips' = assigned_ips /\ next_host_idx' = next_host_idx /\ db_loaded' = db_loaded
  BY <1>0 DEF IpService!Store, IpService!At, IpService!memory, RequestGoes
<1>2. \/ virtual_ips' = virtual_ips /\ mishaps' = mishaps \cup {"not_stored"}
      \/ /\ virtual_ips' = IpService!Put(virtual_ips, r.device, r.ip) /\ mishaps' = mishaps
         /\ \A d \in DOMAIN virtual_ips : d # r.device => virtual_ips[d] # r.ip
  BY DEF IpService!Store
<1>3. PICK n : n = [r EXCEPT !.pc = "reply"] /\ Made(n, r, "reply", r.ip, r.rows)
  BY <1>0, Remade DEF RequestShape
<1>4. StepTo(r, n)
  BY <1>1, <1>2, <1>3 DEF StepTo, Made
<1>5. n.device = r.device /\ n.op = r.op /\ n.pc = "reply" /\ n.ip = r.ip /\ n.rows = r.rows /\ IsRequest(n)
  BY <1>3 DEF Made
<1>6. IsTable(assigned_ips) /\ IsTable(virtual_ips) /\ r.device \in Devices
  BY <1>0 DEF RequestShape, IpInv, IpTypes
\* The address of the row is one of the overlay's.
<1>7. r.ip \in IpService!Ips
  BY <1>0, <1>1 DEF RequestGoes
<1>8. /\ IsTable(virtual_ips') /\ SameButFor(virtual_ips, virtual_ips', r.device)
      /\ Clean' => Has(virtual_ips', r.device, r.ip)
      /\ IpService!Injective(virtual_ips) => IpService!Injective(virtual_ips')
  <2>1. CASE virtual_ips' = virtual_ips /\ mishaps' = mishaps \cup {"not_stored"}
    BY <1>6, <2>1, SameTable DEF Clean
  <2>2. CASE /\ virtual_ips' = IpService!Put(virtual_ips, r.device, r.ip) /\ mishaps' = mishaps
             /\ \A d \in DOMAIN virtual_ips : d # r.device => virtual_ips[d] # r.ip
    BY <1>6, <1>7, <2>2, PutRight DEF SameButFor
  <2> QED
    BY <1>2, <2>1, <2>2
<1>9. mishaps \subseteq mishaps'
  BY <1>2
<1>10. IpTypes'
  <2>1. RequestShape(n)
    BY <1>0, <1>5 DEF RequestShape
  <2> QED
    BY <1>1, <1>4, <1>8, <2>1, StepTypes DEF IpInv, IpTypes
<1>11. LoadedInv'
  <2>1. RequestGoes(n)'
    BY <1>0, <1>1, <1>5 DEF RequestGoes
  <2> QED
    BY <1>1, <1>4, <2>1, StepLoaded DEF IpInv
<1>12. LateInv'
  BY <1>4, StepLate DEF IpInv
<1>13. UnbrokenInv'
  <2>1. ASSUME Unbroken'
        PROVE  /\ SameButFor(assigned_ips, assigned_ips', r.device) /\ UnbrokenRequest(n)'
               /\ ~db_loaded' => DOMAIN virtual_ips' = {}
               /\ \A ip \in IpService!Ips : IpService!Holds(r.device, ip) => Has(assigned_ips', r.device, ip)
    <3>1. Unbroken
      BY <1>9, <2>1 DEF Unbroken
    <3>2. UnbrokenRequest(n)'
      BY <1>1, <1>5, <3>1 DEF IpInv, UnbrokenInv, UnbrokenRequest
    <3> QED
      BY <1>1, <1>6, <3>1, <3>2, SameTable DEF IpInv, UnbrokenInv
  <2> QED
    BY <1>4, <2>1, StepUnbroken DEF IpInv
<1>14. CleanInv'
  <2>1. ASSUME Clean'
        PROVE  /\ SameButFor(assigned_ips, assigned_ips', r.device)
               /\ SameButFor(virtual_ips, virtual_ips', r.device)
               /\ db_loaded' = db_loaded /\ (db_loaded \/ virtual_ips' = virtual_ips)
               /\ CleanRequest(n)'
               /\ r.device \in DOMAIN assigned_ips' => Written(r.device)'
               /\ \A ip \in IpService!Ips : ClientKnows(r.device, ip)'
    <3>1. Clean
      BY <1>9, <2>1 DEF Clean
    <3>2. Has(assigned_ips, r.device, r.ip) /\ client[r.device].our_ip = Hosts
      BY <1>1, <3>1 DEF IpInv, CleanInv, CleanRequest
    <3>3. Has(virtual_ips', r.device, r.ip)
      BY <1>8, <2>1
    <3>4. CleanRequest(n)'
      BY <1>1, <1>5, <3>2, <3>3 DEF CleanRequest
    <3>5. Written(r.device)'
      BY <1>1, <3>2, <3>3 DEF Written, Has
    <3>6. \A ip \in IpService!Ips : ClientKnows(r.device, ip)'
      BY <1>1, <3>2 DEF ClientKnows, IpService!Holds, IpService!Ips
    <3> QED
      BY <1>1, <1>8, <3>4, <3>5, <3>6, SameTable
  <2> QED
    BY <1>4, <2>1, StepClean DEF IpInv
<1>15. UniqueInv'
  BY <1>1, <1>8, <1>9, OneKept DEF IpInv
<1> QED
  BY <1>10, <1>11, <1>12, <1>13, <1>14, <1>15 DEF IpInv

\* release: the address is taken out of memory.
LEMMA ReleaseRight == ASSUME IpInv, NEW r \in ip_requests, IpService!Release(r) PROVE IpInv'
<1> USE IpConstants
<1>0. RequestShape(r) /\ RequestGoes(r)
  BY DEF IpInv, IpTypes, LoadedInv
<1>1. /\ r.op = "release" /\ r.pc \in {"arrived", "loaded"} /\ db_loaded
      /\ client' = client /\ virtual_ips' = virtual_ips /\ mishaps' = mishaps
      /\ next_host_idx' = next_host_idx /\ db_loaded' = db_loaded
      /\ assigned_ips' = IpService!Drop(assigned_ips, r.device)
  BY <1>0 DEF IpService!Release, IpService!Loaded, RequestGoes
<1>2. PICK pc \in {"delete", "reply"} : ip_requests' = (ip_requests \ {r}) \cup {[r EXCEPT !.pc = pc]}
  BY DEF IpService!Release, IpService!At
<1>3. PICK n : n = [r EXCEPT !.pc = pc] /\ Made(n, r, pc, r.ip, r.rows)
  BY <1>0, Remade DEF RequestShape
<1>4. StepTo(r, n)
  BY <1>1, <1>2, <1>3 DEF StepTo, Made
<1>5. n.device = r.device /\ n.op = r.op /\ n.pc = pc /\ n.ip = r.ip /\ n.rows = r.rows /\ IsRequest(n)
  BY <1>3 DEF Made
<1>6. IsTable(assigned_ips) /\ IsTable(virtual_ips) /\ r.device \in Devices
  BY <1>0 DEF RequestShape, IpInv, IpTypes
<1>8. /\ IsTable(assigned_ips') /\ SameButFor(assigned_ips, assigned_ips', r.device)
      /\ r.device \notin DOMAIN assigned_ips'
      /\ IpService!Injective(assigned_ips) => IpService!Injective(assigned_ips')
  BY <1>1, <1>6, DropRight DEF SameButFor
\* As long as no answer is late its device does not go by its address any more.
<1>9. ASSUME "late" \notin mishaps, NEW ip \in IpService!Ips PROVE ~IpService!Holds(r.device, ip)
  BY <1>1, <1>9 DEF IpInv, LateInv, IpService!Holds
<1>10. IpTypes'
  <2>1. RequestShape(n)
    BY <1>0, <1>5 DEF RequestShape
  <2> QED
    BY <1>1, <1>4, <1>6, <1>8, <2>1, StepTypes DEF IpInv, IpTypes
<1>11. LoadedInv'
  <2>1. RequestGoes(n)'
    BY <1>0, <1>1, <1>5 DEF RequestGoes
  <2> QED
    BY <1>1, <1>4, <2>1, StepLoaded DEF IpInv
<1>12. LateInv'
  BY <1>4, StepLate DEF IpInv
<1>13. UnbrokenInv'
  <2>1. ASSUME Unbroken'
        PROVE  /\ SameButFor(assigned_ips, assigned_ips', r.device) /\ UnbrokenRequest(n)'
               /\ ~db_loaded' => DOMAIN virtual_ips' = {}
               /\ \A ip \in IpService!Ips : IpService!Holds(r.device, ip) => Has(assigned_ips', r.device, ip)
    <3>1. "late" \notin mishaps
      BY <1>1, <2>1 DEF Unbroken
    <3>2. UnbrokenRequest(n)'
      BY <1>1, <1>5 DEF UnbrokenRequest
    <3> QED
      BY <1>1, <1>8, <1>9, <3>1, <3>2
  <2> QED
    BY <1>4, <2>1, StepUnbroken DEF IpInv
<1>14. CleanInv'
  <2>1. ASSUME Clean'
        PROVE  /\ SameButFor(assigned_ips, assigned_ips', r.device)
               /\ SameButFor(virtual_ips, virtual_ips', r.device)
               /\ db_loaded' = db_loaded /\ (db_loaded \/ virtual_ips' = virtual_ips)
               /\ CleanRequest(n)'
               /\ r.device \in DOMAIN assigned_ips' => Written(r.device)'
               /\ \A ip \in IpService!Ips : ClientKnows(r.device, ip)'
    <3>1. "late" \notin mishaps
      BY <1>1, <2>1 DEF Clean
    <3>2. CleanRequest(n)'
      BY <1>1, <1>5, <1>8 DEF CleanRequest
    <3>3. \A ip \in IpService!Ips : ClientKnows(r.device, ip)'
      BY <1>1, <1>9, <3>1 DEF ClientKnows, IpService!Holds
    <3> QED
      BY <1>1, <1>8, <3>2, <3>3, SameTable
  <2> QED
    BY <1>4, <2>1, StepClean DEF IpInv
<1>15. UniqueInv'
  BY <1>1, <1>8, OneKept DEF IpInv
<1> QED
  BY <1>10, <1>11, <1>12, <1>13, <1>14, <1>15 DEF IpInv

\* release: the row is deleted, or cannot be.
LEMMA DeleteRight ==
  ASSUME IpInv, NEW r \in ip_requests, NEW fails \in BOOLEAN, IpService!Delete(r, fails)
  PROVE  IpInv'
<1> USE IpConstants
<1>0. RequestShape(r) /\ RequestGoes(r)
  BY DEF IpInv, IpTypes, LoadedInv
<1>1. /\ r.pc = "delete" /\ r.op = "release" /\ db_loaded
      /\ ip_requests' = (ip_requests \ {r}) \cup {[r EXCEPT !.pc = "reply"]}
      /\ client' = client /\ assigned_ips' = assigned_ips /\ next_host_idx' = next_host_idx /\ db_loaded' = db_loaded
      /\ mishaps \subseteq mishaps'
  BY <1>0 DEF IpService!Delete, IpService!At, IpService!memory, RequestGoes
<1>2. virtual_ips' = virtual_ips \/ virtual_ips' = IpService!Drop(virtual_ips, r.device)
  BY DEF IpService!Delete
<1>3. PICK n : n = [r EXCEPT !.pc = "reply"] /\ Made(n, r, "reply", r.ip, r.rows)
  BY <1>0, Remade DEF RequestShape
<1>4. StepTo(r, n)
  BY <1>1, <1>3 DEF StepTo, Made
<1>5. n.device = r.device /\ n.op = r.op /\ n.pc = "reply" /\ n.ip = r.ip /\ n.rows = r.rows /\ IsRequest(n)
  BY <1>3 DEF Made
<1>6. IsTable(assigned_ips) /\ IsTable(virtual_ips) /\ r.device \in Devices
  BY <1>0 DEF RequestShape, IpInv, IpTypes
<1>8. /\ IsTable(virtual_ips') /\ SameButFor(virtual_ips, virtual_ips', r.device)
      /\ IpService!Injective(virtual_ips) => IpService!Injective(virtual_ips')
  <2>1. CASE virtual_ips' = virtual_ips
    BY <1>6, <2>1, SameTable
  <2>2. CASE virtual_ips' = IpService!Drop(virtual_ips, r.device)
    BY <1>6, <2>2, DropRight DEF SameButFor
  <2> QED
    BY <1>2, <2>1, <2>2
<1>9. ASSUME "late" \notin mishaps, NEW ip \in IpService!Ips PROVE ~IpService!Holds(r.device, ip)
  BY <1>1, <1>9 DEF IpInv, LateInv, IpService!Holds
<1>10. IpTypes'
  <2>1. RequestShape(n)
    BY <1>0, <1>5 DEF RequestShape
  <2> QED
    BY <1>1, <1>4, <1>8, <2>1, StepTypes DEF IpInv, IpTypes
<1>11. LoadedInv'
  <2>1. RequestGoes(n)'
    BY <1>0, <1>1, <1>5 DEF RequestGoes
  <2> QED
    BY <1>1, <1>4, <2>1, StepLoaded DEF IpInv
<1>12. LateInv'
  BY <1>4, StepLate DEF IpInv
<1>13. UnbrokenInv'
  <2>1. ASSUME Unbroken'
        PROVE  /\ SameButFor(assigned_ips, assigned_ips', r.device) /\ UnbrokenRequest(n)'
               /\ ~db_loaded' => DOMAIN virtual_ips' = {}
               /\ \A ip \in IpService!Ips : IpService!Holds(r.device, ip) => Has(assigned_ips', r.device, ip)
    <3>1. "late" \notin mishaps
      BY <1>1, <2>1 DEF Unbroken
    <3>2. UnbrokenRequest(n)'
      BY <1>1, <1>5 DEF UnbrokenRequest
    <3> QED
      BY <1>1, <1>9, <3>1, <3>2, SameTable
  <2> QED
    BY <1>4, <2>1, StepUnbroken DEF IpInv
<1>14. CleanInv'
  <2>1. ASSUME Clean'
        PROVE  /\ SameButFor(assigned_ips, assigned_ips', r.device)
               /\ SameButFor(virtual_ips, virtual_ips', r.device)
               /\ db_loaded' = db_loaded /\ (db_loaded \/ virtual_ips' = virtual_ips)
               /\ CleanRequest(n)'
               /\ r.device \in DOMAIN assigned_ips' => Written(r.device)'
               /\ \A ip \in IpService!Ips : ClientKnows(r.device, ip)'
    <3>1. Clean /\ "late" \notin mishaps
      BY <1>1, <2>1 DEF Clean
    <3>2. r.device \notin DOMAIN assigned_ips'
      BY <1>1, <3>1 DEF IpInv, CleanInv, CleanRequest
    <3>3. CleanRequest(n)'
      BY <1>1, <1>5 DEF CleanRequest
    <3>4. \A ip \in IpService!Ips : ClientKnows(r.device, ip)'
      BY <1>1, <1>9, <3>1 DEF ClientKnows, IpService!Holds
    <3> QED
      BY <1>1, <1>8, <3>2, <3>3, <3>4, SameTable
  <2> QED
    BY <1>4, <2>1, StepClean DEF IpInv
<1>15. UniqueInv'
  BY <1>1, <1>8, OneKept DEF IpInv
<1> QED
  BY <1>10, <1>11, <1>12, <1>13, <1>14, <1>15 DEF IpInv

\* What a client waits for.
LEMMA WaitsFor ==
  ASSUME NEW w, NEW i, NEW r, r = [waits |-> w, our_ip |-> i], NEW op
  PROVE  [r EXCEPT !.waits = op] = [waits |-> op, our_ip |-> i]
  OBVIOUS

\* The reply, and what the client keeps of it.
LEMMA ClientKeeps ==
  ASSUME NEW w, NEW i, NEW c, c = [waits |-> w, our_ip |-> i], NEW op, NEW ip
  PROVE  [IpService!Cached(c, op, ip) EXCEPT !.waits = "none"]
           = [waits |-> "none", our_ip |-> IF op = "allocate" THEN ip ELSE Hosts]
<1>1. PICK x : x = IF op = "allocate" THEN ip ELSE Hosts
  OBVIOUS
<1>2. PICK b : b = [waits |-> w, our_ip |-> x]
  OBVIOUS
<1>3. [c EXCEPT !.our_ip = x] = b
  BY <1>2
<1>4. IpService!Cached(c, op, ip) = b
  BY <1>1, <1>3 DEF IpService!Cached, IpService!NoIp
<1>5. [b EXCEPT !.waits = "none"] = [waits |-> "none", our_ip |-> x]
  BY <1>2
<1> QED
  BY <1>1, <1>4, <1>5

\* The answer reaches the device, in time or late.
LEMMA ReplyRight == ASSUME IpInv, NEW r \in ip_requests, IpService!Reply(r) PROVE IpInv'
<1> USE IpConstants
<1>0. RequestShape(r) /\ RequestGoes(r)
  BY DEF IpInv, IpTypes, LoadedInv
<1>1. /\ r.pc = "reply" /\ db_loaded /\ ip_requests' = ip_requests \ {r}
      /\ assigned_ips' = assigned_ips /\ virtual_ips' = virtual_ips /\ mishaps' = mishaps
      /\ next_host_idx' = next_host_idx /\ db_loaded' = db_loaded
  BY <1>0 DEF IpService!Reply, IpService!memory, RequestGoes
<1>2. r.device \in Devices /\ r.op \in {"allocate", "release"} /\ r.ip \in 0 .. Hosts
  BY <1>0 DEF RequestShape
<1>3. CASE client[r.device].waits # r.op
  <2>1. client' = client
    BY <1>3 DEF IpService!Reply
  <2> QED
    BY <1>1, <2>1, Dropped
<1>4. CASE client[r.device].waits = r.op
  <2>1. PICK w \in {"none", "allocate", "release"}, i \in 0 .. Hosts : client[r.device] = [waits |-> w, our_ip |-> i]
    BY <1>2 DEF IpInv, IpTypes
  <2>2. PICK c : c = [waits |-> "none", our_ip |-> IF r.op = "allocate" THEN r.ip ELSE Hosts]
    OBVIOUS
  <2>3. client' = [client EXCEPT ![r.device] = c]
    <3>1. client' = [client EXCEPT ![r.device] =
                        [IpService!Cached(client[r.device], r.op, r.ip) EXCEPT !.waits = "none"]]
      BY <1>4 DEF IpService!Reply
    <3>2. [IpService!Cached(client[r.device], r.op, r.ip) EXCEPT !.waits = "none"] = c
      BY <2>1, <2>2, ClientKeeps
    <3> QED
      BY <3>1, <3>2
  <2>4. /\ c \in [waits : {"none", "allocate", "release"}, our_ip : 0 .. Hosts]
        /\ c.waits = "none" /\ c.our_ip = IF r.op = "allocate" THEN r.ip ELSE Hosts
    <3>1. (IF r.op = "allocate" THEN r.ip ELSE Hosts) \in 0 .. Hosts
      BY <1>2
    <3> QED
      BY <2>2, <3>1
  <2>5. /\ client' \in [Devices -> [waits : {"none", "allocate", "release"}, our_ip : 0 .. Hosts]]
        /\ client'[r.device] = c /\ \A d \in Devices \ {r.device} : client'[d] = client[d]
    BY <1>2, <2>3, <2>4 DEF IpInv, IpTypes
  <2>6. IpTypes'
    BY <1>1, <2>5 DEF IpInv, IpTypes
  <2>7. LoadedInv'
    BY <1>1 DEF IpInv, LoadedInv, RequestGoes
  <2>8. ASSUME "late" \notin mishaps, NEW s \in ip_requests'
        PROVE  s \in ip_requests /\ s.device \in Devices \ {r.device} /\ client'[s.device] = client[s.device]
    <3>1. s \in ip_requests /\ s # r
      BY <1>1, <2>8
    <3>2. s.device # r.device
      BY <2>8, <3>1, Alone DEF IpInv
    <3>3. s.device \in Devices
      BY <3>1 DEF IpInv, IpTypes, RequestShape
    <3> QED
      BY <2>5, <3>1, <3>2, <3>3
  <2>9. LateInv'
    <3> SUFFICES ASSUME "late" \notin mishaps' PROVE LateInv'
      BY DEF LateInv
    <3>1. "late" \notin mishaps
      BY <1>1
    <3>2. ASSUME NEW s \in ip_requests' PROVE client'[s.device].waits = s.op
      BY <2>8, <3>1, <3>2 DEF IpInv, LateInv
    <3>3. ASSUME NEW s \in ip_requests', NEW q \in ip_requests', q.device = s.device PROVE q = s
      BY <2>8, <3>1, <3>3 DEF IpInv, LateInv
    <3> QED
      BY <3>2, <3>3 DEF LateInv
  \* What the device has now, and what the others have.
  <2>10. ASSUME NEW d \in Devices, NEW ip \in IpService!Ips, IpService!Holds(d, ip)'
         PROVE  (d # r.device /\ IpService!Holds(d, ip)) \/ (d = r.device /\ r.op = "allocate" /\ r.ip = ip)
    <3>1. CASE d = r.device
      BY <2>4, <2>5, <2>10, <3>1 DEF IpService!Holds, IpService!Ips
    <3>2. CASE d # r.device
      BY <2>5, <2>10, <3>2 DEF IpService!Holds
    <3> QED
      BY <3>1, <3>2
  <2>11. UnbrokenInv'
    <3> SUFFICES ASSUME Unbroken' PROVE UnbrokenInv'
      BY DEF UnbrokenInv
    <3>1. Unbroken
      BY <1>1 DEF Unbroken
    <3>2. \A s \in ip_requests' : UnbrokenRequest(s)'
      BY <1>1, <3>1 DEF IpInv, UnbrokenInv, UnbrokenRequest
    <3>3. ASSUME NEW d \in Devices, NEW ip \in IpService!Ips, IpService!Holds(d, ip)' PROVE Has(assigned_ips', d, ip)
      <4>1. UnbrokenRequest(r)
        BY <3>1 DEF IpInv, UnbrokenInv
      <4>2. IpService!Holds(d, ip) => Has(assigned_ips, d, ip)
        BY <3>1 DEF IpInv, UnbrokenInv
      <4> QED
        BY <1>1, <2>10, <3>3, <4>1, <4>2 DEF UnbrokenRequest
    <3> QED
      BY <1>1, <3>2, <3>3 DEF UnbrokenInv
  <2>12. CleanInv'
    <3> SUFFICES ASSUME Clean' PROVE CleanInv'
      BY DEF CleanInv
    <3>1. Clean /\ "late" \notin mishaps
      BY <1>1 DEF Clean
    <3>2. ASSUME NEW s \in ip_requests' PROVE CleanRequest(s)'
      <4>1. CleanRequest(s) /\ client'[s.device] = client[s.device]
        BY <2>8, <3>1, <3>2 DEF IpInv, CleanInv
      <4> QED
        BY <1>1, <4>1 DEF CleanRequest
    <3>3. ASSUME NEW d \in DOMAIN assigned_ips' PROVE Written(d)'
      <4>1. Written(d)
        BY <1>1, <3>1, <3>3 DEF IpInv, CleanInv
      <4> QED
        BY <1>1, <4>1 DEF Written
    <3>4. ASSUME NEW d \in Devices, NEW ip \in IpService!Ips PROVE ClientKnows(d, ip)'
      <4>1. CleanRequest(r)
        BY <3>1 DEF IpInv, CleanInv
      <4>2. ClientKnows(d, ip)
        BY <3>1 DEF IpInv, CleanInv
      <4>3. ASSUME IpService!Holds(d, ip)' PROVE Has(virtual_ips, d, ip) /\ Has(assigned_ips, d, ip)
        BY <1>1, <2>10, <4>1, <4>2, <4>3 DEF CleanRequest, ClientKnows
      <4> QED
        BY <1>1, <4>3 DEF ClientKnows
    <3> QED
      BY <3>2, <3>3, <3>4 DEF CleanInv
  <2>13. UniqueInv'
    BY <1>1, OneKept DEF IpInv
  <2> QED
    BY <2>6, <2>7, <2>9, <2>11, <2>12, <2>13 DEF IpInv
<1> QED
  BY <1>3, <1>4

\* A device asks.
LEMMA SendRight ==
  ASSUME IpInv, NEW d \in Devices, NEW op \in {"allocate", "release"}, IpService!Send(d, op)
  PROVE  IpInv'
<1> USE IpConstants
<1>1. /\ client[d].waits \in {"none", op}
      /\ client' = [client EXCEPT ![d].waits = op]
      /\ mishaps' = IF client[d].waits = op THEN mishaps \cup {"late"} ELSE mishaps
      /\ assigned_ips' = assigned_ips /\ virtual_ips' = virtual_ips
      /\ next_host_idx' = next_host_idx /\ db_loaded' = db_loaded
  BY DEF IpService!Send, IpService!memory
<1>2. PICK n : /\ n = [device |-> d, op |-> op, pc |-> "arrived", ip |-> Hosts, rows |-> IpService!Nothing, id |-> ip_sent]
               /\ ip_requests' = ip_requests \cup {n}
  BY DEF IpService!Send, IpService!NoIp
<1>3. n.device = d /\ n.op = op /\ n.pc = "arrived" /\ n.ip = Hosts /\ n.rows = IpService!Nothing /\ IsRequest(n)
  BY <1>2 DEF IsRequest
<1>4. PICK w \in {"none", op}, i \in 0 .. Hosts : client[d] = [waits |-> w, our_ip |-> i]
  BY <1>1 DEF IpInv, IpTypes
<1>5. PICK c : c = [waits |-> op, our_ip |-> i]
  OBVIOUS
<1>6. /\ client' \in [Devices -> [waits : {"none", "allocate", "release"}, our_ip : 0 .. Hosts]]
      /\ client'[d] = c /\ \A e \in Devices \ {d} : client'[e] = client[e]
  <2>1. client' = [client EXCEPT ![d] = c]
    <3>1. client' = [client EXCEPT ![d] = [client[d] EXCEPT !.waits = op]]
      BY <1>1
    <3>2. [client[d] EXCEPT !.waits = op] = c
      BY <1>4, <1>5, WaitsFor
    <3> QED
      BY <3>1, <3>2
  <2>2. c \in [waits : {"none", "allocate", "release"}, our_ip : 0 .. Hosts]
    BY <1>5
  <2> QED
    BY <2>1, <2>2 DEF IpInv, IpTypes
<1>7. c.waits = op /\ \A e \in Devices : client'[e].our_ip = client[e].our_ip
  BY <1>4, <1>5, <1>6
<1>8. IpTypes'
  <2>1. RequestShape(n)
    BY <1>3, EmptyTable DEF RequestShape
  <2> QED
    BY <1>1, <1>2, <1>6, <2>1 DEF IpInv, IpTypes
<1>9. LoadedInv'
  <2>1. RequestGoes(n)'
    BY <1>3, EmptyTable DEF RequestGoes
  <2> QED
    BY <1>1, <1>2, <2>1 DEF IpInv, LoadedInv, RequestGoes
\* The device had no request at the service, if no answer is late.
<1>10. ASSUME "late" \notin mishaps'
       PROVE  /\ "late" \notin mishaps /\ mishaps' = mishaps
              /\ \A s \in ip_requests : s.device \in Devices \ {d}
  <2>1. client[d].waits = "none" /\ "late" \notin mishaps /\ mishaps' = mishaps
    BY <1>1, <1>10
  <2>2. \A s \in ip_requests : s.device \in Devices /\ s.op # "none"
    BY DEF IpInv, IpTypes, RequestShape
  <2> QED
    BY <2>1, <2>2 DEF IpInv, LateInv
<1>11. LateInv'
  <2> SUFFICES ASSUME "late" \notin mishaps' PROVE LateInv'
    BY DEF LateInv
  <2>1. ASSUME NEW s \in ip_requests' PROVE client'[s.device].waits = s.op
    <3>1. CASE s = n
      BY <1>3, <1>6, <1>7, <3>1
    <3>2. CASE s \in ip_requests
      BY <1>6, <1>10, <3>2 DEF IpInv, LateInv
    <3> QED
      BY <1>2, <2>1, <3>1, <3>2
  <2>2. ASSUME NEW s \in ip_requests', NEW q \in ip_requests', q.device = s.device PROVE q = s
    BY <1>2, <1>3, <1>10, <2>2 DEF IpInv, LateInv
  <2> QED
    BY <2>1, <2>2 DEF LateInv
<1>12. ASSUME NEW e \in Devices, NEW ip \in IpService!Ips, IpService!Holds(e, ip)' PROVE IpService!Holds(e, ip)
  <2>1. CASE e = d
    <3>1. op # "release" /\ client[d].our_ip = ip
      BY <1>6, <1>7, <1>12, <2>1 DEF IpService!Holds
    <3> QED
      BY <1>1, <2>1, <3>1 DEF IpService!Holds
  <2>2. CASE e # d
    BY <1>6, <1>12, <2>2 DEF IpService!Holds
  <2> QED
    BY <2>1, <2>2
<1>13. UnbrokenInv'
  <2> SUFFICES ASSUME Unbroken' PROVE UnbrokenInv'
    BY DEF UnbrokenInv
  <2>1. Unbroken
    BY <1>1 DEF Unbroken
  <2>2. ASSUME NEW s \in ip_requests' PROVE UnbrokenRequest(s)'
    <3>1. CASE s = n
      BY <1>3, <3>1 DEF UnbrokenRequest
    <3>2. CASE s \in ip_requests
      BY <1>1, <2>1, <3>2 DEF IpInv, UnbrokenInv, UnbrokenRequest
    <3> QED
      BY <1>2, <2>2, <3>1, <3>2
  <2>3. ASSUME NEW e \in Devices, NEW ip \in IpService!Ips, IpService!Holds(e, ip)' PROVE Has(assigned_ips', e, ip)
    BY <1>1, <1>12, <2>1, <2>3 DEF IpInv, UnbrokenInv
  <2>4. ~db_loaded' => DOMAIN virtual_ips' = {}
    BY <1>1, <2>1 DEF IpInv, UnbrokenInv
  <2> QED
    BY <2>2, <2>3, <2>4 DEF UnbrokenInv
<1>14. CleanInv'
  <2> SUFFICES ASSUME Clean' PROVE CleanInv'
    BY DEF CleanInv
  <2>1. Clean
    BY <1>1 DEF Clean
  <2>2. ASSUME NEW s \in ip_requests' PROVE CleanRequest(s)'
    <3>1. CASE s = n
      BY <1>3, <3>1 DEF CleanRequest
    <3>2. CASE s \in ip_requests
      <4>1. CleanRequest(s) /\ client'[s.device].our_ip = client[s.device].our_ip
        BY <1>7, <2>1, <3>2 DEF IpInv, CleanInv, IpTypes, RequestShape
      <4> QED
        BY <1>1, <4>1 DEF CleanRequest
    <3> QED
      BY <1>2, <2>2, <3>1, <3>2
  <2>3. ASSUME NEW e \in DOMAIN assigned_ips' PROVE Written(e)'
    <3>1. Written(e)
      BY <1>1, <2>1, <2>3 DEF IpInv, CleanInv
    <3> QED
      BY <1>1, <1>2, <3>1 DEF Written
  <2>4. ASSUME NEW e \in Devices, NEW ip \in IpService!Ips PROVE ClientKnows(e, ip)'
    <3>1. ClientKnows(e, ip)
      BY <2>1 DEF IpInv, CleanInv
    <3> QED
      BY <1>1, <1>12, <3>1 DEF ClientKnows
  <2> QED
    BY <2>2, <2>3, <2>4 DEF CleanInv
<1>15. UniqueInv'
  <2>1. mishaps \subseteq mishaps'
    BY <1>1
  <2> QED
    BY <1>1, <2>1, OneKept DEF IpInv
<1> QED
  BY <1>8, <1>9, <1>11, <1>13, <1>14, <1>15 DEF IpInv

\* A device stops waiting for its answer.
LEMMA GiveUpRight == ASSUME IpInv, NEW d \in Devices, IpService!GiveUp(d) PROVE IpInv'
<1>1. /\ client' = [client EXCEPT ![d].waits = "none"] /\ mishaps' = mishaps \cup {"late"}
      /\ ip_requests' = ip_requests /\ assigned_ips' = assigned_ips /\ virtual_ips' = virtual_ips
      /\ next_host_idx' = next_host_idx /\ db_loaded' = db_loaded
  BY DEF IpService!GiveUp, IpService!memory
<1>2. IpTypes'
  <2>1. PICK w \in {"none", "allocate", "release"}, i \in 0 .. Hosts : client[d] = [waits |-> w, our_ip |-> i]
    BY DEF IpInv, IpTypes
  <2>2. PICK c \in [waits : {"none", "allocate", "release"}, our_ip : 0 .. Hosts] : c = [waits |-> "none", our_ip |-> i]
    OBVIOUS
  <2>3. client' = [client EXCEPT ![d] = c]
    <3>1. client' = [client EXCEPT ![d] = [client[d] EXCEPT !.waits = "none"]]
      BY <1>1
    <3>2. [client[d] EXCEPT !.waits = "none"] = c
      BY <2>1, <2>2, WaitsFor
    <3> QED
      BY <3>1, <3>2
  <2>4. client' \in [Devices -> [waits : {"none", "allocate", "release"}, our_ip : 0 .. Hosts]]
    BY <2>3 DEF IpInv, IpTypes
  <2> QED
    BY <1>1, <2>4 DEF IpInv, IpTypes
<1>3. LoadedInv'
  BY <1>1 DEF IpInv, LoadedInv, RequestGoes
<1>4. LateInv' /\ CleanInv' /\ UnbrokenInv'
  BY <1>1 DEF LateInv, CleanInv, Clean, UnbrokenInv, Unbroken
<1>5. UniqueInv'
  BY <1>1, OneKept DEF IpInv
<1> QED
  BY <1>2, <1>3, <1>4, <1>5 DEF IpInv

\* The service restarts and forgets what is in memory.
LEMMA RestartRight == ASSUME IpInv, IpService!Restart PROVE IpInv'
<1>1. /\ client' = client /\ mishaps' = mishaps \cup {"restarted"} /\ ip_requests' = {}
      /\ assigned_ips' = IpService!Nothing /\ virtual_ips' = virtual_ips
      /\ next_host_idx' = 0 /\ db_loaded' = FALSE
  BY DEF IpService!Restart
<1>2. IpTypes'
  BY <1>1, EmptyTable DEF IpInv, IpTypes
<1>3. LoadedInv'
  BY <1>1, EmptyTable DEF LoadedInv
<1>4. LateInv' /\ UnbrokenInv'
  BY <1>1 DEF LateInv, UnbrokenInv, Unbroken
<1>5. CleanInv'
  <2> SUFFICES ASSUME Clean' PROVE CleanInv'
    BY DEF CleanInv
  <2>1. Clean
    BY <1>1 DEF Clean
  <2>2. ASSUME NEW d \in Devices, NEW ip \in IpService!Ips PROVE ClientKnows(d, ip)'
    <3>1. ClientKnows(d, ip)
      BY <2>1 DEF IpInv, CleanInv
    <3> QED
      BY <1>1, <3>1 DEF ClientKnows, IpService!Holds
  <2> QED
    BY <1>1, <2>2, EmptyTable DEF CleanInv
<1>6. UniqueInv'
  BY <1>1, EmptyTable, OneKept DEF IpInv
<1> QED
  BY <1>2, <1>3, <1>4, <1>5, <1>6 DEF IpInv

\* Every step of the addresses keeps the invariant.
LEMMA IpNext == ASSUME IpInv, [IpService!Next]_ip_vars PROVE IpInv'
<1>1. ASSUME UNCHANGED ip_vars PROVE IpInv'
  <2>1. IpTypes' /\ LoadedInv' /\ LateInv'
    BY <1>1 DEF ip_vars, IpInv, IpTypes, LoadedInv, RequestGoes, LateInv
  <2>2. UnbrokenInv'
    BY <1>1 DEF ip_vars, IpInv, UnbrokenInv, Unbroken, UnbrokenRequest, IpService!Holds
  <2>3. CleanInv'
    BY <1>1 DEF ip_vars, IpInv, CleanInv, Clean, CleanRequest, Written, ClientKnows, IpService!Holds
  <2>4. UniqueInv'
    BY <1>1, OneKept DEF ip_vars, IpInv
  <2> QED
    BY <2>1, <2>2, <2>3, <2>4 DEF IpInv
<1>2. ASSUME NEW r \in ip_requests, NEW fails \in BOOLEAN, IpService!Store(r, fails) \/ IpService!Delete(r, fails)
      PROVE  IpInv'
  BY <1>2, StoreRight, DeleteRight
<1>3. ASSUME NEW r \in ip_requests,
             \/ IpService!ReadRows(r) \/ IpService!LoadFromDb(r) \/ IpService!LoadFails(r)
             \/ IpService!Allocate(r) \/ IpService!Release(r) \/ IpService!Reply(r)
      PROVE  IpInv'
  BY <1>3, ReadRowsRight, LoadFromDbRight, LoadFailsRight, AllocateRight, ReleaseRight, ReplyRight
<1>4. ASSUME NEW d \in Devices, NEW op \in {"allocate", "release"}, IpService!Send(d, op) PROVE IpInv'
  BY <1>4, SendRight
<1> QED
  BY <1>1, <1>2, <1>3, <1>4, GiveUpRight, RestartRight DEF IpService!Next

\* What follows from the invariant of the addresses.
LEMMA IpServiceRight ==
  IpInv => IpService!TypeOK /\ IpService!OneDevicePerIp /\ IpService!NoSharedIp /\ IpService!HeldIsAssigned
<1> SUFFICES ASSUME IpInv
             PROVE  IpService!TypeOK /\ IpService!OneDevicePerIp /\ IpService!NoSharedIp /\ IpService!HeldIsAssigned
  OBVIOUS
<1> USE IpConstants
<1>1. IpService!TypeOK
  <2>1. IpService!Used(assigned_ips) \cup IpService!Used(virtual_ips) \subseteq IpService!Ips
    BY DEF IpInv, IpTypes, IsTable, IpService!Used
  <2>2. \A d \in Devices : client[d].our_ip \in IpService!Ips \cup {IpService!NoIp}
    BY DEF IpInv, IpTypes, IpService!Ips, IpService!NoIp
  <2> QED
    BY <2>1, <2>2, RequestsAssumption DEF IpService!TypeOK
<1>2. IpService!OneDevicePerIp
  BY DEF IpInv, UniqueInv
<1>3. IpService!NoSharedIp
  <2>1. ASSUME Clean, NEW ip \in IpService!Ips, NEW d \in Devices, NEW e \in Devices,
               IpService!Holds(d, ip), IpService!Holds(e, ip)
        PROVE  d = e
    <3>1. Has(virtual_ips, d, ip) /\ Has(virtual_ips, e, ip)
      BY <2>1 DEF IpInv, CleanInv, ClientKnows
    <3> QED
      BY <1>2, <3>1 DEF IpService!OneDevicePerIp, IpService!Injective, Has
  <2> QED
    BY <2>1 DEF IpService!NoSharedIp, Clean
<1>4. IpService!HeldIsAssigned
  BY DEF IpInv, UnbrokenInv, Unbroken, Has, IpService!HeldIsAssigned
<1> QED
  BY <1>1, <1>2, <1>3, <1>4

-----------------------------------------------------------------------------
(* The io_uring engine, its pool and its batcher.                            *)
Buffers == 0 .. buffer_count - 1
RingCounters == [submissions : Nat, completions : Nat, errors : Nat]
\* The entries pending come in the order of submission and were submitted.
Increasing(s, last) ==
  /\ \A i \in DOMAIN s : s[i] <= last
  /\ \A i, j \in DOMAIN s : i < j => s[i] < s[j]
EngineInv ==
  /\ ring_counters \in RingCounters /\ cleared \in Nat /\ recent_cqes \in Nat /\ recent_cqes < MaxRecent
  /\ pending_sqes \in Seq(Nat) /\ Len(pending_sqes) <= sq_entries
  /\ ring_counters.submissions
       = Len(pending_sqes) + ring_counters.completions + ring_counters.errors + cleared
  /\ Increasing(pending_sqes, ring_counters.submissions)
BatcherInv ==
  /\ batcher \in [pending : Nat, batches : Nat, total : Nat, added : Nat]
  /\ batcher.added = batcher.pending + batcher.total /\ batcher.pending <= max_batch
\* A buffer is in the queue of the free ones once, or one user holds it.
Queued(i) == \E n \in DOMAIN free_indices : free_indices[n] = i
PoolInv ==
  /\ free_indices \in Seq(Buffers) /\ holds \in [Users -> SUBSET Buffers] /\ doubled \in BOOLEAN
  /\ ~doubled =>
       /\ \A m, n \in DOMAIN free_indices : free_indices[m] = free_indices[n] => m = n
       /\ \A u \in Users : \A i \in holds[u] : ~Queued(i)
       /\ \A u, v \in Users : \A i \in holds[u] \cap holds[v] : u = v
       /\ \A i \in Buffers : Queued(i) \/ \E u \in Users : i \in holds[u]
RingInv == EngineInv /\ BatcherInv /\ PoolInv

\* What the constants of io_uring stand for.
LEMMA RingConstants ==
  /\ sq_entries \in Nat /\ sq_entries > 0 /\ PollBatch \in Nat /\ PollBatch > 0 /\ MaxRecent \in Nat /\ MaxRecent > 0
  /\ buffer_count \in Nat /\ buffer_count > 0 /\ max_batch \in Nat /\ max_batch > 0
  BY RequestsAssumption DEF Ring!Constants

\* The initial states of io_uring satisfy the invariant.
LEMMA RingInit == Ring!Init => RingInv
<1> SUFFICES ASSUME Ring!Init PROVE RingInv
  OBVIOUS
<1> USE RingConstants DEF Ring!Init
<1>1. EngineInv
  BY DEF EngineInv, RingCounters, Increasing
<1>2. BatcherInv
  BY DEF BatcherInv
<1>3. free_indices \in Seq(Buffers) /\ DOMAIN free_indices = 1 .. buffer_count
  BY DEF Buffers
<1>4. \A i \in Buffers : i + 1 \in DOMAIN free_indices /\ free_indices[i + 1] = i
  BY DEF Buffers
<1>5. \A n \in DOMAIN free_indices : n \in Nat /\ free_indices[n] = n - 1
  BY DEF Buffers
<1>6. \A m, n \in DOMAIN free_indices : free_indices[m] = free_indices[n] => m = n
  BY <1>5
<1>7. \A i \in Buffers : Queued(i)
  BY <1>4 DEF Queued
<1>8. holds \in [Users -> SUBSET Buffers] /\ \A u \in Users : holds[u] = {}
  OBVIOUS
<1>9. PoolInv
  BY <1>3, <1>6, <1>7, <1>8 DEF PoolInv
<1> QED
  BY <1>1, <1>2, <1>9 DEF RingInv

\* A sequence without its first n entries.
LEMMA WithoutFirst ==
  ASSUME NEW s \in Seq(Nat), NEW n \in Nat, n <= Len(s)
  PROVE  /\ Ring!Tail_(s, n) \in Seq(Nat) /\ Len(Ring!Tail_(s, n)) = Len(s) - n
         /\ \A last : Increasing(s, last) => Increasing(Ring!Tail_(s, n), last)
<1> DEFINE t == [i \in 1 .. Len(s) - n |-> s[i + n]]
<1>1. Len(s) \in Nat /\ DOMAIN s = 1 .. Len(s) /\ Len(s) - n \in Nat
  OBVIOUS
<1>2. \A i \in 1 .. Len(s) - n : i + n \in DOMAIN s /\ s[i + n] \in Nat
  BY <1>1
<1>3. t \in Seq(Nat) /\ Len(t) = Len(s) - n
  BY <1>1, <1>2
<1>4. DOMAIN t = 1 .. Len(s) - n /\ \A i \in 1 .. Len(s) - n : t[i] = s[i + n]
  OBVIOUS
<1> HIDE DEF t
<1>5. \A i, j \in 1 .. Len(s) - n : i < j => i + n < j + n
  BY <1>1
<1>6. \A last : Increasing(s, last) => Increasing(t, last)
  BY <1>2, <1>4, <1>5 DEF Increasing
<1> QED
  BY <1>3, <1>6 DEF t, Ring!Tail_

\* Every step keeps the entries of the ring.
LEMMA EngineNext == ASSUME EngineInv, [Ring!Next]_ring_vars PROVE EngineInv'
<1>p. PICK sub \in Nat, com \in Nat, err \in Nat, len \in Nat :
        ring_counters = [submissions |-> sub, completions |-> com, errors |-> err] /\ len = Len(pending_sqes)
  BY DEF EngineInv, RingCounters
<1>s. pending_sqes \in Seq(Nat) /\ DOMAIN pending_sqes = 1 .. len /\ Increasing(pending_sqes, sub)
  BY <1>p DEF EngineInv
<1>c. /\ len <= sq_entries /\ cleared \in Nat /\ recent_cqes \in Nat /\ recent_cqes < MaxRecent
      /\ sub = len + com + err + cleared
  BY <1>p DEF EngineInv
<1>o. /\ \A i \in 1 .. len : pending_sqes[i] \in Nat /\ pending_sqes[i] <= sub
      /\ \A i, j \in 1 .. len : i < j => pending_sqes[i] < pending_sqes[j]
  <2>1. \A i \in DOMAIN pending_sqes : pending_sqes[i] \in Nat
    BY <1>s
  <2> QED
    BY <1>s, <2>1 DEF Increasing
<1>1. ASSUME UNCHANGED <<ring_counters, cleared, recent_cqes, pending_sqes>> PROVE EngineInv'
  BY <1>1 DEF EngineInv, Increasing
\* What the counters and the queue become.
<1>w. ASSUME NEW s \in Nat, NEW c \in Nat, NEW e \in Nat, NEW l \in Nat, NEW d \in Nat,
             ring_counters' = [submissions |-> s, completions |-> c, errors |-> e], cleared' = d,
             pending_sqes' \in Seq(Nat), Len(pending_sqes') = l, Increasing(pending_sqes', s),
             recent_cqes' \in Nat, recent_cqes' < MaxRecent,
             l <= sq_entries, s = l + c + e + d
      PROVE  EngineInv'
  BY <1>w DEF EngineInv, RingCounters
<1>2. ASSUME NEW n \in 1 .. sq_entries + 1, Ring!Submit(n) PROVE EngineInv'
  <2> DEFINE more == [i \in 1 .. n |-> sub + i]
  <2>q. PICK q : q = pending_sqes \o more
    OBVIOUS
  <2>l. Len(q) = len + n /\ n \in Nat
    BY <1>p, <1>s, <2>q
  <2>3. /\ q \in Seq(Nat)
        /\ \A i \in 1 .. len + n : q[i] = IF i <= len THEN pending_sqes[i] ELSE sub + (i - len)
    BY <1>p, <1>s, <2>q, <2>l
  <2> HIDE DEF more
  <2>t. PICK all \in Nat : all = Len(q) /\ all = len + n
    BY <2>l
  <2>u. (IF all > sq_entries THEN all - sq_entries ELSE 0) \in Nat
    BY RingConstants
  <2>v. PICK over \in Nat : over = IF all > sq_entries THEN all - sq_entries ELSE 0
    BY <2>u
  <2>b. over <= all /\ all - over \in Nat /\ all - over <= sq_entries
    BY <2>v, RingConstants
  <2>1. /\ n <= sq_entries /\ pending_sqes' = Ring!Tail_(q, over)
        /\ ring_counters' = [submissions |-> sub + n, completions |-> com, errors |-> err + over]
        /\ UNCHANGED <<recent_cqes, cleared>>
    BY <1>2, <1>p, <2>q, <2>t, <2>v DEF Ring!Submit, Ring!Dropped, more
  <2>4. Increasing(q, sub + n)
    <3>0. ASSUME NEW i \in 1 .. len + n PROVE q[i] = IF i <= len THEN pending_sqes[i] ELSE sub + (i - len)
      BY <2>3
    <3>1. ASSUME NEW i \in 1 .. len + n PROVE q[i] <= sub + n
      BY <1>o, <2>l, <3>0
    <3>2. ASSUME NEW i \in 1 .. len + n, NEW j \in 1 .. len + n, i < j PROVE q[i] < q[j]
      <4>1. CASE j <= len
        BY <1>o, <2>l, <3>0, <3>2, <4>1
      <4>2. CASE i <= len /\ ~(j <= len)
        BY <1>o, <2>l, <3>0, <3>2, <4>2
      <4>3. CASE ~(i <= len) /\ ~(j <= len)
        BY <2>l, <3>0, <3>2, <4>3
      <4> QED
        BY <2>l, <3>2, <4>1, <4>2, <4>3
    <3>3. DOMAIN q = 1 .. len + n
      BY <2>3, <2>l
    <3> QED
      BY <3>1, <3>2, <3>3 DEF Increasing
  <2>5. pending_sqes' \in Seq(Nat) /\ Len(pending_sqes') = all - over /\ Increasing(pending_sqes', sub + n)
    BY <2>1, <2>3, <2>4, <2>b, <2>t, WithoutFirst
  <2>6. sub + n \in Nat /\ err + over \in Nat /\ sub + n = (all - over) + com + (err + over) + cleared
    BY <1>c, <2>b, <2>l, <2>t
  <2> QED
    BY <1>c, <1>w, <2>1, <2>5, <2>6, <2>b
<1>3. ASSUME Ring!PollCompletions PROVE EngineInv'
  <2>n. PICK n \in Nat : n = Ring!Least(len, PollBatch) /\ n <= len
    BY RingConstants DEF Ring!Least
  <2>1. /\ pending_sqes' = Ring!Tail_(pending_sqes, n)
        /\ ring_counters' = [submissions |-> sub, completions |-> com + n, errors |-> err]
        /\ recent_cqes' = Ring!Trimmed(recent_cqes, n) /\ UNCHANGED cleared
    BY <1>3, <1>p, <2>n DEF Ring!PollCompletions
  <2>2. /\ pending_sqes' \in Seq(Nat) /\ Len(pending_sqes') = len - n /\ Increasing(pending_sqes', sub)
    BY <1>p, <1>s, <2>1, <2>n, WithoutFirst
  <2>3. recent_cqes' \in Nat /\ recent_cqes' < MaxRecent
    BY <1>c, <2>1, <2>n, RingConstants DEF Ring!Trimmed, Ring!Least
  <2>4. com + n \in Nat /\ len - n \in Nat /\ len - n <= sq_entries /\ sub = (len - n) + (com + n) + err + cleared
    BY <1>c, <2>n, RingConstants
  <2> QED
    BY <1>c, <1>w, <2>1, <2>2, <2>3, <2>4
<1>4. ASSUME Ring!Shutdown PROVE EngineInv'
  <2>1. /\ cleared' = cleared + len /\ pending_sqes' = <<>> /\ recent_cqes' = 0
        /\ ring_counters' = [submissions |-> sub, completions |-> com, errors |-> err]
    BY <1>4, <1>p DEF Ring!Shutdown
  <2>2. pending_sqes' \in Seq(Nat) /\ Len(pending_sqes') = 0 /\ Increasing(pending_sqes', sub)
    BY <2>1 DEF Increasing
  <2>3. cleared + len \in Nat /\ sub = 0 + com + err + (cleared + len)
    BY <1>c
  <2> QED
    BY <1>w, <2>1, <2>2, <2>3, RingConstants
<1>5. ASSUME Ring!Initialize \/ Ring!Add \/ Ring!Flush PROVE EngineInv'
  BY <1>1, <1>5 DEF Ring!Initialize, Ring!Add, Ring!Flush, Ring!engine
<1>6. ASSUME NEW u, NEW i, Ring!Allocate(u) \/ Ring!Release(u, i) PROVE EngineInv'
  BY <1>1, <1>6 DEF Ring!Allocate, Ring!Release, Ring!engine
<1>7. CASE UNCHANGED ring_vars
  BY <1>1, <1>7 DEF ring_vars
<1> QED
  BY <1>2, <1>3, <1>4, <1>5, <1>6, <1>7 DEF Ring!Next

\* Every step keeps the packets of the batch.
LEMMA BatcherNext == ASSUME BatcherInv, [Ring!Next]_ring_vars PROVE BatcherInv'
<1> USE RingConstants DEF BatcherInv
<1>1. ASSUME Ring!Add PROVE BatcherInv'
  <2>1. batcher' = [pending |-> batcher.pending + 1, batches |-> batcher.batches, total |-> batcher.total,
                    added |-> batcher.added + 1] /\ batcher.pending < max_batch
    BY <1>1 DEF Ring!Add, Ring!Room
  <2> QED
    BY <2>1
<1>2. ASSUME Ring!Flush PROVE BatcherInv'
  <2>1. batcher' = [pending |-> 0, batches |-> batcher.batches + 1, total |-> batcher.total + batcher.pending,
                    added |-> batcher.added]
    BY <1>2 DEF Ring!Flush
  <2> QED
    BY <2>1
<1>3. ASSUME UNCHANGED batcher PROVE BatcherInv'
  BY <1>3
<1>4. ASSUME NEW n, NEW u, NEW i,
             \/ Ring!Initialize \/ Ring!PollCompletions \/ Ring!Shutdown
             \/ Ring!Submit(n) \/ Ring!Allocate(u) \/ Ring!Release(u, i)
      PROVE  BatcherInv'
  BY <1>3, <1>4 DEF Ring!Initialize, Ring!PollCompletions, Ring!Shutdown, Ring!Submit, Ring!Allocate, Ring!Release
<1>5. CASE UNCHANGED ring_vars
  BY <1>3, <1>5 DEF ring_vars
<1> QED
  BY <1>1, <1>2, <1>4, <1>5 DEF Ring!Next

\* Every step keeps the buffers of the pool.
LEMMA PoolNext == ASSUME PoolInv, [Ring!Next]_ring_vars PROVE PoolInv'
<1> USE RingConstants
<1>f. /\ free_indices \in Seq(Buffers) /\ Len(free_indices) \in Nat
      /\ DOMAIN free_indices = 1 .. Len(free_indices)
  BY DEF PoolInv
<1>1. ASSUME UNCHANGED <<free_indices, holds, doubled>> PROVE PoolInv'
  BY <1>1 DEF PoolInv, Queued
<1>2. ASSUME NEW u \in Users, Ring!Allocate(u) PROVE PoolInv'
  <2> DEFINE first == free_indices[1]
  <2>1. /\ Len(free_indices) > 0 /\ free_indices' = Tail(free_indices) /\ UNCHANGED doubled
        /\ holds' = [holds EXCEPT ![u] = @ \cup {first}]
    BY <1>2, <1>f DEF Ring!Allocate
  <2>2. /\ free_indices' \in Seq(Buffers) /\ DOMAIN free_indices' = 1 .. Len(free_indices) - 1
        /\ \A n \in DOMAIN free_indices' : free_indices'[n] = free_indices[n + 1]
    BY <1>f, <2>1
  <2>3. first \in Buffers /\ holds' \in [Users -> SUBSET Buffers]
    BY <1>f, <2>1 DEF PoolInv
  <2>4. ASSUME ~doubled, NEW i \in Buffers PROVE Queued(i)' <=> (Queued(i) /\ i # first)
    <3>1. \A m, n \in DOMAIN free_indices : free_indices[m] = free_indices[n] => m = n
      BY <2>4 DEF PoolInv
    <3>2. ASSUME NEW n \in DOMAIN free_indices', free_indices'[n] = i PROVE Queued(i) /\ i # first
      BY <1>f, <2>1, <2>2, <3>1, <3>2 DEF Queued
    <3>3. ASSUME NEW n \in DOMAIN free_indices, free_indices[n] = i, i # first PROVE Queued(i)'
      <4>1. n - 1 \in DOMAIN free_indices' /\ free_indices'[n - 1] = i
        BY <1>f, <2>1, <2>2, <3>3
      <4> QED
        BY <4>1 DEF Queued
    <3> QED
      BY <3>2, <3>3 DEF Queued
  <2>5. ~doubled => Queued(first)
    BY <1>f, <2>1 DEF Queued
  <2> HIDE DEF first
  <2>6. ASSUME ~doubled
        PROVE  /\ \A m, n \in DOMAIN free_indices' : free_indices'[m] = free_indices'[n] => m = n
               /\ \A v \in Users : \A i \in holds'[v] : ~Queued(i)'
               /\ \A v, w \in Users : \A i \in holds'[v] \cap holds'[w] : v = w
               /\ \A i \in Buffers : Queued(i)' \/ \E v \in Users : i \in holds'[v]
    <3>1. \A m, n \in DOMAIN free_indices' : free_indices'[m] = free_indices'[n] => m = n
      BY <1>f, <2>2, <2>6 DEF PoolInv
    <3>2. \A v \in Users : holds'[v] = IF v = u THEN holds[u] \cup {first} ELSE holds[v]
      BY <2>1 DEF PoolInv
    <3>3. \A v \in Users : \A i \in holds[v] : i # first
      BY <2>5, <2>6 DEF PoolInv
    <3>4. \A v \in Users : \A i \in holds'[v] : ~Queued(i)'
      BY <2>3, <2>4, <2>6, <3>2 DEF PoolInv
    <3>5. \A v, w \in Users : \A i \in holds'[v] \cap holds'[w] : v = w
      BY <2>6, <3>2, <3>3 DEF PoolInv
    <3>6. \A i \in Buffers : Queued(i)' \/ \E v \in Users : i \in holds'[v]
      BY <2>4, <2>6, <3>2 DEF PoolInv
    <3> QED
      BY <3>1, <3>4, <3>5, <3>6
  <2> QED
    BY <2>1, <2>2, <2>3, <2>6 DEF PoolInv
<1>3. ASSUME NEW u \in Users, NEW i \in Buffers, Ring!Release(u, i) PROVE PoolInv'
  <2>1. /\ free_indices' = Append(free_indices, i) /\ holds' = [holds EXCEPT ![u] = @ \ {i}]
        /\ ~doubled /\ doubled' = (doubled \/ i \notin holds[u])
    BY <1>3 DEF Ring!Release, Ring!Freed
  <2>2. /\ free_indices' \in Seq(Buffers) /\ DOMAIN free_indices' = 1 .. Len(free_indices) + 1
        /\ \A n \in DOMAIN free_indices' : free_indices'[n] = IF n <= Len(free_indices) THEN free_indices[n] ELSE i
    BY <1>f, <2>1
  <2>3. holds' \in [Users -> SUBSET Buffers] /\ doubled' \in BOOLEAN
    BY <2>1 DEF PoolInv
  <2>4. \A j \in Buffers : Queued(j)' <=> Queued(j) \/ j = i
    BY <1>f, <2>2 DEF Queued
  <2>5. ASSUME ~doubled'
        PROVE  /\ \A m, n \in DOMAIN free_indices' : free_indices'[m] = free_indices'[n] => m = n
               /\ \A v \in Users : \A j \in holds'[v] : ~Queued(j)'
               /\ \A v, w \in Users : \A j \in holds'[v] \cap holds'[w] : v = w
               /\ \A j \in Buffers : Queued(j)' \/ \E v \in Users : j \in holds'[v]
    <3>1. i \in holds[u] /\ ~Queued(i)
      BY <2>1, <2>5 DEF PoolInv
    <3>2. \A v \in Users : holds'[v] = IF v = u THEN holds[u] \ {i} ELSE holds[v]
      BY <2>1 DEF PoolInv
    <3>3. \A v \in Users : i \notin holds'[v]
      BY <2>1, <3>1, <3>2 DEF PoolInv
    <3>4. \A m, n \in DOMAIN free_indices' : free_indices'[m] = free_indices'[n] => m = n
      <4> SUFFICES ASSUME NEW m \in DOMAIN free_indices', NEW n \in DOMAIN free_indices',
                          free_indices'[m] = free_indices'[n]
                   PROVE  m = n
        OBVIOUS
      <4>1. \A k \in DOMAIN free_indices : free_indices[k] # i
        BY <3>1 DEF Queued
      <4> QED
        BY <1>f, <2>1, <2>2, <4>1 DEF PoolInv
    <3>5. \A v \in Users : \A j \in holds'[v] : ~Queued(j)'
      BY <2>1, <2>3, <2>4, <3>2, <3>3 DEF PoolInv
    <3>6. \A v, w \in Users : \A j \in holds'[v] \cap holds'[w] : v = w
      BY <2>1, <3>2 DEF PoolInv
    <3>7. \A j \in Buffers : Queued(j)' \/ \E v \in Users : j \in holds'[v]
      BY <2>1, <2>4, <3>2 DEF PoolInv
    <3> QED
      BY <3>4, <3>5, <3>6, <3>7
  <2> QED
    BY <2>2, <2>3, <2>5 DEF PoolInv
<1>4. ASSUME NEW n,
             \/ Ring!Initialize \/ Ring!PollCompletions \/ Ring!Shutdown \/ Ring!Add \/ Ring!Flush \/ Ring!Submit(n)
      PROVE  PoolInv'
  BY <1>1, <1>4 DEF Ring!Initialize, Ring!PollCompletions, Ring!Shutdown, Ring!Submit, Ring!Add, Ring!Flush, Ring!pool
<1>5. CASE UNCHANGED ring_vars
  BY <1>1, <1>5 DEF ring_vars
<1> QED
  BY <1>2, <1>3, <1>4, <1>5 DEF Ring!Next, Buffers

\* Every step of io_uring keeps the invariant.
LEMMA RingNext == ASSUME RingInv, [Ring!Next]_ring_vars PROVE RingInv'
  BY EngineNext, BatcherNext, PoolNext DEF RingInv

\* What follows from the invariant of io_uring.
LEMMA RingRight ==
  ASSUME RingInv
  PROVE  Ring!TypeOK /\ Ring!Conserved /\ Ring!RecentBounded /\ Ring!OneOwner /\ Ring!BatchConserved
<1>1. Ring!TypeOK
  <2>1. Ring!Constants /\ Len(pending_sqes) <= sq_entries /\ batcher.pending <= max_batch
    BY RequestsAssumption DEF RingInv, EngineInv, BatcherInv
  <2>2. \A i \in DOMAIN free_indices : free_indices[i] \in Buffers
    BY DEF RingInv, PoolInv
  <2> QED
    BY <2>1, <2>2 DEF Ring!TypeOK, Buffers
<1>2. Ring!Conserved /\ Ring!RecentBounded /\ Ring!BatchConserved
  BY DEF Ring!Conserved, Ring!RecentBounded, Ring!BatchConserved, RingInv, EngineInv, BatcherInv, Increasing
<1>3. ASSUME ~doubled, NEW i \in 0 .. buffer_count - 1
      PROVE  Cardinality({n \in DOMAIN free_indices : free_indices[n] = i})
               + Cardinality({u \in Users : i \in holds[u]}) = 1
  <2>p. PoolInv /\ i \in Buffers
    BY <1>3 DEF RingInv, Buffers
  <2>1. CASE Queued(i)
    <3>1. PICK m \in DOMAIN free_indices : free_indices[m] = i
      BY <2>1 DEF Queued
    <3>2. {n \in DOMAIN free_indices : free_indices[n] = i} = {m}
      BY <1>3, <2>p, <3>1 DEF PoolInv
    <3>3. {u \in Users : i \in holds[u]} = {}
      BY <1>3, <2>p, <2>1 DEF PoolInv
    <3>4. Cardinality({u \in Users : i \in holds[u]}) = 0
      BY <3>3, FS_EmptySet
    <3>5. Cardinality({n \in DOMAIN free_indices : free_indices[n] = i}) = 1
      BY <3>2, FS_Singleton
    <3> QED
      BY <3>4, <3>5
  <2>2. CASE ~Queued(i)
    <3>1. PICK v \in Users : i \in holds[v]
      BY <1>3, <2>p, <2>2 DEF PoolInv
    <3>2. {u \in Users : i \in holds[u]} = {v}
      BY <1>3, <2>p, <3>1 DEF PoolInv
    <3>3. {n \in DOMAIN free_indices : free_indices[n] = i} = {}
      BY <2>2 DEF Queued
    <3>4. Cardinality({u \in Users : i \in holds[u]}) = 1
      BY <3>2, FS_Singleton
    <3>5. Cardinality({n \in DOMAIN free_indices : free_indices[n] = i}) = 0
      BY <3>3, FS_EmptySet
    <3> QED
      BY <3>4, <3>5
  <2> QED
    BY <2>1, <2>2
<1>4. ASSUME NEW S PROVE Ring!Cardinality(S) = Cardinality(S)
  BY DEF Ring!Cardinality, Cardinality
<1>5. Ring!OneOwner
  BY <1>3, <1>4 DEF Ring!OneOwner
<1> QED
  BY <1>1, <1>2, <1>5

-----------------------------------------------------------------------------
(* The DPDK manager: its ports, and the queues of the flows.                 *)
\* The queue of a flow by a redirection table.
QueueBy(f, table) == table[Nics!Remainder(Nics!ToeplitzHash(f), Len(table)) + 1]
ManagerInv ==
  /\ ports \subseteq Ports /\ mempools \subseteq {"default", "jumbo"} /\ configuring \subseteq ports
  /\ Nics!StatsFollowPorts /\ Nics!PortsNeedInit
QueuesInv ==
  /\ reta \in Redirects
  /\ \A q \in queued : \E f \in Flows : q = <<f, QueueBy(f, reta)>>
NicsInv == ManagerInv /\ QueuesInv

\* What goes into the hash: twelve bytes, of which the last four are the ports'.
PortBytes(port) == <<port \div 256, port % 256>>
FlowBytes(f) == f.src_ip \o f.dst_ip \o PortBytes(f.src_port) \o PortBytes(f.dst_port)
\* The bits that are set of which the key, shifted, has the bit k set.
MixedIn(f, k) ==
  {i \in DOMAIN Nics!BitString(FlowBytes(f)) :
      Nics!BitString(FlowBytes(f))[i] /\ k - Nics!Shift(Len(Nics!BitString(FlowBytes(f))), i) \in Nics!KeyWord}

\* What the hash uses of its key.
LEMMA KeyBytes == HashKey \in [1 .. 4 -> 0 .. 255]
  BY RequestsAssumption DEF Nics!Constants

\* What the constants of DPDK stand for.
LEMMA NicsConstants ==
  /\ HashKey \in [1 .. 4 -> 0 .. 255]
  /\ Flows \subseteq [src_ip : [1 .. 4 -> 0 .. 255], dst_ip : [1 .. 4 -> 0 .. 255],
                     src_port : Nics!Words16, dst_port : Nics!Words16]
  /\ \A r \in Redirects : r \in Seq(Nat) /\ r # <<>>
  BY RequestsAssumption DEF Nics!Constants

\* Two bytes as a sequence, that sequence behind another, and the bytes of a flow.
IsPair(u, a, b) == u \in Seq(Nat) /\ Len(u) = 2 /\ u[1] = a /\ u[2] = b
Joins(s, u, t) == s \in Seq(Nat) /\ u \in Seq(Nat) /\ Len(u) = 2 /\ t = s \o u
Joined(s, u, t) ==
  /\ t \in Seq(Nat) /\ Len(t) = Len(s) + 2 /\ t[Len(s) + 1] = u[1] /\ t[Len(s) + 2] = u[2]
  /\ \A i \in 1 .. Len(s) : t[i] = s[i]
JoinsFour(s, d, u, v, c) ==
  /\ s \in Seq(Nat) /\ d \in Seq(Nat) /\ u \in Seq(Nat) /\ v \in Seq(Nat)
  /\ Len(s) = 4 /\ Len(d) = 4 /\ Len(u) = 2 /\ Len(v) = 2 /\ c = s \o d \o u \o v
EndsWith(u, v, c) == Len(c) = 12 /\ c[9] = u[1] /\ c[10] = u[2] /\ c[11] = v[1] /\ c[12] = v[2]

\* Two numbers are a sequence of two.
LEMMA AsSequence ==
  \A a, b \in Nat : IsPair(<<a, b>>, a, b)
<1>1. \A a, b \in Nat : <<a, b>> \in Seq(Nat)
  OBVIOUS
<1>2. \A a, b : Len(<<a, b>>) = 2
  OBVIOUS
<1>3. \A a, b : <<a, b>>[1] = a /\ <<a, b>>[2] = b
  OBVIOUS
<1> QED
  BY <1>1, <1>2, <1>3, Zenon DEF IsPair

\* A sequence of bytes and two bytes more.
LEMMA TwoMore ==
  \A s, u, t : Joins(s, u, t) => Joined(s, u, t)
<1>0. SUFFICES ASSUME NEW s, NEW u, NEW t, s \in Seq(Nat) /\ u \in Seq(Nat) /\ Len(u) = 2 /\ t = s \o u
               PROVE  /\ t \in Seq(Nat) /\ Len(t) = Len(s) + 2 /\ t[Len(s) + 1] = u[1] /\ t[Len(s) + 2] = u[2]
                      /\ \A i \in 1 .. Len(s) : t[i] = s[i]
  BY Zenon DEF Joins, Joined
<1>3. /\ t \in Seq(Nat) /\ Len(t) = Len(s) + Len(u)
      /\ \A i \in 1 .. Len(s) + Len(u) : t[i] = IF i <= Len(s) THEN s[i] ELSE u[i - Len(s)]
  BY <1>0, ConcatProperties
<1>4. Len(s) \in Nat
  BY <1>0
<1>5. PICK n \in Nat : n = Len(s)
  BY <1>4
<1>6. t[n + 1] = u[1] /\ t[n + 2] = u[2] /\ (\A i \in 1 .. n : t[i] = s[i]) /\ Len(t) = n + 2
  <2>1. \A i \in 1 .. n + 2 : t[i] = IF i <= n THEN s[i] ELSE u[i - n]
    BY <1>0, <1>3, <1>5, Zenon
  <2>2. n + 1 \in 1 .. n + 2 /\ n + 2 \in 1 .. n + 2 /\ ~(n + 1 <= n) /\ ~(n + 2 <= n) /\ (n + 1) - n = 1 /\ (n + 2) - n = 2
    OBVIOUS
  <2>3. t[n + 1] = u[1] /\ t[n + 2] = u[2]
    BY <2>1, <2>2, Zenon
  <2>4. \A i \in 1 .. n : i \in 1 .. n + 2 /\ i <= n
    OBVIOUS
  <2>5. \A i \in 1 .. n : t[i] = s[i]
    BY <2>1, <2>4, Zenon
  <2> QED
    BY <1>0, <1>3, <1>5, <2>3, <2>5, Zenon
<1> QED
  BY <1>3, <1>5, <1>6, Zenon

\* Four bytes, as a sequence.
LEMMA FourBytes == ASSUME NEW s \in [1 .. 4 -> 0 .. 255] PROVE s \in Seq(Nat) /\ Len(s) = 4
<1>1. \A n \in Nat : \A t \in [1 .. n -> Nat] : t \in Seq(Nat)
  BY SeqDef
<1>2. \A n \in Nat : \A t \in Seq(Nat) : DOMAIN t = 1 .. n => Len(t) = n
  OBVIOUS
<1>3. s \in [1 .. 4 -> Nat] /\ DOMAIN s = 1 .. 4
  OBVIOUS
<1>4. 4 \in Nat
  OBVIOUS
<1>5. s \in Seq(Nat)
  BY <1>1, <1>3, <1>4, Zenon
<1>6. Len(s) = 4
  BY <1>2, <1>3, <1>4, <1>5, Zenon
<1> QED
  BY <1>5, <1>6

\* The numbers up to one are natural.
LEMMA FromZero == ASSUME NEW n PROVE \A p \in 0 .. n : p \in Nat
  OBVIOUS

\* The two bytes of a port.
LEMMA TwoBytes == ASSUME NEW p \in Nat PROVE p \div 256 \in Nat /\ p % 256 \in Nat
  OBVIOUS

\* The fields of a flow.
LEMMA FlowFields ==
  ASSUME NEW f \in Flows
  PROVE  /\ f.src_ip \in Seq(Nat) /\ f.dst_ip \in Seq(Nat) /\ Len(f.src_ip) = 4 /\ Len(f.dst_ip) = 4
         /\ f.src_port \in Nat /\ f.dst_port \in Nat
<1>1. f.src_ip \in [1 .. 4 -> 0 .. 255] /\ f.dst_ip \in [1 .. 4 -> 0 .. 255]
  BY NicsConstants
<1>2. f.src_port \in Nics!Words16 /\ f.dst_port \in Nics!Words16
  BY NicsConstants
<1>3. \A p \in Nics!Words16 : p \in Nat
  BY FromZero, Zenon DEF Nics!Words16
<1>4. \A s \in [1 .. 4 -> 0 .. 255] : s \in Seq(Nat) /\ Len(s) = 4
  BY FourBytes
<1>5. PICK Byte : Byte = 0 .. 255
  OBVIOUS
<1>6. \A s \in [1 .. 4 -> Byte] : s \in Seq(Nat) /\ Len(s) = 4
  BY <1>4, <1>5
<1>7. f.src_ip \in [1 .. 4 -> Byte] /\ f.dst_ip \in [1 .. 4 -> Byte]
  BY <1>1, <1>5
<1> QED
  BY <1>2, <1>3, <1>6, <1>7, Zenon

\* Two times four bytes, and two times two.
LEMMA TwelveBytes ==
  \A s, d, u, v, c : JoinsFour(s, d, u, v, c) => EndsWith(u, v, c)
<1>0. SUFFICES ASSUME NEW s, NEW d, NEW u, NEW v, NEW c,
                      /\ s \in Seq(Nat) /\ d \in Seq(Nat) /\ u \in Seq(Nat) /\ v \in Seq(Nat)
                      /\ Len(s) = 4 /\ Len(d) = 4 /\ Len(u) = 2 /\ Len(v) = 2 /\ c = s \o d \o u \o v
               PROVE  Len(c) = 12 /\ c[9] = u[1] /\ c[10] = u[2] /\ c[11] = v[1] /\ c[12] = v[2]
  BY Zenon DEF JoinsFour, EndsWith
<1>1. PICK a : a = s \o d /\ a \in Seq(Nat) /\ Len(a) = 8
  <2>1. s \o d \in Seq(Nat) /\ Len(s \o d) = Len(s) + Len(d)
    BY <1>0, ConcatProperties, Zenon
  <2>2. Len(s \o d) = 8
    BY <1>0, <2>1
  <2> QED
    BY <2>1, <2>2, Zenon
<1>2. PICK b : b = a \o u
  OBVIOUS
<1>3. b \in Seq(Nat) /\ Len(b) = Len(a) + 2 /\ b[Len(a) + 1] = u[1] /\ b[Len(a) + 2] = u[2]
  <2>1. Joins(a, u, b)
    BY <1>0, <1>1, <1>2, Zenon DEF Joins
  <2>2. Joined(a, u, b)
    BY <2>1, TwoMore, Zenon
  <2> QED
    BY <2>2, Zenon DEF Joined
<1>4. Len(b) = 10 /\ b[9] = u[1] /\ b[10] = u[2]
  <2>1. Len(a) = 8
    BY <1>1, Zenon
  <2>2. Len(b) = Len(a) + 2 /\ b[Len(a) + 1] = u[1] /\ b[Len(a) + 2] = u[2]
    BY <1>3, Zenon
  <2> QED
    BY <2>1, <2>2
<1>5. c = b \o v
  BY <1>0, <1>1, <1>2, Zenon
<1>6. /\ Len(c) = Len(b) + 2 /\ c[Len(b) + 1] = v[1] /\ c[Len(b) + 2] = v[2]
      /\ \A i \in 1 .. Len(b) : c[i] = b[i]
  <2>1. Joins(b, v, c)
    BY <1>0, <1>3, <1>5, Zenon DEF Joins
  <2>2. Joined(b, v, c)
    BY <2>1, TwoMore, Zenon
  <2> QED
    BY <2>2, Zenon DEF Joined
<1>7. Len(c) = 12 /\ c[11] = v[1] /\ c[12] = v[2]
  <2>1. Len(c) = Len(b) + 2 /\ c[Len(b) + 1] = v[1] /\ c[Len(b) + 2] = v[2]
    BY <1>6, Zenon
  <2>2. Len(b) = 10
    BY <1>4
  <2> QED
    BY <2>1, <2>2
<1>8. 9 \in 1 .. Len(b) /\ 10 \in 1 .. Len(b)
  BY <1>4
<1>9. c[9] = b[9] /\ c[10] = b[10]
  BY <1>6, <1>8, Zenon
<1> QED
  BY <1>4, <1>7, <1>9, Zenon

\* The bytes that go into the hash of a flow.
LEMMA FlowBytesRight ==
  ASSUME NEW f \in Flows
  PROVE  /\ Len(FlowBytes(f)) = 12
         /\ FlowBytes(f)[9] = f.src_port \div 256 /\ FlowBytes(f)[10] = f.src_port % 256
         /\ FlowBytes(f)[11] = f.dst_port \div 256 /\ FlowBytes(f)[12] = f.dst_port % 256
<1>1. PICK s \in Seq(Nat), d \in Seq(Nat), p \in Nat, q \in Nat :
         f.src_ip = s /\ f.dst_ip = d /\ f.src_port = p /\ f.dst_port = q /\ Len(s) = 4 /\ Len(d) = 4
  BY FlowFields, Zenon
<1>2. PICK p1 \in Nat, p2 \in Nat, q1 \in Nat, q2 \in Nat :
         p1 = p \div 256 /\ p2 = p % 256 /\ q1 = q \div 256 /\ q2 = q % 256
  BY TwoBytes
<1>3. PICK u : u = PortBytes(p) /\ IsPair(u, p1, p2)
  <2>1. PortBytes(p) = <<p1, p2>>
    BY <1>2 DEF PortBytes
  <2> QED
    <3>1. IsPair(<<p1, p2>>, p1, p2)
      BY AsSequence, Zenon
    <3> QED
      BY <2>1, <3>1, Zenon
<1>4. PICK v : v = PortBytes(q) /\ IsPair(v, q1, q2)
  <2>1. PortBytes(q) = <<q1, q2>>
    BY <1>2 DEF PortBytes
  <2> QED
    <3>1. IsPair(<<q1, q2>>, q1, q2)
      BY AsSequence, Zenon
    <3> QED
      BY <2>1, <3>1, Zenon
<1>5. PICK c : c = FlowBytes(f)
  OBVIOUS
<1>6. c = s \o d \o u \o v
  BY <1>1, <1>3, <1>4, <1>5, Zenon DEF FlowBytes
<1>7. Len(c) = 12 /\ c[9] = p1 /\ c[10] = p2 /\ c[11] = q1 /\ c[12] = q2
  <2>1. JoinsFour(s, d, u, v, c)
    BY <1>1, <1>3, <1>4, <1>6, Zenon DEF JoinsFour, IsPair
  <2>2. EndsWith(u, v, c)
    BY <2>1, TwelveBytes, Zenon
  <2> QED
    BY <1>3, <1>4, <2>2, Zenon DEF EndsWith, IsPair
<1> QED
  BY <1>1, <1>2, <1>5, <1>7

\* The bits of the bytes: a bit is in one of eight to a byte.
LEMMA BitsRight ==
  ASSUME NEW f \in Flows
  PROVE  /\ DOMAIN Nics!BitString(FlowBytes(f)) = 1 .. 96 /\ Len(Nics!BitString(FlowBytes(f))) = 96
         /\ \A g \in Flows : g.src_port = f.src_port /\ g.dst_port = f.dst_port =>
               \A i \in 66 .. 96 : Nics!BitString(FlowBytes(g))[i] = Nics!BitString(FlowBytes(f))[i]
<1>1. \A g \in Flows : /\ DOMAIN Nics!BitString(FlowBytes(g)) = 1 .. 96
                       /\ Len(Nics!BitString(FlowBytes(g))) = 96
  <2> TAKE g \in Flows
  <2>1. Len(FlowBytes(g)) = 12
    BY FlowBytesRight
  <2> QED
    BY <2>1 DEF Nics!BitString
<1>2. ASSUME NEW g \in Flows, g.src_port = f.src_port, g.dst_port = f.dst_port, NEW i \in 66 .. 96
      PROVE  Nics!BitString(FlowBytes(g))[i] = Nics!BitString(FlowBytes(f))[i]
  <2>1. Len(FlowBytes(g)) = 12 /\ Len(FlowBytes(f)) = 12
    BY FlowBytesRight
  <2>2. PICK j \in {9, 10, 11, 12} : j = (i - 1) \div 8 + 1
    BY <1>2
  <2>3. FlowBytes(g)[j] = FlowBytes(f)[j]
    <3>1. FlowBytes(g)[9] = FlowBytes(f)[9] /\ FlowBytes(g)[10] = FlowBytes(f)[10]
      BY <1>2, FlowBytesRight
    <3>2. FlowBytes(g)[11] = FlowBytes(f)[11] /\ FlowBytes(g)[12] = FlowBytes(f)[12]
      BY <1>2, FlowBytesRight
    <3> QED
      BY <3>1, <3>2
  <2>4. ASSUME NEW x, Len(x) = 12
        PROVE  Nics!BitString(x)[i] = ((x[(i - 1) \div 8 + 1] \div Nics!Weights[((i - 1) % 8) + 1]) % 2 = 1)
    <3>1. i \in 1 .. 8 * Len(x)
      BY <2>4
    <3> QED
      BY <3>1, Zenon DEF Nics!BitString
  <2> QED
    BY <2>1, <2>2, <2>3, <2>4
<1> QED
  BY <1>1, <1>2

\* The bits that matter to one bit of the hash, by number.
LEMMA MixedOf ==
  ASSUME NEW f \in Flows, NEW k
  PROVE  MixedIn(f, k) = {i \in 1 .. 96 : Nics!BitString(FlowBytes(f))[i] /\ k - (96 - i + 1) \in Nics!KeyWord}
<1>1. DOMAIN Nics!BitString(FlowBytes(f)) = 1 .. 96 /\ Len(Nics!BitString(FlowBytes(f))) = 96
  BY BitsRight
<1> QED
  BY <1>1, Zenon DEF MixedIn, Nics!Shift

\* The hash, by the bits that matter to each of its own.
LEMMA HashIs ==
  ASSUME NEW f PROVE Nics!ToeplitzHash(f) = {k \in 0 .. 31 : Nics!Cardinality(MixedIn(f, k)) % 2 = 1}
  BY DEF Nics!ToeplitzHash, MixedIn, FlowBytes, PortBytes

\* Of the bits that go in, the last thirty-one at most can be seen in the word.
LEMMA HashByPorts ==
  ASSUME NEW f \in Flows, NEW g \in Flows, f.src_port = g.src_port, f.dst_port = g.dst_port
  PROVE  Nics!ToeplitzHash(f) = Nics!ToeplitzHash(g)
<1>1. ASSUME NEW k \in 0 .. 31 PROVE MixedIn(f, k) = MixedIn(g, k)
  <2>1. ASSUME NEW i \in 1 .. 96, k - (96 - i + 1) \in Nics!KeyWord PROVE i \in 66 .. 96
    <3>1. Nics!KeyWord \subseteq 0 .. 31
      BY DEF Nics!KeyWord
    <3> QED
      BY <2>1, <3>1
  <2>2. \A i \in 66 .. 96 : Nics!BitString(FlowBytes(g))[i] = Nics!BitString(FlowBytes(f))[i]
    BY BitsRight
  <2>3. MixedIn(f, k) = {i \in 1 .. 96 : Nics!BitString(FlowBytes(f))[i] /\ k - (96 - i + 1) \in Nics!KeyWord}
    BY MixedOf
  <2>4. MixedIn(g, k) = {i \in 1 .. 96 : Nics!BitString(FlowBytes(g))[i] /\ k - (96 - i + 1) \in Nics!KeyWord}
    BY MixedOf
  <2> QED
    BY <2>1, <2>2, <2>3, <2>4, Zenon
<1> QED
  BY <1>1, HashIs, Zenon

\* The last two bits of the word are never set with a key like the default one.
LEMMA HashIsMultiple ==
  ASSUME NEW f \in Flows, HashKey[4] % 2 = 0
  PROVE  Nics!ToeplitzHash(f) \subseteq 2 .. 31
<1>1. Nics!KeyWord \subseteq 1 .. 31
  <2>1. 0 \notin Nics!KeyWord
    <3>1. Len(HashKey) = 4
      BY KeyBytes, FourBytes
    <3>2. Nics!BitString(HashKey)[32] = ((HashKey[4] \div 1) % 2 = 1)
      <4>1. Nics!BitString(HashKey)[32] = ((HashKey[(32 - 1) \div 8 + 1] \div Nics!Weights[((32 - 1) % 8) + 1]) % 2 = 1)
        <5>1. 32 \in 1 .. 8 * Len(HashKey)
          BY <3>1
        <5> QED
          BY <5>1, Zenon DEF Nics!BitString
      <4>2. (32 - 1) \div 8 + 1 = 4 /\ ((32 - 1) % 8) + 1 = 8
        OBVIOUS
      <4>3. Nics!Weights[8] = 1
        BY DEF Nics!Weights
      <4> QED
        BY <4>1, <4>2, <4>3
    <3>3. HashKey[4] \in Nat
      BY KeyBytes
    <3>4. ~ Nics!BitString(HashKey)[32]
      <4>1. \A h \in Nat : h \div 1 = h
        OBVIOUS
      <4>2. (HashKey[4] \div 1) % 2 # 1
        BY <3>3, <4>1
      <4> QED
        BY <3>2, <4>2, Zenon
    <3> QED
      BY <3>4 DEF Nics!KeyWord
  <2>2. Nics!KeyWord \subseteq 0 .. 31
    BY DEF Nics!KeyWord
  <2> QED
    BY <2>1, <2>2
<1>2. ASSUME NEW k \in 0 .. 1 PROVE MixedIn(f, k) = {}
  <2>1. DOMAIN Nics!BitString(FlowBytes(f)) = 1 .. 96 /\ Len(Nics!BitString(FlowBytes(f))) = 96
    BY BitsRight
  <2>2. ASSUME NEW i \in 1 .. 96 PROVE k - (96 - i + 1) \notin Nics!KeyWord
    BY <1>1
  <2> QED
    BY <2>1, <2>2 DEF MixedIn, Nics!Shift
<1>3. Nics!Cardinality({}) = 0
  BY FS_EmptySet DEF Nics!Cardinality, Cardinality
<1>4. ASSUME NEW k \in Nics!ToeplitzHash(f), k \in 0 .. 1 PROVE FALSE
  <2>1. Nics!Cardinality(MixedIn(f, k)) % 2 = 1
    BY <1>4, HashIs
  <2> QED
    BY <1>2, <1>3, <1>4, <2>1
<1>5. Nics!ToeplitzHash(f) \subseteq 0 .. 31
  BY HashIs
<1> QED
  BY <1>4, <1>5

\* What the bits of a word leave when the word is divided by n.
Powers(n) == CHOOSE p : p = [k \in 0 .. 31 |-> IF k = 0 THEN 1 % n ELSE (2 * p[k - 1]) % n]
\* The remainder of a word, by the powers of two.
LEMMA RemainderIs ==
  ASSUME NEW w, NEW n
  PROVE  Nics!Remainder(w, n) = Nics!SumFunction([k \in w |-> Powers(n)[k]]) % n
  BY DEF Nics!Remainder, Powers

\* There is a function that gives the powers of two modulo n.
LEMMA PowersExist ==
  ASSUME NEW n \in Nat, n > 0
  PROVE  Powers(n) = [k \in 0 .. 31 |-> IF k = 0 THEN 1 % n ELSE (2 * Powers(n)[k - 1]) % n]
<1> DEFINE G == {m \in Nat : \E p : p = [k \in 0 .. m |-> IF k = 0 THEN 1 % n ELSE (2 * p[k - 1]) % n]}
<1>1. 0 \in G
  <2>1. PICK p : p = [k \in 0 .. 0 |-> 1 % n]
    OBVIOUS
  <2>2. p = [k \in 0 .. 0 |-> IF k = 0 THEN 1 % n ELSE (2 * p[k - 1]) % n]
    BY <2>1
  <2> QED
    BY <2>2
<1>2. ASSUME NEW m \in Nat, m \in G PROVE m + 1 \in G
  <2>1. PICK p : p = [k \in 0 .. m |-> IF k = 0 THEN 1 % n ELSE (2 * p[k - 1]) % n]
    BY <1>2
  <2>2. PICK q : q = [k \in 0 .. m + 1 |-> IF k <= m THEN p[k] ELSE (2 * p[m]) % n]
    OBVIOUS
  <2>3. \A k \in 0 .. m : q[k] = p[k]
    BY <2>2
  <2>4. ASSUME NEW k \in 0 .. m + 1 PROVE q[k] = IF k = 0 THEN 1 % n ELSE (2 * q[k - 1]) % n
    <3>1. CASE k = m + 1
      BY <2>2, <2>3, <3>1
    <3>2. CASE k # m + 1 /\ k # 0
      <4>1. k \in 0 .. m /\ k - 1 \in 0 .. m
        BY <3>2
      <4>2. p[k] = (2 * p[k - 1]) % n
        BY <2>1, <3>2, <4>1
      <4> QED
        BY <2>3, <3>2, <4>1, <4>2
    <3>3. CASE k = 0
      BY <2>1, <2>3, <3>3
    <3> QED
      BY <3>1, <3>2, <3>3
  <2>5. q = [k \in 0 .. m + 1 |-> IF k = 0 THEN 1 % n ELSE (2 * q[k - 1]) % n]
    BY <2>2, <2>4
  <2> QED
    BY <2>5
<1>3. 31 \in G
  <2> HIDE DEF G
  <2>1. \A m \in Nat : m \in G
    BY <1>1, <1>2, SetInduction
  <2>2. 31 \in Nat
    OBVIOUS
  <2> QED
    BY <2>1, <2>2, Zenon
<1>4. \E p : p = [k \in 0 .. 31 |-> IF k = 0 THEN 1 % n ELSE (2 * p[k - 1]) % n]
  BY <1>3
<1> QED
  BY <1>4, Zenon DEF Powers

\* Each power of two modulo n is made of the one before.
LEMMA PowersUnfold ==
  ASSUME NEW n \in Nat, n > 0
  PROVE  /\ Powers(n)[0] = 1 % n
         /\ \A k \in Nat : k + 1 <= 31 => Powers(n)[k + 1] = (2 * Powers(n)[k]) % n
<1>1. PICK p : p = Powers(n) /\ p = [k \in 0 .. 31 |-> IF k = 0 THEN 1 % n ELSE (2 * p[k - 1]) % n]
  BY PowersExist
<1>2. p[0] = 1 % n
  BY <1>1
<1>3. ASSUME NEW k \in Nat, k + 1 <= 31 PROVE p[k + 1] = (2 * p[k]) % n
  <2>1. k + 1 \in 0 .. 31 /\ k + 1 # 0 /\ k + 1 - 1 = k
    BY <1>3
  <2> QED
    BY <1>1, <2>1
<1> QED
  BY <1>1, <1>2, <1>3

\* The powers are natural numbers.
LEMMA PowersType ==
  ASSUME NEW n \in Nat, n > 0
  PROVE  \A k \in 0 .. 31 : Powers(n)[k] \in Nat
<1> DEFINE G == {k \in Nat : k <= 31 => Powers(n)[k] \in Nat}
<1>1. 0 \in G
  BY PowersUnfold
<1>2. ASSUME NEW k \in Nat, k \in G PROVE k + 1 \in G
  <2>1. CASE k + 1 <= 31
    <3>1. PICK p \in Nat : p = Powers(n)[k]
      BY <1>2, <2>1
    <3>2. Powers(n)[k + 1] = (2 * p) % n
      BY <2>1, <3>1, PowersUnfold
    <3> QED
      BY <3>2
  <2> QED
    BY <2>1
<1>3. \A k \in Nat : k \in G
  <2> HIDE DEF G
  <2> QED
    BY <1>1, <1>2, SetInduction
<1> QED
  BY <1>3

\* From the third on they are multiples of four.
LEMMA PowersVanish ==
  ASSUME NEW n \in {1, 2, 4}
  PROVE  \A k \in 2 .. 31 : Powers(n)[k] = 0
<1> DEFINE G == {k \in Nat : k + 2 <= 31 => Powers(n)[k + 2] = 0}
<1>0. n \in Nat /\ n > 0
  OBVIOUS
<1>1. 0 \in G
  <2>1. Powers(n)[0] = 1 % n /\ Powers(n)[1] = (2 * Powers(n)[0]) % n /\ Powers(n)[2] = (2 * Powers(n)[1]) % n
    <3>1. Powers(n)[0] = 1 % n /\ \A k \in Nat : k + 1 <= 31 => Powers(n)[k + 1] = (2 * Powers(n)[k]) % n
      BY <1>0, PowersUnfold
    <3>2. 0 \in Nat /\ 1 \in Nat /\ 0 + 1 = 1 /\ 1 + 1 = 2 /\ 1 <= 31 /\ 2 <= 31
      OBVIOUS
    <3> QED
      BY <3>1, <3>2, Zenon
  <2>2. 1 % n \in {0, 1} /\ (2 * (1 % n)) % n \in {0, 2} /\ (2 * ((2 * (1 % n)) % n)) % n = 0
    OBVIOUS
  <2> QED
    BY <2>1, <2>2, 0 + 2 = 2, Zenon
<1>2. ASSUME NEW k \in Nat, k \in G PROVE k + 1 \in G
  <2>1. CASE k + 3 <= 31
    <3>1. Powers(n)[k + 2] = 0
      BY <1>2, <2>1
    <3>2. Powers(n)[(k + 2) + 1] = (2 * Powers(n)[k + 2]) % n
      BY <1>0, <2>1, PowersUnfold
    <3> QED
      BY <3>1, <3>2, (k + 1) + 2 = (k + 2) + 1
  <2> QED
    BY <2>1
<1>3. \A k \in Nat : k \in G
  <2> HIDE DEF G
  <2> QED
    BY <1>1, <1>2, SetInduction
<1> QED
  <2>1. ASSUME NEW k \in 2 .. 31 PROVE Powers(n)[k] = 0
    <3>1. k - 2 \in Nat /\ (k - 2) + 2 = k
      OBVIOUS
    <3> QED
      BY <1>3, <3>1
  <2> QED
    BY <2>1

\* What is left of a word is less than n, and nothing of a multiple of four if n is 1, 2 or 4.
LEMMA RemainderRight ==
  ASSUME NEW w, w \subseteq 0 .. 31, NEW n \in Nat, n > 0
  PROVE  /\ Nics!Remainder(w, n) \in 0 .. n - 1
         /\ n \in {1, 2, 4} /\ w \subseteq 2 .. 31 => Nics!Remainder(w, n) = 0
<1>1. PICK g : g = [k \in w |-> Powers(n)[k]]
  OBVIOUS
<1>2. Summable(g)
  <2>1. IsFiniteSet(0 .. 31)
    <3>1. 0 \in Int /\ 31 \in Int
      OBVIOUS
    <3> QED
      BY <3>1, FS_Interval, Zenon
  <2>2. IsFiniteSet(w)
    BY <2>1, FS_Subset
  <2> QED
    BY <1>1, <2>2, PowersType DEF Summable
<1>3. Nics!Remainder(w, n) = SumFunction(g) % n
  <2>1. Nics!SumFunction(g) = SumFunction(g)
    BY DEF Nics!SumFunction, SumFunction, Nics!SumFunctionOnSet, SumFunctionOnSet,
           Nics!FoldFunctionOnSet, FoldFunctionOnSet, Nics!MapThenFoldSet, MapThenFoldSet
  <2> QED
    BY <1>1, <2>1, RemainderIs
<1>4. PICK sum \in Nat : sum = SumFunction(g)
  BY <1>2, SumType
<1>5. ASSUME n \in {1, 2, 4}, w \subseteq 2 .. 31 PROVE sum = 0
  <2>1. \A k \in w : g[k] = 0
    BY <1>1, <1>5, PowersVanish
  <2>2. PartialSums(g)[w] = 0
    BY <1>1, <1>2, <2>1, PartialSumsZero
  <2> QED
    BY <1>1, <1>4, <2>2, SumUnfolds
<1> QED
  BY <1>3, <1>4, <1>5

\* The initial states of DPDK satisfy the invariant.
LEMMA NicsInit == Nics!Init => NicsInv
<1> SUFFICES ASSUME Nics!Init PROVE NicsInv
  OBVIOUS
<1>1. ManagerInv
  BY DEF Nics!Init, ManagerInv, Nics!StatsFollowPorts, Nics!PortsNeedInit
<1>2. QueuesInv
  BY DEF Nics!Init, QueuesInv
<1> QED
  BY <1>1, <1>2 DEF NicsInv

\* Every step of DPDK keeps the invariant.
LEMMA NicsNext == ASSUME NicsInv, [Nics!Next]_port_vars PROVE NicsInv'
<1>1. ASSUME UNCHANGED <<ports, port_stats, configuring, mempools, ports_initialized>> PROVE ManagerInv'
  BY <1>1 DEF NicsInv, ManagerInv, Nics!StatsFollowPorts, Nics!PortsNeedInit
<1>2. ASSUME UNCHANGED <<reta, queued>> PROVE QueuesInv'
  BY <1>2 DEF NicsInv, QueuesInv
<1>3. CASE Nics!Initialize
  <2>1. ManagerInv'
    BY <1>3 DEF Nics!Initialize, NicsInv, ManagerInv, Nics!StatsFollowPorts, Nics!PortsNeedInit
  <2> QED
    BY <1>2, <1>3, <2>1 DEF Nics!Initialize, NicsInv
<1>4. CASE Nics!Shutdown
  <2>1. ManagerInv'
    BY <1>4 DEF Nics!Shutdown, NicsInv, ManagerInv, Nics!StatsFollowPorts, Nics!PortsNeedInit
  <2> QED
    BY <1>2, <1>4, <2>1 DEF Nics!Shutdown, NicsInv
<1>5. ASSUME NEW p \in Ports, Nics!ConfigurePort(p) PROVE NicsInv'
  <2>1. ManagerInv'
    BY <1>5 DEF Nics!ConfigurePort, NicsInv, ManagerInv, Nics!StatsFollowPorts, Nics!PortsNeedInit
  <2> QED
    BY <1>2, <1>5, <2>1 DEF Nics!ConfigurePort, NicsInv
<1>6. ASSUME NEW p \in Ports, Nics!PortConfigured(p) PROVE NicsInv'
  <2>1. ManagerInv'
    BY <1>6 DEF Nics!PortConfigured, NicsInv, ManagerInv, Nics!StatsFollowPorts, Nics!PortsNeedInit
  <2> QED
    BY <1>2, <1>6, <2>1 DEF Nics!PortConfigured, NicsInv
<1>7. ASSUME NEW p \in Ports, Nics!StartForwarding(p) PROVE NicsInv'
  BY <1>1, <1>2, <1>7 DEF Nics!StartForwarding, NicsInv
<1>8. ASSUME NEW f \in Flows, Nics!Receive(f) PROVE NicsInv'
  <2>1. UNCHANGED <<ports, port_stats, configuring, mempools, ports_initialized, reta>>
    BY <1>8 DEF Nics!Receive
  <2>2. queued' = queued \cup {<<f, QueueBy(f, reta)>>}
    BY <1>8 DEF Nics!Receive, Nics!GetQueue, QueueBy
  <2>3. QueuesInv'
    BY <2>1, <2>2 DEF NicsInv, QueuesInv
  <2> QED
    BY <1>1, <2>1, <2>3 DEF NicsInv
<1>9. ASSUME NEW n \in 1 .. MaxBurst, Nics!ProcessBurst(n) PROVE NicsInv'
  BY <1>1, <1>2, <1>9 DEF Nics!ProcessBurst, NicsInv
<1>10. CASE UNCHANGED port_vars
  BY <1>1, <1>2, <1>10 DEF port_vars, NicsInv
<1> QED
  BY <1>3, <1>4, <1>5, <1>6, <1>7, <1>8, <1>9, <1>10 DEF Nics!Next

\* What follows from the invariant of DPDK.
LEMMA NicsRight ==
  NicsInv => /\ Nics!TypeOK /\ Nics!StatsFollowPorts /\ Nics!PortsNeedInit /\ Nics!PortsDecide /\ Nics!OneQueue
<1> SUFFICES ASSUME NicsInv
             PROVE  /\ Nics!TypeOK /\ Nics!StatsFollowPorts /\ Nics!PortsNeedInit
                    /\ Nics!PortsDecide /\ Nics!OneQueue
  OBVIOUS
<1>1. PICK n \in Nat : n > 0 /\ n = Len(reta) /\ DOMAIN reta = 1 .. n
  <2>1. reta \in Seq(Nat) /\ reta # <<>>
    BY NicsConstants DEF NicsInv, QueuesInv
  <2> QED
    BY <2>1
<1>2. ASSUME NEW f \in Flows
      PROVE  /\ Nics!Remainder(Nics!ToeplitzHash(f), n) \in 0 .. n - 1
             /\ n \in {1, 2, 4} /\ Nics!ToeplitzHash(f) \subseteq 2 .. 31
                   => Nics!Remainder(Nics!ToeplitzHash(f), n) = 0
  <2>1. PICK w : w = Nics!ToeplitzHash(f)
    OBVIOUS
  <2>2. w \subseteq 0 .. 31
    BY <2>1, HashIs
  <2> QED
    BY <1>1, <2>1, <2>2, RemainderRight
<1>3. Nics!TypeOK
  <2>1. ASSUME NEW q \in queued PROVE \E i \in DOMAIN reta : q[2] = reta[i]
    <3>1. PICK f \in Flows : q = <<f, QueueBy(f, reta)>>
      BY DEF NicsInv, QueuesInv
    <3>2. PICK r \in 0 .. n - 1 : r = Nics!Remainder(Nics!ToeplitzHash(f), n)
      BY <1>2, Zenon
    <3>3. q[2] = reta[r + 1]
      BY <1>1, <3>1, <3>2 DEF QueueBy
    <3> QED
      BY <1>1, <3>3
  <2> QED
    BY <2>1, RequestsAssumption DEF Nics!TypeOK, NicsInv, ManagerInv
<1>4. Nics!PortsDecide
  <2>1. ASSUME NEW q \in queued, NEW r \in queued,
               q[1].src_port = r[1].src_port, q[1].dst_port = r[1].dst_port
        PROVE  q[2] = r[2]
    <3>1. PICK f \in Flows : q = <<f, QueueBy(f, reta)>>
      BY DEF NicsInv, QueuesInv
    <3>2. PICK g \in Flows : r = <<g, QueueBy(g, reta)>>
      BY DEF NicsInv, QueuesInv
    <3>3. f.src_port = g.src_port /\ f.dst_port = g.dst_port
      BY <2>1, <3>1, <3>2
    <3>4. Nics!ToeplitzHash(f) = Nics!ToeplitzHash(g)
      BY <3>3, HashByPorts
    <3> QED
      BY <3>1, <3>2, <3>4 DEF QueueBy
  <2> QED
    BY <2>1 DEF Nics!PortsDecide
<1>5. Nics!OneQueue
  <2>1. ASSUME Len(reta) \in {1, 2, 4}, HashKey[4] % 2 = 0, NEW q \in queued PROVE q[2] = reta[1]
    <3>1. PICK f \in Flows : q = <<f, QueueBy(f, reta)>>
      BY DEF NicsInv, QueuesInv
    <3>2. Nics!ToeplitzHash(f) \subseteq 2 .. 31
      BY <2>1, HashIsMultiple
    <3>3. Nics!Remainder(Nics!ToeplitzHash(f), n) = 0
      BY <1>1, <1>2, <2>1, <3>2, Zenon
    <3> QED
      BY <1>1, <3>1, <3>3 DEF QueueBy
  <2> QED
    BY <2>1 DEF Nics!OneQueue
<1> QED
  BY <1>3, <1>4, <1>5 DEF NicsInv, ManagerInv

-----------------------------------------------------------------------------
(* The relay.                                                                *)
RelayIps == Relay!Ips
OnItsWay == [pc : {"lookup"}, src : RelayDevices, dst : RelayDevices, ip : RelayIps]
SentOn == [pc : {"send"}, src : RelayDevices, dst : RelayDevices, ip : RelayIps, to : DOMAIN IpOf]
SentFrom(d) == {p \in SentOn : p.src = d}
SentByIp(ip) == {p \in SentOn : p.ip = ip}
\* Where a sequence has a member of a set.
Where(s, T) == {i \in DOMAIN s : s[i] \in T}
\* Packets a table has counted in this second.
CountedNow(table, x) == IF x \in DOMAIN table /\ table[x][1] = now THEN table[x][2] ELSE 0
TableRight(table) == \A x \in DOMAIN table : table[x] \in Nat \X Nat
\* The loop has one packet at most.
InLoop(p) == IF p THEN 1 ELSE 0
DeviceRight(d) ==
  LET n == Cardinality(Where(forwarded, SentFrom(d))) + InLoop(packet.pc # "none" /\ packet.src = d)
  IN  n <= CountedNow(rate_limits, d) /\ n <= DeviceLimit
IpRight(ip) ==
  LET n == Cardinality(Where(forwarded, SentByIp(ip))) + InLoop(packet.pc # "none" /\ packet.ip = ip)
  IN  n <= CountedNow(ip_rate_limits, ip) /\ n <= IpLimit

AddressesInv ==
  /\ known \in [RelayDevices -> SUBSET DOMAIN IpOf]
  /\ DOMAIN device_addrs \subseteq RelayDevices
  /\ \A d \in DOMAIN device_addrs : Len(d) = IdLen /\ device_addrs[d] \in known[d]
  /\ DOMAIN relay_routes \subseteq RelayDevices \X RelayDevices
  /\ \A r \in DOMAIN relay_routes : relay_routes[r] \in known[r[2]]
PacketsInv ==
  /\ packet \in {Relay!NoPacket} \cup OnItsWay \cup SentOn
  /\ packet.pc = "send" => packet.to \in known[packet.dst]
  /\ forwarded \in Seq(SentOn)
  /\ \A i \in DOMAIN forwarded : forwarded[i].to \in known[forwarded[i].dst]
RatesInv ==
  /\ TableRight(rate_limits) /\ TableRight(ip_rate_limits) /\ now \in Nat
  /\ \A d \in RelayDevices : DeviceRight(d)
  /\ \A ip \in RelayIps : IpRight(ip)
RelayInv == AddressesInv /\ PacketsInv /\ RatesInv

\* What the constants of the relay stand for.
LEMMA RelayConstants ==
  /\ IdLen \in Nat /\ DeviceLimit \in Nat /\ IpLimit \in Nat
  /\ \A d \in RelayDevices : d \in Seq(Nat \ {0}) /\ Len(d) <= IdLen
  BY RequestsAssumption DEF Relay!Constants

\* A packet fills both fields.
LEMMA FieldsFull ==
  ASSUME NEW src \in RelayDevices, NEW dst \in RelayDevices, NEW tag \in {Relay!ComputeHmac(src, dst), <<>>},
         Relay!Verifies(src, dst, tag)
  PROVE  Len(src) = IdLen
<1> USE RelayConstants
<1>1. ASSUME NEW d \in RelayDevices PROVE Relay!Padded(d) \in Seq(Nat) /\ Len(Relay!Padded(d)) = IdLen
  <2>1. PICK n \in Nat : n = IdLen - Len(d)
    <3>1. IdLen - Len(d) \in Nat
      OBVIOUS
    <3> QED
      BY <3>1
  <2>2. PICK z : z = [i \in 1 .. n |-> 0]
    OBVIOUS
  <2>3. z \in Seq(Nat) /\ Len(z) = n
    BY <2>2
  <2>4. d \in Seq(Nat)
    OBVIOUS
  <2>5. d \o z \in Seq(Nat) /\ Len(d \o z) = Len(d) + n
    BY <2>3, <2>4, ConcatProperties
  <2>6. Relay!Padded(d) = d \o z
    BY <2>1, <2>2 DEF Relay!Padded
  <2> QED
    BY <2>1, <2>5, <2>6
<1>2. Len(tag) = IdLen + IdLen
  <2>1. PICK a \in Seq(Nat) : a = Relay!Padded(src) /\ Len(a) = IdLen
    BY <1>1
  <2>2. PICK b \in Seq(Nat) : b = Relay!Padded(dst) /\ Len(b) = IdLen
    BY <1>1
  <2>3. tag = a \o b
    BY <2>1, <2>2 DEF Relay!Verifies
  <2>4. Len(a \o b) = Len(a) + Len(b)
    BY ConcatProperties
  <2> QED
    BY <2>1, <2>2, <2>3, <2>4
<1>3. CASE tag = <<>>
  <2>1. IdLen = 0 /\ Len(src) \in Nat
    BY <1>2, <1>3
  <2> QED
    BY <2>1
<1>4. CASE tag = Relay!ComputeHmac(src, dst)
  <2>1. Len(tag) = Len(src) + Len(dst)
    BY <1>4, ConcatProperties DEF Relay!ComputeHmac
  <2>2. Len(src) \in Nat /\ Len(dst) \in Nat /\ Len(src) <= IdLen /\ Len(dst) <= IdLen
    OBVIOUS
  <2> QED
    BY <1>2, <2>1, <2>2
<1> QED
  BY <1>3, <1>4

\* Where an appended member is.
LEMMA WhereAppended ==
  ASSUME NEW S, NEW s \in Seq(S), NEW e \in S, NEW T
  PROVE  /\ Cardinality(Where(s, T)) \in Nat
         /\ Cardinality(Where(Append(s, e), T)) = Cardinality(Where(s, T)) + InLoop(e \in T)
<1>1. Where(s, T) \subseteq 1 .. Len(s) /\ IsFiniteSet(1 .. Len(s))
  BY FS_Interval DEF Where
<1>2. IsFiniteSet(Where(s, T)) /\ Len(s) + 1 \notin Where(s, T)
  BY <1>1, FS_Subset
<1>3. Where(Append(s, e), T) = IF e \in T THEN Where(s, T) \cup {Len(s) + 1} ELSE Where(s, T)
  BY DEF Where
<1>4. PICK W : W = Where(s, T)
  OBVIOUS
<1>5. Cardinality(W) \in Nat /\ Cardinality(W \cup {Len(s) + 1}) = Cardinality(W) + 1
  BY <1>2, <1>4, FS_AddElement, FS_CardinalityType
<1> QED
  BY <1>3, <1>4, <1>5 DEF InLoop

\* An empty sequence has no members.
LEMMA WhereNone == ASSUME NEW T PROVE Cardinality(Where(<<>>, T)) = 0
<1>1. Where(<<>>, T) = {}
  BY DEF Where
<1> QED
  BY <1>1, FS_EmptySet

\* The initial states of the relay satisfy the invariant.
LEMMA RelayInit == Relay!Init => RelayInv
<1> SUFFICES ASSUME Relay!Init PROVE RelayInv
  OBVIOUS
<1> USE RelayConstants DEF Relay!Init, Relay!Empty, Relay!NoPacket
<1>1. AddressesInv
  BY DEF AddressesInv
<1>2. PacketsInv
  BY DEF PacketsInv
<1>3. RatesInv
  BY WhereNone DEF RatesInv, TableRight, DeviceRight, IpRight, CountedNow, InLoop
<1> QED
  BY <1>1, <1>2, <1>3 DEF RelayInv

\* What is known only grows.
LEMMA AddressesNext == ASSUME RelayInv, [Relay!Next]_node_vars
                       PROVE  AddressesInv' /\ \A d \in RelayDevices : known[d] \subseteq known'[d]
<1> USE RelayConstants DEF RelayInv
<1>1. ASSUME UNCHANGED <<device_addrs, relay_routes, known>>
      PROVE  AddressesInv' /\ \A d \in RelayDevices : known[d] \subseteq known'[d]
  BY <1>1 DEF AddressesInv
<1>2. ASSUME NEW src \in RelayDevices, NEW dst \in RelayDevices, NEW from \in DOMAIN IpOf,
             NEW tag \in {Relay!ComputeHmac(src, dst), <<>>}, Relay!Receive(src, dst, from, tag)
      PROVE  AddressesInv' /\ \A d \in RelayDevices : known[d] \subseteq known'[d]
  <2>1. CASE UNCHANGED <<device_addrs, known>>
    <3>1. UNCHANGED relay_routes
      BY <1>2 DEF Relay!Receive
    <3> QED
      BY <1>1, <2>1, <3>1
  <2>2. CASE ~UNCHANGED <<device_addrs, known>>
    <3>1. /\ Relay!Verifies(src, dst, tag) /\ device_addrs' = Relay!Put(device_addrs, src, from)
          /\ known' = [known EXCEPT ![src] = @ \cup {from}] /\ UNCHANGED relay_routes
      BY <1>2, <2>2 DEF Relay!Receive
    <3>2. Len(src) = IdLen
      BY <3>1, FieldsFull
    <3>3. /\ known' \in [RelayDevices -> SUBSET DOMAIN IpOf] /\ from \in known'[src]
          /\ \A d \in RelayDevices : known[d] \subseteq known'[d]
      BY <3>1 DEF AddressesInv
    <3>4. /\ DOMAIN device_addrs' = DOMAIN device_addrs \cup {src}
          /\ \A d \in DOMAIN device_addrs' : device_addrs'[d] = IF d = src THEN from ELSE device_addrs[d]
      BY <3>1 DEF Relay!Put
    <3>5. \A d \in DOMAIN device_addrs' : Len(d) = IdLen /\ device_addrs'[d] \in known'[d]
      BY <3>2, <3>3, <3>4 DEF AddressesInv
    <3>6. \A r \in DOMAIN relay_routes : r[2] \in RelayDevices
      BY DEF AddressesInv
    <3> QED
      BY <3>1, <3>3, <3>4, <3>5, <3>6 DEF AddressesInv
  <2> QED
    BY <2>1, <2>2
<1>3. ASSUME NEW src \in RelayDevices, NEW dst \in RelayDevices, Relay!AddRoute(src, dst)
      PROVE  AddressesInv' /\ \A d \in RelayDevices : known[d] \subseteq known'[d]
  <2>1. PICK to : to = device_addrs[dst]
    OBVIOUS
  <2>2. /\ dst \in DOMAIN device_addrs /\ relay_routes' = Relay!Put(relay_routes, <<src, dst>>, to)
        /\ UNCHANGED <<device_addrs, known>>
    BY <1>3, <2>1 DEF Relay!AddRoute, Relay!AddressOf
  <2>3. /\ DOMAIN relay_routes' = DOMAIN relay_routes \cup {<<src, dst>>}
        /\ \A r \in DOMAIN relay_routes' : relay_routes'[r] = IF r = <<src, dst>> THEN to ELSE relay_routes[r]
    BY <2>2 DEF Relay!Put
  <2>4. to \in known[dst]
    BY <2>1, <2>2 DEF AddressesInv
  <2>5. \A r \in DOMAIN relay_routes' : relay_routes'[r] \in known[r[2]]
    BY <2>3, <2>4 DEF AddressesInv
  <2>6. DOMAIN relay_routes' \subseteq RelayDevices \X RelayDevices
    BY <2>3 DEF AddressesInv
  <2>7. \A r \in DOMAIN relay_routes' : relay_routes'[r] \in known'[r[2]]
    BY <2>2, <2>5
  <2>8. \A d \in RelayDevices : known[d] \subseteq known'[d]
    BY <2>2
  <2> QED
    BY <2>2, <2>6, <2>7, <2>8 DEF AddressesInv
<1>4. ASSUME NEW src, NEW dst, Relay!RemoveRoute(src, dst)
      PROVE  AddressesInv' /\ \A d \in RelayDevices : known[d] \subseteq known'[d]
  BY <1>4 DEF Relay!RemoveRoute, Relay!Drop, AddressesInv
<1>5. ASSUME NEW d, Relay!UnregisterDevice(d)
      PROVE  AddressesInv' /\ \A e \in RelayDevices : known[e] \subseteq known'[e]
  BY <1>5 DEF Relay!UnregisterDevice, Relay!Drop, AddressesInv
<1>6. ASSUME Relay!Lookup \/ Relay!Tick \/ (\E sent \in BOOLEAN : Relay!SendTo(sent)) \/ UNCHANGED node_vars
      PROVE  AddressesInv' /\ \A d \in RelayDevices : known[d] \subseteq known'[d]
  BY <1>1, <1>6 DEF Relay!Lookup, Relay!Tick, Relay!SendTo, node_vars
<1> QED
  BY <1>2, <1>3, <1>4, <1>5, <1>6 DEF Relay!Next

\* What the loop does to its packet.
LEMMA PacketsNext == ASSUME RelayInv, [Relay!Next]_node_vars PROVE PacketsInv'
<1> USE RelayConstants DEF RelayInv
<1>1. AddressesInv' /\ \A d \in RelayDevices : known[d] \subseteq known'[d]
  BY AddressesNext
<1>2. ASSUME packet' \in {packet, Relay!NoPacket} \cup OnItsWay, UNCHANGED forwarded PROVE PacketsInv'
  <2>1. \A i \in DOMAIN forwarded : forwarded[i] \in SentOn
    BY DEF PacketsInv
  <2>2. \A i \in DOMAIN forwarded : forwarded[i].to \in known'[forwarded[i].dst]
    BY <1>1, <2>1 DEF PacketsInv, SentOn
  <2>3. packet'.pc = "send" => packet' = packet /\ packet \in SentOn
    BY <1>2 DEF PacketsInv, OnItsWay, SentOn, Relay!NoPacket
  <2>4. packet'.pc = "send" => packet'.to \in known'[packet'.dst]
    BY <1>1, <2>3 DEF PacketsInv, SentOn
  <2> QED
    BY <1>2, <2>2, <2>4 DEF PacketsInv
<1>3. ASSUME NEW src \in RelayDevices, NEW dst \in RelayDevices, NEW from \in DOMAIN IpOf,
             NEW tag, Relay!Receive(src, dst, from, tag)
      PROVE  PacketsInv'
  <2>1. [pc |-> "lookup", src |-> src, dst |-> dst, ip |-> IpOf[from]] \in OnItsWay
    BY DEF OnItsWay, RelayIps, Relay!Ips
  <2>2. packet' \in {packet, [pc |-> "lookup", src |-> src, dst |-> dst, ip |-> IpOf[from]]} /\ UNCHANGED forwarded
    BY <1>3 DEF Relay!Receive
  <2> QED
    BY <1>2, <2>1, <2>2
<1>4. CASE Relay!Lookup
  <2>1. packet \in OnItsWay /\ UNCHANGED <<forwarded, known>>
    BY <1>4 DEF Relay!Lookup, PacketsInv, SentOn, Relay!NoPacket
  <2>2. CASE <<packet.src, packet.dst>> \notin DOMAIN relay_routes
    <3>1. packet' = Relay!NoPacket
      BY <1>4, <2>2 DEF Relay!Lookup
    <3> QED
      BY <1>2, <2>1, <3>1
  <2>3. CASE <<packet.src, packet.dst>> \in DOMAIN relay_routes
    <3>1. PICK src \in RelayDevices, dst \in RelayDevices, ip \in RelayIps :
             packet.src = src /\ packet.dst = dst /\ packet.ip = ip
      BY <2>1 DEF OnItsWay
    <3>2. PICK to \in known[dst] : to = relay_routes[<<src, dst>>]
      BY <2>3, <3>1 DEF AddressesInv
    <3>3. to \in DOMAIN IpOf
      BY <3>2 DEF AddressesInv
    <3>4. packet' = [pc |-> "send", src |-> src, dst |-> dst, ip |-> ip, to |-> to]
      BY <1>4, <2>3, <3>1, <3>2 DEF Relay!Lookup
    <3>5. packet' \in SentOn /\ packet'.to \in known[packet'.dst]
      BY <3>3, <3>4 DEF SentOn
    <3> QED
      BY <2>1, <3>5 DEF PacketsInv
  <2> QED
    BY <2>2, <2>3
<1>5. ASSUME NEW sent \in BOOLEAN, Relay!SendTo(sent) PROVE PacketsInv'
  <2>1. packet \in SentOn /\ packet' = Relay!NoPacket /\ UNCHANGED known /\ packet.to \in known[packet.dst]
    BY <1>5 DEF Relay!SendTo, PacketsInv, OnItsWay, Relay!NoPacket
  <2>2. CASE UNCHANGED forwarded
    BY <1>2, <2>1, <2>2
  <2>3. CASE forwarded' = Append(forwarded, packet)
    <3>1. forwarded' \in Seq(SentOn) /\ DOMAIN forwarded' = DOMAIN forwarded \cup {Len(forwarded) + 1}
      BY <2>1, <2>3 DEF PacketsInv
    <3>2. \A i \in DOMAIN forwarded' : forwarded'[i] = IF i = Len(forwarded) + 1 THEN packet ELSE forwarded[i]
      BY <2>1, <2>3 DEF PacketsInv
    <3>3. \A i \in DOMAIN forwarded' : forwarded'[i].to \in known'[forwarded'[i].dst]
      BY <2>1, <3>1, <3>2 DEF PacketsInv
    <3> QED
      BY <2>1, <3>1, <3>3 DEF PacketsInv, Relay!NoPacket
  <2> QED
    BY <1>5, <2>2, <2>3 DEF Relay!SendTo
<1>6. CASE Relay!Tick
  BY <1>6 DEF Relay!Tick, PacketsInv, Relay!NoPacket
<1>7. ASSUME \/ \E src, dst \in RelayDevices : Relay!AddRoute(src, dst) \/ Relay!RemoveRoute(src, dst)
             \/ \E d \in RelayDevices : Relay!UnregisterDevice(d)
             \/ UNCHANGED node_vars
      PROVE  PacketsInv'
  BY <1>2, <1>7 DEF Relay!AddRoute, Relay!RemoveRoute, Relay!UnregisterDevice, node_vars
<1> QED
  BY <1>3, <1>4, <1>5, <1>6, <1>7 DEF Relay!Next

\* Counting a packet.
LEMMA CountsOne ==
  ASSUME NEW table, TableRight(table), now \in Nat, NEW x
  PROVE  /\ TableRight(Relay!Counted(table, x)) /\ Relay!Counted(table, x)[x][2] = CountedNow(table, x) + 1
         /\ \A y : CountedNow(table, y) \in Nat /\ CountedNow(table, y) <= CountedNow(Relay!Counted(table, x), y)
         /\ CountedNow(Relay!Counted(table, x), x) = CountedNow(table, x) + 1
<1>1. \A y : CountedNow(table, y) \in Nat
  BY DEF CountedNow, TableRight
<1>2. PICK n \in Nat : n = CountedNow(table, x) + 1
  BY <1>1
<1>3. PICK c : c = Relay!Counted(table, x)
  OBVIOUS
<1>4. c = [z \in DOMAIN table \cup {x} |-> IF z = x THEN <<now, n>> ELSE table[z]]
  BY <1>2, <1>3 DEF Relay!Counted, Relay!Put, CountedNow, TableRight
<1>5. TableRight(c) /\ c[x][2] = n
  BY <1>4 DEF TableRight
<1>6. CountedNow(c, x) = n
  BY <1>4 DEF CountedNow
<1>7. \A y : y # x => CountedNow(c, y) = CountedNow(table, y)
  BY <1>4 DEF CountedNow
<1> QED
  BY <1>1, <1>2, <1>3, <1>5, <1>6, <1>7

\* No limit is passed.
LEMMA RatesNext == ASSUME RelayInv, [Relay!Next]_node_vars PROVE RatesInv'
<1> USE RelayConstants DEF RelayInv
<1>0. /\ \A T : Cardinality(Where(forwarded, T)) \in Nat
      /\ \A e \in SentOn : \A T : Cardinality(Where(Append(forwarded, e), T))
                                     = Cardinality(Where(forwarded, T)) + InLoop(e \in T)
  <2>1. \A e \in SentOn : \A T : Cardinality(Where(Append(forwarded, e), T))
                                     = Cardinality(Where(forwarded, T)) + InLoop(e \in T)
    BY WhereAppended DEF PacketsInv
  <2>2. ASSUME NEW T PROVE Cardinality(Where(forwarded, T)) \in Nat
    <3>1. Where(forwarded, T) \subseteq 1 .. Len(forwarded) /\ IsFiniteSet(1 .. Len(forwarded))
      BY FS_Interval DEF Where, PacketsInv
    <3> QED
      BY <3>1, FS_Subset, FS_CardinalityType
  <2> QED
    BY <2>1, <2>2
<1>1. ASSUME UNCHANGED <<rate_limits, ip_rate_limits, now, forwarded>>,
             packet'.pc = "none" \/ (packet.pc # "none" /\ packet'.src = packet.src /\ packet'.ip = packet.ip)
      PROVE  RatesInv'
  <2>1. TableRight(rate_limits)' /\ TableRight(ip_rate_limits)' /\ now' \in Nat
    BY <1>1 DEF RatesInv, TableRight
  <2>2. ASSUME NEW d \in RelayDevices PROVE DeviceRight(d)'
    <3>1. DeviceRight(d) /\ CountedNow(rate_limits, d)' = CountedNow(rate_limits, d)
      BY <1>1 DEF RatesInv, CountedNow
    <3>2. InLoop(packet.pc # "none" /\ packet.src = d)' <= InLoop(packet.pc # "none" /\ packet.src = d)
      BY <1>1 DEF InLoop
    <3> QED
      BY <1>0, <1>1, <3>1, <3>2, CountsOne DEF DeviceRight, RatesInv, InLoop
  <2>3. ASSUME NEW ip \in RelayIps PROVE IpRight(ip)'
    <3>1. IpRight(ip) /\ CountedNow(ip_rate_limits, ip)' = CountedNow(ip_rate_limits, ip)
      BY <1>1 DEF RatesInv, CountedNow
    <3>2. InLoop(packet.pc # "none" /\ packet.ip = ip)' <= InLoop(packet.pc # "none" /\ packet.ip = ip)
      BY <1>1 DEF InLoop
    <3> QED
      BY <1>0, <1>1, <3>1, <3>2, CountsOne DEF IpRight, RatesInv, InLoop
  <2> QED
    BY <2>1, <2>2, <2>3 DEF RatesInv
\* A packet is counted, and refused.
<1>2. ASSUME NEW src \in RelayDevices, NEW ip \in RelayIps,
             rate_limits' \in {rate_limits, Relay!Counted(rate_limits, src)},
             ip_rate_limits' \in {ip_rate_limits, Relay!Counted(ip_rate_limits, ip)},
             packet.pc = "none", UNCHANGED <<packet, now, forwarded>>
      PROVE  RatesInv'
  <2>1. TableRight(rate_limits)' /\ TableRight(ip_rate_limits)' /\ now' \in Nat
    <3>1. TableRight(rate_limits) /\ TableRight(ip_rate_limits) /\ now \in Nat
      BY DEF RatesInv
    <3>2. TableRight(Relay!Counted(rate_limits, src)) /\ TableRight(Relay!Counted(ip_rate_limits, ip))
      BY <3>1, CountsOne
    <3>3. \A table : table = rate_limits' /\ TableRight(table) => TableRight(rate_limits)'
      BY DEF TableRight
    <3>4. \A table : table = ip_rate_limits' /\ TableRight(table) => TableRight(ip_rate_limits)'
      BY DEF TableRight
    <3>5. CASE rate_limits' = rate_limits
      BY <1>2, <3>1, <3>2, <3>3, <3>4, <3>5
    <3>6. CASE rate_limits' = Relay!Counted(rate_limits, src)
      BY <1>2, <3>1, <3>2, <3>3, <3>4, <3>6
    <3> QED
      BY <1>2, <3>5, <3>6
  <2>2. ASSUME NEW d \in RelayDevices PROVE DeviceRight(d)'
    <3>1. PICK table : table = rate_limits' /\ CountedNow(rate_limits, d)' = CountedNow(table, d)
      BY <1>2 DEF CountedNow
    <3>2. DeviceRight(d) /\ CountedNow(rate_limits, d) <= CountedNow(table, d)
      BY <1>2, <3>1, CountsOne DEF RatesInv
    <3>3. CountedNow(rate_limits, d) \in Nat /\ CountedNow(table, d) \in Nat
      BY <1>2, <3>1, CountsOne DEF RatesInv
    <3> QED
      BY <1>0, <1>2, <3>1, <3>2, <3>3 DEF DeviceRight, InLoop
  <2>3. ASSUME NEW i \in RelayIps PROVE IpRight(i)'
    <3>1. PICK table : table = ip_rate_limits' /\ CountedNow(ip_rate_limits, i)' = CountedNow(table, i)
      BY <1>2 DEF CountedNow
    <3>2. IpRight(i) /\ CountedNow(ip_rate_limits, i) <= CountedNow(table, i)
      BY <1>2, <3>1, CountsOne DEF RatesInv
    <3>3. CountedNow(ip_rate_limits, i) \in Nat /\ CountedNow(table, i) \in Nat
      BY <1>2, <3>1, CountsOne DEF RatesInv
    <3> QED
      BY <1>0, <1>2, <3>1, <3>2, <3>3 DEF IpRight, InLoop
  <2> QED
    BY <2>1, <2>2, <2>3 DEF RatesInv
\* A packet is counted, and accepted.
<1>3. ASSUME NEW src \in RelayDevices, NEW ip \in RelayIps, NEW devices, NEW ips,
             devices = Relay!Counted(rate_limits, src), devices[src][2] <= DeviceLimit, rate_limits' = devices,
             ips = Relay!Counted(ip_rate_limits, ip), ips[ip][2] <= IpLimit, ip_rate_limits' = ips,
             packet.pc = "none", packet'.pc = "lookup", packet'.src = src, packet'.ip = ip,
             UNCHANGED <<now, forwarded>>
      PROVE  RatesInv'
  <2>1. TableRight(rate_limits)' /\ TableRight(ip_rate_limits)' /\ now' \in Nat
    BY <1>3, CountsOne DEF RatesInv, TableRight
  <2>2. ASSUME NEW d \in RelayDevices PROVE DeviceRight(d)'
    <3>1. CountedNow(rate_limits, d)' = CountedNow(devices, d)
      BY <1>3 DEF CountedNow
    <3>2. /\ DeviceRight(d) /\ CountedNow(rate_limits, d) <= CountedNow(devices, d)
          /\ d = src => CountedNow(devices, d) = CountedNow(rate_limits, d) + 1 /\ CountedNow(devices, d) <= DeviceLimit
          /\ CountedNow(rate_limits, d) \in Nat /\ CountedNow(devices, d) \in Nat
      <4>1. TableRight(rate_limits) /\ now \in Nat /\ DeviceRight(d)
        BY DEF RatesInv
      <4>2. TableRight(devices) /\ devices[src][2] = CountedNow(rate_limits, src) + 1
        BY <1>3, <4>1, CountsOne
      <4>3. CountedNow(rate_limits, d) \in Nat /\ CountedNow(rate_limits, d) <= CountedNow(devices, d)
        BY <1>3, <4>1, CountsOne
      <4>4. CountedNow(devices, d) \in Nat
        BY <4>1, <4>2, CountsOne
      <4>5. CountedNow(devices, src) = CountedNow(rate_limits, src) + 1
        BY <1>3, <4>1, CountsOne
      <4> QED
        BY <1>3, <4>1, <4>2, <4>3, <4>4, <4>5
    <3>3. PICK n \in Nat : n = Cardinality(Where(forwarded, SentFrom(d)))
      BY <1>0
    <3>4. n <= CountedNow(rate_limits, d) /\ n <= DeviceLimit
      BY <1>3, <3>2, <3>3 DEF DeviceRight, InLoop
    <3>5. n + InLoop(d = src) <= CountedNow(devices, d) /\ n + InLoop(d = src) <= DeviceLimit
      BY <3>2, <3>4 DEF InLoop
    <3>6. InLoop(packet.pc # "none" /\ packet.src = d)' = InLoop(d = src)
      BY <1>3 DEF InLoop
    <3>7. Cardinality(Where(forwarded, SentFrom(d)))' = n
      BY <1>3, <3>3 DEF Where
    <3> QED
      BY <3>1, <3>5, <3>6, <3>7 DEF DeviceRight
  <2>3. ASSUME NEW i \in RelayIps PROVE IpRight(i)'
    <3>1. CountedNow(ip_rate_limits, i)' = CountedNow(ips, i)
      BY <1>3 DEF CountedNow
    <3>2. /\ IpRight(i) /\ CountedNow(ip_rate_limits, i) <= CountedNow(ips, i)
          /\ i = ip => CountedNow(ips, i) = CountedNow(ip_rate_limits, i) + 1 /\ CountedNow(ips, i) <= IpLimit
          /\ CountedNow(ip_rate_limits, i) \in Nat /\ CountedNow(ips, i) \in Nat
      <4>1. TableRight(ip_rate_limits) /\ now \in Nat /\ IpRight(i)
        BY DEF RatesInv
      <4>2. TableRight(ips) /\ ips[ip][2] = CountedNow(ip_rate_limits, ip) + 1
        BY <1>3, <4>1, CountsOne
      <4>3. CountedNow(ip_rate_limits, i) \in Nat /\ CountedNow(ip_rate_limits, i) <= CountedNow(ips, i)
        BY <1>3, <4>1, CountsOne
      <4>4. CountedNow(ips, i) \in Nat
        BY <4>1, <4>2, CountsOne
      <4>5. CountedNow(ips, ip) = CountedNow(ip_rate_limits, ip) + 1
        BY <1>3, <4>1, CountsOne
      <4> QED
        BY <1>3, <4>1, <4>2, <4>3, <4>4, <4>5
    <3>3. PICK n \in Nat : n = Cardinality(Where(forwarded, SentByIp(i)))
      BY <1>0
    <3>4. n <= CountedNow(ip_rate_limits, i) /\ n <= IpLimit
      BY <1>3, <3>2, <3>3 DEF IpRight, InLoop
    <3>5. n + InLoop(i = ip) <= CountedNow(ips, i) /\ n + InLoop(i = ip) <= IpLimit
      BY <3>2, <3>4 DEF InLoop
    <3>6. InLoop(packet.pc # "none" /\ packet.ip = i)' = InLoop(i = ip)
      BY <1>3 DEF InLoop
    <3>7. Cardinality(Where(forwarded, SentByIp(i)))' = n
      BY <1>3, <3>3 DEF Where
    <3> QED
      BY <3>1, <3>5, <3>6, <3>7 DEF IpRight
  <2> QED
    BY <2>1, <2>2, <2>3 DEF RatesInv
<1>4. ASSUME NEW src \in RelayDevices, NEW dst \in RelayDevices, NEW from \in DOMAIN IpOf,
             NEW tag, Relay!Receive(src, dst, from, tag)
      PROVE  RatesInv'
  <2>1. PICK ip \in RelayIps : ip = IpOf[from]
    BY DEF RelayIps, Relay!Ips
  <2>2. PICK devices, ips : devices = Relay!Counted(rate_limits, src) /\ ips = Relay!Counted(ip_rate_limits, ip)
    OBVIOUS
  <2>3. PICK accepted \in BOOLEAN :
            /\ packet.pc = "none" /\ UNCHANGED <<now, forwarded>>
            /\ accepted => /\ devices[src][2] <= DeviceLimit /\ rate_limits' = devices
                           /\ ips[ip][2] <= IpLimit /\ ip_rate_limits' = ips
                           /\ packet' = [pc |-> "lookup", src |-> src, dst |-> dst, ip |-> ip]
            /\ ~accepted => /\ rate_limits' \in {rate_limits, devices} /\ ip_rate_limits' \in {ip_rate_limits, ips}
                            /\ packet' = packet
    <3>1. /\ packet.pc = "none" /\ UNCHANGED <<now, forwarded>>
          /\ rate_limits' \in {rate_limits, devices} /\ ip_rate_limits' \in {ip_rate_limits, ips}
      BY <1>4, <2>1, <2>2 DEF Relay!Receive, Relay!NoPacket
    <3>2. CASE Relay!Verifies(src, dst, tag) /\ devices[src][2] <= DeviceLimit /\ ips[ip][2] <= IpLimit
      BY <1>4, <2>1, <2>2, <3>1, <3>2 DEF Relay!Receive
    <3>3. CASE ~(Relay!Verifies(src, dst, tag) /\ devices[src][2] <= DeviceLimit /\ ips[ip][2] <= IpLimit)
      BY <1>4, <2>1, <2>2, <3>1, <3>3 DEF Relay!Receive
    <3> QED
      BY <3>2, <3>3
  <2>4. CASE accepted
    <3>1. /\ devices[src][2] <= DeviceLimit /\ rate_limits' = devices /\ ips[ip][2] <= IpLimit
          /\ ip_rate_limits' = ips /\ packet.pc = "none" /\ UNCHANGED <<now, forwarded>>
          /\ packet'.pc = "lookup" /\ packet'.src = src /\ packet'.ip = ip
      BY <2>3, <2>4
    <3> QED
      BY <1>3, <2>2, <3>1
  <2>5. CASE ~accepted
    BY <1>2, <2>2, <2>3, <2>5
  <2> QED
    BY <2>4, <2>5
<1>5. CASE Relay!Lookup
  <2>1. packet.pc = "lookup" /\ UNCHANGED <<rate_limits, ip_rate_limits, now, forwarded>>
    BY <1>5 DEF Relay!Lookup, Relay!limits
  <2>2. packet'.pc = "none" \/ (packet'.src = packet.src /\ packet'.ip = packet.ip)
    BY <1>5 DEF Relay!Lookup, Relay!NoPacket
  <2> QED
    BY <1>1, <2>1, <2>2
<1>6. ASSUME NEW sent \in BOOLEAN, Relay!SendTo(sent) PROVE RatesInv'
  <2>1. /\ packet.pc = "send" /\ packet'.pc = "none" /\ packet \in SentOn
        /\ UNCHANGED <<rate_limits, ip_rate_limits, now>>
    BY <1>6 DEF Relay!SendTo, Relay!limits, Relay!NoPacket, PacketsInv, OnItsWay
  <2>2. CASE UNCHANGED forwarded
    BY <1>1, <2>1, <2>2
  <2>3. CASE forwarded' = Append(forwarded, packet)
    <3>1. TableRight(rate_limits)' /\ TableRight(ip_rate_limits)' /\ now' \in Nat
      BY <2>1 DEF RatesInv, TableRight
    <3>2. ASSUME NEW d \in RelayDevices PROVE DeviceRight(d)'
      <4>1. PICK n \in Nat : n = Cardinality(Where(forwarded, SentFrom(d)))
        BY <1>0
      <4>2. Cardinality(Where(forwarded, SentFrom(d)))' = n + InLoop(packet.src = d)
        <5>1. packet \in SentFrom(d) <=> packet.src = d
          BY <2>1 DEF SentFrom
        <5>2. Cardinality(Where(Append(forwarded, packet), SentFrom(d))) = n + InLoop(packet \in SentFrom(d))
          BY <1>0, <2>1, <4>1
        <5>3. Cardinality(Where(forwarded, SentFrom(d)))' = Cardinality(Where(Append(forwarded, packet), SentFrom(d)))
          BY <2>3 DEF Where
        <5> QED
          BY <5>1, <5>2, <5>3 DEF InLoop
      <4>3. n + InLoop(packet.src = d) <= CountedNow(rate_limits, d) /\ n + InLoop(packet.src = d) <= DeviceLimit
        BY <2>1, <4>1 DEF RatesInv, DeviceRight, InLoop
      <4>4. InLoop(packet.pc # "none" /\ packet.src = d)' = 0 /\ n + InLoop(packet.src = d) \in Nat
        BY <2>1 DEF InLoop
      <4>5. CountedNow(rate_limits, d)' = CountedNow(rate_limits, d)
        BY <2>1 DEF CountedNow
      <4> QED
        BY <4>2, <4>3, <4>4, <4>5 DEF DeviceRight
    <3>3. ASSUME NEW i \in RelayIps PROVE IpRight(i)'
      <4>1. PICK n \in Nat : n = Cardinality(Where(forwarded, SentByIp(i)))
        BY <1>0
      <4>2. Cardinality(Where(forwarded, SentByIp(i)))' = n + InLoop(packet.ip = i)
        <5>1. packet \in SentByIp(i) <=> packet.ip = i
          BY <2>1 DEF SentByIp
        <5>2. Cardinality(Where(Append(forwarded, packet), SentByIp(i))) = n + InLoop(packet \in SentByIp(i))
          BY <1>0, <2>1, <4>1
        <5>3. Cardinality(Where(forwarded, SentByIp(i)))' = Cardinality(Where(Append(forwarded, packet), SentByIp(i)))
          BY <2>3 DEF Where
        <5> QED
          BY <5>1, <5>2, <5>3 DEF InLoop
      <4>3. n + InLoop(packet.ip = i) <= CountedNow(ip_rate_limits, i) /\ n + InLoop(packet.ip = i) <= IpLimit
        BY <2>1, <4>1 DEF RatesInv, IpRight, InLoop
      <4>4. InLoop(packet.pc # "none" /\ packet.ip = i)' = 0 /\ n + InLoop(packet.ip = i) \in Nat
        BY <2>1 DEF InLoop
      <4>5. CountedNow(ip_rate_limits, i)' = CountedNow(ip_rate_limits, i)
        BY <2>1 DEF CountedNow
      <4> QED
        BY <4>2, <4>3, <4>4, <4>5 DEF IpRight
    <3> QED
      BY <3>1, <3>2, <3>3 DEF RatesInv
  <2> QED
    BY <1>6, <2>2, <2>3 DEF Relay!SendTo
<1>7. CASE Relay!Tick
  <2>1. /\ packet'.pc = "none" /\ forwarded' = <<>> /\ now' = now + 1 /\ now' \in Nat
        /\ UNCHANGED <<rate_limits, ip_rate_limits>>
    BY <1>7 DEF Relay!Tick, Relay!NoPacket, Relay!limits, RatesInv
  <2>2. TableRight(rate_limits)' /\ TableRight(ip_rate_limits)'
    BY <2>1 DEF RatesInv, TableRight
  <2>3. \A x : CountedNow(rate_limits, x)' \in Nat /\ CountedNow(ip_rate_limits, x)' \in Nat
    BY <2>1 DEF RatesInv, TableRight, CountedNow
  <2>4. \A T : Cardinality(Where(<<>>, T)) = 0
    BY WhereNone
  <2>5. ASSUME NEW d \in RelayDevices PROVE DeviceRight(d)'
    BY <2>1, <2>3, <2>4 DEF DeviceRight, InLoop
  <2>6. ASSUME NEW i \in RelayIps PROVE IpRight(i)'
    BY <2>1, <2>3, <2>4 DEF IpRight, InLoop
  <2> QED
    BY <2>1, <2>2, <2>5, <2>6 DEF RatesInv
<1>8. ASSUME \/ \E src, dst \in RelayDevices : Relay!AddRoute(src, dst) \/ Relay!RemoveRoute(src, dst)
             \/ \E d \in RelayDevices : Relay!UnregisterDevice(d)
             \/ UNCHANGED node_vars
      PROVE  RatesInv'
  <2>1. UNCHANGED <<rate_limits, ip_rate_limits, now, forwarded, packet>>
    BY <1>8 DEF Relay!AddRoute, Relay!RemoveRoute, Relay!UnregisterDevice, Relay!limits, node_vars
  <2> QED
    BY <1>1, <2>1
<1> QED
  BY <1>4, <1>5, <1>6, <1>7, <1>8 DEF Relay!Next

\* Every step of the relay keeps the invariant.
LEMMA RelayNext == ASSUME RelayInv, [Relay!Next]_node_vars PROVE RelayInv'
  BY AddressesNext, PacketsNext, RatesNext DEF RelayInv

\* Cardinality of the instance is the library's.
LEMMA SameInRelay == \A S : Relay!Cardinality(S) = Cardinality(S)
  BY DEF Relay!Cardinality, Cardinality

\* What follows from the invariant of the relay.
LEMMA RelayRight ==
  ASSUME RelayInv PROVE Relay!TypeOK /\ Relay!LimitsHold /\ Relay!ToTheDestination /\ Relay!ShortIdsUnheard
<1> USE RelayConstants DEF RelayInv
<1>1. Relay!TypeOK
  BY RequestsAssumption DEF Relay!TypeOK, AddressesInv, PacketsInv, OnItsWay, SentOn, Relay!NoPacket
<1>2. Relay!ToTheDestination /\ Relay!ShortIdsUnheard
  BY DEF Relay!ToTheDestination, Relay!ShortIdsUnheard, AddressesInv, PacketsInv
<1>3. \A i \in DOMAIN forwarded : forwarded[i] \in SentOn
  BY DEF PacketsInv
<1>4. \A T : Cardinality(Where(forwarded, T)) \in Nat
  <2>1. ASSUME NEW T PROVE Cardinality(Where(forwarded, T)) \in Nat
    <3>1. Where(forwarded, T) \subseteq 1 .. Len(forwarded) /\ IsFiniteSet(1 .. Len(forwarded))
      BY FS_Interval DEF Where, PacketsInv
    <3> QED
      BY <3>1, FS_Subset, FS_CardinalityType
  <2> QED
    BY <2>1
<1>5. ASSUME NEW d \in RelayDevices
      PROVE  Relay!Cardinality({i \in DOMAIN forwarded : forwarded[i].src = d}) <= DeviceLimit
  <2>1. {i \in DOMAIN forwarded : forwarded[i].src = d} = Where(forwarded, SentFrom(d))
    BY <1>3 DEF Where, SentFrom
  <2>2. Cardinality(Where(forwarded, SentFrom(d))) <= DeviceLimit
    BY <1>4 DEF RatesInv, DeviceRight, InLoop
  <2> QED
    BY <2>1, <2>2, SameInRelay
<1>6. ASSUME NEW ip \in RelayIps
      PROVE  Relay!Cardinality({i \in DOMAIN forwarded : forwarded[i].ip = ip}) <= IpLimit
  <2>1. {i \in DOMAIN forwarded : forwarded[i].ip = ip} = Where(forwarded, SentByIp(ip))
    BY <1>3 DEF Where, SentByIp
  <2>2. Cardinality(Where(forwarded, SentByIp(ip))) <= IpLimit
    BY <1>4 DEF RatesInv, IpRight, InLoop
  <2> QED
    BY <2>1, <2>2, SameInRelay
<1> QED
  BY <1>1, <1>2, <1>5, <1>6 DEF Relay!LimitsHold, RelayIps

-----------------------------------------------------------------------------
(* The choice of a relay.                                                    *)
\* What register_relay has left to do.
Left4 == Relays!Steps
Left3 == <<"region", "predictor", "selections">>
Left2 == <<"predictor", "selections">>
Left1 == <<"selections">>
Lefts == {Left4, Left3, Left2, Left1}
Registration == [id : RelayIds, place : Places, left : Lefts]
LoadHistory(h) == h \in Seq(Loads) /\ Len(h) <= max_history
ManagerShape ==
  /\ DOMAIN relays \subseteq RelayIds
  /\ relays \in [DOMAIN relays -> [place : Places, load : Loads, alive : BOOLEAN]]
  /\ by_tier \in [Relays!Tiers -> SUBSET RelayIds] /\ by_region \in [Relays!Regions -> SUBSET RelayIds]
  /\ predictors = [r \in DOMAIN predictors |-> predictors[r]]
  /\ \A id \in DOMAIN predictors : LoadHistory(predictors[id])
  /\ DOMAIN selections \subseteq RelayIds /\ selections \in [DOMAIN selections -> Nat]
  /\ registering \in [DOMAIN registering -> Registration]
  /\ anycast_cache \subseteq Clients \X RelayIds /\ disturbed \subseteq RelayIds
\* One remove_relay at a time, of a relay that has left the table.
RemovingInv ==
  /\ \A r \in removing : r.id \in RelayIds \ DOMAIN relays /\ r.place \in Places
  /\ removing = {} \/ \E r : removing = {r}
\* A registration of the relay, at this place, has still one of these ahead.
Awaits(id, place, lefts) ==
  \E c \in DOMAIN registering : /\ registering[c].id = id /\ registering[c].place = place
                                /\ registering[c].left \in lefts
\* What is not indexed yet will be by a registration under way.
IndexRight(id) ==
  LET place == relays[id].place IN
  /\ id \in by_tier[place.tier] \/ Awaits(id, place, {Left4})
  /\ id \in by_region[place.region] \/ Awaits(id, place, {Left4, Left3})
  /\ id \in DOMAIN predictors \/ Awaits(id, place, {Left4, Left3, Left2})
  /\ id \in DOMAIN selections \/ Awaits(id, place, Lefts)
\* What is indexed of an undisturbed relay is there, or about to go.
ExactRight(id) ==
  /\ \A t \in Relays!Tiers : id \in by_tier[t] =>
        \/ id \in DOMAIN relays /\ relays[id].place.tier = t
        \/ \E r \in removing : r.id = id /\ r.place.tier = t
  /\ \A c \in DOMAIN registering : registering[c].id = id =>
        id \in DOMAIN relays /\ relays[id].place = registering[c].place
RelaysInv ==
  /\ ManagerShape /\ RemovingInv
  /\ \A id \in DOMAIN relays : IndexRight(id)
  /\ \A id \in RelayIds \ disturbed : ExactRight(id)

\* What the constants of the choice of a relay stand for.
LEMMA RelaysConstants ==
  /\ Loads \subseteq Nat /\ 0 \in Loads /\ max_history \in Nat /\ MaxSelected \in Nat
  /\ \A ip \in DOMAIN Groups : Groups[ip] \subseteq RelayIds
  BY RequestsAssumption DEF Relays!Constants

\* The steps of register_relay, in their order.
LEMMA StepsInOrder ==
  /\ Head(Left4) = "tier" /\ Tail(Left4) = Left3
  /\ Head(Left3) = "region" /\ Tail(Left3) = Left2
  /\ Head(Left2) = "predictor" /\ Tail(Left2) = Left1
  /\ Head(Left1) = "selections" /\ Tail(Left1) = <<>>
  /\ Left3 # <<>> /\ Left2 # <<>> /\ Left1 # <<>>
  /\ Left4 # Left3 /\ Left4 # Left2 /\ Left4 # Left1 /\ Left3 # Left2 /\ Left3 # Left1 /\ Left2 # Left1
<1> DEFINE S == {"tier", "region", "predictor", "selections"}
<1>1. /\ Left4 \in Seq(S) /\ Len(Left4) = 4 /\ Left4[1] = "tier" /\ Left4[2] = "region"
      /\ Left4[3] = "predictor" /\ Left4[4] = "selections" /\ Head(Left4) = "tier"
  BY DEF Left4, Relays!Steps
<1>2. /\ Left3 \in Seq(S) /\ Len(Left3) = 3 /\ Left3[1] = "region"
      /\ Left3[2] = "predictor" /\ Left3[3] = "selections" /\ Head(Left3) = "region"
  BY DEF Left3
<1>3. /\ Left2 \in Seq(S) /\ Len(Left2) = 2 /\ Left2[1] = "predictor" /\ Left2[2] = "selections"
      /\ Head(Left2) = "predictor"
  BY DEF Left2
<1>4. Left1 \in Seq(S) /\ Len(Left1) = 1 /\ Left1[1] = "selections" /\ Head(Left1) = "selections"
  BY DEF Left1
<1> HIDE DEF S
<1>5. ASSUME NEW s \in Seq(S), NEW t \in Seq(S), Len(s) = Len(t) + 1,
             \A i \in 1 .. Len(t) : t[i] = s[i + 1]
      PROVE  Tail(s) = t
  <2>1. s # <<>>
    BY <1>5
  <2>2. Tail(s) \in Seq(S) /\ Len(Tail(s)) = Len(t) /\ \A i \in 1 .. Len(t) : Tail(s)[i] = s[i + 1]
    <3>1. /\ Tail(s) \in Seq(S) /\ Len(Tail(s)) = Len(s) - 1
          /\ \A i \in 1 .. Len(Tail(s)) : Tail(s)[i] = s[i + 1]
      BY <2>1, HeadTailProperties
    <3> QED
      BY <1>5, <3>1
  <2>3. Len(Tail(s)) = Len(t) /\ \A i \in 1 .. Len(t) : Tail(s)[i] = t[i]
    BY <1>5, <2>2
  <2> QED
    BY <2>2, <2>3, SeqEqual
<1>6. Tail(Left4) = Left3
  <2>1. Len(Left4) = Len(Left3) + 1 /\ \A i \in 1 .. Len(Left3) : Left3[i] = Left4[i + 1]
    BY <1>1, <1>2
  <2> QED
    BY <1>1, <1>2, <1>5, <2>1
<1>7. Tail(Left3) = Left2
  <2>1. Len(Left3) = Len(Left2) + 1 /\ \A i \in 1 .. Len(Left2) : Left2[i] = Left3[i + 1]
    BY <1>2, <1>3
  <2> QED
    BY <1>2, <1>3, <1>5, <2>1
<1>8. Tail(Left2) = Left1
  <2>1. Len(Left2) = Len(Left1) + 1 /\ \A i \in 1 .. Len(Left1) : Left1[i] = Left2[i + 1]
    BY <1>3, <1>4
  <2> QED
    BY <1>3, <1>4, <1>5, <2>1
<1>9. Tail(Left1) = <<>>
  BY DEF Left1
<1> QED
  BY <1>1, <1>2, <1>3, <1>4, <1>6, <1>7, <1>8, <1>9

\* The initial states of the choice of a relay satisfy the invariant.
LEMMA RelaysInit == Relays!Init => RelaysInv
<1> SUFFICES ASSUME Relays!Init PROVE RelaysInv
  OBVIOUS
<1> USE DEF Relays!Init
<1>1. ManagerShape
  BY DEF ManagerShape
<1>2. RemovingInv
  BY DEF RemovingInv
<1> QED
  BY <1>1, <1>2 DEF RelaysInv, ExactRight

\* A registration that is not touched is awaited as before.
LEMMA SameRegistrations ==
  ASSUME RelaysInv, UNCHANGED <<by_tier, by_region, registering, removing, disturbed, anycast_cache>>,
         DOMAIN relays' = DOMAIN relays,
         relays' \in [DOMAIN relays' -> [place : Places, load : Loads, alive : BOOLEAN]],
         \A id \in DOMAIN relays : relays'[id].place = relays[id].place,
         DOMAIN predictors' = DOMAIN predictors, predictors' = [r \in DOMAIN predictors' |-> predictors'[r]],
         \A id \in DOMAIN predictors : LoadHistory(predictors'[id]),
         DOMAIN selections' = DOMAIN selections, selections' \in [DOMAIN selections' -> Nat]
  PROVE  RelaysInv'
<1>1. ManagerShape'
  BY DEF RelaysInv, ManagerShape, LoadHistory
<1>2. RemovingInv'
  BY DEF RelaysInv, RemovingInv
<1>3. ASSUME NEW id \in DOMAIN relays PROVE IndexRight(id)'
  BY DEF RelaysInv, IndexRight, Awaits
<1>4. ASSUME NEW id \in RelayIds \ disturbed PROVE ExactRight(id)'
  BY DEF RelaysInv, ExactRight
<1> QED
  BY <1>1, <1>2, <1>3, <1>4 DEF RelaysInv

\* What one step of register_relay does.
LEMMA OneStep ==
  ASSUME RelaysInv, NEW c, Relays!RegisterStep(c)
  PROVE  \E r \in Registration :
            /\ c \in DOMAIN registering /\ registering[c] = r
            /\ UNCHANGED <<relays, removing, anycast_cache, disturbed>>
            /\ by_tier' = [by_tier EXCEPT ![r.place.tier] = IF r.left = Left4 THEN @ \cup {r.id} ELSE @]
            /\ by_region' = [by_region EXCEPT ![r.place.region] = IF r.left = Left3 THEN @ \cup {r.id} ELSE @]
            /\ predictors' = IF r.left = Left2 THEN Relays!Put(predictors, r.id, <<>>) ELSE predictors
            /\ selections' = IF r.left = Left1 THEN Relays!Put(selections, r.id, 0) ELSE selections
            /\ registering' = IF r.left = Left1 THEN Relays!Drop(registering, c)
                              ELSE [registering EXCEPT ![c] = [id |-> r.id, place |-> r.place, left |-> Tail(r.left)]]
<1>1. PICK r \in Registration : c \in DOMAIN registering /\ registering[c] = r
  BY DEF Relays!RegisterStep, RelaysInv, ManagerShape
<1>2. /\ by_tier' = [by_tier EXCEPT ![r.place.tier] = IF Head(r.left) = "tier" THEN @ \cup {r.id} ELSE @]
      /\ by_region' = [by_region EXCEPT ![r.place.region] = IF Head(r.left) = "region" THEN @ \cup {r.id} ELSE @]
      /\ predictors' = IF Head(r.left) = "predictor" THEN Relays!Put(predictors, r.id, <<>>) ELSE predictors
      /\ selections' = IF Head(r.left) = "selections" THEN Relays!Put(selections, r.id, 0) ELSE selections
      /\ UNCHANGED <<relays, removing, anycast_cache, disturbed>>
  BY <1>1 DEF Relays!RegisterStep
<1>3. registering' = IF Tail(r.left) = <<>> THEN Relays!Drop(registering, c)
                     ELSE [registering EXCEPT ![c].left = Tail(r.left)]
  BY <1>1 DEF Relays!RegisterStep
<1>4. /\ Head(r.left) = "tier" <=> r.left = Left4
      /\ Head(r.left) = "region" <=> r.left = Left3
      /\ Head(r.left) = "predictor" <=> r.left = Left2
      /\ Head(r.left) = "selections" <=> r.left = Left1
      /\ Tail(r.left) = <<>> <=> r.left = Left1
  BY StepsInOrder DEF Registration, Lefts
<1>5. [registering[c] EXCEPT !.left = Tail(r.left)] = [id |-> r.id, place |-> r.place, left |-> Tail(r.left)]
  <2>1. PICK i \in RelayIds, p \in Places, l \in Lefts : r = [id |-> i, place |-> p, left |-> l]
    BY DEF Registration
  <2>2. PICK t : t = Tail(r.left)
    OBVIOUS
  <2>3. [r EXCEPT !.left = t] = [id |-> i, place |-> p, left |-> t]
    BY <2>1
  <2> QED
    BY <1>1, <2>1, <2>2, <2>3
<1> QED
  BY <1>1, <1>2, <1>3, <1>4, <1>5

\* One step of a registration, seen from outside.
LEMMA OneStepKeeps ==
  ASSUME RelaysInv, NEW c, Relays!RegisterStep(c)
  PROVE  \E r \in Registration :
            /\ c \in DOMAIN registering /\ registering[c] = r
            /\ UNCHANGED <<relays, removing, anycast_cache, disturbed>>
            /\ by_tier' \in [Relays!Tiers -> SUBSET RelayIds]
            /\ \A t \in Relays!Tiers : \A id : id \in by_tier'[t] <=>
                  id \in by_tier[t] \/ (r.left = Left4 /\ t = r.place.tier /\ id = r.id)
            /\ by_region' \in [Relays!Regions -> SUBSET RelayIds]
            /\ \A g \in Relays!Regions : \A id : id \in by_region'[g] <=>
                  id \in by_region[g] \/ (r.left = Left3 /\ g = r.place.region /\ id = r.id)
            /\ predictors' = [x \in DOMAIN predictors' |-> predictors'[x]]
            /\ \A id : id \in DOMAIN predictors' <=> id \in DOMAIN predictors \/ (r.left = Left2 /\ id = r.id)
            /\ \A id \in DOMAIN predictors' : LoadHistory(predictors'[id])
            /\ \A id : id \in DOMAIN selections' <=> id \in DOMAIN selections \/ (r.left = Left1 /\ id = r.id)
            /\ selections' \in [DOMAIN selections' -> Nat]
            /\ registering' \in [DOMAIN registering' -> Registration]
            /\ \A d : d \in DOMAIN registering' <=> d \in DOMAIN registering /\ (d = c => r.left # Left1)
            /\ \A d \in DOMAIN registering' : d # c => registering'[d] = registering[d]
            /\ r.left # Left1 => registering'[c] = [id |-> r.id, place |-> r.place, left |-> Tail(r.left)]
<1> USE RelaysConstants
<1>1. PICK r \in Registration :
            /\ c \in DOMAIN registering /\ registering[c] = r
            /\ UNCHANGED <<relays, removing, anycast_cache, disturbed>>
            /\ by_tier' = [by_tier EXCEPT ![r.place.tier] = IF r.left = Left4 THEN @ \cup {r.id} ELSE @]
            /\ by_region' = [by_region EXCEPT ![r.place.region] = IF r.left = Left3 THEN @ \cup {r.id} ELSE @]
            /\ predictors' = IF r.left = Left2 THEN Relays!Put(predictors, r.id, <<>>) ELSE predictors
            /\ selections' = IF r.left = Left1 THEN Relays!Put(selections, r.id, 0) ELSE selections
            /\ registering' = IF r.left = Left1 THEN Relays!Drop(registering, c)
                              ELSE [registering EXCEPT ![c] = [id |-> r.id, place |-> r.place, left |-> Tail(r.left)]]
  BY OneStep
<1>2. PICK tier \in Relays!Tiers : tier = r.place.tier
  BY DEF Relays!Tiers, Registration
<1>3. PICK region \in Relays!Regions : region = r.place.region
  BY DEF Relays!Regions, Registration
<1>4. r.id \in RelayIds /\ r.place \in Places /\ r.left \in Lefts
  BY DEF Registration
<1>5. /\ by_tier' \in [Relays!Tiers -> SUBSET RelayIds]
      /\ \A t \in Relays!Tiers : \A id : id \in by_tier'[t] <=>
            id \in by_tier[t] \/ (r.left = Left4 /\ t = r.place.tier /\ id = r.id)
  <2>1. /\ by_tier \in [Relays!Tiers -> SUBSET RelayIds]
        /\ by_tier' = [by_tier EXCEPT ![tier] = IF r.left = Left4 THEN @ \cup {r.id} ELSE @]
    BY <1>1, <1>2 DEF RelaysInv, ManagerShape
  <2> QED
    BY <1>2, <1>4, <2>1
<1>6. /\ by_region' \in [Relays!Regions -> SUBSET RelayIds]
      /\ \A g \in Relays!Regions : \A id : id \in by_region'[g] <=>
            id \in by_region[g] \/ (r.left = Left3 /\ g = r.place.region /\ id = r.id)
  <2>1. /\ by_region \in [Relays!Regions -> SUBSET RelayIds]
        /\ by_region' = [by_region EXCEPT ![region] = IF r.left = Left3 THEN @ \cup {r.id} ELSE @]
    BY <1>1, <1>3 DEF RelaysInv, ManagerShape
  <2> QED
    BY <1>3, <1>4, <2>1
<1>7. /\ predictors' = [x \in DOMAIN predictors' |-> predictors'[x]]
      /\ \A id : id \in DOMAIN predictors' <=> id \in DOMAIN predictors \/ (r.left = Left2 /\ id = r.id)
      /\ \A id \in DOMAIN predictors' : LoadHistory(predictors'[id])
  <2>1. LoadHistory(<<>>)
    BY DEF LoadHistory
  <2>2. CASE r.left # Left2
    BY <1>1, <2>2 DEF RelaysInv, ManagerShape
  <2>3. CASE r.left = Left2
    <3>1. predictors' = [x \in DOMAIN predictors \cup {r.id} |-> IF x = r.id THEN <<>> ELSE predictors[x]]
      BY <1>1, <2>3 DEF Relays!Put
    <3>2. \A id \in DOMAIN predictors' : predictors'[id] = <<>> \/ (id \in DOMAIN predictors /\ predictors'[id] = predictors[id])
      BY <3>1
    <3> QED
      BY <2>1, <2>3, <3>1, <3>2 DEF RelaysInv, ManagerShape
  <2> QED
    BY <2>2, <2>3
<1>8. /\ \A id : id \in DOMAIN selections' <=> id \in DOMAIN selections \/ (r.left = Left1 /\ id = r.id)
      /\ selections' \in [DOMAIN selections' -> Nat]
  <2>1. CASE r.left # Left1
    BY <1>1, <2>1 DEF RelaysInv, ManagerShape
  <2>2. CASE r.left = Left1
    <3>1. selections' = [x \in DOMAIN selections \cup {r.id} |-> IF x = r.id THEN 0 ELSE selections[x]]
      BY <1>1, <2>2 DEF Relays!Put
    <3> QED
      BY <2>2, <3>1 DEF RelaysInv, ManagerShape
  <2> QED
    BY <2>1, <2>2
<1>9. /\ registering' \in [DOMAIN registering' -> Registration]
      /\ \A d : d \in DOMAIN registering' <=> d \in DOMAIN registering /\ (d = c => r.left # Left1)
      /\ \A d \in DOMAIN registering' : d # c => registering'[d] = registering[d]
      /\ r.left # Left1 => registering'[c] = [id |-> r.id, place |-> r.place, left |-> Tail(r.left)]
  <2>1. registering \in [DOMAIN registering -> Registration]
    BY DEF RelaysInv, ManagerShape
  <2>2. CASE r.left = Left1
    <3>1. registering' = [x \in DOMAIN registering \ {c} |-> registering[x]]
      BY <1>1, <2>2 DEF Relays!Drop
    <3> QED
      BY <2>1, <2>2, <3>1
  <2>3. CASE r.left # Left1
    <3>1. PICK s : s = [id |-> r.id, place |-> r.place, left |-> Tail(r.left)]
      OBVIOUS
    <3>2. Tail(r.left) \in Lefts
      BY <1>4, <2>3, StepsInOrder DEF Lefts
    <3>3. s \in Registration
      BY <1>4, <3>1, <3>2 DEF Registration
    <3>4. registering' = [registering EXCEPT ![c] = s]
      BY <1>1, <2>3, <3>1
    <3> QED
      BY <1>1, <2>1, <2>3, <3>1, <3>3, <3>4
  <2> QED
    BY <2>2, <2>3
<1> QED
  BY <1>1, <1>5, <1>6, <1>7, <1>8, <1>9

\* One of the four steps of register_relay.
LEMMA RegisterStepRight == ASSUME RelaysInv, NEW c, Relays!RegisterStep(c) PROVE RelaysInv'
<1>1. PICK r \in Registration :
            /\ c \in DOMAIN registering /\ registering[c] = r
            /\ UNCHANGED <<relays, removing, anycast_cache, disturbed>>
            /\ by_tier' \in [Relays!Tiers -> SUBSET RelayIds]
            /\ \A t \in Relays!Tiers : \A id : id \in by_tier'[t] <=>
                  id \in by_tier[t] \/ (r.left = Left4 /\ t = r.place.tier /\ id = r.id)
            /\ by_region' \in [Relays!Regions -> SUBSET RelayIds]
            /\ \A g \in Relays!Regions : \A id : id \in by_region'[g] <=>
                  id \in by_region[g] \/ (r.left = Left3 /\ g = r.place.region /\ id = r.id)
            /\ predictors' = [x \in DOMAIN predictors' |-> predictors'[x]]
            /\ \A id : id \in DOMAIN predictors' <=> id \in DOMAIN predictors \/ (r.left = Left2 /\ id = r.id)
            /\ \A id \in DOMAIN predictors' : LoadHistory(predictors'[id])
            /\ \A id : id \in DOMAIN selections' <=> id \in DOMAIN selections \/ (r.left = Left1 /\ id = r.id)
            /\ selections' \in [DOMAIN selections' -> Nat]
            /\ registering' \in [DOMAIN registering' -> Registration]
            /\ \A d : d \in DOMAIN registering' <=> d \in DOMAIN registering /\ (d = c => r.left # Left1)
            /\ \A d \in DOMAIN registering' : d # c => registering'[d] = registering[d]
            /\ r.left # Left1 => registering'[c] = [id |-> r.id, place |-> r.place, left |-> Tail(r.left)]
  BY OneStepKeeps
<1>2. r.id \in RelayIds /\ r.place \in Places /\ r.left \in Lefts
  BY DEF Registration
<1>3. ManagerShape'
  <2>1. DOMAIN selections' \subseteq RelayIds
    BY <1>1, <1>2 DEF RelaysInv, ManagerShape
  <2>2. /\ DOMAIN relays' \subseteq RelayIds
        /\ relays' \in [DOMAIN relays' -> [place : Places, load : Loads, alive : BOOLEAN]]
        /\ anycast_cache' \subseteq Clients \X RelayIds /\ disturbed' \subseteq RelayIds
    BY <1>1 DEF RelaysInv, ManagerShape
  <2> QED
    BY <1>1, <2>1, <2>2 DEF ManagerShape
<1>4. RemovingInv'
  BY <1>1 DEF RelaysInv, RemovingInv
\* What others await, they await still; this one has one step less ahead.
<1>5. ASSUME NEW id, NEW place, NEW lefts, Awaits(id, place, lefts)
      PROVE  \/ Awaits(id, place, lefts)'
             \/ r.id = id /\ r.place = place /\ r.left \in lefts
  <2>1. PICK d \in DOMAIN registering : /\ registering[d].id = id /\ registering[d].place = place
                                        /\ registering[d].left \in lefts
    BY <1>5 DEF Awaits
  <2>2. CASE d = c
    BY <1>1, <2>1, <2>2
  <2>3. CASE d # c
    BY <1>1, <2>1, <2>3 DEF Awaits
  <2> QED
    BY <2>2, <2>3
<1>6. ASSUME NEW lefts, r.left # Left1, Tail(r.left) \in lefts PROVE Awaits(r.id, r.place, lefts)'
  <2>1. /\ c \in DOMAIN registering' /\ registering'[c].id = r.id
        /\ registering'[c].place = r.place /\ registering'[c].left \in lefts
    <3>1. PICK t \in lefts : t = Tail(r.left)
      BY <1>6
    <3>2. registering'[c] = [id |-> r.id, place |-> r.place, left |-> t]
      BY <1>1, <1>6, <3>1
    <3>3. c \in DOMAIN registering'
      BY <1>1, <1>6
    <3> QED
      BY <3>2, <3>3
  <2> QED
    BY <2>1 DEF Awaits
<1>7. ASSUME NEW id \in DOMAIN relays PROVE IndexRight(id)'
  <2>1. PICK place \in Places : place = relays[id].place /\ place = relays'[id].place
    BY <1>1 DEF RelaysInv, ManagerShape
  <2>2. place.tier \in Relays!Tiers /\ place.region \in Relays!Regions
    BY DEF Relays!Tiers, Relays!Regions
  <2>3. IndexRight(id)
    BY DEF RelaysInv
  <2>4. id \in by_tier'[place.tier] \/ Awaits(id, place, {Left4})'
    <3>1. id \in by_tier[place.tier] \/ Awaits(id, place, {Left4})
      BY <2>1, <2>3 DEF IndexRight
    <3> QED
      BY <1>1, <1>5, <2>2, <3>1
  <2>5. id \in by_region'[place.region] \/ Awaits(id, place, {Left4, Left3})'
    <3>1. id \in by_region[place.region] \/ Awaits(id, place, {Left4, Left3})
      BY <2>1, <2>3 DEF IndexRight
    <3>2. r.left = Left4 => Awaits(r.id, r.place, {Left4, Left3})'
      BY <1>6, StepsInOrder
    <3> QED
      BY <1>1, <1>5, <2>2, <3>1, <3>2
  <2>6. id \in DOMAIN predictors' \/ Awaits(id, place, {Left4, Left3, Left2})'
    <3>1. id \in DOMAIN predictors \/ Awaits(id, place, {Left4, Left3, Left2})
      BY <2>1, <2>3 DEF IndexRight
    <3>2. r.left \in {Left4, Left3} => Awaits(r.id, r.place, {Left4, Left3, Left2})'
      BY <1>6, StepsInOrder
    <3> QED
      BY <1>1, <1>5, <2>2, <3>1, <3>2
  <2>7. id \in DOMAIN selections' \/ Awaits(id, place, Lefts)'
    <3>1. id \in DOMAIN selections \/ Awaits(id, place, Lefts)
      BY <2>1, <2>3 DEF IndexRight
    <3>2. r.left # Left1 => Tail(r.left) \in Lefts
      BY <1>2, StepsInOrder DEF Lefts
    <3>3. r.left # Left1 => Awaits(r.id, r.place, Lefts)'
      BY <1>6, <3>2
    <3> QED
      BY <1>1, <1>5, <3>1, <3>3
  <2> QED
    BY <2>1, <2>4, <2>5, <2>6, <2>7 DEF IndexRight
<1>8. ASSUME NEW id \in RelayIds \ disturbed PROVE ExactRight(id)'
  <2>1. ExactRight(id)
    BY DEF RelaysInv
  <2>2. r.id = id => id \in DOMAIN relays /\ relays[id].place = r.place
    BY <1>1, <2>1 DEF ExactRight
  <2>3. \A t \in Relays!Tiers : id \in by_tier'[t] =>
          \/ id \in DOMAIN relays' /\ relays'[id].place.tier = t
          \/ \E x \in removing' : x.id = id /\ x.place.tier = t
    BY <1>1, <2>1, <2>2 DEF ExactRight
  <2>4. ASSUME NEW d \in DOMAIN registering', registering'[d].id = id
        PROVE  id \in DOMAIN relays' /\ relays'[id].place = registering'[d].place
    <3>1. CASE d = c
      BY <1>1, <2>2, <2>4, <3>1
    <3>2. CASE d # c
      BY <1>1, <2>1, <2>4, <3>2 DEF ExactRight
    <3> QED
      BY <3>1, <3>2
  <2> QED
    BY <2>3, <2>4 DEF ExactRight
<1> QED
  BY <1>1, <1>3, <1>4, <1>7, <1>8 DEF RelaysInv

\* A registration begins.
LEMMA RegisterRelayRight ==
  ASSUME RelaysInv, NEW c, NEW id \in RelayIds, NEW place \in Places, Relays!RegisterRelay(c, id, place)
  PROVE  RelaysInv'
<1> USE RelaysConstants
<1>1. PICK entry : entry = [place |-> place, load |-> 0, alive |-> TRUE]
  OBVIOUS
<1>2. PICK r : r = [id |-> id, place |-> place, left |-> Left4]
  OBVIOUS
<1>3. /\ entry \in [place : Places, load : Loads, alive : BOOLEAN] /\ entry.place = place
      /\ r \in Registration /\ r.id = id /\ r.place = place /\ r.left = Left4
  BY <1>1, <1>2 DEF Registration, Lefts
<1>4. /\ removing = {} /\ c \notin DOMAIN registering
      /\ relays' = Relays!Put(relays, id, entry) /\ registering' = Relays!Put(registering, c, r)
      /\ UNCHANGED <<by_tier, by_region, predictors, selections, removing, anycast_cache>>
  BY <1>1, <1>2 DEF Relays!RegisterRelay, Relays!RelaysFree, Left4
<1>5. disturbed' = disturbed \cup {x \in {id} : ~Relays!Settled(id) \/ (id \in DOMAIN relays /\ relays[id].place # place)}
  BY DEF Relays!RegisterRelay
<1>6. /\ DOMAIN relays' = DOMAIN relays \cup {id} /\ relays'[id] = entry
      /\ \A x \in DOMAIN relays : x # id => relays'[x] = relays[x]
      /\ relays' \in [DOMAIN relays' -> [place : Places, load : Loads, alive : BOOLEAN]]
  BY <1>3, <1>4 DEF Relays!Put, RelaysInv, ManagerShape
<1>7. /\ DOMAIN registering' = DOMAIN registering \cup {c} /\ registering'[c] = r
      /\ \A d \in DOMAIN registering : registering'[d] = registering[d]
      /\ registering' \in [DOMAIN registering' -> Registration]
  BY <1>3, <1>4 DEF Relays!Put, RelaysInv, ManagerShape
<1>8. ManagerShape'
  <2>1. disturbed' \subseteq RelayIds
    BY <1>5 DEF RelaysInv, ManagerShape
  <2> QED
    BY <1>4, <1>6, <1>7, <2>1 DEF RelaysInv, ManagerShape
<1>9. RemovingInv'
  BY <1>4 DEF RemovingInv
<1>10. ASSUME NEW x, NEW p, NEW lefts, Awaits(x, p, lefts) PROVE Awaits(x, p, lefts)'
  BY <1>7, <1>10 DEF Awaits
<1>11. ASSUME NEW lefts, Left4 \in lefts PROVE Awaits(id, place, lefts)'
  BY <1>3, <1>7, <1>11 DEF Awaits
<1>12. ASSUME NEW x \in DOMAIN relays' PROVE IndexRight(x)'
  <2>1. CASE x = id
    <3>1. relays'[x].place = place
      BY <1>3, <1>6, <2>1
    <3>2. Awaits(x, place, {Left4})' /\ Awaits(x, place, {Left4, Left3})' /\ Awaits(x, place, {Left4, Left3, Left2})'
      BY <1>11, <2>1
    <3>3. Awaits(x, place, Lefts)'
      BY <1>11, <2>1 DEF Lefts
    <3> QED
      BY <3>1, <3>2, <3>3 DEF IndexRight
  <2>2. CASE x # id
    <3>1. x \in DOMAIN relays /\ relays'[x] = relays[x] /\ IndexRight(x)
      BY <1>6, <2>2 DEF RelaysInv
    <3>2. PICK p : p = relays[x].place /\ p = relays'[x].place
      BY <3>1
    <3>3. /\ x \in by_tier'[p.tier] \/ Awaits(x, p, {Left4})'
          /\ x \in by_region'[p.region] \/ Awaits(x, p, {Left4, Left3})'
          /\ x \in DOMAIN predictors' \/ Awaits(x, p, {Left4, Left3, Left2})'
          /\ x \in DOMAIN selections' \/ Awaits(x, p, Lefts)'
      BY <1>4, <1>10, <3>1, <3>2 DEF IndexRight
    <3> QED
      BY <3>2, <3>3 DEF IndexRight
  <2> QED
    BY <2>1, <2>2
<1>13. ASSUME NEW x \in RelayIds \ disturbed' PROVE ExactRight(x)'
  <2>1. x \notin disturbed /\ ExactRight(x)
    BY <1>5, <1>13 DEF RelaysInv
  <2>2. CASE x # id
    <3>1. x \in DOMAIN relays' <=> x \in DOMAIN relays
      BY <1>6, <2>2
    <3>2. x \in DOMAIN relays => relays'[x] = relays[x]
      BY <1>6, <2>2
    <3>3. \A d \in DOMAIN registering' : registering'[d].id = x => d \in DOMAIN registering /\ registering'[d] = registering[d]
      BY <1>3, <1>7, <2>2
    <3> QED
      BY <1>4, <2>1, <3>1, <3>2, <3>3 DEF ExactRight
  <2>3. CASE x = id
    <3>1. Relays!Settled(id) /\ (id \in DOMAIN relays => relays[id].place = place)
      BY <1>5, <1>13, <2>3
    <3>2. id \in DOMAIN relays' /\ relays'[id].place = place
      BY <1>3, <1>6
    <3>3. \A d \in DOMAIN registering' : registering'[d].id = id => registering'[d] = r
      BY <1>7, <3>1 DEF Relays!Settled
    <3>4. \A t \in Relays!Tiers : id \in by_tier'[t] => relays'[id].place.tier = t
      BY <1>4, <2>1, <2>3, <3>1, <3>2 DEF ExactRight
    <3> QED
      BY <1>3, <2>3, <3>2, <3>3, <3>4 DEF ExactRight
  <2> QED
    BY <2>2, <2>3
<1> QED
  BY <1>8, <1>9, <1>12, <1>13 DEF RelaysInv

\* A removal begins.
LEMMA RemoveBeginRight == ASSUME RelaysInv, NEW id \in RelayIds, Relays!RemoveBegin(id) PROVE RelaysInv'
<1>1. PICK r : r = [id |-> id, place |-> relays[id].place]
  OBVIOUS
<1>2. /\ removing = {} /\ id \in DOMAIN relays /\ relays' = Relays!Drop(relays, id) /\ removing' = {r}
      /\ UNCHANGED <<by_tier, by_region, predictors, selections, registering, anycast_cache>>
      /\ disturbed' = disturbed \cup {x \in {id} : ~Relays!Settled(id)}
  BY <1>1 DEF Relays!RemoveBegin, Relays!RelaysFree
<1>3. r.id = id /\ r.place = relays[id].place /\ r.place \in Places
  BY <1>1, <1>2 DEF RelaysInv, ManagerShape
<1>4. DOMAIN relays' = DOMAIN relays \ {id} /\ relays' = [x \in DOMAIN relays \ {id} |-> relays[x]]
  BY <1>2 DEF Relays!Drop
<1>5. ManagerShape'
  BY <1>2, <1>4 DEF RelaysInv, ManagerShape
<1>6. RemovingInv'
  BY <1>2, <1>3, <1>4 DEF RemovingInv
<1>7. ASSUME NEW x \in DOMAIN relays' PROVE IndexRight(x)'
  <2>1. x \in DOMAIN relays /\ relays'[x] = relays[x] /\ IndexRight(x)
    BY <1>4, <1>7 DEF RelaysInv
  <2> QED
    BY <1>2, <2>1 DEF IndexRight, Awaits
<1>8. ASSUME NEW x \in RelayIds \ disturbed' PROVE ExactRight(x)'
  <2>1. ExactRight(x)
    BY <1>2, <1>8 DEF RelaysInv
  <2>2. CASE x # id
    <3>1. x \in DOMAIN relays' <=> x \in DOMAIN relays
      BY <1>4, <2>2
    <3>2. x \in DOMAIN relays => relays'[x] = relays[x]
      BY <1>4, <2>2
    <3> QED
      BY <1>2, <2>1, <3>1, <3>2 DEF ExactRight
  <2>3. CASE x = id
    <3>1. \A d \in DOMAIN registering' : registering'[d].id # id
      BY <1>2, <1>8, <2>3 DEF Relays!Settled
    <3>2. \A t \in Relays!Tiers : id \in by_tier'[t] => r.place.tier = t
      BY <1>2, <1>3, <2>1, <2>3 DEF ExactRight
    <3> QED
      BY <1>2, <1>3, <2>3, <3>1, <3>2 DEF ExactRight
  <2> QED
    BY <2>2, <2>3
<1> QED
  BY <1>5, <1>6, <1>7, <1>8 DEF RelaysInv

\* A removal ends.
LEMMA RemoveEndRight == ASSUME RelaysInv, NEW r \in removing, Relays!RemoveEnd(r) PROVE RelaysInv'
<1>1. removing = {r} /\ removing' = {} /\ UNCHANGED <<relays, registering, anycast_cache, disturbed>>
  BY DEF Relays!RemoveEnd, RelaysInv, RemovingInv
<1>2. r.id \in RelayIds \ DOMAIN relays /\ r.place \in Places
  BY DEF RelaysInv, RemovingInv
<1>3. PICK tier \in Relays!Tiers, region \in Relays!Regions : tier = r.place.tier /\ region = r.place.region
  BY <1>2 DEF Relays!Tiers, Relays!Regions
<1>4. /\ by_tier' \in [Relays!Tiers -> SUBSET RelayIds]
      /\ \A t \in Relays!Tiers : by_tier'[t] = IF t = tier THEN by_tier[t] \ {r.id} ELSE by_tier[t]
  <2>1. by_tier \in [Relays!Tiers -> SUBSET RelayIds] /\ by_tier' = [by_tier EXCEPT ![tier] = @ \ {r.id}]
    BY <1>3 DEF Relays!RemoveEnd, Relays!Unindexed, RelaysInv, ManagerShape
  <2> QED
    BY <2>1
<1>5. /\ by_region' \in [Relays!Regions -> SUBSET RelayIds]
      /\ \A t \in Relays!Regions : by_region'[t] = IF t = region THEN by_region[t] \ {r.id} ELSE by_region[t]
  <2>1. by_region \in [Relays!Regions -> SUBSET RelayIds] /\ by_region' = [by_region EXCEPT ![region] = @ \ {r.id}]
    BY <1>3 DEF Relays!RemoveEnd, RelaysInv, ManagerShape
  <2> QED
    BY <2>1
<1>6. /\ DOMAIN predictors' = DOMAIN predictors \ {r.id} /\ predictors' = [x \in DOMAIN predictors' |-> predictors[x]]
      /\ DOMAIN selections' = DOMAIN selections \ {r.id} /\ selections' = [x \in DOMAIN selections' |-> selections[x]]
  BY DEF Relays!RemoveEnd, Relays!Drop
<1>7. ManagerShape'
  <2>1. /\ predictors' = [x \in DOMAIN predictors' |-> predictors'[x]]
        /\ \A id \in DOMAIN predictors' : LoadHistory(predictors'[id])
    BY <1>6 DEF RelaysInv, ManagerShape
  <2>2. DOMAIN selections' \subseteq RelayIds /\ selections' \in [DOMAIN selections' -> Nat]
    BY <1>6 DEF RelaysInv, ManagerShape
  <2> QED
    BY <1>1, <1>4, <1>5, <2>1, <2>2 DEF RelaysInv, ManagerShape
<1>8. RemovingInv'
  BY <1>1 DEF RemovingInv
<1>9. ASSUME NEW x \in DOMAIN relays' PROVE IndexRight(x)'
  <2>1. x \in DOMAIN relays /\ x # r.id /\ IndexRight(x)
    BY <1>1, <1>2, <1>9 DEF RelaysInv
  <2>2. PICK p \in Places : p = relays[x].place /\ p = relays'[x].place
    BY <1>1, <2>1 DEF RelaysInv, ManagerShape
  <2>3. p.tier \in Relays!Tiers /\ p.region \in Relays!Regions
    BY DEF Relays!Tiers, Relays!Regions
  <2>4. (x \in by_tier'[p.tier] <=> x \in by_tier[p.tier]) /\ (x \in by_region'[p.region] <=> x \in by_region[p.region])
    BY <1>4, <1>5, <2>1, <2>3
  <2>5. (x \in DOMAIN predictors' <=> x \in DOMAIN predictors) /\ (x \in DOMAIN selections' <=> x \in DOMAIN selections)
    BY <1>6, <2>1
  <2> QED
    BY <1>1, <2>1, <2>2, <2>4, <2>5 DEF IndexRight, Awaits
<1>10. ASSUME NEW x \in RelayIds \ disturbed' PROVE ExactRight(x)'
  <2>1. ExactRight(x)
    BY <1>1, <1>10 DEF RelaysInv
  <2>2. ASSUME NEW t \in Relays!Tiers, x \in by_tier'[t] PROVE x \in DOMAIN relays' /\ relays'[x].place.tier = t
    <3>1. x \in by_tier[t] /\ ~(x = r.id /\ t = tier)
      BY <1>4, <2>2
    <3> QED
      BY <1>1, <1>3, <2>1, <3>1 DEF ExactRight
  <2> QED
    BY <1>1, <2>1, <2>2 DEF ExactRight
<1> QED
  BY <1>7, <1>8, <1>9, <1>10 DEF RelaysInv

\* Every step of the choice of a relay keeps the invariant.
LEMMA RelaysNext == ASSUME RelaysInv, [Relays!Next]_relay_vars PROVE RelaysInv'
<1> USE RelaysConstants
<1>1. ASSUME NEW id \in RelayIds, NEW load \in Loads, Relays!UpdateLoad(id, load) PROVE RelaysInv'
  <2>1. UNCHANGED <<by_tier, by_region, selections, registering, removing, anycast_cache, disturbed>>
    BY <1>1 DEF Relays!UpdateLoad
  <2>2. /\ DOMAIN relays' = DOMAIN relays
        /\ relays' \in [DOMAIN relays' -> [place : Places, load : Loads, alive : BOOLEAN]]
        /\ \A x \in DOMAIN relays : relays'[x].place = relays[x].place
    <3>1. CASE id \notin DOMAIN relays
      BY <1>1, <3>1 DEF Relays!UpdateLoad, RelaysInv, ManagerShape
    <3>2. CASE id \in DOMAIN relays
      <4>1. PICK p \in Places, l \in Loads, a \in BOOLEAN : relays[id] = [place |-> p, load |-> l, alive |-> a]
        BY <3>2 DEF RelaysInv, ManagerShape
      <4>2. PICK entry : entry = [place |-> p, load |-> load, alive |-> TRUE]
        OBVIOUS
      <4>3. entry \in [place : Places, load : Loads, alive : BOOLEAN] /\ entry.place = relays[id].place
        BY <4>1, <4>2
      <4>4. [relays[id] EXCEPT !.load = load, !.alive = TRUE] = entry
        <5>0. ASSUME NEW r, NEW c PROVE [r EXCEPT !.load = load, !.alive = c] = [[r EXCEPT !.load = load] EXCEPT !.alive = c]
          BY Zenon
        <5>1. ASSUME NEW b, NEW r, r = [place |-> p, load |-> l, alive |-> b]
              PROVE  [r EXCEPT !.load = load] = [place |-> p, load |-> load, alive |-> b]
          BY <5>1
        <5>2. ASSUME NEW b, NEW c, NEW r, r = [place |-> p, load |-> load, alive |-> b]
              PROVE  [r EXCEPT !.alive = c] = [place |-> p, load |-> load, alive |-> c]
          BY <5>2
        <5>3. PICK s : s = [place |-> p, load |-> load, alive |-> a]
          OBVIOUS
        <5>4. [relays[id] EXCEPT !.load = load] = s
          BY <4>1, <5>1, <5>3
        <5>5. [s EXCEPT !.alive = TRUE] = entry
          BY <4>2, <5>2, <5>3
        <5>6. [relays[id] EXCEPT !.load = load, !.alive = TRUE] = [[relays[id] EXCEPT !.load = load] EXCEPT !.alive = TRUE]
          BY <5>0
        <5> QED
          BY <5>4, <5>5, <5>6, Zenon
      <4>5. relays' = [relays EXCEPT ![id] = entry]
        BY <1>1, <3>2, <4>4 DEF Relays!UpdateLoad
      <4> QED
        BY <4>3, <4>5 DEF RelaysInv, ManagerShape
    <3> QED
      BY <3>1, <3>2
  <2>3. /\ DOMAIN predictors' = DOMAIN predictors /\ predictors' = [r \in DOMAIN predictors' |-> predictors'[r]]
        /\ \A x \in DOMAIN predictors : LoadHistory(predictors'[x])
    <3>1. CASE id \notin DOMAIN predictors
      BY <1>1, <3>1 DEF Relays!UpdateLoad, RelaysInv, ManagerShape
    <3>2. CASE id \in DOMAIN predictors
      <4>1. PICK h \in Seq(Loads) : h = predictors[id] /\ Len(h) <= max_history
        BY <3>2 DEF RelaysInv, ManagerShape, LoadHistory
      <4>2. PICK longer \in Seq(Loads) : longer = Append(h, load) /\ Len(longer) = Len(h) + 1
        BY AppendProperties
      <4>3. longer # <<>>
        BY <4>2
      <4>4. Tail(longer) \in Seq(Loads) /\ Len(Tail(longer)) = Len(h)
        BY <4>2, <4>3, HeadTailProperties
      <4>5. PICK new : new = Relays!Observed(h, load)
        OBVIOUS
      <4>6. LoadHistory(new)
        BY <4>1, <4>2, <4>4, <4>5 DEF Relays!Observed, LoadHistory
      <4>7. predictors' = [predictors EXCEPT ![id] = new]
        BY <1>1, <3>2, <4>1, <4>5 DEF Relays!UpdateLoad
      <4> QED
        BY <4>6, <4>7 DEF RelaysInv, ManagerShape
    <3> QED
      BY <3>1, <3>2
  <2>4. DOMAIN selections' = DOMAIN selections /\ selections' \in [DOMAIN selections' -> Nat]
    BY <2>1 DEF RelaysInv, ManagerShape
  <2> QED
    BY <2>1, <2>2, <2>3, <2>4, SameRegistrations
<1>2. ASSUME NEW id \in RelayIds, Relays!FallSilent(id) PROVE RelaysInv'
  <2>1. /\ id \in DOMAIN relays
        /\ UNCHANGED <<by_tier, by_region, predictors, selections, registering, removing, anycast_cache, disturbed>>
    BY <1>2 DEF Relays!FallSilent
  <2>2. PICK p \in Places, l \in Loads, a \in BOOLEAN : relays[id] = [place |-> p, load |-> l, alive |-> a]
    BY <2>1 DEF RelaysInv, ManagerShape
  <2>3. PICK entry : entry = [place |-> p, load |-> l, alive |-> FALSE]
    OBVIOUS
  <2>4. entry \in [place : Places, load : Loads, alive : BOOLEAN] /\ entry.place = relays[id].place
    BY <2>2, <2>3
  <2>5. [relays[id] EXCEPT !.alive = FALSE] = entry
    <3>0. ASSUME NEW b, NEW c, NEW r, r = [place |-> p, load |-> l, alive |-> b]
          PROVE  [r EXCEPT !.alive = c] = [place |-> p, load |-> l, alive |-> c]
      BY <3>0
    <3>1. PICK r : r = [place |-> p, load |-> l, alive |-> a]
      OBVIOUS
    <3>2. [r EXCEPT !.alive = FALSE] = [place |-> p, load |-> l, alive |-> FALSE]
      BY <3>0, <3>1
    <3> QED
      BY <2>2, <2>3, <3>1, <3>2
  <2>6. relays' = [relays EXCEPT ![id] = entry]
    BY <1>2, <2>5 DEF Relays!FallSilent
  <2>7. /\ DOMAIN relays' = DOMAIN relays
        /\ relays' \in [DOMAIN relays' -> [place : Places, load : Loads, alive : BOOLEAN]]
        /\ \A x \in DOMAIN relays : relays'[x].place = relays[x].place
    BY <2>1, <2>4, <2>6 DEF RelaysInv, ManagerShape
  <2>8. /\ DOMAIN predictors' = DOMAIN predictors /\ predictors' = [r \in DOMAIN predictors' |-> predictors'[r]]
        /\ \A x \in DOMAIN predictors : LoadHistory(predictors'[x])
        /\ DOMAIN selections' = DOMAIN selections /\ selections' \in [DOMAIN selections' -> Nat]
    BY <2>1 DEF RelaysInv, ManagerShape
  <2> QED
    BY <2>1, <2>7, <2>8, SameRegistrations
<1>3. ASSUME NEW id, NEW tiers, Relays!FindBestRelay(id, tiers) PROVE RelaysInv'
  <2>1. UNCHANGED <<relays, by_tier, by_region, predictors, registering, removing, anycast_cache, disturbed>>
    BY <1>3 DEF Relays!FindBestRelay
  <2>2. DOMAIN selections' = DOMAIN selections /\ selections' \in [DOMAIN selections' -> Nat]
    BY <1>3 DEF Relays!FindBestRelay, RelaysInv, ManagerShape
  <2>3. /\ DOMAIN predictors' = DOMAIN predictors /\ predictors' = [r \in DOMAIN predictors' |-> predictors'[r]]
        /\ \A x \in DOMAIN predictors : LoadHistory(predictors'[x])
        /\ relays' \in [DOMAIN relays' -> [place : Places, load : Loads, alive : BOOLEAN]]
    BY <2>1 DEF RelaysInv, ManagerShape
  <2> QED
    BY <2>1, <2>2, <2>3, SameRegistrations
<1>4. ASSUME UNCHANGED <<relays, by_tier, by_region, predictors, selections, registering, removing, disturbed>>,
             anycast_cache' \subseteq Clients \X RelayIds
      PROVE  RelaysInv'
  <2>1. ManagerShape'
    BY <1>4 DEF RelaysInv, ManagerShape
  <2>2. RemovingInv'
    BY <1>4 DEF RelaysInv, RemovingInv
  <2>3. \A id \in DOMAIN relays : IndexRight(id)'
    BY <1>4 DEF RelaysInv, IndexRight, Awaits
  <2>4. \A id \in RelayIds \ disturbed : ExactRight(id)'
    BY <1>4 DEF RelaysInv, ExactRight
  <2> QED
    BY <1>4, <2>1, <2>2, <2>3, <2>4 DEF RelaysInv
<1>5. ASSUME NEW client_ \in Clients, NEW ip \in DOMAIN Groups, Relays!Resolve(client_, ip) PROVE RelaysInv'
  <2>1. anycast_cache' \subseteq Clients \X RelayIds
    BY <1>5 DEF Relays!Resolve, Relays!Lightest, Relays!Known, RelaysInv, ManagerShape
  <2> QED
    BY <1>4, <1>5, <2>1 DEF Relays!Resolve
<1>6. ASSUME NEW entry, Relays!CacheExpires(entry) PROVE RelaysInv'
  BY <1>4, <1>6 DEF Relays!CacheExpires, RelaysInv, ManagerShape
<1>7. CASE UNCHANGED relay_vars
  BY <1>4, <1>7 DEF relay_vars, RelaysInv, ManagerShape
<1> QED
  BY <1>1, <1>2, <1>3, <1>5, <1>6, <1>7, RegisterRelayRight, RegisterStepRight, RemoveBeginRight, RemoveEndRight
  DEF Relays!Next

\* Cardinality of the instance is the library's.
LEMMA SameInRelays == \A S : Relays!Cardinality(S) = Cardinality(S)
  BY DEF Relays!Cardinality, Cardinality

\* What follows from the invariant of the choice of a relay.
LEMMA RelaysRight == ASSUME RelaysInv PROVE Relays!TypeOK /\ Relays!Indexed /\ Relays!IndexExact
<1>1. Relays!Cardinality(removing) <= 1
  <2>1. CASE removing = {}
    BY <2>1, SameInRelays, FS_EmptySet
  <2>2. ASSUME NEW r, removing = {r} PROVE Relays!Cardinality(removing) <= 1
    <3>1. Cardinality({r}) = 1
      BY FS_Singleton
    <3> QED
      BY <2>2, <3>1, SameInRelays
  <2> QED
    BY <2>1, <2>2 DEF RelaysInv, RemovingInv
<1>2. \A c \in DOMAIN registering : registering[c].id \in RelayIds /\ registering[c].place \in Places
  BY DEF RelaysInv, ManagerShape, Registration
<1>3. Relays!TypeOK
  BY <1>1, <1>2, RequestsAssumption DEF Relays!TypeOK, RelaysInv, ManagerShape, LoadHistory
<1>4. ASSUME NEW id, NEW place, NEW lefts, Relays!Settled(id) PROVE ~Awaits(id, place, lefts)
  BY <1>4 DEF Awaits, Relays!Settled
<1>5. Relays!Indexed
  BY <1>4 DEF Relays!Indexed, RelaysInv, IndexRight
<1>6. ASSUME NEW id \in RelayIds \ disturbed, Relays!Settled(id), removing = {}, NEW t \in Relays!Tiers
      PROVE  id \in by_tier[t] <=> (id \in DOMAIN relays /\ relays[id].place.tier = t)
  <2>1. id \in by_tier[t] => id \in DOMAIN relays /\ relays[id].place.tier = t
    BY <1>6 DEF RelaysInv, ExactRight
  <2>2. id \in DOMAIN relays => id \in by_tier[relays[id].place.tier]
    BY <1>4, <1>6 DEF RelaysInv, IndexRight
  <2> QED
    BY <2>1, <2>2
<1> QED
  BY <1>3, <1>5, <1>6 DEF Relays!IndexExact

-----------------------------------------------------------------------------
(* All of them.                                                              *)
RequestsInv == NetInv /\ NamesInv /\ HttpInv /\ IpInv /\ RingInv /\ NicsInv /\ RelayInv /\ RelaysInv

\* The shapes of all the components, and what they promise together.
LEMMA RequestsInvRight == RequestsInv => RequestTypes /\ RequestsSafe
<1> SUFFICES ASSUME RequestsInv PROVE RequestTypes /\ RequestsSafe
  OBVIOUS
<1>1. Net!TypeOK /\ Net!ReceivedWereSent
  BY NetRight DEF RequestsInv
<1>2. Names!TypeOK /\ Names!CacheCurrent
  BY NamesRight DEF RequestsInv
<1>3. Http!TypeOK /\ Http!ReportsRecorded /\ Http!BytesReportedOnce
  BY HttpRight DEF RequestsInv
<1>4. IpService!TypeOK /\ IpService!OneDevicePerIp /\ IpService!NoSharedIp /\ IpService!HeldIsAssigned
  BY IpServiceRight DEF RequestsInv
<1>5. Ring!TypeOK /\ Ring!Conserved /\ Ring!RecentBounded /\ Ring!OneOwner /\ Ring!BatchConserved
  BY RingRight DEF RequestsInv
<1>6. Nics!TypeOK /\ Nics!StatsFollowPorts /\ Nics!PortsNeedInit /\ Nics!PortsDecide /\ Nics!OneQueue
  BY NicsRight DEF RequestsInv
<1>7. Relay!TypeOK /\ Relay!LimitsHold /\ Relay!ToTheDestination /\ Relay!ShortIdsUnheard
  BY RelayRight DEF RequestsInv
<1>8. Relays!TypeOK /\ Relays!Indexed /\ Relays!IndexExact
  BY RelaysRight DEF RequestsInv
<1> QED
  BY <1>1, <1>2, <1>3, <1>4, <1>5, <1>6, <1>7, <1>8 DEF RequestTypes, RequestsSafe
=============================================================================
