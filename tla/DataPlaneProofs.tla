---------------------------- MODULE DataPlaneProofs ----------------------------
(* Theorems about the components of the data plane.  Each component has an   *)
(* inductive invariant of its own, proved from its own Init and Next; the    *)
(* components share no variable, so a step of MCDataPlane is a step of each  *)
(* or leaves it alone (Steps), and their invariants add up.                  *)
(*                                                                           *)
(* Parts: the composition, sequences, topology, access rules, route table,   *)
(* Raft and Kademlia, QUIC multipath, path selection, path choice, hole      *)
(* punching, the handshakes, and the theorems of the whole.  The components  *)
(* of RequestParts have their proofs in RequestsProofs.                      *)
EXTENDS MCDataPlane, RequestsProofs, Lists

-----------------------------------------------------------------------------
\* Every component starts as it does on its own.
LEMMA Begins ==
  MCInit => /\ Init /\ Selector!Init /\ Choice!Init /\ Punch!Init /\ Checks!Init /\ Agent!Init /\ Noise!Init
            /\ Pq!Init /\ Net!Init /\ Names!Init /\ Http!Init /\ IpService!Init /\ Ring!Init /\ Nics!Init
            /\ Relay!Init /\ Relays!Init /\ Graph!Init /\ Router!Init /\ Rules!Init /\ Control!Init
  BY DEF MCInit

\* A step of the whole is a step of each component, or leaves it alone.
LEMMA Steps ==
  [MCNext]_all_vars =>
    /\ [Next]_vars /\ [Selector!Next]_selector_vars /\ [Choice!Next]_choice_vars /\ [Punch!Next]_punch_vars
    /\ [Checks!Next]_check_vars /\ [Agent!Next]_agent_vars /\ [Noise!Next]_noise_vars /\ [Pq!Next]_pq_vars
    /\ [Net!Next]_overlay_vars /\ [Names!Next]_dns_vars /\ [Http!Next]_http_vars /\ [IpService!Next]_ip_vars
    /\ [Ring!Next]_ring_vars /\ [Nics!Next]_port_vars /\ [Relay!Next]_node_vars /\ [Relays!Next]_relay_vars
    /\ [Graph!Next]_topology_vars /\ [Router!Next]_table_vars /\ [Rules!Next]_policy
    /\ [Control!Next]_control_vars
<1> SUFFICES ASSUME [MCNext]_all_vars
    PROVE /\ [Next]_vars /\ [Selector!Next]_selector_vars /\ [Choice!Next]_choice_vars /\ [Punch!Next]_punch_vars
          /\ [Checks!Next]_check_vars /\ [Agent!Next]_agent_vars /\ [Noise!Next]_noise_vars /\ [Pq!Next]_pq_vars
          /\ [Net!Next]_overlay_vars /\ [Names!Next]_dns_vars /\ [Http!Next]_http_vars /\ [IpService!Next]_ip_vars
          /\ [Ring!Next]_ring_vars /\ [Nics!Next]_port_vars /\ [Relay!Next]_node_vars /\ [Relays!Next]_relay_vars
          /\ [Graph!Next]_topology_vars /\ [Router!Next]_table_vars /\ [Rules!Next]_policy
          /\ [Control!Next]_control_vars
  OBVIOUS
<1>1. CASE UNCHANGED all_vars
  BY <1>1 DEF all_vars
<1>2. CASE MCNext
  <2>1. [Next]_vars /\ [Selector!Next]_selector_vars /\ [Choice!Next]_choice_vars /\ [Punch!Next]_punch_vars
    BY <1>2, Zenon DEF MCNext, Rest, Idle
  <2>2. [Checks!Next]_check_vars /\ [Agent!Next]_agent_vars /\ [Noise!Next]_noise_vars /\ [Pq!Next]_pq_vars
    BY <1>2, Zenon DEF MCNext, Rest, Idle
  <2>3. [Net!Next]_overlay_vars /\ [Names!Next]_dns_vars /\ [Http!Next]_http_vars /\ [IpService!Next]_ip_vars
    BY <1>2, Zenon DEF MCNext, Rest, Idle
  <2>4. [Ring!Next]_ring_vars /\ [Nics!Next]_port_vars /\ [Relay!Next]_node_vars /\ [Relays!Next]_relay_vars
    BY <1>2, Zenon DEF MCNext, Rest, Idle
  <2>5. [Graph!Next]_topology_vars /\ [Router!Next]_table_vars /\ [Rules!Next]_policy
    BY <1>2, Zenon DEF MCNext, Rest, Idle
  <2>6. [Control!Next]_control_vars
    BY <1>2, Zenon DEF MCNext, Rest, Idle, Control!Next
  <2> QED
    BY <2>1, <2>2, <2>3, <2>4, <2>5, <2>6
<1> QED
  BY <1>1, <1>2

-----------------------------------------------------------------------------
(* Lists.  The entries of a list that are kept or sorted take each place   *)
(* once, in the order asked for.                                           *)
TotalOrder(I, R) ==
  /\ \A i \in I : <<i, i>> \in R
  /\ \A i, j \in I : <<i, j>> \in R \/ <<j, i>> \in R
  /\ \A i, j \in I : <<i, j>> \in R /\ <<j, i>> \in R => i = j
  /\ \A i, j, k \in I : <<i, j>> \in R /\ <<j, k>> \in R => <<i, k>> \in R

LEMMA UpTo == ASSUME NEW n \in Nat PROVE IsFiniteSet(1 .. n) /\ Cardinality(1 .. n) = n
<1>1. 1 \in Int /\ n \in Int
  OBVIOUS
<1>2. IsFiniteSet(1 .. n) /\ Cardinality(1 .. n) = IF 1 > n THEN 0 ELSE n - 1 + 1
  BY <1>1, FS_Interval
<1> QED
  BY <1>2

LEMMA RankedInOrder ==
  ASSUME NEW I, IsFiniteSet(I), NEW R, TotalOrder(I, R)
  PROVE  /\ Cardinality(I) \in Nat
         /\ \A k \in 1 .. Cardinality(I) : Ranked(I, R, k) \in I
         /\ \A k, m \in 1 .. Cardinality(I) :
               k < m => Ranked(I, R, k) # Ranked(I, R, m) /\ <<Ranked(I, R, k), Ranked(I, R, m)>> \in R
<1> DEFINE upto(i) == {j \in I : <<j, i>> \in R}
           n == Cardinality(I)
           rank == [i \in I |-> Cardinality(upto(i))]
<1>1. n \in Nat
  BY FS_CardinalityType
<1>2. ASSUME NEW i \in I
      PROVE  /\ IsFiniteSet(upto(i)) /\ Cardinality(upto(i)) \in 1 .. n /\ Cardinality(upto(i)) \in Nat
  <2>1. upto(i) \subseteq I /\ i \in upto(i)
    BY DEF TotalOrder
  <2>2. IsFiniteSet(upto(i)) /\ Cardinality(upto(i)) <= n
    BY <2>1, FS_Subset
  <2>3. Cardinality(upto(i)) \in Nat /\ Cardinality(upto(i)) # 0
    BY <2>1, <2>2, FS_CardinalityType, FS_EmptySet
  <2> HIDE DEF upto, n
  <2> QED
    BY <1>1, <2>2, <2>3
<1>3. ASSUME NEW i \in I, NEW j \in I, i # j, <<i, j>> \in R
      PROVE  rank[i] < rank[j]
  <2>1. upto(i) \subseteq upto(j) /\ j \in upto(j) /\ j \notin upto(i)
    BY <1>3 DEF TotalOrder
  <2>2. Cardinality(upto(i)) < Cardinality(upto(j))
    <3>1. upto(i) # upto(j) /\ IsFiniteSet(upto(j))
      BY <1>2, <2>1
    <3>2. Cardinality(upto(i)) <= Cardinality(upto(j)) /\ (Cardinality(upto(i)) = Cardinality(upto(j)) => upto(i) = upto(j))
      BY <2>1, <3>1, FS_Subset
    <3> HIDE DEF upto, n
    <3>3. Cardinality(upto(i)) \in Nat /\ Cardinality(upto(j)) \in Nat
      BY <1>2
    <3> QED
      BY <3>1, <3>2, <3>3
  <2> QED
    BY <2>2
<1>4. rank \in [I -> 1 .. n]
  BY <1>2
<1>5. \A i, j \in I : rank[i] = rank[j] => i = j
  <2> SUFFICES ASSUME NEW i \in I, NEW j \in I, rank[i] = rank[j], i # j PROVE FALSE
    OBVIOUS
  <2>1. rank[i] \in Nat /\ rank[j] \in Nat
    BY <1>4, <1>1
  <2>2. rank[i] < rank[j] \/ rank[j] < rank[i]
    BY <1>3 DEF TotalOrder
  <2> HIDE DEF rank
  <2> QED
    BY <2>1, <2>2
<1>6. rank \in Surjection(I, 1 .. n)
  <2>1. rank \in Injection(I, 1 .. n)
    BY <1>4, <1>5 DEF Injection, IsInjective
  <2>2. IsFiniteSet(1 .. n) /\ Cardinality(1 .. n) = n
    BY <1>1, FS_Interval
  <2> QED
    BY <2>1, <2>2, FS_Injection
<1>7. ASSUME NEW k \in 1 .. n PROVE Ranked(I, R, k) \in I /\ rank[Ranked(I, R, k)] = k
  <2>1. \E i \in I : rank[i] = k
    BY <1>6 DEF Surjection
  <2>2. \E i \in I : Cardinality({j \in I : <<j, i>> \in R}) = k
    BY <2>1
  <2> QED
    BY <2>2 DEF Ranked
<1>8. ASSUME NEW k \in 1 .. n, NEW m \in 1 .. n, k < m
      PROVE  Ranked(I, R, k) # Ranked(I, R, m) /\ <<Ranked(I, R, k), Ranked(I, R, m)>> \in R
  <2> DEFINE a == Ranked(I, R, k)
             b == Ranked(I, R, m)
  <2>1. a \in I /\ b \in I /\ rank[a] = k /\ rank[b] = m
    BY <1>7
  <2> HIDE DEF a, b, rank
  <2>2. a # b /\ ~(rank[b] < rank[a])
    BY <1>1, <1>8, <2>1
  <2>3. ~(rank[b] < rank[a])
    BY <2>2
  <2>4. <<a, b>> \in R
    BY <1>3, <2>1, <2>2, <2>3 DEF TotalOrder
  <2> QED
    BY <2>2, <2>4 DEF a, b
<1> QED
  BY <1>1, <1>7, <1>8

\* The entries of a list that are kept: some of its places, ascending.
LEMMA Kept ==
  ASSUME NEW T, NEW list \in Seq(T), NEW S
  PROVE  /\ Keep(list, S) \in Seq(T) /\ Len(Keep(list, S)) <= Len(list)
         /\ \A k \in DOMAIN Keep(list, S) : Keep(list, S)[k] \in S
         /\ \E at \in [DOMAIN Keep(list, S) -> DOMAIN list] :
               /\ \A k \in DOMAIN Keep(list, S) : Keep(list, S)[k] = list[at[k]]
               /\ \A k, m \in DOMAIN Keep(list, S) : k < m => at[k] < at[m]
<1> DEFINE I == KeptIndices(list, S)
           n == Cardinality(I)
           at == [k \in 1 .. n |-> Ranked(I, Ascending(I), k)]
<1>1. DOMAIN list = 1 .. Len(list) /\ Len(list) \in Nat /\ I \subseteq 1 .. Len(list)
  BY DEF KeptIndices
<1>2. IsFiniteSet(I) /\ n <= Len(list)
  <2>1. IsFiniteSet(1 .. Len(list)) /\ Cardinality(1 .. Len(list)) = Len(list)
    BY <1>1, UpTo
  <2> HIDE DEF I
  <2>2. I \in SUBSET (1 .. Len(list))
    BY <1>1
  <2>3. IsFiniteSet(I) /\ Cardinality(I) <= Cardinality(1 .. Len(list))
    BY <2>1, <2>2, FS_Subset
  <2> QED
    BY <2>1, <2>3 DEF n
<1>3. TotalOrder(I, Ascending(I))
  <2>1. \A i \in I : i \in Nat
    BY <1>1
  <2> HIDE DEF I
  <2> QED
    BY <2>1 DEF TotalOrder, Ascending
<1>4. /\ n \in Nat /\ \A k \in 1 .. n : at[k] \in I
      /\ \A k, m \in 1 .. n : k < m => at[k] # at[m] /\ <<at[k], at[m]>> \in Ascending(I)
  BY <1>2, <1>3, RankedInOrder
<1>5. Keep(list, S) = [k \in 1 .. n |-> list[at[k]]]
  BY DEF Keep
<1> HIDE DEF n, at
<1>6. /\ \A k \in 1 .. n : at[k] \in 1 .. Len(list) /\ list[at[k]] \in S /\ list[at[k]] \in T
      /\ \A k, m \in 1 .. n : k < m => at[k] < at[m]
  <2>1. \A k \in 1 .. n : at[k] \in 1 .. Len(list) /\ list[at[k]] \in S /\ list[at[k]] \in T
    BY <1>1, <1>4 DEF KeptIndices
  <2>2. ASSUME NEW k \in 1 .. n, NEW m \in 1 .. n, k < m PROVE at[k] < at[m]
    <3>1. at[k] # at[m] /\ <<at[k], at[m]>> \in Ascending(I)
      BY <1>4, <2>2
    <3>2. at[k] <= at[m]
      BY <3>1 DEF Ascending
    <3> QED
      BY <1>1, <2>1, <3>1, <3>2
  <2> QED
    BY <2>1, <2>2
<1>7. DOMAIN Keep(list, S) = 1 .. n /\ Keep(list, S) \in Seq(T) /\ Len(Keep(list, S)) = n
  BY <1>4, <1>5, <1>6
<1>8. [k \in 1 .. n |-> at[k]] \in [1 .. n -> 1 .. Len(list)]
  BY <1>6
<1> DEFINE kept == Keep(list, S)
           h == [k \in 1 .. n |-> at[k]]
<1>9. \A k \in DOMAIN kept : kept[k] = list[at[k]] /\ h[k] = at[k]
  BY <1>5, <1>7
<1> HIDE DEF kept, h
<1>10. h \in [DOMAIN kept -> DOMAIN list]
  BY <1>1, <1>7, <1>8 DEF kept, h
<1>11. /\ \A k \in DOMAIN kept : kept[k] \in S /\ kept[k] = list[h[k]]
       /\ \A k, m \in DOMAIN kept : k < m => h[k] < h[m]
  BY <1>6, <1>7, <1>9 DEF kept
<1> QED
  BY <1>2, <1>7, <1>10, <1>11 DEF kept

\* A sorted list: the same entries, by their keys.
LEMMA SortedByKey ==
  ASSUME NEW T, NEW list \in Seq(T), NEW key \in [DOMAIN list -> Nat]
  PROVE  /\ Sorted(list, key) \in Seq(T) /\ Len(Sorted(list, key)) = Len(list)
         /\ \E at \in [DOMAIN list -> DOMAIN list] :
               /\ \A k \in DOMAIN list : Sorted(list, key)[k] = list[at[k]]
               /\ \A k, m \in DOMAIN list : k < m => at[k] # at[m] /\ key[at[k]] <= key[at[m]]
<1> DEFINE I == DOMAIN list
           R == KeyOrder(list, key)
           n == Len(list)
           at == [k \in I |-> Ranked(I, R, k)]
<1>1. I = 1 .. n /\ n \in Nat /\ IsFiniteSet(I) /\ Cardinality(I) = n
  <2>1. I = 1 .. n /\ n \in Nat
    OBVIOUS
  <2> QED
    BY <2>1, UpTo
<1>2. TotalOrder(I, R)
  <2>1. \A i \in I : i \in Nat /\ key[i] \in Nat
    BY <1>1
  <2>2. \A i, j \in I : <<i, j>> \in R <=> (key[i] < key[j] \/ (key[i] = key[j] /\ i <= j))
    <3> TAKE i \in I, j \in I
    <3> DEFINE p == <<i, j>>
    <3>1. p \in I \X I /\ p[1] = i /\ p[2] = j
      OBVIOUS
    <3>2. p \in R <=> (key[p[1]] < key[p[2]] \/ (key[p[1]] = key[p[2]] /\ p[1] <= p[2]))
      <4> HIDE DEF p
      <4> QED
        BY <3>1 DEF KeyOrder
    <3> QED
      BY <3>1, <3>2
  <2> HIDE DEF I, R
  <2> QED
    BY <2>1, <2>2 DEF TotalOrder
<1>3. /\ \A k \in I : at[k] \in I
      /\ \A k, m \in I : k < m => at[k] # at[m] /\ <<at[k], at[m]>> \in R
  BY <1>1, <1>2, RankedInOrder
<1>4. \A k, m \in I : k < m => at[k] # at[m] /\ key[at[k]] <= key[at[m]]
  <2> SUFFICES ASSUME NEW k \in I, NEW m \in I, k < m PROVE at[k] # at[m] /\ key[at[k]] <= key[at[m]]
    OBVIOUS
  <2>a. at[k] # at[m] /\ <<at[k], at[m]>> \in R /\ at[k] \in I /\ at[m] \in I
    BY <1>3
  <2>1. key[at[k]] < key[at[m]] \/ key[at[k]] = key[at[m]]
    <3> HIDE DEF at
    <3> QED
      BY <2>a DEF KeyOrder
  <2>2. key[at[k]] \in Nat /\ key[at[m]] \in Nat
    BY <1>3
  <2> HIDE DEF at
  <2> QED
    BY <2>a, <2>1, <2>2
<1>5. Sorted(list, key) = [k \in 1 .. n |-> list[at[k]]]
  BY <1>1 DEF Sorted
<1>6. at \in [I -> I]
  BY <1>3
<1> HIDE DEF at
<1>7. Sorted(list, key) \in Seq(T) /\ Len(Sorted(list, key)) = n
  BY <1>1, <1>3, <1>5
<1> QED
  BY <1>1, <1>4, <1>5, <1>6, <1>7

-----------------------------------------------------------------------------
(* Topology.  A search keeps what Dijkstra's argument needs: of every node *)
(* it knows there is a walk as long as its distance, no visited node is    *)
(* farther than one that is not, and the neighbours of a visited node are  *)
(* known, at most one hop farther.                                         *)
Search == [dst : TopologyNodes, src : TopologyNodes, dist : UNION {[D -> Nat] : D \in SUBSET TopologyNodes},
           prev : UNION {[D -> TopologyNodes] : D \in SUBSET TopologyNodes}, visited : SUBSET TopologyNodes]
Frontier(s) ==
    /\ s.src \in DOMAIN s.dist /\ s.dist[s.src] = 0
    /\ s.visited \subseteq DOMAIN s.dist
    /\ \A v \in s.visited, n \in DOMAIN s.dist \ s.visited : s.dist[v] <= s.dist[n]
    /\ \A v \in s.visited : \A n \in Graph!Neighbours(adjacency, v) :
           n \in DOMAIN s.dist /\ s.dist[n] <= s.dist[v] + 1
Backwards(s) ==
    \A n \in DOMAIN s.prev : /\ n \in DOMAIN s.dist /\ s.prev[n] \in s.visited
                             /\ n \in Graph!Neighbours(adjacency, s.prev[n])
                             /\ s.dist[n] = s.dist[s.prev[n]] + 1
Walked(s) == \A n \in DOMAIN s.dist : Graph!Walks(s.src, n, s.dist[n]) # {}
SearchInv(s) ==
    s \in Search /\ s.dst \notin s.visited /\ Frontier(s) /\ Backwards(s) /\ Walked(s)
GraphInv == Graph!TypeOK /\ Graph!EdgesBacked /\ \A s \in search : SearchInv(s)

LEMMA GraphSize == \A S : Graph!Cardinality(S) = Cardinality(S)
  BY DEF Graph!Cardinality, Cardinality

LEMMA GraphFinite == \A S : Graph!IsFiniteSet(S) <=> IsFiniteSet(S)
  BY DEF Graph!IsFiniteSet, IsFiniteSet

LEMMA OneSearch == Graph!Cardinality({}) = 0 /\ \A s : Graph!Cardinality({s}) = 1
  BY GraphSize, FS_EmptySet, FS_Singleton

LEMMA GraphConstants ==
  Graph!Constants /\ MaxVersion \in Nat /\ Bandwidths \subseteq Nat /\ IsFiniteSet(TopologyNodes)
  BY DataPlaneAssumption, GraphFinite DEF Graph!Constants

LEMMA GraphInit == Graph!Init => GraphInv
<1> SUFFICES ASSUME Graph!Init PROVE GraphInv
  OBVIOUS
<1>1. Graph!TypeOK
  <2>1. DOMAIN nodes = {} /\ DOMAIN adjacency = {} /\ DOMAIN relay_elections = {}
    BY DEF Graph!Init
  <2>2. nodes \in [{} -> Graph!Node] /\ adjacency \in [{} -> SUBSET TopologyNodes]
        /\ relay_elections \in [{} -> SUBSET TopologyNodes]
    BY DEF Graph!Init
  <2> QED
    BY <2>1, <2>2, GraphConstants, OneSearch DEF Graph!Init, Graph!TypeOK
<1>2. Graph!EdgesBacked
  BY DEF Graph!Init, Graph!EdgesBacked
<1> QED
  BY <1>1, <1>2 DEF Graph!Init, GraphInv

\* An update of the lists, while no search holds them.
LEMMA GraphUpdate ==
  ASSUME GraphInv, NEW n \in TopologyNodes, NEW m \in TopologyNodes,
         \/ \E node1 \in Graph!Node : Graph!UpsertNode(n, node1)
         \/ Graph!RemoveNode(n)
         \/ Graph!AddLink(n, m) \/ Graph!RemoveLink(n, m)
  PROVE  GraphInv'
<1>0. /\ search = {} /\ search' = {} /\ Graph!Constants'
      /\ DOMAIN adjacency \subseteq TopologyNodes /\ adjacency \in [DOMAIN adjacency -> SUBSET TopologyNodes]
      /\ version \in 0 .. MaxVersion /\ MaxVersion \in Nat
      /\ UNCHANGED relay_elections
  BY GraphConstants DEF GraphInv, Graph!TypeOK, Graph!UpsertNode, Graph!RemoveNode, Graph!AddLink,
     Graph!RemoveLink, Graph!AdjacencyFree, Graph!Constants
<1>1. version' \in 0 .. MaxVersion
  BY <1>0 DEF Graph!UpsertNode, Graph!RemoveNode, Graph!AddLink, Graph!RemoveLink
<1>2. DOMAIN nodes' \subseteq TopologyNodes /\ nodes' \in [DOMAIN nodes' -> Graph!Node]
  BY DEF GraphInv, Graph!TypeOK, Graph!UpsertNode, Graph!RemoveNode, Graph!AddLink,
     Graph!RemoveLink, Graph!Put, Graph!Drop
<1>3. links' \subseteq TopologyNodes \X TopologyNodes
  BY DEF GraphInv, Graph!TypeOK, Graph!UpsertNode, Graph!RemoveNode, Graph!AddLink, Graph!RemoveLink
<1>4. /\ DOMAIN adjacency' \subseteq TopologyNodes /\ adjacency' \in [DOMAIN adjacency' -> SUBSET TopologyNodes]
      /\ Graph!EdgesBacked'
  <2>1. ASSUME NEW node1 \in Graph!Node, Graph!UpsertNode(n, node1)
        PROVE  /\ DOMAIN adjacency' \subseteq TopologyNodes /\ adjacency' \in [DOMAIN adjacency' -> SUBSET TopologyNodes]
               /\ Graph!EdgesBacked'
    BY <1>0, <2>1 DEF GraphInv, Graph!EdgesBacked, Graph!UpsertNode, Graph!Put, Graph!Neighbours
  <2>2. CASE Graph!RemoveNode(n)
    BY <1>0, <2>2 DEF GraphInv, Graph!EdgesBacked, Graph!RemoveNode, Graph!Drop
  <2>3. CASE Graph!AddLink(n, m)
    <3>1. DOMAIN adjacency' = DOMAIN adjacency \cup {n, m} /\ links' = links \cup {<<n, m>>}
      BY <2>3 DEF Graph!AddLink
    <3>2. \A k \in DOMAIN adjacency' : adjacency'[k] =
            Graph!Neighbours(adjacency, k) \cup (IF k = n THEN {m} ELSE {}) \cup (IF k = m THEN {n} ELSE {})
      BY <2>3 DEF Graph!AddLink
    <3>3. Graph!EdgesBacked'
      <4> SUFFICES ASSUME NEW s \in DOMAIN adjacency', NEW t \in adjacency'[s]
                   PROVE  <<s, t>> \in links' \/ <<t, s>> \in links'
        BY DEF Graph!EdgesBacked
      <4>1. CASE t \in Graph!Neighbours(adjacency, s)
        BY <4>1, <3>1 DEF GraphInv, Graph!EdgesBacked, Graph!Neighbours
      <4>2. CASE t \notin Graph!Neighbours(adjacency, s)
        BY <4>2, <3>1, <3>2
      <4> QED
        BY <4>1, <4>2
    <3>4. \A k \in DOMAIN adjacency' : adjacency'[k] \in SUBSET TopologyNodes
      BY <1>0, <3>1, <3>2 DEF Graph!Neighbours
    <3>5. adjacency' = [k \in DOMAIN adjacency' |-> adjacency'[k]]
      BY <2>3 DEF Graph!AddLink
    <3> QED
      BY <1>0, <3>1, <3>3, <3>4, <3>5
  <2>4. CASE Graph!RemoveLink(n, m)
    <3>1. DOMAIN adjacency' = DOMAIN adjacency /\ links' = links \ {<<n, m>>}
          /\ adjacency' \in [DOMAIN adjacency -> SUBSET TopologyNodes]
      BY <1>0, <2>4 DEF Graph!RemoveLink, Graph!Unlinked
    <3>2. \A k \in DOMAIN adjacency : adjacency'[k] =
            adjacency[k] \ ((IF k = n THEN {m} ELSE {}) \cup (IF k = m THEN {n} ELSE {}))
      BY <2>4 DEF Graph!RemoveLink, Graph!Unlinked
    <3>3. Graph!EdgesBacked'
      <4> SUFFICES ASSUME NEW s \in DOMAIN adjacency', NEW t \in adjacency'[s]
                   PROVE  <<s, t>> \in links' \/ <<t, s>> \in links'
        BY DEF Graph!EdgesBacked
      <4>1. t \in adjacency[s] /\ ~(s = n /\ t = m) /\ ~(s = m /\ t = n)
        BY <3>1, <3>2
      <4>2. <<s, t>> \in links \/ <<t, s>> \in links
        BY <4>1, <3>1 DEF GraphInv, Graph!EdgesBacked
      <4> QED
        BY <4>1, <4>2, <3>1
    <3> QED
      BY <1>0, <3>1, <3>3
  <2> QED
    BY <2>1, <2>2, <2>3, <2>4
<1> QED
  BY <1>0, <1>1, <1>2, <1>3, <1>4, OneSearch DEF GraphInv, Graph!TypeOK

\* Relays are elected.
LEMMA GraphElection ==
  ASSUME GraphInv, NEW region, Graph!ElectRelays(region)
  PROVE  GraphInv'
<1>1. UNCHANGED <<nodes, links, adjacency, version, search>>
  BY DEF Graph!ElectRelays
<1>2. PICK elected \in SUBSET Graph!Candidates : relay_elections' = Graph!Put(relay_elections, region, elected)
  BY DEF Graph!ElectRelays
<1>3. relay_elections' \in [DOMAIN relay_elections' -> SUBSET TopologyNodes]
  BY <1>2 DEF GraphInv, Graph!TypeOK, Graph!Put, Graph!Candidates
<1>4. Graph!TypeOK'
  BY <1>1, <1>3, GraphConstants DEF GraphInv, Graph!TypeOK, Graph!Constants
<1>5. Graph!EdgesBacked'
  BY <1>1 DEF GraphInv, Graph!EdgesBacked
<1>6. \A s \in search : SearchInv(s)'
  BY <1>1 DEF GraphInv, SearchInv, Frontier, Backwards, Walked, Graph!Neighbours, Graph!Walks
<1> QED
  BY <1>1, <1>4, <1>5, <1>6 DEF GraphInv

\* What a search does leaves the rest alone.
LEMMA GraphSearch ==
  ASSUME GraphInv, UNCHANGED <<nodes, links, adjacency, relay_elections, version>>,
         search' = {} \/ \E s : search' = {s} /\ SearchInv(s)
  PROVE  GraphInv'
<1>1. Graph!TypeOK'
  <2>1. Graph!Cardinality(search') = 0 \/ Graph!Cardinality(search') = 1
    BY OneSearch, Zenon
  <2>2. Graph!Cardinality(search') <= 1
    BY <2>1
  <2> QED
    BY <2>2, GraphConstants DEF GraphInv, Graph!TypeOK, Graph!Constants
<1>2. Graph!EdgesBacked'
  BY DEF GraphInv, Graph!EdgesBacked
<1>3. \A s \in search' : SearchInv(s)'
  BY DEF SearchInv, Frontier, Backwards, Walked, Graph!Neighbours, Graph!Walks
<1> QED
  BY <1>1, <1>2, <1>3 DEF GraphInv

\* A search starts at its source, no hop away from itself.
LEMMA SearchStarts ==
  ASSUME GraphInv, NEW src \in TopologyNodes, NEW dst \in TopologyNodes, Graph!ShortestPath(src, dst)
  PROVE  GraphInv'
<1> DEFINE s == [dst |-> dst, src |-> src, dist |-> [n \in {src} |-> 0],
                 prev |-> [n \in {} |-> src], visited |-> {}]
<1>0. search' = {s} /\ UNCHANGED <<nodes, links, adjacency, relay_elections, version>>
  BY DEF Graph!ShortestPath
<1>1. s \in Search
  <2>1. [n \in {src} |-> 0] \in UNION {[D -> Nat] : D \in SUBSET TopologyNodes}
    <3>1. {src} \in SUBSET TopologyNodes /\ [n \in {src} |-> 0] \in [{src} -> Nat]
      OBVIOUS
    <3> QED
      BY <3>1
  <2>2. [n \in {} |-> src] \in UNION {[D -> TopologyNodes] : D \in SUBSET TopologyNodes}
    <3>1. {} \in SUBSET TopologyNodes /\ [n \in {} |-> src] \in [{} -> TopologyNodes]
      OBVIOUS
    <3> QED
      BY <3>1
  <2> QED
    BY <2>1, <2>2 DEF Search
<1>2. Frontier(s) /\ Backwards(s)
  BY DEF Frontier, Backwards
<1>3. Walked(s)
  <2>1. [i \in 0 .. 0 |-> src] \in Graph!Walks(src, src, 0)
    BY DEF Graph!Walks
  <2> QED
    BY <2>1 DEF Walked
<1>4. SearchInv(s)
  BY <1>1, <1>2, <1>3 DEF SearchInv
<1> QED
  BY <1>0, <1>4, GraphSearch, Zenon

\* A walk goes one hop farther.
LEMMA WalkOn ==
  ASSUME NEW src, NEW n, NEW d \in Nat, Graph!Walks(src, n, d) # {},
         NEW m \in TopologyNodes, m \in Graph!Neighbours(adjacency, n)
  PROVE  Graph!Walks(src, m, d + 1) # {}
<1>1. PICK w \in Graph!Walks(src, n, d) : TRUE
  OBVIOUS
<1> DEFINE u == [i \in 0 .. d + 1 |-> IF i = d + 1 THEN m ELSE w[i]]
<1>2. w \in [0 .. d -> TopologyNodes] /\ w[0] = src /\ w[d] = n
      /\ \A i \in 1 .. d : w[i] \in Graph!Neighbours(adjacency, w[i - 1])
  BY <1>1 DEF Graph!Walks
<1>3. u \in [0 .. d + 1 -> TopologyNodes]
  BY <1>2
<1>4. u[0] = src /\ u[d + 1] = m
  BY <1>2
<1>5. ASSUME NEW i \in 1 .. d + 1 PROVE u[i] \in Graph!Neighbours(adjacency, u[i - 1])
  <2>1. CASE i = d + 1
    <3>1. u[i] = m /\ i - 1 = d /\ u[d] = w[d]
      BY <2>1
    <3> QED
      BY <3>1, <1>2
  <2>2. CASE i # d + 1
    <3>1. i \in 1 .. d /\ i - 1 \in 0 .. d /\ u[i] = w[i] /\ u[i - 1] = w[i - 1]
      BY <2>2
    <3> QED
      BY <3>1, <1>2
  <2> QED
    BY <2>1, <2>2
<1> HIDE DEF u
<1>6. u \in Graph!Walks(src, m, d + 1)
  BY <1>3, <1>4, <1>5 DEF Graph!Walks
<1> QED
  BY <1>6

\* The search visits a node.
LEMMA SearchVisits ==
  ASSUME GraphInv, NEW s \in search, NEW current \in TopologyNodes, Graph!Visit(s, current)
  PROVE  GraphInv'
<1> DEFINE better == Graph!Better(s, current)
           step == s.dist[current] + 1
           dist == [n \in DOMAIN s.dist \cup better |-> IF n \in better THEN step ELSE s.dist[n]]
           prev == [n \in DOMAIN s.prev \cup better |-> IF n \in better THEN current ELSE s.prev[n]]
           t == [s EXCEPT !.dist = dist, !.prev = prev, !.visited = s.visited \cup {current}]
<1>0. /\ search' = {t} /\ UNCHANGED <<nodes, links, adjacency, relay_elections, version>>
      /\ SearchInv(s) /\ current # s.dst
  BY DEF Graph!Visit, GraphInv
<1>1. /\ s \in Search /\ DOMAIN s.dist \subseteq TopologyNodes /\ s.dist \in [DOMAIN s.dist -> Nat]
      /\ DOMAIN s.prev \subseteq TopologyNodes /\ s.prev \in [DOMAIN s.prev -> TopologyNodes]
      /\ s.visited \subseteq DOMAIN s.dist
  BY <1>0 DEF SearchInv, Search, Frontier
<1>2. /\ current \in DOMAIN s.dist /\ current \notin s.visited /\ s.dist[current] \in Nat /\ step \in Nat
      /\ \A n \in DOMAIN s.dist \ s.visited : s.dist[current] <= s.dist[n]
  <2>1. current \in Graph!Nearest(s)
    BY DEF Graph!Visit
  <2>2. current \in Graph!Unvisited(s) /\ \A n \in Graph!Unvisited(s) : s.dist[current] <= s.dist[n]
    BY <2>1 DEF Graph!Nearest
  <2> QED
    BY <1>1, <2>2 DEF Graph!Unvisited
<1>3. /\ better \subseteq TopologyNodes /\ better \cap (s.visited \cup {current}) = {}
      /\ better \subseteq Graph!Neighbours(adjacency, current)
      /\ \A n \in Graph!Neighbours(adjacency, current) \ (s.visited \cup {current}) :
             n \in better \/ (n \in DOMAIN s.dist /\ s.dist[n] <= step)
      /\ \A n \in better \cap DOMAIN s.dist : step < s.dist[n]
  <2>1. Graph!Neighbours(adjacency, current) \subseteq TopologyNodes
    BY DEF Graph!Neighbours, GraphInv, Graph!TypeOK
  <2> QED
    BY <2>1, <1>1, <1>2 DEF Graph!Better
<1> HIDE DEF better, step
<1>4. /\ DOMAIN dist = DOMAIN s.dist \cup better /\ dist \in [DOMAIN s.dist \cup better -> Nat]
      /\ DOMAIN prev = DOMAIN s.prev \cup better /\ prev \in [DOMAIN s.prev \cup better -> TopologyNodes]
      /\ \A n \in better : dist[n] = step /\ prev[n] = current
      /\ \A n \in DOMAIN s.dist \ better : dist[n] = s.dist[n]
      /\ \A n \in DOMAIN s.prev \ better : prev[n] = s.prev[n]
  BY <1>1, <1>2
<1> HIDE DEF dist, prev
<1>5. /\ t.dst = s.dst /\ t.src = s.src /\ t.dist = dist /\ t.prev = prev
      /\ t.visited = s.visited \cup {current} /\ t \in Search
  <2>1. dist \in UNION {[D -> Nat] : D \in SUBSET TopologyNodes}
    BY <1>1, <1>3, <1>4
  <2>2. prev \in UNION {[D -> TopologyNodes] : D \in SUBSET TopologyNodes}
    BY <1>1, <1>3, <1>4
  <2>3. s.visited \cup {current} \in SUBSET TopologyNodes
    BY <1>1
  <2> QED
    BY <1>1, <2>1, <2>2, <2>3 DEF Search
<1> HIDE DEF t
<1>6. \A n \in DOMAIN s.dist : dist[n] <= s.dist[n] /\ (n \in s.visited \cup {current} => dist[n] = s.dist[n])
  BY <1>1, <1>2, <1>3, <1>4 DEF step
<1>7. Frontier(t)
  <2>1. s.src \in DOMAIN dist /\ dist[s.src] = 0
    <3>1. s.src \in DOMAIN s.dist /\ s.dist[s.src] = 0
      BY <1>0 DEF SearchInv, Frontier
    <3>2. dist[s.src] \in Nat /\ dist[s.src] <= 0
      BY <3>1, <1>4, <1>6
    <3> QED
      BY <3>1, <3>2, <1>4
  <2>2. s.visited \cup {current} \subseteq DOMAIN dist
    BY <1>1, <1>2, <1>4
  <2>3. ASSUME NEW v \in s.visited \cup {current}, NEW n \in DOMAIN dist \ (s.visited \cup {current})
        PROVE  dist[v] <= dist[n]
    <3>1. dist[v] = s.dist[v] /\ s.dist[v] \in Nat /\ s.dist[v] <= s.dist[current]
      BY <1>0, <1>1, <1>2, <1>6 DEF SearchInv, Frontier
    <3>2. dist[n] >= s.dist[current]
      <4>1. CASE n \in better
        BY <4>1, <1>2, <1>4 DEF step
      <4>2. CASE n \notin better
        BY <4>2, <1>2, <1>4
      <4> QED
        BY <4>1, <4>2
    <3> QED
      BY <3>1, <3>2, <1>2, <1>4
  <2>4. ASSUME NEW v \in s.visited \cup {current}, NEW n \in Graph!Neighbours(adjacency, v)
        PROVE  n \in DOMAIN dist /\ dist[n] <= dist[v] + 1
    <3>1. CASE v \in s.visited
      <4>1. n \in DOMAIN s.dist /\ s.dist[n] <= s.dist[v] + 1
        BY <1>0, <3>1 DEF SearchInv, Frontier
      <4>2. dist[n] <= s.dist[n] /\ dist[v] = s.dist[v]
        BY <3>1, <4>1, <1>1, <1>6
      <4> QED
        BY <4>1, <4>2, <3>1, <1>1, <1>4
    <3>2. CASE v = current /\ n \in s.visited
      <4>1. n \in DOMAIN s.dist /\ s.dist[n] <= s.dist[current]
        BY <1>0, <1>2, <3>2 DEF SearchInv, Frontier
      <4>2. dist[n] <= s.dist[n] /\ dist[v] = s.dist[current]
        BY <3>2, <4>1, <1>2, <1>6
      <4> QED
        BY <4>1, <4>2, <1>1, <1>2, <1>4
    <3>3. CASE v = current /\ n = current
      BY <3>3, <1>2, <1>4
    <3>4. CASE v = current /\ n \notin s.visited \cup {current}
      <4>1. n \in better \/ (n \in DOMAIN s.dist /\ s.dist[n] <= step)
        BY <1>3, <3>4, <2>4
      <4>2. dist[v] = s.dist[current] /\ step = dist[v] + 1
        BY <3>4, <1>2, <1>6 DEF step
      <4>3. CASE n \in better
        BY <4>2, <4>3, <1>2, <1>4
      <4>4. CASE n \in DOMAIN s.dist /\ s.dist[n] <= step
        BY <4>2, <4>4, <1>1, <1>2, <1>4, <1>6
      <4> QED
        BY <4>1, <4>3, <4>4
    <3> QED
      BY <3>1, <3>2, <3>3, <3>4
  <2> QED
    BY <2>1, <2>2, <2>3, <2>4, <1>5 DEF Frontier
<1>8. Backwards(t)
  <2> SUFFICES ASSUME NEW n \in DOMAIN prev
               PROVE  /\ n \in DOMAIN dist /\ prev[n] \in s.visited \cup {current}
                      /\ n \in Graph!Neighbours(adjacency, prev[n])
                      /\ dist[n] = dist[prev[n]] + 1
    BY <1>5 DEF Backwards
  <2>1. CASE n \in better
    BY <2>1, <1>2, <1>3, <1>4, <1>6 DEF step
  <2>2. CASE n \notin better
    <3>1. n \in DOMAIN s.prev /\ prev[n] = s.prev[n] /\ n \in DOMAIN s.dist /\ dist[n] = s.dist[n]
      BY <2>2, <1>0, <1>4 DEF SearchInv, Backwards
    <3>2. s.prev[n] \in s.visited /\ n \in Graph!Neighbours(adjacency, s.prev[n])
          /\ s.dist[n] = s.dist[s.prev[n]] + 1
      BY <3>1, <1>0 DEF SearchInv, Backwards
    <3>3. dist[s.prev[n]] = s.dist[s.prev[n]]
      BY <3>2, <1>1, <1>6
    <3> QED
      BY <3>1, <3>2, <3>3, <1>4
  <2> QED
    BY <2>1, <2>2
<1>9. Walked(t)
  <2> SUFFICES ASSUME NEW n \in DOMAIN dist PROVE Graph!Walks(s.src, n, dist[n]) # {}
    BY <1>5 DEF Walked
  <2>1. CASE n \in better
    <3>1. Graph!Walks(s.src, current, s.dist[current]) # {}
      BY <1>0, <1>2 DEF SearchInv, Walked
    <3>2. Graph!Walks(s.src, n, s.dist[current] + 1) # {}
      BY <3>1, <2>1, <1>2, <1>3, WalkOn
    <3> QED
      BY <3>2, <2>1, <1>4 DEF step
  <2>2. CASE n \notin better
    BY <2>2, <1>0, <1>4 DEF SearchInv, Walked
  <2> QED
    BY <2>1, <2>2
<1>10. SearchInv(t)
  BY <1>0, <1>5, <1>7, <1>8, <1>9 DEF SearchInv
<1> QED
  BY <1>0, <1>10, GraphSearch, Zenon

\* Every step keeps lists and searches right.
LEMMA GraphNext == GraphInv /\ [Graph!Next]_topology_vars => GraphInv'
<1> SUFFICES ASSUME GraphInv, [Graph!Next]_topology_vars PROVE GraphInv'
  OBVIOUS
<1>1. CASE UNCHANGED topology_vars
  <2>1. Graph!TypeOK' /\ Graph!EdgesBacked'
    BY <1>1, GraphConstants DEF topology_vars, GraphInv, Graph!TypeOK, Graph!Constants, Graph!EdgesBacked
  <2>2. \A s \in search' : SearchInv(s)'
    BY <1>1 DEF topology_vars, GraphInv, SearchInv, Frontier, Backwards, Walked, Graph!Neighbours, Graph!Walks
  <2> QED
    BY <2>1, <2>2 DEF GraphInv
<1>2. CASE \E n \in TopologyNodes : (\E node1 \in Graph!Node : Graph!UpsertNode(n, node1)) \/ Graph!RemoveNode(n)
  BY <1>2, GraphUpdate
<1>3. ASSUME NEW s \in TopologyNodes, NEW t \in TopologyNodes, Graph!AddLink(s, t) \/ Graph!RemoveLink(s, t)
      PROVE  GraphInv'
  BY <1>3, GraphUpdate
<1>4. ASSUME NEW s \in TopologyNodes, NEW t \in TopologyNodes, Graph!ShortestPath(s, t) PROVE GraphInv'
  BY <1>4, SearchStarts
<1>5. ASSUME NEW region \in TopologyRegions, Graph!ElectRelays(region) PROVE GraphInv'
  BY <1>5, GraphElection
<1>6. ASSUME NEW s \in search, Graph!SearchEnds(s) PROVE GraphInv'
  BY <1>6, GraphSearch DEF Graph!SearchEnds
<1>7. ASSUME NEW s \in search, NEW n \in TopologyNodes, Graph!Visit(s, n) PROVE GraphInv'
  BY <1>7, SearchVisits
<1> QED
  BY <1>1, <1>2, <1>3, <1>4, <1>5, <1>6, <1>7 DEF Graph!Next

\* Along a walk the search knows every node, unless it has not come so far.
LEMMA WalkKnown ==
  ASSUME NEW s, SearchInv(s), NEW k \in Nat, NEW dst, NEW w \in Graph!Walks(s.src, dst, k)
  PROVE  \/ dst \in DOMAIN s.dist /\ s.dist[dst] <= k
         \/ \E u \in Graph!Unvisited(s) : s.dist[u] < k
<1> DEFINE Known(i) == \/ w[i] \in DOMAIN s.dist /\ s.dist[w[i]] <= i
                       \/ \E u \in Graph!Unvisited(s) : s.dist[u] < i
           G == {i \in Nat : i <= k => Known(i)}
<1>0. /\ w[0] = s.src /\ w[k] = dst
      /\ \A i \in 1 .. k : w[i] \in Graph!Neighbours(adjacency, w[i - 1])
      /\ s.dist \in [DOMAIN s.dist -> Nat] /\ s.visited \subseteq DOMAIN s.dist
  BY DEF Graph!Walks, SearchInv, Search, Frontier
<1>1. 0 \in G
  BY <1>0 DEF SearchInv, Frontier
<1>2. ASSUME NEW i \in Nat, i \in G PROVE i + 1 \in G
  <2> SUFFICES ASSUME i + 1 <= k PROVE Known(i + 1)
    OBVIOUS
  <2>1. Known(i) /\ i + 1 \in 1 .. k
    BY <1>2
  <2>2. w[i + 1] \in Graph!Neighbours(adjacency, w[i])
    BY <2>1, <1>0
  <2>3. CASE \E u \in Graph!Unvisited(s) : s.dist[u] < i
    BY <2>3, <1>0 DEF Graph!Unvisited
  <2>4. CASE w[i] \in DOMAIN s.dist /\ s.dist[w[i]] <= i /\ w[i] \in s.visited
    <3>1. w[i + 1] \in DOMAIN s.dist /\ s.dist[w[i + 1]] <= s.dist[w[i]] + 1
      BY <2>2, <2>4 DEF SearchInv, Frontier
    <3> QED
      BY <3>1, <2>4, <1>0
  <2>5. CASE w[i] \in DOMAIN s.dist /\ s.dist[w[i]] <= i /\ w[i] \notin s.visited
    BY <2>5, <1>0 DEF Graph!Unvisited
  <2> QED
    BY <2>1, <2>3, <2>4, <2>5
<1> HIDE DEF G
<1>3. \A i \in Nat : i \in G
  BY <1>1, <1>2, SetInduction
<1>4. k \in G
  BY <1>3
<1> QED
  BY <1>0, <1>4 DEF G

\* What is not visited and known has a nearest node.
LEMMA NearestExists ==
  ASSUME NEW s, SearchInv(s), Graph!NoPath(s)
  PROVE  Graph!Unvisited(s) = {}
<1> SUFFICES ASSUME Graph!Unvisited(s) # {} PROVE FALSE
  OBVIOUS
<1>1. s.dist \in [DOMAIN s.dist -> Nat]
  BY DEF SearchInv, Search
<1> DEFINE T == {s.dist[n] : n \in Graph!Unvisited(s)}
<1>2. T \subseteq Nat /\ T # {}
  BY <1>1 DEF Graph!Unvisited
<1>3. PICK d \in T : \A e \in T : d <= e
  BY <1>2, LeastNat
<1> QED
  BY <1>3 DEF Graph!NoPath, Graph!Nearest

\* The answer of a search is right.
LEMMA SearchRight == GraphInv => Graph!PathLeast
<1> SUFFICES ASSUME GraphInv, NEW s \in search
             PROVE  /\ Graph!Found(s) =>
                        LET d == s.dist[s.dst] IN
                        /\ Graph!Walks(s.src, s.dst, d) # {}
                        /\ \A k \in 0 .. d - 1 : Graph!Walks(s.src, s.dst, k) = {}
                        /\ \A n \in DOMAIN s.prev : s.prev[n] \in DOMAIN adjacency /\ n \in adjacency[s.prev[n]]
                                                    /\ s.dist[n] = s.dist[s.prev[n]] + 1
                    /\ Graph!NoPath(s) =>
                        \A k \in 0 .. Graph!Cardinality(TopologyNodes) : Graph!Walks(s.src, s.dst, k) = {}
  BY DEF Graph!PathLeast
<1>1. SearchInv(s) /\ s.dist \in [DOMAIN s.dist -> Nat]
  BY DEF GraphInv, SearchInv, Search
<1>2. ASSUME Graph!Found(s)
      PROVE  LET d == s.dist[s.dst] IN
             /\ Graph!Walks(s.src, s.dst, d) # {}
             /\ \A k \in 0 .. d - 1 : Graph!Walks(s.src, s.dst, k) = {}
             /\ \A n \in DOMAIN s.prev : s.prev[n] \in DOMAIN adjacency /\ n \in adjacency[s.prev[n]]
                                         /\ s.dist[n] = s.dist[s.prev[n]] + 1
  <2>1. s.dst \in DOMAIN s.dist /\ \A n \in Graph!Unvisited(s) : s.dist[s.dst] <= s.dist[n]
    BY <1>2 DEF Graph!Found, Graph!Nearest, Graph!Unvisited
  <2>2. Graph!Walks(s.src, s.dst, s.dist[s.dst]) # {}
    BY <1>1, <2>1 DEF SearchInv, Walked
  <2>3. ASSUME NEW k \in 0 .. s.dist[s.dst] - 1, Graph!Walks(s.src, s.dst, k) # {} PROVE FALSE
    <3>1. k \in Nat /\ k < s.dist[s.dst] /\ s.dist[s.dst] \in Nat
      BY <1>1, <2>1
    <3>2. \/ s.dist[s.dst] <= k
          \/ \E u \in Graph!Unvisited(s) : s.dist[u] < k
      BY <1>1, <2>3, <3>1, WalkKnown
    <3>3. \A u \in Graph!Unvisited(s) : s.dist[u] \in Nat
      BY <1>1 DEF Graph!Unvisited
    <3> QED
      BY <2>1, <3>1, <3>2, <3>3
  <2>4. \A n \in DOMAIN s.prev : s.prev[n] \in DOMAIN adjacency /\ n \in adjacency[s.prev[n]]
                                 /\ s.dist[n] = s.dist[s.prev[n]] + 1
    BY <1>1 DEF SearchInv, Backwards, Graph!Neighbours
  <2> QED
    BY <2>2, <2>3, <2>4
<1>3. ASSUME Graph!NoPath(s), NEW k \in 0 .. Graph!Cardinality(TopologyNodes),
             Graph!Walks(s.src, s.dst, k) # {}
      PROVE  FALSE
  <2>1. Graph!Unvisited(s) = {}
    BY <1>1, <1>3, NearestExists
  <2>2. k \in Nat
    OBVIOUS
  <2>3. s.dst \in DOMAIN s.dist
    BY <1>1, <1>3, <2>1, <2>2, WalkKnown
  <2> QED
    BY <1>1, <2>1, <2>3 DEF SearchInv, Graph!Unvisited
<1> QED
  BY <1>2, <1>3

-----------------------------------------------------------------------------
LEMMA GreatestValue ==
  ASSUME NEW n \in Nat, NEW f \in [1 .. n -> Nat], NEW M, M \subseteq 1 .. n, M # {}
  PROVE  \E t \in M : \A j \in M : f[j] <= f[t]
<1> DEFINE G == {k \in Nat : k <= n => \E b \in Nat : \A i \in 1 .. k : f[i] <= b}
<1>1. 0 \in G
  <2>1. \A i \in 1 .. 0 : f[i] <= 0
    OBVIOUS
  <2> QED
    BY <2>1
<1>2. ASSUME NEW k \in Nat, k \in G PROVE k + 1 \in G
  <2> SUFFICES ASSUME k + 1 <= n PROVE \E b \in Nat : \A i \in 1 .. k + 1 : f[i] <= b
    OBVIOUS
  <2>1. PICK b \in Nat : \A i \in 1 .. k : f[i] <= b
    BY <1>2
  <2>2. f[k + 1] \in Nat /\ b + f[k + 1] \in Nat
    OBVIOUS
  <2>3. \A i \in 1 .. k + 1 : i \in 1 .. k \/ i = k + 1
    OBVIOUS
  <2>4. \A i \in 1 .. k + 1 : f[i] <= b + f[k + 1]
    BY <2>1, <2>2, <2>3
  <2> QED
    BY <2>2, <2>4
<1> HIDE DEF G
<1>3. n \in G
  BY <1>1, <1>2, SetInduction
<1>4. PICK b \in Nat : \A i \in 1 .. n : f[i] <= b
  BY <1>3 DEF G
<1> DEFINE T == {b - f[i] : i \in M}
<1>a. \A i \in M : f[i] \in Nat /\ f[i] <= b /\ b - f[i] \in Nat
  <2> TAKE i \in M
  <2>1. f[i] \in Nat /\ f[i] <= b
    BY <1>4
  <2> QED
    BY <2>1
<1>5. T \subseteq Nat /\ T # {}
  BY <1>a
<1>6. PICK d \in T : \A e \in T : d <= e
  BY <1>5, LeastNat
<1>7. PICK t \in M : d = b - f[t]
  BY <1>6
<1>8. \A j \in M : b - f[t] <= b - f[j]
  BY <1>6, <1>7
<1>9. ASSUME NEW j \in M PROVE f[j] <= f[t]
  <2>1. f[j] \in Nat /\ f[t] \in Nat /\ b - f[t] <= b - f[j]
    BY <1>a, <1>8
  <2> QED
    BY <2>1
<1> QED
  BY <1>9

-----------------------------------------------------------------------------
(* Access rules.  Of the rules that match a flow one comes before all the  *)
(* others; a rule that is added comes first exactly if its priority is     *)
(* higher than that of the rule that did.                                  *)
LEMMA RulesConstants ==
  /\ Rules!Constants /\ MaxRules \in Nat
  /\ \A r \in LoadedRules : r.priority \in Nat /\ r.action \in {"allow", "deny"}
  BY DataPlaneAssumption DEF Rules!Constants

LEMMA RulesInit == Rules!Init => Rules!TypeOK
<1> SUFFICES ASSUME Rules!Init PROVE Rules!TypeOK
  OBVIOUS
<1>1. Rules!NoGroups \in [GroupNames -> SUBSET Devices] /\ <<>> \in Seq(LoadedRules) /\ Len(<<>>) = 0
  BY DEF Rules!NoGroups
<1> QED
  BY <1>1, RulesConstants DEF Rules!Init, Rules!TypeOK, Rules!Policy

LEMMA RulesNext == Rules!TypeOK /\ [Rules!Next]_policy => Rules!TypeOK'
<1> SUFFICES ASSUME Rules!TypeOK, [Rules!Next]_policy PROVE Rules!TypeOK'
  OBVIOUS
<1>0. policy \in Rules!Policy /\ Len(policy.rules) <= MaxRules /\ policy.rules \in Seq(LoadedRules)
      /\ policy.groups \in [GroupNames -> SUBSET Devices] /\ Rules!Constants'
  BY RulesConstants DEF Rules!TypeOK, Rules!Policy, Rules!Constants
<1>1. ASSUME NEW mode \in {"default-allow", "default-deny"}, NEW bypass \in SUBSET Devices,
             Rules!LoadPolicy(mode, bypass)
      PROVE  Rules!TypeOK'
  <2>1. Rules!NoGroups \in [GroupNames -> SUBSET Devices] /\ <<>> \in Seq(LoadedRules) /\ Len(<<>>) = 0
    BY DEF Rules!NoGroups
  <2> QED
    BY <1>0, <1>1, <2>1, RulesConstants DEF Rules!LoadPolicy, Rules!TypeOK, Rules!Policy
<1>2. ASSUME NEW d \in Devices, Rules!IsolateDevice(d) \/ Rules!UnisolateDevice(d) PROVE Rules!TypeOK'
  BY <1>0, <1>2 DEF Rules!IsolateDevice, Rules!UnisolateDevice, Rules!TypeOK, Rules!Policy
<1>3. ASSUME NEW d \in Devices, NEW g \in GroupNames,
             Rules!AddDeviceToGroup(g, d) \/ Rules!RemoveDeviceFromGroup(g, d)
      PROVE  Rules!TypeOK'
  <2>1. /\ [policy.groups EXCEPT ![g] = @ \cup {d}] \in [GroupNames -> SUBSET Devices]
        /\ [policy.groups EXCEPT ![g] = @ \ {d}] \in [GroupNames -> SUBSET Devices]
    BY <1>0
  <2>2. \/ policy' = [policy EXCEPT !.groups = [policy.groups EXCEPT ![g] = @ \cup {d}]]
        \/ policy' = [policy EXCEPT !.groups = [policy.groups EXCEPT ![g] = @ \ {d}]]
    BY <1>3, <1>0 DEF Rules!AddDeviceToGroup, Rules!RemoveDeviceFromGroup, Rules!Policy
  <2> QED
    BY <1>0, <2>1, <2>2 DEF Rules!TypeOK, Rules!Policy
<1>4. ASSUME NEW rule \in LoadedRules, Rules!AddRule(rule) PROVE Rules!TypeOK'
  <2>1. /\ Append(policy.rules, rule) \in Seq(LoadedRules)
        /\ Len(Append(policy.rules, rule)) = Len(policy.rules) + 1 /\ Len(policy.rules) \in Nat
    BY <1>0
  <2>2. Len(Append(policy.rules, rule)) <= MaxRules
    BY <1>4, <2>1, RulesConstants DEF Rules!AddRule
  <2>3. policy' = [policy EXCEPT !.rules = Append(policy.rules, rule)]
    BY <1>4 DEF Rules!AddRule
  <2> QED
    BY <1>0, <2>1, <2>2, <2>3 DEF Rules!TypeOK, Rules!Policy
<1>5. CASE UNCHANGED policy
  BY <1>0, <1>5 DEF Rules!TypeOK
<1> QED
  BY <1>1, <1>2, <1>3, <1>4, <1>5 DEF Rules!Next

\* A device that is cut off: its flows are decided before the rules are.
LEMMA RulesIsolate == Rules!IsolationHolds
  BY DEF Rules!IsolationHolds, Rules!Check, Rules!Isolated

\* The rules that match a flow.
Matching(p, a, b, s) == {i \in DOMAIN p.rules : Rules!RuleMatches(p, p.rules[i], a, b, s)}

LEMMA Priorities ==
  ASSUME NEW p \in Rules!Policy
  PROVE  /\ DOMAIN p.rules = 1 .. Len(p.rules) /\ Len(p.rules) \in Nat
         /\ \A i \in DOMAIN p.rules : p.rules[i] \in LoadedRules /\ p.rules[i].priority \in Nat
  BY RulesConstants DEF Rules!Policy

\* One rule comes first, if one matches.
LEMMA FirstOne ==
  ASSUME NEW p \in Rules!Policy, NEW a, NEW b, NEW s, NEW f \in Rules!First(p, a, b, s)
  PROVE  /\ f \in Matching(p, a, b, s) /\ Rules!First(p, a, b, s) = {f}
         /\ \A j \in Matching(p, a, b, s) \ {f} : Rules!Before(p, f, j)
         /\ \A j \in Matching(p, a, b, s) : p.rules[j].priority <= p.rules[f].priority
<1>1. /\ f \in Matching(p, a, b, s) /\ \A j \in Matching(p, a, b, s) \ {f} : Rules!Before(p, f, j)
  BY DEF Rules!First, Matching
<1>2. \A j \in Matching(p, a, b, s) : p.rules[j].priority \in Nat /\ j \in Nat
  BY Priorities DEF Matching
<1>3. \A j \in Matching(p, a, b, s) : p.rules[j].priority <= p.rules[f].priority
  BY <1>1, <1>2 DEF Rules!Before
<1>4. ASSUME NEW g \in Rules!First(p, a, b, s), g # f PROVE FALSE
  <2>1. Rules!Before(p, g, f) /\ g \in Matching(p, a, b, s)
    BY <1>1, <1>4 DEF Rules!First, Matching
  <2>2. Rules!Before(p, f, g)
    BY <1>1, <1>4, <2>1
  <2> QED
    BY <1>1, <1>2, <2>1, <2>2 DEF Rules!Before
<1> QED
  BY <1>1, <1>3, <1>4

LEMMA FirstExists ==
  ASSUME NEW p \in Rules!Policy, NEW a, NEW b, NEW s, Matching(p, a, b, s) # {}
  PROVE  Rules!First(p, a, b, s) # {}
<1> DEFINE M == Matching(p, a, b, s)
           f == [i \in 1 .. Len(p.rules) |-> p.rules[i].priority]
<1>1. /\ Len(p.rules) \in Nat /\ f \in [1 .. Len(p.rules) -> Nat] /\ M \subseteq 1 .. Len(p.rules)
      /\ \A i \in M : f[i] = p.rules[i].priority /\ i \in Nat /\ f[i] \in Nat
  BY Priorities DEF Matching
<1>2. PICK t \in M : \A j \in M : f[j] <= f[t]
  BY <1>1, GreatestValue
<1> DEFINE T == {i \in M : f[i] = f[t]}
<1>3. T \subseteq Nat /\ T # {}
  BY <1>1, <1>2
<1>4. PICK i \in T : \A j \in T : i <= j
  BY <1>3, LeastNat
<1>5. ASSUME NEW j \in M \ {i} PROVE Rules!Before(p, i, j)
  <2>1. f[j] <= f[i] /\ f[i] = f[t]
    BY <1>2, <1>4
  <2>2. CASE f[j] = f[i]
    <3>1. i <= j /\ i # j /\ i \in Nat /\ j \in Nat
      BY <1>1, <1>4, <2>1, <2>2
    <3> QED
      BY <1>1, <1>4, <2>2, <3>1 DEF Rules!Before
  <2>3. CASE f[j] # f[i]
    <3>1. f[i] > f[j]
      BY <1>1, <1>4, <2>1, <2>3
    <3> QED
      BY <1>1, <1>4, <3>1 DEF Rules!Before
  <2> QED
    BY <2>2, <2>3
<1>6. i \in M
  BY <1>4
<1> HIDE DEF f, T
<1> QED
  BY <1>5, <1>6 DEF Rules!First, Matching

\* What a rule does that is added at the end.
LEMMA RuleAdded ==
  ASSUME NEW p \in Rules!Policy, NEW rule \in LoadedRules, NEW q \in Rules!Policy,
         q = [p EXCEPT !.rules = Append(p.rules, rule)], NEW a, NEW b, NEW s
  PROVE  /\ rule.action = "allow" /\ Rules!Check(p, a, b, s) => Rules!Check(q, a, b, s)
         /\ rule.action = "deny" /\ Rules!Check(q, a, b, s) => Rules!Check(p, a, b, s)
         /\ Rules!Check(p, a, b, s) # Rules!Check(q, a, b, s) =>
                \A i \in Rules!First(p, a, b, s) : p.rules[i].priority < rule.priority
<1> DEFINE n == Len(p.rules) + 1
           M == Matching(p, a, b, s)
           N == Matching(q, a, b, s)
<1>1. /\ p.rules \in Seq(LoadedRules) /\ DOMAIN p.rules = 1 .. Len(p.rules) /\ Len(p.rules) \in Nat
      /\ q.rules = Append(p.rules, rule) /\ q.groups = p.groups /\ q.mode = p.mode
      /\ q.isolated_devices = p.isolated_devices /\ q.bypass_devices = p.bypass_devices
  BY DEF Rules!Policy
<1>2. /\ DOMAIN q.rules = DOMAIN p.rules \cup {n} /\ n \notin DOMAIN p.rules /\ q.rules[n] = rule
      /\ \A i \in DOMAIN p.rules : q.rules[i] = p.rules[i] /\ i \in Nat /\ i < n
  BY <1>1
<1>3. /\ \A i \in M : i \in DOMAIN p.rules /\ q.rules[i] = p.rules[i] /\ p.rules[i].priority \in Nat
                      /\ i \in Nat /\ i < n /\ i # n
      /\ rule.priority \in Nat /\ rule.action \in {"allow", "deny"} /\ n \in Nat
  BY <1>1, <1>2, Priorities, RulesConstants DEF Matching
<1>4. ASSUME NEW r PROVE Rules!RuleMatches(q, r, a, b, s) <=> Rules!RuleMatches(p, r, a, b, s)
  BY <1>1 DEF Rules!RuleMatches, Rules!DeviceInGroup
<1>5. N = IF Rules!RuleMatches(p, rule, a, b, s) THEN M \cup {n} ELSE M
  BY <1>2, <1>4 DEF Matching
<1>6. Rules!Isolated(q, a, b) <=> Rules!Isolated(p, a, b)
  BY <1>1 DEF Rules!Isolated
<1>7. \A i \in M, j \in M : Rules!Before(q, i, j) <=> Rules!Before(p, i, j)
  BY <1>3 DEF Rules!Before
<1>8. \A i \in M : /\ Rules!Before(q, i, n) <=> p.rules[i].priority >= rule.priority
                   /\ Rules!Before(q, n, i) <=> rule.priority > p.rules[i].priority
  BY <1>2, <1>3 DEF Rules!Before
<1> DEFINE F == Rules!First(p, a, b, s)
           H == Rules!First(q, a, b, s)
           Allows(g, r, m) == IF g = {} THEN m = "default-allow" ELSE \E i \in g : r[i].action = "allow"
<1>9. /\ F = {i \in M : \A j \in M \ {i} : Rules!Before(p, i, j)}
      /\ H = {i \in N : \A j \in N \ {i} : Rules!Before(q, i, j)}
  BY DEF Rules!First, Matching
<1>10. /\ Rules!Check(p, a, b, s) <=> \/ {a, b} \cap p.bypass_devices # {}
                                      \/ ~Rules!Isolated(p, a, b) /\ Allows(F, p.rules, p.mode)
       /\ Rules!Check(q, a, b, s) <=> \/ {a, b} \cap p.bypass_devices # {}
                                      \/ ~Rules!Isolated(p, a, b) /\ Allows(H, q.rules, p.mode)
  BY <1>1, <1>6 DEF Rules!Check
<1>f. \A f \in F : /\ f \in M /\ F = {f} /\ \A j \in M \ {f} : Rules!Before(p, f, j)
                   /\ \A j \in M : p.rules[j].priority <= p.rules[f].priority
  BY FirstOne
<1>h. \A f \in H : H = {f}
  BY FirstOne
<1>e. M # {} => F # {}
  BY FirstExists
<1> HIDE DEF F, H, M, N, n
\* The rule that decided still does, or the new one does by its priority.
<1>11. \/ H = F /\ F \subseteq M
       \/ H = {n} /\ \A i \in F : p.rules[i].priority < rule.priority
  <2>1. CASE ~Rules!RuleMatches(p, rule, a, b, s)
    <3>1. N = M
      BY <1>5, <2>1
    <3>2. H = F
      BY <1>7, <1>9, <3>1
    <3> QED
      BY <3>2, <1>9
  <2>2. CASE Rules!RuleMatches(p, rule, a, b, s)
    <3>0. N = M \cup {n} /\ n \notin M
      BY <1>3, <1>5, <2>2
    <3>1. CASE M = {}
      <4>1. N = {n} /\ F = {}
        BY <1>9, <3>0, <3>1
      <4>2. n \in H
        BY <1>9, <4>1
      <4> QED
        BY <1>h, <4>1, <4>2
    <3>2. CASE M # {}
      <4>1. PICK f \in F : TRUE
        BY <1>e, <3>2
      <4>2. f \in M /\ F = {f} /\ \A j \in M \ {f} : Rules!Before(q, f, j)
        BY <1>7, <1>f, <4>1
      <4>3. CASE p.rules[f].priority >= rule.priority
        <5>1. \A j \in N \ {f} : Rules!Before(q, f, j)
          BY <1>8, <3>0, <4>2, <4>3
        <5>2. f \in H
          BY <1>9, <3>0, <4>2, <5>1
        <5> QED
          BY <1>h, <4>2, <5>2
      <4>4. CASE ~(p.rules[f].priority >= rule.priority)
        <5>1. \A j \in M : rule.priority > p.rules[j].priority
          <6> TAKE j \in M
          <6>1. p.rules[j].priority <= p.rules[f].priority
            BY <1>f, <4>1
          <6> QED
            BY <1>3, <4>2, <4>4, <6>1
        <5>2. \A j \in N \ {n} : Rules!Before(q, n, j)
          BY <1>8, <3>0, <5>1
        <5>3. n \in H
          BY <1>9, <3>0, <5>2
        <5> QED
          BY <1>h, <1>3, <4>2, <5>1, <5>3
      <4> QED
        BY <4>3, <4>4
    <3> QED
      BY <3>1, <3>2
  <2> QED
    BY <2>1, <2>2
<1> DEFINE P == Rules!Check(p, a, b, s)
           Q == Rules!Check(q, a, b, s)
           Bypassed == {a, b} \cap p.bypass_devices # {}
           Cut == Rules!Isolated(p, a, b)
           Old == Allows(F, p.rules, p.mode)
           New == Allows(H, q.rules, p.mode)
           Higher == \A i \in F : p.rules[i].priority < rule.priority
           IsAllow == rule.action = "allow"
           IsDeny == rule.action = "deny"
<1>12. (P <=> Bypassed \/ (~Cut /\ Old)) /\ (Q <=> Bypassed \/ (~Cut /\ New))
  BY <1>10
<1>13. (Old <=> New) \/ (Higher /\ (New <=> IsAllow))
  <2>1. CASE H = F /\ F \subseteq M
    BY <1>3, <2>1
  <2>2. CASE H = {n} /\ Higher
    BY <1>2, <2>2 DEF n
  <2> QED
    BY <1>11, <2>1, <2>2
<1>14. ~(IsAllow /\ IsDeny) /\ P \in BOOLEAN /\ Q \in BOOLEAN
  BY DEF Rules!Check
<1> HIDE DEF P, Q, Bypassed, Cut, Old, New, Higher, IsAllow, IsDeny
<1>15. /\ IsAllow /\ P => Q
       /\ IsDeny /\ Q => P
       /\ P # Q => Higher
  BY <1>12, <1>13, <1>14
<1> QED
  BY <1>15 DEF P, Q, Higher, IsAllow, IsDeny, F

\* Every step that adds a rule acts in the rule's own direction.
LEMMA RulesStep ==
  ASSUME Rules!TypeOK, [Rules!Next]_policy, Len(policy'.rules) > Len(policy.rules)
  PROVE  \E rule \in LoadedRules : /\ policy' = [policy EXCEPT !.rules = Append(policy.rules, rule)]
                                   /\ policy'.rules[Len(policy'.rules)] = rule
<1>0. policy \in Rules!Policy /\ policy.rules \in Seq(LoadedRules) /\ Len(policy.rules) \in Nat
  BY DEF Rules!TypeOK, Rules!Policy
<1>1. ASSUME NEW mode, NEW bypass, Rules!LoadPolicy(mode, bypass) PROVE FALSE
  <2>1. Len(policy'.rules) = 0
    BY <1>1 DEF Rules!LoadPolicy
  <2> QED
    BY <1>0, <2>1
<1>2. ASSUME policy'.rules = policy.rules PROVE FALSE
  BY <1>0, <1>2
<1>3. ASSUME NEW d \in Devices, Rules!IsolateDevice(d) \/ Rules!UnisolateDevice(d) PROVE FALSE
  BY <1>0, <1>2, <1>3 DEF Rules!IsolateDevice, Rules!UnisolateDevice, Rules!Policy
<1>4. ASSUME NEW d \in Devices, NEW g \in GroupNames,
             Rules!AddDeviceToGroup(g, d) \/ Rules!RemoveDeviceFromGroup(g, d)
      PROVE  FALSE
  BY <1>0, <1>2, <1>4 DEF Rules!AddDeviceToGroup, Rules!RemoveDeviceFromGroup, Rules!Policy
<1>5. ASSUME NEW rule \in LoadedRules, Rules!AddRule(rule)
      PROVE  /\ policy' = [policy EXCEPT !.rules = Append(policy.rules, rule)]
             /\ policy'.rules[Len(policy'.rules)] = rule
  <2>1. policy' = [policy EXCEPT !.rules = Append(policy.rules, rule)]
    BY <1>5 DEF Rules!AddRule
  <2>2. policy'.rules = Append(policy.rules, rule)
    BY <1>0, <2>1 DEF Rules!Policy
  <2> QED
    BY <1>0, <2>1, <2>2
<1> QED
  BY <1>1, <1>2, <1>3, <1>4, <1>5 DEF Rules!Next

-----------------------------------------------------------------------------
(* The route table.                                                        *)
LEMMA RouterConstants ==
  /\ Router!Constants /\ Metrics \subseteq Nat
  /\ \A r \in Router!Route : r.metric \in Nat
  BY DataPlaneAssumption DEF Router!Constants, Router!Route

LEMMA SameInRouter ==
  ASSUME NEW list, NEW S, NEW key
  PROVE  Router!Keep(list, S) = Keep(list, S) /\ Router!Sorted(list, key) = Sorted(list, key)
<1>1. ASSUME NEW s PROVE Router!Cardinality(s) = Cardinality(s)
  BY DEF Router!Cardinality, Cardinality
<1>2. ASSUME NEW I, NEW R, NEW k PROVE Router!Ranked(I, R, k) = Ranked(I, R, k)
  BY <1>1 DEF Router!Ranked, Ranked
<1> QED
  BY <1>1, <1>2 DEF Router!Keep, Router!Sorted, Router!KeptIndices, Router!Ascending, Router!KeyOrder,
     Keep, Sorted, KeptIndices, Ascending, KeyOrder

ByCost(list) == \A i, j \in DOMAIN list : i < j => list[i].metric <= list[j].metric

\* Of routes that are kept, none is new.
LEMMA RoutesKept ==
  ASSUME NEW list \in Seq(Router!Route), NEW S
  PROVE  /\ Router!Keep(list, S) \in Seq(Router!Route)
         /\ \A i \in DOMAIN Router!Keep(list, S) : Router!Keep(list, S)[i] \in S
         /\ Router!OnePerPeer(list) => Router!OnePerPeer(Router!Keep(list, S))
         /\ ByCost(list) => ByCost(Router!Keep(list, S))
<1> DEFINE kept == Keep(list, S)
<1>1. /\ kept \in Seq(Router!Route) /\ \A i \in DOMAIN kept : kept[i] \in S
      /\ \E at \in [DOMAIN kept -> DOMAIN list] :
            /\ \A k \in DOMAIN kept : kept[k] = list[at[k]]
            /\ \A k, m \in DOMAIN kept : k < m => at[k] < at[m]
  BY Kept
<1>2. Router!Keep(list, S) = kept
  BY SameInRouter
<1>3. \A k \in DOMAIN kept : k \in Nat
  BY <1>1
<1>4. \A k \in DOMAIN list : k \in Nat
  OBVIOUS
<1> HIDE DEF kept
<1>5. PICK at \in [DOMAIN kept -> DOMAIN list] :
            /\ \A k \in DOMAIN kept : kept[k] = list[at[k]]
            /\ \A k, m \in DOMAIN kept : k < m => at[k] < at[m]
  BY <1>1
<1>6. ASSUME Router!OnePerPeer(list) PROVE Router!OnePerPeer(kept)
  <2> SUFFICES ASSUME NEW i \in DOMAIN kept, NEW j \in DOMAIN kept, kept[i].peer_id = kept[j].peer_id
               PROVE  i = j
    BY DEF Router!OnePerPeer
  <2>1. at[i] = at[j] /\ at[i] \in Nat /\ i \in Nat /\ j \in Nat
    BY <1>3, <1>4, <1>5, <1>6 DEF Router!OnePerPeer
  <2>2. (i < j => at[i] < at[j]) /\ (j < i => at[j] < at[i])
    BY <1>5
  <2> QED
    BY <2>1, <2>2
<1>7. ASSUME ByCost(list) PROVE ByCost(kept)
  BY <1>5, <1>7 DEF ByCost
<1> QED
  BY <1>1, <1>2, <1>6, <1>7

LEMMA RoutesSorted ==
  ASSUME NEW list \in Seq(Router!Route)
  PROVE  /\ Router!ByMetric(list) \in Seq(Router!Route) /\ Len(Router!ByMetric(list)) = Len(list)
         /\ ByCost(Router!ByMetric(list))
         /\ Router!OnePerPeer(list) => Router!OnePerPeer(Router!ByMetric(list))
<1> DEFINE key == [i \in DOMAIN list |-> list[i].metric]
           new == Sorted(list, key)
<1>1. key \in [DOMAIN list -> Nat]
  BY RouterConstants
<1>2. /\ new \in Seq(Router!Route) /\ Len(new) = Len(list)
      /\ \E at \in [DOMAIN list -> DOMAIN list] :
            /\ \A k \in DOMAIN list : new[k] = list[at[k]]
            /\ \A k, m \in DOMAIN list : k < m => at[k] # at[m] /\ key[at[k]] <= key[at[m]]
  <2> HIDE DEF key
  <2> QED
    BY <1>1, SortedByKey
<1>3. Router!ByMetric(list) = new
  BY SameInRouter DEF Router!ByMetric
<1>4. DOMAIN new = DOMAIN list /\ \A k \in DOMAIN list : k \in Nat
  <2> HIDE DEF new
  <2> QED
    BY <1>2
<1> HIDE DEF new
<1>5. PICK at \in [DOMAIN list -> DOMAIN list] :
            /\ \A k \in DOMAIN list : new[k] = list[at[k]]
            /\ \A k, m \in DOMAIN list : k < m => at[k] # at[m] /\ key[at[k]] <= key[at[m]]
  BY <1>2
<1>6. ByCost(new)
  BY <1>4, <1>5 DEF ByCost
<1>7. ASSUME Router!OnePerPeer(list) PROVE Router!OnePerPeer(new)
  <2> SUFFICES ASSUME NEW i \in DOMAIN list, NEW j \in DOMAIN list, new[i].peer_id = new[j].peer_id
               PROVE  i = j
    BY <1>4 DEF Router!OnePerPeer
  <2>1. at[i] = at[j] /\ i \in Nat /\ j \in Nat
    BY <1>4, <1>5, <1>7 DEF Router!OnePerPeer
  <2>2. (i < j => at[i] # at[j]) /\ (j < i => at[j] # at[i])
    BY <1>5
  <2> QED
    BY <2>1, <2>2
<1> QED
  BY <1>2, <1>3, <1>6, <1>7

\* A list of routes of one CIDR, and a group of equal cost.
Ordered(list) == list \in Seq(Router!Route) /\ Router!OnePerPeer(list) /\ ByCost(list)
Group(g) ==
  /\ g.routes \in Seq(Router!Route) /\ g.next_idx \in Nat /\ Len(g.routes) > 1
  /\ Router!OnePerPeer(g.routes) /\ g.next_idx < Len(g.routes)
  /\ \A i \in DOMAIN g.routes : g.routes[i].metric = g.routes[1].metric /\ g.routes[i].active
Exact(g, list) == Router!Elements(g.routes) = Router!Elements(Router!LeastActive(list))

RouterInv ==
  /\ DOMAIN routes \subseteq Router!Cidrs /\ \A c \in DOMAIN routes : Ordered(routes[c]) /\ routes[c] # <<>>
  /\ DOMAIN ecmp \subseteq Router!Cidrs /\ \A c \in DOMAIN ecmp : Group(ecmp[c])
  /\ \A c \in DOMAIN ecmp : c \notin outdated => Exact(ecmp[c], Router!Entry(c))
  /\ lookups \in [DOMAIN lookups -> Router!Cidrs] /\ outdated \subseteq Router!Cidrs

LEMMA RouterRight == RouterInv => Router!TypeOK /\ Router!LeastCost /\ Router!GroupsExact
  BY RouterConstants
     DEF RouterInv, Router!TypeOK, Router!LeastCost, Router!GroupsExact, Ordered, Group, Exact, ByCost

LEMMA RouterInit == Router!Init => RouterInv
  BY DEF Router!Init, RouterInv

LEMMA OrderedEntry ==
  ASSUME RouterInv, NEW c PROVE Ordered(Router!Entry(c))
<1>1. Ordered(<<>>)
  BY DEF Ordered, Router!OnePerPeer, ByCost
<1> QED
  BY <1>1 DEF RouterInv, Router!Entry

\* The routes of a CIDR with one more, or with the peer's left out.
LEMMA EntryWithout ==
  ASSUME NEW list, Ordered(list), NEW peer
  PROVE  /\ Ordered(Router!Others(list, peer))
         /\ \A i \in DOMAIN Router!Others(list, peer) : Router!Others(list, peer)[i].peer_id # peer
  BY RoutesKept DEF Ordered, Router!Others

LEMMA EntryWith ==
  ASSUME NEW list, Ordered(list), NEW route \in Router!Route
  PROVE  LET new == Router!ByMetric(Append(Router!Others(list, route.peer_id), route)) IN
         Ordered(new) /\ new # <<>>
<1> DEFINE others == Router!Others(list, route.peer_id)
           more == Append(others, route)
           new == Router!ByMetric(more)
<1>1. /\ others \in Seq(Router!Route) /\ Router!OnePerPeer(others)
      /\ \A i \in DOMAIN others : others[i].peer_id # route.peer_id
  BY EntryWithout DEF Ordered
<1> HIDE DEF others
<1>2. /\ more \in Seq(Router!Route) /\ Len(more) = Len(others) + 1 /\ Len(others) \in Nat
      /\ DOMAIN more = DOMAIN others \cup {Len(others) + 1} /\ more[Len(others) + 1] = route
      /\ \A i \in DOMAIN others : more[i] = others[i]
  BY <1>1
<1> HIDE DEF more
<1>3. Router!OnePerPeer(more)
  <2> SUFFICES ASSUME NEW i \in DOMAIN more, NEW j \in DOMAIN more, more[i].peer_id = more[j].peer_id
               PROVE  i = j
    BY DEF Router!OnePerPeer
  <2>1. CASE i \in DOMAIN others /\ j \in DOMAIN others
    BY <1>1, <1>2, <2>1 DEF Router!OnePerPeer
  <2>2. CASE i \notin DOMAIN others \/ j \notin DOMAIN others
    BY <1>1, <1>2, <2>2
  <2> QED
    BY <2>1, <2>2
<1>4. Ordered(new) /\ Len(new) = Len(others) + 1
  BY <1>2, <1>3, RoutesSorted DEF Ordered
<1> HIDE DEF new
<1>5. new # <<>>
  BY <1>2, <1>4
<1> QED
  BY <1>4, <1>5 DEF new, more, others

LEMMA GroupOf ==
  ASSUME NEW list, Ordered(list), NEW g, g = [routes |-> Router!LeastActive(list), next_idx |-> 0],
         Len(Router!LeastActive(list)) > 1
  PROVE  Group(g) /\ Exact(g, list)
<1> DEFINE S == {r \in Router!Route : r.metric = list[1].metric /\ r.active}
           equal == Router!LeastActive(list)
<1>1. equal = Router!Keep(list, S)
  BY DEF Router!LeastActive
<1>2. equal \in Seq(Router!Route) /\ Router!OnePerPeer(equal) /\ \A i \in DOMAIN equal : equal[i] \in S
  BY <1>1, RoutesKept DEF Ordered
<1> HIDE DEF equal
<1>3. 1 \in DOMAIN equal /\ 0 < Len(equal) /\ Len(equal) > 1
  <2>1. Len(equal) > 1 /\ Len(equal) \in Nat /\ DOMAIN equal = 1 .. Len(equal)
    BY <1>2 DEF equal
  <2> QED
    BY <2>1
<1>4. g.routes = equal /\ g.next_idx = 0
  BY DEF equal
<1>5. Group(g)
  BY <1>2, <1>3, <1>4 DEF Group
<1> QED
  BY <1>4, <1>5 DEF Exact, equal

LEMMA RouterNext == RouterInv /\ [Router!Next]_table_vars => RouterInv'
<1> SUFFICES ASSUME RouterInv, [Router!Next]_table_vars PROVE RouterInv'
  OBVIOUS
<1> USE DEF RouterInv
<1>1. ASSUME NEW cidr \in Router!Cidrs, NEW peer \in Peers, NEW metric \in Metrics,
             Router!AddRoute(cidr, [peer_id |-> peer, metric |-> metric, active |-> TRUE])
      PROVE  RouterInv'
  <2> DEFINE route == [peer_id |-> peer, metric |-> metric, active |-> TRUE]
             entry == Router!ByMetric(Append(Router!Others(Router!Entry(cidr), route.peer_id), route))
             equal == Router!LeastActive(entry)
             group == [routes |-> equal, next_idx |-> 0]
  <2>1. route \in Router!Route /\ Ordered(Router!Entry(cidr))
    BY OrderedEntry DEF Router!Route
  <2>2. Ordered(entry) /\ entry # <<>>
    <3> HIDE DEF route
    <3> QED
      BY <2>1, EntryWith
  <2>3. /\ routes' = Router!Put(routes, cidr, entry)
        /\ IF Len(equal) > 1
           THEN ecmp' = Router!Put(ecmp, cidr, group) /\ outdated' = outdated \ {cidr}
           ELSE outdated' = outdated \cup {cidr} /\ UNCHANGED ecmp
        /\ UNCHANGED <<default_route, lookups>>
    BY <1>1 DEF Router!AddRoute
  <2> HIDE DEF route, entry
  <2>4. /\ DOMAIN routes' = DOMAIN routes \cup {cidr} /\ routes'[cidr] = entry
        /\ \A c \in DOMAIN routes : c # cidr => routes'[c] = routes[c]
    BY <2>3 DEF Router!Put
  <2>5. Router!Entry(cidr)' = entry /\ \A c : c # cidr => Router!Entry(c)' = Router!Entry(c)
    BY <2>4 DEF Router!Entry
  <2>6. CASE Len(equal) > 1
    <3>1. Group(group) /\ Exact(group, entry)
      BY <2>2, <2>6, GroupOf
    <3>2. /\ DOMAIN ecmp' = DOMAIN ecmp \cup {cidr} /\ ecmp'[cidr] = group
          /\ \A c \in DOMAIN ecmp : c # cidr => ecmp'[c] = ecmp[c]
          /\ outdated' = outdated \ {cidr}
      BY <2>3, <2>6 DEF Router!Put
    <3> HIDE DEF group, equal
    <3> QED
      BY <2>2, <2>3, <2>4, <2>5, <3>1, <3>2
  <2>7. CASE ~(Len(equal) > 1)
    <3>1. ecmp' = ecmp /\ outdated' = outdated \cup {cidr}
      BY <2>3, <2>7
    <3> HIDE DEF group, equal
    <3> QED
      BY <2>2, <2>3, <2>4, <2>5, <3>1
  <2> QED
    BY <2>6, <2>7
<1>2. ASSUME NEW cidr \in Router!Cidrs, NEW peer \in Peers, NEW metric \in Metrics,
             Router!UpdateMetric(cidr, peer, metric)
      PROVE  RouterInv'
  <2> DEFINE old == routes[cidr]
             new == [i \in DOMAIN old |-> IF old[i].peer_id = peer THEN [old[i] EXCEPT !.metric = metric] ELSE old[i]]
             entry == Router!ByMetric(new)
  <2>1. cidr \in DOMAIN routes /\ Ordered(old) /\ old # <<>>
    BY <1>2 DEF Router!UpdateMetric
  <2>2. /\ routes' = [routes EXCEPT ![cidr] = entry] /\ outdated' = outdated \cup {cidr}
        /\ UNCHANGED <<ecmp, default_route, lookups>>
    BY <1>2 DEF Router!UpdateMetric, Router!Resorted
  <2>3. new \in Seq(Router!Route) /\ Router!OnePerPeer(new) /\ DOMAIN new = DOMAIN old
    <3>1. /\ old \in Seq(Router!Route) /\ DOMAIN old = 1 .. Len(old) /\ Len(old) \in Nat /\ Router!OnePerPeer(old)
          /\ \A i \in DOMAIN old : old[i] \in Router!Route
      BY <2>1 DEF Ordered
    <3> HIDE DEF old
    <3>2. \A i \in DOMAIN old : new[i] \in Router!Route /\ new[i].peer_id = old[i].peer_id
      BY <3>1 DEF Router!Route
    <3> QED
      BY <3>1, <3>2 DEF Router!OnePerPeer
  <2>4. Len(new) = Len(old) /\ Len(old) \in Nat /\ Len(old) # 0
    BY <2>1, <2>3 DEF Ordered
  <2> HIDE DEF new, old
  <2>5. Ordered(entry) /\ Len(entry) = Len(old)
    BY <2>3, <2>4, RoutesSorted DEF Ordered
  <2>6. entry # <<>>
    BY <2>4, <2>5
  <2> HIDE DEF entry
  <2>7. /\ DOMAIN routes' = DOMAIN routes /\ routes'[cidr] = entry
        /\ \A c \in DOMAIN routes : c # cidr => routes'[c] = routes[c]
    BY <2>1, <2>2
  <2>8. \A c : c # cidr => Router!Entry(c)' = Router!Entry(c)
    BY <2>7 DEF Router!Entry
  <2> QED
    BY <2>2, <2>5, <2>6, <2>7, <2>8
<1>3. ASSUME NEW cidr \in Router!Cidrs, NEW peer \in Peers, Router!RemoveRoute(cidr, peer) PROVE RouterInv'
  <2> DEFINE rest == Router!Others(Router!Entry(cidr), peer)
  <2>1. Ordered(rest)
    BY OrderedEntry, EntryWithout
  <2>2. /\ routes' = IF rest = <<>> THEN Router!Drop(routes, cidr) ELSE Router!Put(routes, cidr, rest)
        /\ outdated' = outdated \cup {cidr} /\ UNCHANGED <<ecmp, default_route, lookups>>
        /\ cidr \in DOMAIN routes
    BY <1>3 DEF Router!RemoveRoute
  <2> HIDE DEF rest
  <2>3. /\ \A c \in DOMAIN routes : c # cidr => c \in DOMAIN routes' /\ routes'[c] = routes[c]
        /\ DOMAIN routes' \subseteq DOMAIN routes
        /\ cidr \in DOMAIN routes' => routes'[cidr] = rest /\ rest # <<>>
    BY <2>2 DEF Router!Drop, Router!Put
  <2>4. \A c : c # cidr => Router!Entry(c)' = Router!Entry(c)
    BY <2>3 DEF Router!Entry
  <2> QED
    BY <2>1, <2>2, <2>3, <2>4
<1>4. ASSUME NEW peer \in Peers, NEW on \in BOOLEAN, Router!SetActive(peer, on) PROVE RouterInv'
  <2>1. /\ DOMAIN routes' = DOMAIN routes
        /\ \A c \in DOMAIN routes : routes'[c] = [i \in DOMAIN routes[c] |->
                    IF routes[c][i].peer_id = peer THEN [routes[c][i] EXCEPT !.active = on] ELSE routes[c][i]]
        /\ outdated' = outdated \cup {c \in DOMAIN routes : routes'[c] # routes[c]}
        /\ UNCHANGED <<ecmp, default_route, lookups>>
    BY <1>4 DEF Router!SetActive
  <2>2. ASSUME NEW c \in DOMAIN routes PROVE Ordered(routes'[c]) /\ routes'[c] # <<>>
    <3> DEFINE old == routes[c]
               new == routes'[c]
    <3>1. Ordered(old) /\ old # <<>>
      OBVIOUS
    <3>2. /\ old \in Seq(Router!Route) /\ DOMAIN old = 1 .. Len(old) /\ Len(old) \in Nat
          /\ \A i \in DOMAIN old : old[i] \in Router!Route
      BY <3>1 DEF Ordered
    <3>3. new = [i \in DOMAIN old |-> IF old[i].peer_id = peer THEN [old[i] EXCEPT !.active = on] ELSE old[i]]
      BY <2>1
    <3> HIDE DEF old, new
    <3>4. \A i \in DOMAIN old : /\ new[i] \in Router!Route /\ new[i].peer_id = old[i].peer_id
                                /\ new[i].metric = old[i].metric
      BY <3>2, <3>3 DEF Router!Route
    <3>5. new \in Seq(Router!Route) /\ DOMAIN new = DOMAIN old /\ Len(new) = Len(old)
      BY <3>2, <3>3, <3>4
    <3>6. Ordered(new)
      BY <3>1, <3>4, <3>5 DEF Ordered, Router!OnePerPeer, ByCost
    <3>7. new # <<>>
      BY <3>1, <3>2, <3>5
    <3> QED
      BY <3>6, <3>7 DEF new
  <2>3. \A c : c \notin outdated' => Router!Entry(c)' = Router!Entry(c)
    BY <2>1 DEF Router!Entry
  <2> QED
    BY <2>1, <2>2, <2>3
<1>5. ASSUME NEW peer \in Peers, NEW route, Router!SetDefaultRoute(route) PROVE RouterInv'
  <2>1. UNCHANGED <<routes, ecmp, lookups, outdated>>
    BY <1>5 DEF Router!SetDefaultRoute
  <2> QED
    BY <2>1 DEF Router!Entry
<1>6. ASSUME NEW c \in Callers, NEW dst \in Dsts, Router!LookupEcmp(c, dst) PROVE RouterInv'
  <2>1. PICK cidr \in Router!Longest(dst) : lookups' = Router!Put(lookups, c, cidr)
    BY <1>6 DEF Router!LookupEcmp
  <2>2. cidr \in Router!Cidrs /\ UNCHANGED <<routes, ecmp, outdated>>
    BY <1>6, <2>1 DEF Router!LookupEcmp, Router!Longest, Router!Matching
  <2>3. lookups' \in [DOMAIN lookups' -> Router!Cidrs]
    BY <2>1, <2>2 DEF Router!Put
  <2> QED
    BY <2>2, <2>3 DEF Router!Entry
<1>7. ASSUME NEW c \in Callers, Router!TakeTurn(c) PROVE RouterInv'
  <2>1. /\ ecmp' = [g \in DOMAIN ecmp |-> IF g # lookups[c] THEN ecmp[g] ELSE
                       [ecmp[g] EXCEPT !.next_idx = (@ + 1) % Len(ecmp[g].routes)]]
        /\ lookups' = Router!Drop(lookups, c) /\ UNCHANGED <<routes, default_route, outdated>>
    BY <1>7 DEF Router!TakeTurn
  <2>2. lookups' \in [DOMAIN lookups' -> Router!Cidrs]
    BY <2>1 DEF Router!Drop
  <2>3. ASSUME NEW g \in DOMAIN ecmp PROVE Group(ecmp'[g]) /\ ecmp'[g].routes = ecmp[g].routes
    <3>1. CASE g # lookups[c]
      BY <2>1, <3>1
    <3>2. CASE g = lookups[c]
      <4> DEFINE old == ecmp[g]
                 n == Len(old.routes)
                 new == [old EXCEPT !.next_idx = (old.next_idx + 1) % n]
      <4>1. Group(old) /\ ecmp'[g] = new
        BY <2>1, <3>2
      <4>2. n \in Nat /\ n > 1 /\ old.next_idx \in Nat
        BY <4>1 DEF Group
      <4> HIDE DEF n, old
      <4>3. (old.next_idx + 1) % n \in Nat /\ (old.next_idx + 1) % n < n
        BY <4>2
      <4>4. new.routes = old.routes /\ (new.next_idx = (old.next_idx + 1) % n \/ new = old)
        OBVIOUS
      <4>5. Group(new)
        BY <4>1, <4>3, <4>4 DEF Group, n
      <4> QED
        BY <4>1, <4>4, <4>5 DEF old
    <3> QED
      BY <3>1, <3>2
  <2>4. DOMAIN ecmp' = DOMAIN ecmp
    BY <2>1
  <2> QED
    BY <2>1, <2>2, <2>3, <2>4 DEF Router!Entry, Exact
<1>8. CASE Router!Flush
  BY <1>8 DEF Router!Flush
<1>9. CASE UNCHANGED table_vars
  BY <1>9 DEF table_vars, Router!Entry
<1> QED
  BY <1>1, <1>2, <1>3, <1>4, <1>5, <1>6, <1>7, <1>8, <1>9 DEF Router!Next

-----------------------------------------------------------------------------
(* The decentralised control plane.                                        *)
Roles == {"Follower", "Candidate", "Leader"}
LogEntry == [index : Nat, term : Nat, leads : Roles]
RaftNode == [role : Roles, term : 0 .. MaxTerm, voted_for : Nodes \cup {None}, log : Seq(LogEntry),
             commit_index : Nat, leader_id : Nodes \cup {None}]
InOrder(s) ==
  \A i \in DOMAIN s.log : /\ s.log[i].index = i /\ s.log[i].leads = "Leader"
                          /\ \A j \in 1 .. i : s.log[j].term <= s.log[i].term /\ s.log[i].term <= s.term
\* The peers of a bucket: each once, and all with the same first bit that is not ours.
Bucket(b, s) ==
  /\ s \in Seq(PeerIds) /\ Len(s) <= K
  /\ \A i, j \in DOMAIN s : i # j => s[i] # s[j]
  /\ \A i \in DOMAIN s : s[i] # our_id => s[i][b + 1] # our_id[b + 1] /\ \A k \in 1 .. b : s[i][k] = our_id[k]

ControlInv ==
  /\ node \in [Nodes -> RaftNode] /\ \A n \in Nodes : InOrder(node[n])
  /\ heartbeats \subseteq [leader : Nodes, term : 0 .. MaxTerm, commit_index : Nat]
  /\ \A x \in appended : x[2] + 1 = x[3].index
  /\ buckets \in [0 .. Len(our_id) - 1 -> Seq(PeerIds)]
  /\ \A b \in DOMAIN buckets : Bucket(b, buckets[b])

LEMMA ControlConstants ==
  /\ Control!Constants /\ K \in Nat \ {0} /\ MaxTerm \in Nat /\ Prefix \in 0 .. Len(our_id)
  /\ our_id \in Seq({0, 1}) /\ Len(our_id) \in Nat /\ Len(our_id) > 0
  /\ IsFiniteSet(PeerIds) /\ \A i \in PeerIds : i \in Seq({0, 1}) /\ Len(i) = Len(our_id)
<1>1. \A s : Control!IsFiniteSet(s) <=> IsFiniteSet(s)
  BY DEF Control!IsFiniteSet, IsFiniteSet
<1> QED
  BY <1>1, DataPlaneAssumption DEF Control!Constants

LEMMA SameInControl == ASSUME NEW s PROVE Control!Cardinality(s) = Cardinality(s)
  BY DEF Control!Cardinality, Cardinality

LEMMA ControlRight ==
  ControlInv => Control!TypeOK /\ Control!LogsInOrder /\ Control!AnswerIsPosition /\ Control!BucketsExact
<1> SUFFICES ASSUME ControlInv
             PROVE  Control!TypeOK /\ Control!LogsInOrder /\ Control!AnswerIsPosition /\ Control!BucketsExact
  OBVIOUS
<1>1. Control!TypeOK
  BY ControlConstants DEF ControlInv, Control!TypeOK, RaftNode, Roles
<1>2. Control!LogsInOrder /\ Control!AnswerIsPosition
  BY DEF ControlInv, Control!LogsInOrder, Control!AnswerIsPosition, InOrder
<1>3. Control!BucketsExact
  BY DEF ControlInv, Control!BucketsExact, Bucket
<1> QED
  BY <1>1, <1>2, <1>3

LEMMA ControlInit == Control!Init => ControlInv
<1> SUFFICES ASSUME Control!Init PROVE ControlInv
  OBVIOUS
<1>1. \A n \in Nodes : node[n] \in RaftNode /\ InOrder(node[n])
  <2> TAKE n \in Nodes
  <2>1. node[n] = [role |-> "Follower", term |-> 0, voted_for |-> None, log |-> <<>>,
                   commit_index |-> 0, leader_id |-> None]
    BY DEF Control!Init
  <2>2. <<>> \in Seq(LogEntry) /\ DOMAIN <<>> = {} /\ 0 \in 0 .. MaxTerm
    BY ControlConstants
  <2> QED
    BY <2>1, <2>2 DEF RaftNode, InOrder, Roles
<1>2. /\ buckets = [i \in 0 .. Len(our_id) - 1 |-> <<>>]
      /\ heartbeats = {} /\ appended = {} /\ node = [n \in Nodes |-> node[n]]
  BY DEF Control!Init, Control!Width
<1>3. \A b : Bucket(b, <<>>)
  BY ControlConstants DEF Bucket
<1>4. <<>> \in Seq(PeerIds)
  OBVIOUS
<1> QED
  BY <1>1, <1>2, <1>3, <1>4 DEF ControlInv

\* The index of a peer's bucket: the bits it has in common with our identifier.
LEMMA LeadingBits ==
  ASSUME NEW id \in PeerIds
  PROVE  /\ Control!BucketIndex(id) \in 0 .. Len(our_id) - 1
         /\ id # our_id => LET b == Control!BucketIndex(id) IN
                           id[b + 1] # our_id[b + 1] /\ \A k \in 1 .. b : id[k] = our_id[k]
<1> DEFINE W == Len(our_id)
           d == Control!Distance(our_id, id)
           Zeroes == {i \in 1 .. W : \A j \in 1 .. i : d[j] = 0}
<1>1. /\ W \in Nat /\ W > 0 /\ id \in Seq({0, 1}) /\ Len(id) = W /\ our_id \in Seq({0, 1})
      /\ DOMAIN id = 1 .. W /\ DOMAIN our_id = 1 .. W
  BY ControlConstants
<1>2. \A i \in 1 .. W : d[i] = 0 <=> id[i] = our_id[i]
  <2> TAKE i \in 1 .. W
  <2>1. id[i] \in {0, 1} /\ our_id[i] \in {0, 1}
    BY <1>1
  <2>2. d[i] = (our_id[i] + id[i]) % 2
    BY DEF Control!Distance, Control!Width
  <2> HIDE DEF d
  <2> QED
    BY <2>1, <2>2
<1>3. CASE \A i \in 1 .. W : d[i] = 0
  <2>1. id = our_id
    BY <1>1, <1>2, <1>3
  <2>2. Control!BucketIndex(id) = 0
    BY <1>3 DEF Control!BucketIndex, Control!Width
  <2> QED
    BY <1>1, <2>1, <2>2
<1>4. CASE ~(\A i \in 1 .. W : d[i] = 0)
  <2> DEFINE T == {i \in 1 .. W : d[i] # 0}
  <2>1. T \subseteq Nat /\ T # {}
    BY <1>1, <1>4
  <2>2. PICK m \in T : \A i \in T : m <= i
    BY <2>1, LeastNat
  <2>3. m \in 1 .. W /\ d[m] # 0 /\ \A k \in 1 .. m - 1 : d[k] = 0
    <3>1. m \in 1 .. W /\ d[m] # 0 /\ m \in Nat
      BY <1>1, <2>2
    <3>2. ASSUME NEW k \in 1 .. m - 1 PROVE d[k] = 0
      <4>1. k \in 1 .. W /\ ~(m <= k)
        BY <1>1, <3>1
      <4> QED
        BY <2>2, <4>1
    <3> QED
      BY <3>1, <3>2
  <2> HIDE DEF d, T, W
  <2>4. Zeroes = 1 .. m - 1
    <3>1. m \in Nat /\ m >= 1 /\ W \in Nat /\ m <= W
      BY <1>1, <2>3
    <3>2. ASSUME NEW i \in 1 .. m - 1 PROVE i \in Zeroes
      <4>1. i \in 1 .. W /\ \A j \in 1 .. i : j \in 1 .. m - 1
        BY <3>1
      <4> QED
        BY <2>3, <4>1
    <3>3. ASSUME NEW i \in Zeroes PROVE i \in 1 .. m - 1
      <4>1. i \in 1 .. W /\ m \notin 1 .. i
        BY <2>3
      <4> QED
        BY <3>1, <4>1
    <3> QED
      BY <3>2, <3>3
  <2>5. m - 1 \in Nat /\ Cardinality(1 .. m - 1) = m - 1
    <3>1. m - 1 \in Nat
      BY <1>1, <2>3
    <3> QED
      BY <3>1, UpTo
  <2>6. Control!BucketIndex(id) = Control!Cardinality(Zeroes)
    BY <1>4 DEF Control!BucketIndex, Control!Width, d, W
  <2>7. Control!BucketIndex(id) = m - 1
    BY <2>4, <2>5, <2>6, SameInControl
  <2>8. m - 1 \in 0 .. W - 1 /\ (m - 1) + 1 = m /\ \A k \in 1 .. m - 1 : k \in 1 .. W
    BY <1>1, <2>3
  <2> QED
    BY <1>2, <2>3, <2>7, <2>8 DEF W
<1> QED
  BY <1>3, <1>4

\* A step of a node: it goes on, and so do the others.
LEMMA RaftStep ==
  ASSUME ControlInv, NEW n \in Nodes, NEW s \in RaftNode, InOrder(s), s.term >= node[n].term,
         \A i \in DOMAIN node[n].log : i \in DOMAIN s.log /\ s.log[i] = node[n].log[i],
         node' = [node EXCEPT ![n] = s], buckets' = buckets,
         heartbeats' \subseteq [leader : Nodes, term : 0 .. MaxTerm, commit_index : Nat],
         \A x \in appended' : x \in appended \/ x[2] + 1 = x[3].index
  PROVE  /\ ControlInv'
         /\ \A k \in Nodes : /\ node'[k].term >= node[k].term
                             /\ \A i \in DOMAIN node[k].log : i \in DOMAIN node'[k].log
                                                              /\ node'[k].log[i] = node[k].log[i]
<1>1. \A k \in Nodes : node'[k] = IF k = n THEN s ELSE node[k]
  BY DEF ControlInv
<1>2. \A k \in Nodes : node[k].term >= node[k].term
  BY DEF ControlInv, RaftNode
<1>3. ControlInv'
  BY <1>1 DEF ControlInv
<1> QED
  BY <1>1, <1>2, <1>3

LEMMA ControlNext ==
  ASSUME ControlInv, [Control!Next]_control_vars
  PROVE  /\ ControlInv'
         /\ \A k \in Nodes : /\ node'[k].term >= node[k].term
                             /\ \A i \in DOMAIN node[k].log : i \in DOMAIN node'[k].log
                                                              /\ node'[k].log[i] = node[k].log[i]
<1> DEFINE Grows == \A k \in Nodes : /\ node'[k].term >= node[k].term
                             /\ \A i \in DOMAIN node[k].log : i \in DOMAIN node'[k].log
                                                              /\ node'[k].log[i] = node[k].log[i]
<1>0. /\ \A n \in Nodes : /\ node[n] \in RaftNode /\ InOrder(node[n])
                          /\ node[n].term \in Nat /\ node[n].term <= MaxTerm /\ node[n].log \in Seq(LogEntry)
                          /\ \A i \in DOMAIN node[n].log : node[n].log[i].term \in Nat
      /\ MaxTerm \in Nat
  <2>1. MaxTerm \in Nat
    BY ControlConstants
  <2>2. ASSUME NEW n \in Nodes
        PROVE  /\ node[n] \in RaftNode /\ InOrder(node[n])
               /\ node[n].term \in Nat /\ node[n].term <= MaxTerm /\ node[n].log \in Seq(LogEntry)
    <3>1. node[n] \in RaftNode /\ InOrder(node[n])
      BY DEF ControlInv
    <3>2. node[n].term \in 0 .. MaxTerm /\ node[n].log \in Seq(LogEntry)
      BY <3>1 DEF RaftNode
    <3> QED
      BY <2>1, <3>1, <3>2
  <2>3. ASSUME NEW n \in Nodes, NEW i \in DOMAIN node[n].log PROVE node[n].log[i].term \in Nat
    <3>1. node[n].log[i] \in LogEntry
      BY <2>2
    <3> QED
      BY <3>1 DEF LogEntry
  <2> QED
    BY <2>1, <2>2, <2>3
<1>a. ASSUME UNCHANGED node PROVE Grows
  BY <1>0, <1>a
<1>1. ASSUME NEW n \in Nodes, Control!StartElection(n) PROVE ControlInv' /\ Grows
  <2> DEFINE old == node[n]
             s == [old EXCEPT !.role = "Candidate", !.term = old.term + 1, !.voted_for = n]
  <2>1. node' = [node EXCEPT ![n] = s] /\ UNCHANGED <<heartbeats, appended, buckets>> /\ old.term < MaxTerm
    BY <1>1 DEF Control!StartElection
  <2>2. s \in RaftNode /\ s.log = old.log /\ s.term = old.term + 1 /\ s.term >= old.term
    <3>1. old.term + 1 \in 0 .. MaxTerm /\ old.term + 1 >= old.term /\ old \in RaftNode
      BY <1>0, <2>1
    <3> QED
      BY <3>1 DEF RaftNode, Roles
  <2>3. InOrder(s)
    <3>1. InOrder(old) /\ old.term \in Nat /\ \A i \in DOMAIN old.log : old.log[i].term \in Nat
      BY <1>0
    <3> HIDE DEF old, s
    <3> QED
      BY <2>2, <3>1 DEF InOrder
  <2> HIDE DEF s
  <2> QED
    BY <2>1, <2>2, <2>3, RaftStep DEF ControlInv
<1>2. ASSUME NEW n \in Nodes, Control!BecomeLeader(n) PROVE ControlInv' /\ Grows
  <2> DEFINE old == node[n]
             s == [old EXCEPT !.role = "Leader", !.leader_id = n]
  <2>1. node' = [node EXCEPT ![n] = s] /\ UNCHANGED <<heartbeats, appended, buckets>>
    BY <1>2 DEF Control!BecomeLeader
  <2>2. s \in RaftNode /\ s.log = old.log /\ s.term = old.term /\ s.term >= old.term
    <3>1. old \in RaftNode /\ old.term >= old.term
      BY <1>0
    <3> QED
      BY <3>1 DEF RaftNode, Roles
  <2>3. InOrder(s)
    BY <1>0, <2>2 DEF InOrder
  <2> HIDE DEF s
  <2> QED
    BY <2>1, <2>2, <2>3, RaftStep DEF ControlInv
<1>3. ASSUME NEW n \in Nodes, Control!AppendEntry(n) PROVE ControlInv' /\ Grows
  <2> DEFINE old == node[n]
             entry == [index |-> Len(old.log) + 1, term |-> old.term, leads |-> old.role]
             log == Append(old.log, entry)
             s == [old EXCEPT !.log = log]
  <2>1. /\ old.role = "Leader" /\ node' = [node EXCEPT ![n] = s]
        /\ appended' = appended \cup {<<n, Len(old.log), entry>>} /\ UNCHANGED <<heartbeats, buckets>>
    BY <1>3 DEF Control!AppendEntry, Control!MayAppend, Control!Result
  <2>2. /\ old \in RaftNode /\ InOrder(old) /\ old.log \in Seq(LogEntry) /\ Len(old.log) \in Nat /\ old.term \in Nat
        /\ \A i \in DOMAIN old.log : old.log[i].term \in Nat
    BY <1>0
  <2>3. entry \in LogEntry /\ entry.index = Len(old.log) + 1 /\ entry.term = old.term /\ entry.leads = "Leader"
    BY <2>1, <2>2 DEF LogEntry, Roles
  <2> HIDE DEF entry
  <2>4. /\ log \in Seq(LogEntry) /\ DOMAIN log = 1 .. Len(old.log) + 1 /\ log[Len(old.log) + 1] = entry
        /\ \A i \in DOMAIN old.log : i \in DOMAIN log /\ log[i] = old.log[i]
        /\ DOMAIN old.log = 1 .. Len(old.log)
    BY <2>2, <2>3
  <2> HIDE DEF log
  <2>5. s \in RaftNode /\ s.log = log /\ s.term = old.term /\ s.term >= old.term
    <3>1. old.term >= old.term
      BY <2>2
    <3> QED
      BY <2>2, <2>4, <3>1 DEF RaftNode
  <2> HIDE DEF s, old
  <2>6. InOrder(s)
    <3>1. ASSUME NEW i \in DOMAIN log
          PROVE  /\ log[i].index = i /\ log[i].leads = "Leader" /\ log[i].term <= s.term
                 /\ \A j \in 1 .. i : log[j].term <= log[i].term
      <4>1. \A j \in DOMAIN old.log : log[j].term <= old.term /\ log[j].term \in Nat /\ 1 <= j
        <5> TAKE j \in DOMAIN old.log
        <5>1. j \in 1 .. j /\ 1 <= j
          BY <2>2, <2>4
        <5>2. old.log[j].term <= old.term /\ log[j] = old.log[j]
          BY <2>2, <2>4, <5>1 DEF InOrder
        <5> QED
          BY <2>2, <5>1, <5>2
      <4>2. CASE i \in DOMAIN old.log
        <5>1. \A j \in 1 .. i : j \in DOMAIN old.log
          BY <2>2, <2>4, <4>2
        <5> QED
          BY <2>2, <2>4, <2>5, <4>1, <4>2, <5>1 DEF InOrder
      <4>3. CASE i = Len(old.log) + 1
        <5>1. \A j \in 1 .. i : j \in DOMAIN old.log \/ j = i
          BY <2>2, <2>4, <4>3
        <5>2. log[i] = entry
          BY <2>4, <4>3
        <5> QED
          BY <2>2, <2>3, <2>5, <4>1, <4>3, <5>1, <5>2
      <4> QED
        BY <2>2, <2>4, <4>2, <4>3
    <3> QED
      BY <2>5, <3>1 DEF InOrder
  <2>7. \A x \in appended' : x \in appended \/ x[2] + 1 = x[3].index
    BY <2>1, <2>3
  <2>8. /\ \A i \in DOMAIN node[n].log : i \in DOMAIN s.log /\ s.log[i] = node[n].log[i]
        /\ s.term >= node[n].term
    BY <2>4, <2>5 DEF old
  <2> QED
    BY <2>1, <2>5, <2>6, <2>7, <2>8, RaftStep DEF ControlInv
<1>4. ASSUME NEW n \in Nodes, Control!SendHeartbeat(n) PROVE ControlInv' /\ Grows
  <2> DEFINE h == [leader |-> n, term |-> node[n].term, commit_index |-> Len(node[n].log)]
  <2>1. heartbeats' = heartbeats \cup {h} /\ UNCHANGED <<node, appended, buckets>>
    BY <1>4 DEF Control!SendHeartbeat
  <2>2. h \in [leader : Nodes, term : 0 .. MaxTerm, commit_index : Nat]
    BY <1>0
  <2> HIDE DEF h
  <2> QED
    BY <1>a, <2>1, <2>2 DEF ControlInv
<1>5. ASSUME NEW n \in Nodes, NEW h \in heartbeats, Control!ReceiveHeartbeat(n, h) PROVE ControlInv' /\ Grows
  <2> DEFINE old == node[n]
             s == [old EXCEPT !.role = "Follower", !.term = h.term, !.leader_id = h.leader,
                              !.commit_index = h.commit_index]
  <2>1. /\ node' = [node EXCEPT ![n] = s] /\ UNCHANGED <<heartbeats, appended, buckets>> /\ h.term >= old.term
    BY <1>5 DEF Control!ReceiveHeartbeat, Control!Fresh
  <2>2. h.leader \in Nodes /\ h.term \in 0 .. MaxTerm /\ h.commit_index \in Nat
    BY DEF ControlInv
  <2>3. s \in RaftNode /\ s.log = old.log /\ s.term = h.term
    BY <1>0, <2>2 DEF RaftNode, Roles
  <2>4. InOrder(s)
    <3>1. /\ InOrder(old) /\ old.term \in Nat /\ h.term \in Nat
          /\ \A i \in DOMAIN old.log : old.log[i].term \in Nat
      BY <1>0, <2>2
    <3> HIDE DEF old, s
    <3> QED
      BY <2>1, <2>3, <3>1 DEF InOrder
  <2> HIDE DEF s
  <2> QED
    BY <2>1, <2>3, <2>4, RaftStep DEF ControlInv
<1>6. ASSUME NEW id \in PeerIds, Control!AddPeer(id) PROVE ControlInv' /\ Grows
  <2> DEFINE b == Control!BucketIndex(id)
             old == buckets[b]
             new == Append(old, id)
  <2>1. /\ (\A i \in DOMAIN old : old[i] # id) /\ Len(old) < K
        /\ buckets' = [buckets EXCEPT ![b] = new] /\ UNCHANGED <<node, heartbeats, appended>>
    BY <1>6 DEF Control!AddPeer, Control!InSeq, Control!HasRoom
  <2>2. /\ b \in DOMAIN buckets /\ buckets \in [0 .. Len(our_id) - 1 -> Seq(PeerIds)]
        /\ id # our_id => id[b + 1] # our_id[b + 1] /\ \A k \in 1 .. b : id[k] = our_id[k]
    BY LeadingBits DEF ControlInv
  <2>3. Bucket(b, old)
    BY <2>2 DEF ControlInv
  <2> HIDE DEF b, old
  <2>4. /\ new \in Seq(PeerIds) /\ Len(new) = Len(old) + 1 /\ Len(old) \in Nat /\ K \in Nat
        /\ DOMAIN new = DOMAIN old \cup {Len(old) + 1} /\ new[Len(old) + 1] = id
        /\ \A i \in DOMAIN old : new[i] = old[i]
    BY <2>3, ControlConstants DEF Bucket
  <2> HIDE DEF new
  <2>5. Bucket(b, new)
    <3>1. Len(new) <= K
      BY <2>1, <2>4
    <3>2. \A i, j \in DOMAIN new : i # j => new[i] # new[j]
      BY <2>1, <2>3, <2>4 DEF Bucket
    <3>3. \A i \in DOMAIN new : new[i] # our_id =>
             new[i][b + 1] # our_id[b + 1] /\ \A k \in 1 .. b : new[i][k] = our_id[k]
      BY <2>2, <2>3, <2>4 DEF Bucket
    <3> QED
      BY <2>4, <3>1, <3>2, <3>3 DEF Bucket
  <2>6. ControlInv'
    BY <2>1, <2>2, <2>4, <2>5 DEF ControlInv
  <2> QED
    BY <1>a, <2>1, <2>6
<1>7. ASSUME NEW id, NEW count, Control!FindClosest(id, count) PROVE ControlInv' /\ Grows
  BY <1>a, <1>7 DEF Control!FindClosest, ControlInv
<1>8. ASSUME UNCHANGED control_vars PROVE ControlInv' /\ Grows
  BY <1>a, <1>8 DEF control_vars, ControlInv
<1> HIDE DEF Grows
<1>9. ControlInv' /\ Grows
  <2>1. CASE Control!NextRaft
    BY <1>1, <1>2, <1>3, <1>4, <1>5, <2>1 DEF Control!NextRaft
  <2>2. CASE Control!NextDht
    BY <1>6, <1>7, <2>2 DEF Control!NextDht
  <2> QED
    BY <1>8, <2>1, <2>2 DEF Control!Next
<1> QED
  BY <1>9 DEF Grows

\* An answer of find_closest is the first part of all peers, sorted.
LEMMA ClosestStep ==
  ASSUME ControlInv, [Control!Next]_control_vars, found' # found
  PROVE  \A p \in Control!Stored, i \in DOMAIN found'[3] :
            Control!InSeq(p, found'[3]) \/ ~Control!Nearer(p, found'[3][i], found'[1], Prefix)
<1>1. PICK id \in PeerIds, count \in 1 .. MaxCount : Control!FindClosest(id, count)
  <2>1. \A n \in Nodes : ~Control!StartElection(n) /\ ~Control!BecomeLeader(n) /\ ~Control!AppendEntry(n)
                         /\ ~Control!SendHeartbeat(n) /\ \A h \in heartbeats : ~Control!ReceiveHeartbeat(n, h)
    BY DEF Control!StartElection, Control!BecomeLeader, Control!AppendEntry, Control!SendHeartbeat,
           Control!ReceiveHeartbeat
  <2>2. \A id \in PeerIds : ~Control!AddPeer(id)
    BY DEF Control!AddPeer
  <2> QED
    BY <2>1, <2>2 DEF Control!Next, Control!NextRaft, Control!NextDht, control_vars
<1> DEFINE n == Cardinality(Control!Stored)
<1>2. n \in Nat
  <2>1. Control!Stored \in SUBSET PeerIds
    BY DEF ControlInv, Control!Stored
  <2>2. IsFiniteSet(Control!Stored)
    BY <2>1, ControlConstants, FS_Subset
  <2> QED
    BY <2>2, FS_CardinalityType
<1> HIDE DEF n
<1>3. PICK s \in [1 .. n -> Control!Stored] :
         /\ \A p \in Control!Stored : Control!InSeq(p, s)
         /\ Control!Sorts(s, id)
         /\ found' = <<id, count, SubSeq(s, 1, IF count < Len(s) THEN count ELSE Len(s))>>
  BY <1>1, SameInControl DEF Control!FindClosest, n
<1> DEFINE k == IF count < Len(s) THEN count ELSE Len(s)
           cut == SubSeq(s, 1, k)
<1>4. s \in Seq(Control!Stored) /\ Len(s) = n /\ DOMAIN s = 1 .. n /\ count \in Nat /\ k \in Nat /\ k <= n
  BY <1>2, <1>3
<1> HIDE DEF k
<1>5. DOMAIN cut = 1 .. k /\ \A i \in 1 .. k : cut[i] = s[i]
  BY <1>2, <1>4
<1>6. found'[1] = id /\ found'[3] = cut
  BY <1>3 DEF k
<1> HIDE DEF cut
<1>7. ASSUME NEW p \in Control!Stored, NEW i \in DOMAIN cut
      PROVE  Control!InSeq(p, cut) \/ ~Control!Nearer(p, cut[i], id, Prefix)
  <2>1. PICK j \in DOMAIN s : s[j] = p
    BY <1>3 DEF Control!InSeq
  <2>2. CASE j \in 1 .. k
    BY <1>5, <2>1, <2>2 DEF Control!InSeq
  <2>3. CASE j \notin 1 .. k
    <3>1. i < j /\ i \in DOMAIN s /\ cut[i] = s[i]
      BY <1>2, <1>4, <1>5, <2>3
    <3> QED
      BY <1>3, <2>1, <3>1 DEF Control!Sorts
  <2> QED
    BY <2>2, <2>3
<1> QED
  BY <1>6, <1>7

-----------------------------------------------------------------------------
\* The constants.
LEMMA Numbers ==
  /\ IsFiniteSet(Callers) /\ Cardinality(Callers) \in Nat
  /\ max_paths \in Nat /\ max_paths > 0 /\ IdModulus \in Nat /\ MaxPackets \in Nat
  /\ max_paths + Cardinality(Callers) < IdModulus
  /\ Windows.initial \in Nat /\ Windows.mss \in Nat /\ Windows.least \in Nat
  /\ Windows.initial >= 2 * Windows.least /\ Windows.initial >= 6 * Windows.mss
<1>1. /\ IsFiniteSet(Callers) /\ max_paths \in Nat /\ max_paths > 0 /\ IdModulus \in Nat /\ MaxPackets \in Nat
      /\ max_paths + Cardinality(Callers) < IdModulus
      /\ Windows \in [initial : Nat, mss : Nat, least : Nat]
      /\ Windows.initial >= 2 * Windows.least /\ Windows.initial >= 6 * Windows.mss
  BY ConstantsAssumption DEF Constants
<1>2. Cardinality(Callers) \in Nat
  BY <1>1, FS_CardinalityType
<1> QED
  BY <1>1, <1>2

\* Half a window is a window.
LEMMA HalfWindow ==
  ASSUME NEW w \in Nat
  PROVE  /\ Halved(w) \in Nat /\ Halved(w) >= Windows.least
         /\ Halved(w) + 3 * Windows.mss \in Nat
         /\ w >= Windows.least => Halved(w) <= w
         /\ w = Windows.initial => Halved(w) + 3 * Windows.mss <= w
<1>1. w \div 2 \in Nat /\ w \div 2 <= w /\ 2 * (w \div 2) <= w
  OBVIOUS
<1>2. CASE w \div 2 < Windows.least
  BY <1>1, <1>2, Numbers DEF Halved, Larger
<1>3. CASE ~(w \div 2 < Windows.least)
  BY <1>1, <1>3, Numbers DEF Halved, Larger
<1> QED
  BY <1>2, <1>3

-----------------------------------------------------------------------------
\* What the operations do to an entry.
LEMMA Entries ==
  /\ Fresh \in Entry
  /\ \A e \in Entry, s \in PathState, a \in BOOLEAN : [[e EXCEPT !.state = s] EXCEPT !.active = a] \in Entry
  BY Numbers DEF Fresh, Entry, PathState

\* The state and the flag of one path are changed, and nothing else.
Marks(p, s) ==
  /\ DOMAIN paths' = DOMAIN paths
  /\ \A q \in DOMAIN paths : q # p => paths'[q] = paths[q]
  /\ paths'[p] \in Entry /\ paths'[p].state = s /\ paths'[p].active = (s = "Active")
  /\ paths'[p].cwnd = paths[p].cwnd /\ paths'[p].phase = paths[p].phase

\* The two fields that SetState and Halted write.
LEMMA Marked ==
  ASSUME paths \in [DOMAIN paths -> Entry], NEW p \in DOMAIN paths, NEW s \in PathState,
         paths' = [paths EXCEPT ![p].state = s, ![p].active = s = "Active"]
  PROVE  Marks(p, s)
<1>1. paths[p] \in Entry
  OBVIOUS
<1>2. paths'[p] = [[paths[p] EXCEPT !.state = s] EXCEPT !.active = (s = "Active")]
  OBVIOUS
<1>3. [[paths[p] EXCEPT !.state = s] EXCEPT !.active = (s = "Active")] \in Entry
  BY <1>1, Entries
<1>4. /\ paths'[p].state = s /\ paths'[p].active = (s = "Active")
      /\ paths'[p].cwnd = paths[p].cwnd /\ paths'[p].phase = paths[p].phase
  BY <1>1, <1>2 DEF Entry
<1> QED
  BY <1>2, <1>3, <1>4 DEF Marks

\* Every operation on a path but on_congestion and schedule_next.
MarkPath(p) == ActivatePath(p) \/ StandbyPath(p) \/ AbandonPath(p) \/ SeamlessFailover(p)
LEMMA MarkStep ==
  ASSUME TypeOK, NEW p \in DOMAIN paths, MarkPath(p)
  PROVE  /\ \E s \in PathState : Marks(p, s)
         /\ UNCHANGED <<next_path_id, adding, scheduler>>
<1>t. paths \in [DOMAIN paths -> Entry]
  BY DEF TypeOK
<1>1. CASE ActivatePath(p)
  BY <1>1, <1>t, Marked DEF ActivatePath, SetState, PathState
<1>2. CASE StandbyPath(p)
  BY <1>2, <1>t, Marked DEF StandbyPath, SetState, PathState
<1>3. CASE AbandonPath(p)
  BY <1>3, <1>t, Marked DEF AbandonPath, SetState, PathState
<1>4. CASE SeamlessFailover(p)
  <2>1. paths' = [paths EXCEPT ![p].state = "Closed", ![p].active = "Closed" = "Active"]
    BY <1>4 DEF SeamlessFailover, Halted
  <2> QED
    BY <1>4, <1>t, <2>1, Marked DEF SeamlessFailover, PathState
<1> QED
  BY <1>1, <1>2, <1>3, <1>4 DEF MarkPath

\* on_congestion.
LEMMA CongestionStep ==
  ASSUME TypeOK, NEW p \in DOMAIN paths, OnCongestion(p)
  PROVE  /\ DOMAIN paths' = DOMAIN paths
         /\ \A q \in DOMAIN paths : q # p => paths'[q] = paths[q]
         /\ paths'[p] \in Entry /\ paths'[p].phase = "Recovery"
         /\ paths'[p].state = paths[p].state /\ paths'[p].active = paths[p].active
         /\ paths'[p].cwnd = IF paths[p].phase = "SlowStart"
                             THEN Halved(paths[p].cwnd) + 3 * Windows.mss ELSE Halved(paths[p].cwnd)
         /\ UNCHANGED <<next_path_id, adding, scheduler>>
<1> DEFINE half == Halved(paths[p].cwnd)
           cwnd == IF paths[p].phase = "SlowStart" THEN half + 3 * Windows.mss ELSE half
<1>1. paths[p] \in Entry /\ paths[p].cwnd \in Nat
  BY DEF TypeOK, Entry
<1>2. half \in Nat /\ cwnd \in Nat
  BY <1>1, HalfWindow
<1>3. /\ paths' = [paths EXCEPT ![p] = [paths[p] EXCEPT !.cwnd = cwnd, !.ssthresh = half, !.phase = "Recovery"]]
      /\ UNCHANGED <<next_path_id, adding, scheduler>>
  BY DEF OnCongestion
<1> HIDE DEF half, cwnd
<1>4. paths'[p] = [paths[p] EXCEPT !.cwnd = cwnd, !.ssthresh = half, !.phase = "Recovery"]
  BY <1>3 DEF TypeOK
<1>5. paths'[p] \in Entry
  <2>1. [paths[p] EXCEPT !.cwnd = cwnd, !.ssthresh = half, !.phase = "Recovery"] \in Entry
    BY <1>1, <1>2 DEF Entry
  <2> QED
    BY <2>1, <1>4
<1>6. /\ paths'[p].phase = "Recovery" /\ paths'[p].cwnd = cwnd
      /\ paths'[p].state = paths[p].state /\ paths'[p].active = paths[p].active
  BY <1>1, <1>4 DEF Entry
<1>7. DOMAIN paths' = DOMAIN paths /\ \A q \in DOMAIN paths : q # p => paths'[q] = paths[q]
  BY <1>3
<1> QED
  BY <1>3, <1>5, <1>6, <1>7 DEF cwnd, half

-----------------------------------------------------------------------------
\* Init establishes the types.
LEMMA InitType == Init => TypeOK
<1> SUFFICES ASSUME Init PROVE TypeOK
  OBVIOUS
<1>1. IdModulus > 0
  BY Numbers
<1>2. DOMAIN paths = {} /\ DOMAIN adding = {} /\ DOMAIN path_packets = {}
  BY DEF Init
<1>3. paths \in [{} -> Entry] /\ adding \in [{} -> Ids] /\ path_packets \in [{} -> Nat]
  BY DEF Init
<1> QED
  BY <1>1, <1>2, <1>3, ConstantsAssumption DEF Init, TypeOK

\* Every step keeps the types.
LEMMA NextType == TypeOK /\ [Next]_vars => TypeOK'
<1> SUFFICES ASSUME TypeOK, [Next]_vars PROVE TypeOK'
  OBVIOUS
<1>c. Constants'
  BY ConstantsAssumption DEF Constants
<1>u. CASE UNCHANGED vars
  BY <1>u, <1>c DEF TypeOK, vars
<1>1. ASSUME NEW c \in Callers, AddPathCheck(c) PROVE TypeOK'
  <2>1. next_path_id % IdModulus \in Ids
    BY Numbers DEF TypeOK, Ids
  <2>2. /\ DOMAIN adding' = DOMAIN adding \cup {c} /\ adding' \in [DOMAIN adding \cup {c} -> Ids]
    BY <1>1, <2>1 DEF AddPathCheck, TypeOK, Put
  <2>3. next_path_id' \in Nat /\ UNCHANGED <<paths, scheduler>>
    BY <1>1 DEF AddPathCheck, TypeOK
  <2> QED
    BY <1>c, <2>2, <2>3 DEF TypeOK, scheduler
<1>2. ASSUME NEW c \in Callers, AddPathInsert(c) PROVE TypeOK'
  <2>1. c \in DOMAIN adding /\ adding[c] \in Ids
    BY <1>2 DEF AddPathInsert, TypeOK
  <2>2. DOMAIN paths' = DOMAIN paths \cup {adding[c]} /\ paths' \in [DOMAIN paths \cup {adding[c]} -> Entry]
    BY <1>2, <2>1, Entries DEF AddPathInsert, TypeOK, Put
  <2>3. DOMAIN adding' = DOMAIN adding \ {c} /\ adding' \in [DOMAIN adding \ {c} -> Ids]
    BY <1>2 DEF AddPathInsert, TypeOK, Drop
  <2>4. UNCHANGED <<next_path_id, scheduler>>
    BY <1>2 DEF AddPathInsert
  <2> QED
    BY <1>c, <2>1, <2>2, <2>3, <2>4 DEF TypeOK, scheduler
<1>3. ASSUME NEW p \in DOMAIN paths, MarkPath(p) PROVE TypeOK'
  <2>1. PICK s \in PathState : Marks(p, s)
    BY <1>3, MarkStep
  <2>2. UNCHANGED <<next_path_id, adding, scheduler>>
    BY <1>3, MarkStep
  <2>3. DOMAIN paths' = DOMAIN paths /\ \A q \in DOMAIN paths : paths'[q] \in Entry
    BY <2>1 DEF Marks, TypeOK
  <2>4. paths' \in [DOMAIN paths' -> Entry]
    BY <1>3, <2>3 DEF MarkPath, ActivatePath, StandbyPath, AbandonPath, SeamlessFailover, SetState,
                      Halted, TypeOK
  <2> QED
    BY <1>c, <2>2, <2>3, <2>4 DEF TypeOK, scheduler
<1>4. ASSUME NEW p \in DOMAIN paths, OnCongestion(p) PROVE TypeOK'
  <2>1. UNCHANGED <<next_path_id, adding, scheduler>>
    BY <1>4, CongestionStep
  <2>2. DOMAIN paths' = DOMAIN paths /\ \A q \in DOMAIN paths : paths'[q] \in Entry
    BY <1>4, CongestionStep DEF TypeOK
  <2>3. paths' \in [DOMAIN paths' -> Entry]
    BY <1>4, <2>2 DEF OnCongestion, TypeOK
  <2> QED
    BY <1>c, <2>1, <2>2, <2>3 DEF TypeOK, scheduler
<1>5. ASSUME NEW p \in DOMAIN paths, Schedule(p) PROVE TypeOK'
  <2>1. UNCHANGED <<paths, next_path_id, adding, strategy>>
    BY <1>5 DEF Schedule
  <2>2. scheduled' \in [all : Nat, uncounted : Nat] /\ total_packets' \in Nat
    BY <1>5 DEF Schedule, TypeOK
  <2>3. CASE path_packets' = Counted(p)
    <3>1. (IF p \in DOMAIN path_packets THEN path_packets[p] + 1 ELSE 1) \in Nat
      BY DEF TypeOK
    <3>2. /\ DOMAIN path_packets' = DOMAIN path_packets \cup {p}
          /\ path_packets' \in [DOMAIN path_packets \cup {p} -> Nat]
      BY <2>3, <3>1 DEF Counted, TypeOK, Put
    <3> QED
      BY <1>c, <2>1, <2>2, <3>2 DEF TypeOK
  <2>4. CASE UNCHANGED path_packets
    BY <1>c, <2>1, <2>2, <2>4 DEF TypeOK
  <2> QED
    BY <1>5, <2>3, <2>4 DEF Schedule
<1>6. ASSUME NEW s \in Strategies, SetStrategy(s) PROVE TypeOK'
  BY <1>6, <1>c DEF SetStrategy, TypeOK
<1> QED
  BY <1>u, <1>1, <1>2, <1>3, <1>4, <1>5, <1>6 DEF Next, MarkPath

(* The tables keep their shapes, whatever the strategies and the numbers of *)
(* paths and callers.                                                       *)
THEOREM TypeCorrect == Spec => []TypeOK
<1>1. Init => TypeOK
  BY InitType
<1>2. TypeOK /\ [Next]_vars => TypeOK'
  BY NextType
<1> QED
  BY <1>1, <1>2, PTL DEF Spec

-----------------------------------------------------------------------------
(* An identifier that is in the table or drawn for it is less than the     *)
(* counter, and the counter counts both: nothing is ever taken out, since  *)
(* neither abandon_path nor seamless_failover removes an entry.  The limit *)
(* and the callers together are fewer than the identifiers, so the counter *)
(* never wraps.                                                            *)
Counter ==
    /\ next_path_id = Cardinality(DOMAIN paths) + Cardinality(DOMAIN adding) + 1
    /\ \A p \in DOMAIN paths : p < next_path_id
    /\ \A c \in DOMAIN adding : adding[c] < next_path_id
AddInv == Overshoot /\ NoPathReplaced /\ Counter

\* The tables are finite.
LEMMA Sizes ==
  ASSUME TypeOK
  PROVE  /\ IsFiniteSet(DOMAIN paths) /\ Cardinality(DOMAIN paths) \in Nat
         /\ IsFiniteSet(DOMAIN adding) /\ Cardinality(DOMAIN adding) \in Nat
<1>1. IsFiniteSet(Ids)
  BY Numbers, FS_Interval DEF Ids
<1>2. IsFiniteSet(DOMAIN paths) /\ IsFiniteSet(DOMAIN adding)
  BY <1>1, Numbers, FS_Subset DEF TypeOK
<1> QED
  BY <1>2, FS_CardinalityType

\* No path, no identifier drawn.
LEMMA InitAdd == Init => AddInv
<1> SUFFICES ASSUME Init PROVE AddInv
  OBVIOUS
<1>1. DOMAIN paths = {} /\ DOMAIN adding = {} /\ next_path_id = 1
  BY DEF Init
<1>2. Cardinality(DOMAIN paths) = 0 /\ Cardinality(DOMAIN adding) = 0
  BY <1>1, FS_EmptySet
<1> QED
  BY <1>1, <1>2, Numbers DEF AddInv, Overshoot, NoPathReplaced, Counter

\* The first part of add_path.
LEMMA CheckAdd ==
  ASSUME TypeOK, AddInv, NEW c \in Callers, AddPathCheck(c)
  PROVE  AddInv'
<1> DEFINE id == next_path_id
<1>0. /\ c \notin DOMAIN adding /\ Cardinality(DOMAIN paths) < max_paths
      /\ next_path_id' = next_path_id + 1 /\ paths' = paths
      /\ adding' = Put(adding, c, next_path_id % IdModulus)
  BY DEF AddPathCheck, HasRoom
<1>1. id \in Nat /\ id % IdModulus = id
  BY Sizes, Numbers DEF TypeOK, AddInv, Overshoot, Counter
<1>2. /\ DOMAIN adding' = DOMAIN adding \cup {c} /\ adding'[c] = id
      /\ \A d \in DOMAIN adding : d # c /\ adding'[d] = adding[d]
  BY <1>0, <1>1 DEF Put
<1>3. Cardinality(DOMAIN adding') = Cardinality(DOMAIN adding) + 1
  BY <1>0, <1>2, Sizes, FS_AddElement
<1>4. Cardinality(DOMAIN adding) < Cardinality(Callers)
  <2>1. DOMAIN adding \in SUBSET Callers /\ DOMAIN adding # Callers
    BY <1>0 DEF TypeOK
  <2>2. Cardinality(DOMAIN adding) <= Cardinality(Callers) /\ Cardinality(DOMAIN adding) # Cardinality(Callers)
    BY <2>1, Numbers, FS_Subset
  <2> QED
    BY <2>2, Numbers, Sizes
<1>5. Overshoot'
  BY <1>0, <1>3, <1>4, Numbers, Sizes DEF Overshoot
<1>6. Counter'
  <2>1. next_path_id' = Cardinality(DOMAIN paths') + Cardinality(DOMAIN adding') + 1
    BY <1>0, <1>3, Sizes DEF AddInv, Counter
  <2>2. \A p \in DOMAIN paths' : p < next_path_id'
    BY <1>0, <1>1 DEF AddInv, Counter, TypeOK, Ids
  <2>3. \A d \in DOMAIN adding' : adding'[d] < next_path_id'
    BY <1>0, <1>1, <1>2 DEF AddInv, Counter, TypeOK, Ids
  <2> QED
    BY <2>1, <2>2, <2>3 DEF Counter
<1>7. NoPathReplaced'
  <2>1. id \notin DOMAIN paths /\ \A d \in DOMAIN adding : adding[d] # id
    BY <1>1 DEF AddInv, Counter
  <2>2. \A d \in DOMAIN adding' : adding'[d] \notin DOMAIN paths'
    BY <1>0, <1>2, <2>1 DEF AddInv, NoPathReplaced
  <2>3. \A d, e \in DOMAIN adding' : adding'[d] = adding'[e] => d = e
    BY <1>2, <2>1 DEF AddInv, NoPathReplaced
  <2> QED
    BY <2>2, <2>3 DEF NoPathReplaced
<1> QED
  BY <1>5, <1>6, <1>7 DEF AddInv

\* The second part of add_path.
LEMMA InsertAdd ==
  ASSUME TypeOK, AddInv, NEW c \in Callers, AddPathInsert(c)
  PROVE  AddInv'
<1>0. /\ c \in DOMAIN adding /\ next_path_id' = next_path_id
      /\ paths' = Put(paths, adding[c], Fresh) /\ adding' = Drop(adding, c)
  BY DEF AddPathInsert
<1>1. /\ DOMAIN paths' = DOMAIN paths \cup {adding[c]} /\ adding[c] \notin DOMAIN paths
      /\ DOMAIN adding' = DOMAIN adding \ {c} /\ \A d \in DOMAIN adding' : adding'[d] = adding[d]
  BY <1>0 DEF Put, Drop, AddInv, NoPathReplaced
<1>2. Cardinality(DOMAIN paths') = Cardinality(DOMAIN paths) + 1
  BY <1>1, Sizes, FS_AddElement
<1>3. Cardinality(DOMAIN adding') = Cardinality(DOMAIN adding) - 1
  BY <1>0, <1>1, Sizes, FS_RemoveElement
<1>4. Overshoot'
  BY <1>2, <1>3, Sizes, Numbers DEF AddInv, Overshoot
<1>5. Counter'
  <2>1. next_path_id' = Cardinality(DOMAIN paths') + Cardinality(DOMAIN adding') + 1
    BY <1>0, <1>2, <1>3, Sizes DEF AddInv, Counter
  <2>2. \A p \in DOMAIN paths' : p < next_path_id'
    BY <1>0, <1>1 DEF AddInv, Counter
  <2>3. \A d \in DOMAIN adding' : adding'[d] < next_path_id'
    BY <1>0, <1>1 DEF AddInv, Counter
  <2> QED
    BY <2>1, <2>2, <2>3 DEF Counter
<1>6. NoPathReplaced'
  BY <1>0, <1>1 DEF AddInv, NoPathReplaced
<1> QED
  BY <1>4, <1>5, <1>6 DEF AddInv

\* No other operation adds a path or draws an identifier.
LEMMA OtherAdd ==
  ASSUME AddInv, DOMAIN paths' = DOMAIN paths, UNCHANGED <<next_path_id, adding>>
  PROVE  AddInv'
  BY DEF AddInv, Overshoot, NoPathReplaced, Counter

\* Every step keeps what is known of identifiers.
LEMMA NextAdd == TypeOK /\ AddInv /\ [Next]_vars => AddInv'
<1> SUFFICES ASSUME TypeOK, AddInv, [Next]_vars PROVE AddInv'
  OBVIOUS
<1>u. CASE UNCHANGED vars
  BY <1>u, OtherAdd DEF vars
<1>1. ASSUME NEW c \in Callers, AddPathCheck(c) \/ AddPathInsert(c) PROVE AddInv'
  BY <1>1, CheckAdd, InsertAdd
<1>2. ASSUME NEW p \in DOMAIN paths, MarkPath(p) PROVE AddInv'
  <2>1. DOMAIN paths' = DOMAIN paths /\ UNCHANGED <<next_path_id, adding>>
    BY <1>2, MarkStep DEF Marks
  <2> QED
    BY <2>1, OtherAdd
<1>3. ASSUME NEW p \in DOMAIN paths, OnCongestion(p) PROVE AddInv'
  BY <1>3, CongestionStep, OtherAdd
<1>4. ASSUME NEW p \in DOMAIN paths, Schedule(p) PROVE AddInv'
  BY <1>4, OtherAdd DEF Schedule
<1>5. ASSUME NEW s \in Strategies, SetStrategy(s) PROVE AddInv'
  BY <1>5, OtherAdd DEF SetStrategy
<1> QED
  BY <1>u, <1>1, <1>2, <1>3, <1>4, <1>5 DEF Next, MarkPath

\* The invariant of add_path.
LEMMA AddCorrect == Spec => [](TypeOK /\ AddInv)
<1>1. Init => TypeOK /\ AddInv
  BY InitType, InitAdd
<1>2. TypeOK /\ AddInv /\ [Next]_vars => (TypeOK /\ AddInv)'
  BY NextType, NextAdd
<1> QED
  BY <1>1, <1>2, PTL DEF Spec

(* The calls of add_path between their test and their insertion take the    *)
(* table past its limit by less than their number.                          *)
THEOREM OvershootBounded == Spec => []Overshoot
<1>1. AddInv => Overshoot
  BY DEF AddInv
<1> QED
  BY <1>1, AddCorrect, PTL

(* A path is never put in the place of another: add_path does not draw an   *)
(* identifier that is in the table or in the hands of another call.         *)
THEOREM IdentifiersUnique == Spec => []NoPathReplaced
<1>1. AddInv => NoPathReplaced
  BY DEF AddInv
<1> QED
  BY <1>1, AddCorrect, PTL

-----------------------------------------------------------------------------
\* Before its first congestion event a path has its initial window.
Untouched == \A p \in DOMAIN paths : paths[p].phase = "SlowStart" => paths[p].cwnd = Windows.initial
PathInv == FlagsAgree /\ LeastWindow /\ Untouched

\* No path at first.
LEMMA InitPath == Init => PathInv
  BY DEF Init, PathInv, FlagsAgree, LeastWindow, Untouched

\* Of the fresh entry that add_path inserts.
LEMMA FreshPath ==
  /\ Fresh.active = FALSE /\ Fresh.state # "Active"
  /\ Fresh.cwnd = Windows.initial /\ Fresh.cwnd >= Windows.least
  BY Numbers DEF Fresh

\* Every step keeps flags and windows right.
LEMMA NextPath == TypeOK /\ PathInv /\ [Next]_vars => PathInv'
<1> SUFFICES ASSUME TypeOK, PathInv, [Next]_vars PROVE PathInv'
  OBVIOUS
<1>s. ASSUME UNCHANGED paths PROVE PathInv'
  BY <1>s DEF PathInv, FlagsAgree, LeastWindow, Untouched
<1>1. ASSUME NEW c \in Callers, AddPathInsert(c) PROVE PathInv'
  <2>1. /\ DOMAIN paths' = DOMAIN paths \cup {adding[c]}
        /\ \A p \in DOMAIN paths' : paths'[p] = Fresh \/ (p \in DOMAIN paths /\ paths'[p] = paths[p])
    BY <1>1 DEF AddPathInsert, Put
  <2> QED
    BY <2>1, FreshPath DEF PathInv, FlagsAgree, LeastWindow, Untouched
<1>2. ASSUME NEW p \in DOMAIN paths, MarkPath(p) PROVE PathInv'
  <2>1. PICK s \in PathState : Marks(p, s)
    BY <1>2, MarkStep
  <2>2. FlagsAgree'
    <3>1. paths'[p].active <=> paths'[p].state = "Active"
      BY <2>1 DEF Marks
    <3>2. \A q \in DOMAIN paths : q # p => (paths'[q].active <=> paths'[q].state = "Active")
      BY <2>1 DEF PathInv, FlagsAgree, Marks
    <3> QED
      BY <2>1, <3>1, <3>2 DEF FlagsAgree, Marks
  <2>3. LeastWindow' /\ Untouched'
    BY <2>1 DEF PathInv, LeastWindow, Untouched, Marks
  <2> QED
    BY <2>2, <2>3 DEF PathInv
<1>3. ASSUME NEW p \in DOMAIN paths, OnCongestion(p) PROVE PathInv'
  <2>1. paths[p].cwnd \in Nat
    BY DEF TypeOK, Entry
  <2>2. paths'[p].cwnd >= Windows.least
    BY <1>3, <2>1, CongestionStep, HalfWindow, Numbers
  <2>3. FlagsAgree'
    BY <1>3, CongestionStep DEF PathInv, FlagsAgree
  <2>4. LeastWindow' /\ Untouched'
    BY <1>3, <2>2, CongestionStep DEF PathInv, LeastWindow, Untouched
  <2> QED
    BY <2>3, <2>4 DEF PathInv
<1> QED
  <2>1. CASE UNCHANGED vars
    BY <2>1, <1>s DEF vars
  <2>2. ASSUME NEW c \in Callers, AddPathCheck(c) PROVE PathInv'
    BY <2>2, <1>s DEF AddPathCheck
  <2>3. ASSUME NEW p \in DOMAIN paths, Schedule(p) PROVE PathInv'
    BY <2>3, <1>s DEF Schedule
  <2>4. ASSUME NEW s \in Strategies, SetStrategy(s) PROVE PathInv'
    BY <2>4, <1>s DEF SetStrategy
  <2> QED
    BY <1>1, <1>2, <1>3, <2>1, <2>2, <2>3, <2>4 DEF Next, MarkPath

\* The invariant of the entries.
LEMMA PathCorrect == Spec => [](TypeOK /\ PathInv)
<1>1. Init => TypeOK /\ PathInv
  BY InitType, InitPath
<1>2. TypeOK /\ PathInv /\ [Next]_vars => (TypeOK /\ PathInv)'
  BY NextType, NextPath
<1> QED
  BY <1>1, <1>2, PTL DEF Spec

(* The flag that the scheduler reads and the state that the other calls     *)
(* read say the same, whatever activate_path, standby_path, abandon_path    *)
(* and seamless_failover did before.                                        *)
THEOREM FlagsCorrect == Spec => []FlagsAgree
<1>1. PathInv => FlagsAgree
  BY DEF PathInv
<1> QED
  BY <1>1, PathCorrect, PTL

(* However many congestion events a path goes through, its window does not  *)
(* fall under the least one.                                                *)
THEOREM WindowAtLeast == Spec => []LeastWindow
<1>1. PathInv => LeastWindow
  BY DEF PathInv
<1> QED
  BY <1>1, PathCorrect, PTL

\* A step from a state where all of this holds enlarges no window.
LEMMA WindowStep ==
  TypeOK /\ PathInv /\ AddInv /\ [Next]_vars => \A p \in DOMAIN paths : paths'[p].cwnd <= paths[p].cwnd
<1> DEFINE Shrinks == \A p \in DOMAIN paths : paths'[p].cwnd <= paths[p].cwnd
<1> SUFFICES ASSUME TypeOK, PathInv, AddInv, [Next]_vars PROVE Shrinks
  OBVIOUS
<1>0. \A p \in DOMAIN paths : paths[p].cwnd \in Nat
  BY DEF TypeOK, Entry
<1>s. ASSUME UNCHANGED paths PROVE Shrinks
  BY <1>0, <1>s
<1>1. ASSUME NEW c \in Callers, AddPathInsert(c) PROVE Shrinks
  <2>1. \A p \in DOMAIN paths : paths'[p] = paths[p]
    BY <1>1 DEF AddPathInsert, Put, AddInv, NoPathReplaced
  <2> QED
    BY <1>0, <2>1
<1>2. ASSUME NEW p \in DOMAIN paths, MarkPath(p) PROVE Shrinks
  <2>1. \A q \in DOMAIN paths : paths'[q].cwnd = paths[q].cwnd
    BY <1>2, MarkStep DEF Marks
  <2> QED
    BY <1>0, <2>1
<1>3. ASSUME NEW p \in DOMAIN paths, OnCongestion(p) PROVE Shrinks
  <2>1. paths'[p].cwnd <= paths[p].cwnd
    BY <1>0, <1>3, CongestionStep, HalfWindow DEF PathInv, LeastWindow, Untouched
  <2>2. \A q \in DOMAIN paths : q # p => paths'[q] = paths[q]
    BY <1>3, CongestionStep
  <2> QED
    BY <1>0, <2>1, <2>2
<1>4. ASSUME NEW c \in Callers, AddPathCheck(c) PROVE Shrinks
  BY <1>4, <1>s DEF AddPathCheck
<1>5. ASSUME NEW p \in DOMAIN paths, Schedule(p) PROVE Shrinks
  BY <1>5, <1>s DEF Schedule
<1>6. ASSUME NEW s \in Strategies, SetStrategy(s) PROVE Shrinks
  BY <1>6, <1>s DEF SetStrategy
<1> QED
  BY <1>s, <1>1, <1>2, <1>3, <1>4, <1>5, <1>6 DEF Next, MarkPath, vars

(* No step enlarges a window: the three segments that on_congestion adds to *)
(* half a window do not make it more than it was, because only the first    *)
(* event, on the initial window, adds them.                                 *)
THEOREM WindowsShrink == Spec => NeverGrows
<1>1. TypeOK /\ PathInv /\ AddInv /\ [Next]_vars => [\A p \in DOMAIN paths : paths'[p].cwnd <= paths[p].cwnd]_vars
  BY WindowStep
<1> QED
  BY <1>1, AddCorrect, PathCorrect, PTL DEF Spec, NeverGrows

-----------------------------------------------------------------------------
\* No packet at first.
LEMMA InitCount == Init => CountsAgree
<1> SUFFICES ASSUME Init PROVE CountsAgree
  OBVIOUS
<1>1. DOMAIN path_packets = {} /\ total_packets = 0 /\ scheduled.all = 0 /\ scheduled.uncounted = 0
  BY DEF Init
<1>2. SumFunction(path_packets) = 0
  BY <1>1, SumEmpty
<1> QED
  BY <1>1, <1>2 DEF CountsAgree

\* Every step keeps the totals.
LEMMA NextCount == TypeOK /\ CountsAgree /\ [Next]_vars => CountsAgree'
<1> SUFFICES ASSUME TypeOK, CountsAgree, [Next]_vars PROVE CountsAgree'
  OBVIOUS
<1>s. ASSUME UNCHANGED scheduler PROVE CountsAgree'
  BY <1>s DEF CountsAgree, scheduler
<1>t. /\ scheduled.all \in Nat /\ scheduled.uncounted \in Nat /\ total_packets \in Nat
      /\ scheduled \in [all : Nat, uncounted : Nat]
  BY DEF TypeOK
<1>f. Summable(path_packets)
  <2>1. IsFiniteSet(DOMAIN path_packets)
    BY Sizes, FS_Subset DEF TypeOK
  <2> QED
    BY <2>1 DEF TypeOK, Summable
<1>1. ASSUME NEW p \in DOMAIN paths, Schedule(p) PROVE CountsAgree'
  <2>1. CASE /\ path_packets' = Counted(p) /\ total_packets' = total_packets + 1
             /\ scheduled' = [scheduled EXCEPT !.all = @ + 1]
    <3> DEFINE v == IF p \in DOMAIN path_packets THEN path_packets[p] + 1 ELSE 1
    <3>1. path_packets' = With(path_packets, p, v)
      BY <2>1 DEF Counted, Put, With
    <3>2. v \in Nat /\ (p \in DOMAIN path_packets => path_packets[p] \in Nat /\ v = path_packets[p] + 1)
          /\ (p \notin DOMAIN path_packets => v = 1)
      BY <1>f DEF Summable
    <3> HIDE DEF v
    <3>3. SumFunction(path_packets') =
             v + (IF p \in DOMAIN path_packets THEN SumFunction(path_packets) - path_packets[p]
                  ELSE SumFunction(path_packets))
      BY <1>f, <3>1, <3>2, SumWith
    <3>4. SumFunction(path_packets) = total_packets
      BY DEF CountsAgree
    <3>5. SumFunction(path_packets') = total_packets + 1
      BY <1>t, <3>2, <3>3, <3>4
    <3>6. scheduled'.all = scheduled.all + 1 /\ scheduled'.uncounted = scheduled.uncounted
      BY <1>t, <2>1
    <3>7. total_packets' = scheduled'.all - scheduled'.uncounted
      BY <1>t, <2>1, <3>6 DEF CountsAgree
    <3> QED
      BY <2>1, <3>5, <3>7 DEF CountsAgree
  <2>2. CASE /\ scheduled' = [all |-> scheduled.all + 1, uncounted |-> scheduled.uncounted + 1]
             /\ UNCHANGED <<path_packets, total_packets>>
    BY <1>t, <2>2 DEF CountsAgree
  <2> QED
    BY <1>1, <2>1, <2>2 DEF Schedule
<1>2. CASE UNCHANGED vars
  BY <1>2, <1>s DEF vars, scheduler
<1>3. ASSUME NEW c \in Callers, AddPathCheck(c) \/ AddPathInsert(c) PROVE CountsAgree'
  BY <1>3, <1>s DEF AddPathCheck, AddPathInsert
<1>4. ASSUME NEW p \in DOMAIN paths, MarkPath(p) PROVE CountsAgree'
  BY <1>4, <1>s, MarkStep
<1>5. ASSUME NEW p \in DOMAIN paths, OnCongestion(p) PROVE CountsAgree'
  BY <1>5, <1>s, CongestionStep
<1>6. ASSUME NEW s \in Strategies, SetStrategy(s) PROVE CountsAgree'
  BY <1>6, <1>s DEF SetStrategy, CountsAgree
<1> QED
  BY <1>1, <1>2, <1>3, <1>4, <1>5, <1>6 DEF Next, MarkPath

-----------------------------------------------------------------------------
(* Path selection.                                                         *)
LEMMA SelectorConstants ==
  /\ Selector!Constants /\ MaxPaths \in Nat
  /\ \A m \in Measurements \cup {Selector!Unmeasured} :
        m.rtt \in Nat /\ m.loss \in 0 .. 100 /\ m.jitter \in Nat /\ m.mbps \in Nat
  /\ \A k \in Kinds : k.v6 \in BOOLEAN /\ k.type \in {"Local", "Direct", "HolePunch", "Quic", "Relay"}
  BY DataPlaneAssumption DEF Selector!Constants, Selector!Unmeasured

LEMMA SameInSelector == ASSUME NEW list, NEW S PROVE Selector!Keep(list, S) = Keep(list, S)
<1>1. ASSUME NEW s PROVE Selector!Cardinality(s) = Cardinality(s)
  BY DEF Selector!Cardinality, Cardinality
<1>2. ASSUME NEW I, NEW R, NEW k PROVE Selector!Ranked(I, R, k) = Ranked(I, R, k)
  BY <1>1 DEF Selector!Ranked, Ranked
<1> QED
  BY <1>1, <1>2 DEF Selector!Keep, Selector!KeptIndices, Selector!Ascending, Keep, KeptIndices, Ascending

LEMMA SelectorInit == Selector!Init => Selector!TypeOK
<1>1. <<>> \in Seq(Selector!Path) /\ Len(<<>>) = 0
  OBVIOUS
<1> QED
  BY <1>1, SelectorConstants DEF Selector!Init, Selector!TypeOK

\* What update_metrics makes of a path.
LEMMA PathUpdated ==
  ASSUME NEW p \in Selector!Path, NEW m \in Measurements
  PROVE  LET q == [p EXCEPT !.metrics = m, !.state = Selector!Demoted(@, m)] IN
         q \in Selector!Path /\ (p.state # "Active" => q.state # "Active")
<1>1. Selector!Demoted(p.state, m) \in {p.state, "Inactive", "Degraded"}
  BY DEF Selector!Demoted
<1> QED
  BY <1>1 DEF Selector!Path

\* A step: the shapes, and that no path becomes active again.
LEMMA SelectorNext ==
  ASSUME Selector!TypeOK, [Selector!Next]_selector_vars
  PROVE  /\ Selector!TypeOK'
         /\ (\A i \in DOMAIN selector_paths : selector_paths[i].state # "Active")
                /\ Len(selector_paths') <= Len(selector_paths)
            => \A i \in DOMAIN selector_paths' : selector_paths'[i].state # "Active"
<1> DEFINE Recovers == \E i \in DOMAIN selector_paths' : selector_paths'[i].state = "Active"
           Had == \E i \in DOMAIN selector_paths : selector_paths[i].state = "Active"
           Shape(list) == list \in Seq(Selector!Path) /\ Len(list) <= MaxPaths
<1>0. /\ Selector!Constants' /\ Shape(selector_paths) /\ active \in PathIds \cup {None}
      /\ selector_calls \in [Callers -> PathIds \cup {"lookup", None}]
  BY SelectorConstants DEF Selector!TypeOK, Selector!Constants
<1>1. ASSUME NEW id \in PathIds, NEW kind \in Kinds, Selector!AddPath(id, kind)
      PROVE  Selector!TypeOK' /\ Len(selector_paths') > Len(selector_paths)
  <2> DEFINE path == [id |-> id, kind |-> kind, state |-> "Active", metrics |-> Selector!Unmeasured]
  <2>1. path \in Selector!Path
    BY DEF Selector!Path
  <2>2. selector_paths' = Append(selector_paths, path) /\ Len(selector_paths) < MaxPaths
        /\ UNCHANGED <<active, selector_calls>>
    BY <1>1 DEF Selector!AddPath
  <2> HIDE DEF path
  <2>3. Shape(selector_paths') /\ Len(selector_paths') > Len(selector_paths)
    BY <1>0, <2>1, <2>2, SelectorConstants
  <2> QED
    BY <1>0, <2>2, <2>3 DEF Selector!TypeOK
<1>2. ASSUME NEW id \in PathIds, NEW m \in Measurements, Selector!UpdateMetrics(id, m)
      PROVE  Selector!TypeOK' /\ (Recovers => Had)
  <2>1. /\ selector_paths' = [i \in DOMAIN selector_paths |->
                    IF selector_paths[i].id = id
                    THEN [selector_paths[i] EXCEPT !.metrics = m, !.state = Selector!Demoted(@, m)]
                    ELSE selector_paths[i]]
        /\ UNCHANGED <<active, selector_calls>>
    BY <1>2 DEF Selector!UpdateMetrics
  <2>2. \A i \in DOMAIN selector_paths :
            /\ selector_paths'[i] \in Selector!Path
            /\ selector_paths[i].state # "Active" => selector_paths'[i].state # "Active"
    <3> TAKE i \in DOMAIN selector_paths
    <3>1. selector_paths[i] \in Selector!Path
      BY <1>0
    <3> QED
      BY <2>1, <3>1, PathUpdated
  <2>3. DOMAIN selector_paths' = DOMAIN selector_paths /\ DOMAIN selector_paths = 1 .. Len(selector_paths)
        /\ Len(selector_paths) \in Nat /\ selector_paths' = [i \in DOMAIN selector_paths |-> selector_paths'[i]]
    <3> DEFINE new == [i \in DOMAIN selector_paths |->
                    IF selector_paths[i].id = id
                    THEN [selector_paths[i] EXCEPT !.metrics = m, !.state = Selector!Demoted(@, m)]
                    ELSE selector_paths[i]]
    <3>1. DOMAIN new = DOMAIN selector_paths /\ new = [i \in DOMAIN selector_paths |-> new[i]]
      OBVIOUS
    <3>2. selector_paths' = new
      BY <2>1
    <3> HIDE DEF new
    <3>3. DOMAIN selector_paths = 1 .. Len(selector_paths) /\ Len(selector_paths) \in Nat
      BY <1>0
    <3> QED
      BY <3>1, <3>2, <3>3
  <2>4. Shape(selector_paths')
    BY <1>0, <2>2, <2>3
  <2> QED
    BY <1>0, <2>1, <2>2, <2>3, <2>4 DEF Selector!TypeOK
<1>3. ASSUME NEW c \in Callers, NEW id \in PathIds, Selector!RemovePathBegin(c, id)
      PROVE  Selector!TypeOK' /\ (Recovers => Had)
  <2> DEFINE S == {p \in Selector!Path : p.id # id}
  <2>1. /\ selector_paths' = Keep(selector_paths, S) /\ UNCHANGED active
        /\ selector_calls' = [selector_calls EXCEPT ![c] = id]
    BY <1>3, SameInSelector DEF Selector!RemovePathBegin
  <2> HIDE DEF S
  <2>2. /\ selector_paths' \in Seq(Selector!Path) /\ Len(selector_paths') <= Len(selector_paths)
        /\ \E at \in [DOMAIN selector_paths' -> DOMAIN selector_paths] :
              \A k \in DOMAIN selector_paths' : selector_paths'[k] = selector_paths[at[k]]
    BY <1>0, <2>1, Kept
  <2>3. Shape(selector_paths')
    BY <1>0, <2>2, SelectorConstants
  <2>4. Recovers => Had
    BY <2>2
  <2>5. Selector!TypeOK'
    BY <1>0, <2>1, <2>3 DEF Selector!TypeOK
  <2> QED
    BY <2>4, <2>5
<1>4. ASSUME UNCHANGED selector_paths, active' \in PathIds \cup {None},
             selector_calls' \in [Callers -> PathIds \cup {"lookup", None}]
      PROVE  Selector!TypeOK' /\ (Recovers => Had)
  BY <1>0, <1>4 DEF Selector!TypeOK
<1>5. ASSUME NEW id \in PathIds, Selector!SetActivePath(id) PROVE Selector!TypeOK' /\ (Recovers => Had)
  BY <1>0, <1>4, <1>5 DEF Selector!SetActivePath
<1>6. ASSUME NEW c \in Callers, Selector!RemovePathEnd(c) \/ Selector!GetActiveBegin(c) \/ Selector!GetActiveEnd(c)
      PROVE  Selector!TypeOK' /\ (Recovers => Had)
  BY <1>0, <1>4, <1>6
     DEF Selector!RemovePathEnd, Selector!GetActiveBegin, Selector!GetActiveEnd, Selector!Released
<1>7. CASE UNCHANGED selector_vars
  BY <1>0, <1>4, <1>7 DEF selector_vars
<1>8. CASE Selector!TypeOK' /\ (Recovers => Had)
  BY <1>8
<1>9. CASE Selector!TypeOK' /\ Len(selector_paths') > Len(selector_paths)
  <2>1. Len(selector_paths') \in Nat /\ Len(selector_paths) \in Nat
    BY <1>0, <1>9 DEF Selector!TypeOK
  <2> QED
    BY <1>9, <2>1
<1> HIDE DEF Recovers, Had
<1> QED
  BY <1>1, <1>2, <1>3, <1>5, <1>6, <1>7, <1>8, <1>9 DEF Selector!Next

\* The quality of a healthy path is positive, so that what its kind multiplies it by counts.
LEMMA HealthyQuality ==
  ASSUME NEW rtt \in Nat, NEW loss \in Nat, NEW jitter \in Nat, NEW mbps \in Nat,
         rtt <= 300, loss <= 5, jitter <= 100
  PROVE  LET quality == (1000 - 2 * rtt) * (100 - Selector!Least(loss, 99)) * 10
                            - 500 * jitter + 1000 * Selector!Least(5 * mbps, 500) IN
         quality \in Int /\ quality > 0
<1>1. Selector!Least(loss, 99) = loss /\ Selector!Least(5 * mbps, 500) \in Nat
  BY DEF Selector!Least
<1> DEFINE a == 1000 - 2 * rtt
           b == 100 - loss
           d == Selector!Least(5 * mbps, 500)
<1>2. a \in Int /\ b \in Int /\ a >= 400 /\ b >= 95 /\ d \in Nat
  BY <1>1
<1> HIDE DEF a, b, d
<1>3. (a - 400) * (b - 95) >= 0 /\ a * b \in Int
  BY <1>2
<1>4. (a - 400) * (b - 95) = a * b - 95 * a - 400 * b + 38000
  BY <1>2
<1>5. a * b >= 38000
  BY <1>2, <1>3, <1>4
<1>6. a * b * 10 - 500 * jitter + 1000 * d \in Int /\ a * b * 10 - 500 * jitter + 1000 * d > 0
  BY <1>2, <1>3, <1>5
<1> QED
  BY <1>1, <1>6 DEF a, b, d

LEMMA SelectorOrder == Selector!TypeOK => Selector!HealthyOrder
<1> SUFFICES ASSUME Selector!TypeOK, NEW i \in Selector!BestPath, NEW j \in DOMAIN selector_paths,
                    selector_paths[j].state # "Inactive", selector_paths[i].metrics = selector_paths[j].metrics,
                    Selector!Healthy(selector_paths[i])
             PROVE  LET p == selector_paths[i].kind
                        q == selector_paths[j].kind IN
                    /\ p.type = q.type /\ q.v6 => p.v6
                    /\ p.v6 = q.v6 /\ p.type = "Relay" => q.type = "Relay"
  BY DEF Selector!HealthyOrder
<1> DEFINE p == selector_paths[i]
           q == selector_paths[j]
           m == p.metrics
           quality == (1000 - 2 * m.rtt) * (100 - Selector!Least(m.loss, 99)) * 10
                          - 500 * m.jitter + 1000 * Selector!Least(5 * m.mbps, 500)
           v(r) == Selector!Boost(r.kind)
           t(r) == Selector!TypeFactor(r.kind.type)
<1>1. i \in DOMAIN selector_paths /\ selector_paths \in Seq(Selector!Path)
  BY DEF Selector!BestPath, Selector!Usable, Selector!TypeOK
<1>2. p \in Selector!Path /\ q \in Selector!Path
  BY <1>1
<1>3. /\ p.kind \in Kinds /\ q.kind \in Kinds /\ m = q.metrics
      /\ m.rtt \in Nat /\ m.loss \in Nat /\ m.jitter \in Nat /\ m.mbps \in Nat
  BY <1>2, SelectorConstants DEF Selector!Path
<1>4. j \in Selector!Usable
  BY <1>2 DEF Selector!Usable, Selector!Path
<1>5. Selector!ScorePath(p) > Selector!ScorePath(q) \/ Selector!ScorePath(p) = Selector!ScorePath(q)
  BY <1>4 DEF Selector!BestPath
<1>6. Selector!ScorePath(p) = quality * v(p) * t(p) /\ Selector!ScorePath(q) = quality * v(q) * t(q)
  BY <1>3 DEF Selector!ScorePath
<1>7. quality \in Int /\ quality > 0
  <2>1. m.rtt <= 300 /\ m.loss <= 5 /\ m.jitter <= 100
    BY DEF Selector!Healthy
  <2> DEFINE a == m.rtt
             b == m.loss
             c == m.jitter
             d == m.mbps
             value == (1000 - 2 * a) * (100 - Selector!Least(b, 99)) * 10
                          - 500 * c + 1000 * Selector!Least(5 * d, 500)
  <2>2. a \in Nat /\ b \in Nat /\ c \in Nat /\ d \in Nat /\ a <= 300 /\ b <= 5 /\ c <= 100
    BY <1>3, <2>1
  <2>3. quality = value
    OBVIOUS
  <2> HIDE DEF a, b, c, d, quality
  <2>4. value \in Int /\ value > 0
    BY <2>2, HealthyQuality
  <2> QED
    BY <2>3, <2>4
<1>8. /\ p.kind.v6 \in BOOLEAN /\ q.kind.v6 \in BOOLEAN
      /\ p.kind.type \in {"Local", "Direct", "HolePunch", "Quic", "Relay"}
      /\ q.kind.type \in {"Local", "Direct", "HolePunch", "Quic", "Relay"}
  BY <1>3, SelectorConstants
<1> HIDE DEF p, q, quality
<1>9. v(p) = (IF p.kind.v6 THEN 3 ELSE 2) /\ v(q) = (IF q.kind.v6 THEN 3 ELSE 2)
  BY DEF Selector!Boost
<1>10. /\ t(p) \in {24, 22, 20, 19, 14} /\ t(q) \in {24, 22, 20, 19, 14}
       /\ p.kind.type = "Relay" => t(p) = 14
       /\ q.kind.type # "Relay" => t(q) \in {24, 22, 20, 19}
       /\ p.kind.type = q.kind.type => t(p) = t(q)
  BY <1>8 DEF Selector!TypeFactor
<1> HIDE DEF v, t
<1>11. ASSUME p.kind.type = q.kind.type, q.kind.v6, ~p.kind.v6 PROVE FALSE
  <2>1. v(p) = 2 /\ v(q) = 3 /\ t(p) = t(q) /\ t(p) \in {24, 22, 20, 19, 14}
    BY <1>9, <1>10, <1>11
  <2>2. quality * 2 * t(p) >= quality * 3 * t(p)
    BY <1>5, <1>6, <1>7, <2>1
  <2> QED
    BY <1>7, <2>1, <2>2
<1>12. ASSUME p.kind.v6 = q.kind.v6, p.kind.type = "Relay", q.kind.type # "Relay" PROVE FALSE
  <2>1. v(p) = v(q) /\ v(p) \in {2, 3} /\ t(p) = 14 /\ t(q) \in {24, 22, 20, 19}
    BY <1>9, <1>10, <1>12
  <2>2. quality * v(p) * 14 >= quality * v(p) * t(q)
    BY <1>5, <1>6, <1>7, <2>1
  <2> QED
    BY <1>7, <2>1, <2>2
<1> QED
  BY <1>11, <1>12 DEF p, q

-----------------------------------------------------------------------------
(* The path choice of the tunnel.                                          *)
LEMMA ChoiceConstants == Choice!Constants /\ Rtts \subseteq Nat /\ Threshold \in Nat /\ MaxSamples \in Nat
  BY DataPlaneAssumption DEF Choice!Constants

Between(p) == p.rtt_min <= p.rtt_avg /\ p.rtt_avg <= p.rtt_max
HasRelay == "Relay" \in DOMAIN choice_paths
RelayCall(c) == choice_calls[c].at = "punching" /\ choice_calls[c].relay

\* The relay's path stays as long as a call that registered it counts on it.
ChoiceInv ==
  /\ Choice!TypeOK
  /\ \A t \in DOMAIN choice_paths : Between(choice_paths[t])
  /\ fallback => HasRelay /\ choice_paths["Relay"].active
  /\ ~lost => \A c \in DOMAIN choice_calls : RelayCall(c) => HasRelay

LEMMA ChoiceInit == Choice!Init => ChoiceInv
  BY ChoiceConstants DEF Choice!Init, ChoiceInv, Choice!TypeOK

\* The smoothed time stays between the least and the largest sample.
LEMMA RecordedBetween ==
  ASSUME NEW p \in Choice!PathStatus, Between(p), p.samples < MaxSamples, NEW rtt \in Rtts
  PROVE  /\ Choice!Recorded(p, rtt) \in Choice!PathStatus /\ Between(Choice!Recorded(p, rtt))
         /\ Choice!Recorded(p, rtt).active = p.active
<1> DEFINE new == Choice!Recorded(p, rtt)
           a == p.rtt_avg
           least == Choice!Least(p.rtt_min, rtt)
           largest == Choice!Largest(p.rtt_max, rtt)
           smooth == Choice!Smoothed(a, rtt)
<1>1. /\ a \in Nat /\ p.rtt_min \in Nat /\ p.rtt_max \in Nat /\ p.samples \in Nat /\ rtt \in Nat
      /\ p.rtt_min <= a /\ a <= p.rtt_max /\ MaxSamples \in Nat /\ p.active \in BOOLEAN
  BY ChoiceConstants DEF Choice!PathStatus, Between
<1>2. CASE p.samples = 0
  <2>1. new = [p EXCEPT !.samples = 1, !.rtt_avg = rtt, !.rtt_min = rtt, !.rtt_max = rtt]
    BY <1>2 DEF Choice!Recorded
  <2>2. 1 \in 0 .. MaxSamples
    BY <1>1, <1>2
  <2> HIDE DEF new
  <2>3. new.rtt_avg = rtt /\ new.rtt_min = rtt /\ new.rtt_max = rtt /\ new.active = p.active
        /\ new \in Choice!PathStatus
    BY <1>1, <2>1, <2>2 DEF Choice!PathStatus
  <2> QED
    BY <1>1, <2>3 DEF Between, new
<1>3. CASE p.samples # 0
  <2>1. /\ least \in Nat /\ largest \in Nat /\ least <= rtt /\ least <= a /\ rtt <= largest /\ a <= largest
    BY <1>1 DEF Choice!Least, Choice!Largest
  <2> HIDE DEF a
  <2>2. smooth \in Nat /\ 8 * smooth <= rtt + 7 * a /\ rtt + 7 * a < 8 * smooth + 8
    BY <1>1 DEF Choice!Smoothed
  <2>3. new = [p EXCEPT !.samples = p.samples + 1, !.rtt_avg = smooth, !.rtt_min = least, !.rtt_max = largest]
    BY <1>3 DEF Choice!Recorded, a
  <2>4. p.samples + 1 \in 0 .. MaxSamples
    BY <1>1
  <2> HIDE DEF smooth, least, largest, new
  <2>5. least <= smooth /\ smooth <= largest
    BY <1>1, <2>1, <2>2
  <2>6. new.rtt_avg = smooth /\ new.rtt_min = least /\ new.rtt_max = largest /\ new.active = p.active
        /\ new \in Choice!PathStatus
    BY <1>1, <2>1, <2>2, <2>3, <2>4 DEF Choice!PathStatus
  <2> QED
    BY <2>5, <2>6 DEF Between, new
<1> QED
  BY <1>2, <1>3

LEMMA ChoiceNext == ChoiceInv /\ [Choice!Next]_choice_vars => ChoiceInv'
<1> SUFFICES ASSUME ChoiceInv, [Choice!Next]_choice_vars PROVE ChoiceInv'
  OBVIOUS
<1> DEFINE TableOK(p) == /\ DOMAIN p \subseteq Choice!PathType /\ p \in [DOMAIN p -> Choice!PathStatus]
                         /\ \A t \in DOMAIN p : Between(p[t])
           CallType == [at : {"registering", "punching"}, relay : BOOLEAN]
           Calls(f) == DOMAIN f \subseteq OneCaller /\ f \in [DOMAIN f -> CallType]
<1>0. /\ TableOK(choice_paths) /\ Calls(choice_calls)
      /\ fallback \in BOOLEAN /\ lost \in BOOLEAN /\ Choice!Constants'
      /\ fallback => HasRelay /\ choice_paths["Relay"].active
      /\ ~lost => \A c \in DOMAIN choice_calls : RelayCall(c) => HasRelay
  BY ChoiceConstants DEF ChoiceInv, Choice!TypeOK, Choice!Constants
\* What a fresh path in the table does to it.
<1>1. ASSUME NEW type \in Choice!PathType
      PROVE  LET q == Choice!Put(choice_paths, type, Choice!Fresh) IN
             /\ TableOK(q) /\ type \in DOMAIN q /\ q[type].active
             /\ DOMAIN q = DOMAIN choice_paths \cup {type}
             /\ \A t \in DOMAIN choice_paths : t # type => q[t] = choice_paths[t]
  <2> DEFINE q == Choice!Put(choice_paths, type, Choice!Fresh)
  <2>1. Choice!Fresh \in Choice!PathStatus /\ Between(Choice!Fresh) /\ Choice!Fresh.active
    BY ChoiceConstants DEF Choice!Fresh, Choice!PathStatus, Between
  <2>2. /\ DOMAIN q = DOMAIN choice_paths \cup {type} /\ q[type] = Choice!Fresh
        /\ \A t \in DOMAIN choice_paths : t # type => q[t] = choice_paths[t]
    BY DEF Choice!Put
  <2>3. q = [t \in DOMAIN q |-> q[t]]
    BY DEF Choice!Put
  <2> HIDE DEF q
  <2>4. TableOK(q)
    BY <1>0, <2>1, <2>2, <2>3
  <2> QED
    BY <2>1, <2>2, <2>4 DEF q
<1>2. ASSUME NEW type \in Choice!PathType, NEW on \in BOOLEAN
      PROVE  LET q == Choice!Marked(type, on) IN
             /\ TableOK(q) /\ DOMAIN q = DOMAIN choice_paths
             /\ type \in DOMAIN q => q[type].active = on
             /\ \A t \in DOMAIN choice_paths : t # type => q[t] = choice_paths[t]
  <2> DEFINE q == Choice!Marked(type, on)
  <2>1. CASE type \in DOMAIN choice_paths
    <3> DEFINE old == choice_paths[type]
               new == [old EXCEPT !.active = on]
    <3>1. old \in Choice!PathStatus /\ Between(old)
      BY <1>0, <2>1
    <3>2. new \in Choice!PathStatus /\ Between(new) /\ new.active = on
      BY <3>1 DEF Choice!PathStatus, Between
    <3>3. q = [choice_paths EXCEPT ![type] = new]
      BY <2>1 DEF Choice!Marked
    <3> HIDE DEF new, q
    <3> QED
      BY <1>0, <2>1, <3>2, <3>3 DEF q
  <2>2. CASE type \notin DOMAIN choice_paths
    BY <1>0, <2>2 DEF Choice!Marked
  <2> QED
    BY <2>1, <2>2
<1> HIDE DEF TableOK, CallType
<1>3. ASSUME TableOK(choice_paths'), Calls(choice_calls'), fallback' \in BOOLEAN, lost' \in BOOLEAN,
             fallback' => HasRelay' /\ choice_paths'["Relay"].active,
             ~lost' => \A c \in DOMAIN choice_calls' : RelayCall(c)' => HasRelay'
      PROVE  ChoiceInv'
  BY <1>0, <1>3 DEF ChoiceInv, Choice!TypeOK, TableOK, CallType
<1>4. ASSUME NEW type \in Choice!PathType, Choice!RegisterPath(type) PROVE ChoiceInv'
  BY <1>0, <1>1, <1>3, <1>4 DEF Choice!RegisterPath, HasRelay, RelayCall
<1>5. ASSUME NEW type \in Choice!PathType, Choice!RemovePath(type) PROVE ChoiceInv'
  <2>1. /\ DOMAIN choice_paths' = DOMAIN choice_paths \ {type}
        /\ \A t \in DOMAIN choice_paths : t # type => choice_paths'[t] = choice_paths[t]
        /\ TableOK(choice_paths')
    BY <1>0, <1>5 DEF Choice!RemovePath, Choice!Drop, TableOK
  <2> QED
    BY <1>0, <1>3, <1>5, <2>1 DEF Choice!RemovePath, HasRelay, RelayCall
<1>6. ASSUME NEW type \in Choice!PathType, Choice!MarkInactive(type) PROVE ChoiceInv'
  BY <1>0, <1>2, <1>3, <1>6 DEF Choice!MarkInactive, HasRelay, RelayCall
<1>7. ASSUME NEW type \in Choice!PathType, Choice!MarkActive(type) PROVE ChoiceInv'
  BY <1>0, <1>2, <1>3, <1>7 DEF Choice!MarkActive, HasRelay, RelayCall
<1>8. ASSUME NEW type \in Choice!PathType, NEW rtt \in Rtts, Choice!UpdateMetrics(type, rtt) PROVE ChoiceInv'
  <2> DEFINE new == Choice!Recorded(choice_paths[type], rtt)
  <2>1. /\ type \in DOMAIN choice_paths /\ choice_paths[type].samples < MaxSamples
        /\ choice_paths' = [choice_paths EXCEPT ![type] = new] /\ UNCHANGED <<choice_calls, fallback, lost>>
    BY <1>8 DEF Choice!UpdateMetrics
  <2>2. new \in Choice!PathStatus /\ Between(new) /\ new.active = choice_paths[type].active
    BY <1>0, <2>1, RecordedBetween DEF TableOK
  <2> HIDE DEF new
  <2>3. /\ TableOK(choice_paths') /\ DOMAIN choice_paths' = DOMAIN choice_paths
        /\ \A t \in DOMAIN choice_paths : choice_paths'[t].active = choice_paths[t].active
    BY <1>0, <2>1, <2>2 DEF TableOK
  <2> QED
    BY <1>0, <1>3, <2>1, <2>3 DEF HasRelay, RelayCall
<1>9. ASSUME NEW c \in OneCaller, NEW relay \in BOOLEAN, Choice!Establish(c, relay) PROVE ChoiceInv'
  <2> DEFINE call == [at |-> IF relay THEN "registering" ELSE "punching", relay |-> relay]
  <2>1. /\ c \notin DOMAIN choice_calls /\ choice_calls' = Choice!Put(choice_calls, c, call)
        /\ choice_paths' = Choice!Put(choice_paths, "Direct", Choice!Fresh)
        /\ lost' = (lost /\ DOMAIN choice_calls # {}) /\ UNCHANGED fallback
    BY <1>9 DEF Choice!Establish
  <2>2. call \in CallType /\ ~(call.at = "punching" /\ call.relay)
    BY DEF CallType
  <2> HIDE DEF call
  <2>3. /\ Calls(choice_calls') /\ DOMAIN choice_calls' = DOMAIN choice_calls \cup {c}
        /\ ~RelayCall(c)' /\ \A d \in DOMAIN choice_calls : RelayCall(d)' <=> RelayCall(d)
    BY <1>0, <2>1, <2>2 DEF Choice!Put, RelayCall
  <2>4. "Direct" \in Choice!PathType
    BY DEF Choice!PathType
  <2> QED
    BY <1>0, <1>1, <1>3, <2>1, <2>3, <2>4 DEF HasRelay
<1>10. ASSUME NEW c \in OneCaller, Choice!RegisterRelay(c) PROVE ChoiceInv'
  <2>1. /\ c \in DOMAIN choice_calls /\ choice_calls' = [choice_calls EXCEPT ![c].at = "punching"]
        /\ choice_paths' = Choice!Put(choice_paths, "Relay", Choice!Fresh) /\ UNCHANGED <<fallback, lost>>
    BY <1>10 DEF Choice!RegisterRelay
  <2>2. Calls(choice_calls')
    BY <1>0, <2>1 DEF CallType
  <2>3. "Relay" \in Choice!PathType
    BY DEF Choice!PathType
  <2> QED
    BY <1>0, <1>1, <1>3, <2>1, <2>2, <2>3 DEF HasRelay
<1>11. ASSUME NEW c \in OneCaller, Choice!Punched(c) \/ Choice!PunchFailed(c) PROVE ChoiceInv'
  <2>1. c \in DOMAIN choice_calls /\ choice_calls' = Choice!Drop(choice_calls, c) /\ lost' = lost
        /\ choice_calls[c].at = "punching"
    BY <1>11 DEF Choice!Punched, Choice!PunchFailed
  <2>2. /\ Calls(choice_calls') /\ DOMAIN choice_calls' \subseteq DOMAIN choice_calls
        /\ \A d \in DOMAIN choice_calls' : RelayCall(d)' <=> RelayCall(d)
    BY <1>0, <2>1 DEF Choice!Drop, RelayCall
  <2>3. "Direct" \in Choice!PathType /\ "Relay" \in Choice!PathType /\ choice_calls[c].relay \in BOOLEAN
    BY <1>0, <2>1 DEF Choice!PathType, CallType
  <2>4. CASE Choice!Punched(c)
    <3>1. choice_paths' = Choice!Marked("Direct", TRUE) /\ fallback' = FALSE
      BY <2>4 DEF Choice!Punched
    <3> QED
      BY <1>0, <1>2, <1>3, <2>1, <2>2, <2>3, <3>1 DEF HasRelay
  <2>5. CASE Choice!PunchFailed(c)
    <3>1. /\ choice_paths' = IF choice_calls[c].relay THEN Choice!Marked("Relay", TRUE) ELSE choice_paths
          /\ fallback' = (choice_calls[c].relay /\ ~lost)
      BY <2>5 DEF Choice!PunchFailed
    <3>2. CASE choice_calls[c].relay
      <4>1. ~lost => HasRelay
        BY <1>0, <2>1, <3>2 DEF RelayCall
      <4> QED
        BY <1>0, <1>2, <1>3, <2>1, <2>2, <2>3, <3>1, <3>2, <4>1 DEF HasRelay
    <3>3. CASE ~choice_calls[c].relay
      BY <1>0, <1>3, <2>1, <2>2, <3>1, <3>3 DEF HasRelay
    <3> QED
      BY <3>2, <3>3
  <2> QED
    BY <1>11, <2>4, <2>5
<1>12. CASE UNCHANGED choice_vars
  BY <1>0, <1>3, <1>12 DEF choice_vars, HasRelay, RelayCall
<1> QED
  BY <1>4, <1>5, <1>6, <1>7, <1>8, <1>9, <1>10, <1>11, <1>12 DEF Choice!Next

\* With the relay active, select_best_path answers it or a faster one.
LEMMA ChoiceRight == ChoiceInv => Choice!RttBetween /\ Choice!FallbackUsed
<1> SUFFICES ASSUME ChoiceInv PROVE Choice!RttBetween /\ Choice!FallbackUsed
  OBVIOUS
<1>1. Choice!RttBetween
  BY DEF ChoiceInv, Choice!RttBetween, Between
<1>2. ASSUME fallback PROVE "Relay" \in Choice!Active
  BY <1>2 DEF ChoiceInv, HasRelay, Choice!Active
<1> QED
  BY <1>1, <1>2 DEF Choice!FallbackUsed, Choice!SelectBestPath, Choice!Fast

-----------------------------------------------------------------------------
(* Hole punching.                                                          *)
LEMMA PunchConstants ==
  /\ Punch!Constants /\ MaxTotalPunchPackets \in Nat /\ NonceLen \in Nat /\ HexFields \subseteq Nat
  /\ \A p \in PunchPeers : Cardinality(PunchCandidates[p]) \in Nat
<1>1. Punch!Constants
  BY DataPlaneAssumption
<1>2. ASSUME NEW s PROVE (Punch!IsFiniteSet(s) <=> IsFiniteSet(s)) /\ Punch!Cardinality(s) = Cardinality(s)
  BY DEF Punch!IsFiniteSet, IsFiniteSet, Punch!Cardinality, Cardinality
<1>3. \A p \in PunchPeers : IsFiniteSet(PunchCandidates[p])
  BY <1>1, <1>2 DEF Punch!Constants
<1>4. \A p \in PunchPeers : Cardinality(PunchCandidates[p]) \in Nat
  BY <1>3, FS_CardinalityType
<1> QED
  BY <1>1, <1>4 DEF Punch!Constants

LEMMA SameInPunch == ASSUME NEW s PROVE Punch!Cardinality(s) = Cardinality(s)
  BY DEF Punch!Cardinality, Cardinality

\* Two peers: each is the other's other, and has an address.
LEMMA TwoPeers ==
  ASSUME NEW p \in PunchPeers
  PROVE  /\ Punch!Other(p) \in PunchPeers /\ Punch!Other(p) # p /\ Punch!Other(Punch!Other(p)) = p
         /\ Punch!Source(p) \in DOMAIN PunchAt /\ PunchAt[Punch!Source(p)] = p
         /\ \A a \in PunchCandidates[p] \cap DOMAIN PunchAt : PunchAt[a] = Punch!Other(p)
<1>1. PICK x \in PunchPeers, y \in PunchPeers : x # y /\ PunchPeers = {x, y}
  BY PunchConstants DEF Punch!Constants
<1>2. Punch!Other(x) = y /\ Punch!Other(y) = x
  BY <1>1 DEF Punch!Other
<1>3. Punch!Source(p) \in DOMAIN PunchAt /\ PunchAt[Punch!Source(p)] = p
  BY PunchConstants DEF Punch!Source, Punch!Constants
<1> QED
  BY <1>1, <1>2, <1>3, PunchConstants DEF Punch!Constants

Address == DOMAIN PunchAt \cup {Punch!Nowhere}
PunchState == [pc : {"check", "listen", "connected", "failed"}, sent : Nat, best : Address, via : Address]
Leads(p, a) == a \in DOMAIN PunchAt /\ PunchAt[a] = Punch!Other(p)
Readable == hexField = 2 * NonceLen
\* A peer's packets, and the addresses it has heard from.
PeerRight(p, s) ==
  /\ s \in PunchState
  /\ s.sent < MaxTotalPunchPackets + Cardinality(PunchCandidates[p]) + 1
  /\ s.pc = "listen" => s.sent < MaxTotalPunchPackets + Cardinality(PunchCandidates[p])
  /\ s.best # Punch!Nowhere => Readable /\ Leads(p, s.best)
  /\ s.pc = "connected" => Readable /\ Leads(p, s.via)
Datagram(m) ==
  /\ m.nonce \in PunchPeers
  /\ m.type = "Hello" => m.to \in PunchCandidates[m.nonce] /\ m.from = Punch!Source(m.nonce)
  /\ m.type = "HelloAck" => m.from = Punch!Source(Punch!Other(m.nonce))

PunchInv ==
  /\ punch_state \in [PunchPeers -> PunchState]
  /\ \A p \in PunchPeers : PeerRight(p, punch_state[p])
  /\ \A m \in punch_network : Datagram(m)

LEMMA PunchRight == PunchInv => Punch!TypeOK /\ Punch!WithinBudget /\ Punch!ReachesPeer
  BY PunchConstants, SameInPunch
     DEF PunchInv, PeerRight, PunchState, Leads, Readable, Punch!TypeOK, Punch!WithinBudget, Punch!ReachesPeer

LEMMA PunchInit == Punch!Init => PunchInv
<1> SUFFICES ASSUME Punch!Init PROVE PunchInv
  OBVIOUS
<1>1. ASSUME NEW p \in PunchPeers PROVE PeerRight(p, punch_state[p])
  <2>1. punch_state[p] = [pc |-> IF PunchCandidates[p] = {} THEN "failed" ELSE "check", sent |-> 0,
                          best |-> Punch!Nowhere, via |-> Punch!Nowhere]
    BY DEF Punch!Init
  <2>2. 0 < MaxTotalPunchPackets + Cardinality(PunchCandidates[p]) + 1
    BY PunchConstants
  <2> QED
    BY <2>1, <2>2 DEF PeerRight, PunchState, Address
<1> QED
  BY <1>1 DEF PunchInv, PeerRight, Punch!Init

LEMMA PunchNext == PunchInv /\ [Punch!Next]_punch_vars => PunchInv'
<1> SUFFICES ASSUME PunchInv, [Punch!Next]_punch_vars PROVE PunchInv'
  OBVIOUS
<1> USE DEF PunchInv
\* What is to be shown of a step of one peer.
<1>1. ASSUME NEW p \in PunchPeers, NEW s, PeerRight(p, s), punch_state' = [punch_state EXCEPT ![p] = s],
             UNCHANGED hexField, \A m \in punch_network' : m \in punch_network \/ Datagram(m)
      PROVE  PunchInv'
  <2>1. \A q \in PunchPeers : PeerRight(q, punch_state'[q])
    BY <1>1
  <2>2. \A q \in PunchPeers : PeerRight(q, punch_state[q])'
    BY <1>1, <2>1 DEF PeerRight, Readable, Leads
  <2> QED
    BY <1>1, <2>1, <2>2 DEF PeerRight, Datagram
<1>2. ASSUME NEW p \in PunchPeers, Punch!TimePasses(p) PROVE PunchInv'
  BY <1>2 DEF Punch!TimePasses, PeerRight, Readable, Leads, Datagram
<1>3. ASSUME NEW p \in PunchPeers, Punch!Check(p) PROVE PunchInv'
  <2> DEFINE s == punch_state[p]
             n == Cardinality(PunchCandidates[p])
  <2>0. PeerRight(p, s) /\ s \in PunchState /\ s.pc = "check" /\ n \in Nat /\ UNCHANGED hexField
    BY <1>3, PunchConstants DEF Punch!Check
  <2>1. CASE elapsed[p]
    <3> DEFINE new == [s EXCEPT !.pc = IF s.best # Punch!Nowhere THEN "connected" ELSE "failed", !.via = s.best]
    <3>1. punch_state' = [punch_state EXCEPT ![p] = new] /\ UNCHANGED punch_network
      BY <1>3, <2>1 DEF Punch!Check
    <3>2. PeerRight(p, new)
      BY <2>0 DEF PeerRight, PunchState
    <3> HIDE DEF new
    <3> QED
      BY <1>1, <2>0, <3>1, <3>2
  <2>2. CASE ~elapsed[p] /\ Punch!Spent(s)
    <3> DEFINE new == [s EXCEPT !.pc = "failed"]
    <3>1. punch_state' = [punch_state EXCEPT ![p] = new] /\ UNCHANGED punch_network
      BY <1>3, <2>2 DEF Punch!Check
    <3>2. PeerRight(p, new)
      BY <2>0 DEF PeerRight, PunchState
    <3> HIDE DEF new
    <3> QED
      BY <1>1, <2>0, <3>1, <3>2
  <2>3. CASE ~elapsed[p] /\ ~Punch!Spent(s)
    <3> DEFINE new == [s EXCEPT !.pc = "listen", !.sent = s.sent + n]
               hello == {[to |-> a, from |-> Punch!Source(p), type |-> "Hello", nonce |-> p] : a \in PunchCandidates[p]}
    <3>1. punch_state' = [punch_state EXCEPT ![p] = new] /\ punch_network' = punch_network \cup hello
      BY <1>3, <2>3, SameInPunch DEF Punch!Check
    <3>2. s.sent < MaxTotalPunchPackets /\ s.sent \in Nat
      BY <2>0, <2>3, PunchConstants DEF Punch!Spent, PunchState
    <3>3. PeerRight(p, new)
      <4>1. s.sent + n < MaxTotalPunchPackets + n + 1 /\ s.sent + n < MaxTotalPunchPackets + n /\ s.sent + n \in Nat
        BY <2>0, <3>2, PunchConstants
      <4> QED
        BY <2>0, <4>1 DEF PeerRight, PunchState
    <3>4. \A m \in hello : Datagram(m)
      BY DEF Datagram
    <3> HIDE DEF new, hello
    <3> QED
      BY <1>1, <2>0, <3>1, <3>3, <3>4
  <2> QED
    BY <2>1, <2>2, <2>3
<1>4. ASSUME NEW p \in PunchPeers, Punch!NothingHeard(p) PROVE PunchInv'
  <2> DEFINE s == punch_state[p]
             new == [s EXCEPT !.pc = "check"]
  <2>1. punch_state' = [punch_state EXCEPT ![p] = new] /\ UNCHANGED <<punch_network, hexField>>
    BY <1>4 DEF Punch!NothingHeard
  <2>2. PeerRight(p, s) /\ s \in PunchState
    OBVIOUS
  <2>3. PeerRight(p, new)
    BY <2>2 DEF PeerRight, PunchState
  <2> HIDE DEF new
  <2> QED
    BY <1>1, <2>1, <2>3
<1>5. ASSUME NEW p \in PunchPeers, NEW m \in punch_network, Punch!Listen(p, m) PROVE PunchInv'
  <2> DEFINE s == punch_state[p]
             n == Cardinality(PunchCandidates[p])
  <2>0. /\ PeerRight(p, s) /\ s \in PunchState /\ s.pc = "listen" /\ n \in Nat /\ UNCHANGED hexField
        /\ m.to \in DOMAIN PunchAt /\ PunchAt[m.to] = p /\ Datagram(m)
    BY <1>5, PunchConstants DEF Punch!Listen
  <2>a. Punch!Parsed(m) # "None" => Readable /\ Punch!Parsed(m) = m.type
    BY DEF Punch!Parsed, Readable
  <2>1. CASE Punch!Parsed(m) = "Hello"
    <3> DEFINE new == [s EXCEPT !.pc = "check", !.sent = s.sent + 1, !.best = m.from]
               ack == [to |-> m.from, from |-> Punch!Source(p), type |-> "HelloAck", nonce |-> m.nonce]
    <3>1. punch_state' = [punch_state EXCEPT ![p] = new] /\ punch_network' = punch_network \cup {ack}
      BY <1>5, <2>1 DEF Punch!Listen
    <3>2. m.nonce \in PunchPeers /\ m.to \in PunchCandidates[m.nonce] /\ m.from = Punch!Source(m.nonce) /\ Readable
      BY <2>0, <2>1, <2>a DEF Datagram
    <3>3. p = Punch!Other(m.nonce) /\ m.nonce = Punch!Other(p)
      BY <2>0, <3>2, TwoPeers
    <3>4. Leads(p, m.from)
      BY <3>2, <3>3, TwoPeers DEF Leads
    <3>5. PeerRight(p, new)
      <4>1. s.sent + 1 < MaxTotalPunchPackets + n + 1 /\ s.sent + 1 \in Nat
        BY <2>0, PunchConstants DEF PeerRight, PunchState
      <4>2. m.from \in Address
        BY <3>4 DEF Leads, Address
      <4> QED
        BY <2>0, <3>2, <3>4, <4>1, <4>2 DEF PeerRight, PunchState
    <3>6. Datagram(ack)
      BY <3>2, <3>3 DEF Datagram
    <3> HIDE DEF new, ack
    <3> QED
      BY <1>1, <2>0, <3>1, <3>5, <3>6
  <2>2. CASE Punch!Parsed(m) = "HelloAck" /\ m.nonce = p
    <3> DEFINE new == [s EXCEPT !.pc = "connected", !.via = m.from]
    <3>1. punch_state' = [punch_state EXCEPT ![p] = new] /\ UNCHANGED punch_network
      BY <1>5, <2>2 DEF Punch!Listen
    <3>2. m.from = Punch!Source(Punch!Other(p)) /\ Readable
      BY <2>0, <2>2, <2>a DEF Datagram
    <3>3. Leads(p, m.from)
      BY <3>2, TwoPeers DEF Leads
    <3>4. PeerRight(p, new)
      BY <2>0, <3>2, <3>3 DEF PeerRight, PunchState, Leads, Address
    <3> HIDE DEF new
    <3> QED
      BY <1>1, <2>0, <3>1, <3>4
  <2>3. CASE Punch!Parsed(m) # "Hello" /\ ~(Punch!Parsed(m) = "HelloAck" /\ m.nonce = p)
    <3> DEFINE new == [s EXCEPT !.pc = "check"]
    <3>1. punch_state' = [punch_state EXCEPT ![p] = new] /\ UNCHANGED punch_network
      BY <1>5, <2>3 DEF Punch!Listen
    <3>2. PeerRight(p, new)
      BY <2>0 DEF PeerRight, PunchState
    <3> HIDE DEF new
    <3> QED
      BY <1>1, <2>0, <3>1, <3>2
  <2> QED
    BY <2>1, <2>2, <2>3
<1>6. CASE UNCHANGED punch_vars
  BY <1>6 DEF punch_vars, PeerRight, Readable, Leads, Datagram
<1> QED
  BY <1>2, <1>3, <1>4, <1>5, <1>6 DEF Punch!Next

-----------------------------------------------------------------------------
\* Connectivity checks.  While every check was ended by its own response there
\* is at most one request or response under way, and it is the one waited for.
PeerEntry == [state : {"New", "Connected", "Disconnected", "Failed"},
              failed_checks : 0 .. MaxFailures, fresh : BOOLEAN]
Dead(e) == /\ e.state = "Failed" <=> e.failed_checks >= FailAt
           /\ e.state = "Connected" => e.failed_checks < DisconnectAt
ChecksInv ==
  /\ Checks!TypeOK
  /\ \A p \in DOMAIN peers : Dead(peers[p])
  /\ waiting # None => check_sent = None /\ waiting \in DOMAIN peers
  /\ ~unanswered => /\ check_requests \cup responses \subseteq {waiting, check_sent}
                    /\ check_requests \cap responses = {}

LEMMA ChecksConstants ==
  /\ Checks!Constants /\ None \notin Peers /\ DisconnectAt \in Nat /\ FailAt \in Nat /\ MaxFailures \in Nat
  /\ 1 <= DisconnectAt /\ DisconnectAt <= FailAt /\ FailAt <= MaxFailures
<1>1. Checks!Constants
  BY DataPlaneAssumption
<1>2. None \notin Peers /\ MaxFailures \in Nat /\ FailAt \in 1 .. MaxFailures /\ DisconnectAt \in 1 .. FailAt
  BY <1>1 DEF Checks!Constants
<1> QED
  BY <1>1, <1>2

LEMMA ChecksInit == Checks!Init => ChecksInv
<1> SUFFICES ASSUME Checks!Init PROVE ChecksInv
  OBVIOUS
<1>1. DOMAIN peers = {} /\ peers \in [{} -> PeerEntry]
  BY DEF Checks!Init
<1> QED
  BY <1>1, ChecksConstants DEF Checks!Init, ChecksInv, Checks!TypeOK, PeerEntry

\* The entry of one peer is replaced.
LEMMA PeersReplaced ==
  ASSUME ChecksInv, NEW p \in DOMAIN peers, NEW e \in PeerEntry, Dead(e), peers' = [peers EXCEPT ![p] = e]
  PROVE  /\ DOMAIN peers' = DOMAIN peers /\ peers' \in [DOMAIN peers' -> PeerEntry]
         /\ \A q \in DOMAIN peers' : Dead(peers'[q])
<1>1. peers \in [DOMAIN peers -> PeerEntry]
  BY DEF ChecksInv, Checks!TypeOK, PeerEntry
<1> QED
  BY <1>1 DEF ChecksInv

\* record_success and record_failure.
LEMMA SuccessRecorded ==
  ASSUME ChecksInv, NEW p \in DOMAIN peers, peers' = Checks!RecordSuccess(p)
  PROVE  /\ DOMAIN peers' = DOMAIN peers /\ peers' \in [DOMAIN peers' -> PeerEntry]
         /\ \A q \in DOMAIN peers' : Dead(peers'[q])
<1> DEFINE e == [state |-> "Connected", failed_checks |-> 0, fresh |-> TRUE]
<1>1. e \in PeerEntry /\ Dead(e)
  BY ChecksConstants DEF PeerEntry, Dead
<1>2. peers' = [peers EXCEPT ![p] = e]
  BY DEF Checks!RecordSuccess
<1> HIDE DEF e
<1> QED
  BY <1>1, <1>2, PeersReplaced

LEMMA FailureRecorded ==
  ASSUME ChecksInv, NEW p \in DOMAIN peers, peers[p].failed_checks < MaxFailures,
         peers' = Checks!RecordFailure(p)
  PROVE  /\ DOMAIN peers' = DOMAIN peers /\ peers' \in [DOMAIN peers' -> PeerEntry]
         /\ \A q \in DOMAIN peers' : Dead(peers'[q])
<1> DEFINE old == peers[p]
           n == old.failed_checks + 1
           e == [old EXCEPT !.failed_checks = n, !.state = Checks!After(old.state, n)]
<1>1. old \in PeerEntry /\ Dead(old)
  BY DEF ChecksInv, Checks!TypeOK, PeerEntry
<1>2. n \in 0 .. MaxFailures
  BY <1>1, ChecksConstants DEF PeerEntry
<1>3. /\ Checks!After(old.state, n) \in {"New", "Connected", "Disconnected", "Failed"}
      /\ Checks!After(old.state, n) = "Failed" <=> n >= FailAt
      /\ Checks!After(old.state, n) = "Connected" => n < DisconnectAt
  BY <1>1, <1>2, ChecksConstants DEF PeerEntry, Dead, Checks!After
<1>4. e \in PeerEntry /\ e.failed_checks = n /\ e.state = Checks!After(old.state, n)
  <2> HIDE DEF n
  <2> QED
    BY <1>1, <1>2, <1>3 DEF PeerEntry
<1>5. peers' = [peers EXCEPT ![p] = e]
  BY DEF Checks!RecordFailure, ChecksInv, Checks!TypeOK
<1> HIDE DEF e, n, old
<1>6. Dead(e)
  BY <1>3, <1>4 DEF Dead
<1> QED
  BY <1>4, <1>5, <1>6, PeersReplaced

\* The consent of one peer is refreshed or expires.
LEMMA ConsentChanged ==
  ASSUME ChecksInv, NEW p \in DOMAIN peers, NEW b \in BOOLEAN, peers' = [peers EXCEPT ![p].fresh = b]
  PROVE  /\ DOMAIN peers' = DOMAIN peers /\ peers' \in [DOMAIN peers' -> PeerEntry]
         /\ \A q \in DOMAIN peers' : Dead(peers'[q])
<1> DEFINE old == peers[p]
           e == [old EXCEPT !.fresh = b]
<1>1. old \in PeerEntry /\ Dead(old)
  BY DEF ChecksInv, Checks!TypeOK, PeerEntry
<1>2. e \in PeerEntry /\ e.state = old.state /\ e.failed_checks = old.failed_checks
  BY <1>1 DEF PeerEntry
<1>3. peers' = [peers EXCEPT ![p] = e]
  OBVIOUS
<1> HIDE DEF e, old
<1>4. Dead(e)
  BY <1>1, <1>2 DEF Dead
<1> QED
  BY <1>2, <1>3, <1>4, PeersReplaced

LEMMA ChecksNext == ChecksInv /\ [Checks!Next]_check_vars => ChecksInv'
<1> SUFFICES ASSUME ChecksInv, [Checks!Next]_check_vars PROVE ChecksInv'
  OBVIOUS
<1>c. Checks!Constants' /\ None \notin Peers
  BY ChecksConstants DEF Checks!Constants
<1>t. /\ DOMAIN peers \subseteq Peers /\ peers \in [DOMAIN peers -> PeerEntry]
      /\ round \subseteq Peers /\ {waiting, check_sent} \subseteq Peers \cup {None}
      /\ check_requests \subseteq Peers /\ responses \subseteq Peers
      /\ \A p \in DOMAIN peers : Dead(peers[p])
  BY DEF ChecksInv, Checks!TypeOK, PeerEntry
\* What is left to show when the entries are right.
<1>p. ASSUME DOMAIN peers' \subseteq Peers, peers' \in [DOMAIN peers' -> PeerEntry],
             \A p \in DOMAIN peers' : Dead(peers'[p]),
             round' \subseteq Peers, {waiting', check_sent'} \subseteq Peers \cup {None},
             check_requests' \subseteq Peers, responses' \subseteq Peers,
             waiting' # None => check_sent' = None /\ waiting' \in DOMAIN peers',
             ~unanswered' => /\ check_requests' \cup responses' \subseteq {waiting', check_sent'}
                             /\ check_requests' \cap responses' = {}
      PROVE  ChecksInv'
  BY <1>p, <1>c DEF ChecksInv, Checks!TypeOK, PeerEntry
<1>n. UNCHANGED <<check_requests, responses, unanswered>> => UNCHANGED Checks!network
  BY DEF Checks!network
<1>1. ASSUME NEW p \in Peers, Checks!RegisterPeer(p) PROVE ChecksInv'
  <2>1. Checks!New \in PeerEntry /\ Dead(Checks!New)
    BY ChecksConstants DEF Checks!New, PeerEntry, Dead
  <2>2. DOMAIN peers' = DOMAIN peers \cup {p}
        /\ \A q \in DOMAIN peers' : peers'[q] = IF q = p THEN Checks!New ELSE peers[q]
    BY <1>1 DEF Checks!RegisterPeer, Checks!Put
  <2>3. peers' \in [DOMAIN peers' -> PeerEntry] /\ \A q \in DOMAIN peers' : Dead(peers'[q])
    <3>1. peers' = [q \in DOMAIN peers' |-> peers'[q]]
      BY <1>1 DEF Checks!RegisterPeer, Checks!Put
    <3>2. \A q \in DOMAIN peers' : peers'[q] \in PeerEntry /\ Dead(peers'[q])
      BY <1>t, <2>1, <2>2
    <3> QED
      BY <3>1, <3>2
  <2> QED
    BY <1>1, <1>t, <1>p, <2>2, <2>3 DEF Checks!RegisterPeer, Checks!network, Checks!PeersFree, ChecksInv
<1>2. ASSUME NEW p \in Peers, Checks!UnregisterPeer(p) PROVE ChecksInv'
  <2>1. /\ DOMAIN peers' = DOMAIN peers \ {p} /\ peers' \in [DOMAIN peers' -> PeerEntry]
        /\ \A q \in DOMAIN peers' : Dead(peers'[q])
    BY <1>2, <1>t DEF Checks!UnregisterPeer, Checks!Drop
  <2> QED
    BY <1>2, <1>t, <1>p, <2>1 DEF Checks!UnregisterPeer, Checks!network, Checks!PeersFree, ChecksInv
<1>3. ASSUME NEW p \in Peers, Checks!RefreshConsent(p) \/ Checks!ConsentExpires(p) PROVE ChecksInv'
  <2>1. /\ DOMAIN peers' = DOMAIN peers /\ peers' \in [DOMAIN peers' -> PeerEntry]
        /\ \A q \in DOMAIN peers' : Dead(peers'[q])
    BY <1>3, ConsentChanged DEF Checks!RefreshConsent, Checks!ConsentExpires
  <2> QED
    BY <1>3, <1>t, <1>p, <2>1 DEF Checks!RefreshConsent, Checks!ConsentExpires, Checks!network, ChecksInv
<1>4. ASSUME NEW p \in Peers, Checks!SkipPeer(p) PROVE ChecksInv'
  BY <1>4, <1>t, <1>p DEF Checks!SkipPeer, Checks!network, ChecksInv
<1>5. ASSUME NEW p \in Peers, Checks!SendFails(p) PROVE ChecksInv'
  <2>1. /\ DOMAIN peers' = DOMAIN peers /\ peers' \in [DOMAIN peers' -> PeerEntry]
        /\ \A q \in DOMAIN peers' : Dead(peers'[q])
    BY <1>5, FailureRecorded DEF Checks!SendFails
  <2> QED
    BY <1>5, <1>t, <1>p, <2>1 DEF Checks!SendFails, Checks!network, ChecksInv
<1>6. ASSUME NEW p \in Peers, Checks!SendCheck(p) PROVE ChecksInv'
  <2>1. ~unanswered => check_requests = {} /\ responses = {}
    BY <1>6, <1>t, <1>c DEF Checks!SendCheck, Checks!CheckEnded, Checks!PeersFree, ChecksInv
  <2> QED
    BY <1>6, <1>t, <1>p, <2>1 DEF Checks!SendCheck, Checks!CheckEnded, Checks!PeersFree, ChecksInv
<1>7. ASSUME NEW p \in Peers, Checks!Answer(p) PROVE ChecksInv'
  BY <1>7, <1>t, <1>p DEF Checks!Answer, ChecksInv
<1>8. CASE Checks!StartRound
  BY <1>8, <1>t, <1>p DEF Checks!StartRound, Checks!network, ChecksInv
<1>9. CASE Checks!AwaitAnswer
  BY <1>9, <1>t, <1>p DEF Checks!AwaitAnswer, Checks!PeersFree, ChecksInv
<1>10. CASE Checks!TakeResponse
  <2>1. /\ DOMAIN peers' = DOMAIN peers /\ peers' \in [DOMAIN peers' -> PeerEntry]
        /\ \A q \in DOMAIN peers' : Dead(peers'[q])
    BY <1>10, SuccessRecorded DEF Checks!TakeResponse, ChecksInv
  <2> QED
    BY <1>10, <1>t, <1>p, <1>c, <2>1 DEF Checks!TakeResponse, ChecksInv
<1>11. CASE Checks!TakeOther
  BY <1>11, <1>t, <1>p DEF Checks!TakeOther, ChecksInv
<1>12. CASE Checks!Timeout
  <2>1. /\ DOMAIN peers' = DOMAIN peers /\ peers' \in [DOMAIN peers' -> PeerEntry]
        /\ \A q \in DOMAIN peers' : Dead(peers'[q])
    BY <1>12, FailureRecorded DEF Checks!Timeout, ChecksInv
  <2> QED
    BY <1>12, <1>t, <1>p, <2>1 DEF Checks!Timeout, ChecksInv
<1>13. CASE UNCHANGED check_vars
  BY <1>13, <1>t, <1>p DEF check_vars, ChecksInv
<1> QED
  BY <1>1, <1>2, <1>3, <1>4, <1>5, <1>6, <1>7, <1>8, <1>9, <1>10, <1>11, <1>12, <1>13 DEF Checks!Next

LEMMA ChecksRight == ChecksInv => Checks!TypeOK /\ Checks!DeadExact /\ Checks!Attributed
  BY DEF ChecksInv, Dead, Checks!DeadExact, Checks!Attributed

-----------------------------------------------------------------------------
\* ICE agents.  No call of set_remote_candidates comes back.
AgentInv ==
  /\ Agent!TypeOK
  /\ tiebreaker \in [Agents -> Tiebreakers]
  /\ \A a \in Agents : agent_state[a] \in {"New", "Gathering", "Restarting"}
  /\ \A a \in Agents : remote[a].waiting > 0 => remote[a].inside
  /\ \A a \in resolved : role[a] = Agent!Resolved(a)

LEMMA AgentConstants == Agent!Constants /\ Tiebreakers \subseteq Nat /\ MaxCalls \in Nat
  BY DataPlaneAssumption DEF Agent!Constants

\* Each of the two agents is the peer of the other.
LEMMA PeersMutual == \A a \in Agents : /\ Agent!Peer(a) \in Agents /\ Agent!Peer(a) # a
                                       /\ Agent!Peer(Agent!Peer(a)) = a /\ Agents = {a, Agent!Peer(a)}
<1>1. PICK a, b \in Agents : a # b /\ Agents = {a, b}
  BY DataPlaneAssumption DEF Agent!Constants
<1>2. ASSUME NEW c \in Agents PROVE Agent!Peer(c) \in Agents /\ Agent!Peer(c) # c
  <2>1. \E d \in Agents : d # c
    BY <1>1
  <2> QED
    BY <2>1 DEF Agent!Peer
<1> QED
  BY <1>1, <1>2

LEMMA AgentInit == Agent!Init => AgentInv
<1> SUFFICES ASSUME Agent!Init PROVE AgentInv
  OBVIOUS
<1>1. \A a \in Agents : remote[a] = [inside |-> FALSE, waiting |-> 0]
  BY DEF Agent!Init
<1> QED
  BY <1>1, AgentConstants DEF Agent!Init, AgentInv, Agent!TypeOK, Agent!State

LEMMA AgentNext == AgentInv /\ [Agent!Next]_agent_vars => AgentInv'
<1> SUFFICES ASSUME AgentInv, [Agent!Next]_agent_vars PROVE AgentInv'
  OBVIOUS
<1>c. Agent!Constants'
  BY AgentConstants DEF Agent!Constants
<1>t. /\ local_candidates \in [Agents -> Gathered \cup {{}}]
      /\ \A a \in Agents : \A c \in local_candidates[a] : c.type \in Agent!CandidateType
      /\ agent_state \in [Agents -> Agent!State] /\ role \in [Agents -> {"Controlling", "Controlled"}]
      /\ remote \in [Agents -> [inside : BOOLEAN, waiting : 0 .. MaxCalls]]
      /\ tiebreaker \in [Agents -> Tiebreakers]
      /\ \A a \in Agents : agent_state[a] \in {"New", "Gathering", "Restarting"}
      /\ \A a \in Agents : remote[a].waiting > 0 => remote[a].inside
      /\ \A a \in resolved : role[a] = Agent!Resolved(a)
  BY DEF AgentInv, Agent!TypeOK
<1>1. ASSUME NEW a \in Agents, NEW seen \in Gathered, Agent!GatherCandidates(a, seen) PROVE AgentInv'
  <2>1. \A c \in seen : c.type \in Agent!CandidateType
    BY AgentConstants DEF Agent!Constants
  <2>2. /\ local_candidates' \in [Agents -> Gathered \cup {{}}]
        /\ \A b \in Agents : \A c \in local_candidates'[b] : c.type \in Agent!CandidateType
    BY <1>1, <1>t, <2>1 DEF Agent!GatherCandidates
  <2>3. /\ agent_state' \in [Agents -> Agent!State]
        /\ \A b \in Agents : agent_state'[b] \in {"New", "Gathering", "Restarting"}
    BY <1>1, <1>t DEF Agent!GatherCandidates, Agent!State
  <2> QED
    BY <1>1, <1>c, <1>t, <2>2, <2>3 DEF Agent!GatherCandidates, AgentInv, Agent!TypeOK, Agent!Resolved, Agent!Peer
<1>2. ASSUME NEW a \in Agents, Agent!SetRemoteCandidates(a) PROVE AgentInv'
  <2>1. remote[a] \in [inside : BOOLEAN, waiting : 0 .. MaxCalls] /\ MaxCalls \in Nat
    BY <1>t, AgentConstants
  <2> DEFINE r == IF remote[a].inside THEN [remote[a] EXCEPT !.waiting = remote[a].waiting + 1]
                  ELSE [remote[a] EXCEPT !.inside = TRUE]
  <2>2. r \in [inside : BOOLEAN, waiting : 0 .. MaxCalls] /\ r.inside
    <3>1. CASE remote[a].inside
      BY <3>1, <2>1, <1>2 DEF Agent!SetRemoteCandidates
    <3>2. CASE ~remote[a].inside
      BY <3>2, <2>1
    <3> QED
      BY <3>1, <3>2
  <2>3. remote' = [remote EXCEPT ![a] = r] /\ UNCHANGED agent_state
    BY <1>2, <1>t DEF Agent!SetRemoteCandidates, Agent!GuardLives
  <2> HIDE DEF r
  <2>4. /\ remote' \in [Agents -> [inside : BOOLEAN, waiting : 0 .. MaxCalls]]
        /\ \A b \in Agents : remote'[b].waiting > 0 => remote'[b].inside
    BY <1>t, <2>2, <2>3
  <2> QED
    BY <1>2, <1>c, <1>t, <2>3, <2>4 DEF Agent!SetRemoteCandidates, AgentInv, Agent!TypeOK, Agent!Resolved, Agent!Peer
<1>3. ASSUME NEW a \in Agents, Agent!ResolveRoleConflict(a) PROVE AgentInv'
  <2>1. Agent!Resolved(a) \in {"Controlling", "Controlled"} /\ UNCHANGED tiebreaker
    BY <1>3 DEF Agent!Resolved, Agent!ResolveRoleConflict
  <2>2. \A b \in Agents : Agent!Resolved(b)' = Agent!Resolved(b)
    BY <2>1 DEF Agent!Resolved, Agent!Peer
  <2>3. role' \in [Agents -> {"Controlling", "Controlled"}] /\ \A b \in resolved' : role'[b] = Agent!Resolved(b)
    BY <1>3, <1>t, <2>1 DEF Agent!ResolveRoleConflict
  <2>4. \A b \in resolved' : role'[b] = Agent!Resolved(b)'
    BY <2>1, <2>3 DEF Agent!Resolved, Agent!Peer
  <2> QED
    BY <1>3, <1>c, <1>t, <2>3, <2>4 DEF Agent!ResolveRoleConflict, AgentInv, Agent!TypeOK
<1>4. ASSUME NEW a \in Agents, Agent!Restart(a) PROVE AgentInv'
  <2>1. /\ agent_state' \in [Agents -> Agent!State]
        /\ \A b \in Agents : agent_state'[b] \in {"New", "Gathering", "Restarting"}
    BY <1>4, <1>t DEF Agent!Restart, Agent!State
  <2> QED
    BY <1>4, <1>c, <1>t, <2>1 DEF Agent!Restart, AgentInv, Agent!TypeOK, Agent!Resolved, Agent!Peer
<1>5. CASE UNCHANGED agent_vars
  BY <1>5, <1>c, <1>t DEF agent_vars, AgentInv, Agent!TypeOK, Agent!Resolved, Agent!Peer
<1> QED
  BY <1>1, <1>2, <1>3, <1>4, <1>5 DEF Agent!Next

LEMMA AgentRight == AgentInv => Agent!TypeOK /\ Agent!NeverChecks /\ Agent!RolesResolved
<1> SUFFICES ASSUME AgentInv PROVE Agent!NeverChecks /\ Agent!RolesResolved
  BY DEF AgentInv
<1>1. Agent!NeverChecks
  BY DEF AgentInv, Agent!NeverChecks
<1>2. ASSUME resolved = Agents, NEW a \in Agents
      PROVE  role[a] = "Controlled" /\ role[Agent!Peer(a)] = "Controlled"
                 <=> tiebreaker[a] = tiebreaker[Agent!Peer(a)]
  <2>1. Agent!Peer(a) \in Agents /\ Agent!Peer(Agent!Peer(a)) = a
    BY PeersMutual
  <2>2. tiebreaker[a] \in Nat /\ tiebreaker[Agent!Peer(a)] \in Nat
    BY <2>1, AgentConstants DEF AgentInv
  <2> DEFINE x == tiebreaker[a]
             y == tiebreaker[Agent!Peer(a)]
  <2>3. /\ role[a] = IF x > y THEN "Controlling" ELSE "Controlled"
        /\ role[Agent!Peer(a)] = IF y > x THEN "Controlling" ELSE "Controlled"
    BY <1>2, <2>1 DEF AgentInv, Agent!Resolved
  <2>4. x \in Nat /\ y \in Nat
    BY <2>2
  <2> HIDE DEF x, y
  <2>5. role[a] = "Controlled" /\ role[Agent!Peer(a)] = "Controlled" <=> x = y
    BY <2>3, <2>4
  <2> QED
    BY <2>5 DEF x, y
<1> QED
  BY <1>1, <1>2 DEF Agent!RolesResolved

-----------------------------------------------------------------------------
\* The post-quantum engine.  What an engine works with is what it negotiated last,
\* and a shared secret is numbered by the secrets there were before.
Suites == Pq!Kems \X Pq!Signatures
SecretsInv(S) == /\ IsFiniteSet(S) /\ Cardinality(S) <= MaxSecrets
                 /\ \A s \in S : s.token \in Nat /\ s.token < Cardinality(S)
                 /\ \A s, t \in S : s.token = t.token => s = t
PqInv ==
  /\ capabilities \in [Engines -> Capabilities]
  /\ pair \in [Engines -> Suites \cup {<<>>}] /\ partner \in [Engines -> Engines]
  /\ \A e \in Engines : pair[e] # <<>> => pair[e] = Pq!NegotiatePqc(capabilities[e], capabilities[partner[e]])
  /\ \A e \in Engines : partner[e] # e => pair[e] # <<>>
  /\ SecretsInv(secrets)
  /\ Pq!SizesDeclared
  /\ \A s \in signed : s.variant = "Dilithium65"

LEMMA PqSize == \A S : Pq!Cardinality(S) = Cardinality(S)
  BY DEF Pq!Cardinality, Cardinality

LEMMA PqConstants ==
  /\ Pq!Constants /\ MaxSecrets \in Nat
  /\ \A c \in Capabilities : /\ c.kems \in Seq(Pq!Kems) /\ c.signatures \in Seq(Pq!Signatures)
                             /\ c.min_security_level \in Nat
  BY DataPlaneAssumption DEF Pq!Constants

\* Every algorithm has a level.
LEMMA LevelsNat == \A x \in Pq!Kems \cup Pq!Signatures : Pq!Level[x] \in Nat
  BY DEF Pq!Kems, Pq!Signatures, Pq!Level

\* First takes a member of what FirstCommon found.
LEMMA FirstFound ==
  ASSUME NEW S, NEW mine \in Seq(S), NEW theirs, NEW level, Pq!FirstCommon(mine, theirs, level) # {}
  PROVE  LET x == Pq!First(mine, Pq!FirstCommon(mine, theirs, level)) IN
         x \in S /\ Pq!InSeq(x, mine) /\ Pq!InSeq(x, theirs) /\ Pq!Level[x] >= level
<1> DEFINE T == Pq!FirstCommon(mine, theirs, level)
<1>1. T \subseteq DOMAIN mine /\ DOMAIN mine \subseteq Nat
  BY DEF Pq!FirstCommon
<1>2. \E i \in T : \A j \in T : i <= j
  BY <1>1, LeastNat
<1>3. PICK i \in T : Pq!First(mine, T) = mine[i]
  BY <1>2 DEF Pq!First
<1>4. i \in DOMAIN mine /\ Pq!Level[mine[i]] >= level /\ Pq!InSeq(mine[i], theirs)
  BY <1>3 DEF Pq!FirstCommon
<1> QED
  BY <1>3, <1>4 DEF Pq!InSeq

\* negotiate_pqc chooses what both list, at the stricter level.
LEMMA Chosen ==
  ASSUME NEW c \in Capabilities, NEW d \in Capabilities, Pq!NegotiatePqc(c, d) # <<>>
  PROVE  LET s == Pq!NegotiatePqc(c, d) IN
         /\ s \in Suites
         /\ \A x \in {c, d} : /\ Pq!InSeq(s[1], x.kems) /\ Pq!InSeq(s[2], x.signatures)
                              /\ \A i \in 1 .. 2 : Pq!Level[s[i]] >= x.min_security_level
<1> DEFINE level == Pq!Highest(c.min_security_level, d.min_security_level)
           kems == Pq!FirstCommon(c.kems, d.kems, level)
           sigs == Pq!FirstCommon(c.signatures, d.signatures, level)
           k == Pq!First(c.kems, kems)
           g == Pq!First(c.signatures, sigs)
<1>1. kems # {} /\ sigs # {} /\ Pq!NegotiatePqc(c, d) = <<k, g>>
  BY DEF Pq!NegotiatePqc
<1>2. c.kems \in Seq(Pq!Kems) /\ c.signatures \in Seq(Pq!Signatures)
      /\ c.min_security_level \in Nat /\ d.min_security_level \in Nat
  BY PqConstants
<1>3. k \in Pq!Kems /\ Pq!InSeq(k, c.kems) /\ Pq!InSeq(k, d.kems) /\ Pq!Level[k] >= level
  BY <1>1, <1>2, FirstFound
<1>4. g \in Pq!Signatures /\ Pq!InSeq(g, c.signatures) /\ Pq!InSeq(g, d.signatures) /\ Pq!Level[g] >= level
  BY <1>1, <1>2, FirstFound
<1>5. level \in Nat /\ level >= c.min_security_level /\ level >= d.min_security_level
  BY <1>2 DEF Pq!Highest
<1> HIDE DEF level, kems, sigs, k, g
<1>6. Pq!Level[k] \in Nat /\ Pq!Level[g] \in Nat
  BY <1>3, <1>4, LevelsNat
<1>7. /\ Pq!Level[k] >= c.min_security_level /\ Pq!Level[k] >= d.min_security_level
      /\ Pq!Level[g] >= c.min_security_level /\ Pq!Level[g] >= d.min_security_level
  BY <1>2, <1>3, <1>4, <1>5, <1>6
<1>8. <<k, g>> \in Suites /\ <<k, g>>[1] = k /\ <<k, g>>[2] = g
  BY <1>3, <1>4 DEF Suites
<1>9. \A i \in 1 .. 2 : i = 1 \/ i = 2
  OBVIOUS
<1> QED
  BY <1>1, <1>3, <1>4, <1>7, <1>8, <1>9

\* A secret is produced: its token is new.
LEMMA SecretAdded ==
  ASSUME NEW S, SecretsInv(S), Cardinality(S) < MaxSecrets, NEW h, NEW n
  PROVE  SecretsInv(S \cup {[holder |-> h, number |-> n, token |-> Cardinality(S)]})
<1> DEFINE s == [holder |-> h, number |-> n, token |-> Cardinality(S)]
           T == S \cup {s}
<1>1. s.token = Cardinality(S) /\ Cardinality(S) \in Nat
  BY FS_CardinalityType DEF SecretsInv
<1> HIDE DEF s
<1>2. s \notin S
  BY <1>1 DEF SecretsInv
<1>3. IsFiniteSet(T) /\ Cardinality(T) = Cardinality(S) + 1
  BY <1>2, FS_AddElement DEF SecretsInv
<1>4. MaxSecrets \in Nat
  BY PqConstants
<1>5. Cardinality(T) <= MaxSecrets
  BY <1>1, <1>3, <1>4
<1>6. \A x \in T : x.token \in Nat /\ x.token < Cardinality(T)
  BY <1>1, <1>3 DEF SecretsInv
<1>7. \A x, y \in T : x.token = y.token => x = y
  BY <1>1 DEF SecretsInv
<1> HIDE DEF T
<1>8. SecretsInv(T)
  BY <1>3, <1>5, <1>6, <1>7 DEF SecretsInv
<1> QED
  BY <1>8 DEF T, s

LEMMA PqInit == Pq!Init => PqInv
<1> SUFFICES ASSUME Pq!Init PROVE PqInv
  OBVIOUS
<1>1. SecretsInv({})
  BY FS_EmptySet, PqConstants DEF SecretsInv
<1> QED
  BY <1>1 DEF Pq!Init, PqInv, Pq!SizesDeclared

LEMMA PqNext == PqInv /\ [Pq!Next]_pq_vars => PqInv'
<1> SUFFICES ASSUME PqInv, [Pq!Next]_pq_vars PROVE PqInv'
  OBVIOUS
<1>t. /\ capabilities \in [Engines -> Capabilities]
      /\ pair \in [Engines -> Suites \cup {<<>>}] /\ partner \in [Engines -> Engines]
      /\ \A e \in Engines : pair[e] # <<>> => pair[e] = Pq!NegotiatePqc(capabilities[e], capabilities[partner[e]])
      /\ \A e \in Engines : partner[e] # e => pair[e] # <<>>
      /\ SecretsInv(secrets)
      /\ \A s \in signed : s.variant = "Dilithium65"
  BY DEF PqInv
<1>z. Pq!PublicKeySize["HybridX25519MlKem768"] = 1216 /\ Pq!CiphertextSize["HybridX25519MlKem768"] = 1120
  BY DEF Pq!PublicKeySize, Pq!CiphertextSize
<1>s. \A m \in pq_network : m.size = IF m.type = "key" THEN 1216 ELSE 1120
  BY <1>z DEF PqInv, Pq!SizesDeclared
<1>1. ASSUME NEW e \in Engines, NEW f \in Engines, e # f, Pq!Negotiate(e, f) PROVE PqInv'
  <2> DEFINE c == Pq!NegotiatePqc(capabilities[e], capabilities[f])
  <2>1. UNCHANGED <<capabilities, pq_network, secrets, signed>>
    BY <1>1 DEF Pq!Negotiate
  <2>2. CASE c = <<>>
    BY <2>1, <2>2, <1>1, <1>t DEF Pq!Negotiate, PqInv, Pq!SizesDeclared
  <2>3. CASE c # <<>>
    <3>1. c \in Suites
      BY <2>3, <1>t, Chosen
    <3>2. pair' = [pair EXCEPT ![e] = c] /\ partner' = [partner EXCEPT ![e] = f]
      BY <2>3, <1>1 DEF Pq!Negotiate
    <3>3. \A x \in Engines : /\ pair'[x] = IF x = e THEN c ELSE pair[x]
                             /\ partner'[x] = IF x = e THEN f ELSE partner[x]
      BY <3>2, <1>t
    <3>4. /\ \A x \in Engines : partner'[x] # x => pair'[x] # <<>>
          /\ pair' \in [Engines -> Suites \cup {<<>>}] /\ partner' \in [Engines -> Engines]
      BY <3>1, <3>2, <3>3, <2>3, <1>t
    <3>5. \A x \in Engines : pair'[x] # <<>> =>
              pair'[x] = Pq!NegotiatePqc(capabilities'[x], capabilities'[partner'[x]])
      BY <3>3, <2>1, <1>t
    <3> QED
      BY <3>4, <3>5, <2>1, <1>t DEF PqInv, Pq!SizesDeclared
  <2> QED
    BY <2>2, <2>3
<1>2. ASSUME NEW e \in Engines, Pq!GenerateHybridKeypair(e) PROVE PqInv'
  <2>1. UNCHANGED <<capabilities, pair, partner, secrets, signed>>
    BY <1>2 DEF Pq!GenerateHybridKeypair
  <2>2. \A m \in pq_network' : m.size = IF m.type = "key" THEN 1216 ELSE 1120
    BY <1>2, <1>s DEF Pq!GenerateHybridKeypair, Pq!KyberPk
  <2> QED
    BY <2>1, <2>2, <1>t, <1>z DEF PqInv, Pq!SizesDeclared
<1>3. ASSUME NEW e \in Engines, NEW m \in pq_network, Pq!Encapsulate(e, m) PROVE PqInv'
  <2>1. UNCHANGED <<capabilities, pair, partner, signed>>
    BY <1>3 DEF Pq!Encapsulate
  <2>2. \A x \in pq_network' : x.size = IF x.type = "key" THEN 1216 ELSE 1120
    BY <1>3, <1>s DEF Pq!Encapsulate, Pq!KyberCt
  <2>3. SecretsInv(secrets')
    BY <1>3, <1>t, PqSize, SecretAdded DEF Pq!Encapsulate, Pq!Token
  <2> QED
    BY <2>1, <2>2, <2>3, <1>t, <1>z DEF PqInv, Pq!SizesDeclared
<1>4. ASSUME NEW e \in Engines, NEW m \in pq_network, Pq!Decapsulate(e, m) PROVE PqInv'
  <2>1. UNCHANGED <<capabilities, pair, partner, pq_network, signed>>
    BY <1>4 DEF Pq!Decapsulate
  <2>2. SecretsInv(secrets')
    BY <1>4, <1>t, PqSize, SecretAdded DEF Pq!Decapsulate, Pq!Recovered, Pq!Token
  <2> QED
    BY <2>1, <2>2, <1>t DEF PqInv, Pq!SizesDeclared
<1>5. ASSUME NEW e \in Engines, NEW m \in Messages, Pq!Sign(e, m) PROVE PqInv'
  <2>1. UNCHANGED <<capabilities, pair, partner, pq_network, secrets>>
    BY <1>5 DEF Pq!Sign
  <2>2. \A s \in signed' : s.variant = "Dilithium65"
    BY <1>5, <1>t DEF Pq!Sign
  <2> QED
    BY <2>1, <2>2, <1>t DEF PqInv, Pq!SizesDeclared
<1>6. CASE UNCHANGED pq_vars
  BY <1>6, <1>t DEF pq_vars, PqInv, Pq!SizesDeclared
<1> QED
  BY <1>1, <1>2, <1>3, <1>4, <1>5, <1>6 DEF Pq!Next

\* What the conclusions need of two engines that name each other.
LEMMA PairsAgree ==
  ASSUME PqInv, NEW e \in Engines, NEW f \in Engines, partner[e] = f, partner[f] = e, e # f,
         capabilities[e].kems = capabilities[f].kems,
         capabilities[e].signatures = capabilities[f].signatures
  PROVE  pair[e] = pair[f]
<1>1. /\ pair[e] = Pq!NegotiatePqc(capabilities[e], capabilities[f])
      /\ pair[f] = Pq!NegotiatePqc(capabilities[f], capabilities[e])
  BY DEF PqInv
<1> DEFINE a == capabilities[e].min_security_level
           b == capabilities[f].min_security_level
<1>2. a \in Nat /\ b \in Nat
  BY PqConstants DEF PqInv
<1> HIDE DEF a, b
<1>3. Pq!Highest(a, b) = Pq!Highest(b, a)
  BY <1>2 DEF Pq!Highest
<1> QED
  BY <1>1, <1>3 DEF Pq!NegotiatePqc, a, b

LEMMA PqRight ==
  PqInv => /\ Pq!TypeOK /\ Pq!LevelsHold /\ Pq!SameOrderAgrees /\ Pq!SecretsDiffer
           /\ Pq!SizesDeclared /\ Pq!VerifiesItsMessage
<1> SUFFICES ASSUME PqInv
             PROVE  /\ Pq!TypeOK /\ Pq!LevelsHold /\ Pq!SameOrderAgrees /\ Pq!SecretsDiffer
                    /\ Pq!SizesDeclared /\ Pq!VerifiesItsMessage
  OBVIOUS
<1>1. Pq!TypeOK
  BY PqConstants, PqSize DEF PqInv, SecretsInv, Suites, Pq!TypeOK, Pq!Token
<1>2. Pq!LevelsHold
  <2> SUFFICES ASSUME NEW e \in Engines, pair[e] # <<>>, NEW c \in {capabilities[e], capabilities[partner[e]]}
               PROVE  /\ Pq!InSeq(pair[e][1], c.kems) /\ Pq!InSeq(pair[e][2], c.signatures)
                      /\ \A i \in 1 .. 2 : Pq!Level[pair[e][i]] >= c.min_security_level
    BY DEF Pq!LevelsHold
  <2>1. /\ pair[e] = Pq!NegotiatePqc(capabilities[e], capabilities[partner[e]])
        /\ capabilities[e] \in Capabilities /\ capabilities[partner[e]] \in Capabilities
    BY DEF PqInv
  <2> QED
    BY <2>1, Chosen
<1>3. Pq!SameOrderAgrees
  BY PairsAgree DEF Pq!SameOrderAgrees
<1>4. Pq!SecretsDiffer
  BY DEF PqInv, SecretsInv, Pq!SecretsDiffer
<1>5. Pq!VerifiesItsMessage
  BY DEF PqInv, Pq!VerifiesItsMessage, Pq!Verifies
<1> QED
  BY <1>1, <1>2, <1>3, <1>4, <1>5 DEF PqInv

-----------------------------------------------------------------------------
\* The Noise handshake.  A chaining key that was split is that of one pair of
\* ephemeral keys, and a side uses each of its own in one handshake only.
Greeted(e) == Noise!Mix(Noise!Mix(<<>>, Noise!Es(e)), Noise!Ss)
Full(e, f) == Noise!Mix(Noise!Mix(Greeted(e), Noise!Ee(e, f)), Noise!Se(f))
Greetings  == {Noise!Es(e) : e \in Nat}

InitiatorRight(i) ==
  /\ i = [state |-> i.state, e |-> i.e, ck |-> i.ck, reply |-> i.reply]
  /\ i.e \in 1 .. MaxAttempts /\ i.reply \in Nat
  /\ \/ i.state = "Init" /\ i.ck = <<>>
     \/ i.state = "InitiatorSent" /\ i.ck = Greeted(i.e)
     \/ i.state = "Established" /\ i.ck = Full(i.e, i.reply)
ResponderRight(r) ==
  /\ r = [state |-> r.state, e |-> r.e, ck |-> r.ck, peer |-> r.peer, spoiled |-> r.spoiled]
  /\ r.e \in 1 .. MaxAttempts /\ r.peer \in Nat
  /\ \/ r.state = "Init" /\ r.spoiled = FALSE /\ r.ck = <<>>
     \/ r.state = "Init" /\ r.spoiled = TRUE /\ r.ck \in Seq(Greetings) /\ r.ck # <<>>
     \/ r.state = "ResponderSent" /\ r.spoiled = FALSE /\ r.ck = Greeted(r.peer)
     \/ r.state = "Established" /\ r.spoiled = FALSE /\ r.ck = Full(r.peer, r.e)
MessageRight(m) ==
  /\ m.type \in {"first", "second"} /\ m.e \in 0 .. MaxAttempts
  /\ m.sealed \in {<<>>, Noise!Mix(<<>>, Noise!Es(m.e))}

\* The keys of either side, with n packets sent under them.
InitiatorKeys(i, n) == IF i.state # "Established" THEN Noise!NoKeys
                       ELSE [send |-> Noise!K1(i.ck), recv |-> Noise!K2(i.ck), nonce |-> n]
ResponderKeys(r, F, n) == IF r.state # "Established" THEN Noise!NoKeys
                          ELSE IF "responder" \in F
                               THEN [send |-> Noise!K1(r.ck), recv |-> Noise!K2(r.ck), nonce |-> n]
                               ELSE [send |-> Noise!K2(r.ck), recv |-> Noise!K1(r.ck), nonce |-> n]
KeysRight(k, i, r, F) ==
  /\ k = [s \in Noise!Sides |-> k[s]]
  /\ k["initiator"] = InitiatorKeys(i, k["initiator"].nonce)
  /\ k["responder"] = ResponderKeys(r, F, k["responder"].nonce)
  /\ F \subseteq Noise!Sides /\ ("responder" \in F => r.state = "Established")

\* A packet's key is of a handshake of its side: an earlier one or, when it is
\* complete, the one under way.
PacketRight(p, i, r, F) ==
  \/ /\ p.side = "initiator"
     /\ \E x, y \in Nat : /\ p.key = Noise!K1(Full(x, y))
                          /\ x < i.e \/ (x = i.e /\ i.state = "Established")
  \/ /\ p.side = "responder"
     /\ \E x, y \in Nat :
          \/ p.key = Noise!K2(Full(x, y)) /\ (y < r.e \/ (y = r.e /\ r.state = "Established"))
          \/ p.key = Noise!K1(Full(x, y)) /\ (y < r.e \/ (y = r.e /\ "responder" \in F))
NoncesRight(k, P, F) ==
  \A s \in Noise!Sides \ F :
      \A p, q \in {x \in P : x.side = s /\ x.key = k[s].send} :
          p.nonce \in Nat /\ p.nonce < k[s].nonce /\ (p.nonce = q.nonce => p = q)
By(P, s) == {p \in P : p.side = s}
CountsRight(k, P) ==
  /\ IsFiniteSet(P) /\ Cardinality(P) <= MaxPackets
  /\ \A s \in Noise!Sides : k[s].nonce \in Nat /\ k[s].nonce <= Cardinality(P)
  /\ \A p \in P : p.number \in Nat /\ p.number < Cardinality(By(P, p.side))

NoiseInv ==
  /\ InitiatorRight(initiator) /\ ResponderRight(responder)
  /\ \A m \in noise_network : MessageRight(m)
  /\ KeysRight(noise_keys, initiator, responder, fetched)
  /\ \A p \in packets : PacketRight(p, initiator, responder, fetched)
  /\ NoncesRight(noise_keys, packets, fetched)
  /\ CountsRight(noise_keys, packets)

LEMMA NoiseSize == \A S : Noise!Cardinality(S) = Cardinality(S)
  BY DEF Noise!Cardinality, Cardinality

LEMMA NoiseConstants == Noise!Constants /\ MaxAttempts \in Nat \ {0} /\ MaxPackets \in Nat
  BY DataPlaneAssumption DEF Noise!Constants

\* A secret is mixed into a chaining key.
Secrets == {Noise!Es(e) : e \in Nat} \cup {Noise!Ss} \cup {Noise!Ee(e, f) : e, f \in Nat} \cup {Noise!Se(f) : f \in Nat}
LEMMA Mixed ==
  ASSUME NEW S, NEW ck \in Seq(S), NEW x \in S
  PROVE  /\ Noise!Mix(ck, x) \in Seq(S) /\ Len(Noise!Mix(ck, x)) = Len(ck) + 1 /\ Noise!Mix(ck, x) # <<>>
         /\ \A i \in 1 .. Len(ck) : Noise!Mix(ck, x)[i] = ck[i]
         /\ Noise!Mix(ck, x)[Len(ck) + 1] = x
  BY DEF Noise!Mix

LEMMA FullIs == \A e, f \in Nat : Full(e, f)[3] = Noise!Ee(e, f)
<1> SUFFICES ASSUME NEW e \in Nat, NEW f \in Nat PROVE Full(e, f)[3] = Noise!Ee(e, f)
  OBVIOUS
<1> DEFINE a == Noise!Mix(<<>>, Noise!Es(e))
           b == Noise!Mix(a, Noise!Ss)
           c == Noise!Mix(b, Noise!Ee(e, f))
           d == Noise!Mix(c, Noise!Se(f))
<1> HIDE DEF a, b, c, d
<1>1. Noise!Es(e) \in Secrets /\ Noise!Ss \in Secrets /\ Noise!Ee(e, f) \in Secrets /\ Noise!Se(f) \in Secrets
  BY DEF Secrets
<1>2. <<>> \in Seq(Secrets) /\ Len(<<>>) = 0
  OBVIOUS
<1>3. a \in Seq(Secrets) /\ Len(a) = Len(<<>>) + 1
  BY <1>1, <1>2, Mixed DEF a
<1>4. b \in Seq(Secrets) /\ Len(b) = Len(a) + 1
  BY <1>1, <1>3, Mixed DEF b
<1>5. c \in Seq(Secrets) /\ Len(c) = Len(b) + 1 /\ c[Len(b) + 1] = Noise!Ee(e, f)
  BY <1>1, <1>4, Mixed DEF c
<1>6. \A i \in 1 .. Len(c) : d[i] = c[i]
  BY <1>5 DEF d, Noise!Mix
<1>8. Len(b) = 2 /\ Len(c) = 3
  BY <1>2, <1>3, <1>4, <1>5
<1>7. Full(e, f) = d
  BY DEF Full, Greeted, a, b, c, d
<1>9. c[3] = Noise!Ee(e, f) /\ d[3] = c[3]
  BY <1>5, <1>6, <1>8
<1> QED
  BY <1>7, <1>9

\* A key names its handshake and its direction.
LEMMA FullInjective ==
  ASSUME NEW e \in Nat, NEW f \in Nat, NEW x \in Nat, NEW y \in Nat, Full(e, f) = Full(x, y)
  PROVE  e = x /\ f = y
<1>1. <<"ee", e, f>> = <<"ee", x, y>>
  BY FullIs DEF Noise!Ee
<1>2. <<"ee", e, f>>[2] = e /\ <<"ee", e, f>>[3] = f /\ <<"ee", x, y>>[2] = x /\ <<"ee", x, y>>[3] = y
  OBVIOUS
<1> QED
  BY <1>1, <1>2, Zenon

LEMMA KeysDiffer ==
  /\ \A a, b : Noise!K1(a) # Noise!K2(b)
  /\ \A a : Noise!K1(a) # <<>> /\ Noise!K2(a) # <<>>
  /\ \A a, b : (Noise!K1(a) = Noise!K1(b) => a = b) /\ (Noise!K2(a) = Noise!K2(b) => a = b)
  BY DEF Noise!K1, Noise!K2

\* What a first message leaves of a chaining key that starts with nothing but
\* first messages, and why it opens none after one that did not.
LEMMA GreetingMixed ==
  ASSUME NEW ck, NEW e \in Nat, ck = <<>> \/ (ck \in Seq(Greetings) /\ ck # <<>>)
  PROVE  /\ Noise!Mix(ck, Noise!Es(e)) \in Seq(Greetings) /\ Noise!Mix(ck, Noise!Es(e)) # <<>>
         /\ ck # <<>> => Noise!Mix(ck, Noise!Es(e)) # Noise!Mix(<<>>, Noise!Es(e))
<1>g. Noise!Es(e) \in Greetings
  BY DEF Greetings
<1>n. <<>> \in Seq(Greetings)
  OBVIOUS
<1>1. ck \in Seq(Greetings) /\ <<>> \in Seq(Greetings) /\ Noise!Es(e) \in Greetings
  BY <1>g, <1>n, Zenon
<1> DEFINE x == Noise!Es(e)
<1>x. x \in Greetings
  BY <1>1
<1> HIDE DEF x
<1>a. /\ Noise!Mix(ck, x) \in Seq(Greetings) /\ Noise!Mix(ck, x) # <<>>
      /\ Len(Noise!Mix(ck, x)) = Len(ck) + 1
  BY <1>1, <1>x, Mixed
<1>b. Len(Noise!Mix(<<>>, x)) = Len(<<>>) + 1
  BY <1>n, <1>x, Mixed
<1>3. ck # <<>> => Len(ck) \in Nat /\ Len(ck) # 0
  BY <1>1
<1>4. Len(<<>>) = 0
  OBVIOUS
<1>5. /\ Noise!Mix(ck, x) \in Seq(Greetings) /\ Noise!Mix(ck, x) # <<>>
      /\ ck # <<>> => Noise!Mix(ck, x) # Noise!Mix(<<>>, x)
  BY <1>a, <1>b, <1>3, <1>4
<1> QED
  BY <1>5 DEF x

\* Packets keep their place in time.
LEMMA PacketsKept ==
  ASSUME NEW p, NEW i, NEW r, NEW F, NEW i2, NEW r2, NEW F2, PacketRight(p, i, r, F),
         i.e \in Nat, i2.e \in Nat, r.e \in Nat, r2.e \in Nat,
         i.e < i2.e \/ (i2.e = i.e /\ (i.state = "Established" => i2.state = "Established")),
         r.e < r2.e \/ (r2.e = r.e /\ (r.state = "Established" => r2.state = "Established")
                                   /\ ("responder" \in F => "responder" \in F2))
  PROVE  PacketRight(p, i2, r2, F2)
<1>1. CASE p.side = "initiator"
  <2>1. PICK x, y \in Nat : p.key = Noise!K1(Full(x, y)) /\ (x < i.e \/ (x = i.e /\ i.state = "Established"))
    BY <1>1 DEF PacketRight
  <2>2. x < i2.e \/ (x = i2.e /\ i2.state = "Established")
    BY <2>1
  <2> QED
    BY <1>1, <2>1, <2>2 DEF PacketRight
<1>2. CASE p.side = "responder"
  <2>1. PICK x, y \in Nat :
          \/ p.key = Noise!K2(Full(x, y)) /\ (y < r.e \/ (y = r.e /\ r.state = "Established"))
          \/ p.key = Noise!K1(Full(x, y)) /\ (y < r.e \/ (y = r.e /\ "responder" \in F))
    BY <1>2 DEF PacketRight
  <2>2. \/ p.key = Noise!K2(Full(x, y)) /\ (y < r2.e \/ (y = r2.e /\ r2.state = "Established"))
        \/ p.key = Noise!K1(Full(x, y)) /\ (y < r2.e \/ (y = r2.e /\ "responder" \in F2))
    BY <2>1
  <2> QED
    BY <1>2, <2>2 DEF PacketRight
<1> QED
  BY <1>1, <1>2 DEF PacketRight

\* The keys of a side stay as they are, or no packet has the one it sends with.
LEMMA NoncesKept ==
  ASSUME NEW k, NEW k2, NEW P, NEW F, NEW F2, NoncesRight(k, P, F),
         \A s \in Noise!Sides \ F2 : \/ s \notin F /\ k2[s] = k[s]
                                     \/ \A p \in P : p.side = s => p.key # k2[s].send
  PROVE  NoncesRight(k2, P, F2)
  BY DEF NoncesRight

\* The keys of one side are replaced by some from nonce 0.
LEMMA KeysReplaced ==
  ASSUME NEW k, NEW P, CountsRight(k, P), k = [s \in Noise!Sides |-> k[s]],
         NEW side \in Noise!Sides, NEW new, new.nonce = 0, NEW k2, k2 = [k EXCEPT ![side] = new]
  PROVE  /\ k2 = [s \in Noise!Sides |-> k2[s]] /\ k2[side] = new
         /\ \A s \in Noise!Sides \ {side} : k2[s] = k[s]
         /\ CountsRight(k2, P)
<1>1. k2 = [s \in Noise!Sides |-> k2[s]] /\ k2[side] = new /\ \A s \in Noise!Sides \ {side} : k2[s] = k[s]
  OBVIOUS
<1>2. Cardinality(P) \in Nat
  BY FS_CardinalityType DEF CountsRight
<1>3. \A s \in Noise!Sides : k2[s].nonce \in Nat /\ k2[s].nonce <= Cardinality(P)
  BY <1>1, <1>2 DEF CountsRight
<1> QED
  BY <1>1, <1>3 DEF CountsRight

\* No packet is encrypted under the keys of a side that has none.
LEMMA NoKeysSend ==
  ASSUME NoiseInv, NEW p \in packets, NEW k, k.send = <<>>
  PROVE  p.key # k.send
<1>1. PacketRight(p, initiator, responder, fetched)
  BY DEF NoiseInv
<1> QED
  BY <1>1, KeysDiffer, Zenon DEF PacketRight

LEMMA NoiseInit == Noise!Init => NoiseInv
<1> SUFFICES ASSUME Noise!Init PROVE NoiseInv
  OBVIOUS
<1>1. /\ initiator = [state |-> "Init", e |-> 1, ck |-> <<>>, reply |-> 0]
      /\ responder = [state |-> "Init", e |-> 1, ck |-> <<>>, peer |-> 0, spoiled |-> FALSE]
      /\ noise_network = {} /\ packets = {} /\ fetched = {} /\ noise_keys = [s \in Noise!Sides |-> Noise!NoKeys]
  BY DEF Noise!Init, Noise!Fresh, Noise!FreshResponder, Noise!Garbled
<1>2. InitiatorRight(initiator) /\ ResponderRight(responder)
  BY <1>1, NoiseConstants DEF InitiatorRight, ResponderRight
<1>3. KeysRight(noise_keys, initiator, responder, fetched)
  BY <1>1 DEF KeysRight, InitiatorKeys, ResponderKeys, Noise!Sides
<1>4. NoncesRight(noise_keys, packets, fetched)
  BY <1>1 DEF NoncesRight
<1>5. CountsRight(noise_keys, packets)
  BY <1>1, FS_EmptySet, NoiseConstants DEF CountsRight, Noise!NoKeys
<1> QED
  BY <1>1, <1>2, <1>3, <1>4, <1>5 DEF NoiseInv

\* The parts of the invariant, to cite.
LEMMA NoiseParts ==
  ASSUME NoiseInv
  PROVE  /\ InitiatorRight(initiator) /\ ResponderRight(responder)
         /\ \A m \in noise_network : MessageRight(m)
         /\ KeysRight(noise_keys, initiator, responder, fetched)
         /\ \A p \in packets : PacketRight(p, initiator, responder, fetched)
         /\ NoncesRight(noise_keys, packets, fetched)
         /\ CountsRight(noise_keys, packets)
         /\ initiator.e \in Nat /\ responder.e \in Nat
<1>1. initiator.e \in 1 .. MaxAttempts /\ responder.e \in 1 .. MaxAttempts
  BY DEF NoiseInv, InitiatorRight, ResponderRight
<1> QED
  BY <1>1, NoiseConstants DEF NoiseInv

\* A step of the handshake that makes no keys.
LEMMA HandshakeMoves ==
  ASSUME NoiseInv, InitiatorRight(initiator'), ResponderRight(responder'),
         \A m \in noise_network' : MessageRight(m),
         initiator'.e = initiator.e /\ responder'.e = responder.e,
         initiator' # initiator => initiator.state # "Established" /\ initiator'.state # "Established",
         responder' # responder => responder.state # "Established" /\ responder'.state # "Established",
         UNCHANGED <<noise_keys, packets, fetched>>
  PROVE  NoiseInv'
<1>1. KeysRight(noise_keys, initiator', responder', fetched)
  BY NoiseParts DEF KeysRight, InitiatorKeys, ResponderKeys
<1>2. \A p \in packets : PacketRight(p, initiator', responder', fetched)
  BY NoiseParts, PacketsKept
<1> QED
  BY <1>1, <1>2, NoiseParts DEF NoiseInv

LEMMA FirstBuilt == NoiseInv /\ Noise!BuildInitiatorMessage => NoiseInv'
<1> SUFFICES ASSUME NoiseInv, Noise!BuildInitiatorMessage PROVE NoiseInv'
  OBVIOUS
<1>1. initiator.ck = <<>> /\ initiator.state = "Init" /\ InitiatorRight(initiator)
  BY NoiseParts DEF Noise!BuildInitiatorMessage, InitiatorRight
<1>2. initiator' = [initiator EXCEPT !.state = "InitiatorSent", !.ck = Greeted(initiator.e)]
  BY <1>1 DEF Noise!BuildInitiatorMessage, Greeted
<1>3. InitiatorRight(initiator') /\ initiator'.e = initiator.e /\ initiator'.state = "InitiatorSent"
  BY <1>1, <1>2 DEF InitiatorRight
<1>4. \A m \in noise_network' : MessageRight(m)
  <2> DEFINE m == [type |-> "first", e |-> initiator.e, sealed |-> Noise!Mix(<<>>, Noise!Es(initiator.e))]
  <2>1. noise_network' = noise_network \cup {m}
    BY <1>1 DEF Noise!BuildInitiatorMessage
  <2>2. MessageRight(m)
    BY <1>1, NoiseConstants DEF MessageRight, InitiatorRight
  <2> HIDE DEF m
  <2> QED
    BY <2>1, <2>2, NoiseParts
<1> QED
  BY <1>1, <1>3, <1>4, NoiseParts, HandshakeMoves DEF Noise!BuildInitiatorMessage

LEMMA FirstProcessed ==
  ASSUME NoiseInv, NEW m \in noise_network, Noise!ProcessInitiatorMessage(m)
  PROVE  NoiseInv'
<1> DEFINE es == Noise!Mix(responder.ck, Noise!Es(m.e))
<1>m. MessageRight(m) /\ ResponderRight(responder) /\ responder.state = "Init"
  BY NoiseParts DEF Noise!ProcessInitiatorMessage
<1>e. m.e \in Nat
  BY <1>m, NoiseConstants DEF MessageRight
<1>c. responder.ck = <<>> \/ (responder.ck \in Seq(Greetings) /\ responder.ck # <<>>)
  BY <1>m DEF ResponderRight
<1>1. /\ MessageRight(m) /\ m.e \in Nat /\ ResponderRight(responder) /\ responder.state = "Init"
      /\ responder.ck = <<>> \/ (responder.ck \in Seq(Greetings) /\ responder.ck # <<>>)
  BY <1>m, <1>e, <1>c
<1>2. es \in Seq(Greetings) /\ es # <<>>
  BY <1>1, GreetingMixed
<1>3. m.sealed = es => responder.ck = <<>> /\ responder.spoiled = FALSE
  <2>1. m.sealed = es => responder.ck = <<>>
    BY <1>1, <1>2, GreetingMixed DEF MessageRight
  <2> QED
    BY <2>1, <1>1 DEF ResponderRight
<1>4. ResponderRight(responder') /\ responder'.e = responder.e /\ responder'.state # "Established"
  <2>1. CASE m.sealed = es
    <3>1. responder' = [responder EXCEPT !.state = "ResponderSent", !.ck = Greeted(m.e), !.peer = m.e]
      BY <2>1, <1>3 DEF Noise!ProcessInitiatorMessage, Greeted
    <3> QED
      BY <3>1, <2>1, <1>1, <1>3 DEF ResponderRight
  <2>2. CASE m.sealed # es
    <3>1. responder' = [responder EXCEPT !.ck = es, !.peer = m.e, !.spoiled = TRUE]
      BY <2>2 DEF Noise!ProcessInitiatorMessage, Noise!Applied
    <3> HIDE DEF es
    <3> QED
      BY <3>1, <1>1, <1>2 DEF ResponderRight
  <2> QED
    BY <2>1, <2>2
<1> QED
  BY <1>1, <1>4, NoiseParts, HandshakeMoves DEF Noise!ProcessInitiatorMessage

LEMMA Spoiled == ASSUME NoiseInv, NEW type \in {"first", "second"}, Noise!Spoil(type) PROVE NoiseInv'
<1>1. MessageRight([type |-> type, e |-> 0, sealed |-> <<>>])
  BY NoiseConstants DEF MessageRight
<1>2. \A m \in noise_network' : MessageRight(m)
  BY <1>1, NoiseParts DEF Noise!Spoil, Noise!Garbled
<1> QED
  BY <1>2, NoiseParts, HandshakeMoves DEF Noise!Spoil

\* The keys of one side are replaced, the other side and its keys stay.
LEMMA InitiatorMoves ==
  ASSUME NoiseInv, InitiatorRight(initiator'), UNCHANGED <<responder, noise_network, packets>>,
         NEW new, new.nonce = 0, noise_keys' = [noise_keys EXCEPT !["initiator"] = new],
         new = InitiatorKeys(initiator', 0), fetched' \subseteq Noise!Sides,
         "responder" \in fetched' <=> "responder" \in fetched,
         initiator'.e \in Nat,
         initiator.e < initiator'.e
             \/ (initiator'.e = initiator.e /\ (initiator.state = "Established" => initiator'.state = "Established")),
         "initiator" \in fetched' \/ \A p \in packets : p.side = "initiator" => p.key # new.send
  PROVE  NoiseInv'
<1>k. KeysRight(noise_keys, initiator, responder, fetched)
  BY NoiseParts
<1>s. "initiator" \in Noise!Sides /\ Noise!Sides = {"initiator", "responder"}
  BY DEF Noise!Sides
<1>1. /\ noise_keys' = [s \in Noise!Sides |-> noise_keys'[s]] /\ noise_keys'["initiator"] = new
      /\ noise_keys'["responder"] = noise_keys["responder"]
      /\ CountsRight(noise_keys', packets)
  <2>1. noise_keys = [s \in Noise!Sides |-> noise_keys[s]]
    BY <1>k DEF KeysRight
  <2>2. /\ noise_keys' = [s \in Noise!Sides |-> noise_keys'[s]] /\ noise_keys'["initiator"] = new
        /\ \A s \in Noise!Sides \ {"initiator"} : noise_keys'[s] = noise_keys[s]
        /\ CountsRight(noise_keys', packets)
    BY <2>1, <1>s, NoiseParts, KeysReplaced
  <2> QED
    BY <2>2, <1>s
<1>2. KeysRight(noise_keys', initiator', responder', fetched')
  BY <1>1, <1>k DEF KeysRight, InitiatorKeys, ResponderKeys
<1>3. \A p \in packets : PacketRight(p, initiator', responder, fetched')
  BY NoiseParts, PacketsKept
<1>4. NoncesRight(noise_keys', packets, fetched')
  <2>1. ASSUME NEW s \in Noise!Sides \ fetched'
        PROVE  \/ s \notin fetched /\ noise_keys'[s] = noise_keys[s]
               \/ \A p \in packets : p.side = s => p.key # noise_keys'[s].send
    BY <2>1, <1>1, <1>s
  <2> QED
    BY <2>1, NoiseParts, NoncesKept
<1> QED
  BY <1>1, <1>2, <1>3, <1>4, NoiseParts DEF NoiseInv

LEMMA ResponderMoves ==
  ASSUME NoiseInv, ResponderRight(responder'), UNCHANGED <<initiator, packets>>,
         \A m \in noise_network' : MessageRight(m),
         NEW new, new.nonce = 0, noise_keys' = [noise_keys EXCEPT !["responder"] = new],
         new = ResponderKeys(responder', fetched', 0), fetched' \subseteq Noise!Sides,
         "responder" \in fetched' => responder'.state = "Established",
         "initiator" \in fetched' <=> "initiator" \in fetched,
         responder'.e \in Nat,
         responder.e < responder'.e
             \/ (responder'.e = responder.e /\ (responder.state = "Established" => responder'.state = "Established")
                                            /\ ("responder" \in fetched => "responder" \in fetched')),
         "responder" \in fetched' \/ \A p \in packets : p.side = "responder" => p.key # new.send
  PROVE  NoiseInv'
<1>k. KeysRight(noise_keys, initiator, responder, fetched)
  BY NoiseParts
<1>s. "responder" \in Noise!Sides /\ Noise!Sides = {"initiator", "responder"}
  BY DEF Noise!Sides
<1>1. /\ noise_keys' = [s \in Noise!Sides |-> noise_keys'[s]] /\ noise_keys'["responder"] = new
      /\ noise_keys'["initiator"] = noise_keys["initiator"]
      /\ CountsRight(noise_keys', packets)
  <2>1. noise_keys = [s \in Noise!Sides |-> noise_keys[s]]
    BY <1>k DEF KeysRight
  <2>2. /\ noise_keys' = [s \in Noise!Sides |-> noise_keys'[s]] /\ noise_keys'["responder"] = new
        /\ \A s \in Noise!Sides \ {"responder"} : noise_keys'[s] = noise_keys[s]
        /\ CountsRight(noise_keys', packets)
    BY <2>1, <1>s, NoiseParts, KeysReplaced
  <2> QED
    BY <2>2, <1>s
<1>2. KeysRight(noise_keys', initiator', responder', fetched')
  BY <1>1, <1>k DEF KeysRight, InitiatorKeys, ResponderKeys
<1>3. \A p \in packets : PacketRight(p, initiator, responder', fetched')
  BY NoiseParts, PacketsKept
<1>4. NoncesRight(noise_keys', packets, fetched')
  <2>1. ASSUME NEW s \in Noise!Sides \ fetched'
        PROVE  \/ s \notin fetched /\ noise_keys'[s] = noise_keys[s]
               \/ \A p \in packets : p.side = s => p.key # noise_keys'[s].send
    BY <2>1, <1>1, <1>s
  <2> QED
    BY <2>1, NoiseParts, NoncesKept
<1> QED
  BY <1>1, <1>2, <1>3, <1>4, NoiseParts DEF NoiseInv

\* The keys of a handshake that was not complete before are new.
LEMMA SecondBuilt == NoiseInv /\ Noise!BuildResponderMessage => NoiseInv'
<1> SUFFICES ASSUME NoiseInv, Noise!BuildResponderMessage PROVE NoiseInv'
  OBVIOUS
<1> DEFINE ck == Full(responder.peer, responder.e)
<1>1. /\ ResponderRight(responder) /\ responder.state = "ResponderSent" /\ responder.spoiled = FALSE
      /\ responder.ck = Greeted(responder.peer) /\ responder.peer \in Nat /\ responder.e \in 1 .. MaxAttempts
  BY NoiseParts DEF Noise!BuildResponderMessage, ResponderRight
<1>2. /\ responder' = [responder EXCEPT !.state = "Established", !.ck = ck]
      /\ noise_keys' = [noise_keys EXCEPT !["responder"] = Noise!Swapped(ck)]
  BY <1>1 DEF Noise!BuildResponderMessage, Full
<1>3. /\ ResponderRight(responder') /\ responder'.e = responder.e
      /\ responder'.state = "Established" /\ responder'.ck = ck
  <2>1. /\ responder'.state = "Established" /\ responder'.ck = ck /\ responder'.e = responder.e
        /\ responder'.peer = responder.peer /\ responder'.spoiled = FALSE
        /\ responder' = [state |-> "Established", e |-> responder.e, ck |-> ck, peer |-> responder.peer, spoiled |-> FALSE]
    BY <1>1, <1>2 DEF ResponderRight
  <2> QED
    BY <2>1, <1>1 DEF ResponderRight
<1>4. "responder" \notin fetched /\ fetched \subseteq Noise!Sides
  BY <1>1, NoiseParts DEF KeysRight
<1>5. \A m \in noise_network' : MessageRight(m)
  <2> DEFINE m == [type |-> "second", e |-> responder.e, sealed |-> <<>>]
  <2>1. noise_network' = noise_network \cup {m}
    BY DEF Noise!BuildResponderMessage
  <2>2. MessageRight(m)
    BY <1>1, NoiseConstants DEF MessageRight
  <2> HIDE DEF m
  <2> QED
    BY <2>1, <2>2, NoiseParts
<1> DEFINE new == Noise!Swapped(ck)
<1>6. new.nonce = 0 /\ new.send = Noise!K2(ck) /\ new = ResponderKeys(responder', fetched, 0)
  BY <1>3, <1>4 DEF Noise!Swapped, ResponderKeys
<1>7. ASSUME NEW p \in packets, p.side = "responder" PROVE p.key # Noise!K2(ck)
  <2>1. PacketRight(p, initiator, responder, fetched)
    BY NoiseParts
  <2>2. PICK x, y \in Nat :
          \/ p.key = Noise!K2(Full(x, y)) /\ (y < responder.e \/ (y = responder.e /\ responder.state = "Established"))
          \/ p.key = Noise!K1(Full(x, y)) /\ (y < responder.e \/ (y = responder.e /\ "responder" \in fetched))
    BY <2>1, <1>7 DEF PacketRight
  <2>3. y # responder.e
    BY <2>2, <1>1, <1>4
  <2> QED
    BY <2>2, <2>3, <1>1, KeysDiffer, FullInjective
<1>9. noise_keys' = [noise_keys EXCEPT !["responder"] = new]
  BY <1>2
<1> HIDE DEF new, ck
<1>8. UNCHANGED <<initiator, packets, fetched>> /\ responder.e \in Nat /\ responder'.e \in Nat
  BY <1>1, <1>3 DEF Noise!BuildResponderMessage
<1> QED
  BY <1>3, <1>4, <1>5, <1>6, <1>7, <1>8, <1>9, <1>1, ResponderMoves

LEMMA SecondProcessed ==
  ASSUME NoiseInv, NEW m \in noise_network, Noise!ProcessResponderMessage(m)
  PROVE  NoiseInv'
<1> DEFINE ck == Full(initiator.e, m.e)
           new == [send |-> Noise!K1(ck), recv |-> Noise!K2(ck), nonce |-> 0]
<1>1. /\ InitiatorRight(initiator) /\ initiator.state = "InitiatorSent"
      /\ initiator.ck = Greeted(initiator.e) /\ initiator.e \in 1 .. MaxAttempts /\ initiator.e \in Nat
  BY NoiseParts DEF Noise!ProcessResponderMessage, InitiatorRight
<1>2. m.e \in Nat
  BY NoiseParts, NoiseConstants DEF MessageRight
<1>3. /\ initiator' = [initiator EXCEPT !.state = "Established", !.ck = ck, !.reply = m.e]
      /\ noise_keys' = [noise_keys EXCEPT !["initiator"] = new]
  BY <1>1 DEF Noise!ProcessResponderMessage, Full
<1>4. /\ InitiatorRight(initiator') /\ initiator'.e = initiator.e
      /\ initiator'.state = "Established" /\ initiator'.ck = ck
  <2>1. /\ initiator'.state = "Established" /\ initiator'.ck = ck /\ initiator'.e = initiator.e
        /\ initiator'.reply = m.e
        /\ initiator' = [state |-> "Established", e |-> initiator.e, ck |-> ck, reply |-> m.e]
    BY <1>1, <1>3 DEF InitiatorRight
  <2> QED
    BY <2>1, <1>1, <1>2 DEF InitiatorRight
<1>5. new.nonce = 0 /\ new.send = Noise!K1(ck) /\ new = InitiatorKeys(initiator', 0)
  BY <1>4 DEF InitiatorKeys
<1>6. ASSUME NEW p \in packets, p.side = "initiator" PROVE p.key # Noise!K1(ck)
  <2>1. PacketRight(p, initiator, responder, fetched)
    BY NoiseParts
  <2>2. PICK x, y \in Nat : /\ p.key = Noise!K1(Full(x, y))
                            /\ x < initiator.e \/ (x = initiator.e /\ initiator.state = "Established")
    BY <2>1, <1>6 DEF PacketRight
  <2>3. x # initiator.e
    BY <2>2, <1>1
  <2> QED
    BY <2>2, <2>3, <1>1, <1>2, KeysDiffer, FullInjective
<1> HIDE DEF new, ck
<1>7. UNCHANGED <<responder, noise_network, packets, fetched>> /\ fetched \subseteq Noise!Sides
  BY NoiseParts DEF Noise!ProcessResponderMessage, KeysRight
<1> QED
  BY <1>1, <1>3, <1>4, <1>5, <1>6, <1>7, InitiatorMoves

\* A side starts again: its next ephemeral key is one no packet's handshake had.
LEMMA InitiatorAgain == NoiseInv /\ Noise!InitiatorRetries => NoiseInv'
<1> SUFFICES ASSUME NoiseInv, Noise!InitiatorRetries PROVE NoiseInv'
  OBVIOUS
<1>1. initiator.e \in 1 .. MaxAttempts /\ responder.e \in 1 .. MaxAttempts /\ initiator.e + responder.e < MaxAttempts
  BY NoiseParts DEF Noise!InitiatorRetries, InitiatorRight, ResponderRight
<1>2. initiator.e + 1 \in 1 .. MaxAttempts /\ initiator.e + 1 \in Nat /\ initiator.e < initiator.e + 1
  BY <1>1, NoiseConstants
<1>3. initiator' = [state |-> "Init", e |-> initiator.e + 1, ck |-> <<>>, reply |-> 0]
  BY DEF Noise!InitiatorRetries, Noise!Fresh, Noise!Garbled
<1>4. InitiatorRight(initiator') /\ initiator'.e = initiator.e + 1 /\ initiator'.state = "Init"
  <2> DEFINE e == initiator.e + 1
  <2>1. initiator' = [state |-> "Init", e |-> e, ck |-> <<>>, reply |-> 0] /\ e \in 1 .. MaxAttempts
    BY <1>2, <1>3
  <2> HIDE DEF e
  <2>2. InitiatorRight(initiator') /\ initiator'.e = e /\ initiator'.state = "Init"
    BY <2>1 DEF InitiatorRight
  <2> QED
    BY <2>2 DEF e
<1>5. /\ Noise!NoKeys.nonce = 0 /\ Noise!NoKeys.send = <<>>
      /\ noise_keys' = [noise_keys EXCEPT !["initiator"] = Noise!NoKeys]
      /\ Noise!NoKeys = InitiatorKeys(initiator', 0)
  BY <1>4 DEF Noise!InitiatorRetries, Noise!NoKeys, InitiatorKeys
<1>6. /\ UNCHANGED <<responder, noise_network, packets>>
      /\ fetched' = fetched \ {"initiator"} /\ fetched \subseteq Noise!Sides
  BY NoiseParts DEF Noise!InitiatorRetries, KeysRight
<1> QED
  BY <1>2, <1>4, <1>5, <1>6, NoKeysSend, InitiatorMoves

LEMMA ResponderAgain == NoiseInv /\ Noise!ResponderRestarts => NoiseInv'
<1> SUFFICES ASSUME NoiseInv, Noise!ResponderRestarts PROVE NoiseInv'
  OBVIOUS
<1>1. initiator.e \in 1 .. MaxAttempts /\ responder.e \in 1 .. MaxAttempts /\ initiator.e + responder.e < MaxAttempts
  BY NoiseParts DEF Noise!ResponderRestarts, InitiatorRight, ResponderRight
<1>2. responder.e + 1 \in 1 .. MaxAttempts /\ responder.e + 1 \in Nat /\ responder.e < responder.e + 1
  BY <1>1, NoiseConstants
<1>3. responder' = [state |-> "Init", e |-> responder.e + 1, ck |-> <<>>, peer |-> 0, spoiled |-> FALSE]
  BY DEF Noise!ResponderRestarts, Noise!FreshResponder, Noise!Garbled
<1>4. ResponderRight(responder') /\ responder'.e = responder.e + 1 /\ responder'.state = "Init"
  <2> DEFINE e == responder.e + 1
  <2>1. /\ responder' = [state |-> "Init", e |-> e, ck |-> <<>>, peer |-> 0, spoiled |-> FALSE]
        /\ e \in 1 .. MaxAttempts
    BY <1>2, <1>3
  <2> HIDE DEF e
  <2>2. ResponderRight(responder') /\ responder'.e = e /\ responder'.state = "Init"
    BY <2>1 DEF ResponderRight
  <2> QED
    BY <2>2 DEF e
<1>5. /\ Noise!NoKeys.nonce = 0 /\ Noise!NoKeys.send = <<>>
      /\ noise_keys' = [noise_keys EXCEPT !["responder"] = Noise!NoKeys]
      /\ Noise!NoKeys = ResponderKeys(responder', fetched', 0)
  BY <1>4 DEF Noise!ResponderRestarts, Noise!NoKeys, ResponderKeys
<1>6. /\ UNCHANGED <<initiator, noise_network, packets>>
      /\ fetched' = fetched \ {"responder"} /\ fetched \subseteq Noise!Sides
  BY NoiseParts DEF Noise!ResponderRestarts, KeysRight
<1> QED
  BY <1>2, <1>4, <1>5, <1>6, NoiseParts, NoKeysSend, ResponderMoves

LEMMA KeysFetched == ASSUME NoiseInv, NEW side \in Noise!Sides, Noise!TransportKeys(side) PROVE NoiseInv'
<1>k. /\ UNCHANGED <<initiator, responder, noise_network, packets>>
      /\ fetched' = fetched \cup {side} /\ fetched \subseteq Noise!Sides
  BY NoiseParts DEF Noise!TransportKeys, KeysRight
<1>1. CASE side = "initiator"
  <2> DEFINE new == [send |-> Noise!K1(initiator.ck), recv |-> Noise!K2(initiator.ck), nonce |-> 0]
  <2>1. initiator.state = "Established" /\ noise_keys' = [noise_keys EXCEPT !["initiator"] = new]
    BY <1>1 DEF Noise!TransportKeys
  <2>2. new.nonce = 0 /\ new = InitiatorKeys(initiator', 0)
    BY <2>1, <1>k DEF InitiatorKeys
  <2> HIDE DEF new
  <2> QED
    BY <1>1, <1>k, <2>1, <2>2, NoiseParts, InitiatorMoves
<1>2. CASE side = "responder"
  <2> DEFINE new == [send |-> Noise!K1(responder.ck), recv |-> Noise!K2(responder.ck), nonce |-> 0]
  <2>1. responder.state = "Established" /\ noise_keys' = [noise_keys EXCEPT !["responder"] = new]
    BY <1>2 DEF Noise!TransportKeys
  <2>2. new.nonce = 0 /\ new = ResponderKeys(responder', fetched', 0)
    BY <2>1, <1>k, <1>2 DEF ResponderKeys
  <2> HIDE DEF new
  <2> QED
    BY <1>2, <1>k, <2>1, <2>2, NoiseParts, ResponderMoves
<1> QED
  BY <1>1, <1>2 DEF Noise!Sides

\* One more packet of a side.
LEMMA PacketCounted ==
  ASSUME NEW k, NEW P, CountsRight(k, P), Cardinality(P) < MaxPackets, NEW side \in Noise!Sides,
         NEW p, p.side = side, p.number = Cardinality(By(P, side)),
         NEW k2, \A s \in Noise!Sides : k2[s].nonce = IF s = side THEN k[s].nonce + 1 ELSE k[s].nonce
  PROVE  CountsRight(k2, P \cup {p})
<1> DEFINE P2 == P \cup {p}
<1>1. /\ IsFiniteSet(P) /\ Cardinality(P) \in Nat /\ MaxPackets \in Nat
      /\ \A s : IsFiniteSet(By(P, s)) /\ Cardinality(By(P, s)) \in Nat
  <2>1. IsFiniteSet(P) /\ \A s : By(P, s) \subseteq P
    BY DEF CountsRight, By
  <2> QED
    BY <2>1, FS_Subset, FS_CardinalityType, NoiseConstants
<1>2. p \notin P
  BY <1>1 DEF CountsRight
<1>3. IsFiniteSet(P2) /\ Cardinality(P2) = Cardinality(P) + 1
  BY <1>1, <1>2, FS_AddElement
<1>4. By(P2, side) = By(P, side) \cup {p} /\ p \notin By(P, side) /\ \A s : s # side => By(P2, s) = By(P, s)
  BY <1>2 DEF By
<1>5. Cardinality(By(P2, side)) = Cardinality(By(P, side)) + 1
  <2>1. IsFiniteSet(By(P, side))
    BY <1>1
  <2> HIDE DEF P2
  <2> QED
    BY <2>1, <1>4, FS_AddElement
<1>6. ASSUME NEW q \in P2 PROVE q.number \in Nat /\ q.number < Cardinality(By(P2, q.side))
  <2>1. CASE q = p
    BY <2>1, <1>1, <1>5
  <2>2. CASE q \in P
    <3>1. q.number \in Nat /\ q.number < Cardinality(By(P, q.side)) /\ Cardinality(By(P, q.side)) \in Nat
      BY <2>2, <1>1 DEF CountsRight
    <3>2. Cardinality(By(P2, q.side)) = Cardinality(By(P, q.side))
          \/ Cardinality(By(P2, q.side)) = Cardinality(By(P, q.side)) + 1
      BY <1>4, <1>5
    <3> QED
      BY <3>1, <3>2
  <2> QED
    BY <2>1, <2>2
<1>7. \A s \in Noise!Sides : k2[s].nonce \in Nat /\ k2[s].nonce <= Cardinality(P2)
  BY <1>1, <1>3 DEF CountsRight
<1>8. Cardinality(P2) <= MaxPackets
  BY <1>1, <1>3
<1> HIDE DEF P2
<1>9. CountsRight(k2, P2)
  BY <1>3, <1>6, <1>7, <1>8 DEF CountsRight
<1> QED
  BY <1>9 DEF P2

LEMMA NonceUsed ==
  ASSUME NEW k, NEW P, NEW F, NoncesRight(k, P, F), NEW side \in Noise!Sides,
         \A s \in Noise!Sides : k[s].nonce \in Nat,
         NEW p, p.side = side, p.key = k[side].send, p.nonce = k[side].nonce,
         NEW k2, \A s \in Noise!Sides : /\ k2[s].send = k[s].send
                                        /\ k2[s].nonce = IF s = side THEN k[s].nonce + 1 ELSE k[s].nonce
  PROVE  NoncesRight(k2, P \cup {p}, F)
<1> SUFFICES ASSUME NEW s \in Noise!Sides \ F, NEW q \in P \cup {p}, NEW u \in P \cup {p},
                    q.side = s, q.key = k2[s].send, u.side = s, u.key = k2[s].send
             PROVE  q.nonce \in Nat /\ q.nonce < k2[s].nonce /\ (q.nonce = u.nonce => q = u)
  BY DEF NoncesRight
<1>1. k2[s].send = k[s].send /\ k[s].nonce \in Nat /\ k2[s].nonce \in Nat /\ k[s].nonce <= k2[s].nonce
  OBVIOUS
<1>2. ASSUME NEW x \in P \cup {p}, x.side = s, x.key = k2[s].send
      PROVE  /\ x.nonce \in Nat /\ x.nonce < k2[s].nonce
             /\ x # p => x \in P /\ x.nonce < k[s].nonce
  <2>1. CASE x = p
    BY <2>1, <1>1, <1>2
  <2>2. CASE x # p
    <3>1. x \in P /\ x.nonce \in Nat /\ x.nonce < k[s].nonce
      BY <2>2, <1>1, <1>2 DEF NoncesRight
    <3> QED
      BY <3>1, <1>1
  <2> QED
    BY <2>1, <2>2
<1>3. q.nonce \in Nat /\ q.nonce < k2[s].nonce /\ u.nonce \in Nat
  BY <1>2
<1>4. ASSUME q.nonce = u.nonce PROVE q = u
  <2>1. CASE q = p \/ u = p
    BY <2>1, <1>1, <1>2, <1>4
  <2>2. CASE q # p /\ u # p
    BY <2>2, <1>1, <1>2, <1>4 DEF NoncesRight
  <2> QED
    BY <2>1, <2>2
<1> QED
  BY <1>3, <1>4

LEMMA Encrypted == ASSUME NoiseInv, NEW side \in Noise!Sides, Noise!Encrypt(side) PROVE NoiseInv'
<1> DEFINE k == noise_keys
           n == k[side].nonce
           new == [k[side] EXCEPT !.nonce = n + 1]
           p == [side |-> side, key |-> k[side].send, nonce |-> n, number |-> Cardinality(By(packets, side))]
<1>s. Noise!Sides = {"initiator", "responder"}
  BY DEF Noise!Sides
<1>k. KeysRight(k, initiator, responder, fetched) /\ CountsRight(k, packets)
  BY NoiseParts
<1>1. /\ packets' = packets \cup {p} /\ Cardinality(packets) < MaxPackets /\ k[side] # Noise!NoKeys
      /\ UNCHANGED <<initiator, responder, noise_network, fetched>>
      /\ noise_keys' = [k EXCEPT ![side] = new]
  BY NoiseSize DEF Noise!Encrypt, Noise!Of, By, Noise!NextNonce
<1>2. \A s \in Noise!Sides : k[s].nonce \in Nat
  BY <1>k DEF CountsRight
<1>3. ASSUME side = "initiator"
      PROVE  /\ initiator.state = "Established" /\ initiator.ck = Full(initiator.e, initiator.reply)
             /\ initiator.e \in Nat /\ initiator.reply \in Nat
             /\ k[side] = [send |-> Noise!K1(initiator.ck), recv |-> Noise!K2(initiator.ck), nonce |-> n]
  <2>1. initiator.state = "Established"
    BY <1>3, <1>1, <1>k DEF KeysRight, InitiatorKeys
  <2> QED
    BY <1>3, <2>1, <1>k, NoiseParts DEF KeysRight, InitiatorKeys, InitiatorRight
<1>4. ASSUME side = "responder"
      PROVE  /\ responder.state = "Established" /\ responder.ck = Full(responder.peer, responder.e)
             /\ responder.e \in Nat /\ responder.peer \in Nat
             /\ k[side] = ResponderKeys(responder, fetched, n)
             /\ k[side].send = IF "responder" \in fetched THEN Noise!K1(responder.ck) ELSE Noise!K2(responder.ck)
  <2>1. responder.state = "Established"
    BY <1>4, <1>1, <1>k DEF KeysRight, ResponderKeys
  <2>2. k[side] = ResponderKeys(responder, fetched, n)
    BY <1>4, <1>k DEF KeysRight
  <2>3. k[side].send = IF "responder" \in fetched THEN Noise!K1(responder.ck) ELSE Noise!K2(responder.ck)
    BY <2>1, <2>2 DEF ResponderKeys
  <2>4. ResponderRight(responder) /\ responder.e \in Nat
    BY NoiseParts
  <2> QED
    BY <2>1, <2>2, <2>3, <2>4 DEF ResponderRight
<1>5. PacketRight(p, initiator, responder, fetched)
  <2>1. p.side = side /\ p.key = k[side].send
    OBVIOUS
  <2> HIDE DEF p
  <2>2. CASE side = "initiator"
    <3>1. p.key = Noise!K1(Full(initiator.e, initiator.reply))
      BY <2>1, <2>2, <1>3
    <3> QED
      BY <3>1, <2>1, <2>2, <1>3 DEF PacketRight
  <2>3. CASE side = "responder"
    <3>1. p.key = IF "responder" \in fetched THEN Noise!K1(Full(responder.peer, responder.e))
                  ELSE Noise!K2(Full(responder.peer, responder.e))
      BY <2>1, <2>3, <1>4
    <3> QED
      BY <3>1, <2>1, <2>3, <1>4 DEF PacketRight
  <2> QED
    BY <2>2, <2>3, <1>s
<1>6. new = [send |-> k[side].send, recv |-> k[side].recv, nonce |-> n + 1]
  <2>1. k[side] = [send |-> k[side].send, recv |-> k[side].recv, nonce |-> n]
    <3>1. CASE side = "initiator"
      BY <3>1, <1>3
    <3>2. CASE side = "responder"
      BY <3>2, <1>4 DEF ResponderKeys
    <3> QED
      BY <3>1, <3>2, <1>s
  <2> QED
    BY <2>1
<1>7. /\ noise_keys' = [s \in Noise!Sides |-> noise_keys'[s]] /\ noise_keys'[side] = new
      /\ \A s \in Noise!Sides : s # side => noise_keys'[s] = k[s]
      /\ \A s \in Noise!Sides : /\ noise_keys'[s].send = k[s].send
                                /\ noise_keys'[s].nonce = IF s = side THEN k[s].nonce + 1 ELSE k[s].nonce
  <2>1. k = [s \in Noise!Sides |-> k[s]]
    BY <1>k DEF KeysRight
  <2>2. new.send = k[side].send /\ new.nonce = n + 1
    BY <1>6
  <2> HIDE DEF new
  <2>3. /\ noise_keys' = [s \in Noise!Sides |-> noise_keys'[s]] /\ noise_keys'[side] = new
        /\ \A s \in Noise!Sides : s # side => noise_keys'[s] = k[s]
    BY <1>1, <2>1
  <2> QED
    BY <2>2, <2>3
<1>8. p.side = side /\ p.key = k[side].send /\ p.nonce = k[side].nonce /\ p.number = Cardinality(By(packets, side))
  OBVIOUS
<1>9. CountsRight(noise_keys', packets')
  <2> HIDE DEF p, new
  <2> QED
    BY <1>1, <1>k, <1>7, <1>8, PacketCounted
<1>10. NoncesRight(noise_keys', packets', fetched)
  <2> HIDE DEF p, new
  <2> QED
    BY <1>1, <1>2, <1>7, <1>8, NoiseParts, NonceUsed
<1>11. KeysRight(noise_keys', initiator, responder, fetched)
  <2>1. CASE side = "initiator"
    <3>1. new = InitiatorKeys(initiator, new.nonce)
      BY <2>1, <1>3, <1>6 DEF InitiatorKeys
    <3> HIDE DEF new
    <3> QED
      BY <3>1, <2>1, <1>7, <1>k, <1>s DEF KeysRight
  <2>2. CASE side = "responder"
    <3>1. new = ResponderKeys(responder, fetched, new.nonce)
      BY <2>2, <1>4, <1>6 DEF ResponderKeys
    <3> HIDE DEF new
    <3> QED
      BY <3>1, <2>2, <1>7, <1>k, <1>s DEF KeysRight
  <2> QED
    BY <2>1, <2>2, <1>s
<1>12. \A q \in packets' : PacketRight(q, initiator, responder, fetched)
  <2> HIDE DEF p, new
  <2> QED
    BY <1>1, <1>5, NoiseParts
<1> QED
  BY <1>1, <1>9, <1>10, <1>11, <1>12, NoiseParts DEF NoiseInv

LEMMA NoiseNext == NoiseInv /\ [Noise!Next]_noise_vars => NoiseInv'
<1> SUFFICES ASSUME NoiseInv, [Noise!Next]_noise_vars PROVE NoiseInv'
  OBVIOUS
<1>1. CASE UNCHANGED noise_vars
  BY <1>1, NoiseParts DEF noise_vars, NoiseInv
<1> QED
  BY <1>1, FirstBuilt, FirstProcessed, SecondBuilt, SecondProcessed, Spoiled, InitiatorAgain, ResponderAgain,
     KeysFetched, Encrypted DEF Noise!Next

LEMMA NoiseRight ==
  NoiseInv => Noise!TypeOK /\ Noise!KeysAgree /\ Noise!NoEcho /\ Noise!NoncesOnce /\ Noise!SpoiledForEver
<1> SUFFICES ASSUME NoiseInv
             PROVE  Noise!TypeOK /\ Noise!KeysAgree /\ Noise!NoEcho /\ Noise!NoncesOnce /\ Noise!SpoiledForEver
  OBVIOUS
<1>k. KeysRight(noise_keys, initiator, responder, fetched)
  BY NoiseParts
<1>s. Noise!Sides = {"initiator", "responder"}
  BY DEF Noise!Sides
<1>1. Noise!TypeOK
  <2>1. initiator.state \in Noise!HandshakeState /\ responder.state \in Noise!HandshakeState
    BY NoiseParts DEF InitiatorRight, ResponderRight, Noise!HandshakeState
  <2>2. \A m \in noise_network : m.type \in {"first", "second"} /\ m.e \in 0 .. MaxAttempts
    BY NoiseParts DEF MessageRight
  <2>3. \A s \in Noise!Sides : noise_keys[s].nonce \in 0 .. MaxPackets
    <3>1. Cardinality(packets) \in Nat /\ Cardinality(packets) <= MaxPackets /\ MaxPackets \in Nat
      BY NoiseParts, FS_CardinalityType, NoiseConstants DEF CountsRight
    <3> QED
      BY <3>1, NoiseParts DEF CountsRight
  <2> QED
    BY <2>1, <2>2, <2>3, <1>k, NoiseConstants DEF Noise!TypeOK, KeysRight
<1>2. Noise!KeysAgree
  <2> SUFFICES ASSUME Noise!Completed, fetched = {}
               PROVE  /\ noise_keys["initiator"].send = noise_keys["responder"].recv
                      /\ noise_keys["initiator"].recv = noise_keys["responder"].send
    BY DEF Noise!KeysAgree
  <2>1. initiator.ck = responder.ck
    BY NoiseParts DEF Noise!Completed, InitiatorRight, ResponderRight
  <2> QED
    BY <2>1, <1>k DEF KeysRight, InitiatorKeys, ResponderKeys, Noise!Completed
<1>3. Noise!NoEcho
  <2> SUFFICES ASSUME "responder" \notin fetched, NEW s \in Noise!Sides, NEW p \in packets,
                      p.key = noise_keys[s].recv, p.side = s
               PROVE  FALSE
    BY DEF Noise!NoEcho, Noise!Opens
  <2>p. PacketRight(p, initiator, responder, fetched)
    BY NoiseParts
  <2>1. CASE s = "initiator"
    <3>1. PICK x, y \in Nat : p.key = Noise!K1(Full(x, y))
      BY <2>1, <2>p DEF PacketRight
    <3>2. noise_keys["initiator"].recv = <<>> \/ noise_keys["initiator"].recv = Noise!K2(initiator.ck)
      BY <1>k DEF KeysRight, InitiatorKeys, Noise!NoKeys
    <3> QED
      BY <2>1, <3>1, <3>2, KeysDiffer
  <2>2. CASE s = "responder"
    <3>1. PICK x, y \in Nat : \/ p.key = Noise!K2(Full(x, y))
                              \/ p.key = Noise!K1(Full(x, y)) /\ y < responder.e
      BY <2>2, <2>p DEF PacketRight
    <3>2. CASE responder.state = "Established"
      <4>1. noise_keys["responder"].recv = Noise!K1(responder.ck)
        BY <1>k, <3>2 DEF KeysRight, ResponderKeys
      <4>2. responder.ck = Full(responder.peer, responder.e) /\ responder.peer \in Nat /\ responder.e \in Nat
        BY NoiseParts, <3>2 DEF ResponderRight
      <4>3. y # responder.e \/ p.key # Noise!K1(Full(x, y))
        BY <3>1, <4>2, KeysDiffer
      <4> QED
        BY <2>2, <3>1, <4>1, <4>2, <4>3, KeysDiffer, FullInjective
    <3>3. CASE responder.state # "Established"
      <4>1. noise_keys["responder"].recv = <<>>
        BY <1>k, <3>3 DEF KeysRight, ResponderKeys, Noise!NoKeys
      <4> QED
        BY <2>2, <3>1, <4>1, KeysDiffer
    <3> QED
      BY <3>2, <3>3
  <2> QED
    BY <2>1, <2>2, <1>s
<1>4. Noise!NoncesOnce
  BY NoiseParts DEF NoncesRight, Noise!NoncesOnce, Noise!Of
<1>5. Noise!SpoiledForEver
  BY NoiseParts DEF ResponderRight, Noise!SpoiledForEver
<1> QED
  BY <1>1, <1>2, <1>3, <1>4, <1>5

-----------------------------------------------------------------------------
\* What holds of all tables in every state, and after every step.
TablesInv == GraphInv /\ RouterInv /\ Rules!TypeOK /\ ControlInv
PathsInv  == TypeOK /\ AddInv /\ PathInv /\ CountsAgree /\ Selector!TypeOK /\ ChoiceInv /\ PunchInv
HandshakesInv == ChecksInv /\ AgentInv /\ NoiseInv /\ PqInv

LEMMA TablesInvariant == MCSpec => []TablesInv
<1>1. MCInit => TablesInv
  BY Begins, GraphInit, RouterInit, RulesInit, ControlInit DEF TablesInv
<1>2. TablesInv /\ [MCNext]_all_vars => TablesInv'
  BY Steps, GraphNext, RouterNext, RulesNext, ControlNext DEF TablesInv
<1> QED
  BY <1>1, <1>2, PTL DEF MCSpec

LEMMA PathsInvariant == MCSpec => []PathsInv
<1>1. MCInit => PathsInv
  BY Begins, InitType, InitAdd, InitPath, InitCount, SelectorInit, ChoiceInit, PunchInit DEF PathsInv
<1>2. PathsInv /\ [MCNext]_all_vars => PathsInv'
  BY Steps, NextType, NextAdd, NextPath, NextCount, SelectorNext, ChoiceNext, PunchNext DEF PathsInv
<1> QED
  BY <1>1, <1>2, PTL DEF MCSpec

LEMMA HandshakesInvariant == MCSpec => []HandshakesInv
<1>1. MCInit => HandshakesInv
  BY Begins, ChecksInit, AgentInit, NoiseInit, PqInit DEF HandshakesInv
<1>2. HandshakesInv /\ [MCNext]_all_vars => HandshakesInv'
  BY Steps, ChecksNext, AgentNext, NoiseNext, PqNext DEF HandshakesInv
<1> QED
  BY <1>1, <1>2, PTL DEF MCSpec

LEMMA RequestsInit == MCInit => RequestsInv
<1> SUFFICES ASSUME MCInit PROVE RequestsInv
  OBVIOUS
<1>1. NetInv /\ NamesInv /\ HttpInv /\ IpInv
  BY Begins, NetInit, NamesInit, HttpInit, IpInit
<1>2. RingInv /\ NicsInv /\ RelayInv /\ RelaysInv
  BY Begins, RingInit, NicsInit, RelayInit, RelaysInit
<1> QED
  BY <1>1, <1>2 DEF RequestsInv

LEMMA RequestsNext == RequestsInv /\ [MCNext]_all_vars => RequestsInv'
<1> SUFFICES ASSUME RequestsInv, [MCNext]_all_vars PROVE RequestsInv'
  OBVIOUS
<1>1. /\ [Net!Next]_overlay_vars /\ [Names!Next]_dns_vars /\ [Http!Next]_http_vars /\ [IpService!Next]_ip_vars
      /\ [Ring!Next]_ring_vars /\ [Nics!Next]_port_vars /\ [Relay!Next]_node_vars /\ [Relays!Next]_relay_vars
  BY Steps
<1>2. NetInv /\ NamesInv /\ HttpInv /\ IpInv /\ RingInv /\ NicsInv /\ RelayInv /\ RelaysInv
  BY DEF RequestsInv
<1>3. NetInv' /\ NamesInv' /\ HttpInv' /\ IpInv'
  BY <1>1, <1>2, NetNext, NamesNext, HttpNext, IpNext
<1>4. RingInv' /\ NicsInv' /\ RelayInv' /\ RelaysInv'
  BY <1>1, <1>2, RingNext, NicsNext, RelayNext, RelaysNext
<1> QED
  BY <1>3, <1>4 DEF RequestsInv

LEMMA RequestsInvariant == MCSpec => []RequestsInv
  BY RequestsInit, RequestsNext, PTL DEF MCSpec

(* What the components hold, in every state that lost, late, repeated and    *)
(* failed calls lead to: a path has its windows and one of its states, a     *)
(* ring no more entries than it was made with, a pool only its own buffers,  *)
(* a table of routes no empty entry, a queue of the lock of the tunnels one  *)
(* place for each task, a history of loads no more than max_history.         *)
THEOREM DataPlaneTyped == MCSpec => []DataPlaneTypes
<1>1. PathsInv => TypeOK /\ Selector!TypeOK /\ Choice!TypeOK /\ Punch!TypeOK
  BY PunchRight DEF PathsInv, ChoiceInv
<1>2. HandshakesInv => Checks!TypeOK /\ Agent!TypeOK /\ Noise!TypeOK /\ Pq!TypeOK
  BY ChecksRight, AgentRight, NoiseRight, PqRight DEF HandshakesInv
<1>3. TablesInv => Graph!TypeOK /\ Router!TypeOK /\ Rules!TypeOK /\ Control!TypeOK
  BY RouterRight, ControlRight DEF TablesInv, GraphInv
<1>4. PathsInv /\ HandshakesInv /\ TablesInv /\ RequestsInv => DataPlaneTypes
  BY <1>1, <1>2, <1>3, RequestsInvRight DEF DataPlaneTypes
<1> QED
  BY <1>4, PathsInvariant, HandshakesInvariant, TablesInvariant, RequestsInvariant, PTL

(* What is asked for is answered once, whatever is lost, late or repeated    *)
(* and whoever comes between: a report counts as recorded only when one was, *)
(* no byte is reported twice, no two devices get one address unless a        *)
(* failure says so, no cached name is older than its record, a datagram that *)
(* is received was sent by a peer with the same key, the relay forwards      *)
(* within its limits and only to the destination, a relay that is there is   *)
(* found in both indices and one that is gone in none, every entry of a ring *)
(* and every buffer of a pool is in one place, and the packets of a flow     *)
(* come back on one queue.                                                   *)
THEOREM RequestsRight == MCSpec => []RequestsSafe
<1>1. RequestsInv => RequestsSafe
  BY RequestsInvRight
<1> QED
  BY <1>1, RequestsInvariant, PTL

(* What is read from a table is what it was made of, whatever the nodes, the *)
(* rules, the peers and the numbers: links and shortest paths of the         *)
(* topology, the cheapest routes of a prefix and their group, no flow to a   *)
(* device that is cut off, the log of a leader, the buckets of peers.        *)
THEOREM TablesAnswerRight == MCSpec => []TablesSafe
<1>1. TablesInv => TablesSafe
  BY SearchRight, RouterRight, RulesIsolate, ControlRight DEF TablesInv, TablesSafe, GraphInv
<1> QED
  BY <1>1, TablesInvariant, PTL

(* Two ends that shake hands agree on what they should and on nothing else,  *)
(* whatever is lost, late, repeated or spoiled: a peer is failed exactly when *)
(* its checks failed often enough, and a check that ends ends with its own    *)
(* answer; no agent starts its checks, and two that resolved their roles      *)
(* differ in them unless they drew the same number; two sides of a Noise      *)
(* handshake have the same keys crossed, no key and nonce is used twice, no   *)
(* side opens its own packets; two engines work with what both support.       *)
THEOREM EndsAgree == MCSpec => []HandshakesSafe
<1>1. HandshakesInv => HandshakesSafe
  BY ChecksRight, AgentRight, NoiseRight, PqRight DEF HandshakesInv, HandshakesSafe
<1> QED
  BY <1>1, HandshakesInvariant, PTL

(* The tables of paths keep what their callers rely on: packets are counted  *)
(* once, flags and states agree, a window keeps its least size, no path      *)
(* replaces another, the best path comes first, the relay is used only when  *)
(* it is there, punching keeps its budget and reaches no one but the peer.   *)
THEOREM PathTablesKept == MCSpec => []PathsSafe
<1>1. PathsInv => PathsSafe
  BY SelectorOrder, ChoiceRight, PunchRight DEF PathsInv, PathsSafe, AddInv, PathInv
<1> QED
  BY <1>1, PathsInvariant, PTL

(* The limit of add_path, in the composition that the run checks.            *)
THEOREM OvershootInDataPlane == MCSpec => []Overshoot
<1>1. PathsInv => Overshoot
  BY DEF PathsInv, AddInv
<1> QED
  BY <1>1, PathsInvariant, PTL

(* No step of any of the components does what it may never do: enlarge a     *)
(* window, bring a path back, keep a failure counted after a success, let a  *)
(* rule act against its direction, take a term or a log entry back, leave    *)
(* out a nearer peer.                                                        *)
THEOREM StepsAllowed == MCSpec => StepsSafe
<1>1. PathsInv /\ [MCNext]_all_vars => [\A p \in DOMAIN paths : paths'[p].cwnd <= paths[p].cwnd]_vars
  BY Steps, WindowStep DEF PathsInv
<1>2. PathsInv /\ [MCNext]_all_vars =>
        [(\A i \in DOMAIN selector_paths : selector_paths[i].state # "Active")
             /\ Len(selector_paths') <= Len(selector_paths)
           => \A i \in DOMAIN selector_paths' : selector_paths'[i].state # "Active"]_selector_vars
  BY Steps, SelectorNext DEF PathsInv
<1>3. RequestsInv /\ [MCNext]_all_vars =>
        [\A c \in Reporters : http_calls[c].pc = "succeeded" /\ http_calls'[c].pc = "idle"
                                => consecutive_failures' = 0]_http_vars
  <2> SUFFICES ASSUME RequestsInv, [MCNext]_all_vars
               PROVE  \A c \in Reporters : http_calls[c].pc = "succeeded" /\ http_calls'[c].pc = "idle"
                                              => consecutive_failures' = 0
    OBVIOUS
  <2>1. HttpInv /\ [Http!Next]_http_vars
    BY Steps DEF RequestsInv
  <2> QED
    BY <2>1, HttpNext
<1>4. TablesInv /\ [MCNext]_all_vars =>
        [LET new == policy'.rules[Len(policy'.rules)] IN
         Len(policy'.rules) > Len(policy.rules) =>
           \A a, b \in Devices, s \in Services :
              LET was == Rules!Check(policy, a, b, s)
                  is  == Rules!Check(policy', a, b, s) IN
              /\ new.action = "allow" /\ was => is
              /\ new.action = "deny" /\ is => was
              /\ was # is => \A i \in Rules!First(policy, a, b, s) :
                                policy.rules[i].priority < new.priority]_policy
  <2> SUFFICES ASSUME TablesInv, [MCNext]_all_vars, Len(policy'.rules) > Len(policy.rules),
                      NEW a \in Devices, NEW b \in Devices, NEW s \in Services
               PROVE  LET new == policy'.rules[Len(policy'.rules)]
                          was == Rules!Check(policy, a, b, s)
                          is  == Rules!Check(policy', a, b, s) IN
                      /\ new.action = "allow" /\ was => is
                      /\ new.action = "deny" /\ is => was
                      /\ was # is => \A i \in Rules!First(policy, a, b, s) :
                                        policy.rules[i].priority < new.priority
    OBVIOUS
  <2>1. Rules!TypeOK /\ Rules!TypeOK' /\ [Rules!Next]_policy
    BY Steps, RulesNext DEF TablesInv
  <2>2. PICK rule \in LoadedRules : /\ policy' = [policy EXCEPT !.rules = Append(policy.rules, rule)]
                                    /\ policy'.rules[Len(policy'.rules)] = rule
    BY <2>1, RulesStep
  <2>3. policy \in Rules!Policy /\ policy' \in Rules!Policy
    BY <2>1 DEF Rules!TypeOK
  <2> QED
    BY <2>2, <2>3, RuleAdded
<1>5. TablesInv /\ [MCNext]_all_vars =>
        [\A n \in Nodes : /\ node'[n].term >= node[n].term
                          /\ \A i \in DOMAIN node[n].log : i \in DOMAIN node'[n].log
                                                           /\ node'[n].log[i] = node[n].log[i]]_control_vars
  BY Steps, ControlNext DEF TablesInv
<1>6. TablesInv /\ [MCNext]_all_vars =>
        [found' # found => \A p \in Control!Stored, i \in DOMAIN found'[3] :
              Control!InSeq(p, found'[3]) \/ ~Control!Nearer(p, found'[3][i], found'[1], Prefix)]_control_vars
  BY Steps, ClosestStep DEF TablesInv
<1>7. MCSpec => NeverGrows
  BY <1>1, PathsInvariant, PTL DEF MCSpec, NeverGrows
<1>8. MCSpec => Selector!NoRecovery
  BY <1>2, PathsInvariant, PTL DEF MCSpec, Selector!NoRecovery, Selector!vars, selector_vars
<1>9. MCSpec => Http!SuccessClears
  BY <1>3, RequestsInvariant, PTL DEF MCSpec, Http!SuccessClears, Http!vars, http_vars
<1>10. MCSpec => Rules!RulesMonotone
  BY <1>4, TablesInvariant, PTL DEF MCSpec, Rules!RulesMonotone
<1>11. MCSpec => Control!TermsGrow
  BY <1>5, TablesInvariant, PTL DEF MCSpec, Control!TermsGrow, Control!vars, control_vars
<1>12. MCSpec => Control!ClosestFound
  BY <1>6, TablesInvariant, PTL DEF MCSpec, Control!ClosestFound, Control!vars, control_vars
<1> QED
  BY <1>7, <1>8, <1>9, <1>10, <1>11, <1>12 DEF StepsSafe
================================================================================
