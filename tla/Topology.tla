-------------------------------- MODULE Topology --------------------------------
(* The topology manager (data-plane/src/mesh_routing/topology.rs): nodes,      *)
(* links, the adjacency lists derived from them, and relay elections.  Every   *)
(* update takes its locks in one order and holds them to its end.  The search  *)
(* for a shortest path holds the adjacency lists: its loop is modelled turn by *)
(* turn, and no update of the lists runs meanwhile.                            *)
EXTENDS Naturals, FiniteSets

CONSTANTS
    Nodes, Regions,
    Bandwidths,   \* max_bandwidth_bps of a node
    MaxRelays,    \* relays elected for a region, 3
    MaxVersion    \* bound: updates that count

\* What the constants stand for.
Constants == IsFiniteSet(Nodes) /\ Bandwidths \subseteq Nat /\ MaxRelays \in Nat /\ MaxVersion \in Nat

VARIABLES
    nodes,            \* id -> [relay, bandwidth]; nodes are online as long as they are known
    links,            \* pairs <<source, target>>
    adjacency,        \* id -> its neighbours
    relay_elections,  \* region -> ids
    version,
    search            \* the shortest_path call under way: at most one record

vars == <<nodes, links, adjacency, relay_elections, version, search>>

Node == [relay : BOOLEAN, bandwidth : Bandwidths]
Put(f, k, v) == [x \in DOMAIN f \cup {k} |-> IF x = k THEN v ELSE f[x]]
Drop(f, k)   == [x \in DOMAIN f \ {k} |-> f[x]]
Neighbours(f, n) == IF n \in DOMAIN f THEN f[n] ELSE {}

Init ==
    /\ nodes = [n \in {} |-> 0] /\ links = {} /\ adjacency = [n \in {} |-> {}]
    /\ relay_elections = [g \in {} |-> {}] /\ version = 0 /\ search = {}

\* The adjacency lists are not locked by a search.
AdjacencyFree == search = {}

-----------------------------------------------------------------------------
UpsertNode(n, node) ==
    /\ AdjacencyFree /\ version < MaxVersion
    /\ nodes' = Put(nodes, n, node)
    /\ adjacency' = Put(adjacency, n, Neighbours(adjacency, n))
    /\ version' = version + 1
    /\ UNCHANGED <<links, relay_elections, search>>

(* remove_node leaves the links, and the node in its neighbours' lists.    *)
RemoveNode(n) ==
    /\ AdjacencyFree /\ version < MaxVersion
    /\ nodes' = Drop(nodes, n) /\ adjacency' = Drop(adjacency, n)
    /\ version' = version + 1
    /\ UNCHANGED <<links, relay_elections, search>>

(* add_link makes lists for nodes it has never heard of.                   *)
AddLink(s, t) ==
    /\ AdjacencyFree /\ version < MaxVersion
    /\ links' = links \cup {<<s, t>>}
    /\ adjacency' = [n \in DOMAIN adjacency \cup {s, t} |->
                        Neighbours(adjacency, n) \cup (IF n = s THEN {t} ELSE {})
                                                 \cup (IF n = t THEN {s} ELSE {})]
    /\ version' = version + 1
    /\ UNCHANGED <<nodes, relay_elections, search>>

Unlinked(s, t) == [n \in DOMAIN adjacency |->
                      adjacency[n] \ ((IF n = s THEN {t} ELSE {}) \cup (IF n = t THEN {s} ELSE {}))]

(* remove_link clears both directions, though a link the other way round   *)
(* may remain; it is the one update that does not count as a version.      *)
RemoveLink(s, t) ==
    /\ AdjacencyFree
    /\ links' = links \ {<<s, t>>} /\ adjacency' = Unlinked(s, t)
    /\ UNCHANGED <<nodes, relay_elections, version, search>>

Candidates == {n \in DOMAIN nodes : nodes[n].relay}
ElectRelays(region) ==
    /\ \E elected \in SUBSET Candidates :
           /\ Cardinality(elected) = MaxRelays \/ elected = Candidates
           /\ Cardinality(elected) <= MaxRelays
           /\ \A e \in elected, n \in Candidates \ elected : nodes[e].bandwidth >= nodes[n].bandwidth
           /\ relay_elections' = Put(relay_elections, region, elected)
    /\ UNCHANGED <<nodes, links, adjacency, version, search>>

-----------------------------------------------------------------------------
(* shortest_path: Dijkstra with links of cost 1.  dist and prev are filled *)
(* as the search goes; the unvisited node of least distance comes next.    *)
ShortestPath(src, dst) ==
    /\ AdjacencyFree /\ {src, dst} \subseteq DOMAIN adjacency
    /\ search' = {[dst |-> dst, src |-> src, dist |-> [n \in {src} |-> 0],
                   prev |-> [n \in {} |-> src], visited |-> {}]}
    /\ UNCHANGED <<nodes, links, adjacency, relay_elections, version>>

Unvisited(s) == DOMAIN s.dist \ s.visited
Nearest(s) == {n \in Unvisited(s) : \A m \in Unvisited(s) : s.dist[n] <= s.dist[m]}

Better(s, current) == {n \in Neighbours(adjacency, current) \ (s.visited \cup {current}) :
                          n \notin DOMAIN s.dist \/ s.dist[current] + 1 < s.dist[n]}

Visit(s, current) ==
    /\ s \in search /\ current \in Nearest(s) /\ current # s.dst
    /\ LET better == Better(s, current) IN
       search' = {[s EXCEPT
           !.dist = [n \in DOMAIN @ \cup better |-> IF n \in better THEN s.dist[current] + 1 ELSE @[n]],
           !.prev = [n \in DOMAIN @ \cup better |-> IF n \in better THEN current ELSE @[n]],
           !.visited = @ \cup {current}]}
    /\ UNCHANGED <<nodes, links, adjacency, relay_elections, version>>

Found(s)  == s.dst \in Nearest(s)
NoPath(s) == Nearest(s) = {}
SearchEnds(s) ==
    /\ s \in search /\ (Found(s) \/ NoPath(s))
    /\ search' = {}
    /\ UNCHANGED <<nodes, links, adjacency, relay_elections, version>>

Next ==
    \/ \E n \in Nodes : (\E node \in Node : UpsertNode(n, node)) \/ RemoveNode(n)
    \/ \E s, t \in Nodes : s # t /\ (AddLink(s, t) \/ RemoveLink(s, t) \/ ShortestPath(s, t))
    \/ \E region \in Regions : ElectRelays(region)
    \/ \E s \in search : SearchEnds(s) \/ \E n \in Nodes : Visit(s, n)

Spec == Init /\ [][Next]_vars

-----------------------------------------------------------------------------
(* Shapes.                                                                 *)
TypeOK ==
    /\ Constants
    /\ DOMAIN nodes \subseteq Nodes /\ nodes \in [DOMAIN nodes -> Node]
    /\ links \subseteq Nodes \X Nodes
    /\ DOMAIN adjacency \subseteq Nodes /\ adjacency \in [DOMAIN adjacency -> SUBSET Nodes]
    /\ relay_elections \in [DOMAIN relay_elections -> SUBSET Nodes]
    /\ version \in 0 .. MaxVersion /\ Cardinality(search) <= 1

(* No list names a neighbour without a link that is still there, in one    *)
(* direction or the other, however links and nodes came and went.          *)
EdgesBacked ==
    \A s \in DOMAIN adjacency : \A t \in adjacency[s] : <<s, t>> \in links \/ <<t, s>> \in links

\* The walks of k hops along the lists.
Walks(src, dst, k) == {w \in [0 .. k -> Nodes] : /\ w[0] = src /\ w[k] = dst
                                                 /\ \A i \in 1 .. k : w[i] \in Neighbours(adjacency, w[i - 1])}

(* The search finds a path if there is one, none if there is none, and a   *)
(* path of as few hops as can be, over nodes that have lists: one that     *)
(* left is at most the last node of a path.                                *)
PathLeast ==
    \A s \in search :
        /\ Found(s) => LET d == s.dist[s.dst] IN
               /\ Walks(s.src, s.dst, d) # {} /\ \A k \in 0 .. d - 1 : Walks(s.src, s.dst, k) = {}
               /\ \A n \in DOMAIN s.prev : s.prev[n] \in DOMAIN adjacency /\ n \in adjacency[s.prev[n]]
                                           /\ s.dist[n] = s.dist[s.prev[n]] + 1
        /\ NoPath(s) => \A k \in 0 .. Cardinality(Nodes) : Walks(s.src, s.dst, k) = {}
=============================================================================
