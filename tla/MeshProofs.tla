------------------------------ MODULE MeshProofs ------------------------------
(* Theorems about the engines of mesh routing: distance vector (types, the     *)
(* bound on metrics, connected routes, and loop freedom without failures),     *)
(* gossip and Babel, for any number of nodes, messages, neighbours, metrics    *)
(* and any modulus.                                                            *)
EXTENDS MCMesh, TLAPS

-----------------------------------------------------------------------------
(* Distance vector.                                                        *)
USE DEF IsMap, Absent

Assumptions ==
    /\ INFINITY \in Nat /\ HopCost \in Nat /\ HopCost > 0 /\ ConnectedMetric \in Nat
    /\ ConnectedMetric < INFINITY
    /\ MaxInFlight \in Nat /\ MaxFailures \in Nat
    /\ Links \subseteq (Nodes \X Nodes) /\ \A n \in Nodes : <<n, n>> \notin Links
    /\ Origins \subseteq Nodes

LEMMA Assumed == Assumptions
  BY LinksAssumption, OriginsAssumption, MetricAssumption DEF Assumptions

\* The arithmetic of metrics.
LEMMA MetricFacts ==
  /\ INFINITY \in Nat /\ INFINITY < INFINITY + HopCost
  /\ \A m \in Nat : m + HopCost \in Nat /\ (m < INFINITY => m + HopCost < INFINITY + HopCost)
  BY Assumed DEF Assumptions

\* The routes that the operations store.
LEMMA RouteForms ==
  /\ \A r \in DvRoute : /\ Poisoned(r) \in DvRoute /\ Poisoned(r).metric = INFINITY
                        /\ \A h \in {"no", "running", "over"} :
                            /\ [r EXCEPT !.hold = h] \in DvRoute
                            /\ [r EXCEPT !.hold = h].metric = r.metric
  /\ \A m \in Nat, p \in Nodes : Learned(m, p) \in DvRoute /\ Learned(m, p).metric = m
  BY Assumed DEF Assumptions, DvRoute, Poisoned, Learned

\* What process_update may leave in the table of n.
LEMMA ProcessedRoute ==
  ASSUME TypeOK, NEW n \in Nodes, NEW p \in Nodes, ProcessUpdate(n, p)
  PROVE  /\ wire[<<p, n>>] \in Nat \cup {Absent}
         /\ \/ route' = route
            \/ /\ wire[<<p, n>>] >= INFINITY /\ Via(n, p)
               /\ route' = [route EXCEPT ![n] = Poisoned(route[n])]
            \/ /\ wire[<<p, n>>] \in Nat /\ wire[<<p, n>>] < INFINITY
               /\ ShouldUpdate(n, p, wire[<<p, n>>] + HopCost)
               /\ route' = Put(route, n, Learned(wire[<<p, n>>] + HopCost, p))
<1>1. wire[<<p, n>>] \in Nat \cup {Absent}
  BY DEF TypeOK, ProcessUpdate
<1> QED
  BY <1>1, Assumed DEF Assumptions, ProcessUpdate, Unreachable

-----------------------------------------------------------------------------
\* Init establishes the types.
LEMMA InitType == Init => TypeOK
  BY Assumed DEF Init, TypeOK, Assumptions

\* Every step keeps the types.
LEMMA NextType == TypeOK /\ [Next]_vars => TypeOK'
<1> SUFFICES ASSUME TypeOK, [Next]_vars PROVE TypeOK'
  OBVIOUS
<1>u. CASE UNCHANGED vars
  BY <1>u DEF TypeOK, vars
<1>1. ASSUME NEW n \in Nodes, AddConnectedRoute(n) PROVE TypeOK'
  BY <1>1, Assumed DEF AddConnectedRoute, TypeOK, Put, DvRoute, Assumptions
<1>2. ASSUME NEW n \in Nodes, NEW p \in Nodes, SendUpdate(n, p) PROVE TypeOK'
  <2>1. UpdateFor(n, p) \in Nat \cup {Absent}
    BY Assumed DEF UpdateFor, TypeOK, DvRoute, Assumptions
  <2> QED
    BY <1>2, <2>1 DEF SendUpdate, Ready, TypeOK, Put
<1>3. ASSUME NEW n \in Nodes, NEW p \in Nodes, SendFull(n, p) PROVE TypeOK'
  <2>1. FullUpdate(n) \in Nat \cup {Absent}
    BY Assumed DEF FullUpdate, TypeOK, DvRoute, Assumptions
  <2> QED
    BY <1>3, <2>1 DEF SendFull, Ready, TypeOK, Put
<1>4. ASSUME NEW n \in Nodes, NEW p \in Nodes, ProcessUpdate(n, p) PROVE TypeOK'
  <2>1. IsMap(wire', Links, Nat \cup {Absent})
    BY <1>4 DEF ProcessUpdate, TypeOK, Drop
  <2>2. DOMAIN heard' = Nodes /\ \A x \in Nodes : IsMap(heard'[x], Nodes, {"fresh", "stale"})
    BY <1>4 DEF ProcessUpdate, TypeOK, Put
  <2>3. IsMap(route', Nodes, DvRoute) /\ DOMAIN route' \subseteq up
    <3>1. CASE route' = route
      BY <3>1 DEF TypeOK
    <3>2. CASE Via(n, p) /\ route' = [route EXCEPT ![n] = Poisoned(route[n])]
      BY <3>2, RouteForms DEF TypeOK, Via
    <3>3. CASE /\ wire[<<p, n>>] \in Nat
               /\ route' = Put(route, n, Learned(wire[<<p, n>>] + HopCost, p))
      <4>1. Learned(wire[<<p, n>>] + HopCost, p) \in DvRoute
        BY <3>3, RouteForms, MetricFacts
      <4>2. n \in up
        BY <1>4 DEF ProcessUpdate
      <4> QED
        BY <3>3, <4>1, <4>2 DEF TypeOK, Put
    <3> QED
      BY <1>4, <3>1, <3>2, <3>3, ProcessedRoute
  <2> QED
    BY <1>4, <2>1, <2>2, <2>3 DEF ProcessUpdate, TypeOK
<1>5. ASSUME NEW n \in Nodes, ExpireStaleRoutes(n) PROVE TypeOK'
  <2>1. route[n] \in DvRoute
    BY <1>5 DEF ExpireStaleRoutes, TypeOK
  <2>2. [Poisoned(route[n]) EXCEPT !.hold = "running"] \in DvRoute
    BY <2>1, RouteForms
  <2> QED
    BY <1>5, <2>2 DEF ExpireStaleRoutes, TypeOK, Drop
<1>6. ASSUME NEW n \in Nodes, NEW p \in Nodes, RemovePeer(n, p) PROVE TypeOK'
  <2>1. IsMap(route', Nodes, DvRoute) /\ DOMAIN route' \subseteq up
    <3>1. CASE Via(n, p)
      <4>1. route[n] \in DvRoute
        BY <3>1 DEF TypeOK, Via
      <4>2. [route[n] EXCEPT !.hold = "running"] \in DvRoute
        BY <4>1, RouteForms
      <4>3. route' = [route EXCEPT ![n] = [route[n] EXCEPT !.hold = "running"]]
        BY <1>6, <3>1 DEF RemovePeer
      <4> QED
        BY <3>1, <4>2, <4>3 DEF TypeOK, Via
    <3>2. CASE ~ Via(n, p)
      BY <1>6, <3>2 DEF RemovePeer, TypeOK
    <3> QED
      BY <3>1, <3>2
  <2> QED
    BY <1>6, <2>1, Assumed DEF RemovePeer, Fail, TypeOK, Drop, Assumptions
<1>7. ASSUME NEW n \in Nodes, NEW p \in Nodes, GoStale(n, p) PROVE TypeOK'
  BY <1>7, Assumed DEF GoStale, Fail, TypeOK, Assumptions
<1>8. ASSUME NEW n \in Nodes, HoldDownEnds(n) PROVE TypeOK'
  BY <1>8 DEF HoldDownEnds, TypeOK, DvRoute
<1>9. ASSUME NEW n \in Nodes, Crash(n) PROVE TypeOK'
  BY <1>9, Assumed DEF Crash, Fail, TypeOK, Drop, Assumptions
<1>10. ASSUME NEW n \in Nodes, Restart(n) PROVE TypeOK'
  BY <1>10 DEF Restart, TypeOK
<1>11. ASSUME NEW l \in Links, Lose(l) PROVE TypeOK'
  BY <1>11, Assumed DEF Lose, Fail, TypeOK, Drop, Assumptions
<1> QED
  BY <1>u, <1>1, <1>2, <1>3, <1>4, <1>5, <1>6, <1>7, <1>8, <1>9, <1>10, <1>11 DEF Next

(* Type correctness of every table and every update of the distance vector *)
(* engine, for any network and any failures.                               *)
THEOREM TypeCorrect == Spec => []TypeOK
  BY InitType, NextType, PTL DEF Spec

-----------------------------------------------------------------------------
\* Every step keeps the bound.
LEMMA NextBound == TypeOK /\ MetricBound /\ [Next]_vars => MetricBound'
<1> SUFFICES ASSUME TypeOK, MetricBound, [Next]_vars PROVE MetricBound'
  OBVIOUS
<1>u. CASE UNCHANGED vars
  BY <1>u DEF MetricBound, vars
<1>1. ASSUME NEW n \in Nodes, AddConnectedRoute(n) PROVE MetricBound'
  BY <1>1, Assumed DEF AddConnectedRoute, MetricBound, Put, Assumptions
<1>2. ASSUME NEW n \in Nodes, NEW p \in Nodes, SendUpdate(n, p) PROVE MetricBound'
  <2>1. UpdateFor(n, p) <= INFINITY
    BY Assumed DEF UpdateFor, TypeOK, DvRoute, Assumptions
  <2> QED
    BY <1>2, <2>1 DEF SendUpdate, MetricBound, Put
<1>3. ASSUME NEW n \in Nodes, NEW p \in Nodes, SendFull(n, p) PROVE MetricBound'
  <2>1. FullUpdate(n) <= INFINITY
    BY Assumed DEF FullUpdate, TypeOK, DvRoute, Assumptions
  <2> QED
    BY <1>3, <2>1 DEF SendFull, MetricBound, Put
<1>4. ASSUME NEW n \in Nodes, NEW p \in Nodes, ProcessUpdate(n, p) PROVE MetricBound'
  <2>1. \A x \in DOMAIN route' : route'[x].metric < INFINITY + HopCost
    <3>1. CASE route' = route
      BY <3>1 DEF MetricBound
    <3>2. CASE Via(n, p) /\ route' = [route EXCEPT ![n] = Poisoned(route[n])]
      BY <3>2, RouteForms, MetricFacts DEF TypeOK, Via, MetricBound
    <3>3. CASE /\ wire[<<p, n>>] \in Nat /\ wire[<<p, n>>] < INFINITY
               /\ route' = Put(route, n, Learned(wire[<<p, n>>] + HopCost, p))
      <4>1. Learned(wire[<<p, n>>] + HopCost, p).metric < INFINITY + HopCost
        BY <3>3, RouteForms, MetricFacts
      <4> QED
        BY <3>3, <4>1 DEF MetricBound, Put
    <3> QED
      BY <1>4, <3>1, <3>2, <3>3, ProcessedRoute
  <2> QED
    BY <1>4, <2>1 DEF ProcessUpdate, MetricBound, Drop
<1>5. ASSUME NEW n \in Nodes, ExpireStaleRoutes(n) PROVE MetricBound'
  <2>1. route[n] \in DvRoute
    BY <1>5 DEF ExpireStaleRoutes, TypeOK
  <2>2. [Poisoned(route[n]) EXCEPT !.hold = "running"].metric < INFINITY + HopCost
    BY <2>1, RouteForms, MetricFacts
  <2> QED
    BY <1>5, <2>2 DEF ExpireStaleRoutes, TypeOK, MetricBound, Drop
<1>6. ASSUME NEW n \in Nodes, NEW p \in Nodes, RemovePeer(n, p) PROVE MetricBound'
  BY <1>6 DEF RemovePeer, Via, TypeOK, MetricBound, DvRoute
<1>7. ASSUME NEW n \in Nodes, NEW p \in Nodes, GoStale(n, p) PROVE MetricBound'
  BY <1>7 DEF GoStale, MetricBound
<1>8. ASSUME NEW n \in Nodes, HoldDownEnds(n) PROVE MetricBound'
  BY <1>8 DEF HoldDownEnds, TypeOK, MetricBound, DvRoute
<1>9. ASSUME NEW n \in Nodes, Crash(n) PROVE MetricBound'
  BY <1>9 DEF Crash, MetricBound, Drop
<1>10. ASSUME NEW n \in Nodes, Restart(n) PROVE MetricBound'
  BY <1>10 DEF Restart, MetricBound
<1>11. ASSUME NEW l \in Links, Lose(l) PROVE MetricBound'
  BY <1>11 DEF Lose, MetricBound, Drop
<1> QED
  BY <1>u, <1>1, <1>2, <1>3, <1>4, <1>5, <1>6, <1>7, <1>8, <1>9, <1>10, <1>11 DEF Next

(* The hop count limit of process_update and build_update: in any network  *)
(* and under any failures no metric reaches INFINITY plus the cost of a    *)
(* hop, and no update carries more than INFINITY.                          *)
THEOREM Bounded == Spec => []MetricBound
<1>1. Init => MetricBound
  BY DEF Init, MetricBound
<1> QED
  BY <1>1, InitType, NextType, NextBound, PTL DEF Spec

-----------------------------------------------------------------------------
(* Connected routes.  A route that was not learned is the one that           *)
(* add_connected_route wrote, in no hold-down, and no update under way is    *)
(* better than it, whatever was lost, restarted or counted on the way.       *)
IsConnected(n, r) ==
    /\ r.metric = ConnectedMetric /\ r.next_hop = n
    /\ ~ r.learned /\ ~ r.poisoned /\ r.hold = "no"
ConnectedInv ==
    /\ \A n \in DOMAIN route : /\ route[n].metric >= ConnectedMetric
                               /\ ~ route[n].learned => IsConnected(n, route[n])
    /\ \A l \in DOMAIN wire : wire[l] # Absent => wire[l] >= ConnectedMetric

\* What was learned stays marked so, poisoned or held down.
LEMMA LearnedForms ==
  /\ \A r \in DvRoute : /\ Poisoned(r).learned = r.learned /\ Poisoned(r).metric = INFINITY
                        /\ \A h : /\ [r EXCEPT !.hold = h].learned = r.learned
                                  /\ [r EXCEPT !.hold = h].metric = r.metric
  /\ \A m, p : Learned(m, p).learned /\ Learned(m, p).metric = m
<1>1. ASSUME NEW r \in DvRoute
      PROVE  /\ r = [r EXCEPT !.metric = r.metric]
             /\ DOMAIN r = {"metric", "next_hop", "learned", "poisoned", "hold"}
  BY DEF DvRoute
<1> QED
  BY <1>1 DEF Poisoned, Learned

\* A node has one connected route it can have.
LEMMA OneConnected ==
  \A n, r, s : r \in DvRoute /\ s \in DvRoute /\ IsConnected(n, r) /\ IsConnected(n, s) => r = s
  BY DEF DvRoute, IsConnected

\* Connected routes of nodes that go on running stay as they are in this step.
Survives ==
    \A n \in up \cap up' \cap DOMAIN route :
        ~ route[n].learned => n \in DOMAIN route' /\ route'[n] = route[n]

\* Every step keeps the invariant and the connected routes.
LEMMA ConnectedStep ==
  ASSUME TypeOK, ConnectedInv, [Next]_vars PROVE ConnectedInv' /\ Survives
<1>a. /\ ConnectedMetric \in Nat /\ HopCost \in Nat /\ HopCost > 0 /\ INFINITY \in Nat
      /\ ConnectedMetric < INFINITY
  BY Assumed DEF Assumptions
<1>t. \A x \in DOMAIN route : route[x] \in DvRoute /\ route[x].metric \in Nat
  BY DEF TypeOK, DvRoute
<1>u. CASE UNCHANGED vars
  BY <1>u DEF ConnectedInv, Survives, vars
<1>1. ASSUME NEW n \in Nodes, AddConnectedRoute(n) PROVE ConnectedInv' /\ Survives
  <2>1. PICK r : /\ r = [metric |-> ConnectedMetric, next_hop |-> n,
                         learned |-> FALSE, poisoned |-> FALSE, hold |-> "no"]
                 /\ r \in DvRoute /\ IsConnected(n, r) /\ r.metric >= ConnectedMetric
    <3> DEFINE c == [metric |-> ConnectedMetric, next_hop |-> n,
                     learned |-> FALSE, poisoned |-> FALSE, hold |-> "no"]
    <3>1. c \in DvRoute
      BY <1>a DEF DvRoute
    <3>2. IsConnected(n, c) /\ c.metric >= ConnectedMetric
      BY <1>a DEF IsConnected
    <3> HIDE DEF c
    <3>3. \E r : r = c /\ r \in DvRoute /\ IsConnected(n, r) /\ r.metric >= ConnectedMetric
      BY <3>1, <3>2
    <3> QED
      BY <3>3 DEF c
  <2>2. route' = Put(route, n, r) /\ wire' = wire
    BY <1>1, <2>1 DEF AddConnectedRoute
  <2>3. \A x \in DOMAIN route : ~ route[x].learned => route'[x] = route[x]
    BY <1>t, <2>1, <2>2, OneConnected DEF ConnectedInv, Put
  <2> QED
    BY <2>1, <2>2, <2>3 DEF ConnectedInv, Survives, Put
<1>2. ASSUME NEW n \in Nodes, NEW p \in Nodes, SendUpdate(n, p) PROVE ConnectedInv' /\ Survives
  <2>1. UpdateFor(n, p) = Absent \/ UpdateFor(n, p) >= ConnectedMetric
    BY <1>a, <1>t DEF UpdateFor, ConnectedInv
  <2> QED
    BY <1>2, <2>1 DEF SendUpdate, Put, ConnectedInv, Survives
<1>3. ASSUME NEW n \in Nodes, NEW p \in Nodes, SendFull(n, p) PROVE ConnectedInv' /\ Survives
  <2>1. FullUpdate(n) = Absent \/ FullUpdate(n) >= ConnectedMetric
    BY <1>a, <1>t DEF FullUpdate, ConnectedInv
  <2> QED
    BY <1>3, <2>1 DEF SendFull, Put, ConnectedInv, Survives
<1>4. ASSUME NEW n \in Nodes, NEW p \in Nodes, ProcessUpdate(n, p) PROVE ConnectedInv' /\ Survives
  <2>1. \A l \in DOMAIN wire' : l \in DOMAIN wire /\ wire'[l] = wire[l]
    BY <1>4 DEF ProcessUpdate, Drop
  <2>2. CASE route' = route
    BY <2>1, <2>2 DEF ConnectedInv, Survives
  <2>3. CASE Via(n, p) /\ route' = [route EXCEPT ![n] = Poisoned(route[n])]
    <3>1. PICK r : r = Poisoned(route[n]) /\ r.metric = INFINITY /\ r.learned
      <4>1. n \in DOMAIN route /\ route[n].learned
        BY <2>3 DEF Via
      <4> QED
        BY <1>t, <4>1, LearnedForms
    <3> QED
      BY <1>a, <2>1, <2>3, <3>1 DEF ConnectedInv, Survives, Via
  <2>4. CASE /\ wire[<<p, n>>] \in Nat /\ ShouldUpdate(n, p, wire[<<p, n>>] + HopCost)
             /\ route' = Put(route, n, Learned(wire[<<p, n>>] + HopCost, p))
    <3>1. PICK m \in Nat : m = wire[<<p, n>>] /\ m >= ConnectedMetric
      BY <1>4, <1>a, <2>4 DEF ConnectedInv, ProcessUpdate
    <3>2. p # n
      BY <1>4, Assumed DEF ProcessUpdate, TypeOK, Assumptions
    <3>3. ~ (n \in DOMAIN route /\ ~ route[n].learned)
      BY <1>a, <1>t, <2>4, <3>1, <3>2 DEF ConnectedInv, IsConnected, ShouldUpdate
    <3>4. PICK r : r = Learned(m + HopCost, p) /\ r.metric = m + HopCost /\ r.learned
      BY LearnedForms
    <3>5. r.metric >= ConnectedMetric
      BY <1>a, <3>1, <3>4
    <3>6. route' = Put(route, n, r)
      BY <2>4, <3>1, <3>4
    <3> QED
      BY <2>1, <3>3, <3>4, <3>5, <3>6 DEF ConnectedInv, Survives, Put
  <2> QED
    BY <1>4, <2>2, <2>3, <2>4, ProcessedRoute
<1>5. ASSUME NEW n \in Nodes, ExpireStaleRoutes(n) PROVE ConnectedInv' /\ Survives
  <2>1. n \in DOMAIN route /\ wire' = wire
    BY <1>5 DEF ExpireStaleRoutes
  <2>2. CASE route[n].learned /\ route' = [route EXCEPT ![n] = [Poisoned(route[n]) EXCEPT !.hold = "running"]]
    <3>1. PICK r : r = [Poisoned(route[n]) EXCEPT !.hold = "running"] /\ r.metric = INFINITY /\ r.learned
      <4>1. PICK q \in DvRoute : q = Poisoned(route[n]) /\ q.metric = INFINITY /\ q.learned
        BY <1>t, <2>1, <2>2, LearnedForms, RouteForms
      <4>2. PICK h : h = "running"
        OBVIOUS
      <4>3. [q EXCEPT !.hold = h].learned /\ [q EXCEPT !.hold = h].metric = INFINITY
        BY <4>1, LearnedForms
      <4>4. \E r : r = [q EXCEPT !.hold = h] /\ r.metric = INFINITY /\ r.learned
        BY <4>3
      <4> QED
        BY <4>1, <4>2, <4>4
    <3> QED
      BY <1>a, <2>1, <2>2, <3>1 DEF ConnectedInv, Survives
  <2>3. CASE route[n].hold = "over" /\ route' = Drop(route, n)
    BY <2>1, <2>3 DEF ConnectedInv, Survives, Drop, IsConnected
  <2> QED
    BY <1>5, <2>2, <2>3 DEF ExpireStaleRoutes, Expires
<1>6. ASSUME NEW n \in Nodes, NEW h \in {"running", "over"}, n \in DOMAIN route, wire' = wire,
             route[n].learned, route' = [route EXCEPT ![n] = [route[n] EXCEPT !.hold = h]]
      PROVE  ConnectedInv' /\ Survives
  <2>1. PICK r : r = [route[n] EXCEPT !.hold = h] /\ r.metric = route[n].metric /\ r.learned
    <3>1. PICK q \in DvRoute : q = route[n] /\ q.learned
      BY <1>6, <1>t
    <3>2. [q EXCEPT !.hold = h].learned /\ [q EXCEPT !.hold = h].metric = q.metric
      BY <3>1, LearnedForms
    <3>3. \E r : r = [q EXCEPT !.hold = h] /\ r.metric = q.metric /\ r.learned
      BY <3>2
    <3> QED
      BY <3>1, <3>3
  <2> QED
    BY <1>6, <2>1 DEF ConnectedInv, Survives
<1>7. ASSUME NEW n \in Nodes, NEW p \in Nodes, RemovePeer(n, p) PROVE ConnectedInv' /\ Survives
  <2>1. CASE Via(n, p)
    <3>1. route' = [route EXCEPT ![n] = [route[n] EXCEPT !.hold = "running"]] /\ wire' = wire
      BY <1>7, <2>1 DEF RemovePeer
    <3> QED
      BY <1>6, <2>1, <3>1 DEF Via
  <2>2. CASE ~ Via(n, p)
    BY <1>7, <2>2 DEF RemovePeer, ConnectedInv, Survives
  <2> QED
    BY <2>1, <2>2
<1>8. ASSUME NEW n \in Nodes, HoldDownEnds(n) PROVE ConnectedInv' /\ Survives
  <2>1. n \in DOMAIN route /\ route[n].hold = "running" /\ wire' = wire
        /\ route' = [route EXCEPT ![n] = [route[n] EXCEPT !.hold = "over"]]
    BY <1>8 DEF HoldDownEnds
  <2>2. route[n].learned
    BY <2>1 DEF ConnectedInv, IsConnected
  <2> QED
    BY <1>6, <2>1, <2>2
<1>9. ASSUME NEW n \in Nodes, NEW p \in Nodes, GoStale(n, p) PROVE ConnectedInv' /\ Survives
  BY <1>9 DEF GoStale, ConnectedInv, Survives
<1>10. ASSUME NEW n \in Nodes, Crash(n) PROVE ConnectedInv' /\ Survives
  BY <1>10 DEF Crash, Drop, ConnectedInv, Survives
<1>11. ASSUME NEW n \in Nodes, Restart(n) PROVE ConnectedInv' /\ Survives
  BY <1>11 DEF Restart, ConnectedInv, Survives
<1>12. ASSUME NEW l \in Links, Lose(l) PROVE ConnectedInv' /\ Survives
  BY <1>12 DEF Lose, Drop, ConnectedInv, Survives
<1> QED
  BY <1>u, <1>1, <1>2, <1>3, <1>4, <1>5, <1>7, <1>8, <1>9, <1>10, <1>11, <1>12 DEF Next

(* add_connected_route against process_update, expire_stale_routes and       *)
(* remove_peer: in any network and under any failures, a route to a network  *)
(* that a node is connected to stays as it is while the node runs.           *)
THEOREM ConnectedKept == Spec => ConnectedSurvives
<1>1. Init => TypeOK /\ ConnectedInv
  BY InitType DEF Init, ConnectedInv
<1>2. TypeOK /\ ConnectedInv /\ [Next]_vars => TypeOK' /\ ConnectedInv'
  BY NextType, ConnectedStep
<1>3. TypeOK /\ ConnectedInv /\ [Next]_vars =>
        [\A n \in up \cap up' \cap DOMAIN route :
            ~ route[n].learned => n \in DOMAIN route' /\ route'[n] = route[n]]_vars
  BY ConnectedStep DEF Survives
<1> QED
  BY <1>1, <1>2, <1>3, PTL DEF Spec, ConnectedSurvives

-----------------------------------------------------------------------------
(* Loop freedom.  Without failures a metric only falls, so an update under *)
(* way is never better than what its sender has now; and a node never      *)
(* receives a poisoned entry from the next hop it has.                     *)

NoFailures ==
    /\ up = Nodes /\ failures = 0
    /\ \A n \in Nodes : \A p \in DOMAIN heard[n] : heard[n][p] = "fresh"
    /\ \A n \in DOMAIN route : route[n].hold = "no"

RoutesFloor ==
    \A n \in DOMAIN route :
        /\ route[n].metric >= ConnectedMetric
        /\ ~ route[n].learned => route[n].next_hop = n /\ route[n].metric = ConnectedMetric

\* A metric on its way along l is one its sender had, and its receiver, if
\* it already routes through the sender, gains by it.
Current(l) ==
    /\ wire[l] >= ConnectedMetric
    /\ wire[l] < INFINITY =>
        /\ l[1] \in DOMAIN route /\ wire[l] >= route[l[1]].metric
        /\ Via(l[2], l[1]) => wire[l] + HopCost <= route[l[2]].metric
    /\ wire[l] >= INFINITY => ~ Via(l[2], l[1])

WireCurrent == \A l \in DOMAIN wire : wire[l] # Absent => Current(l)

LoopInv == TypeOK /\ NoFailures /\ RoutesFloor /\ WireCurrent /\ Descending

\* A route may be replaced by a better one without harm to the others.
LEMMA Improves ==
  ASSUME LoopInv, NEW n \in Nodes, NEW r \in DvRoute,
         n \in DOMAIN route => r.metric <= route[n].metric,
         r.metric >= ConnectedMetric,
         ~ r.learned => r.next_hop = n /\ r.metric = ConnectedMetric,
         r.learned => /\ r.next_hop # n /\ r.next_hop \in DOMAIN route
                      /\ r.metric >= route[r.next_hop].metric + HopCost,
         route' = Put(route, n, r)
  PROVE  /\ RoutesFloor' /\ Descending'
         /\ \A l \in DOMAIN wire :
              (/\ wire[l] # Absent /\ wire'[l] = wire[l] /\ l \in Links
               /\ ~ (l[2] = n /\ r.learned /\ r.next_hop = l[1])) => Current(l)'
<1>1. /\ \A x \in DOMAIN route : route[x] \in DvRoute /\ route[x].metric \in Nat
      /\ r.metric \in Nat /\ HopCost \in Nat /\ ConnectedMetric \in Nat
  BY Assumed DEF LoopInv, TypeOK, DvRoute, Assumptions
<1>2. /\ DOMAIN route' = DOMAIN route \cup {n} /\ route'[n] = r
      /\ \A x \in DOMAIN route : x # n => route'[x] = route[x]
      /\ \A x \in DOMAIN route : route'[x].metric <= route[x].metric /\ route'[x].metric \in Nat
  BY <1>1 DEF Put
<1>3. RoutesFloor'
  BY <1>2 DEF LoopInv, RoutesFloor
<1>4. Descending'
  <2> SUFFICES ASSUME NEW x \in DOMAIN route', route'[x].learned
               PROVE  /\ route'[x].next_hop \in DOMAIN route'
                      /\ route'[x].metric >= route'[route'[x].next_hop].metric + HopCost
    BY DEF Descending
  <2>1. CASE x = n
    BY <1>1, <1>2, <2>1
  <2>2. CASE x # n
    <3> DEFINE p == route[x].next_hop
    <3>1. x \in DOMAIN route /\ route'[x] = route[x]
      BY <1>2, <2>2
    <3>2. p \in DOMAIN route /\ route[x].metric >= route[p].metric + HopCost
      BY <3>1 DEF LoopInv, Descending
    <3>3. route'[p].metric <= route[p].metric /\ route'[p].metric \in Nat /\ p \in DOMAIN route'
      BY <1>2, <3>2
    <3> HIDE DEF p
    <3>4. route[x].metric >= route'[p].metric + HopCost
      BY <1>1, <3>1, <3>2, <3>3
    <3> QED
      BY <3>1, <3>3, <3>4 DEF p
  <2> QED
    BY <2>1, <2>2
<1>5. ASSUME NEW l \in DOMAIN wire, wire[l] # Absent, wire'[l] = wire[l], l \in Links,
             ~ (l[2] = n /\ r.learned /\ r.next_hop = l[1])
      PROVE  Current(l)'
  <2>1. Current(l) /\ wire[l] \in Nat
    BY <1>5 DEF LoopInv, WireCurrent, TypeOK
  <2>2. Via(l[2], l[1])' => Via(l[2], l[1]) /\ route'[l[2]] = route[l[2]]
    <3>1. CASE l[2] = n
      BY <1>2, <1>5, <3>1 DEF Via
    <3>2. CASE l[2] # n
      BY <1>2, <3>2 DEF Via
    <3> QED
      BY <3>1, <3>2
  <2>3. l[1] \in DOMAIN route => /\ l[1] \in DOMAIN route' /\ route'[l[1]].metric \in Nat
                                 /\ route'[l[1]].metric <= route[l[1]].metric
    BY <1>2
  <2>4. wire[l] < INFINITY => l[1] \in DOMAIN route' /\ wire[l] >= route'[l[1]].metric
    BY <1>1, <2>1, <2>3, Assumed DEF Current, Assumptions
  <2> QED
    BY <1>5, <2>1, <2>2, <2>4 DEF Current
<1> QED
  BY <1>3, <1>4, <1>5

\* The updates that are not touched stay current when no route changes.
LEMMA WireKeeps ==
  ASSUME LoopInv, UNCHANGED route
  PROVE  /\ RoutesFloor' /\ Descending'
         /\ \A l \in DOMAIN wire : wire[l] # Absent /\ wire'[l] = wire[l] => Current(l)'
  BY DEF LoopInv, RoutesFloor, Descending, WireCurrent, Current, Via

\* What build_update and build_full_update say of a route is current.
LEMMA SendCurrent ==
  ASSUME LoopInv, NEW n \in Nodes, NEW p \in Nodes, <<n, p>> \in Links, UNCHANGED route,
         wire'[<<n, p>>] \in {UpdateFor(n, p), FullUpdate(n)}, wire'[<<n, p>>] # Absent
  PROVE  Current(<<n, p>>)'
<1>1. /\ n \in DOMAIN route /\ route[n].metric < INFINITY /\ route[n].metric \in Nat
      /\ wire'[<<n, p>>] = route[n].metric \/ (wire'[<<n, p>>] = INFINITY /\ route[n].next_hop = p)
  <2>1. n \in DOMAIN route => route[n].metric \in Nat
    BY DEF LoopInv, TypeOK, DvRoute
  <2> QED
    BY <2>1, MetricFacts DEF UpdateFor, FullUpdate
<1>2. Via(p, n) => p \in DOMAIN route /\ route[p].metric >= route[n].metric + HopCost
                   /\ route[p].metric \in Nat
  BY DEF Via, LoopInv, Descending, TypeOK, DvRoute
<1>3. n # p /\ HopCost \in Nat /\ HopCost > 0 /\ ConnectedMetric \in Nat
      /\ ConnectedMetric < INFINITY /\ INFINITY \in Nat
  BY Assumed DEF Assumptions
<1>4. route[n].metric >= ConnectedMetric
  BY <1>1 DEF LoopInv, RoutesFloor
<1>5. CASE wire'[<<n, p>>] = route[n].metric
  BY <1>1, <1>2, <1>3, <1>4, <1>5 DEF Current, Via
<1>6. CASE wire'[<<n, p>>] = INFINITY /\ route[n].next_hop = p
  <2>1. p \in DOMAIN route /\ route[n].metric >= route[p].metric + HopCost
    BY <1>1, <1>3, <1>6 DEF LoopInv, Descending, RoutesFloor
  <2>2. ~ Via(p, n)
    BY <1>1, <1>2, <1>3, <2>1
  <2> QED
    BY <1>3, <1>6, <2>2 DEF Current, Via
<1> QED
  BY <1>1, <1>5, <1>6

\* Every step of a network that may not fail keeps the invariant.
LEMMA NextLoop == ASSUME MaxFailures = 0 PROVE LoopInv /\ [Next]_vars => LoopInv'
<1> SUFFICES ASSUME LoopInv, [Next]_vars PROVE LoopInv'
  OBVIOUS
<1>t. TypeOK /\ TypeOK'
  BY NextType DEF LoopInv
<1>f. ~ Fail
  BY DEF LoopInv, NoFailures, Fail
<1>u. CASE UNCHANGED vars
  BY <1>u, <1>t DEF vars, LoopInv, NoFailures, RoutesFloor, WireCurrent, Current, Descending, Via
<1>1. ASSUME NEW n \in Nodes, AddConnectedRoute(n) PROVE LoopInv'
  <2> DEFINE r == [metric |-> ConnectedMetric, next_hop |-> n,
                   learned |-> FALSE, poisoned |-> FALSE, hold |-> "no"]
  <2>1. r \in DvRoute /\ route' = Put(route, n, r) /\ UNCHANGED <<up, heard, wire, failures>>
    BY <1>1, Assumed DEF AddConnectedRoute, DvRoute, Assumptions
  <2>2. n \in DOMAIN route => r.metric <= route[n].metric
    BY DEF LoopInv, RoutesFloor
  <2>3. r.metric >= ConnectedMetric
    BY Assumed DEF Assumptions
  <2>4. /\ RoutesFloor' /\ Descending'
        /\ \A l \in DOMAIN wire : wire[l] # Absent /\ wire'[l] = wire[l] /\ l \in Links => Current(l)'
    BY <2>1, <2>2, <2>3, Improves
  <2>5. WireCurrent'
    BY <2>1, <2>4, <1>t DEF WireCurrent, TypeOK
  <2>6. NoFailures'
    BY <2>1 DEF LoopInv, NoFailures, Put
  <2> QED
    BY <1>t, <2>4, <2>5, <2>6 DEF LoopInv
<1>2. ASSUME NEW n \in Nodes, NEW p \in Nodes, SendUpdate(n, p) \/ SendFull(n, p) PROVE LoopInv'
  <2>1. /\ <<n, p>> \in Links /\ UNCHANGED <<up, route, heard, failures>>
        /\ DOMAIN wire' = DOMAIN wire \cup {<<n, p>>}
        /\ \A l \in DOMAIN wire : l # <<n, p>> => wire'[l] = wire[l]
        /\ wire'[<<n, p>>] \in {UpdateFor(n, p), FullUpdate(n)}
    BY <1>2 DEF SendUpdate, SendFull, Ready, Put
  <2>2. wire'[<<n, p>>] # Absent => Current(<<n, p>>)'
    BY <2>1, SendCurrent
  <2>3. WireCurrent'
    BY <2>1, <2>2, WireKeeps DEF WireCurrent
  <2>4. NoFailures'
    BY <2>1 DEF LoopInv, NoFailures
  <2> QED
    BY <1>t, <2>1, <2>3, <2>4, WireKeeps DEF LoopInv
<1>3. ASSUME NEW n \in Nodes, NEW p \in Nodes, ProcessUpdate(n, p) PROVE LoopInv'
  <2> DEFINE m == wire[<<p, n>>]
  <2>1. /\ <<p, n>> \in DOMAIN wire /\ <<p, n>> \in Links /\ UNCHANGED <<up, failures>>
        /\ DOMAIN wire' = DOMAIN wire \ {<<p, n>>}
        /\ \A l \in DOMAIN wire' : wire'[l] = wire[l]
        /\ heard' = [heard EXCEPT ![n] = Put(@, p, "fresh")]
    BY <1>3, <1>t DEF ProcessUpdate, TypeOK, Drop
  <2>2. m # Absent => Current(<<p, n>>)
    BY <2>1 DEF LoopInv, WireCurrent
  <2>3. \A x \in Nodes : \A q \in DOMAIN heard'[x] : heard'[x][q] = "fresh"
    BY <2>1, <1>t DEF LoopInv, NoFailures, Put, TypeOK
  <2>4. CASE route' = route
    <3>1. RoutesFloor' /\ Descending' /\ WireCurrent'
      BY <2>1, <2>4, WireKeeps DEF WireCurrent
    <3> QED
      BY <1>t, <2>1, <2>3, <2>4, <3>1 DEF LoopInv, NoFailures
  <2>5. CASE m >= INFINITY /\ Via(n, p)
    <3>1. m # Absent
      BY <2>5, Assumed DEF Assumptions
    <3> QED
      BY <2>2, <2>5, <3>1 DEF Current
  <2>6. CASE /\ m \in Nat /\ m < INFINITY /\ ShouldUpdate(n, p, m + HopCost)
             /\ route' = Put(route, n, Learned(m + HopCost, p))
    <3> DEFINE r == Learned(m + HopCost, p)
    <3>1. /\ HopCost \in Nat /\ HopCost > 0 /\ ConnectedMetric \in Nat /\ n # p
          /\ m >= ConnectedMetric /\ p \in DOMAIN route /\ m >= route[p].metric
          /\ Via(n, p) => m + HopCost <= route[n].metric
      BY <2>1, <2>2, <2>6, Assumed DEF Current, Assumptions
    <3>2. /\ r \in DvRoute /\ r.metric = m + HopCost /\ r.learned /\ r.next_hop = p
          /\ r.hold = "no"
      BY <2>6, <3>1 DEF Learned, DvRoute
    <3>3. \A x \in DOMAIN route : route[x].metric \in Nat /\ route[x].learned \in BOOLEAN
      BY <1>t DEF TypeOK, DvRoute
    <3>4. n \in DOMAIN route => m + HopCost <= route[n].metric
      <4>1. CASE n \in DOMAIN route /\ route[n].learned
        BY <2>6, <3>1, <3>3, <4>1 DEF ShouldUpdate, Via
      <4>2. CASE n \in DOMAIN route /\ ~ route[n].learned
        BY <2>6, <3>1, <3>3, <4>2 DEF ShouldUpdate, LoopInv, RoutesFloor
      <4> QED
        BY <3>3, <4>1, <4>2
    <3>5. m + HopCost >= ConnectedMetric /\ m + HopCost >= route[p].metric + HopCost
      BY <2>6, <3>1, <3>3
    <3> HIDE DEF r, m
    <3>6. /\ RoutesFloor' /\ Descending'
          /\ \A l \in DOMAIN wire :
               (/\ wire[l] # Absent /\ wire'[l] = wire[l] /\ l \in Links
                /\ ~ (l[2] = n /\ r.next_hop = l[1])) => Current(l)'
      <4>1. route' = Put(route, n, r)
        BY <2>6 DEF r
      <4> QED
        BY <3>1, <3>2, <3>4, <3>5, <4>1, Improves
    <3>7. WireCurrent'
      <4> SUFFICES ASSUME NEW l \in DOMAIN wire', wire'[l] # Absent PROVE Current(l)'
        BY DEF WireCurrent
      <4>1. l \in DOMAIN wire /\ l \in Links /\ wire'[l] = wire[l] /\ l # <<p, n>>
        BY <2>1, <1>t DEF TypeOK
      <4>2. ~ (l[2] = n /\ r.next_hop = l[1])
        BY <3>2, <4>1, Assumed DEF Assumptions
      <4> QED
        BY <3>6, <4>1, <4>2
    <3>8. NoFailures'
      <4>1. \A x \in DOMAIN route' : route'[x].hold = "no"
        BY <2>6, <3>2 DEF LoopInv, NoFailures, Put, r
      <4> QED
        BY <2>1, <2>3, <4>1 DEF LoopInv, NoFailures
    <3> QED
      BY <1>t, <3>6, <3>7, <3>8 DEF LoopInv
  <2> QED
    BY <1>3, <1>t, <2>4, <2>5, <2>6, ProcessedRoute
<1>4. ASSUME NEW n \in Nodes, ExpireStaleRoutes(n) PROVE FALSE
  <2>1. route[n].hold = "no" /\ StalePeers(n) = {}
    BY <1>4 DEF ExpireStaleRoutes, LoopInv, NoFailures, StalePeers
  <2> QED
    BY <1>4, <2>1 DEF ExpireStaleRoutes, Expires
<1>5. ASSUME NEW n \in Nodes, NEW p \in Nodes, RemovePeer(n, p) \/ GoStale(n, p) PROVE FALSE
  BY <1>5, <1>f DEF RemovePeer, GoStale, LoopInv, NoFailures
<1>6. ASSUME NEW n \in Nodes, HoldDownEnds(n) \/ Crash(n) \/ Restart(n) PROVE FALSE
  BY <1>6, <1>f DEF HoldDownEnds, Crash, Restart, LoopInv, NoFailures
<1>7. ASSUME NEW l \in Links, Lose(l) PROVE FALSE
  BY <1>7, <1>f, Assumed DEF Lose, LoopInv, NoFailures, Assumptions
<1> QED
  BY <1>u, <1>1, <1>2, <1>3, <1>4, <1>5, <1>6, <1>7 DEF Next

(* Forwarding never loops in a network without failures, whatever order    *)
(* updates are built, delivered and processed in: the metric falls along   *)
(* the next hops that process_update installs.                             *)
THEOREM LoopFree == ASSUME MaxFailures = 0 PROVE Spec => []Descending
<1>1. Init => LoopInv
  BY InitType DEF Init, LoopInv, NoFailures, RoutesFloor, WireCurrent, Descending
<1>2. LoopInv /\ [Next]_vars => LoopInv'
  BY NextLoop
<1>3. LoopInv => Descending
  BY DEF LoopInv
<1> QED
  BY <1>1, <1>2, <1>3, PTL DEF Spec
-----------------------------------------------------------------------------
(* Gossip.                                                                 *)
LEMMA GossipConstants ==
    MaxMessages \in Nat /\ MaxSent \in Nat /\ MaxVerdicts \in Nat /\ MaxIncarnation \in Nat
  BY MeshAssumption DEF G!Constants

(* A view with an entry put in or a state overwritten is a view.           *)
LEMMA ViewType ==
    ASSUME NEW v, G!IsView(v), NEW d \in Members, NEW s \in G!MemberState
    PROVE  /\ G!IsView(G!Put(v, d, G!Newcomer))
           /\ d \in DOMAIN v => /\ G!IsView([v EXCEPT ![d].state = s])
                                /\ DOMAIN [v EXCEPT ![d].state = s] = DOMAIN v
<1>1. G!Newcomer \in G!Member
  BY DEF G!Newcomer, G!Member, G!MemberState
<1>2. G!IsView(G!Put(v, d, G!Newcomer))
  BY <1>1 DEF G!IsView, G!Put
<1>3. ASSUME d \in DOMAIN v PROVE [v[d] EXCEPT !.state = s] \in G!Member
  BY <1>3 DEF G!IsView, G!Member
<1> QED
  BY <1>2, <1>3 DEF G!IsView

(* process_message, MembershipUpdate: merging two views gives a view.      *)
LEMMA MergeType ==
    ASSUME G!TypeOK, NEW n \in Members, NEW theirs, G!IsView(theirs)
    PROVE  G!IsView(G!Merge(n, theirs))
  BY DEF G!TypeOK, G!IsView, G!Merge, G!News

-----------------------------------------------------------------------------
(* What every message has; an update carries a view.                       *)
MessageOK(m) ==
    /\ m.from \in Members /\ m.to \in Members
    /\ m.type = "Ping" => m.about # m.from
    /\ IF m.type = "MembershipUpdate" THEN G!IsView(m.about) ELSE m.about \in Members

\* A message of the right shape may be sent.
LEMMA SendType ==
    ASSUME G!TypeOK, NEW m, MessageOK(m), G!Send(m) PROVE G!TypeOK'
  BY GossipConstants DEF G!TypeOK, G!Send, MessageOK, G!IsView

\* Receiving leaves well-formed messages and touches no counter of the caller.
LEMMA ReceiveType ==
    ASSUME G!TypeOK, NEW m, NEW replies, G!Receive(m, replies),
           \A r \in replies : MessageOK(r)
    PROVE  /\ \A x \in net' : MessageOK(x)
           /\ m \in net /\ MessageOK(m) /\ m.to \in running /\ m.to \in Members
           /\ running' \subseteq Members /\ condemned' \subseteq Members
           /\ sent' \in 0 .. MaxSent /\ verdicts' \in 0 .. MaxVerdicts
  BY DEF G!TypeOK, G!Receive, MessageOK

\* A verdict overwrites the state of one entry.
LEMMA VerdictType ==
    ASSUME G!TypeOK, NEW n \in Members, NEW d \in Members, NEW s \in G!MemberState,
           G!Verdict(n, d, s), condemned' \subseteq Members
    PROVE  G!TypeOK'
<1>1. DOMAIN members' = Members /\ \A x \in Members : G!IsView(members'[x])
  BY ViewType DEF G!TypeOK, G!Verdict
<1>2. verdicts' \in 0 .. MaxVerdicts
  BY GossipConstants DEF G!TypeOK, G!Verdict
<1> QED
  BY <1>1, <1>2 DEF G!TypeOK, G!Verdict, G!IsView

\* The empty tables are well formed.
LEMMA GossipInitType == G!Init => G!TypeOK
  BY GossipConstants DEF G!Init, G!TypeOK, G!IsView

\* Every step keeps the shapes.
LEMMA GossipNextType == G!TypeOK /\ [G!Next]_gossip_vars => G!TypeOK'
<1> SUFFICES ASSUME G!TypeOK, [G!Next]_gossip_vars PROVE G!TypeOK'
  OBVIOUS
<1>1. CASE UNCHANGED gossip_vars
  BY <1>1 DEF gossip_vars, G!TypeOK, G!IsView
<1>2. ASSUME NEW n \in Members, G!Join(n) PROVE G!TypeOK'
  <2>1. DOMAIN members' = Members /\ \A x \in Members : G!IsView(members'[x])
    BY <1>2, ViewType DEF G!TypeOK, G!Join, G!MemberState
  <2> QED
    BY <1>2, <2>1 DEF G!TypeOK, G!Join, G!IsView
<1>3. ASSUME NEW n \in Members, G!BuildPing(n) PROVE G!TypeOK'
  <2> PICK d \in G!AlivePeers(n) : G!Send(G!Ping(n, d, d))
    BY <1>3 DEF G!BuildPing
  <2>1. MessageOK(G!Ping(n, d, d))
    BY DEF G!AlivePeers, G!TypeOK, G!IsView, MessageOK, G!Ping
  <2> QED
    BY <2>1, SendType
<1>4. ASSUME NEW n \in Members, G!Crash(n) PROVE G!TypeOK'
  BY <1>4 DEF G!TypeOK, G!Crash, G!IsView
<1>5. ASSUME NEW n \in Members, NEW d \in Members, G!AddMember(n, d) PROVE G!TypeOK'
  <2>1. DOMAIN members' = Members /\ \A x \in Members : G!IsView(members'[x])
    BY <1>5, ViewType DEF G!TypeOK, G!AddMember, G!MemberState
  <2> QED
    BY <1>5, <2>1 DEF G!TypeOK, G!AddMember, G!IsView
<1>6. ASSUME NEW n \in Members, NEW d \in Members, G!BuildMembershipUpdate(n, d) PROVE G!TypeOK'
  <2>1. MessageOK(G!Update(n, d))
    BY DEF MessageOK, G!Update, G!TypeOK
  <2> QED
    BY <1>6, <2>1, SendType DEF G!BuildMembershipUpdate
<1>7. ASSUME NEW n \in Members, NEW d \in Members, G!MarkSuspect(n, d) PROVE G!TypeOK'
  BY <1>7, VerdictType DEF G!MarkSuspect, G!MemberState, G!TypeOK
<1>8. ASSUME NEW n \in Members, NEW d \in Members, G!MarkDead(n, d) PROVE G!TypeOK'
  BY <1>8, VerdictType DEF G!MarkDead, G!MemberState, G!TypeOK
<1>9. ASSUME NEW n \in Members, NEW d \in Members, NEW h \in Members, G!BuildIndirectPing(n, h, d)
      PROVE G!TypeOK'
  <2>1. MessageOK(G!IndirectPing(n, h, d))
    BY DEF MessageOK, G!IndirectPing
  <2> QED
    BY <1>9, <2>1, SendType DEF G!BuildIndirectPing
<1>10. ASSUME NEW m \in net, G!ProcessPing(m) PROVE G!TypeOK'
  <2> DEFINE replies == IF m.about = m.to THEN {G!Ack(m.to, m.from)} ELSE {}
  <2>1. \A r \in replies : MessageOK(r)
    BY DEF G!TypeOK, MessageOK, G!Ack
  <2>2. G!Receive(m, replies) /\ UNCHANGED <<members, incarnation>>
    BY <1>10 DEF G!ProcessPing
  <2> QED
    BY <2>1, <2>2, ReceiveType DEF G!TypeOK, MessageOK, G!IsView
<1>11. ASSUME NEW m \in net, G!ProcessIndirectPing(m) PROVE G!TypeOK'
  <2> DEFINE replies == IF m.about # m.to THEN {G!Ping(m.to, m.about, m.about)} ELSE {}
  <2>1. \A r \in replies : MessageOK(r)
    BY <1>11 DEF G!ProcessIndirectPing, G!TypeOK, MessageOK, G!Ping
  <2>2. G!Receive(m, replies) /\ UNCHANGED <<members, incarnation>>
    BY <1>11 DEF G!ProcessIndirectPing
  <2> QED
    BY <2>1, <2>2, ReceiveType DEF G!TypeOK, MessageOK, G!IsView
<1>12. ASSUME NEW m \in net, G!ProcessAck(m) PROVE G!TypeOK'
  <2>1. G!Receive(m, {}) /\ UNCHANGED incarnation
    BY <1>12 DEF G!ProcessAck
  <2>2. m.to \in Members /\ m.about \in Members
    BY <1>12 DEF G!ProcessAck, G!TypeOK
  <2>3. DOMAIN members' = Members /\ \A x \in Members : G!IsView(members'[x])
    BY <1>12, <2>2, ViewType DEF G!ProcessAck, G!TypeOK, G!MemberState
  <2> QED
    BY <2>1, <2>3, ReceiveType DEF G!TypeOK, MessageOK, G!IsView
<1>13. ASSUME NEW m \in net, G!ProcessUpdate(m) PROVE G!TypeOK'
  <2>1. G!Receive(m, {})
    BY <1>13 DEF G!ProcessUpdate
  <2>2. m.to \in Members /\ G!IsView(m.about)
    BY <1>13 DEF G!ProcessUpdate, G!TypeOK
  <2>3. DOMAIN members' = Members /\ \A x \in Members : G!IsView(members'[x])
    BY <1>13, <2>2, MergeType DEF G!ProcessUpdate, G!TypeOK
  <2>4. incarnation' \in [Members -> 0 .. MaxIncarnation]
    BY <1>13, <2>2, GossipConstants DEF G!ProcessUpdate, G!TypeOK
  <2> QED
    BY <2>1, <2>3, <2>4, ReceiveType DEF G!TypeOK, MessageOK, G!IsView
<1>14. ASSUME NEW m \in net, G!Lose(m) PROVE G!TypeOK'
  BY <1>14 DEF G!TypeOK, G!Lose, G!IsView
<1> QED
  BY <1>1, <1>2, <1>3, <1>4, <1>5, <1>6, <1>7, <1>8, <1>9, <1>10, <1>11, <1>12, <1>13, <1>14
  DEF G!Next

-----------------------------------------------------------------------------
(* What a view may say: nothing has an incarnation but the first, since    *)
(* nobody spreads its own counter, and the dead were condemned.            *)
Sober(v) == \A d \in DOMAIN v :
    v[d].incarnation = 0 /\ (v[d].state = "Dead" => d \in condemned)

GossipInv ==
    /\ \A n \in Members : Sober(members[n])
    /\ \A m \in net : m.type = "MembershipUpdate" => Sober(m.about)
    /\ G!BumpJustified
    /\ G!SelfAlive

\* Nothing is known at first.
LEMMA InitGossip == G!Init => GossipInv
  BY GossipConstants DEF G!Init, GossipInv, Sober, G!BumpJustified, G!SelfAlive

\* Sending adds a message whose view, if it has one, is the sender's.
LEMMA SendGossip ==
    ASSUME G!TypeOK, GossipInv, NEW m, G!Send(m),
           m.type = "MembershipUpdate" => Sober(m.about)
    PROVE  GossipInv'
  BY DEF G!Send, GossipInv, Sober, G!BumpJustified, G!SelfAlive

\* Replies carry no view.
LEMMA ReceiveGossip ==
    ASSUME GossipInv, NEW m, NEW replies, G!Receive(m, replies),
           \A r \in replies : r.type # "MembershipUpdate"
    PROVE  /\ \A x \in net' : x.type = "MembershipUpdate" => Sober(x.about)
           /\ condemned' = condemned
  BY DEF G!Receive, GossipInv

\* Every step keeps views sober.
LEMMA NextGossip == G!TypeOK /\ GossipInv /\ [G!Next]_gossip_vars => GossipInv'
<1> SUFFICES ASSUME G!TypeOK, GossipInv, [G!Next]_gossip_vars PROVE GossipInv'
  OBVIOUS
<1> USE DEF Sober
<1>1. CASE UNCHANGED gossip_vars
  BY <1>1 DEF gossip_vars, GossipInv, G!BumpJustified, G!SelfAlive
<1>2. ASSUME NEW n \in Members, G!Join(n) PROVE GossipInv'
  BY <1>2 DEF G!Join, G!Put, G!Newcomer, G!TypeOK, G!IsView, GossipInv, G!BumpJustified, G!SelfAlive
<1>3. ASSUME NEW n \in Members, G!BuildPing(n) PROVE GossipInv'
  <2> PICK d \in G!AlivePeers(n) : G!Send(G!Ping(n, d, d))
    BY <1>3 DEF G!BuildPing
  <2> QED
    BY SendGossip DEF G!Ping
<1>4. ASSUME NEW n \in Members, G!Crash(n) PROVE GossipInv'
  BY <1>4 DEF G!Crash, GossipInv, G!BumpJustified, G!SelfAlive
<1>5. ASSUME NEW n \in Members, NEW d \in Members, G!AddMember(n, d) PROVE GossipInv'
  BY <1>5 DEF G!AddMember, G!Put, G!Newcomer, G!TypeOK, G!IsView, GossipInv, G!BumpJustified, G!SelfAlive
<1>6. ASSUME NEW n \in Members, NEW d \in Members, G!BuildMembershipUpdate(n, d) PROVE GossipInv'
  BY <1>6, SendGossip DEF G!BuildMembershipUpdate, G!Update, GossipInv
<1>7. ASSUME NEW n \in Members, NEW d \in Members, G!MarkSuspect(n, d) PROVE GossipInv'
  BY <1>7 DEF G!MarkSuspect, G!Verdict, G!TypeOK, G!IsView, G!Member, GossipInv, G!BumpJustified, G!SelfAlive
<1>8. ASSUME NEW n \in Members, NEW d \in Members, G!MarkDead(n, d) PROVE GossipInv'
  BY <1>8 DEF G!MarkDead, G!Verdict, G!TypeOK, G!IsView, G!Member, GossipInv, G!BumpJustified, G!SelfAlive
<1>9. ASSUME NEW n \in Members, NEW d \in Members, NEW h \in Members, G!BuildIndirectPing(n, h, d)
      PROVE GossipInv'
  BY <1>9, SendGossip DEF G!BuildIndirectPing, G!IndirectPing
<1>10. ASSUME NEW m \in net, G!ProcessPing(m) PROVE GossipInv'
  BY <1>10, ReceiveGossip DEF G!ProcessPing, G!Ack, GossipInv, G!BumpJustified, G!SelfAlive
<1>11. ASSUME NEW m \in net, G!ProcessIndirectPing(m) PROVE GossipInv'
  BY <1>11, ReceiveGossip DEF G!ProcessIndirectPing, G!Ping, GossipInv, G!BumpJustified, G!SelfAlive
<1>12. ASSUME NEW m \in net, G!ProcessAck(m) PROVE GossipInv'
  <2>1. /\ \A x \in net' : x.type = "MembershipUpdate" => Sober(x.about)
        /\ condemned' = condemned /\ incarnation' = incarnation
    BY <1>12, ReceiveGossip DEF G!ProcessAck
  <2>2. \A n \in Members : Sober(members'[n])
    BY <1>12 DEF G!ProcessAck, G!TypeOK, G!IsView, G!Member, GossipInv
  <2>3. G!SelfAlive'
    BY <1>12 DEF G!ProcessAck, G!TypeOK, G!IsView, G!Member, GossipInv, G!SelfAlive
  <2> QED
    BY <2>1, <2>2, <2>3 DEF GossipInv, G!BumpJustified
<1>13. ASSUME NEW m \in net, G!ProcessUpdate(m) PROVE GossipInv'
  <2>1. /\ \A x \in net' : x.type = "MembershipUpdate" => Sober(x.about)
        /\ condemned' = condemned /\ m.to \in Members /\ G!IsView(m.about) /\ Sober(m.about)
    BY <1>13, ReceiveGossip DEF G!ProcessUpdate, G!TypeOK, GossipInv
  <2>2. /\ \A n \in Members \ {m.to} : members'[n] = members[n]
        /\ members'[m.to] = G!Merge(m.to, m.about)
    BY <1>13, <2>1 DEF G!ProcessUpdate, G!TypeOK
  <2>3. \A d \in DOMAIN G!Merge(m.to, m.about) :
            \/ d \in DOMAIN members[m.to] /\ G!Merge(m.to, m.about)[d] = members[m.to][d]
            \/ d \in DOMAIN m.about \ {m.to} /\ G!Merge(m.to, m.about)[d] = m.about[d]
    BY DEF G!Merge, G!News
  <2>4. \A n \in Members : Sober(members'[n])
    BY <2>1, <2>2, <2>3 DEF GossipInv
  <2>5. G!SelfAlive'
    BY <2>1, <2>2, <2>3 DEF GossipInv, G!SelfAlive
  <2>6. G!BumpJustified'
    BY <1>13, <2>1 DEF G!ProcessUpdate, G!Rumour, G!TypeOK, G!IsView, GossipInv, G!BumpJustified
  <2> QED
    BY <2>1, <2>4, <2>5, <2>6 DEF GossipInv
<1>14. ASSUME NEW m \in net, G!Lose(m) PROVE GossipInv'
  BY <1>14 DEF G!Lose, GossipInv, G!BumpJustified, G!SelfAlive
<1> QED
  BY <1>1, <1>2, <1>3, <1>4, <1>5, <1>6, <1>7, <1>8, <1>9, <1>10, <1>11, <1>12, <1>13, <1>14
  DEF G!Next

-----------------------------------------------------------------------------
\* Once d is down and silent, the step does not raise it for n.
StaysDown ==
    \A n, d \in Members :
        /\ d \notin running
        /\ ~ \E m \in net : m.type = "Ack" /\ m.about = d
        /\ d \in DOMAIN members[n] /\ members[n][d].state = "Dead"
        => members'[n][d].state = "Dead" \/ members'[n][d].state = "Suspect"

\* The strict comparison of incarnations refuses every old rumour.
LEMMA StepStaysDown == G!TypeOK /\ GossipInv /\ [G!Next]_gossip_vars => StaysDown
<1> SUFFICES ASSUME G!TypeOK, GossipInv, [G!Next]_gossip_vars, NEW n \in Members, NEW d \in Members,
                    d \notin running, ~ \E m \in net : m.type = "Ack" /\ m.about = d,
                    d \in DOMAIN members[n], members[n][d].state = "Dead"
             PROVE  members'[n][d].state = "Dead" \/ members'[n][d].state = "Suspect"
  BY DEF StaysDown
<1> DEFINE Goal == members'[n][d].state = "Dead" \/ members'[n][d].state = "Suspect"
<1>1. CASE UNCHANGED members
  BY <1>1
<1>2. ASSUME NEW x \in Members, G!Join(x) PROVE Goal
  BY <1>2 DEF G!Join, G!Put, G!TypeOK
<1>3. ASSUME NEW x \in Members, NEW y \in Members, G!AddMember(x, y) PROVE Goal
  BY <1>3 DEF G!AddMember, G!Put, G!TypeOK
<1>4. ASSUME NEW x \in Members, NEW y \in Members, G!MarkSuspect(x, y) \/ G!MarkDead(x, y) PROVE Goal
  BY <1>4 DEF G!MarkSuspect, G!MarkDead, G!Verdict, G!TypeOK, G!IsView, G!Member
<1>5. ASSUME NEW m \in net, G!ProcessAck(m) PROVE Goal
  BY <1>5 DEF G!ProcessAck, G!TypeOK, G!IsView, G!Member
<1>6. ASSUME NEW m \in net, G!ProcessUpdate(m) PROVE Goal
  <2>1. Sober(m.about) /\ Sober(members[n]) /\ m.to \in Members
    BY <1>6 DEF G!ProcessUpdate, G!TypeOK, GossipInv
  <2>2. ~ (d \in DOMAIN m.about /\ G!News(members[n], d, m.about[d]))
    BY <2>1 DEF Sober, G!News
  <2>3. G!Merge(n, m.about)[d] = members[n][d]
    BY <2>2 DEF G!Merge
  <2> QED
    BY <1>6, <2>1, <2>3 DEF G!ProcessUpdate, G!TypeOK
<1> QED
  BY <1>1, <1>2, <1>3, <1>4, <1>5, <1>6
  DEF G!Next, gossip_vars, G!BuildPing, G!BuildIndirectPing, G!BuildMembershipUpdate, G!Send, G!Crash, G!Lose,
      G!ProcessPing, G!ProcessIndirectPing

-----------------------------------------------------------------------------
\* The tables start empty.
LEMMA BabelInitType == B!Constants /\ B!Init => B!TypeOK
  BY DEF B!Constants, B!Init, B!TypeOK, B!IsMap, B!Empty

(* process_update, an advertisement: the entry it makes is a route.        *)
LEMMA BabelEntryType ==
    ASSUME NEW m \in B!Message, m.metric # BABEL_INFINITY
    PROVE  [seqno |-> m.seqno, metric |-> m.metric, retracted |-> FALSE,
            feasibility_distance |-> m.feasibility_distance] \in B!Route
  BY DEF B!Message, B!Route

\* What is selected is a part of the table.
LEMMA BabelSelectedType ==
    ASSUME NEW table, B!IsMap(table, Routers, B!Route), NEW s \in B!Selected(table)
    PROVE  B!IsMap(s, Routers, B!Route)
  BY DEF B!Selected, B!Best, B!IsMap

\* Every step keeps the shapes of the tables.
LEMMA BabelNextType == B!Constants /\ B!TypeOK /\ [B!Next]_babel_vars => B!TypeOK'
<1> SUFFICES ASSUME B!Constants, B!TypeOK, [B!Next]_babel_vars PROVE B!TypeOK'
  OBVIOUS
<1>1. CASE UNCHANGED babel_vars
  BY <1>1 DEF babel_vars, B!TypeOK, B!IsMap
<1>2. ASSUME NEW r \in Routers, NEW metric \in Metrics \cup {BABEL_INFINITY},
             NEW distance \in Metrics, B!BuildUpdate(r, metric, distance)
      PROVE B!TypeOK'
  <2>1. B!NextSeq(seqno[r]) \in 0 .. SeqModulus - 1
    BY DEF B!NextSeq, B!TypeOK, B!Constants
  <2>2. updates' \subseteq B!Message
    BY <1>2, <2>1 DEF B!BuildUpdate, B!Message, B!TypeOK
  <2>3. seqno' \in [Routers -> 0 .. SeqModulus - 1] /\ built' \in 0 .. MaxBuilt
    BY <1>2, <2>1 DEF B!BuildUpdate, B!TypeOK, B!Constants
  <2> QED
    BY <1>2, <2>2, <2>3 DEF B!BuildUpdate, B!TypeOK, B!IsMap
<1>3. ASSUME NEW r \in Routers, B!ProcessHello(r) \/ B!ProcessIhu(r) PROVE B!TypeOK'
  BY <1>3 DEF B!ProcessHello, B!ProcessIhu, B!Put, B!TypeOK, B!IsMap
<1>4. ASSUME NEW r \in Routers, B!RemoveNeighbor(r) PROVE B!TypeOK'
  <2>1. \A x \in DOMAIN route_table : route_table'[x] \in B!Route
    BY <1>4 DEF B!RemoveNeighbor, B!TypeOK, B!IsMap, B!Route
  <2> QED
    BY <1>4, <2>1 DEF B!RemoveNeighbor, B!Drop, B!TypeOK, B!IsMap
<1>5. ASSUME NEW m \in updates, B!Retract(m) PROVE B!TypeOK'
  BY <1>5 DEF B!Retract, B!Receive, B!Drop, B!TypeOK, B!IsMap, B!Constants
<1>6. ASSUME NEW m \in updates, B!ProcessUpdate(m) PROVE B!TypeOK'
  <2>1. m \in B!Message /\ m.metric # BABEL_INFINITY
    BY <1>6 DEF B!ProcessUpdate, B!TypeOK
  <2>2. B!IsMap(route_table', Routers, B!Route)
    BY <1>6, <2>1, BabelEntryType DEF B!ProcessUpdate, B!Put, B!TypeOK, B!IsMap, B!Message
  <2>3. B!IsMap(selected', Routers, B!Route)
    BY <1>6, <2>2, BabelSelectedType DEF B!ProcessUpdate, B!TypeOK, B!IsMap
  <2> QED
    BY <1>6, <2>2, <2>3 DEF B!ProcessUpdate, B!Receive, B!TypeOK, B!IsMap
<1>7. ASSUME NEW m \in updates, B!Lose(m) PROVE B!TypeOK'
  BY <1>7 DEF B!Lose, B!TypeOK, B!IsMap
<1>8. CASE B!RemoveSelected
  BY <1>8 DEF B!RemoveSelected, B!Empty, B!TypeOK, B!IsMap, B!Constants
<1> QED
  BY <1>1, <1>2, <1>3, <1>4, <1>5, <1>6, <1>7, <1>8 DEF B!Next

-----------------------------------------------------------------------------
(* The feasibility check refuses a second originator, so the table never   *)
(* has two.                                                                *)
OneOriginator == \A r, q \in DOMAIN route_table : r = q
BabelInv == OneOriginator /\ B!SelectedBacked

\* The tables start empty.
LEMMA InitBacked == B!Init => BabelInv
  BY DEF B!Init, B!Empty, BabelInv, OneOriginator, B!SelectedBacked

\* A selection made from a table of one fresh route is that route.
LEMMA SelectedOnly ==
    ASSUME NEW table, NEW r, DOMAIN table = {r}, table[r] \in B!Route,
           ~ table[r].retracted, NEW s \in B!Selected(table)
    PROVE  DOMAIN s = {r} /\ s[r] = B!Fresh(table[r])
<1>1. DOMAIN s = {r} /\ s[r] = table[r]
  BY DEF B!Selected, B!Best
<1>2. B!Fresh(table[r]) = table[r]
  BY DEF B!Fresh, B!Route
<1> QED
  BY <1>1, <1>2

\* Every step keeps one originator, and the selection its route.
LEMMA NextBacked == B!Constants /\ B!TypeOK /\ BabelInv /\ [B!Next]_babel_vars => BabelInv'
<1> SUFFICES ASSUME B!Constants, B!TypeOK, BabelInv, [B!Next]_babel_vars PROVE BabelInv'
  OBVIOUS
<1> USE DEF BabelInv, OneOriginator
<1>1. CASE UNCHANGED <<route_table, selected, removing>>
  BY <1>1 DEF B!SelectedBacked
<1>2. ASSUME NEW r \in Routers, B!RemoveNeighbor(r) PROVE BabelInv'
  <2>1. \A x \in DOMAIN route_table :
            B!Fresh(route_table'[x]) = B!Fresh(route_table[x])
    BY <1>2 DEF B!RemoveNeighbor, B!Fresh, B!TypeOK, B!IsMap, B!Route
  <2>2. DOMAIN route_table' = DOMAIN route_table /\ UNCHANGED <<selected, removing>>
    BY <1>2 DEF B!RemoveNeighbor
  <2> QED
    BY <2>1, <2>2 DEF B!SelectedBacked
<1>3. ASSUME NEW m \in updates, B!Retract(m) PROVE BabelInv'
  <2>1. CASE DOMAIN route_table' = {}
    <3>1. removing' # 0
      BY <1>3, <2>1 DEF B!Retract, B!TypeOK, B!Constants
    <3> QED
      BY <2>1, <3>1 DEF B!SelectedBacked
  <2>2. CASE DOMAIN route_table' # {}
    <3>1. route_table' = route_table /\ UNCHANGED <<selected, removing>>
      BY <1>3, <2>2 DEF B!Retract, B!Drop, B!TypeOK, B!IsMap
    <3> QED
      BY <3>1 DEF B!SelectedBacked
  <2> QED
    BY <2>1, <2>2
<1>4. ASSUME NEW m \in updates, B!ProcessUpdate(m) PROVE BabelInv'
  <2>1. CASE UNCHANGED <<route_table, selected>>
    BY <1>4, <2>1 DEF B!ProcessUpdate, B!SelectedBacked
  <2>2. CASE ~ UNCHANGED <<route_table, selected>>
    <3> DEFINE entry == [seqno |-> m.seqno, metric |-> m.metric, retracted |-> FALSE,
                         feasibility_distance |-> m.feasibility_distance]
    <3>1. /\ B!Feasible(m) \/ DOMAIN route_table = {}
          /\ route_table' = B!Put(route_table, m.router_id, entry)
          /\ selected' \in B!Selected(route_table') /\ UNCHANGED removing
      BY <1>4, <2>2 DEF B!ProcessUpdate
    <3>2. DOMAIN route_table' = {m.router_id} /\ route_table'[m.router_id] = entry
      BY <3>1 DEF B!Feasible, B!Put
    <3>3. entry \in B!Route /\ ~ entry.retracted
      BY <1>4, BabelEntryType DEF B!ProcessUpdate, B!TypeOK
    <3> HIDE DEF entry
    <3>4. /\ DOMAIN route_table' = {m.router_id}
          /\ route_table'[m.router_id] \in B!Route /\ ~ route_table'[m.router_id].retracted
          /\ selected' \in B!Selected(route_table')
      BY <3>1, <3>2, <3>3
    <3>5. /\ DOMAIN selected' = {m.router_id}
          /\ selected'[m.router_id] = B!Fresh(route_table'[m.router_id])
      BY <3>4, SelectedOnly
    <3> QED
      BY <3>2, <3>5 DEF B!SelectedBacked
  <2> QED
    BY <2>1, <2>2
<1>5. CASE B!RemoveSelected
  BY <1>5 DEF B!RemoveSelected, B!Empty, B!SelectedBacked
<1> QED
  BY <1>1, <1>2, <1>3, <1>4, <1>5
  DEF B!Next, babel_vars, B!BuildUpdate, B!ProcessHello, B!ProcessIhu, B!Lose

-----------------------------------------------------------------------------
\* A step of the composition is a step of the engine that runs and leaves the
\* others alone.
LEMMA Compose ==
  /\ MCInit => G!Init /\ B!Init
  /\ [MCNext]_all_vars => [G!Next]_gossip_vars /\ [B!Next]_babel_vars
  BY DEF MCInit, MCNext, all_vars

MeshInv == G!TypeOK /\ GossipInv /\ B!TypeOK /\ BabelInv
LEMMA MeshInvariant == MCSpec => []MeshInv
<1>0. B!Constants
  BY MeshAssumption
<1>1. MCInit => MeshInv
  BY <1>0, Compose, GossipInitType, InitGossip, BabelInitType, InitBacked DEF MeshInv
<1>2. MeshInv /\ [MCNext]_all_vars => MeshInv'
  BY <1>0, Compose, GossipNextType, NextGossip, BabelNextType, NextBacked DEF MeshInv
<1> QED
  BY <1>1, <1>2, PTL DEF MCSpec

(* Views, counters, messages and tables keep the shapes of the structs, for *)
(* any members, neighbours and modulus.                                    *)
THEOREM MeshTypeCorrect == MCSpec => []MeshTypeOK
<1>1. MeshInv => MeshTypeOK
  BY DEF MeshInv, MeshTypeOK
<1> QED
  BY <1>1, MeshInvariant, PTL

(* A counter moves only for a node that was condemned, however the rumour  *)
(* came (process_message, MembershipUpdate about the receiver).            *)
THEOREM Rumours == MCSpec => []BumpJustified
<1>1. MeshInv => BumpJustified
  BY DEF MeshInv, GossipInv, BumpJustified
<1> QED
  BY <1>1, MeshInvariant, PTL

(* No rumour makes a node doubt itself: the merge skips its own entry, and *)
(* the caller gives no verdict on itself.                                  *)
THEOREM NoSelfDoubt == MCSpec => []SelfAlive
<1>1. MeshInv => SelfAlive
  BY DEF MeshInv, GossipInv, SelfAlive
<1> QED
  BY <1>1, MeshInvariant, PTL

(* No late membership update raises a node that is down (process_message,  *)
(* strict comparison of incarnations).                                     *)
THEOREM HearsayRaisesNoDead == MCSpec => NoResurrection
<1>1. MeshInv /\ [MCNext]_all_vars => [StaysDown]_gossip_vars
  BY Compose, StepStaysDown DEF MeshInv
<1>2. MCSpec => [][StaysDown]_gossip_vars
  BY <1>1, MeshInvariant, PTL DEF MCSpec
<1> QED
  BY <1>2 DEF NoResurrection, G!NoResurrection, StaysDown, gossip_vars, G!vars

(* What the data plane is given is the table's only route (process_update, *)
(* get_routing_table), unless a retraction is between its two locks.       *)
THEOREM Backed == MCSpec => []SelectedBacked
<1>1. MeshInv => SelectedBacked
  BY DEF MeshInv, BabelInv, SelectedBacked
<1> QED
  BY <1>1, MeshInvariant, PTL
=============================================================================
