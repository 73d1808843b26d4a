---------------------------- MODULE DistanceVector -----------------------------
(***************************************************************************)
(* The distance vector engine of the mesh                                  *)
(* (data-plane/src/mesh_routing/distance_vector.rs), one DistanceVector    *)
(* per node, for one destination prefix: the code treats the entries of an *)
(* update, and the routes of a table, independently of each other.         *)
(*                                                                         *)
(* The transport is the caller's: updates built with build_update or       *)
(* build_full_update travel on links that keep their order and hold one    *)
(* update at a time.  Clocks are abstracted to what the code compares:     *)
(* whether a peer has been silent for the timeout and whether a hold-down  *)
(* is over.  peer_tables, seq_num and last_full_exchange are written and   *)
(* never read, and are left out.                                           *)
(*                                                                         *)
(* Operators whose name ends in Mutant are faulty variants of the          *)
(* definition that follows them; no action uses them.                      *)
(***************************************************************************)
EXTENDS Integers, FiniteSets

CONSTANTS
    Nodes,
    Links,           \* ordered pairs of neighbours
    Origins,         \* nodes the prefix is directly connected to
    INFINITY,        \* 16 in the code
    HopCost,         \* hop_cost of every process_update
    ConnectedMetric, \* metric of every add_connected_route
    MaxInFlight,     \* bound: updates under way at a time
    MaxFailures      \* bound: crashes, lost peers and lost updates

ASSUME LinksAssumption == Links \subseteq (Nodes \X Nodes) /\ \A n \in Nodes : <<n, n>> \notin Links
ASSUME OriginsAssumption == Origins \subseteq Nodes
ASSUME MetricAssumption ==
    /\ INFINITY \in Nat /\ HopCost \in Nat \ {0} /\ ConnectedMetric \in Nat
    /\ ConnectedMetric < INFINITY
    /\ MaxInFlight \in Nat /\ MaxFailures \in Nat

VARIABLES
    up,        \* nodes that are running
    route,     \* per node that has one: its route to the prefix
    heard,     \* per node: peer -> "fresh" or "stale" (peer_updates)
    wire,      \* per link with an update under way: the metric in it
    failures

vars == <<up, route, heard, wire, failures>>

\* What an update carries when the prefix is not in it.
Absent == -1

Put(f, k, v) == [x \in DOMAIN f \cup {k} |-> IF x = k THEN v ELSE f[x]]
Drop(f, k)   == [x \in DOMAIN f \ {k} |-> f[x]]
IsMap(f, S, T) == DOMAIN f \subseteq S /\ f \in [DOMAIN f -> T]

(* DvRoute.  connected is the negation of learned: nothing sets another    *)
(* flag.  "Route has been poisoned (metric = INFINITY)".  hold is          *)
(* hold_down with its deadline: "no", "running", "over".                   *)
DvRoute ==
    {r \in [metric : Nat, next_hop : Nodes, learned : BOOLEAN, poisoned : BOOLEAN,
            hold : {"no", "running", "over"}] : r.poisoned => r.metric = INFINITY}

Learned(metric, p) ==
    [metric |-> metric, next_hop |-> p, learned |-> TRUE, poisoned |-> FALSE, hold |-> "no"]
PoisonedMutant(r) == [r EXCEPT !.poisoned = TRUE]
Poisoned(r) == [r EXCEPT !.metric = INFINITY, !.poisoned = TRUE]

Fail == failures < MaxFailures /\ failures' = failures + 1

Init ==
    /\ up = Nodes
    /\ route = [n \in {} |-> 0]
    /\ heard = [n \in Nodes |-> [p \in {} |-> 0]]
    /\ wire = [l \in {} |-> 0]
    /\ failures = 0

-----------------------------------------------------------------------------
AddConnectedRoute(n) ==
    /\ n \in up \cap Origins
    /\ route' = Put(route, n, [metric |-> ConnectedMetric, next_hop |-> n,
                               learned |-> FALSE, poisoned |-> FALSE, hold |-> "no"])
    /\ UNCHANGED <<up, heard, wire, failures>>

(* build_update: dead routes are skipped, a route through the receiver is  *)
(* sent with metric INFINITY (split horizon with poison reverse).          *)
UpdateFor(n, p) ==
    IF n \notin DOMAIN route \/ route[n].metric >= INFINITY THEN Absent
    ELSE IF route[n].next_hop = p THEN INFINITY
    ELSE route[n].metric

(* build_full_update: no split horizon.                                    *)
FullUpdate(n) ==
    IF n \in DOMAIN route /\ route[n].metric < INFINITY THEN route[n].metric ELSE Absent

\* The link from n to p takes another update.
Ready(n, p) ==
    /\ n \in up /\ <<n, p>> \in Links \ DOMAIN wire
    /\ Cardinality(DOMAIN wire) < MaxInFlight

SendUpdate(n, p) ==
    /\ Ready(n, p)
    /\ wire' = Put(wire, <<n, p>>, UpdateFor(n, p))
    /\ UNCHANGED <<up, route, heard, failures>>

SendFull(n, p) ==
    /\ Ready(n, p)
    /\ wire' = Put(wire, <<n, p>>, FullUpdate(n))
    /\ UNCHANGED <<up, route, heard, failures>>

-----------------------------------------------------------------------------
ShouldUpdateMutant(n, p, metric) == n \notin DOMAIN route \/ route[n].metric # metric
ShouldUpdateSticky(n, p, metric) ==     \* never leaves the first next hop
    n \notin DOMAIN route \/ (route[n].next_hop = p /\ route[n].metric # metric)
(* process_update, the Bellman-Ford condition.                             *)
ShouldUpdate(n, p, metric) ==
    \/ n \notin DOMAIN route
    \/ route[n].next_hop = p /\ metric # route[n].metric
    \/ route[n].next_hop # p /\ metric < route[n].metric

UnreachableMutant(m) == FALSE
Unreachable(m) == m >= INFINITY

Via(n, p) == n \in DOMAIN route /\ route[n].next_hop = p /\ route[n].learned

(* process_update at n of the update from p.                               *)
ProcessUpdate(n, p) ==
    /\ n \in up /\ <<p, n>> \in DOMAIN wire
    /\ wire' = Drop(wire, <<p, n>>)
    /\ heard' = [heard EXCEPT ![n] = Put(@, p, "fresh")]
    /\ LET m == wire[<<p, n>>] IN
       \/ m = Absent /\ UNCHANGED route
       \/ /\ m # Absent /\ Unreachable(m)
          /\ route' = IF Via(n, p)
                      THEN [route EXCEPT ![n] = Poisoned(@)]
                      ELSE route
       \/ /\ m # Absent /\ ~ Unreachable(m)
          /\ route' = IF ShouldUpdate(n, p, m + HopCost)
                      THEN Put(route, n, Learned(m + HopCost, p))
                      ELSE route
    /\ UNCHANGED <<up, failures>>

-----------------------------------------------------------------------------
StalePeers(n) == {p \in DOMAIN heard[n] : heard[n][p] = "stale"}

ExpiresMutant(r) == r.hold # "running"      \* hold_down itself is not looked at
\* retain: the hold-down is on and its deadline has passed.
Expires(r) == r.hold = "over"

(* expire_stale_routes: learned routes through stale peers are poisoned    *)
(* and put in hold-down, again at every call, as the peer stays stale;     *)
(* then routes whose hold-down is over are removed.                        *)
ExpireStaleRoutes(n) ==
    /\ n \in up /\ n \in DOMAIN route
    /\ LET r == route[n] IN
       \/ /\ r.learned /\ r.next_hop \in StalePeers(n)
          /\ route' = [route EXCEPT ![n] = [Poisoned(r) EXCEPT !.hold = "running"]]
       \/ /\ ~ (r.learned /\ r.next_hop \in StalePeers(n))
          /\ Expires(r)
          /\ route' = Drop(route, n)
    /\ UNCHANGED <<up, heard, wire, failures>>

(* remove_peer, on disconnect: the peer is forgotten and its routes go     *)
(* into hold-down, with the metric they have.                              *)
RemovePeer(n, p) ==
    /\ n \in up /\ p \in DOMAIN heard[n]
    /\ Fail
    /\ heard' = [heard EXCEPT ![n] = Drop(@, p)]
    /\ route' = IF Via(n, p) THEN [route EXCEPT ![n].hold = "running"] ELSE route
    /\ UNCHANGED <<up, wire>>

-----------------------------------------------------------------------------
(* Time and failures.  A peer falls silent for the timeout when it is down, *)
(* or as a failure of the network.                                         *)
GoStale(n, p) ==
    /\ n \in up /\ p \in DOMAIN heard[n] /\ heard[n][p] = "fresh"
    /\ IF p \in up THEN Fail ELSE <<p, n>> \notin DOMAIN wire /\ UNCHANGED failures
    /\ heard' = [heard EXCEPT ![n][p] = "stale"]
    /\ UNCHANGED <<up, route, wire>>

HoldDownEnds(n) ==
    /\ n \in DOMAIN route /\ route[n].hold = "running"
    /\ route' = [route EXCEPT ![n].hold = "over"]
    /\ UNCHANGED <<up, heard, wire, failures>>

Crash(n) ==
    /\ n \in up /\ Fail
    /\ up' = up \ {n}
    /\ route' = Drop(route, n)
    /\ heard' = [heard EXCEPT ![n] = [p \in {} |-> 0]]
    /\ UNCHANGED wire

Restart(n) ==
    /\ n \notin up
    /\ up' = up \cup {n}
    /\ UNCHANGED <<route, heard, wire, failures>>

Lose(l) ==
    /\ l \in DOMAIN wire
    /\ IF l[2] \in up THEN Fail ELSE UNCHANGED failures
    /\ wire' = Drop(wire, l)
    /\ UNCHANGED <<up, route, heard>>

Next ==
    \/ \E n \in Nodes :
        \/ AddConnectedRoute(n) \/ ExpireStaleRoutes(n) \/ HoldDownEnds(n)
        \/ Crash(n) \/ Restart(n)
        \/ \E p \in Nodes : \/ SendUpdate(n, p) \/ SendFull(n, p) \/ ProcessUpdate(n, p)
                            \/ RemovePeer(n, p) \/ GoStale(n, p)
    \/ \E l \in Links : Lose(l)

Spec == Init /\ [][Next]_vars

(* The driver of the engine keeps exchanging updates (update_interval) and *)
(* expiring routes; time passes.                                           *)
Fairness ==
    /\ \A n \in Nodes : WF_vars(AddConnectedRoute(n)) /\ WF_vars(ExpireStaleRoutes(n))
    /\ \A l \in Links : WF_vars(SendUpdate(l[1], l[2])) /\ WF_vars(ProcessUpdate(l[2], l[1]))
    /\ \A n, p \in Nodes : WF_vars(p \notin up /\ GoStale(n, p))

FairSpec == Spec /\ Fairness

-----------------------------------------------------------------------------
(* Shapes of the tables and of the updates.                                *)
TypeOK ==
    /\ up \subseteq Nodes
    /\ IsMap(route, Nodes, DvRoute) /\ DOMAIN route \subseteq up
    /\ DOMAIN heard = Nodes
    /\ \A n \in Nodes : IsMap(heard[n], Nodes, {"fresh", "stale"})
    /\ IsMap(wire, Links, Nat \cup {Absent})
    /\ failures \in 0 .. MaxFailures

(* Hop count limit: whatever is lost, reordered by a restart or crashes, a *)
(* metric passes INFINITY by less than the cost of a hop, and no update    *)
(* carries more than INFINITY: a loop stops counting there.                *)
MetricBound ==
    /\ \A n \in DOMAIN route : route[n].metric < INFINITY + HopCost
    /\ \A l \in DOMAIN wire : wire[l] <= INFINITY

(* A connected route is never displaced by a learned one, poisoned or      *)
(* expired while its node runs.                                            *)
ConnectedSurvives ==
    [][\A n \in up \cap up' \cap DOMAIN route :
        ~ route[n].learned => n \in DOMAIN route' /\ route'[n] = route[n]]_vars

-----------------------------------------------------------------------------
(* What the documentation says, and the engine does not do.                *)

(* Updates are triggered by a metric change: a neighbour that routes       *)
(* through a node whose own route died hears of it and stops doing so.     *)
DeathPropagates ==
    \A n, p \in Nodes :
        (/\ n \in DOMAIN route /\ p \in DOMAIN route /\ Via(n, p)
         /\ route[n].metric < INFINITY /\ route[p].poisoned)
        ~> ~ (/\ n \in DOMAIN route /\ p \in DOMAIN route /\ Via(n, p)
              /\ route[n].metric < INFINITY /\ route[p].poisoned)

-----------------------------------------------------------------------------
(* A network without failures.                                             *)

(* Forwarding is loop free at every moment: along the next hops the metric *)
(* falls by at least the cost of a hop, whatever updates are under way.    *)
Descending ==
    \A n \in DOMAIN route : route[n].learned =>
        LET p == route[n].next_hop IN
        p \in DOMAIN route /\ route[n].metric >= route[p].metric + HopCost
=============================================================================
