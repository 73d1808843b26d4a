------------------------------- MODULE RouteTable -------------------------------
(* The overlay's route table (data-plane/src/router/mod.rs): routes by CIDR,   *)
(* the groups of equal-cost routes, and the default route, each under a lock.  *)
(* Every operation holds the routes to its end but lookup_ecmp, which has given*)
(* them up when it takes the groups.                                           *)
(*                                                                             *)
(* Operators whose name ends in Mutant are faulty variants of the definition   *)
(* that follows them; no action uses them.                                     *)
EXTENDS Naturals, Sequences, Functions, Lists

CONSTANTS
    Peers, Metrics, Dsts,
    PrefixLen,   \* CIDR -> the length of its prefix
    Covers,      \* destination -> the CIDRs that contain it
    Callers,     \* concurrent callers of lookup_ecmp
    MaxRoutes    \* bound: routes in the table

Cidrs == DOMAIN PrefixLen

\* What the constants stand for: CIDRs of one length do not overlap.
Constants ==
    /\ Metrics \subseteq Nat /\ PrefixLen \in [Cidrs -> 0 .. 32] /\ MaxRoutes \in Nat
    /\ Covers \in [Dsts -> SUBSET Cidrs]
    /\ \A d \in Dsts : \A c, e \in Covers[d] : PrefixLen[c] = PrefixLen[e] => c = e

VARIABLES
    routes,         \* CIDR -> its routes, by metric
    ecmp,           \* CIDR -> [routes, next_idx]
    default_route,  \* a set of one route or none
    lookups,        \* caller of lookup_ecmp between its locks -> CIDR of its best route
    outdated        \* history: CIDRs whose routes changed and left the group as it was

vars == <<routes, ecmp, default_route, lookups, outdated>>

Route == [peer_id : Peers, metric : Metrics, active : BOOLEAN]
Put(f, k, v) == [x \in DOMAIN f \cup {k} |-> IF x = k THEN v ELSE f[x]]
Drop(f, k)   == [x \in DOMAIN f \ {k} |-> f[x]]
Entry(c)     == IF c \in DOMAIN routes THEN routes[c] ELSE <<>>
ByMetric(list) == Sorted(list, [i \in DOMAIN list |-> list[i].metric])
Others(list, peer) == Keep(list, {r \in Route : r.peer_id # peer})

Init ==
    /\ routes = [c \in {} |-> <<>>] /\ ecmp = [c \in {} |-> <<>>]
    /\ default_route = {} /\ lookups = [c \in {} |-> 0] /\ outdated = {}

-----------------------------------------------------------------------------
LeastActiveMutant(list) == Keep(list, {r \in Route : r.active})
LeastActive(list) == Keep(list, {r \in Route : r.metric = list[1].metric /\ r.active})

(* add_route: it replaces the peer's route, and a group is made anew if    *)
(* the least metric is shared by active routes.  A group that is no longer *)
(* justified stays.                                                        *)
AddRoute(cidr, route) ==
    LET entry == ByMetric(Append(Others(Entry(cidr), route.peer_id), route))
        equal == LeastActive(entry) IN
    /\ Len(entry) + SumFunction([c \in DOMAIN routes \ {cidr} |-> Len(routes[c])]) <= MaxRoutes
    /\ routes' = Put(routes, cidr, entry)
    /\ IF Len(equal) > 1
       THEN ecmp' = Put(ecmp, cidr, [routes |-> equal, next_idx |-> 0]) /\ outdated' = outdated \ {cidr}
       ELSE outdated' = outdated \cup {cidr} /\ UNCHANGED ecmp
    /\ UNCHANGED <<default_route, lookups>>

(* remove_route leaves the groups alone.                                   *)
RemoveRoute(cidr, peer) ==
    LET rest == Others(Entry(cidr), peer) IN
    /\ cidr \in DOMAIN routes
    /\ routes' = IF rest = <<>> THEN Drop(routes, cidr) ELSE Put(routes, cidr, rest)
    /\ outdated' = outdated \cup {cidr}
    /\ UNCHANGED <<ecmp, default_route, lookups>>

(* activate_route and deactivate_route write copies of the routes: those   *)
(* that the groups share with the table stay as they are.                  *)
SetActive(peer, active) ==
    /\ routes' = [c \in DOMAIN routes |-> [i \in DOMAIN routes[c] |->
                    IF routes[c][i].peer_id = peer THEN [routes[c][i] EXCEPT !.active = active]
                                                   ELSE routes[c][i]]]
    /\ outdated' = outdated \cup {c \in DOMAIN routes : routes'[c] # routes[c]}
    /\ UNCHANGED <<ecmp, default_route, lookups>>

Resorted(list) == ByMetric(list)
UpdateMetric(cidr, peer, metric) ==
    /\ cidr \in DOMAIN routes
    /\ routes' = [routes EXCEPT ![cidr] = Resorted([i \in DOMAIN @ |->
                    IF @[i].peer_id = peer THEN [@[i] EXCEPT !.metric = metric] ELSE @[i]])]
    /\ outdated' = outdated \cup {cidr}
    /\ UNCHANGED <<ecmp, default_route, lookups>>

Flush ==
    /\ routes' = [c \in {} |-> <<>>] /\ ecmp' = [c \in {} |-> <<>>] /\ outdated' = {}
    /\ UNCHANGED <<default_route, lookups>>

SetDefaultRoute(route) ==
    /\ default_route' = {route}
    /\ UNCHANGED <<routes, ecmp, lookups, outdated>>

-----------------------------------------------------------------------------
\* lookup: the CIDRs it considers (a prefix of length 0 is never longer than the
\* none found so far), the longest of them, and the first active route there.
Matching(dst) == {c \in Covers[dst] \cap DOMAIN routes :
                    PrefixLen[c] > 0 /\ \E i \in DOMAIN routes[c] : routes[c][i].active}
Longest(dst)  == {c \in Matching(dst) : \A e \in Matching(dst) : PrefixLen[e] <= PrefixLen[c]}
FirstActive(c) == Keep(routes[c], {r \in Route : r.active})[1]
Lookup(dst) == IF Matching(dst) = {} THEN default_route ELSE {FirstActive(c) : c \in Longest(dst)}

(* lookup_ecmp: the look-up, then, under the lock of the groups, the turn  *)
(* of the next route of the group.                                         *)
LookupEcmp(c, dst) ==
    /\ c \notin DOMAIN lookups
    /\ \E cidr \in Longest(dst) : lookups' = Put(lookups, c, cidr)
    /\ UNCHANGED <<routes, ecmp, default_route, outdated>>
TakeTurn(c) ==
    /\ c \in DOMAIN lookups
    /\ ecmp' = [g \in DOMAIN ecmp |-> IF g # lookups[c] THEN ecmp[g] ELSE
                   [ecmp[g] EXCEPT !.next_idx = (@ + 1) % Len(ecmp[g].routes)]]
    /\ lookups' = Drop(lookups, c)
    /\ UNCHANGED <<routes, default_route, outdated>>

Next ==
    \/ \E cidr \in Cidrs, peer \in Peers :
           \/ \E metric \in Metrics :
                 \/ AddRoute(cidr, [peer_id |-> peer, metric |-> metric, active |-> TRUE])
                 \/ UpdateMetric(cidr, peer, metric)
           \/ RemoveRoute(cidr, peer)
    \/ \E peer \in Peers : \/ \E active \in BOOLEAN : SetActive(peer, active)
                           \/ SetDefaultRoute([peer_id |-> peer, metric |-> 0, active |-> TRUE])
    \/ \E c \in Callers : (\E dst \in Dsts : LookupEcmp(c, dst)) \/ TakeTurn(c)
    \/ Flush

Spec == Init /\ [][Next]_vars

-----------------------------------------------------------------------------
\* What a table and a group look like.
Elements(list) == {list[i] : i \in DOMAIN list}
OnePerPeer(list) == \A i, j \in DOMAIN list : list[i].peer_id = list[j].peer_id => i = j

(* Shapes.                                                                 *)
TypeOK ==
    /\ Constants
    /\ DOMAIN routes \subseteq Cidrs /\ \A c \in DOMAIN routes : routes[c] \in Seq(Route) \ {<<>>}
    /\ DOMAIN ecmp \subseteq Cidrs
    /\ \A c \in DOMAIN ecmp : ecmp[c].routes \in Seq(Route) /\ ecmp[c].next_idx \in Nat
    /\ lookups \in [DOMAIN lookups -> Cidrs] /\ outdated \subseteq Cidrs

(* Whatever was added, removed, switched off and re-weighted, a look-up    *)
(* answers an active route of least metric of the longest matching prefix. *)
LeastCost ==
    \A c \in DOMAIN routes : OnePerPeer(routes[c]) /\
        \A i, j \in DOMAIN routes[c] : i < j => routes[c][i].metric <= routes[c][j].metric

(* A group has two peers or more, of one metric, its index is in range,    *)
(* and, as long as the CIDR's routes have not changed since it was made,   *)
(* its routes are exactly the cheapest active ones of the table: otherwise *)
(* lookup_ecmp may answer a route that was removed or switched off.        *)
GroupsExact ==
    \A c \in DOMAIN ecmp :
        LET g == ecmp[c] IN
        /\ Len(g.routes) > 1 /\ OnePerPeer(g.routes) /\ g.next_idx < Len(g.routes)
        /\ \A i \in DOMAIN g.routes : g.routes[i].metric = g.routes[1].metric /\ g.routes[i].active
        /\ c \notin outdated => Elements(g.routes) = Elements(LeastActive(Entry(c)))
=============================================================================
