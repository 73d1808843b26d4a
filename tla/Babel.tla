--------------------------------- MODULE Babel ---------------------------------
(* The Babel engine of one router for one prefix                             *)
(* (data-plane/src/mesh_routing/babel.rs; prefixes do not influence each     *)
(* other), with the neighbours that advertise the prefix to it.  Messages    *)
(* are handled concurrently: a retraction gives up the route table's lock    *)
(* before it takes the one of the selected routes, every other message is    *)
(* handled under the locks it needs.  Datagrams may be lost, duplicated and  *)
(* reordered.  Hold times are left out: only select_routes reads them, which *)
(* nothing calls.                                                            *)
(*                                                                           *)
(* Operators whose name ends in Mutant are faulty variants of the            *)
(* definition that follows them; no action uses them.                        *)
EXTENDS Naturals, FiniteSets

CONSTANTS
    Routers,     \* the neighbours
    SeqModulus,  \* 2^16: sequence numbers wrap
    Metrics,     \* metrics and feasibility distances a neighbour may advertise
    INFINITY,    \* BABEL_INFINITY, 65535
    MaxBuilt,    \* bound: updates built in a run
    MaxRemoving  \* bound: retractions between their two critical sections

\* What the constants stand for.
Constants ==
    /\ SeqModulus \in Nat \ {0}
    /\ Metrics \subseteq Nat /\ INFINITY \in Nat /\ INFINITY \notin Metrics
    /\ MaxBuilt \in Nat /\ MaxRemoving \in Nat

VARIABLES
    neighbors,    \* router -> whether it is known to hear us
    route_table,  \* originator -> its route, retain and push keep one of each
    selected,     \* originator -> its route in selected_routes, at most one
    removing,     \* retractions that emptied the table and will remove the selection
    seqno,        \* per neighbour: its engine's sequence number
    net,          \* updates under way
    built         \* updates built so far

vars == <<neighbors, route_table, selected, removing, seqno, net, built>>

Message == [router_id : Routers, seqno : 0 .. SeqModulus - 1,
            metric : Metrics \cup {INFINITY}, feasibility_distance : Metrics]
Route   == [seqno : 0 .. SeqModulus - 1, metric : Metrics,
            feasibility_distance : Metrics, retracted : BOOLEAN]

IsMap(f, S, T) == DOMAIN f \subseteq S /\ f \in [DOMAIN f -> T]
Put(f, k, v)   == [x \in DOMAIN f \cup {k} |-> IF x = k THEN v ELSE f[x]]
Drop(f, k)     == [x \in DOMAIN f \ {k} |-> f[x]]
Empty          == [r \in {} |-> FALSE]

Init ==
    /\ neighbors = Empty /\ route_table = Empty /\ selected = Empty /\ removing = 0
    /\ seqno = [r \in Routers |-> 0] /\ net = {} /\ built = 0

-----------------------------------------------------------------------------
NextSeqMutant(s) == s + 1
NextSeq(s) == (s + 1) % SeqModulus

(* A neighbour's build_update: every update takes a new sequence number.   *)
BuildUpdate(r, metric, distance) ==
    LET next == NextSeq(seqno[r]) IN
    /\ built < MaxBuilt
    /\ built' = built + 1
    /\ seqno' = [seqno EXCEPT ![r] = next]
    /\ net' = net \cup {[router_id |-> r, seqno |-> next, metric |-> metric,
                         feasibility_distance |-> distance]}
    /\ UNCHANGED <<neighbors, route_table, selected, removing>>

(* process_hello and process_ihu.  The rxcost they set is read by nothing. *)
ProcessHello(r) ==
    /\ neighbors' = Put(neighbors, r, r \in DOMAIN neighbors /\ neighbors[r])
    /\ UNCHANGED <<route_table, selected, removing, seqno, net, built>>
ProcessIhu(r) ==
    /\ r \in DOMAIN neighbors
    /\ neighbors' = Put(neighbors, r, TRUE)
    /\ UNCHANGED <<route_table, selected, removing, seqno, net, built>>

Receive(m) ==
    /\ m \in net
    /\ net' \in {net, net \ {m}}
    /\ UNCHANGED <<neighbors, seqno, built>>

-----------------------------------------------------------------------------
(* process_update, a retraction: the originator's route goes, and if none  *)
(* is left the selection will, once the table's lock is given up.          *)
Retract(m) ==
    /\ m.metric = INFINITY /\ Receive(m)
    /\ route_table' = Drop(route_table, m.router_id)
    /\ IF DOMAIN route_table' = {}
       THEN removing < MaxRemoving /\ removing' = removing + 1
       ELSE UNCHANGED removing
    /\ UNCHANGED selected

RemoveSelected ==
    /\ removing > 0 /\ removing' = removing - 1
    /\ selected' = Empty
    /\ UNCHANGED <<neighbors, route_table, seqno, net, built>>

FeasibleMutant(m) ==            \* compares with any originator's route
    \E r \in DOMAIN route_table :
        \/ m.feasibility_distance < route_table[r].feasibility_distance
        \/ m.seqno > route_table[r].seqno
\* Compared as plain numbers, and only with the same originator's route.
Feasible(m) ==
    /\ m.router_id \in DOMAIN route_table
    /\ \/ m.feasibility_distance < route_table[m.router_id].feasibility_distance
       \/ m.seqno > route_table[m.router_id].seqno

\* An originator with the least metric among those that are not retracted.
Best(table) ==
    {r \in DOMAIN table : /\ ~ table[r].retracted
                          /\ \A q \in DOMAIN table :
                                table[q].retracted \/ table[r].metric <= table[q].metric}

Selected(table) == {[x \in {r} |-> table[r]] : r \in Best(table)}

(* process_update, an advertisement.                                       *)
ProcessUpdate(m) ==
    /\ m.metric # INFINITY /\ Receive(m)
    /\ IF ~ Feasible(m) /\ DOMAIN route_table # {}
       THEN UNCHANGED <<route_table, selected>>
       ELSE /\ route_table' = Put(route_table, m.router_id,
                    [seqno |-> m.seqno, metric |-> m.metric, retracted |-> FALSE,
                     feasibility_distance |-> m.feasibility_distance])
            /\ selected' \in Selected(route_table')
    /\ UNCHANGED removing

(* remove_neighbor: its routes stay, marked retracted, and so does the     *)
(* selection.                                                              *)
RemoveNeighbor(r) ==
    /\ neighbors' = Drop(neighbors, r)
    /\ route_table' = [x \in DOMAIN route_table |->
            [route_table[x] EXCEPT !.retracted = @ \/ x = r]]
    /\ UNCHANGED <<selected, removing, seqno, net, built>>

Lose(m) ==
    /\ m \in net /\ net' = net \ {m}
    /\ UNCHANGED <<neighbors, route_table, selected, removing, seqno, built>>

Next ==
    \/ \E r \in Routers :
        \/ \E metric \in Metrics \cup {INFINITY}, distance \in Metrics :
                BuildUpdate(r, metric, distance)
        \/ ProcessHello(r) \/ ProcessIhu(r) \/ RemoveNeighbor(r)
    \/ \E m \in net : Retract(m) \/ ProcessUpdate(m) \/ Lose(m)
    \/ RemoveSelected

Spec == Init /\ [][Next]_vars

-----------------------------------------------------------------------------
(* Shapes of the tables.                                                   *)
TypeOK ==
    /\ IsMap(neighbors, Routers, BOOLEAN)
    /\ IsMap(route_table, Routers, Route)
    /\ IsMap(selected, Routers, Route)
    /\ removing \in 0 .. MaxRemoving
    /\ seqno \in [Routers -> 0 .. SeqModulus - 1]
    /\ net \subseteq Message /\ built \in 0 .. MaxBuilt

\* A route as it was before remove_neighbor marked it.
Fresh(route) == [route EXCEPT !.retracted = FALSE]

(* What the data plane is given is in the table: unless a retraction is    *)
(* between its two critical sections, a selected route is the table's      *)
(* route of that originator, and the only one.  It rests on the            *)
(* feasibility check refusing every second originator, since a retraction  *)
(* clears the selection only when the table is empty.                      *)
SelectedBacked ==
    removing = 0 =>
        \A r \in DOMAIN selected :
            /\ DOMAIN route_table = {r}
            /\ selected[r] = Fresh(route_table[r])
=============================================================================
