-------------------------------- MODULE MCMesh --------------------------------
(* The three engines of mesh routing.  They share nothing, so a behaviour runs *)
(* one of them and the others stay where they start: the state spaces add up   *)
(* instead of multiplying.  Distance vector rests here: its runs need          *)
(* topologies and bounds of their own (MCDistanceVector).  It is extended, so  *)
(* that the theorems about all three have one module to be about.              *)
EXTENDS DistanceVector, TLC

CONSTANTS Members, MaxMessages, MaxSent, MaxVerdicts, MaxIncarnation
VARIABLES members, incarnation, running, net, sent, verdicts, condemned
gossip_vars == <<members, incarnation, running, net, sent, verdicts, condemned>>
G == INSTANCE Gossip WITH Nodes <- Members, up <- running

CONSTANTS Routers, SeqModulus, Metrics, BABEL_INFINITY, MaxBuilt, MaxRemoving
VARIABLES neighbors, route_table, selected, removing, seqno, updates, built
babel_vars == <<neighbors, route_table, selected, removing, seqno, updates, built>>
B == INSTANCE Babel WITH net <- updates, INFINITY <- BABEL_INFINITY

ASSUME MeshAssumption == G!Constants /\ B!Constants

VARIABLE focus  \* the engine that runs

\* Members of the gossip are interchangeable.
MCSymmetry == Permutations(Members)

all_vars == <<focus, vars, gossip_vars, babel_vars>>
MCInit == Init /\ G!Init /\ B!Init /\ focus \in {"gossip", "babel"}
MCNext ==
    /\ UNCHANGED <<focus, vars>>
    /\ \/ focus = "gossip" /\ G!Next /\ UNCHANGED babel_vars
       \/ focus = "babel" /\ B!Next /\ UNCHANGED gossip_vars
MCSpec == MCInit /\ [][MCNext]_all_vars

(* Shapes of the views and messages of the gossip, and of the Babel tables.*)
MeshTypeOK == G!TypeOK /\ B!TypeOK

(* What is heard raises no dead, and makes no node doubt itself or contra- *)
(* dict a death that nobody claimed (gossip.rs, process_message).          *)
NoResurrection == G!NoResurrection
SelfAlive == G!SelfAlive
BumpJustified == G!BumpJustified

(* The route the data plane is given is the table's (babel.rs,             *)
(* process_update, get_routing_table).                                     *)
SelectedBacked == B!SelectedBacked
=============================================================================
