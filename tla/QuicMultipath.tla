----------------------------- MODULE QuicMultipath -----------------------------
(* A multipath QUIC connection: its paths, their congestion windows and the   *)
(* packet scheduler (data-plane/src/quic_multipath/mod.rs).  Every operation   *)
(* holds the lock of the path table throughout, except add_path, which gives   *)
(* it up between the test of the limit and the insertion.  Round-trip times    *)
(* and bandwidths only order the paths: the order is left open.                *)
(*                                                                             *)
(* Operators whose name ends in Mutant are faulty variants of the definition   *)
(* that follows them; no action uses them.                                     *)
EXTENDS Integers, FiniteSets, Functions

CONSTANTS
    Callers,      \* concurrent callers of add_path
    max_paths,    \* config.max_paths
    IdModulus,    \* path identifiers are u8: 256
    Windows,      \* the initial congestion window, the segment size, the least window
    Strategies,   \* values of SchedulerStrategy, "BandwidthWeighted" among them or not
    MaxPackets    \* bound: packets scheduled

\* What the constants stand for.
Constants ==
    /\ IsFiniteSet(Callers) /\ max_paths \in Nat \ {0} /\ IdModulus \in Nat /\ MaxPackets \in Nat
    /\ max_paths + Cardinality(Callers) < IdModulus
    /\ Windows \in [initial : Nat, mss : Nat, least : Nat]
    /\ Windows.initial >= 2 * Windows.least /\ Windows.initial >= 6 * Windows.mss
ASSUME ConstantsAssumption == Constants

VARIABLES
    paths,         \* path identifier -> entry
    next_path_id,
    adding,        \* callers of add_path past the test -> the identifier they drew
    strategy,      \* the scheduler's
    path_packets,  \* path identifier -> packets counted
    total_packets,
    scheduled      \* history: packets given a path, and of them by weight uncounted

vars == <<paths, next_path_id, adding, strategy, path_packets, total_packets, scheduled>>

PathState  == {"Validating", "Active", "Standby", "Abandoning", "Closed"}
Ids        == 0 .. IdModulus - 1
NoLimit    == -1    \* ssthresh = u64::MAX
Put(f, k, v) == [x \in DOMAIN f \cup {k} |-> IF x = k THEN v ELSE f[x]]
Drop(f, k)   == [x \in DOMAIN f \ {k} |-> f[x]]
Larger(a, b) == IF a < b THEN b ELSE a

Fresh == [state |-> "Validating", active |-> FALSE,
          cwnd |-> Windows.initial, ssthresh |-> NoLimit, phase |-> "SlowStart"]

Init ==
    /\ paths = [p \in {} |-> Fresh] /\ next_path_id = 1 /\ adding = [c \in {} |-> 0]
    /\ strategy \in Strategies
    /\ path_packets = [p \in {} |-> 0] /\ total_packets = 0
    /\ scheduled = [all |-> 0, uncounted |-> 0]

scheduler == <<strategy, path_packets, total_packets, scheduled>>

-----------------------------------------------------------------------------
HasRoomMutant == Cardinality(DOMAIN paths) <= max_paths
HasRoom == Cardinality(DOMAIN paths) < max_paths

(* add_path, first part: the table has room; an identifier is drawn.       *)
AddPathCheck(c) ==
    /\ c \notin DOMAIN adding /\ HasRoom
    /\ adding' = Put(adding, c, next_path_id % IdModulus)
    /\ next_path_id' = next_path_id + 1
    /\ UNCHANGED <<paths, scheduler>>

(* add_path, second part: the path enters the table.                       *)
AddPathInsert(c) ==
    /\ c \in DOMAIN adding
    /\ paths' = Put(paths, adding[c], Fresh)
    /\ adding' = Drop(adding, c)
    /\ UNCHANGED <<next_path_id, scheduler>>

SetState(p, state) ==
    /\ p \in DOMAIN paths
    /\ paths' = [paths EXCEPT ![p].state = state, ![p].active = state = "Active"]
    /\ UNCHANGED <<next_path_id, adding, scheduler>>
ActivatePath(p) == p \in DOMAIN paths /\ paths[p].state # "Closed" /\ SetState(p, "Active")
StandbyPath(p)  == SetState(p, "Standby")
AbandonPath(p)  == p # 0 /\ SetState(p, "Abandoning")

Halted(p) == [paths EXCEPT ![p].state = "Closed", ![p].active = FALSE]

(* seamless_failover closes the failed path; the path it names is no part  *)
(* of the state.                                                           *)
SeamlessFailover(p) ==
    /\ p \in DOMAIN paths /\ paths' = Halted(p)
    /\ UNCHANGED <<next_path_id, adding, scheduler>>

-----------------------------------------------------------------------------
Halved(w) == Larger(w \div 2, Windows.least)

(* on_congestion: the NewReno answer.  Nothing acknowledges packets, so    *)
(* Recovery is never left and a window never grows.                        *)
OnCongestion(p) ==
    /\ p \in DOMAIN paths
    /\ LET half == Halved(paths[p].cwnd)
           cwnd == IF paths[p].phase = "SlowStart" THEN half + 3 * Windows.mss ELSE half IN
       paths' = [paths EXCEPT ![p] = [@ EXCEPT !.cwnd = cwnd, !.ssthresh = half,
                                               !.phase = "Recovery"]]
    /\ UNCHANGED <<next_path_id, adding, scheduler>>

-----------------------------------------------------------------------------
Usable == {p \in DOMAIN paths : paths[p].state = "Active" /\ paths[p].active}
SetStrategy(s) ==
    /\ strategy' = s
    /\ UNCHANGED <<paths, next_path_id, adding, path_packets, total_packets, scheduled>>

Counted(p) == Put(path_packets, p, IF p \in DOMAIN path_packets THEN path_packets[p] + 1 ELSE 1)

(* schedule_next with schedule_packet.  The weighted choice returns from   *)
(* inside its loop, past the counters, unless rounding makes it fall       *)
(* through to the last path.                                               *)
Schedule(p) ==
    /\ p \in Usable /\ scheduled.all < MaxPackets
    /\ \/ /\ path_packets' = Counted(p) /\ total_packets' = total_packets + 1
          /\ scheduled' = [scheduled EXCEPT !.all = @ + 1]
       \/ /\ strategy = "BandwidthWeighted"
          /\ scheduled' = [all |-> scheduled.all + 1, uncounted |-> scheduled.uncounted + 1]
          /\ UNCHANGED <<path_packets, total_packets>>
    /\ UNCHANGED <<paths, next_path_id, adding, strategy>>

Next ==
    \/ \E c \in Callers : AddPathCheck(c) \/ AddPathInsert(c)
    \/ \E p \in DOMAIN paths : ActivatePath(p) \/ StandbyPath(p) \/ AbandonPath(p)
                               \/ SeamlessFailover(p) \/ OnCongestion(p) \/ Schedule(p)
    \/ \E s \in Strategies : SetStrategy(s)

Spec == Init /\ [][Next]_vars

-----------------------------------------------------------------------------
Entry == [state : PathState, active : BOOLEAN, cwnd : Nat, ssthresh : Nat \cup {NoLimit},
          phase : {"SlowStart", "Recovery"}]

(* Shapes.                                                                 *)
TypeOK ==
    /\ Constants
    /\ DOMAIN paths \subseteq Ids /\ paths \in [DOMAIN paths -> Entry]
    /\ next_path_id \in Nat
    /\ DOMAIN adding \subseteq Callers /\ adding \in [DOMAIN adding -> Ids]
    /\ strategy \in Strategies
    /\ DOMAIN path_packets \subseteq DOMAIN paths
    /\ path_packets \in [DOMAIN path_packets -> Nat] /\ total_packets \in Nat
    /\ scheduled \in [all : Nat, uncounted : Nat]

(* A path that was failed over, abandoned or put on standby carries no     *)
(* data: the flag and the state agree, whatever order the calls come in.   *)
FlagsAgree == \A p \in DOMAIN paths : paths[p].active <=> paths[p].state = "Active"

(* The table may pass its limit, since the test and the insertion are two  *)
(* critical sections, but by no more than the callers that were in between *)
(* but one.                                                                *)
Overshoot == Cardinality(DOMAIN paths) + Cardinality(DOMAIN adding)
                 < max_paths + Cardinality(Callers)

(* Identifiers are a counter cut to eight bits.  No path ever takes the    *)
(* place of another: a table that is never emptied fills up before the     *)
(* counter wraps.                                                          *)
NoPathReplaced ==
    /\ \A c \in DOMAIN adding : adding[c] \notin DOMAIN paths
    /\ \A c, d \in DOMAIN adding : adding[c] = adding[d] => c = d

(* A window is never less than two segments, and a congestion event never  *)
(* enlarges one.                                                           *)
LeastWindow == \A p \in DOMAIN paths : paths[p].cwnd >= Windows.least
NeverGrows  == [][\A p \in DOMAIN paths : paths'[p].cwnd <= paths[p].cwnd]_vars

(* Every packet but those the weighted choice let past is counted once, in *)
(* the total and for its path.                                             *)
CountsAgree == /\ total_packets = scheduled.all - scheduled.uncounted
               /\ total_packets = SumFunction(path_packets)
=============================================================================
