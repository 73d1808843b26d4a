------------------------------ MODULE PathSelector ------------------------------
(* The path selection engine for one peer (data-plane/src/ice/                 *)
(* path_selection.rs).  The paths and the active path have a lock each.        *)
(* remove_path takes the first and, holding it, the second; get_active_path    *)
(* takes them the other way round, so each is two steps here.  Every other     *)
(* operation is one critical section.                                          *)
EXTENDS Integers, Sequences, Lists

CONSTANTS
    PathIds,
    Kinds,         \* [v6 : BOOLEAN, type : PathType] of the paths the peer may have
    Measurements,  \* [rtt, loss, jitter, mbps]: milliseconds, percent, Mbit/s
    Callers,
    None,
    MaxPaths       \* bound: entries of the list

\* What the constants stand for.
Constants ==
    /\ None \notin PathIds /\ MaxPaths \in Nat
    /\ Kinds \subseteq [v6 : BOOLEAN, type : {"Local", "Direct", "HolePunch", "Quic", "Relay"}]
    /\ Measurements \subseteq [rtt : Nat, loss : 0 .. 100, jitter : Nat, mbps : Nat]

VARIABLES
    paths,   \* the list of the peer's paths
    active,  \* active_paths: the identifier of the active path, or None
    calls    \* caller -> the identifier its remove_path is about, "lookup", or None

vars == <<paths, active, calls>>

Unmeasured == [rtt |-> 0, loss |-> 0, jitter |-> 0, mbps |-> 0]
Path == [id : PathIds, kind : Kinds, state : {"Active", "Degraded", "Inactive"},
         metrics : Measurements \cup {Unmeasured}]

Init == paths = <<>> /\ active = None /\ calls = [c \in Callers |-> None]

-----------------------------------------------------------------------------
\* Who holds a lock over an await: a remover the paths, a look-up the active path.
Removers == {c \in Callers : calls[c] \in PathIds}
LookUps  == {c \in Callers : calls[c] = "lookup"}
PathsFree  == Removers = {}
ActiveFree == LookUps = {}

(* add_path appends; an identifier may come twice.  A path is added active.*)
AddPath(id, kind) ==
    /\ PathsFree /\ Len(paths) < MaxPaths
    /\ paths' = Append(paths, [id |-> id, kind |-> kind, state |-> "Active", metrics |-> Unmeasured])
    /\ UNCHANGED <<active, calls>>

Demoted(state, m) == IF m.loss > 20 THEN "Inactive"
                     ELSE IF m.loss > 5 \/ m.rtt > 500 THEN "Degraded" ELSE state

(* update_metrics: a bad measurement demotes a path, a good one leaves its *)
(* state as it is.                                                         *)
UpdateMetrics(id, m) ==
    /\ PathsFree
    /\ paths' = [i \in DOMAIN paths |->
                    IF paths[i].id = id
                    THEN [paths[i] EXCEPT !.metrics = m, !.state = Demoted(@, m)] ELSE paths[i]]
    /\ UNCHANGED <<active, calls>>

SetActivePath(id) ==
    /\ ActiveFree
    /\ active' = id
    /\ UNCHANGED <<paths, calls>>

(* remove_path, under the lock of the paths ...                            *)
RemovePathBegin(c, id) ==
    /\ calls[c] = None /\ PathsFree
    /\ paths' = Keep(paths, {p \in Path : p.id # id})
    /\ calls' = [calls EXCEPT ![c] = id]
    /\ UNCHANGED active
(* ... and then under both.                                                *)
RemovePathEnd(c) ==
    /\ c \in Removers /\ ActiveFree
    /\ active' = IF active = calls[c] THEN None ELSE active
    /\ calls' = [calls EXCEPT ![c] = None]
    /\ UNCHANGED paths

(* get_active_path, under the lock of the active path: without one it      *)
(* returns at once ...                                                     *)
GetActiveBegin(c) ==
    /\ calls[c] = None /\ active # None
    /\ calls' = [calls EXCEPT ![c] = "lookup"]
    /\ UNCHANGED <<paths, active>>
(* ... and then under both.                                                *)
Released(c) == [calls EXCEPT ![c] = None]
GetActiveEnd(c) ==
    /\ c \in LookUps /\ PathsFree
    /\ calls' = Released(c)
    /\ UNCHANGED <<paths, active>>

Next ==
    \/ \E id \in PathIds : \/ \E kind \in Kinds : AddPath(id, kind)
                           \/ \E m \in Measurements : UpdateMetrics(id, m)
                           \/ SetActivePath(id)
    \/ \E c \in Callers : \/ \E id \in PathIds : RemovePathBegin(c, id)
                          \/ RemovePathEnd(c) \/ GetActiveBegin(c) \/ GetActiveEnd(c)

\* The locks are fair: a call goes on when the lock it waits for is given up.
Fairness == \A c \in Callers : WF_vars(RemovePathEnd(c)) /\ SF_vars(GetActiveEnd(c))
Spec == Init /\ [][Next]_vars /\ Fairness

-----------------------------------------------------------------------------
\* score_path, times 40000 so that it is an integer.
Least(a, b) == IF a < b THEN a ELSE b
Boost(kind) == IF kind.v6 THEN 3 ELSE 2
TypeFactor(type) == CASE type = "Local" -> 24 [] type = "Direct" -> 22 [] type = "HolePunch" -> 20
                      [] type = "Quic" -> 19 [] type = "Relay" -> 14
ScorePath(p) ==
    LET m == p.metrics
        quality == (1000 - 2 * m.rtt) * (100 - Least(m.loss, 99)) * 10
                       - 500 * m.jitter + 1000 * Least(5 * m.mbps, 500) IN
    quality * Boost(p.kind) * TypeFactor(p.kind.type)

Usable == {i \in DOMAIN paths : paths[i].state \in {"Active", "Degraded"}}

(* select_best_path: the first of the usable paths that score highest.     *)
\* Indices of the path list, at most one.
BestPath == {i \in Usable : \A j \in Usable :
                LET si == ScorePath(paths[i])
                    sj == ScorePath(paths[j]) IN si > sj \/ (si = sj /\ i <= j)}

-----------------------------------------------------------------------------
(* Shapes.                                                                 *)
TypeOK ==
    /\ Constants
    /\ paths \in Seq(Path) /\ Len(paths) <= MaxPaths
    /\ active \in PathIds \cup {None}
    /\ calls \in [Callers -> PathIds \cup {"lookup", None}]

(* A removal holds the lock of the paths until it has cleared the active   *)
(* path.  It ends, unless a look-up of the active path came between its    *)
(* two locks: then each waits for the other for ever.                      *)
Deadlock == Removers # {} /\ LookUps # {}
RemovalEnds == \A c \in Callers : []<>(c \notin Removers \/ Deadlock)

(* Nothing makes a path Active again: once happy_eyeballs_select and       *)
(* ipv6_priority_select have no path to offer, they have none until a path *)
(* is added.                                                               *)
NoRecovery ==
    [][(\A i \in DOMAIN paths : paths[i].state # "Active") /\ Len(paths') <= Len(paths)
          => \A i \in DOMAIN paths' : paths'[i].state # "Active"]_vars

(* The module promises "IPv6 Direct preferred over IPv4 Direct"            *)
(* (path_selection.rs:4).  The code multiplies a score by 1.5 for IPv6,    *)
(* and that makes a negative one worse.                                    *)
V6DirectPreferred ==
    \A i \in BestPath : \A j \in Usable :
        paths[j].kind = [v6 |-> TRUE, type |-> "Direct"] /\ paths[j].metrics = paths[i].metrics
            => paths[i].kind # [v6 |-> FALSE, type |-> "Direct"]

(* The same of paths whose round-trip time, loss and jitter are small, and *)
(* of every type: among equals IPv6 is chosen, and any type before a relay.*)
Healthy(p) == p.metrics.rtt <= 300 /\ p.metrics.loss <= 5 /\ p.metrics.jitter <= 100
HealthyOrder ==
    \A i \in BestPath : \A j \in DOMAIN paths :
        paths[j].state # "Inactive" /\ paths[i].metrics = paths[j].metrics /\ Healthy(paths[i]) =>
            /\ paths[i].kind.type = paths[j].kind.type /\ paths[j].kind.v6 => paths[i].kind.v6
            /\ paths[i].kind.v6 = paths[j].kind.v6 /\ paths[i].kind.type = "Relay"
                   => paths[j].kind.type = "Relay"
=============================================================================
