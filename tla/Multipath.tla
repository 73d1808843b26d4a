-------------------------------- MODULE Multipath --------------------------------
(* The paths to one peer (data-plane/src/multipath/mod.rs), their smoothed     *)
(* round-trip times (metrics/mod.rs) and the calls that set paths up           *)
(* (tunnel/mod.rs, establish_p2p_connection).  The path table has one lock;    *)
(* nothing ever fills the map of active paths, so it is left out.  A call      *)
(* registers its paths, waits for the hole punch without any lock and marks    *)
(* the path that came of it active.                                            *)
(*                                                                             *)
(* Operators whose name ends in Mutant are faulty variants of the definition   *)
(* that follows them; no action uses them.                                     *)
EXTENDS Naturals, FiniteSets

CONSTANTS
    Callers,     \* concurrent calls of establish_p2p_connection
    Rtts,        \* round-trip times measured, in milliseconds
    Threshold,   \* direct_rtt_threshold, 300 ms
    MaxSamples   \* bound: measurements of a path

\* What the constants stand for.
Constants == Rtts \subseteq Nat /\ Threshold \in Nat /\ MaxSamples \in Nat

VARIABLES
    paths,     \* path type -> [active, samples, rtt_avg, rtt_min, rtt_max]
    calls,     \* caller -> [at : "registering" or "punching", relay : whether it has one]
    fallback,  \* history: the last call to return fell back to the relay, never dropped since
    lost       \* history: the relay's path was dropped since a call began

vars == <<paths, calls, fallback, lost>>

PathType   == {"Local", "Direct", "Relay"}
PathStatus == [active : BOOLEAN, samples : 0 .. MaxSamples, rtt_avg : Nat, rtt_min : Nat, rtt_max : Nat]
Fresh      == [active |-> TRUE, samples |-> 0, rtt_avg |-> 0, rtt_min |-> 0, rtt_max |-> 0]
Put(f, k, v) == [x \in DOMAIN f \cup {k} |-> IF x = k THEN v ELSE f[x]]
Drop(f, k)   == [x \in DOMAIN f \ {k} |-> f[x]]

Init ==
    /\ paths = [t \in {} |-> Fresh] /\ calls = [c \in {} |-> 0]
    /\ fallback = FALSE /\ lost = FALSE

-----------------------------------------------------------------------------
(* register_path: an entry of the type is replaced, measurements and all.  *)
RegisterPath(type) ==
    /\ paths' = Put(paths, type, Fresh)
    /\ UNCHANGED <<calls, fallback, lost>>

RemovePath(type) ==
    /\ type \in DOMAIN paths
    /\ paths' = Drop(paths, type)
    /\ lost' = (lost \/ type = "Relay") /\ fallback' = (fallback /\ type # "Relay")
    /\ UNCHANGED calls

Marked(type, active) ==
    IF type \in DOMAIN paths THEN [paths EXCEPT ![type].active = active] ELSE paths
MarkInactive(type) ==
    /\ paths' = Marked(type, FALSE)
    /\ lost' = (lost \/ type = "Relay") /\ fallback' = (fallback /\ type # "Relay")
    /\ UNCHANGED calls
MarkActive(type) ==
    /\ paths' = Marked(type, TRUE)
    /\ UNCHANGED <<calls, fallback, lost>>

Smoothed(avg, rtt) == (rtt + 7 * avg) \div 8
Least(a, b)   == IF a < b THEN a ELSE b
Largest(a, b) == IF a < b THEN b ELSE a

(* update_metrics with record_rtt: the first sample stands for itself, the *)
(* others weigh an eighth.                                                 *)
Recorded(p, rtt) ==
    IF p.samples = 0
    THEN [p EXCEPT !.samples = 1, !.rtt_avg = rtt, !.rtt_min = rtt, !.rtt_max = rtt]
    ELSE [p EXCEPT !.samples = @ + 1, !.rtt_avg = Smoothed(@, rtt),
                   !.rtt_min = Least(@, rtt), !.rtt_max = Largest(@, rtt)]
UpdateMetrics(type, rtt) ==
    /\ type \in DOMAIN paths /\ paths[type].samples < MaxSamples
    /\ paths' = [paths EXCEPT ![type] = Recorded(@, rtt)]
    /\ UNCHANGED <<calls, fallback, lost>>

-----------------------------------------------------------------------------
(* establish_p2p_connection: a direct path is registered before anything   *)
(* is known of it ...                                                      *)
Establish(c, relay) ==
    /\ c \notin DOMAIN calls
    /\ calls' = Put(calls, c, [at |-> IF relay THEN "registering" ELSE "punching", relay |-> relay])
    /\ paths' = Put(paths, "Direct", Fresh)
    /\ lost' = (lost /\ DOMAIN calls # {})
    /\ UNCHANGED fallback
(* ... then the relay's, if there is one ...                               *)
RegisterRelay(c) ==
    /\ c \in DOMAIN calls /\ calls[c].at = "registering"
    /\ paths' = Put(paths, "Relay", Fresh)
    /\ calls' = [calls EXCEPT ![c].at = "punching"]
    /\ UNCHANGED <<fallback, lost>>
(* ... and after the punch the one that is to be used is marked active.    *)
Punched(c) ==
    /\ c \in DOMAIN calls /\ calls[c].at = "punching"
    /\ paths' = Marked("Direct", TRUE) /\ calls' = Drop(calls, c) /\ fallback' = FALSE
    /\ UNCHANGED lost
PunchFailed(c) ==
    /\ c \in DOMAIN calls /\ calls[c].at = "punching"
    /\ paths' = IF calls[c].relay THEN Marked("Relay", TRUE) ELSE paths
    /\ fallback' = (calls[c].relay /\ ~lost)
    /\ calls' = Drop(calls, c)
    /\ UNCHANGED lost

Next ==
    \/ \E type \in PathType : \/ RegisterPath(type) \/ RemovePath(type)
                              \/ MarkInactive(type) \/ MarkActive(type)
                              \/ \E rtt \in Rtts : UpdateMetrics(type, rtt)
    \/ \E c \in Callers : \/ \E relay \in BOOLEAN : Establish(c, relay)
                          \/ RegisterRelay(c) \/ Punched(c) \/ PunchFailed(c)

Spec == Init /\ [][Next]_vars

-----------------------------------------------------------------------------
Active  == {t \in DOMAIN paths : paths[t].active}
FastMutant(t) == TRUE
Fast(t) == paths[t].rtt_avg < Threshold

\* select_best_path: a fast local path, a fast direct one, the relay, or whatever
\* is active.  A path that was never measured has a time of 0: it is fast.
SelectBestPath ==
    IF "Local" \in Active /\ Fast("Local") THEN {"Local"}
    ELSE IF "Direct" \in Active /\ Fast("Direct") THEN {"Direct"}
    ELSE IF "Relay" \in Active THEN {"Relay"} ELSE Active

(* Shapes.                                                                 *)
TypeOK ==
    /\ Constants
    /\ DOMAIN paths \subseteq PathType /\ paths \in [DOMAIN paths -> PathStatus]
    /\ DOMAIN calls \subseteq Callers
    /\ calls \in [DOMAIN calls -> [at : {"registering", "punching"}, relay : BOOLEAN]]
    /\ fallback \in BOOLEAN /\ lost \in BOOLEAN

(* The smoothed time of a path that was measured lies between the least    *)
(* and the largest sample.                                                 *)
RttBetween == \A t \in DOMAIN paths : paths[t].rtt_min <= paths[t].rtt_avg
                                      /\ paths[t].rtt_avg <= paths[t].rtt_max

(* A call that fell back to the relay leaves it active, and it is the best *)
(* path as soon as the others are inactive, gone or measured slow.  Until  *)
(* then the direct path that was not punched comes first: the call leaves  *)
(* it active.                                                              *)
FallbackUsed ==
    fallback => /\ "Relay" \in Active
                /\ \/ SelectBestPath = {"Relay"}
                   \/ \E t \in Active \ {"Relay"} : SelectBestPath = {t} /\ paths[t].rtt_avg < Threshold
=============================================================================
