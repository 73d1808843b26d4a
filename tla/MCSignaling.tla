------------------------------ MODULE MCSignaling ------------------------------
(* Instances of Signaling for TLC: two devices of one user, one of another.   *)
(* The history variable quiet records that nothing has failed so far and that *)
(* no device had two sessions at a time.                                      *)
EXTENDS Signaling, TLC

CONSTANTS d1, d2, d3, alice, bob

MCDevices == {d1, d2, d3}
MCUsers   == {alice, bob}
MCUserOf  == [d \in MCDevices |-> IF d = d3 THEN bob ELSE alice]

MCSymmetry == Permutations(Sessions) \cup Permutations(Nodes) \cup Permutations({d1, d2})

VARIABLE quiet

Live == {s \in Sessions : pc[s] \notin {"unused", "closed"}}

MCInit == Init /\ quiet = TRUE
MCNext ==
    /\ Next
    /\ quiet' = (quiet /\ faults' = 0
                 /\ \A r, s \in Live' : home'[r].device = home'[s].device => r = s)
MCSpec == MCInit /\ [][MCNext]_<<vars, quiet>>

(* Until something fails or a session is replaced: "Track online devices   *)
(* and their WebSocket connections", the hub knows every open session;     *)
(* "Connection limits are enforced globally via Redis counters", between   *)
(* connects and disconnects the counter is exact; "register ws:user:       *)
(* {user_id}:{device_id} -> node_id", every connected device can be found  *)
(* from the other nodes.                                                   *)
QuietPromises == quiet => SessionTracked /\ CountersExact /\ RegistryFinds
=============================================================================
