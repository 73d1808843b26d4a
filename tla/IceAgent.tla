-------------------------------- MODULE IceAgent --------------------------------
(* Two ICE agents (data-plane/src/ice/mod.rs).  set_remote_candidates takes    *)
(* the lock of the remote candidates for writing and calls                     *)
(* form_candidate_pairs, which takes it for reading: the call waits for itself *)
(* and never comes back.  No pair is ever formed, so no connectivity check     *)
(* finds one, and what the code does with pairs is never reached.  The remote  *)
(* credentials and the time of the last consent, which nothing reads but the   *)
(* caller, are left out.                                                       *)
EXTENDS Naturals

CONSTANTS
    Agents,
    Tiebreakers,  \* u64
    Addresses,    \* what gathering may find: sets of candidates [type, addr]
    MaxCalls      \* bound: calls of set_remote_candidates under way per agent

CandidateType == {"Host", "Srflx", "Relay"}

\* What the constants stand for.
Constants ==
    /\ Tiebreakers \subseteq Nat /\ MaxCalls \in Nat
    /\ \E a, b \in Agents : a # b /\ Agents = {a, b}
    /\ \A found \in Addresses : \A c \in found : c.type \in CandidateType

VARIABLES
    local_candidates, state, role, tiebreaker,
    remote,        \* agent -> calls of set_remote_candidates: the one inside, those that wait
    resolved       \* history: agents that resolved a role conflict

vars == <<local_candidates, state, role, tiebreaker, remote, resolved>>

State == {"New", "Gathering", "Checking", "Connected", "Restarting"}
Peer(a) == CHOOSE b \in Agents : b # a

Init ==
    /\ local_candidates = [a \in Agents |-> {}] /\ state = [a \in Agents |-> "New"]
    /\ role = [a \in Agents |-> "Controlling"] /\ tiebreaker \in [Agents -> Tiebreakers]
    /\ remote = [a \in Agents |-> [inside |-> FALSE, waiting |-> 0]]
    /\ resolved = {}

-----------------------------------------------------------------------------
(* gather_candidates: host addresses and, if they were found, one address  *)
(* seen by a STUN server and one of a relay.  It can come at any time and  *)
(* puts the agent back into Gathering.                                     *)
GatherCandidates(a, found) ==
    /\ local_candidates' = [local_candidates EXCEPT ![a] = found]
    /\ state' = [state EXCEPT ![a] = "Gathering"]
    /\ UNCHANGED <<role, tiebreaker, remote, resolved>>

\* The write guard lives to the end of set_remote_candidates.
GuardLives == TRUE

(* set_remote_candidates: the first call gets the lock and, its guard      *)
(* alive, stops at the read lock of form_candidate_pairs; later ones wait  *)
(* for the first.  Only after the pairs would the state be Checking.       *)
SetRemoteCandidates(a) ==
    /\ remote[a].waiting < MaxCalls
    /\ remote' = IF remote[a].inside THEN [remote EXCEPT ![a].waiting = @ + 1]
                 ELSE [remote EXCEPT ![a].inside = GuardLives]
    /\ state' = IF remote[a].inside \/ GuardLives THEN state ELSE [state EXCEPT ![a] = "Checking"]
    /\ UNCHANGED <<local_candidates, role, tiebreaker, resolved>>

(* resolve_role_conflict: the larger tiebreaker controls.                  *)
Resolved(a) == IF tiebreaker[a] > tiebreaker[Peer(a)] THEN "Controlling" ELSE "Controlled"
ResolveRoleConflict(a) ==
    /\ role' = [role EXCEPT ![a] = Resolved(a)] /\ resolved' = resolved \cup {a}
    /\ UNCHANGED <<local_candidates, state, tiebreaker, remote>>

(* restart changes the state only: candidates, pairs and the credentials   *)
(* it draws are not replaced.                                              *)
Restart(a) ==
    /\ state' = [state EXCEPT ![a] = "Restarting"]
    /\ UNCHANGED <<local_candidates, role, tiebreaker, remote, resolved>>

Next == \E a \in Agents :
    \/ \E found \in Addresses : GatherCandidates(a, found)
    \/ SetRemoteCandidates(a) \/ ResolveRoleConflict(a)
    \/ Restart(a)

Spec == Init /\ [][Next]_vars

-----------------------------------------------------------------------------
(* Shapes.                                                                 *)
TypeOK ==
    /\ Constants
    /\ local_candidates \in [Agents -> Addresses \cup {{}}]
    /\ \A a \in Agents : \A c \in local_candidates[a] : c.type \in CandidateType
    /\ state \in [Agents -> State] /\ role \in [Agents -> {"Controlling", "Controlled"}]
    /\ remote \in [Agents -> [inside : BOOLEAN, waiting : 0 .. MaxCalls]]

(* An agent never starts its checks: whoever gives it candidates waits     *)
(* for ever, the first caller for itself and all others for the first.     *)
NeverChecks ==
    \A a \in Agents : /\ state[a] \notin {"Checking", "Connected"}
                      /\ remote[a].waiting > 0 => remote[a].inside

(* Two agents that have both resolved the conflict of their roles differ   *)
(* in them, unless they drew the same tiebreaker: then both are controlled *)
(* and neither nominates a pair.                                           *)
RolesResolved ==
    resolved = Agents =>
        \A a \in Agents : role[a] = "Controlled" /\ role[Peer(a)] = "Controlled"
                              <=> tiebreaker[a] = tiebreaker[Peer(a)]
=============================================================================
