------------------------------ MODULE Connectivity ------------------------------
(* The connectivity checks of a node (data-plane/src/ice/connectivity.rs): its *)
(* peers, one round of checks at a time, and the responses under way to its    *)
(* socket.  A check sends its request without a lock, then holds the lock of   *)
(* the peers while it waits for a datagram.  It takes any binding response as  *)
(* its own: neither the sender nor the transaction is compared.  Times and     *)
(* their averages are left out.                                                *)
EXTENDS Naturals, FiniteSets

CONSTANTS
    Peers, None,
    DisconnectAt, FailAt,  \* failures in a row: 3 and 5
    MaxFailures,           \* bound: failures in a row that are told apart
    MaxRequests            \* bound: requests and responses under way

\* What the constants stand for.
Constants ==
    /\ None \notin Peers /\ MaxFailures \in Nat /\ MaxRequests \in Nat
    /\ FailAt \in 1 .. MaxFailures /\ DisconnectAt \in 1 .. FailAt

VARIABLES
    peers,      \* id -> [state, failed_checks, fresh]; fresh: consent at most 30 s old
    round,      \* ids the round under way has still to check
    waiting,    \* the peer whose answer a check waits for, with the lock, or None
    sent,       \* the peer a request was just sent to, without a lock, or None
    requests,   \* requests under way: peers that may answer them
    responses,  \* binding responses under way: the peers that sent them
    unanswered  \* history: a check ended before its response came

vars == <<peers, round, waiting, sent, requests, responses, unanswered>>

New == [state |-> "New", failed_checks |-> 0, fresh |-> TRUE]
Put(f, k, v) == [x \in DOMAIN f \cup {k} |-> IF x = k THEN v ELSE f[x]]
Drop(f, k)   == [x \in DOMAIN f \ {k} |-> f[x]]

Init == /\ peers = [p \in {} |-> New] /\ round = {} /\ waiting = None /\ sent = None
        /\ requests = {} /\ responses = {} /\ unanswered = FALSE

PeersFree == waiting = None
\* perform_checks goes on to the next peer when a check has ended.
CheckEnded == PeersFree /\ sent = None
network == <<requests, responses, unanswered>>

-----------------------------------------------------------------------------
RegisterPeer(p) ==
    /\ PeersFree /\ peers' = Put(peers, p, New)
    /\ UNCHANGED <<round, waiting, sent, network>>
UnregisterPeer(p) ==
    /\ PeersFree /\ p \in DOMAIN peers /\ peers' = Drop(peers, p)
    /\ UNCHANGED <<round, waiting, sent, network>>
RefreshConsent(p) ==
    /\ PeersFree /\ p \in DOMAIN peers /\ peers' = [peers EXCEPT ![p].fresh = TRUE]
    /\ UNCHANGED <<round, waiting, sent, network>>
ConsentExpires(p) ==
    /\ p \in DOMAIN peers /\ peers' = [peers EXCEPT ![p].fresh = FALSE]
    /\ UNCHANGED <<round, waiting, sent, network>>

RecordSuccess(p) == [peers EXCEPT ![p] = [state |-> "Connected", failed_checks |-> 0, fresh |-> TRUE]]
After(state, failed) == IF failed >= FailAt THEN "Failed"
                        ELSE IF failed >= DisconnectAt THEN "Disconnected" ELSE state
RecordFailure(p) ==
    LET failed == peers[p].failed_checks + 1 IN
    [peers EXCEPT ![p].failed_checks = failed, ![p].state = After(@, failed)]

-----------------------------------------------------------------------------
(* perform_checks: the peers of the round are those there when it starts.  *)
StartRound ==
    /\ round = {} /\ CheckEnded
    /\ round' = DOMAIN peers
    /\ UNCHANGED <<peers, waiting, sent, network>>

(* One peer: it is gone, the request cannot be sent, or it is sent.        *)
SkipPeer(p) ==
    /\ p \in round \ DOMAIN peers /\ CheckEnded
    /\ round' = round \ {p}
    /\ UNCHANGED <<peers, waiting, sent, network>>
SendFails(p) ==
    /\ p \in round \cap DOMAIN peers /\ CheckEnded
    /\ peers[p].failed_checks < MaxFailures
    /\ peers' = RecordFailure(p) /\ round' = round \ {p}
    /\ UNCHANGED <<waiting, sent, network>>
SendCheck(p) ==
    /\ p \in round \cap DOMAIN peers /\ CheckEnded
    /\ Cardinality(requests) + Cardinality(responses) < MaxRequests
    /\ sent' = p /\ round' = round \ {p} /\ requests' = requests \cup {p}
    /\ UNCHANGED <<peers, waiting, responses, unanswered>>

(* The lock is taken for the wait; a peer that has gone by then is not     *)
(* waited for, and its response will be there for the next check.          *)
AwaitAnswer ==
    /\ sent # None /\ PeersFree
    /\ waiting' = IF sent \in DOMAIN peers THEN sent ELSE None
    /\ unanswered' = (unanswered \/ sent \notin DOMAIN peers)
    /\ sent' = None
    /\ UNCHANGED <<peers, round, requests, responses>>

(* The network and the peers: a request is answered or lost.               *)
Answer(p) ==
    /\ p \in requests
    /\ requests' = requests \ {p} /\ \E more \in {{}, {p}} : responses' = responses \cup more
    /\ UNCHANGED <<peers, round, waiting, sent, unanswered>>

(* A binding response comes: whoever sent it, it counts for the peer.      *)
TakeResponse ==
    /\ waiting # None
    /\ \E p \in responses :
           /\ responses' = responses \ {p}
           /\ unanswered' = (unanswered \/ p # waiting)
    /\ peers' = RecordSuccess(waiting) /\ waiting' = None
    /\ UNCHANGED <<round, sent, requests>>

(* Some other datagram comes: the check ends and counts for nothing.       *)
TakeOther ==
    /\ waiting # None /\ waiting' = None /\ unanswered' = TRUE
    /\ UNCHANGED <<peers, round, sent, requests, responses>>

(* Nothing comes for the smoothed time and four variances, or a second.    *)
Timeout ==
    /\ waiting # None /\ peers[waiting].failed_checks < MaxFailures
    /\ peers' = RecordFailure(waiting) /\ waiting' = None /\ unanswered' = TRUE
    /\ UNCHANGED <<round, sent, requests, responses>>

Next == \/ \E p \in Peers : \/ RegisterPeer(p) \/ UnregisterPeer(p) \/ RefreshConsent(p)
                            \/ ConsentExpires(p) \/ SkipPeer(p) \/ SendFails(p) \/ SendCheck(p)
                            \/ Answer(p)
        \/ StartRound \/ AwaitAnswer \/ TakeResponse \/ TakeOther \/ Timeout

Spec == Init /\ [][Next]_vars

-----------------------------------------------------------------------------
(* Shapes.                                                                 *)
TypeOK ==
    /\ Constants
    /\ DOMAIN peers \subseteq Peers
    /\ peers \in [DOMAIN peers -> [state : {"New", "Connected", "Disconnected", "Failed"},
                                   failed_checks : 0 .. MaxFailures, fresh : BOOLEAN]]
    /\ round \subseteq Peers /\ {waiting, sent} \subseteq Peers \cup {None}
    /\ requests \subseteq Peers /\ responses \subseteq Peers

(* A peer is given up for dead exactly as long as its last FailAt checks   *)
(* or more failed, whoever was registered and removed meanwhile.           *)
DeadExact ==
    \A p \in DOMAIN peers : /\ peers[p].state = "Failed" <=> peers[p].failed_checks >= FailAt
                            /\ peers[p].state = "Connected" => peers[p].failed_checks < DisconnectAt

(* As long as every check was ended by its own response, every response    *)
(* under way is the one that is waited for.  Once one was late it is not:  *)
(* the next check succeeds by it, and its own response is late in turn.    *)
Attributed == ~unanswered => requests \cup responses \subseteq {waiting, sent}
=============================================================================
