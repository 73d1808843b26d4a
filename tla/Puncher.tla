-------------------------------- MODULE Puncher --------------------------------
(* Hole punching between two peers (execute_punch of data-plane/src/puncher/   *)
(* mod.rs) over UDP: each sends HELLO to the other's candidates and answers    *)
(* the HELLOs it gets, until an answer to its own arrives, or until it has run *)
(* out of time or of packets.  A nonce stands for its sender; a candidate that *)
(* leads nowhere is one no peer receives at.                                   *)
EXTENDS Naturals, FiniteSets

CONSTANTS
    Peers,         \* the two peers
    Candidates,    \* peer -> the other's candidate addresses
    At,            \* address -> the peer that receives there, if any
    MaxPeerCandidates,     \* 10 in the code
    MaxTotalPunchPackets,  \* 500 in the code
    NonceLen,      \* bytes of a nonce: 10
    HexFields      \* characters of a nonce that parse_message reads: 10 in the code, and what
                   \* build_hello writes, to see what the protocol does when they agree

Nowhere == "nowhere"
Other(p) == CHOOSE q \in Peers : q # p
\* The address a peer's datagrams come from.
Source(p) == CHOOSE a \in DOMAIN At : At[a] = p

\* What the constants stand for: a candidate that leads anywhere leads to the other peer.
Constants ==
    /\ \E p, q \in Peers : p # q /\ Peers = {p, q}
    /\ \A p \in Peers : /\ IsFiniteSet(Candidates[p]) /\ Cardinality(Candidates[p]) <= MaxPeerCandidates
                        /\ \A a \in Candidates[p] \cap DOMAIN At : At[a] = Other(p)
                        /\ \E a \in DOMAIN At : At[a] = p
    /\ MaxTotalPunchPackets \in Nat /\ NonceLen \in Nat /\ HexFields \subseteq Nat

VARIABLES
    state,    \* peer -> [pc, sent, best, via]: via is the address it succeeded with, best the fallback
    network,  \* [to, from, type, nonce]: datagrams under way; UDP loses, repeats and reorders
    elapsed,  \* peer -> has the timeout passed?
    hexField  \* one of HexFields, throughout

vars == <<state, network, elapsed, hexField>>

Init ==
    /\ state = [p \in Peers |-> [pc |-> IF Candidates[p] = {} THEN "failed" ELSE "check",
                                 sent |-> 0, best |-> Nowhere, via |-> Nowhere]]
    /\ network = {} /\ elapsed = [p \in Peers |-> FALSE] /\ hexField \in HexFields

-----------------------------------------------------------------------------
TimePasses(p) ==
    /\ ~elapsed[p] /\ elapsed' = [elapsed EXCEPT ![p] = TRUE]
    /\ UNCHANGED <<state, network, hexField>>

Spent(s) == s.sent >= MaxTotalPunchPackets
(* The head of the loop: the timeout, which takes the fallback, comes      *)
(* before the budget, which does not.  Then a HELLO to every candidate.    *)
Check(p) ==
    LET s == state[p]
        hello == {[to |-> a, from |-> Source(p), type |-> "Hello", nonce |-> p] : a \in Candidates[p]}
    IN  /\ s.pc = "check"
        /\ \/ /\ elapsed[p] /\ UNCHANGED network
              /\ state' = [state EXCEPT ![p].pc = IF s.best # Nowhere THEN "connected" ELSE "failed",
                                        ![p].via = s.best]
           \/ /\ ~elapsed[p] /\ Spent(s) /\ UNCHANGED network
              /\ state' = [state EXCEPT ![p].pc = "failed"]
           \/ /\ ~elapsed[p] /\ ~Spent(s)
              /\ network' = network \cup hello
              /\ state' = [state EXCEPT ![p].pc = "listen", ![p].sent = @ + Cardinality(Candidates[p])]
        /\ UNCHANGED <<elapsed, hexField>>

\* parse_message takes hexField characters for the nonce, which hex_decode refuses
\* unless they are two for each of its bytes.
Parsed(m) == IF hexField = 2 * NonceLen THEN m.type ELSE "None"

(* One datagram, or none within 50 milliseconds.                           *)
Listen(p, m) ==
    LET s == state[p] IN
    /\ s.pc = "listen" /\ m.to \in DOMAIN At /\ At[m.to] = p
    /\ CASE Parsed(m) = "Hello" ->
              /\ network' = network \cup {[to |-> m.from, from |-> Source(p), type |-> "HelloAck", nonce |-> m.nonce]}
              /\ state' = [state EXCEPT ![p].pc = "check", ![p].sent = @ + 1, ![p].best = m.from]
         [] Parsed(m) = "HelloAck" /\ m.nonce = p ->
              /\ state' = [state EXCEPT ![p].pc = "connected", ![p].via = m.from]
              /\ UNCHANGED network
         [] OTHER -> state' = [state EXCEPT ![p].pc = "check"] /\ UNCHANGED network
    /\ UNCHANGED <<elapsed, hexField>>
NothingHeard(p) ==
    /\ state[p].pc = "listen" /\ state' = [state EXCEPT ![p].pc = "check"]
    /\ UNCHANGED <<network, elapsed, hexField>>

Next == \E p \in Peers :
            \/ TimePasses(p) \/ Check(p) \/ NothingHeard(p)
            \/ \E m \in network : Listen(p, m)

(* Time passes, and the loop goes around: recv_from is given 50 ms.        *)
Fairness == \A p \in Peers : WF_vars(TimePasses(p)) /\ WF_vars(Check(p) \/ NothingHeard(p))

Spec == Init /\ [][Next]_vars /\ Fairness

-----------------------------------------------------------------------------
(* Shapes.                                                                 *)
TypeOK ==
    /\ Constants
    /\ \A p \in Peers : state[p].pc \in {"check", "listen", "connected", "failed"}

(* The budget of packets is passed by one round's at most: a HELLO to each *)
(* candidate and one answer.                                               *)
WithinBudget ==
    \A p \in Peers : state[p].sent < MaxTotalPunchPackets + Cardinality(Candidates[p]) + 1

(* A peer succeeds only with an address the other peer sends from; and no  *)
(* peer ever succeeds while the nonce is written with more characters than *)
(* are read back, whatever the network delivers.                           *)
ReachesPeer ==
    \A p \in Peers : state[p].pc = "connected" =>
        hexField = 2 * NonceLen /\ state[p].via \in {a \in DOMAIN At : At[a] = Other(p)}

(* Every attempt ends.                                                     *)
PunchEnds == \A p \in Peers : <>[](state[p].pc \in {"connected", "failed"})
=============================================================================
