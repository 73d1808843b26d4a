--------------------------------- MODULE NoiseIK ---------------------------------
(* The Noise IK handshake and the transport keys it yields (data-plane/src/    *)
(* crypto/noise.rs), between one initiator and one responder over UDP, which   *)
(* loses, repeats, reorders and spoils messages.  A chaining key is the        *)
(* sequence of the shared secrets mixed into it, a shared secret is named by   *)
(* its two keys, and a ciphertext opens under the key it was made with.        *)
(*                                                                             *)
(* Operators whose name ends in Mutant are faulty variants of the definition   *)
(* that follows them; no action uses them.                                     *)
EXTENDS Naturals, Sequences, FiniteSets

CONSTANTS
    MaxAttempts,  \* bound: handshake objects made, by both sides, and messages one may spoil
    MaxPackets    \* bound: packets encrypted

\* What the constants stand for.
Constants == MaxAttempts \in Nat \ {0} /\ MaxPackets \in Nat

VARIABLES
    initiator,  \* [state, e, ck, reply]: e is its ephemeral key, reply the one it accepted
    responder,  \* [state, e, ck, peer, spoiled]; spoiled: history, a message failed to open
    network,    \* handshake messages sent or made up so far: none ever leaves
    keys,       \* side -> [send, recv, nonce]
    packets,    \* packets encrypted: [side, key, nonce, number]
    fetched     \* history: sides that asked for their transport keys again

vars == <<initiator, responder, network, keys, packets, fetched>>

Sides == {"initiator", "responder"}
Garbled == 0     \* an ephemeral key no one has the secret of
HandshakeState == {"Init", "InitiatorSent", "ResponderSent", "Established"}
NoKeys == [send |-> <<>>, recv |-> <<>>, nonce |-> 0]

\* mix_key, and the shared secrets; each side has one static key.
Mix(ck, secret) == Append(ck, secret)
Es(e) == <<"es", e>>
Ss    == <<"ss">>
Ee(e, f) == <<"ee", e, f>>
Se(f) == <<"se", f>>
\* split: the two keys of a chaining key.
K1(ck) == <<1, ck>>
K2(ck) == <<2, ck>>

Fresh(e) == [state |-> "Init", e |-> e, ck |-> <<>>, reply |-> Garbled]
FreshResponder(e) == [state |-> "Init", e |-> e, ck |-> <<>>, peer |-> Garbled, spoiled |-> FALSE]
Init ==
    /\ initiator = Fresh(1) /\ responder = FreshResponder(1) /\ network = {}
    /\ keys = [s \in Sides |-> NoKeys] /\ packets = {} /\ fetched = {}

-----------------------------------------------------------------------------
(* build_initiator_message: -> e, es, s, ss.                               *)
BuildInitiatorMessage ==
    LET es == Mix(initiator.ck, Es(initiator.e)) IN
    /\ initiator.state = "Init"
    /\ initiator' = [initiator EXCEPT !.state = "InitiatorSent", !.ck = Mix(es, Ss)]
    /\ network' = network \cup {[type |-> "first", e |-> initiator.e, sealed |-> es]}
    /\ UNCHANGED <<responder, keys, packets, fetched>>

\* What a message that does not open leaves behind: its secret is in the chaining
\* key and its ephemeral key is the peer's.
Applied(r, m, es) == [r EXCEPT !.ck = es, !.peer = m.e, !.spoiled = TRUE]

(* process_initiator_message: es is mixed before the static key is opened. *)
ProcessInitiatorMessage(m) ==
    LET es == Mix(responder.ck, Es(m.e)) IN
    /\ m.type = "first" /\ responder.state = "Init" /\ Len(responder.ck) < MaxAttempts
    /\ responder' = IF m.sealed = es
                    THEN [responder EXCEPT !.state = "ResponderSent", !.ck = Mix(es, Ss), !.peer = m.e]
                    ELSE Applied(responder, m, es)
    /\ UNCHANGED <<initiator, network, keys, packets, fetched>>

(* build_responder_message: <- e, ee, se.  The responder's keys are those  *)
(* of the initiator, swapped.                                              *)
SwappedMutant(ck) == [send |-> K1(ck), recv |-> K2(ck), nonce |-> 0]
Swapped(ck) == [send |-> K2(ck), recv |-> K1(ck), nonce |-> 0]
BuildResponderMessage ==
    LET ck == Mix(Mix(responder.ck, Ee(responder.peer, responder.e)), Se(responder.e)) IN
    /\ responder.state = "ResponderSent"
    /\ responder' = [responder EXCEPT !.state = "Established", !.ck = ck]
    /\ keys' = [keys EXCEPT !["responder"] = Swapped(ck)]
    /\ network' = network \cup {[type |-> "second", e |-> responder.e, sealed |-> <<>>]}
    /\ UNCHANGED <<initiator, packets, fetched>>

(* process_responder_message: the reply is an ephemeral key and nothing    *)
(* else, so any 32 bytes will do.                                          *)
ProcessResponderMessage(m) ==
    LET ck == Mix(Mix(initiator.ck, Ee(initiator.e, m.e)), Se(m.e)) IN
    /\ m.type = "second" /\ initiator.state = "InitiatorSent"
    /\ initiator' = [initiator EXCEPT !.state = "Established", !.ck = ck, !.reply = m.e]
    /\ keys' = [keys EXCEPT !["initiator"] = [send |-> K1(ck), recv |-> K2(ck), nonce |-> 0]]
    /\ UNCHANGED <<responder, network, packets, fetched>>

(* The network spoils a message.                                           *)
Spoil(type) ==
    /\ network' = network \cup {[type |-> type, e |-> Garbled, sealed |-> <<>>]}
    /\ UNCHANGED <<initiator, responder, keys, packets, fetched>>

(* A side gives up and starts again, with a new handshake object.          *)
InitiatorRetries ==
    /\ initiator.e + responder.e < MaxAttempts /\ initiator' = Fresh(initiator.e + 1)
    /\ keys' = [keys EXCEPT !["initiator"] = NoKeys] /\ fetched' = fetched \ {"initiator"}
    /\ UNCHANGED <<responder, network, packets>>
ResponderRestarts ==
    /\ initiator.e + responder.e < MaxAttempts /\ responder' = FreshResponder(responder.e + 1)
    /\ keys' = [keys EXCEPT !["responder"] = NoKeys] /\ fetched' = fetched \ {"responder"}
    /\ UNCHANGED <<initiator, network, packets>>

-----------------------------------------------------------------------------
(* transport_keys: the keys once more, from nonce 0, and of the initiator's*)
(* direction on either side.                                               *)
TransportKeys(side) ==
    LET hs == IF side = "initiator" THEN initiator ELSE responder IN
    /\ hs.state = "Established"
    /\ keys' = [keys EXCEPT ![side] = [send |-> K1(hs.ck), recv |-> K2(hs.ck), nonce |-> 0]]
    /\ fetched' = fetched \cup {side}
    /\ UNCHANGED <<initiator, responder, network, packets>>

Of(side) == {p \in packets : p.side = side}
NextNonce(k) == [k EXCEPT !.nonce = @ + 1]
Encrypt(side) ==
    /\ keys[side] # NoKeys /\ Cardinality(packets) < MaxPackets
    /\ packets' = packets \cup {[side |-> side, key |-> keys[side].send, nonce |-> keys[side].nonce,
                                 number |-> Cardinality(Of(side))]}
    /\ keys' = [keys EXCEPT ![side] = NextNonce(@)]
    /\ UNCHANGED <<initiator, responder, network, fetched>>

Next ==
    \/ BuildInitiatorMessage \/ BuildResponderMessage \/ InitiatorRetries \/ ResponderRestarts
    \/ \E m \in network : ProcessInitiatorMessage(m) \/ ProcessResponderMessage(m)
    \/ \E type \in {"first", "second"} : Spoil(type)
    \/ \E side \in Sides : TransportKeys(side) \/ Encrypt(side)

Spec == Init /\ [][Next]_vars

-----------------------------------------------------------------------------
\* decrypt accepts exactly this, any number of times.
Opens(side, p) == p.key = keys[side].recv

(* Shapes.                                                                 *)
TypeOK ==
    /\ Constants
    /\ initiator.state \in HandshakeState /\ responder.state \in HandshakeState
    /\ \A m \in network : m.type \in {"first", "second"} /\ m.e \in 0 .. MaxAttempts
    /\ \A s \in Sides : keys[s].nonce \in 0 .. MaxPackets
    /\ fetched \subseteq Sides

(* Two sides that completed one handshake, each with the other's ephemeral *)
(* key, have the same keys, crossed: what one sends, the other opens.      *)
(* (A side that asked for its keys again may not: see TransportKeys.)      *)
Completed ==
    /\ initiator.state = "Established" /\ responder.state = "Established"
    /\ initiator.reply = responder.e /\ responder.peer = initiator.e
KeysAgree ==
    Completed /\ fetched = {} =>
        /\ keys["initiator"].send = keys["responder"].recv
        /\ keys["initiator"].recv = keys["responder"].send

(* A side never opens what it encrypted itself, nor two sides' handshakes  *)
(* mixed: only packets of the peer, of the same handshake.                 *)
NoEcho == "responder" \notin fetched =>
              \A s \in Sides : \A p \in packets : Opens(s, p) => p.side # s

(* No two packets are encrypted with one key and one nonce, unless a side   *)
(* asked for its keys a second time: that starts again from nonce 0.        *)
NoncesOnce ==
    \A s \in Sides \ fetched : \A p, q \in {r \in Of(s) : r.key = keys[s].send} :
        p.nonce = q.nonce => p = q

(* A responder that was given a message it could not open never answers    *)
(* another, the genuine one included: it must be made anew.                *)
SpoiledForEver == responder.spoiled => responder.state = "Init"
=============================================================================
