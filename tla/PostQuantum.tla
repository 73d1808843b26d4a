------------------------------ MODULE PostQuantum ------------------------------
(* The post-quantum engine (data-plane/src/post_quantum/mod.rs): the           *)
(* negotiation of algorithms, and the placeholders the code has for the hybrid *)
(* key encapsulation and the signatures.  A shared secret is a token; keys and *)
(* ciphertexts are their sizes.                                                *)
EXTENDS Integers, Sequences, FiniteSets

CONSTANTS
    Engines,       \* PqcEngine, one per node
    Capabilities,  \* PqcCapabilities: [kems, signatures, min_security_level]
    Messages,      \* messages that are signed
    MaxSecrets,    \* bound: shared secrets produced
    MaxSigned      \* bound: signatures made

Kems == {"MlKem512", "MlKem768", "MlKem1024", "HybridX25519MlKem768"}
Signatures == {"MlDsa44", "MlDsa65", "MlDsa87", "SlhDsa128s", "SlhDsa128f", "HybridEd25519MlDsa65"}

\* What the constants stand for.
Constants ==
    /\ \A c \in Capabilities : /\ c.kems \in Seq(Kems) /\ c.signatures \in Seq(Signatures)
                               /\ c.min_security_level \in Nat
    /\ MaxSecrets \in Nat /\ MaxSigned \in Nat

Level == [MlKem512 |-> 1, MlKem768 |-> 3, MlKem1024 |-> 5, MlDsa44 |-> 2, MlDsa65 |-> 3,
          MlDsa87 |-> 5, SlhDsa128s |-> 1, SlhDsa128f |-> 1,
          HybridX25519MlKem768 |-> 3, HybridEd25519MlDsa65 |-> 3]
PublicKeySize == [MlKem512 |-> 800, MlKem768 |-> 1184, MlKem1024 |-> 1568, HybridX25519MlKem768 |-> 1216]
CiphertextSize == [MlKem512 |-> 768, MlKem768 |-> 1088, MlKem1024 |-> 1568, HybridX25519MlKem768 |-> 1120]

VARIABLES
    capabilities,  \* engine -> its capabilities
    active,        \* engine -> <<kem, signature>>, or <<>>: active_kem, active_signature
    partner,       \* history: engine -> the engine of its last successful negotiation
    keypairs,      \* engine -> key pairs generated
    network,       \* [type, of, by, size, ...]: public keys and ciphertexts sent
    secrets,       \* [holder, number, token]: shared secrets, by number of the ciphertext
    signed         \* [by, variant, hash]: signatures made

vars == <<capabilities, active, partner, keypairs, network, secrets, signed>>

Init ==
    /\ capabilities \in [Engines -> Capabilities]
    /\ active = [e \in Engines |-> <<>>] /\ partner = [e \in Engines |-> e]
    /\ keypairs = [e \in Engines |-> 0] /\ network = {} /\ secrets = {} /\ signed = {}

-----------------------------------------------------------------------------
Highest(i, j) == IF i > j THEN i ELSE j
InSeq(x, s) == \E i \in DOMAIN s : s[i] = x

\* Positions of what both list, at the level or above.
FirstCommon(mine, theirs, level) == {i \in DOMAIN mine : Level[mine[i]] >= level /\ InSeq(mine[i], theirs)}
First(mine, s) == mine[CHOOSE i \in s : \A j \in s : i <= j]

(* negotiate_pqc: the first of the local list that the remote lists too.   *)
NegotiatePqc(local, remote) ==
    LET level == Highest(local.min_security_level, remote.min_security_level)
        kems  == FirstCommon(local.kems, remote.kems, level)
        sigs  == FirstCommon(local.signatures, remote.signatures, level)
    IN  IF kems = {} \/ sigs = {} THEN <<>>
        ELSE <<First(local.kems, kems), First(local.signatures, sigs)>>

(* PqcEngine::negotiate.  A failure leaves what an earlier partner agreed. *)
Negotiate(e, f) ==
    LET chosen == NegotiatePqc(capabilities[e], capabilities[f]) IN
    /\ IF chosen = <<>> THEN UNCHANGED <<active, partner>>
       ELSE active' = [active EXCEPT ![e] = chosen] /\ partner' = [partner EXCEPT ![e] = f]
    /\ UNCHANGED <<capabilities, keypairs, network, secrets, signed>>

-----------------------------------------------------------------------------
\* KyberKeyGen::generate and kyber_encapsulate, of the variant the hybrid uses.
KyberPk == 1184
KyberCt == 1088

(* generate_hybrid_keypair, of X25519 and Kyber768 whatever was negotiated.*)
GenerateHybridKeypair(e) ==
    /\ keypairs[e] = 0
    /\ keypairs' = [keypairs EXCEPT ![e] = @ + 1]
    /\ network' = network \cup {[type |-> "key", of |-> e, by |-> e, number |-> 0, size |-> 32 + KyberPk]}
    /\ UNCHANGED <<capabilities, active, partner, secrets, signed>>

Token == Cardinality(secrets)
(* encapsulate to a public key, whatever was negotiated.                   *)
Encapsulate(e, pk) ==
    /\ pk.type = "key" /\ Token < MaxSecrets
    /\ secrets' = secrets \cup {[holder |-> e, number |-> Token, token |-> Token]}
    /\ network' = network \cup {[type |-> "ciphertext", of |-> pk.of, by |-> e, number |-> Token,
                                 size |-> 32 + KyberCt]}
    /\ UNCHANGED <<capabilities, active, partner, keypairs, signed>>

\* decapsulate draws a secret of its own: neither the key nor the ciphertext counts.
Recovered(ct) == Token
Decapsulate(e, ct) ==
    /\ ct.type = "ciphertext" /\ ct.of = e /\ Token < MaxSecrets
    /\ secrets' = secrets \cup {[holder |-> e, number |-> ct.number, token |-> Recovered(ct)]}
    /\ UNCHANGED <<capabilities, active, partner, keypairs, network, signed>>

(* dilithium_sign: the signature holds the message's hash.                 *)
Sign(e, m) ==
    /\ Cardinality(signed) < MaxSigned
    /\ signed' = signed \cup {[by |-> e, variant |-> "Dilithium65", hash |-> m]}
    /\ UNCHANGED <<capabilities, active, partner, keypairs, network, secrets>>

(* dilithium_verify: of the key, only its variant counts.                  *)
Verifies(variant, m, s) == variant = s.variant /\ s.hash = m

Next ==
    \/ \E e, f \in Engines : e # f /\ Negotiate(e, f)
    \/ \E e \in Engines : GenerateHybridKeypair(e)
    \/ \E e \in Engines, m \in network : Encapsulate(e, m) \/ Decapsulate(e, m)
    \/ \E e \in Engines, m \in Messages : Sign(e, m)

Spec == Init /\ [][Next]_vars

-----------------------------------------------------------------------------
(* Shapes.                                                                 *)
TypeOK ==
    /\ Constants
    /\ \A e \in Engines : active[e] = <<>> \/ active[e] \in Kems \X Signatures
    /\ Token <= MaxSecrets

(* What an engine works with is what both it and its last partner support, *)
(* at the stricter of their two levels.                                    *)
LevelsHold ==
    \A e \in Engines : active[e] # <<>> =>
        \A c \in {capabilities[e], capabilities[partner[e]]} :
            /\ InSeq(active[e][1], c.kems) /\ InSeq(active[e][2], c.signatures)
            /\ \A i \in 1 .. 2 : Level[active[e][i]] >= c.min_security_level

(* Two engines that negotiated with each other last agree, if they list    *)
(* the algorithms in one order (each picks by its own order, so they need   *)
(* not agree otherwise).                                                   *)
SameOrderAgrees ==
    \A e, f \in Engines :
        /\ partner[e] = f /\ partner[f] = e /\ e # f
        /\ capabilities[e].kems = capabilities[f].kems
        /\ capabilities[e].signatures = capabilities[f].signatures
        => active[e] = active[f]

(* The placeholder never gives the two ends one secret.                    *)
SecretsDiffer == \A s, t \in secrets : s.number = t.number /\ s # t => s.token # t.token

(* What is sent has the size its algorithm declares.                       *)
SizesDeclared ==
    \A m \in network : m.size = IF m.type = "key" THEN PublicKeySize["HybridX25519MlKem768"]
                                ELSE CiphertextSize["HybridX25519MlKem768"]

(* A signature verifies for the message it was made of and no other, under *)
(* every key of its variant.                                               *)
VerifiesItsMessage == \A s \in signed, m \in Messages : Verifies("Dilithium65", m, s) <=> s.hash = m
=============================================================================
