-------------------------------- MODULE Gossip --------------------------------
(* SWIM membership of the mesh (data-plane/src/mesh_routing/gossip.rs): each *)
(* node's view of the others, and the datagrams between nodes.  process_     *)
(* message holds the members lock throughout, so one call is one action.     *)
(* Sequence numbers are left out: no handler compares them.  The engine has  *)
(* no driver of its own; when to ping, spread or give a verdict is the       *)
(* caller's choice, and any time will do.  Datagrams may be lost, duplicated *)
(* and reordered.                                                            *)
(*                                                                           *)
(* Operators whose name ends in Mutant are faulty variants of the            *)
(* definition that follows them; no action uses them.                        *)
EXTENDS Naturals, FiniteSets

CONSTANTS
    Nodes,
    MaxMessages,    \* bound: messages under way at a time
    MaxSent,        \* bound: messages a caller starts in a run
    MaxVerdicts,    \* bound: suspect and dead verdicts in a run
    MaxIncarnation  \* bound: how often a node contradicts its death

\* What the constants stand for.
Constants ==
    /\ IsFiniteSet(Nodes)
    /\ MaxMessages \in Nat /\ MaxSent \in Nat /\ MaxVerdicts \in Nat /\ MaxIncarnation \in Nat

VARIABLES
    members,      \* per node: device -> what it believes of it
    incarnation,  \* per node: its own incarnation counter
    up,           \* nodes that run
    net,          \* messages under way
    sent,         \* how many messages callers have started
    verdicts,     \* how many verdicts callers have given
    condemned     \* history: nodes that somebody has marked dead

vars == <<members, incarnation, up, net, sent, verdicts, condemned>>

MemberState == {"Alive", "Suspect", "Dead"}
Member == [state : MemberState, incarnation : Nat]
IsView(v) == DOMAIN v \subseteq Nodes /\ v \in [DOMAIN v -> Member]
Newcomer == [state |-> "Alive", incarnation |-> 0]

Put(f, k, v) == [x \in DOMAIN f \cup {k} |-> IF x = k THEN v ELSE f[x]]

Ping(n, to, d)         == [type |-> "Ping", from |-> n, to |-> to, about |-> d]
Ack(n, to)             == [type |-> "Ack", from |-> n, to |-> to, about |-> n]
IndirectPing(n, to, d) == [type |-> "IndirectPing", from |-> n, to |-> to, about |-> d]
Update(n, to)          == [type |-> "MembershipUpdate", from |-> n, to |-> to,
                           about |-> members[n]]

Init ==
    /\ members = [n \in Nodes |-> [d \in {} |-> Newcomer]]
    /\ incarnation = [n \in Nodes |-> 0]
    /\ up = Nodes /\ net = {} /\ sent = 0 /\ verdicts = 0 /\ condemned = {}

-----------------------------------------------------------------------------
(* join: a node enters itself; add_member: its caller tells it of another, *)
(* which it takes only if it is new (it comes with incarnation 0).         *)
Join(n) ==
    /\ n \in up
    /\ members' = [members EXCEPT ![n] = Put(@, n, Newcomer)]
    /\ UNCHANGED <<incarnation, up, net, sent, verdicts, condemned>>
AddMember(n, d) ==
    /\ n \in up /\ n # d /\ d \notin DOMAIN members[n]
    /\ members' = [members EXCEPT ![n] = Put(@, d, Newcomer)]
    /\ UNCHANGED <<incarnation, up, net, sent, verdicts, condemned>>

Send(m) ==
    /\ Cardinality(net) < MaxMessages /\ sent < MaxSent
    /\ net' = net \cup {m} /\ sent' = sent + 1
    /\ UNCHANGED <<members, incarnation, up, verdicts, condemned>>

\* select_random_peer: some other member believed alive.
AlivePeers(n) == {d \in DOMAIN members[n] \ {n} : members[n][d].state = "Alive"}
BuildPing(n) == n \in up /\ \E d \in AlivePeers(n) : Send(Ping(n, d, d))
BuildIndirectPing(n, helper, d) ==
    n \in up /\ helper # n /\ d \in DOMAIN members[n] /\ Send(IndirectPing(n, helper, d))
BuildMembershipUpdate(n, to) == n \in up /\ to # n /\ Send(Update(n, to))

-----------------------------------------------------------------------------
\* The message leaves the network, or a duplicate of it stays; a reply follows.
Receive(m, replies) ==
    /\ m \in net /\ m.to \in up
    /\ \E rest \in {net, net \ {m}} : net' = rest \cup replies
    /\ Cardinality(net') <= MaxMessages
    /\ UNCHANGED <<up, sent, verdicts, condemned>>

ProcessPing(m) ==
    /\ m.type = "Ping"
    /\ Receive(m, IF m.about = m.to THEN {Ack(m.to, m.from)} ELSE {})
    /\ UNCHANGED <<members, incarnation>>

ProcessAck(m) ==
    /\ m.type = "Ack" /\ Receive(m, {})
    /\ members' = IF m.about \in DOMAIN members[m.to]
                  THEN [members EXCEPT ![m.to][m.about].state = "Alive"]
                  ELSE members
    /\ UNCHANGED incarnation

ProcessIndirectPing(m) ==
    /\ m.type = "IndirectPing"
    /\ Receive(m, IF m.about # m.to THEN {Ping(m.to, m.about, m.about)} ELSE {})
    /\ UNCHANGED <<members, incarnation>>

NewsMutant(view, d, theirs) == d \notin DOMAIN view \/ theirs.incarnation >= view[d].incarnation
News(view, d, theirs) == d \notin DOMAIN view \/ theirs.incarnation > view[d].incarnation

MergeMutant(n, theirs) ==       \* without the continue for its own entry
    [d \in DOMAIN members[n] \cup DOMAIN theirs |->
        IF d \in DOMAIN theirs /\ News(members[n], d, theirs[d])
        THEN theirs[d] ELSE members[n][d]]
\* Entries about others that are new or of a later incarnation replace ours.
Merge(n, theirs) ==
    [d \in DOMAIN members[n] \cup (DOMAIN theirs \ {n}) |->
        IF d # n /\ d \in DOMAIN theirs /\ News(members[n], d, theirs[d])
        THEN theirs[d] ELSE members[n][d]]

RumourMutant(n, theirs) == n \in DOMAIN theirs /\ theirs[n].state # "Alive"
\* Somebody believes the receiver dead.
Rumour(n, theirs) == n \in DOMAIN theirs /\ theirs[n].state = "Dead"

ProcessUpdate(m) ==
    /\ m.type = "MembershipUpdate" /\ Receive(m, {})
    /\ members' = [members EXCEPT ![m.to] = Merge(m.to, m.about)]
    /\ Rumour(m.to, m.about) => incarnation[m.to] < MaxIncarnation
    /\ incarnation' = IF Rumour(m.to, m.about)
                      THEN [incarnation EXCEPT ![m.to] = @ + 1] ELSE incarnation

-----------------------------------------------------------------------------
\* The caller's probes of d, a target of its pings, went unanswered.
Verdict(n, d, state) ==
    /\ n \in up /\ d \in DOMAIN members[n] \ {n} /\ verdicts < MaxVerdicts
    /\ members' = [members EXCEPT ![n][d].state = state]
    /\ verdicts' = verdicts + 1
    /\ UNCHANGED <<incarnation, up, net, sent>>
MarkSuspect(n, d) == Verdict(n, d, "Suspect") /\ UNCHANGED condemned
MarkDead(n, d)    == Verdict(n, d, "Dead") /\ condemned' = condemned \cup {d}

Crash(n) ==
    /\ n \in up /\ up' = up \ {n}
    /\ UNCHANGED <<members, incarnation, net, sent, verdicts, condemned>>
Lose(m) ==
    /\ m \in net /\ net' = net \ {m}
    /\ UNCHANGED <<members, incarnation, up, sent, verdicts, condemned>>

Next ==
    \/ \E n \in Nodes : Join(n) \/ BuildPing(n) \/ Crash(n)
    \/ \E n, d \in Nodes :
        \/ AddMember(n, d) \/ BuildMembershipUpdate(n, d)
        \/ MarkSuspect(n, d) \/ MarkDead(n, d)
        \/ \E helper \in Nodes : BuildIndirectPing(n, helper, d)
    \/ \E m \in net :
        \/ ProcessPing(m) \/ ProcessAck(m) \/ ProcessIndirectPing(m) \/ ProcessUpdate(m)
        \/ Lose(m)

Spec == Init /\ [][Next]_vars

-----------------------------------------------------------------------------
(* Views, counters and messages have the shapes of the structs, and nobody *)
(* pings itself.                                                           *)
TypeOK ==
    /\ DOMAIN members = Nodes /\ \A n \in Nodes : IsView(members[n])
    /\ incarnation \in [Nodes -> 0 .. MaxIncarnation]
    /\ up \subseteq Nodes /\ condemned \subseteq Nodes
    /\ sent \in 0 .. MaxSent /\ verdicts \in 0 .. MaxVerdicts
    /\ \A m \in net :
        /\ m.from \in Nodes /\ m.to \in Nodes
        /\ m.type = "Ping" => m.about # m.from
        /\ IF m.type = "MembershipUpdate" THEN IsView(m.about) ELSE m.about \in Nodes

(* Hearsay does not raise the dead: once a node is down and no Ack of it   *)
(* is under way, whoever holds it dead will never believe it alive again,  *)
(* whatever late or duplicated membership updates still arrive.            *)
NoResurrection ==
    [][\A n, d \in Nodes :
        /\ d \notin up
        /\ ~ \E m \in net : m.type = "Ack" /\ m.about = d
        /\ d \in DOMAIN members[n] /\ members[n][d].state = "Dead"
        => members'[n][d].state = "Dead"
           \/ members'[n][d].state = "Suspect"]_vars

(* No rumour makes a node doubt itself: in its own table a node is alive.  *)
SelfAlive ==
    \A n \in Nodes : n \in DOMAIN members[n] => members[n][n].state = "Alive"

(* "Bump our incarnation if someone thinks we're dead": a counter moves    *)
(* only for a node that somebody has marked dead, however the rumour came. *)
BumpJustified == \A n \in Nodes : incarnation[n] > 0 => n \in condemned
=============================================================================
