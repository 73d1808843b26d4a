----------------------------- MODULE Decentralized -----------------------------
(* The decentralised control plane (data-plane/src/decentralized/mod.rs): the  *)
(* state of a Raft node, whose elections and replication are left to callers   *)
(* that the repository does not have, and a Kademlia routing table.  Callers   *)
(* may call in any order; heartbeats carry what some leader had at the time,   *)
(* late or twice.  An identifier is a sequence of bits.                        *)
(*                                                                             *)
(* Operators whose name ends in Mutant are faulty variants of the definition   *)
(* that follows them; no action uses them.                                     *)
EXTENDS Naturals, Sequences, FiniteSets

CONSTANTS
    Nodes,      \* Raft nodes
    None,
    MaxTerm,    \* bound: terms
    MaxLog,     \* bound: entries of a log
    our_id,     \* this node's identifier in the DHT
    Ids,        \* identifiers of peers
    K,          \* peers of a bucket: 20 in the code
    Prefix,     \* bits of a distance that find_closest compares: 64 of 160 in the code
    MaxCount    \* bound: how many peers find_closest is asked for

\* What the constants stand for.
Constants ==
    /\ K \in Nat \ {0} /\ MaxTerm \in Nat /\ MaxLog \in Nat /\ MaxCount \in Nat
    /\ our_id \in Seq({0, 1}) /\ Len(our_id) > 0 /\ Prefix \in 0 .. Len(our_id)
    /\ IsFiniteSet(Ids) /\ \A i \in Ids : i \in Seq({0, 1}) /\ Len(i) = Len(our_id)

VARIABLES
    node,        \* Raft node -> [role, term, voted_for, log, commit_index, leader_id]
    heartbeats,  \* [leader, term, commit_index]: sent so far
    appended,    \* history: <<node, result, entry>> of append_entry
    buckets,     \* index -> the peers, oldest first
    found        \* the last answer of find_closest: <<target, count, peers>>

vars == <<node, heartbeats, appended, buckets, found>>

Width == Len(our_id)
Init ==
    /\ node = [n \in Nodes |-> [role |-> "Follower", term |-> 0, voted_for |-> None, log |-> <<>>,
                                commit_index |-> 0, leader_id |-> None]]
    /\ heartbeats = {} /\ appended = {}
    /\ buckets = [i \in 0 .. Width - 1 |-> <<>>] /\ found = <<our_id, 0, <<>>>>

-----------------------------------------------------------------------------
StartElection(n) ==
    /\ node[n].term < MaxTerm
    /\ node' = [node EXCEPT ![n].role = "Candidate", ![n].term = @ + 1, ![n].voted_for = n]
    /\ UNCHANGED <<heartbeats, appended, buckets, found>>

(* become_leader asks neither for a candidacy nor for votes.               *)
BecomeLeader(n) ==
    /\ node' = [node EXCEPT ![n] = [@ EXCEPT !.role = "Leader", !.leader_id = n]]
    /\ UNCHANGED <<heartbeats, appended, buckets, found>>

MayAppend(n) == node[n].role = "Leader"
\* append_entry answers the position from 0, where the entry's index is from 1.
Result(log) == Len(log)
AppendEntry(n) ==
    LET entry == [index |-> Len(node[n].log) + 1, term |-> node[n].term, leads |-> node[n].role] IN
    /\ MayAppend(n) /\ Len(node[n].log) < MaxLog
    /\ node' = [node EXCEPT ![n].log = Append(@, entry)]
    /\ appended' = appended \cup {<<n, Result(node[n].log), entry>>}
    /\ UNCHANGED <<heartbeats, buckets, found>>

(* A leader's callers send what it has; receive_heartbeat takes any term   *)
(* that is not older, and the commit index as it comes.                    *)
SendHeartbeat(n) ==
    /\ node[n].role = "Leader"
    /\ heartbeats' = heartbeats \cup {[leader |-> n, term |-> node[n].term, commit_index |-> Len(node[n].log)]}
    /\ UNCHANGED <<node, appended, buckets, found>>

FreshMutant(n, h) == TRUE
Fresh(n, h) == h.term >= node[n].term
ReceiveHeartbeat(n, h) ==
    /\ h.leader # n /\ Fresh(n, h)
    /\ node' = [node EXCEPT ![n] = [@ EXCEPT !.role = "Follower", !.term = h.term,
                                             !.leader_id = h.leader, !.commit_index = h.commit_index]]
    /\ UNCHANGED <<heartbeats, appended, buckets, found>>

-----------------------------------------------------------------------------
Distance(a, b) == [i \in 1 .. Width |-> (a[i] + b[i]) % 2]
(* bucket_index: the leading zeroes of the distance, 0 for our own.        *)
BucketIndex(id) ==
    LET d == Distance(our_id, id) IN
    IF \A i \in 1 .. Width : d[i] = 0 THEN 0
    ELSE Cardinality({i \in 1 .. Width : \A j \in 1 .. i : d[j] = 0})

HasRoom(bucket) == Len(bucket) < K
InSeq(x, s) == \E i \in DOMAIN s : s[i] = x
(* add_peer: a peer that is known stays where it is, and a full bucket     *)
(* keeps those it has.                                                     *)
AddPeer(id) ==
    LET b == BucketIndex(id) IN
    /\ ~InSeq(id, buckets[b]) /\ HasRoom(buckets[b])
    /\ buckets' = [buckets EXCEPT ![b] = Append(@, id)]
    /\ UNCHANGED <<node, heartbeats, appended, found>>

Stored == UNION {{buckets[b][i] : i \in DOMAIN buckets[b]} : b \in DOMAIN buckets}
\* The order that find_closest sorts by: bits that come first count first.
Nearer(a, b, target, bits) ==
    \E i \in 1 .. bits : /\ Distance(a, target)[i] < Distance(b, target)[i]
                         /\ \A j \in 1 .. i - 1 : Distance(a, target)[j] = Distance(b, target)[j]
Sorts(s, target) == \A i, j \in DOMAIN s : i < j => ~Nearer(s[j], s[i], target, Prefix)
(* find_closest: all peers, sorted, and cut.                               *)
FindClosest(target, count) ==
    /\ \E s \in [1 .. Cardinality(Stored) -> Stored] :
          /\ \A p \in Stored : InSeq(p, s)
          /\ Sorts(s, target)
          /\ found' = <<target, count, SubSeq(s, 1, IF count < Len(s) THEN count ELSE Len(s))>>
    /\ UNCHANGED <<node, heartbeats, appended, buckets>>

NextRaft ==
    \E n \in Nodes : \/ StartElection(n) \/ BecomeLeader(n) \/ AppendEntry(n) \/ SendHeartbeat(n)
                     \/ \E h \in heartbeats : ReceiveHeartbeat(n, h)
NextDht ==
    \/ \E id \in Ids : AddPeer(id)
    \/ \E id \in Ids, count \in 1 .. MaxCount : FindClosest(id, count)
Next == NextRaft \/ NextDht

Spec == Init /\ [][Next]_vars

-----------------------------------------------------------------------------
(* Shapes.                                                                 *)
TypeOK ==
    /\ Constants
    /\ \A n \in Nodes : node[n].role \in {"Follower", "Candidate", "Leader"} /\ node[n].term <= MaxTerm

(* A log holds each index once and in order, in terms that do not go back, *)
(* of entries that were appended by a leader, to its own log.              *)
LogsInOrder ==
    \A n \in Nodes :
        LET log == node[n].log IN
        \A i \in DOMAIN log : /\ log[i].index = i /\ log[i].leads = "Leader"
                              /\ \A j \in 1 .. i : log[j].term <= log[i].term /\ log[i].term <= node[n].term

(* What append_entry answers is one less than the index of the entry.      *)
AnswerIsPosition == \A x \in appended : x[2] + 1 = x[3].index

(* A node's term never goes back, and its log never changes but at its end.*)
TermsGrow ==
    [][\A n \in Nodes : /\ node'[n].term >= node[n].term
                        /\ \A i \in DOMAIN node[n].log : i \in DOMAIN node'[n].log
                                                         /\ node'[n].log[i] = node[n].log[i]]_vars

(* A bucket holds no more than K peers, each once; and two peers of one    *)
(* bucket, but our own identifier, differ from ours at the same first bit. *)
BucketsExact ==
    \A b \in DOMAIN buckets : LET s == buckets[b] IN
        /\ Len(s) <= K
        /\ \A i, j \in DOMAIN s : i # j => s[i] # s[j]
        /\ \A i \in DOMAIN s : s[i] # our_id =>
              /\ s[i][b + 1] # our_id[b + 1]
              /\ \A k \in 1 .. b : s[i][k] = our_id[k]

(* No peer left out by find_closest was nearer than one in the answer, in  *)
(* the bits that it compares (the table may have grown since: never shrunk).*)
ClosestFound ==
    [][found' # found => \A p \in Stored, i \in DOMAIN found'[3] :
          InSeq(p, found'[3]) \/ ~Nearer(p, found'[3][i], found'[1], Prefix)]_vars
=============================================================================
