---------------------------------- MODULE Dpdk ----------------------------------
(* The DPDK manager (data-plane/src/dpdk/mod.rs): the life of its ports and    *)
(* pools, and the spreading of flows over receive queues by a Toeplitz hash.   *)
(* A 32-bit word is the set of the positions of its bits that are set.         *)
EXTENDS Integers, Sequences, FiniteSets, Functions

CONSTANTS
    Ports,       \* port identifiers
    Flows,       \* [src_ip, dst_ip, src_port, dst_port]: addresses as four bytes
    HashKey,     \* the first four bytes of the hash key; the others are not used
    Redirects,   \* redirection tables to try
    MaxTasks,    \* bound: forwarding tasks of a port
    MaxPackets   \* bound: packets handed to the batch processor

\* A port is a word of sixteen bits.
Words16 == 0 .. 256 * 256 - 1

\* What the constants stand for.
Constants ==
    /\ HashKey \in [1 .. 4 -> 0 .. 255]
    /\ Flows \subseteq [src_ip : [1 .. 4 -> 0 .. 255], dst_ip : [1 .. 4 -> 0 .. 255],
                       src_port : Words16, dst_port : Words16]
    /\ \A r \in Redirects : r \in Seq(Nat) /\ r # <<>>

VARIABLES
    initialized,
    ports,        \* ports configured
    port_stats,   \* ports that have a record of statistics
    configuring,  \* calls of configure_port between their two writes
    mempools,     \* pools that exist
    forwarding,   \* port -> forwarding tasks running
    reta,         \* the redirection table
    queued,       \* <<flow, queue>>: where the flows seen were put
    batches       \* [batches, packets]; bursts: history, the sizes of the bursts

vars == <<initialized, ports, port_stats, configuring, mempools, forwarding, reta, queued, batches>>

Init ==
    /\ initialized = FALSE /\ ports = {} /\ port_stats = {} /\ configuring = {} /\ mempools = {}
    /\ forwarding = [p \in Ports |-> 0] /\ reta \in Redirects /\ queued = {}
    /\ batches = [batches |-> 0, packets |-> 0, bursts |-> <<>>]

-----------------------------------------------------------------------------
\* initialize and shutdown hold the manager alone.
Initialize ==
    /\ configuring = {}
    /\ initialized' = TRUE /\ mempools' = mempools \cup {"default", "jumbo"}
    /\ UNCHANGED <<ports, port_stats, configuring, forwarding, reta, queued, batches>>

(* configure_port: the port, then its statistics, under a lock each.       *)
ConfigurePort(p) ==
    /\ initialized /\ p \notin configuring
    /\ ports' = ports \cup {p} /\ configuring' = configuring \cup {p}
    /\ UNCHANGED <<initialized, port_stats, mempools, forwarding, reta, queued, batches>>
PortConfigured(p) ==
    /\ p \in configuring
    /\ port_stats' = port_stats \cup {p} /\ configuring' = configuring \ {p}
    /\ UNCHANGED <<initialized, ports, mempools, forwarding, reta, queued, batches>>

Starts(p) == p \in ports
(* start_forwarding: one more task that no one stops.                      *)
StartForwarding(p) ==
    /\ Starts(p) /\ forwarding[p] < MaxTasks
    /\ forwarding' = [forwarding EXCEPT ![p] = @ + 1]
    /\ UNCHANGED <<initialized, ports, port_stats, configuring, mempools, reta, queued, batches>>

(* shutdown clears the tables; the tasks go on.                            *)
Shutdown ==
    /\ configuring = {}
    /\ initialized' = FALSE /\ ports' = {} /\ port_stats' = {} /\ mempools' = {}
    /\ UNCHANGED <<configuring, forwarding, reta, queued, batches>>

(* BatchProcessor::process_burst: any size, whatever the limit was set to. *)
ProcessBurst(n) ==
    /\ batches.packets + n <= MaxPackets
    /\ batches' = [batches |-> batches.batches + 1, packets |-> batches.packets + n,
                   bursts |-> Append(batches.bursts, n)]
    /\ UNCHANGED <<initialized, ports, port_stats, configuring, mempools, forwarding, reta, queued>>

-----------------------------------------------------------------------------
Weights == <<128, 64, 32, 16, 8, 4, 2, 1>>
BitString(bytes) ==
    [i \in 1 .. 8 * Len(bytes) |-> (bytes[(i - 1) \div 8 + 1] \div Weights[((i - 1) % 8) + 1]) % 2 = 1]
KeyWord == LET key == BitString(HashKey) IN {k \in 0 .. 31 : key[32 - k]}

\* How far the key mixed in for the i-th of n bits is shifted: it is shifted at once.
Shift(n, i) == n - i + 1

(* toeplitz_hash: the sum, without carry, of the keys mixed in for the bits*)
(* that are set, each shifted by the steps that were left.                 *)
ToeplitzHash(f) ==
    LET Bytes(port) == <<port \div 256, port % 256>>
        input == BitString(f.src_ip \o f.dst_ip \o Bytes(f.src_port) \o Bytes(f.dst_port))
        key   == KeyWord
    IN  {k \in 0 .. 31 :
            Cardinality({i \in DOMAIN input : input[i] /\ k - Shift(Len(input), i) \in key}) % 2 = 1}

\* The remainder of a word.
Remainder(w, n) ==
    LET power[k \in 0 .. 31] == IF k = 0 THEN 1 % n ELSE (2 * power[k - 1]) % n
    IN  SumFunction([k \in w |-> power[k]]) % n

(* get_queue.                                                              *)
GetQueue(f) == reta[Remainder(ToeplitzHash(f), Len(reta)) + 1]
Receive(f) ==
    /\ initialized /\ \A q \in queued : q[1] # f
    /\ queued' = queued \cup {<<f, GetQueue(f)>>}
    /\ UNCHANGED <<initialized, ports, port_stats, configuring, mempools, forwarding, reta, batches>>

Next ==
    \/ Initialize \/ Shutdown
    \/ \E p \in Ports : ConfigurePort(p) \/ PortConfigured(p) \/ StartForwarding(p)
    \/ \E f \in Flows : Receive(f)
    \/ \E n \in 1 .. MaxPackets : ProcessBurst(n)

Spec == Init /\ [][Next]_vars

-----------------------------------------------------------------------------
(* Shapes.                                                                 *)
TypeOK ==
    /\ Constants
    /\ ports \subseteq Ports /\ mempools \subseteq {"default", "jumbo"} /\ configuring \subseteq ports
    /\ \A q \in queued : \E i \in DOMAIN reta : q[2] = reta[i]

(* A port has statistics, but for the moment between the two writes.       *)
StatsFollowPorts == port_stats \subseteq ports /\ ports \ port_stats \subseteq configuring
(* An uninitialised manager has no ports; a task was started for a port.   *)
PortsNeedInit == ~initialized => ports = {} /\ mempools = {}

(* The queue of a flow depends on its ports alone: by the end of the hash  *)
(* the bits of the addresses have been shifted out of the word.            *)
PortsDecide ==
    \A q, r \in queued :
        q[1].src_port = r[1].src_port /\ q[1].dst_port = r[1].dst_port => q[2] = r[2]

(* With a table of up to four queues, as by default, every flow is put in  *)
(* the first: the hash is a sum of multiples of four, for a key like the   *)
(* default one, whose fourth byte is even.                                 *)
OneQueue == Len(reta) \in {1, 2, 4} /\ HashKey[4] % 2 = 0 => \A q \in queued : q[2] = reta[1]
=============================================================================
