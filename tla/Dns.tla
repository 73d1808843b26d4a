----------------------------------- MODULE Dns -----------------------------------
(* The mesh name server (data-plane/src/dns/mod.rs): records, a cache of       *)
(* answers and the upstream servers, each under a lock of its own.  A          *)
(* resolution looks in the cache, then in the records or upstream, then writes *)
(* the cache; a forwarded one holds the lock of the server list while it waits *)
(* for the servers.  A cached answer lives 300 seconds, whatever its record    *)
(* says.                                                                       *)
EXTENDS Naturals, Sequences

CONSTANTS
    MeshNames, OtherNames, Ips, NoIp,
    Callers,
    ServerLists,   \* sequences of upstream servers
    Responses      \* what a server may send: [rcode, answers], answers of [type, ip]

Names == MeshNames \cup OtherNames

\* What the constants stand for.
Constants == /\ NoIp \notin Ips /\ MeshNames \cap OtherNames = {}
             /\ \A r \in Responses : r.rcode \in 0 .. 15 /\ DOMAIN r.answers \subseteq Nat
                                     /\ \A i \in DOMAIN r.answers : r.answers[i].ip \in Ips

VARIABLES
    records,   \* mesh name -> address
    cache,     \* name -> address
    upstream,  \* the server list
    writing,   \* the server list a set_upstream waits to put in place: a set of one, or none
    calls,     \* resolver -> [name, at, ip, left]; left is the servers still to be asked
    changed    \* history: names whose record changed under the cache or a resolver

vars == <<records, cache, upstream, writing, calls, changed>>

Put(f, k, v) == [x \in DOMAIN f \cup {k} |-> IF x = k THEN v ELSE f[x]]
Drop(f, k)   == [x \in DOMAIN f \ {k} |-> f[x]]
At(step)     == {c \in DOMAIN calls : calls[c].at = step}

Init ==
    /\ records = [n \in {} |-> 0] /\ cache = [n \in {} |-> 0] /\ upstream \in ServerLists
    /\ writing = {} /\ calls = [c \in {} |-> 0] /\ changed = {}

\* Names the cache holds or a resolver has an answer for.
Answered == DOMAIN cache \cup {calls[c].name : c \in At("caching")}

-----------------------------------------------------------------------------
(* register and unregister leave the cache as it is.                       *)
Register(name, ip) ==
    /\ records' = Put(records, name, ip)
    /\ changed' = changed \cup ({name} \cap Answered)
    /\ UNCHANGED <<cache, upstream, writing, calls>>
Unregister(name) ==
    /\ records' = Drop(records, name)
    /\ changed' = changed \cup ({name} \cap Answered)
    /\ UNCHANGED <<cache, upstream, writing, calls>>

(* clear_cache, and the end of an entry's 300 seconds.  A resolver that    *)
(* has its answer already writes it all the same.                          *)
ClearCache ==
    /\ cache' = [n \in {} |-> 0]
    /\ changed' = changed \cap {calls[c].name : c \in At("caching")}
    /\ UNCHANGED <<records, upstream, writing, calls>>
EntryExpires(name) ==
    /\ name \in DOMAIN cache /\ cache' = Drop(cache, name)
    /\ changed' = changed \ ({name} \ {calls[c].name : c \in At("caching")})
    /\ UNCHANGED <<records, upstream, writing, calls>>

-----------------------------------------------------------------------------
(* resolve: not in the cache.                                              *)
Resolve(c, name) ==
    /\ c \notin DOMAIN calls /\ name \notin DOMAIN cache
    /\ calls' = Put(calls, c, [name |-> name, at |-> IF name \in MeshNames THEN "records" ELSE "upstream",
                               ip |-> NoIp, left |-> <<>>])
    /\ UNCHANGED <<records, cache, upstream, writing, changed>>

Authoritative(c) ==
    /\ c \in At("records")
    /\ LET name == calls[c].name IN
       calls' = IF name \in DOMAIN records
                THEN [calls EXCEPT ![c] = [@ EXCEPT !.at = "caching", !.ip = records[name]]]
                ELSE Drop(calls, c)
    /\ UNCHANGED <<records, cache, upstream, writing, changed>>

\* The lock of the server list is fair: who comes after a waiting writer waits too.
LockFair == writing = {}
Forward(c) ==
    /\ c \in At("upstream") /\ LockFair
    /\ calls' = [calls EXCEPT ![c] = [@ EXCEPT !.at = "asking", !.left = upstream]]
    /\ UNCHANGED <<records, cache, upstream, writing, changed>>

\* parse_dns_response: the first A record, whoever sent the packet and whichever
\* query it answers.
ARecords(answers) == {i \in DOMAIN answers : answers[i].type = "A"}
FirstA(answers) == CHOOSE i \in ARecords(answers) : \A j \in ARecords(answers) : i <= j
Parsed(response) == IF response.rcode # 0 \/ ARecords(response.answers) = {} THEN NoIp
                    ELSE response.answers[FirstA(response.answers)].ip

(* dns_query: the server that comes next answers, or is silent for the     *)
(* timeout; without an address the next one is asked.                      *)
DnsQuery(c) ==
    /\ c \in At("asking")
    /\ IF calls[c].left = <<>> THEN calls' = Drop(calls, c)
       ELSE \E ip \in {NoIp} \cup {Parsed(r) : r \in Responses} :
                calls' = IF ip = NoIp THEN [calls EXCEPT ![c].left = Tail(@)]
                         ELSE [calls EXCEPT ![c] = [@ EXCEPT !.at = "caching", !.ip = ip, !.left = <<>>]]
    /\ UNCHANGED <<records, cache, upstream, writing, changed>>

CacheAnswer(c) ==
    /\ c \in At("caching")
    /\ cache' = Put(cache, calls[c].name, calls[c].ip) /\ calls' = Drop(calls, c)
    /\ UNCHANGED <<records, upstream, writing, changed>>

-----------------------------------------------------------------------------
(* set_upstream waits until no query is under way.                         *)
SetUpstream(list) ==
    /\ writing = {} /\ writing' = {list}
    /\ UNCHANGED <<records, cache, upstream, calls, changed>>
SetUpstreamEnd ==
    /\ At("asking") = {}
    /\ \E list \in writing : upstream' = list
    /\ writing' = {}
    /\ UNCHANGED <<records, cache, calls, changed>>

Next ==
    \/ \E name \in MeshNames : Unregister(name) \/ \E ip \in Ips : Register(name, ip)
    \/ \E name \in Names : EntryExpires(name) \/ \E c \in Callers : Resolve(c, name)
    \/ \E c \in Callers : Authoritative(c) \/ Forward(c) \/ DnsQuery(c) \/ CacheAnswer(c)
    \/ \E list \in ServerLists : SetUpstream(list)
    \/ ClearCache \/ SetUpstreamEnd

\* A query ends, at the latest with its timeout; the locks are fair.
Fairness == WF_vars(SetUpstreamEnd) /\ \A c \in Callers : WF_vars(DnsQuery(c))
Spec == Init /\ [][Next]_vars /\ Fairness

-----------------------------------------------------------------------------
(* Shapes.                                                                 *)
TypeOK ==
    /\ Constants
    /\ DOMAIN records \subseteq MeshNames /\ records \in [DOMAIN records -> Ips]
    /\ DOMAIN cache \subseteq Names /\ cache \in [DOMAIN cache -> Ips]
    /\ upstream \in ServerLists /\ writing \subseteq ServerLists
    /\ \A c \in DOMAIN calls : /\ calls[c].name \in Names /\ calls[c].ip \in Ips \cup {NoIp}
                               /\ calls[c].at \in {"records", "upstream", "asking", "caching"}
                               /\ calls[c].at = "caching" => calls[c].ip # NoIp

(* The cache answers what the record says, unless the record changed after *)
(* a resolver read it: then the old address is answered for five minutes,  *)
(* even if the cache was cleared before the resolver wrote it.             *)
CacheCurrent ==
    \A name \in DOMAIN cache \cap MeshNames :
        name \notin changed => name \in DOMAIN records /\ cache[name] = records[name]

(* A new server list is in place once the queries under way have ended,    *)
(* however many resolvers come after it.                                   *)
UpstreamSet == []<>(writing = {})
=============================================================================
