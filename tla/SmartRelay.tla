------------------------------- MODULE SmartRelay -------------------------------
(* The smart relay manager (data-plane/src/smart_relay/mod.rs): relays, their  *)
(* indices by tier and by region, load histories and selection counters, each  *)
(* under a lock of its own, and the anycast resolver's cache.  register_relay  *)
(* takes the locks one after the other; remove_relay keeps the relays locked   *)
(* to its end, the guard lives as long as the if-let that took it.             *)
(*                                                                             *)
(* Operators whose name ends in Mutant are faulty variants of the definition   *)
(* that follows them; no action uses them.                                     *)
EXTENDS Naturals, Sequences, FiniteSets

CONSTANTS
    Ids,          \* relay identifiers
    Places,       \* [tier, region] a relay may have
    Loads,        \* load factors, 0 is idle; the largest leaves no capacity
    Clients, Groups,  \* the anycast groups: anycast address -> relay identifiers
    Callers,      \* concurrent callers of register_relay
    max_history,  \* of a load predictor, 128
    MaxSelected   \* bound: selections counted

\* What the constants stand for.
Constants ==
    /\ Loads \subseteq Nat /\ 0 \in Loads /\ max_history \in Nat
    /\ MaxSelected \in Nat /\ \A ip \in DOMAIN Groups : Groups[ip] \subseteq Ids

VARIABLES
    relays,      \* id -> [place, load, alive]
    by_tier, by_region,
    predictors,  \* id -> loads observed
    selections,  \* id -> times selected
    registering, \* caller of register_relay between two of its locks -> [id, place, left]
    removing,    \* the remove_relay call that holds the relays: its [id, place], or none
    cache,       \* <<client, relay>>: answers the resolver keeps for cache_ttl
    disturbed    \* history: relays whose registrations overlapped, or changed place

vars == <<relays, by_tier, by_region, predictors, selections, registering, removing, cache, disturbed>>

Put(f, k, v) == [x \in DOMAIN f \cup {k} |-> IF x = k THEN v ELSE f[x]]
Drop(f, k)   == [x \in DOMAIN f \ {k} |-> f[x]]
Tiers   == {p.tier : p \in Places}
Regions == {p.region : p \in Places}
Steps   == <<"tier", "region", "predictor", "selections">>

Init ==
    /\ relays = [r \in {} |-> 0] /\ predictors = [r \in {} |-> <<>>]
    /\ selections = [r \in {} |-> 0]
    /\ by_tier = [t \in Tiers |-> {}] /\ by_region = [g \in Regions |-> {}]
    /\ registering = [c \in {} |-> 0] /\ removing = {} /\ cache = {} /\ disturbed = {}

RelaysFreeMutant == TRUE
RelaysFree == removing = {}
Settled(id) == \A c \in DOMAIN registering : registering[c].id # id

-----------------------------------------------------------------------------
(* register_relay: the relay's entry, which replaces an older one ...      *)
RegisterRelay(c, id, place) ==
    /\ RelaysFree /\ c \notin DOMAIN registering
    /\ relays' = Put(relays, id, [place |-> place, load |-> 0, alive |-> TRUE])
    /\ registering' = Put(registering, c, [id |-> id, place |-> place, left |-> Steps])
    /\ disturbed' = disturbed \cup
           {x \in {id} : ~Settled(id) \/ (id \in DOMAIN relays /\ relays[id].place # place)}
    /\ UNCHANGED <<by_tier, by_region, predictors, selections, removing, cache>>

(* ... then, lock by lock, the two indices, the predictor and the counter. *)
RegisterStep(c) ==
    /\ c \in DOMAIN registering
    /\ LET r == registering[c]
           done == Head(r.left) IN
       /\ registering' = IF Tail(r.left) = <<>> THEN Drop(registering, c)
                         ELSE [registering EXCEPT ![c].left = Tail(@)]
       /\ by_tier' = [by_tier EXCEPT ![r.place.tier] = IF done = "tier" THEN @ \cup {r.id} ELSE @]
       /\ by_region' = [by_region EXCEPT ![r.place.region] =
                            IF done = "region" THEN @ \cup {r.id} ELSE @]
       /\ predictors' = IF done = "predictor" THEN Put(predictors, r.id, <<>>) ELSE predictors
       /\ selections' = IF done = "selections" THEN Put(selections, r.id, 0) ELSE selections
    /\ UNCHANGED <<relays, removing, cache, disturbed>>

(* remove_relay, its two parts: the entry, then what else is kept of it.   *)
(* What is done between them by others does not touch the relays.          *)
RemoveBegin(id) ==
    /\ RelaysFree /\ id \in DOMAIN relays
    /\ relays' = Drop(relays, id)
    /\ removing' = {[id |-> id, place |-> relays[id].place]}
    /\ disturbed' = disturbed \cup {x \in {id} : ~Settled(id)}
    /\ UNCHANGED <<by_tier, by_region, predictors, selections, registering, cache>>
Unindexed(r) == [by_tier EXCEPT ![r.place.tier] = @ \ {r.id}]
RemoveEnd(r) ==
    /\ r \in removing
    /\ by_tier' = Unindexed(r)
    /\ by_region' = [by_region EXCEPT ![r.place.region] = @ \ {r.id}]
    /\ predictors' = Drop(predictors, r.id) /\ selections' = Drop(selections, r.id)
    /\ removing' = {}
    /\ UNCHANGED <<relays, registering, cache, disturbed>>

Observed(h, load) == LET longer == Append(h, load) IN
                     IF Len(longer) > max_history THEN Tail(longer) ELSE longer

(* update_load, with the relays locked throughout.                         *)
UpdateLoad(id, load) ==
    /\ RelaysFree
    /\ relays' = IF id \in DOMAIN relays
                 THEN [relays EXCEPT ![id] = [@ EXCEPT !.load = load, !.alive = TRUE]] ELSE relays
    /\ predictors' = IF id \in DOMAIN predictors
                     THEN [predictors EXCEPT ![id] = Observed(@, load)] ELSE predictors
    /\ UNCHANGED <<by_tier, by_region, selections, registering, removing, cache, disturbed>>

(* Thirty seconds pass without news of a relay.                            *)
FallSilent(id) ==
    /\ id \in DOMAIN relays
    /\ relays' = [relays EXCEPT ![id].alive = FALSE]
    /\ UNCHANGED <<by_tier, by_region, predictors, selections, registering, removing, cache, disturbed>>

\* Relays that are alive and have bandwidth left.  The scores weigh distance,
\* load and uptime: which candidate scores best is left open.
HasCapacity(r) == \E more \in Loads : more > r.load
Candidates(tiers) == {id \in DOMAIN relays : /\ relays[id].place.tier \in tiers
                                             /\ HasCapacity(relays[id]) /\ relays[id].alive}

(* find_best_relay, with the relays locked: the best is counted, if its    *)
(* counter is there already.                                               *)
FindBestRelay(id, tiers) ==
    /\ RelaysFree /\ id \in Candidates(tiers)
    /\ IF id \in DOMAIN selections
       THEN selections[id] < MaxSelected /\ selections' = [selections EXCEPT ![id] = @ + 1]
       ELSE UNCHANGED selections
    /\ UNCHANGED <<relays, by_tier, by_region, predictors, registering, removing, cache, disturbed>>

-----------------------------------------------------------------------------
Known(ip) == Groups[ip] \cap DOMAIN relays
Lightest(S) == {id \in S : \A other \in S : relays[id].load <= relays[other].load}

(* AnycastResolver::resolve: an answer the cache does not hold.  The cache *)
(* is keyed by the client alone.                                           *)
Resolve(client, ip) ==
    /\ \A entry \in cache : entry[1] # client
    /\ \E id \in Lightest(Known(ip)) : cache' = cache \cup {<<client, id>>}
    /\ UNCHANGED <<relays, by_tier, by_region, predictors, selections, registering, removing, disturbed>>
CacheExpires(entry) ==
    /\ entry \in cache /\ cache' = cache \ {entry}
    /\ UNCHANGED <<relays, by_tier, by_region, predictors, selections, registering, removing, disturbed>>

Next ==
    \/ \E id \in Ids : \/ \E c \in Callers, place \in Places : RegisterRelay(c, id, place)
                       \/ RemoveBegin(id) \/ FallSilent(id)
                       \/ \E load \in Loads : UpdateLoad(id, load)
                       \/ \E tiers \in {Tiers} \cup {{t} : t \in Tiers} : FindBestRelay(id, tiers)
    \/ \E c \in Callers : RegisterStep(c)
    \/ \E r \in removing : RemoveEnd(r)
    \/ \E client \in Clients, ip \in DOMAIN Groups : Resolve(client, ip)
    \/ \E entry \in cache : CacheExpires(entry)

Spec == Init /\ [][Next]_vars

-----------------------------------------------------------------------------
(* Shapes.                                                                 *)
TypeOK ==
    /\ Constants
    /\ DOMAIN relays \subseteq Ids
    /\ relays \in [DOMAIN relays -> [place : Places, load : Loads, alive : BOOLEAN]]
    /\ by_tier \in [Tiers -> SUBSET Ids] /\ by_region \in [Regions -> SUBSET Ids]
    /\ \A id \in DOMAIN predictors : predictors[id] \in Seq(Loads) /\ Len(predictors[id]) <= max_history
    /\ DOMAIN selections \subseteq Ids /\ selections \in [DOMAIN selections -> Nat]
    /\ \A c \in DOMAIN registering : registering[c].id \in Ids /\ registering[c].place \in Places
    /\ Cardinality(removing) <= 1 /\ cache \subseteq Clients \X Ids /\ disturbed \subseteq Ids

(* A relay whose registrations have ended is in both indices and has its   *)
(* history and counter, whatever registrations and removals of the same    *)
(* identifier came in between: a removal ends before the next registration *)
(* can start.                                                              *)
Indexed ==
    \A id \in DOMAIN relays : Settled(id) =>
        /\ id \in by_tier[relays[id].place.tier] /\ id \in by_region[relays[id].place.region]
        /\ id \in DOMAIN predictors /\ id \in DOMAIN selections

(* Of a relay whose registrations and removals never overlapped and that   *)
(* kept its place, the indices are exact: stats() counts it once, or not   *)
(* at all when it is gone.  (Otherwise they are not: an entry that was     *)
(* made after the removal, or in another tier, stays for ever.)            *)
IndexExact ==
    \A id \in Ids \ disturbed : Settled(id) /\ removing = {} =>
        \A t \in Tiers : id \in by_tier[t] <=> (id \in DOMAIN relays /\ relays[id].place.tier = t)
=============================================================================
