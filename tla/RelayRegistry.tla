----------------------------- MODULE RelayRegistry -----------------------------
(* The registry of relays (services/relay-service/app): heartbeats by          *)
(* identifier, or by name with registration on the first one, registration by  *)
(* an administrator, deletion, and the periodic search for relays that have    *)
(* gone silent.  A request reads its row, and writes when its transaction      *)
(* commits; the mapper writes the columns whose value differs from the one     *)
(* read.  PostgreSQL shows a transaction what others have committed.  No route *)
(* leads to set_relay_status, so no relay is ever in maintenance.              *)
(*                                                                             *)
(* Operators whose name ends in Mutant are faulty variants of the definition   *)
(* that follows them; no action uses them.                                     *)
EXTENDS Naturals, FiniteSets, Functions

CONSTANTS
    Names, Addrs,  \* of relays: an address is an IP with its port
    Callers,       \* requests under way at a time
    MaxRows        \* bound: rows ever made

\* What the constants stand for.
Constants == MaxRows \in Nat

VARIABLES
    rows,     \* table relay_nodes: id -> Row
    created,  \* rows made so far
    calls,    \* caller -> what it will write, with the row it read
    raced,    \* history: names registered by an administrator, or by two heartbeats at a time
    crossed   \* history: rows whose last heartbeat had read something else than it wrote to

vars == <<rows, created, calls, raced, crossed>>

Status == {"online", "overloaded", "offline", "maintenance"}
Loads == {"low", "high"}  \* up to RELAY_MAX_LOAD, or more
\* fresh: last_heartbeat is within RELAY_CLEANUP_INTERVAL.
Row == [name : Names, addr : Addrs, status : Status, load : Loads, fresh : BOOLEAN]
Ids == 1 .. MaxRows

Init == rows = <<>> /\ created = 0 /\ calls = <<>> /\ raced = {} /\ crossed = {}

Put(f, k, v) == [x \in DOMAIN f \cup {k} |-> IF x = k THEN v ELSE f[x]]
Drop(f, k)   == Restrict(f, DOMAIN f \ {k})

Named(name)    == {id \in DOMAIN rows : rows[id].name = name}
Located(addr)  == {id \in DOMAIN rows : rows[id].addr = addr}
Start(c, call) == c \notin DOMAIN calls /\ calls' = Put(calls, c, call)
UpTo(load)     == IF load = "high" THEN "overloaded" ELSE "online"

-----------------------------------------------------------------------------
Columns(r) == [status |-> r.status, load |-> r.load]
Beat(id, load) == [op |-> "heartbeat", id |-> id, seen |-> Columns(rows[id]), load |-> load]
UpdateHeartbeat(c, id, load) ==
    /\ id \in DOMAIN rows /\ Start(c, Beat(id, load))
    /\ UNCHANGED <<rows, created, raced, crossed>>
(* scalar_one_or_none raises when there are two rows of the name: nothing  *)
(* is written.                                                             *)
HeartbeatByName(c, name, addr, load) ==
    /\ \/ \E id \in Named(name) : Named(name) = {id} /\ Start(c, Beat(id, load)) /\ UNCHANGED raced
       \/ /\ Named(name) = {}
          /\ Start(c, [op |-> "insert", name |-> name, addr |-> addr, load |-> load])
          /\ raced' = IF \E d \in DOMAIN calls : calls[d].op = "insert" /\ calls[d].name = name
                      THEN raced \cup {name} ELSE raced
    /\ UNCHANGED <<rows, created, crossed>>
RegisterRelay(c, name, addr) ==
    /\ Located(addr) = {}
    /\ Start(c, [op |-> "insert", name |-> name, addr |-> addr, load |-> "low"])
    /\ raced' = raced \cup {name}
    /\ UNCHANGED <<rows, created, crossed>>
Changed(seen, new, old) == IF seen = new THEN old ELSE new
Heard(row, call) ==
    [row EXCEPT !.load = Changed(call.seen.load, call.load, @),
                !.status = Changed(call.seen.status, UpTo(call.load), @), !.fresh = TRUE]
(* flush and commit.  An UPDATE that finds no row is an error.             *)
CommitHeartbeat(c) ==
    LET call == calls[c]  id == call.id IN
    /\ call.op = "heartbeat" /\ calls' = Drop(calls, c)
    /\ IF id \in DOMAIN rows
       THEN /\ rows' = [rows EXCEPT ![id] = Heard(@, call)]
            /\ crossed' = IF Columns(rows[id]) = call.seen THEN crossed \ {id} ELSE crossed \cup {id}
       ELSE UNCHANGED <<rows, crossed>>
    /\ UNCHANGED <<created, raced>>
CommitInsert(c) ==
    LET call == calls[c] IN
    /\ call.op = "insert" /\ created < MaxRows /\ calls' = Drop(calls, c)
    /\ created' = created + 1
    /\ rows' = Put(rows, created', [name |-> call.name, addr |-> call.addr, status |-> UpTo(call.load),
                                    load |-> call.load, fresh |-> TRUE])
    /\ UNCHANGED <<raced, crossed>>
(* The service stops, or the database fails.                               *)
Rollback(c) ==
    /\ c \in DOMAIN calls /\ calls' = Drop(calls, c)
    /\ UNCHANGED <<rows, created, raced, crossed>>
DeleteRelay(id) ==
    /\ id \in DOMAIN rows /\ rows' = Drop(rows, id)
    /\ UNCHANGED <<created, calls, raced, crossed>>

(* The interval passes without a heartbeat.                                *)
FallSilent(id) ==
    /\ id \in DOMAIN rows /\ rows[id].fresh /\ rows' = [rows EXCEPT ![id].fresh = FALSE]
    /\ UNCHANGED <<created, calls, raced, crossed>>

StaleMutant(r) == r.status # "maintenance"
Stale(r) == ~r.fresh /\ r.status # "maintenance"
CleanupStaleRelays ==
    /\ rows' = [id \in DOMAIN rows |-> IF Stale(rows[id]) THEN [rows[id] EXCEPT !.status = "offline"] ELSE rows[id]]
    /\ UNCHANGED <<created, calls, raced, crossed>>

Next ==
    \/ CleanupStaleRelays
    \/ \E id \in DOMAIN rows : DeleteRelay(id) \/ FallSilent(id)
    \/ \E c \in Callers, load \in Loads :
        \/ \E id \in DOMAIN rows : UpdateHeartbeat(c, id, load)
        \/ \E n \in Names, a \in Addrs : HeartbeatByName(c, n, a, load)
    \/ \E c \in Callers, n \in Names, a \in Addrs : RegisterRelay(c, n, a)
    \/ \E c \in DOMAIN calls : CommitHeartbeat(c) \/ CommitInsert(c) \/ Rollback(c)

(* The health loop goes around, whatever its last turn raised.             *)
Fairness == WF_vars(CleanupStaleRelays)

Spec == Init /\ [][Next]_vars /\ Fairness

-----------------------------------------------------------------------------
(* Shapes.                                                                 *)
TypeOK ==
    /\ Constants
    /\ DOMAIN rows \subseteq Ids /\ rows \in [DOMAIN rows -> Row] /\ created \in 0 .. MaxRows
    /\ DOMAIN calls \subseteq Callers /\ raced \subseteq Names /\ crossed \subseteq Ids

(* A name has one row, unless an administrator registered it or its first  *)
(* heartbeats came two at a time; with two rows every further heartbeat by *)
(* name is refused.                                                        *)
NamesOnce == \A n \in Names \ raced : Cardinality(Named(n)) <= 1

(* A relay that was heard of is not offline, and one that may be chosen is *)
(* not overloaded, unless its last heartbeat was read before and written   *)
(* after somebody else's change: of two changes to one row each writes its *)
(* own columns.                                                            *)
StatusAgrees ==
    \A id \in DOMAIN rows \ crossed :
        /\ rows[id].fresh => rows[id].status # "offline"
        /\ rows[id].status \in {"online", "overloaded"} => rows[id].status = UpTo(rows[id].load)

(* A relay that has gone silent does not stay among those that may be      *)
(* chosen.                                                                 *)
SilentGoOffline ==
    \A id \in Ids : []<>(id \notin DOMAIN rows \/ rows[id].fresh \/ rows[id].status # "online")
=============================================================================
