---------------------------------- MODULE Ipam ----------------------------------
(* Overlay addresses: the clients' IpamManager (data-plane/src/ipam/mod.rs),   *)
(* which asks through the HTTP gateway and so may ask again, and the service   *)
(* that assigns them (control-plane/app/api/ipam.py), with a table in memory,  *)
(* a table in the database, and restarts.  The handlers of the service run one *)
(* at a time between two awaits.                                               *)
EXTENDS Naturals, FiniteSets

CONSTANTS
    Devices,
    Hosts,        \* how many addresses the overlay has: 0 .. Hosts - 1
    MaxRequests,  \* bound: requests sent, with the retries
    MaxFaults     \* bound: restarts of the service, failures of its database, calls given up

\* What the constants stand for.
Constants == Hosts \in Nat \ {0} /\ MaxRequests \in Nat /\ MaxFaults \in Nat

Ips == 0 .. Hosts - 1
NoIp == Hosts

VARIABLES
    client,    \* device -> [waits, our_ip]: waits is the operation it waits for, or "none"
    requests,  \* [device, op, pc, ip, rows, id]: requests at the service; ip: what it stores or read
    sent,      \* requests sent so far
    assigned_ips, next_host_idx, db_loaded,  \* the service's memory
    virtual_ips,                              \* the table in the database
    faults,    \* of these, so far
    mishaps    \* history: what went wrong so far

vars == <<client, requests, sent, assigned_ips, next_host_idx, db_loaded, virtual_ips, faults, mishaps>>
memory == <<assigned_ips, next_host_idx, db_loaded>>

Nothing == [d \in {} |-> NoIp]
Put(t, d, ip) == [e \in DOMAIN t \cup {d} |-> IF e = d THEN ip ELSE t[e]]
Drop(t, d) == [e \in DOMAIN t \ {d} |-> t[e]]
Used(t) == {t[d] : d \in DOMAIN t}

Init ==
    /\ client = [d \in Devices |-> [waits |-> "none", our_ip |-> NoIp]]
    /\ requests = {} /\ sent = 0
    /\ assigned_ips = Nothing /\ next_host_idx = 0 /\ db_loaded = FALSE
    /\ virtual_ips = Nothing /\ faults = 0 /\ mishaps = {}

-----------------------------------------------------------------------------
\* What goes wrong.
Fault == faults < MaxFaults /\ faults' = faults + 1
(* request_ip and release_ip post; the gateway posts again after an error  *)
(* or a timeout, when the first request may still be at the service.  A    *)
(* node releases the address it got, when it shuts down.                   *)
Send(d, op) ==
    /\ sent < MaxRequests /\ client[d].waits \in {"none", op}
    /\ op = "release" => client[d].our_ip # NoIp
    /\ client' = [client EXCEPT ![d].waits = op]
    /\ requests' = requests \cup {[device |-> d, op |-> op, pc |-> "arrived", ip |-> NoIp,
                                   rows |-> Nothing, id |-> sent]}
    /\ sent' = sent + 1
    /\ mishaps' = IF client[d].waits = op THEN mishaps \cup {"late"} ELSE mishaps
    /\ UNCHANGED <<memory, virtual_ips, faults>>

(* The gateway has run out of attempts: request_ip fails, release_ip does  *)
(* as if nothing was wrong; both leave our_ip.                             *)
GiveUp(d) ==
    /\ client[d].waits # "none"
    /\ client' = [client EXCEPT ![d].waits = "none"]
    /\ Fault /\ mishaps' = mishaps \cup {"late"}
    /\ UNCHANGED <<requests, sent, memory, virtual_ips>>

-----------------------------------------------------------------------------
At(r, pc) == (requests \ {r}) \cup {[r EXCEPT !.pc = pc]}

(* _load_from_db, by every request that comes before the flag is set: the  *)
(* rows are read, and taken over when the handler runs again.  A table that*)
(* cannot be read passes for an empty one.                                 *)
ReadRows(r) ==
    /\ r.pc = "arrived" /\ ~db_loaded
    /\ requests' = (requests \ {r}) \cup {[r EXCEPT !.pc = "read", !.rows = virtual_ips]}
    /\ UNCHANGED <<client, sent, memory, virtual_ips, faults, mishaps>>
NextIndex(rows) == IF rows = Nothing THEN 0 ELSE (CHOOSE i \in Used(rows) : \A j \in Used(rows) : j <= i) + 1
\* A row takes the place of what was in memory for its device.
TakenOver(rows, t) == [d \in DOMAIN rows \cup DOMAIN t |-> IF d \in DOMAIN rows THEN rows[d] ELSE t[d]]
LoadFromDb(r) ==
    /\ r.pc = "read"
    /\ assigned_ips' = TakenOver(r.rows, assigned_ips) /\ next_host_idx' = NextIndex(r.rows) /\ db_loaded' = TRUE
    /\ requests' = (requests \ {r}) \cup {[r EXCEPT !.pc = "loaded", !.rows = Nothing]}
    /\ mishaps' = IF db_loaded THEN mishaps \cup {"loaded_twice"} ELSE mishaps
    /\ UNCHANGED <<client, sent, virtual_ips, faults>>
LoadFails(r) ==
    /\ r.pc = "arrived" /\ ~db_loaded
    /\ Fault
    /\ db_loaded' = TRUE /\ requests' = At(r, "loaded") /\ mishaps' = mishaps \cup {"not_loaded"}
    /\ UNCHANGED <<client, sent, assigned_ips, next_host_idx, virtual_ips>>
\* The request may go on: the flag was set when it came, or it has done its part.
Loaded(r) == r.pc = "loaded" \/ (r.pc = "arrived" /\ db_loaded)

\* The next addresses, from the index on and around.
InTurn(i, k) == (i + k) % Hosts
Free(k) == InTurn(next_host_idx, k) \notin Used(assigned_ips)
(* _get_next_available_ip: the first that no device has in memory.         *)
NextSteps == {k \in 0 .. Hosts - 1 : Free(k) /\ \A j \in 0 .. k - 1 : ~Free(j)}

(* allocate_ip: up to the database; the reply waits for that.              *)
Allocate(r) ==
    /\ r.op = "allocate" /\ Loaded(r)
    /\ IF r.device \in DOMAIN assigned_ips
       THEN /\ requests' = (requests \ {r}) \cup {[r EXCEPT !.pc = "reply", !.ip = assigned_ips[r.device]]}
            /\ UNCHANGED memory
       ELSE \/ \E k \in NextSteps :
                  /\ assigned_ips' = Put(assigned_ips, r.device, InTurn(next_host_idx, k))
                  /\ next_host_idx' = InTurn(next_host_idx, k + 1)
                  /\ requests' = (requests \ {r})
                        \cup {[r EXCEPT !.pc = "store", !.ip = InTurn(next_host_idx, k)]}
                  /\ UNCHANGED db_loaded
            \/ NextSteps = {} /\ requests' = requests \ {r} /\ UNCHANGED memory
    /\ UNCHANGED <<client, sent, virtual_ips, faults, mishaps>>

(* The insert, or the update of the device's row; an address another row   *)
(* has makes it fail.  A failure is logged and the reply is sent.          *)
Store(r, fails) ==
    LET taken == \E d \in DOMAIN virtual_ips : d # r.device /\ virtual_ips[d] = r.ip IN
    /\ r.pc = "store"
    /\ virtual_ips' = IF fails \/ taken THEN virtual_ips ELSE Put(virtual_ips, r.device, r.ip)
    /\ mishaps' = IF fails \/ taken THEN mishaps \cup {"not_stored"} ELSE mishaps
    /\ requests' = At(r, "reply")
    /\ IF fails THEN Fault ELSE UNCHANGED faults
    /\ UNCHANGED <<client, sent, memory>>

(* release_ip: the memory, then the row.                                   *)
Release(r) ==
    /\ r.op = "release" /\ Loaded(r)
    /\ assigned_ips' = Drop(assigned_ips, r.device)
    /\ requests' = At(r, IF r.device \in DOMAIN assigned_ips THEN "delete" ELSE "reply")
    /\ UNCHANGED <<client, sent, next_host_idx, db_loaded, virtual_ips, faults, mishaps>>
Delete(r, fails) ==
    /\ r.pc = "delete"
    /\ virtual_ips' = IF fails THEN virtual_ips ELSE Drop(virtual_ips, r.device)
    /\ mishaps' = IF fails THEN mishaps \cup {"not_deleted"} ELSE mishaps
    /\ requests' = At(r, "reply")
    /\ IF fails THEN Fault ELSE UNCHANGED faults
    /\ UNCHANGED <<client, sent, memory>>

\* What the client keeps of an answer.
Cached(c, op, ip) == [c EXCEPT !.our_ip = IF op = "allocate" THEN ip ELSE NoIp]
(* The reply, which is lost when no one waits for it any more.             *)
Reply(r) ==
    /\ r.pc = "reply" /\ requests' = requests \ {r}
    /\ IF client[r.device].waits = r.op
       THEN client' = [client EXCEPT ![r.device] = [Cached(@, r.op, r.ip) EXCEPT !.waits = "none"]]
       ELSE UNCHANGED client
    /\ UNCHANGED <<sent, memory, virtual_ips, faults, mishaps>>

(* The service is restarted: what was in memory or at work is gone.        *)
Restart ==
    /\ Fault
    /\ requests' = {} /\ assigned_ips' = Nothing /\ next_host_idx' = 0 /\ db_loaded' = FALSE
    /\ mishaps' = mishaps \cup {"restarted"}
    /\ UNCHANGED <<client, sent, virtual_ips>>

Next ==
    \/ \E d \in Devices : GiveUp(d) \/ \E op \in {"allocate", "release"} : Send(d, op)
    \/ Restart
    \/ \E r \in requests : \/ ReadRows(r) \/ LoadFromDb(r) \/ LoadFails(r)
                           \/ Allocate(r) \/ Release(r) \/ Reply(r)
                           \/ \E fails \in BOOLEAN : Store(r, fails) \/ Delete(r, fails)

Spec == Init /\ [][Next]_vars

-----------------------------------------------------------------------------
Injective(t) == \A d, e \in DOMAIN t : t[d] = t[e] => d = e

(* Shapes.                                                                 *)
TypeOK ==
    /\ Constants
    /\ Used(assigned_ips) \cup Used(virtual_ips) \subseteq Ips
    /\ \A d \in Devices : client[d].our_ip \in Ips \cup {NoIp}

(* An address is assigned to one device, in the table and, unless a second *)
(* request has loaded rows that were read before the first went on, in     *)
(* memory.                                                                 *)
OneDevicePerIp ==
    /\ Injective(virtual_ips)
    /\ "loaded_twice" \notin mishaps => Injective(assigned_ips)

Holds(d, ip) == client[d].our_ip = ip /\ client[d].waits # "release"

(* Two devices never hold one address, a restart of the service included,  *)
(* as long as every new row was written and no request was answered late.  *)
NoSharedIp ==
    mishaps \subseteq {"restarted", "not_deleted"} =>
        \A ip \in Ips, d, e \in Devices : Holds(d, ip) /\ Holds(e, ip) => d = e

(* What a device holds is what the service has it down for, unless a       *)
(* restart, a retry or an answer given up came between.                    *)
HeldIsAssigned ==
    mishaps \cap {"restarted", "late"} = {} =>
        \A ip \in Ips, d \in Devices :
            Holds(d, ip) => d \in DOMAIN assigned_ips /\ assigned_ips[d] = ip
=============================================================================
