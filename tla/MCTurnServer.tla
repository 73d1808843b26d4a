----------------------------- MODULE MCTurnServer -----------------------------
(* Instances of TurnServer for TLC: one transport address on each of two    *)
(* hosts.  The history variable overlapped records whether two handlers     *)
(* were ever under way at once: what the documentation promises holds until *)
(* then, and the properties of TurnServer hold after it too.                *)
EXTENDS TurnServer, TLC

CONSTANTS c1, c2, ip1, ip2

MCClients == {c1, c2}
MCIPs     == {ip1, ip2}
MCIpOf    == [c \in MCClients |-> IF c = c1 THEN ip1 ELSE ip2]

\* Handlers are interchangeable, and so are the two hosts with their clients.
SwapHosts == (c1 :> c2) @@ (c2 :> c1) @@ (ip1 :> ip2) @@ (ip2 :> ip1)
MCSymmetry == Permutations(Workers) \cup {SwapHosts}

VARIABLE overlapped

MCInit == Init /\ overlapped = FALSE
MCNext == Next /\ overlapped' = (overlapped \/ Cardinality(DOMAIN tasks') > 1)
MCSpec == MCInit /\ [][MCNext]_<<vars, overlapped>>

(* As long as no two ALLOCATEs overlap between the count and the insertion *)
(* the documentation's promises hold: "Max allocations per client IP" is   *)
(* exact, "Assign an available port" gives an address to one successful    *)
(* ALLOCATE at a time, and of "Bytes sent via this allocation" an          *)
(* allocation is charged only with what handle_send accepted for it.       *)
SequentialPromises == ~ overlapped => QuotaPerIp /\ ExclusiveRelay /\ BytesAreOwn

(* Without overlap no allocation is lost before it expires or is released. *)
SequentialKept == [][~ overlapped' => KeptStep]_vars
=============================================================================
