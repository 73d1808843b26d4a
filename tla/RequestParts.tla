------------------------------ MODULE RequestParts ------------------------------
(* The components of the data plane that answer requests, carry packets or     *)
(* hand out what there is a limited number of: the overlay, name resolution,   *)
(* the gateway's client, the addresses, the two back ends with rings and       *)
(* pools, the relay and the choice of one.  They share no state; MCDataPlane   *)
(* puts them beside the others, and what they promise together is stated here. *)
EXTENDS Naturals

\* Constants that several components have.
CONSTANTS None, Nodes, Devices, OneCaller

-----------------------------------------------------------------------------
(* The overlay, name resolution, the gateway's client, addresses.          *)
CONSTANTS Tables, RouteTo, MaxRead
VARIABLES tunnel_keys, outbound, inbound, queue, socket, in_hand, tunnel_counters, read
overlay_vars == <<tunnel_keys, outbound, inbound, queue, socket, in_hand, tunnel_counters, read>>
Net == INSTANCE Overlay WITH keys <- tunnel_keys, counters <- tunnel_counters

CONSTANTS MeshNames, OtherNames, NameIps, NoNameIp, Resolvers, ServerLists, Responses
VARIABLES records, name_cache, upstream, writing, dns_calls, changed
dns_vars == <<records, name_cache, upstream, writing, dns_calls, changed>>
Names == INSTANCE Dns WITH
    cache <- name_cache, calls <- dns_calls, Ips <- NameIps, NoIp <- NoNameIp, Callers <- Resolvers

CONSTANTS Reporters, max_retries, MaxReports, MaxBytes
VARIABLES http_calls, consecutive_failures, http_requests, answers, recorded, batch, bytes_received, results
http_vars == <<http_calls, consecutive_failures, http_requests, answers, recorded, batch, bytes_received, results>>
Http == INSTANCE HttpGateway WITH
    calls <- http_calls, requests <- http_requests, received <- bytes_received, Callers <- Reporters

CONSTANTS Hosts, MaxRequests, MaxFaults
VARIABLES client, ip_requests, ip_sent, assigned_ips, next_host_idx, db_loaded, virtual_ips, faults, mishaps
ip_vars == <<client, ip_requests, ip_sent, assigned_ips, next_host_idx, db_loaded, virtual_ips, faults, mishaps>>
IpService == INSTANCE Ipam WITH requests <- ip_requests, sent <- ip_sent

-----------------------------------------------------------------------------
(* The two back ends that keep rings and pools.                            *)
CONSTANTS sq_entries, PollBatch, MaxRecent, buffer_count, max_batch, Users, MaxSubmissions, MaxSends
VARIABLES
    ring_initialized, pending_sqes, recent_cqes, ring_counters, cleared, free_indices, holds, doubled, batcher
ring_vars ==
    <<ring_initialized, pending_sqes, recent_cqes, ring_counters, cleared, free_indices, holds, doubled, batcher>>
Ring == INSTANCE IoUring WITH initialized <- ring_initialized, counters <- ring_counters

CONSTANTS Ports, Flows, HashKey, Redirects, MaxTasks, MaxBurst
VARIABLES ports_initialized, ports, port_stats, configuring, mempools, forwarding, reta, queued, batches
port_vars == <<ports_initialized, ports, port_stats, configuring, mempools, forwarding, reta, queued, batches>>
Nics == INSTANCE Dpdk WITH initialized <- ports_initialized, MaxPackets <- MaxBurst

-----------------------------------------------------------------------------
(* The relay and the choice of one.                                        *)
CONSTANTS RelayDevices, IdLen, IpOf, DeviceLimit, IpLimit, MaxSeconds, MaxReceived, MaxRelayRoutes
VARIABLES device_addrs, relay_routes, rate_limits, ip_rate_limits, stats, now, received, packet, known, forwarded
node_vars == <<device_addrs, relay_routes, rate_limits, ip_rate_limits, stats, now, received, packet, known, forwarded>>
Relay == INSTANCE RelayNode WITH
    routes <- relay_routes, Devices <- RelayDevices, Addresses <- IpOf,
    MaxPackets <- MaxReceived, MaxRoutes <- MaxRelayRoutes

CONSTANTS RelayIds, Places, Loads, Clients, Groups, max_history, MaxSelected
VARIABLES relays, by_tier, by_region, predictors, selections, registering, removing, anycast_cache, disturbed
relay_vars == <<relays, by_tier, by_region, predictors, selections, registering, removing, anycast_cache, disturbed>>
Relays == INSTANCE SmartRelay WITH cache <- anycast_cache, Ids <- RelayIds, Callers <- OneCaller

-----------------------------------------------------------------------------
(* What each component says of its constants.                              *)
ASSUME RequestsAssumption ==
    /\ Net!Constants /\ Names!Constants /\ Http!Constants /\ IpService!Constants
    /\ Ring!Constants /\ Nics!Constants /\ Relay!Constants /\ Relays!Constants

(* Shapes, and what the constants stand for.                               *)
RequestTypes ==
    /\ Net!TypeOK /\ Names!TypeOK /\ Http!TypeOK /\ IpService!TypeOK
    /\ Ring!TypeOK /\ Nics!TypeOK /\ Relay!TypeOK /\ Relays!TypeOK

(* What is asked for is answered once, nothing is lost or given twice where *)
(* no failure says so, a relay forwards what it may to where it belongs and *)
(* is found as long as it is there (request, report_traffic, request_ip,   *)
(* resolve, process_outbound, poll_completions, release, receive_on_queue, *)
(* relay_loop, add_route, register_relay, remove_relay).                   *)
RequestsSafe ==
    /\ Http!ReportsRecorded /\ Http!BytesReportedOnce
    /\ IpService!OneDevicePerIp /\ IpService!NoSharedIp /\ IpService!HeldIsAssigned
    /\ Names!CacheCurrent /\ Net!ReceivedWereSent
    /\ Relay!LimitsHold /\ Relay!ToTheDestination /\ Relay!ShortIdsUnheard
    /\ Relays!Indexed /\ Relays!IndexExact
    /\ Ring!Conserved /\ Ring!RecentBounded /\ Ring!OneOwner /\ Ring!BatchConserved
    /\ Nics!StatsFollowPorts /\ Nics!PortsNeedInit /\ Nics!PortsDecide /\ Nics!OneQueue
=============================================================================
