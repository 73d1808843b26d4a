------------------------------ MODULE MCDataPlane ------------------------------
(* The components of the data plane for TLC.  They share no state, so a        *)
(* behaviour runs one of them and the others stay where they start: the state  *)
(* spaces add up instead of multiplying.  QUIC multipath and the components of *)
(* RequestParts are extended, so that what is proved of them and what is       *)
(* checked here are the same definitions; the others are instances, with a     *)
(* prefix where two share a name.  The constants have their values in the      *)
(* configuration, where two components may share one; the values that a        *)
(* configuration cannot write are defined at the end.                          *)
EXTENDS QuicMultipath, RequestParts, TLC

VARIABLE focus  \* the component that runs

\* A constant that several components have, besides those of RequestParts.
CONSTANT Peers

-----------------------------------------------------------------------------
(* Topology, route table, access rules, a Raft node and a Kademlia table.  *)
CONSTANTS TopologyNodes, TopologyRegions, Bandwidths, MaxRelays, MaxVersion
VARIABLES nodes, links, adjacency, relay_elections, version, search
topology_vars == <<nodes, links, adjacency, relay_elections, version, search>>
Graph == INSTANCE Topology WITH Nodes <- TopologyNodes, Regions <- TopologyRegions

CONSTANTS Metrics, Dsts, PrefixLen, Covers, MaxRoutes
VARIABLES routes, ecmp, default_route, lookups, outdated
table_vars == <<routes, ecmp, default_route, lookups, outdated>>
Router == INSTANCE RouteTable

CONSTANTS GroupNames, Services, LoadedRules, MaxRules
VARIABLE policy
Rules == INSTANCE Acl WITH Rules <- LoadedRules

CONSTANTS MaxTerm, MaxLog, our_id, PeerIds, K, Prefix, MaxCount
VARIABLES node, heartbeats, appended, buckets, found
control_vars == <<node, heartbeats, appended, buckets, found>>
Control == INSTANCE Decentralized WITH Ids <- PeerIds

-----------------------------------------------------------------------------
(* Path selection of ICE, path choice of the tunnel, hole punching.        *)
CONSTANTS PathIds, Kinds, Measurements, MaxPaths
VARIABLES selector_paths, active, selector_calls
selector_vars == <<selector_paths, active, selector_calls>>
Selector == INSTANCE PathSelector WITH paths <- selector_paths, calls <- selector_calls

CONSTANTS Rtts, Threshold, MaxSamples
VARIABLES choice_paths, choice_calls, fallback, lost
choice_vars == <<choice_paths, choice_calls, fallback, lost>>
Choice == INSTANCE Multipath WITH paths <- choice_paths, calls <- choice_calls, Callers <- OneCaller

CONSTANTS PunchPeers, PunchCandidates, PunchAt, MaxPeerCandidates, MaxTotalPunchPackets, NonceLen, HexFields
VARIABLES punch_state, punch_network, elapsed, hexField
punch_vars == <<punch_state, punch_network, elapsed, hexField>>
Punch == INSTANCE Puncher WITH
    state <- punch_state, network <- punch_network, Peers <- PunchPeers,
    Candidates <- PunchCandidates, At <- PunchAt

-----------------------------------------------------------------------------
(* Connectivity checks, the agent, the two handshakes.                     *)
CONSTANTS DisconnectAt, FailAt, MaxFailures, MaxChecks
VARIABLES peers, round, waiting, check_sent, check_requests, responses, unanswered
check_vars == <<peers, round, waiting, check_sent, check_requests, responses, unanswered>>
Checks == INSTANCE Connectivity WITH
    sent <- check_sent, requests <- check_requests, MaxRequests <- MaxChecks

CONSTANTS Agents, Tiebreakers, Gathered, MaxCalls
VARIABLES local_candidates, agent_state, role, tiebreaker, remote, resolved
agent_vars == <<local_candidates, agent_state, role, tiebreaker, remote, resolved>>
Agent == INSTANCE IceAgent WITH state <- agent_state, Addresses <- Gathered

CONSTANT MaxAttempts
VARIABLES initiator, responder, noise_network, noise_keys, packets, fetched
noise_vars == <<initiator, responder, noise_network, noise_keys, packets, fetched>>
Noise == INSTANCE NoiseIK WITH network <- noise_network, keys <- noise_keys

CONSTANTS Engines, Capabilities, Messages, MaxSecrets, MaxSigned
VARIABLES capabilities, pair, partner, keypairs, pq_network, secrets, signed
pq_vars == <<capabilities, pair, partner, keypairs, pq_network, secrets, signed>>
Pq == INSTANCE PostQuantum WITH active <- pair, network <- pq_network

-----------------------------------------------------------------------------
(* What each component says of its constants.                              *)
ASSUME DataPlaneAssumption ==
    /\ Selector!Constants /\ Choice!Constants /\ Punch!Constants /\ Checks!Constants /\ Agent!Constants
    /\ Noise!Constants /\ Pq!Constants /\ Graph!Constants /\ Router!Constants /\ Rules!Constants /\ Control!Constants

\* Of a component that does not run one initial state is enough.
One(component, own, values) == focus # component => own = CHOOSE v \in values : TRUE
MCInit ==
    /\ focus \in {"quic", "selector", "choice", "punch", "checks", "agent", "noise", "pq", "overlay",
                  "dns", "http", "ip", "ring", "ports", "relay", "relays", "topology", "table", "acl",
                  "raft", "dht"}
    /\ Init /\ Selector!Init /\ Choice!Init /\ Punch!Init /\ Checks!Init /\ Agent!Init /\ Noise!Init
    /\ Pq!Init /\ Net!Init /\ Names!Init /\ Http!Init /\ IpService!Init /\ Ring!Init /\ Nics!Init
    /\ Relay!Init /\ Relays!Init /\ Graph!Init /\ Router!Init /\ Rules!Init /\ Control!Init
    /\ One("quic", strategy, Strategies) /\ One("punch", hexField, HexFields)
    /\ One("agent", tiebreaker, [Agents -> Tiebreakers]) /\ One("pq", capabilities, [Engines -> Capabilities])
    /\ One("overlay", tunnel_keys, Tables) /\ One("dns", upstream, ServerLists) /\ One("ports", reta, Redirects)

\* A component that is not run stays as it is.
Idle(component, own) == IF focus = component THEN TRUE ELSE UNCHANGED own
Rest ==
    /\ UNCHANGED focus
    /\ Idle("quic", vars) /\ Idle("selector", selector_vars) /\ Idle("choice", choice_vars)
    /\ Idle("punch", punch_vars) /\ Idle("checks", check_vars) /\ Idle("agent", agent_vars)
    /\ Idle("noise", noise_vars) /\ Idle("pq", pq_vars) /\ Idle("overlay", overlay_vars)
    /\ Idle("dns", dns_vars) /\ Idle("http", http_vars) /\ Idle("ip", ip_vars)
    /\ Idle("ring", ring_vars) /\ Idle("ports", port_vars) /\ Idle("relay", node_vars)
    /\ Idle("relays", relay_vars) /\ Idle("topology", topology_vars) /\ Idle("table", table_vars)
    /\ Idle("acl", policy) /\ IF focus \in {"raft", "dht"} THEN TRUE ELSE UNCHANGED control_vars

MCNext ==
    \/ focus = "quic" /\ Next /\ Rest
    \/ focus = "selector" /\ Selector!Next /\ Rest
    \/ focus = "choice" /\ Choice!Next /\ Rest
    \/ focus = "punch" /\ Punch!Next /\ Rest
    \/ focus = "checks" /\ Checks!Next /\ Rest
    \/ focus = "agent" /\ Agent!Next /\ Rest
    \/ focus = "noise" /\ Noise!Next /\ Rest
    \/ focus = "pq" /\ Pq!Next /\ Rest
    \/ focus = "overlay" /\ Net!Next /\ Rest
    \/ focus = "dns" /\ Names!Next /\ Rest
    \/ focus = "http" /\ Http!Next /\ Rest
    \/ focus = "ip" /\ IpService!Next /\ Rest
    \/ focus = "ring" /\ Ring!Next /\ Rest
    \/ focus = "ports" /\ Nics!Next /\ Rest
    \/ focus = "relay" /\ Relay!Next /\ Rest
    \/ focus = "relays" /\ Relays!Next /\ Rest
    \/ focus = "topology" /\ Graph!Next /\ Rest
    \/ focus = "table" /\ Router!Next /\ Rest
    \/ focus = "acl" /\ Rules!Next /\ Rest
    \/ focus = "raft" /\ Control!NextRaft /\ Rest
    \/ focus = "dht" /\ Control!NextDht /\ Rest

all_vars == <<focus, vars, selector_vars, choice_vars, punch_vars, check_vars, agent_vars, noise_vars, pq_vars,
              overlay_vars, dns_vars, http_vars, ip_vars, ring_vars, port_vars, node_vars, relay_vars,
              topology_vars, table_vars, policy, control_vars>>

(* The fairness of the five components that state one (see there), where   *)
(* they run: the actions of a component that does not run never happen.    *)
Fair ==
    /\ \A c \in Callers :
           /\ WF_selector_vars(focus = "selector" /\ Selector!RemovePathEnd(c))
           /\ SF_selector_vars(focus = "selector" /\ Selector!GetActiveEnd(c))
    /\ \A c \in Reporters : WF_http_vars(focus = "http" /\ (Http!ExecuteOnce(c) \/ Http!NetworkError(c)
                                                               \/ Http!Retry(c) \/ Http!Return(c)))
    /\ \A c \in Resolvers : WF_dns_vars(focus = "dns" /\ Names!DnsQuery(c))
    /\ WF_dns_vars(focus = "dns" /\ Names!SetUpstreamEnd)
    /\ \A n \in Nodes :
           /\ WF_overlay_vars(focus = "overlay" /\ Net!SendTo(n))
           /\ WF_overlay_vars(focus = "overlay" /\ Net!LockTunnels(n))
           /\ WF_overlay_vars(focus = "overlay" /\ Net!RecvFrom(n))
           /\ WF_overlay_vars(focus = "overlay" /\ Net!LoopInbound(n))
    /\ \A p \in PunchPeers :
           /\ WF_punch_vars(focus = "punch" /\ Punch!TimePasses(p))
           /\ WF_punch_vars(focus = "punch" /\ (Punch!Check(p) \/ Punch!NothingHeard(p)))
MCSpec == MCInit /\ [][MCNext]_all_vars /\ Fair

-----------------------------------------------------------------------------
(* Shapes, and what the constants stand for, of every component.           *)
DataPlaneTypes ==
    /\ TypeOK /\ Selector!TypeOK /\ Choice!TypeOK /\ Punch!TypeOK /\ Checks!TypeOK /\ Agent!TypeOK
    /\ Noise!TypeOK /\ Pq!TypeOK /\ Graph!TypeOK /\ Router!TypeOK /\ Rules!TypeOK /\ Control!TypeOK
    /\ RequestTypes

(* What is read from a table is what it was made of: the paths and links   *)
(* of the topology (shortest_path, remove_link), the cheapest routes of a  *)
(* prefix and their group (add_route, lookup_ecmp), what the rules leave   *)
(* to a device that is cut off (check), the log of a leader (append_entry),*)
(* the buckets of peers (add_peer).                                        *)
TablesSafe ==
    /\ Graph!EdgesBacked /\ Graph!PathLeast /\ Router!LeastCost /\ Router!GroupsExact
    /\ Rules!IsolationHolds /\ Control!LogsInOrder /\ Control!AnswerIsPosition /\ Control!BucketsExact

(* The tables of paths keep what the callers rely on, in whatever order    *)
(* add_path, seamless_failover, select_best_path and execute_punch come.   *)
PathsSafe ==
    /\ NoPathReplaced /\ FlagsAgree /\ LeastWindow /\ CountsAgree
    /\ Selector!HealthyOrder /\ Choice!RttBetween /\ Choice!FallbackUsed
    /\ Punch!WithinBudget /\ Punch!ReachesPeer

(* Two ends that shake hands agree on what they should and on nothing else,*)
(* with messages lost, late or repeated (perform_checks, resolve_role_     *)
(* conflict, process_initiator_message, negotiate_pqc).                    *)
HandshakesSafe ==
    /\ Checks!DeadExact /\ Checks!Attributed /\ Agent!NeverChecks /\ Agent!RolesResolved
    /\ Noise!KeysAgree /\ Noise!NoEcho /\ Noise!NoncesOnce /\ Noise!SpoiledForEver
    /\ Pq!LevelsHold /\ Pq!SameOrderAgrees /\ Pq!SecretsDiffer /\ Pq!SizesDeclared /\ Pq!VerifiesItsMessage

(* What a step may never do: enlarge a window on congestion, bring a path  *)
(* back to Active, leave a failure counted after a success, let a rule act  *)
(* against its own direction or over one of higher priority, take a term   *)
(* back or change a log but at its end, leave out of an answer a peer      *)
(* nearer than one in it (on_congestion, update_metrics, request, add_rule,*)
(* receive_heartbeat, find_closest).                                       *)
StepsSafe ==
    /\ NeverGrows /\ Selector!NoRecovery /\ Http!SuccessClears
    /\ Rules!RulesMonotone /\ Control!TermsGrow /\ Control!ClosestFound

(* What must end: a removal of a path, an outbound packet, a change of the *)
(* servers, a call of the gateway, a punching attempt (remove_path,        *)
(* process_outbound, set_upstream, request, execute_punch).                *)
AllEnd ==
    /\ Selector!RemovalEnds /\ Net!OutboundServed /\ Names!UpstreamSet /\ Http!CallsEnd
    /\ (focus = "punch" => Punch!PunchEnds)

-----------------------------------------------------------------------------
\* The values of the configuration.
MCWindows == [initial |-> 10, mss |-> 1, least |-> 2]
MCPrefixLen == "net" :> 24
\* A destination in the prefix and one outside.
MCCovers == "x" :> {"net"} @@ "y" :> {}
MCRule(action, src, dst, services, priority) ==
    [action |-> action, src |-> src, dst |-> dst, services |-> services, priority |-> priority]
MCRules == {MCRule("allow", "g", "any", {}, 0), MCRule("deny", "any", "b", {"ssh"}, 1),
            MCRule("deny", "a", "any", {}, 0)}
MCOurId == <<0, 0, 0>>
MCPeerIds == {<<0, 0, 1>>, <<1, 0, 0>>, <<1, 1, 0>>, <<0, 0, 0>>}
MCKinds == {[v6 |-> TRUE, type |-> "Direct"], [v6 |-> FALSE, type |-> "Direct"], [v6 |-> TRUE, type |-> "Relay"]}
MCMeasurements == {[rtt |-> 20, loss |-> 0, jitter |-> 5, mbps |-> 10],
                   [rtt |-> 700, loss |-> 0, jitter |-> 5, mbps |-> 10],
                   [rtt |-> 100, loss |-> 30, jitter |-> 5, mbps |-> 1]}
MCCandidates == "a" :> {"b1", "b2"} @@ "b" :> {"a1"}
MCAt == "a1" :> "a" @@ "b1" :> "b"
MCGathered == {{[type |-> "Host", addr |-> "h"], [type |-> "Srflx", addr |-> "s"]}}
\* The last leaves an engine without a partner, unless both have only that.
MCCapabilities ==
    {[kems |-> <<"HybridX25519MlKem768", "MlKem1024">>,
      signatures |-> <<"MlDsa87", "MlDsa65">>, min_security_level |-> 3],
     [kems |-> <<"MlKem512", "MlKem1024", "HybridX25519MlKem768">>,
      signatures |-> <<"MlDsa65", "MlDsa87">>, min_security_level |-> 1],
     [kems |-> <<"MlKem512">>, signatures |-> <<"MlDsa87">>, min_security_level |-> 5]}
\* Both ends of the tunnel have one key, or not.
MCTables == {("a" :> ("a" :> "none" @@ "b" :> "k") @@ "b" :> ("b" :> "none" @@ "a" :> k)) : k \in {"k", "l"}}
MCRouteTo == "x" :> "a" @@ "y" :> "b" @@ "z" :> "none"
MCMaxRead == "a" :> 2 @@ "b" :> 1
MCServerLists == {<<"s">>, <<"s", "t">>}
MCResponses == {[rcode |-> 3, answers |-> <<>>],
                [rcode |-> 0, answers |-> <<[type |-> "CNAME", ip |-> "j"], [type |-> "A", ip |-> "i"]>>]}
MCHashKey == <<109, 90, 86, 218>>
MCFlow(src_ip, dst_ip, src_port, dst_port) ==
    [src_ip |-> src_ip, dst_ip |-> dst_ip, src_port |-> src_port, dst_port |-> dst_port]
MCFlows == {MCFlow(<<192, 168, 1, 1>>, <<10, 0, 0, 1>>, 12345, 443),
            MCFlow(<<10, 9, 8, 7>>, <<10, 0, 0, 2>>, 12345, 443),
            MCFlow(<<10, 0, 0, 1>>, <<192, 168, 1, 1>>, 443, 12345)}
MCRedirects == {<<0, 1, 2, 3>>, <<0, 1, 2, 3, 4>>}
MCRelayDevices == {<<1, 1>>, <<2, 2>>, <<3>>}
MCIpOf == "u" :> "i" @@ "v" :> "j"
MCGroups == "ip" :> {"r"}
MCPlaces == {[tier |-> "Edge", region |-> "europe"], [tier |-> "Core", region |-> "africa"]}
=============================================================================
