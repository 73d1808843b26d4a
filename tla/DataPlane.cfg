SPECIFICATION MCSpec
CONSTANTS
    None = "none"
    Nodes = {"a", "b"}
    Peers = {"p", "q"}
    Devices = {"a", "b"}
    Callers = {"c", "d"}
    OneCaller = {"c"}
    MaxPackets = 2
CONSTANTS
    max_paths = 1
    IdModulus = 4
    Windows <- MCWindows
    Strategies = {"RoundRobin", "BandwidthWeighted"}
CONSTANTS
    TopologyNodes = {"a", "b", "c"}
    TopologyRegions = {"g"}
    Bandwidths = {1}
    MaxRelays = 1
    MaxVersion = 2
CONSTANTS
    Metrics = {1, 2}
    Dsts = {"x", "y"}
    PrefixLen <- MCPrefixLen
    Covers <- MCCovers
    MaxRoutes = 2
CONSTANTS
    GroupNames = {"g"}
    Services = {"ssh", "web"}
    LoadedRules <- MCRules
    MaxRules = 2
CONSTANTS
    MaxTerm = 1
    MaxLog = 1
    our_id <- MCOurId
    PeerIds <- MCPeerIds
    K = 1
    Prefix = 2
    MaxCount = 1
CONSTANTS
    PathIds = {"p", "q"}
    Kinds <- MCKinds
    Measurements <- MCMeasurements
    MaxPaths = 2
CONSTANTS
    Rtts = {8, 400}
    Threshold = 300
    MaxSamples = 1
CONSTANTS
    PunchPeers = {"a", "b"}
    PunchCandidates <- MCCandidates
    PunchAt <- MCAt
    MaxPeerCandidates = 2
    MaxTotalPunchPackets = 3
    NonceLen = 10
    HexFields = {10, 20}
CONSTANTS
    DisconnectAt = 1
    FailAt = 2
    MaxFailures = 3
    MaxChecks = 2
CONSTANTS
    Agents = {"a", "b"}
    Tiebreakers = {0, 1}
    Gathered <- MCGathered
    MaxCalls = 1
CONSTANTS
    MaxAttempts = 3
CONSTANTS
    Engines = {"a", "b"}
    Capabilities <- MCCapabilities
    Messages = {"m", "n"}
    MaxSecrets = 2
    MaxSigned = 1
CONSTANTS
    Tables <- MCTables
    RouteTo <- MCRouteTo
    MaxRead <- MCMaxRead
CONSTANTS
    MeshNames = {"m"}
    OtherNames = {"o"}
    NameIps = {"i", "j"}
    NoNameIp = "no"
    Resolvers = {"c", "d"}
    ServerLists <- MCServerLists
    Responses <- MCResponses
CONSTANTS
    Reporters = {"c", "d"}
    max_retries = 1
    MaxReports = 1
    MaxBytes = 1
CONSTANTS
    Hosts = 1
    MaxRequests = 3
    MaxFaults = 1
CONSTANTS
    sq_entries = 2
    PollBatch = 1
    MaxRecent = 2
    buffer_count = 2
    max_batch = 1
    Users = {"u", "v"}
    MaxSubmissions = 3
    MaxSends = 2
CONSTANTS
    Ports = {"p"}
    Flows <- MCFlows
    HashKey <- MCHashKey
    Redirects <- MCRedirects
    MaxTasks = 1
    MaxBurst = 2
CONSTANTS
    RelayDevices <- MCRelayDevices
    IdLen = 2
    IpOf <- MCIpOf
    DeviceLimit = 1
    IpLimit = 1
    MaxSeconds = 1
    MaxReceived = 2
    MaxRelayRoutes = 1
CONSTANTS
    RelayIds = {"r"}
    Places <- MCPlaces
    Loads = {0, 1}
    Clients = {"k"}
    Groups <- MCGroups
    max_history = 1
    MaxSelected = 1
INVARIANTS DataPlaneTypes Overshoot TablesSafe PathsSafe  
PROPERTIES StepsSafe AllEnd
CHECK_DEADLOCK FALSE
