CONSTANTS
    Modes = {"lock", "connection", "server", "quiet", "lossy", "queries", "timelord", "payouts",
             "plots", "wallet", "queue", "relay"}
    u = u  h1 = h1  h2 = h2  l = l
    Client = {u, h1, h2, l}
    Priority <- MCPriority
    Side <- MCSide
    Request = {"r1", "r2"}
    SideOf <- MCSideOf
    NonceCount = 2
    Cancelled = {"r1"}
    ClosesAtOnce = {}
    Conn = {"a1", "a2", "a3"}
    PeerOf <- MCPeerOf
    Outbound <- MCOutbound
    InboundLimit = 2
    Overlap = TRUE
    Starts = {"x2"}
    PeerBlock <- MainTips
    p1 = p1
    p2 = p2
    Peer = {p1, p2}
    MaxSession = 1
    Task = {t1, t2}
    SyncTask = {s1}
    Block <- MCBlock
    NoBlock = "none"
    Height <- MCHeight
    Weight <- MCHeight
    Prev <- MCPrev
    BACKTRACK = 1
    BEHIND = 0
    MAX_BLOCK_COUNT_PER_REQUESTS = 2
    WEIGHT_PROOF_RECENT_BLOCKS = 3
    short_sync_blocks_behind_threshold = 1
    sync_blocks_behind_threshold = 3
    Wallet = {}
    Topic = {}
    PuzzleHash = {}
    Reg = {}
    SubLimit = 0
    MaxHeight = 0
    Tx = {}
    Relay = {}
    Announced = {}
    Fetch = {}
    Call = {}
    CallTx <- MCCallTx
    AskLimit = 0
    QueueSize = 0
    Permits = 0
    KeptResponses = 0
    MaxFailures = 0
    Host = {"h1"}
    Source = {"s1"}
    NewCell <- MCNewCell
    TriedCell <- MCTriedCell
    MaxIds = 1
    MaxRefs = 1
    MaxCollisions = 1
    MaxSince = 1
    MaxTears = 0
    MaxPending = 1
    Neighbour = {"n1", "n2", "n3"}
    MaxRelays = 2
SPECIFICATION ProgressSpec
CHECK_DEADLOCK FALSE
PROPERTIES
    WaitsEnd
    CatchesUp
    
    PayoutReachesPool
    PlotsLoaded
    
    QueueDrains
    RelayEnds
