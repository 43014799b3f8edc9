CONSTANTS
    Modes = {"lock_cancel"}
    u = u  h1 = h1  h2 = h2  l = l
    Client = {u, h1, h2, l}
    Priority <- MCPriority
    Wallet = {}
    Topic = {}
    PuzzleHash = {}
    Reg = {}
    SubLimit = 0
    MaxHeight = 0
    Tx = {}
    Relay = {}
    Announced = {}
    Fetch = {}
    Call = {}
    CallTx <- MCCallTx
    AskLimit = 0
    QueueSize = 0
    Permits = 0
    KeptResponses = 0
    MaxFailures = 0
    Starts = {"x2", "none"}
    PeerBlock <- ForkTips
    Peer = {p1}
    MaxSession = 2
    Task = {t1, t2}
    SyncTask = {s1, s2}
    Block <- MCBlock
    NoBlock = "none"
    Height <- MCHeight
    Weight <- MCHeight
    Prev <- MCPrev
    BACKTRACK = 1
    BEHIND = 0
    MAX_BLOCK_COUNT_PER_REQUESTS = 2
    WEIGHT_PROOF_RECENT_BLOCKS = 3
    short_sync_blocks_behind_threshold = 1
    sync_blocks_behind_threshold = 3
    Host = {"h1"}
    Source = {"s1"}
    NewCell <- MCNewCell
    TriedCell <- MCTriedCell
    MaxIds = 1
    MaxRefs = 1
    MaxCollisions = 1
    MaxSince = 1
    MaxTears = 0
    MaxPending = 1
    Neighbour = {"n1", "n2", "n3"}
    MaxRelays = 2
SPECIFICATION CancelSpec
CHECK_DEADLOCK FALSE
PROPERTIES
    LockProgress
