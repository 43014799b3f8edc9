CONSTANTS
    Modes = {"lock_all", "feed", "transactions", "sync", "addresses", "dialling"}
    u = u  h1 = h1  h2 = h2  l = l
    Client = {u, h1, h2, l}
    Priority <- MCPriority
    Wallet = {"w1"}
    Topic = {"ph1", "co1"}
    PuzzleHash = {"ph1"}
    Reg = {1, 2}
    SubLimit = 2
    MaxHeight = 2
    Tx = {1}
    Relay = {"a", "b"}
    Announced = {1}
    Fetch = {1, 2}
    Call = {"c1"}
    CallTx <- MCCallTx
    AskLimit = 1
    QueueSize = 1
    Permits = 1
    KeptResponses = 1
    MaxFailures = 1
    Starts = {"x2", "none"}
    PeerBlock <- ForkTips
    Peer = {p1}
    MaxSession = 2
    Task = {t1, t2}
    SyncTask = {s1, s2}
    Block <- MCBlock
    NoBlock = "none"
    Height <- MCHeight
    Weight <- MCHeight
    Prev <- MCPrev
    BACKTRACK = 1
    BEHIND = 0
    MAX_BLOCK_COUNT_PER_REQUESTS = 2
    WEIGHT_PROOF_RECENT_BLOCKS = 3
    short_sync_blocks_behind_threshold = 1
    sync_blocks_behind_threshold = 3
    Host = {"h1", "h2", "h3"}
    Source = {"s1", "s2"}
    NewCell <- MCNewCell
    TriedCell <- MCTriedCell
    MaxIds = 3
    MaxRefs = 2
    MaxCollisions = 1
    MaxSince = 1
    MaxTears = 0
    MaxPending = 2
    Neighbour = {"n1"}
    MaxRelays = 0
SPECIFICATION MCSpec
CHECK_DEADLOCK FALSE
SYMMETRY Symmetry
INVARIANTS
    
    PendingHasTask
    SyncSound
    BookSound
PROPERTIES
    ImplementsLock
