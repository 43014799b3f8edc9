SPECIFICATION MCSpec
CONSTANTS
    Block = {"A0", "A1", "A2", "X1", "X2"}
    NoBlock = NoBlock
    Record <- MCRecord
    Eos = {"e1", "e2", "e0", "ex1"}
    Genesis = "g"
    Bundle <- MCBundle
    Sp <- MCSp
    SentSp <- MCSentSp
    NoSp = NoSp
    NUM_SPS_SUB_SLOT = 4
    SUB_SLOT_ITERS_STARTING = 8
    Ip = {"A2", "X2"}
    MAX_SUB_SLOT_BLOCKS = 0
    ClearEvery = 2
    Branch = {"A", "B"}
    Query = {1, 2}
    Span = 2
    PowCache = 1
    MaxSwitches = 2
    Fork = {"A", "B"}
    Field = {"ip", "sp"}
    VdfOf <- MCVdfOf
    Target = 1
    VdfCall = {1, 2}
    Semaphore = 1
    MaxWaiters = 1
    MaxReorgs = 1
    Proof = {1, 2, 3}
    PeerProof = {2}
    SpIters <- MCSpIters
    IpIters <- MCIpIters
    Clock <- MCClock
    MaxIters = 8
    MaxDeclared = 1
    MaxAttempts = 10
    KeepDepth = 2
INVARIANTS
    SlotStoreSound
    FarmedIsValid
    
    
    EpochsTile
    SupplyIsRewards
PROPERTIES
    CachedIsUsed
    StoredStays
\* The counts of blocks, requests and faults are bounded.
CHECK_DEADLOCK FALSE
