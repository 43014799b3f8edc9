SPECIFICATION MCSpec
CONSTANTS
    Sp = {"p1"}
    Quality = {"q1", "q2"}
    SpOf <- MCSpOf
    Winning = {"q1"}
    Expiry = 1
    MaxClock = 2
    Block <- MCBlock
    SubSlotIters = 4
    NumSps = 2
    SpWindow = 3
    MinBlocks = 2
    MaxSubSlotBlocks = 2
    FirstOwnHeight = 0
    MaxTotal = 4
    MaxFaults = 1
    Service = {"node", "wallet"}
    Pid = {1, 2, 3, 4}
    Plot = {1}
    Parallel = {}
    PlotRequests <- MCPlotRequests
    MaxPlotFaults = 0
    MaxCrashes = 0
    Side <- MCSide
    Request = {"r1", "r2", "r3", "q1"}
    SideOf <- MCSideOf
    NonceCount = 2
    Cancelled = {"r1"}
    ClosesAtOnce = {"in"}
    Conn = {"a1", "a2", "a3", "b1", "c1"}
    PeerOf <- MCPeerOf
    Outbound <- MCOutbound
    InboundLimit = 2
    Overlap = FALSE
INVARIANTS
    
    ProofsOfOneState
    Managed
    AnswerIsOwn
    
    KeysKept
\* The counts of faults, requests and blocks are bounded.
CHECK_DEADLOCK FALSE
