SPECIFICATION Spec
CONSTANTS
    g = g  a1 = a1  a2 = a2  a3 = a3  y3 = y3  b2 = b2  b3 = b3  x3 = x3  o0 = o0  o1 = o1
    r0 = r0  r1 = r1  r2 = r2  r3 = r3  t1 = t1  t2 = t2  t3 = t3
    Block = {g, a1, a2, a3, y3, b2, b3, x3, o0, o1}
    NoBlock = NoBlock
    Coin <- MCCoin
    NoCoin = NoCoin
    MaxHeight <- MCMaxHeight
    Height <- MCHeight
    Chain <- MCChain
    Weight <- MCWeight
    IsTx <- MCIsTx
    HasSummary <- MCHasSummary
    HeaderOk <- MCHeaderOk
    BodyOk <- MCBodyOk
    Additions <- MCAdditions
    Removals <- MCRemovals
    Claims <- MCClaims
    Reward <- MCReward
    Parent <- MCParent
    NoRecord = NoRecord
    BLOCKS_CACHE_SIZE = 2
INVARIANTS
    EveryChangeReported
CHECK_DEADLOCK FALSE
