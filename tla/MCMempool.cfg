SPECIFICATION MCSpec
CONSTANTS
    g = g  t1 = t1  t2 = t2  a3 = a3  n4 = n4  a5 = a5  b3 = b3  b4 = b4  m3 = m3
    r0 = r0  r1 = r1  r2 = r2  r3 = r3  r4 = r4  r5 = r5  cp = cp  cq = cq  x = x  y = y  z = z
    i1 = i1  i2 = i2  i3 = i3  i4 = i4  i5 = i5  i6 = i6
    Block = {g, t1, t2, a3, n4, a5, b3, b4, m3}
    NoBlock = NoBlock
    Coin <- MCCoin
    NoCoin = NoCoin
    MaxHeight <- MCMaxHeight
    Height <- MCHeight
    Chain <- MCChain
    Weight <- MCWeight
    IsTx <- MCIsTx
    HasSummary <- MCFalse
    HeaderOk <- MCTrue
    BodyOk <- MCTrue
    Additions <- MCAdditions
    Removals <- MCRemovals
    Claims <- MCClaims
    Reward <- MCReward
    Parent <- MCParent
    Item = {i1, i2, i3, i4}
    NoItem = NoItem
    Spends <- MCSpends
    Creates <- MCCreates
    Cost <- MCCost
    Fee <- MCFee
    MaxTotalCost = 5
    MaxPendingCost = 4
    HeightLock <- MCHeightLock
    SecondsLock <- MCSecondsLock
    Timestamp <- MCTimestamp
    NonzeroFeeMin = 5
    MinFeeIncrease = 5
    BundleMaxCost = 4
    SeenCacheSize = 2
    MaxTasks = 2
    StartPeaks <- MCStartPeaks
INVARIANTS
    PoolSound
    BundleIsValidIfTold
PROPERTIES
    LeavesForCause
CHECK_DEADLOCK FALSE
