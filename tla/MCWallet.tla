------------------------------ MODULE MCWallet ------------------------------
(***************************************************************************)
(* The parts of the wallet, model-checked one at a time: the variable part *)
(* says which, and the others stay as they are.                            *)
(***************************************************************************)
EXTENDS Naturals, Sequences, FiniteSets, TLC

VARIABLES
    part,
    rows, saved, watched, keyLock, dbLock, task, given, requests, newBlocks, fails, restarts, \* WalletKeys
    known, heights, peakAt, dbPeak, coinRecs, txCache, txRows, job, adding, lateAcks, toSend, offered,
    syncs, acks, walletFaults,                                                        \* WalletState
    pchain, pseen, hist, ghost, wish, poolTxs, poolCfg, peakDue, preorgs, absorbs, asks,
    poolFaults,                                                                       \* PoolWallet
    files, trades, pending, pool, blocks, seenUpTo, cancels, torn                     \* Trade

keyVars == <<rows, saved, watched, keyLock, dbLock, task, given, requests, newBlocks, fails, restarts>>
walletVars ==
    <<known, heights, peakAt, dbPeak, coinRecs, txCache, txRows, job, adding, lateAcks, toSend, offered,
      syncs, acks, walletFaults>>
poolVars ==
    <<pchain, pseen, hist, ghost, wish, poolTxs, poolCfg, peakDue, preorgs, absorbs, asks, poolFaults>>
tradeVars == <<files, trades, pending, pool, blocks, seenUpTo, cancels, torn>>
vars == <<part, keyVars, walletVars, poolVars, tradeVars>>

-----------------------------------------------------------------------------
K == INSTANCE WalletKeys WITH
       Rpc <- {"r1", "r2"}, NumKeys <- 2, MaxIndex <- 8, MaxRequests <- 3, MaxBlocks <- 1,
       MaxFailures <- 2

\* A chain of three blocks and one that leaves it after the first; two coins of others; t1 and
\* t2 spend the same coin, t3 spends the change of t1.
S == INSTANCE WalletState WITH
       Block <- {"g", "a1", "a2", "a3", "b2", "b3"}, Genesis <- "g",
       Parent <- "g" :> "g" @@ "a1" :> "g" @@ "a2" :> "a1" @@ "a3" :> "a2" @@ "b2" :> "a1" @@ "b3" :> "b2",
       Weight <- "g" :> 0 @@ "a1" :> 1 @@ "a2" :> 2 @@ "a3" :> 5 @@ "b2" :> 2 @@ "b3" :> 4,
       Coin <- {"c1", "c2", "d1", "d2", "d3"}, Tx <- {"t1", "t2", "t3"},
       Rems <- "t1" :> {"c1"} @@ "t2" :> {"c1"} @@ "t3" :> {"d1"},
       Change <- "t1" :> "d1" @@ "t2" :> "d2" @@ "t3" :> "d3",
       Income <- "g" :> {} @@ "a1" :> {"c1"} @@ "a2" :> {"c2"} @@ "a3" :> {} @@ "b2" :> {} @@ "b3" :> {"c2"},
       Mined <- "g" :> {} @@ "a1" :> {} @@ "a2" :> {"t1"} @@ "a3" :> {"t3"} @@ "b2" :> {} @@ "b3" :> {},
       Peer <- {"n1"}, Behind <- 2, MaxSyncs <- 3, MaxAcks <- 1, MaxFaults <- 1

\* A pool the wallet can join and one whose lock height is out of bounds.
P == INSTANCE PoolWallet WITH
       Pool <- {"A", "bad"}, RelativeLock <- "A" :> 1 @@ "bad" :> 9, MinLock <- 1, MaxLock <- 5,
       Buffer <- 1, TxBlocks <- {1, 2, 3, 5, 6}, MaxChain <- 6, MaxReorgs <- 1, MaxAbsorbs <- 1,
       MaxAsks <- 3, MaxPoolFaults <- 1

\* A maker with two coins and two offers, one of which needs both; two takers.
T == INSTANCE Trade WITH
       Trader <- {"m", "a", "b"}, Taker <- {"a", "b"}, Coin <- {"c1", "c2", "d1", "e1"},
       Owner <- "c1" :> "m" @@ "c2" :> "m" @@ "d1" :> "a" @@ "e1" :> "b", Offer <- {"o1", "o2"},
       Gives <- "o1" :> 2 @@ "o2" :> 1, MaxBlocks <- 3, MaxCancels <- 2, MaxTorn <- 1

-----------------------------------------------------------------------------
MCInit ==
    /\ part \in {"keys", "state", "pooling", "trades"}
    /\ K!Init /\ S!Init /\ P!Init /\ T!Init

KeysStep == part = "keys" /\ K!Next /\ UNCHANGED <<part, walletVars, poolVars, tradeVars>>
StateStep == part = "state" /\ S!Next /\ UNCHANGED <<part, keyVars, poolVars, tradeVars>>
PoolStep == part = "pooling" /\ P!Next /\ UNCHANGED <<part, keyVars, walletVars, tradeVars>>
TradeStep == part = "trades" /\ T!Next /\ UNCHANGED <<part, keyVars, walletVars, poolVars>>

MCNext == KeysStep \/ StateStep \/ PoolStep \/ TradeStep
MCSpec == MCInit /\ [][MCNext]_vars

-----------------------------------------------------------------------------
\* No address is handed out twice as long as nothing fails, whichever RPCs, sync and blocks
\* interleave, and every address that is handed out is one whose payments are seen, unless a
\* failed transaction and a restart follow each other.
KeysSound == K!KeysSound

\* The coin records are those of the chain of the peak after any reorg, replay of blocks, failed
\* transaction and restart; and, but for an answer that comes while a block is added, the wallet
\* never has two pending transactions that spend one of them.
CoinsOfChain == S!CoinsOfChain /\ S!SpendsOnce

\* The history of the pool wallet is that of the singleton on the wallet's chain, and the farmer
\* is told the state the singleton has.
PoolStateOfChain == P!PoolStateOfChain

\* What a wallet says of a trade is what the chain did with it.
TradesOfChain == T!TradesOfChain
=============================================================================
