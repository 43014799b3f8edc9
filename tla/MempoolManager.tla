--------------------------- MODULE MempoolManager ---------------------------
(***************************************************************************)
(* MempoolManager and the parts of FullNode that drive it: transactions    *)
(* from peers (respond_transaction), blocks one by one (respond_block), in *)
(* batches (short_sync_batch) and from a long sync (_sync, _finish_sync),  *)
(* and the mempool's own new_peak, which yields between items.             *)
(*                                                                         *)
(* The chain is the abstract Ledger, which the Blockchain module is proved *)
(* to implement: get_coin_record answers from the chain of the peak.  The  *)
(* blockchain lock is held by one job at a time; what runs without it (the *)
(* start of respond_transaction, the start of a sync) interleaves with     *)
(* every step of a job.                                                    *)
(***************************************************************************)
EXTENDS Ledger, Mempool

CONSTANTS
    HeightLock,       \* HeightLock[i]: the largest ASSERT_HEIGHT_ABSOLUTE of i
    SecondsLock,      \* SecondsLock[i]: the largest ASSERT_SECONDS_ABSOLUTE of i
    Timestamp,        \* Timestamp[b]: the timestamp of a transaction block
    NonzeroFeeMin,    \* nonzero_fee_minimum_fpc
    MinFeeIncrease,   \* get_min_fee_increase()
    BundleMaxCost,    \* limit_factor * MAX_BLOCK_COST_CLVM
    SeenCacheSize,    \* seen_cache_size
    MaxTasks,         \* the permits of respond_transaction_semaphore
    StartPeaks        \* the peaks the database may hold when the node starts

ASSUME ManagerAssumption ==
    /\ HeightLock \in [Item -> Nat]
    /\ SecondsLock \in [Item -> Nat]
    /\ Timestamp \in [Block -> Nat]
    /\ NonzeroFeeMin \in Nat /\ MinFeeIncrease \in Nat
    /\ BundleMaxCost \in Nat /\ SeenCacheSize \in Nat /\ MaxTasks \in Nat
    /\ StartPeaks \subseteq Block \cup {NoBlock}
    /\ \A i \in Item : Cost[i] <= BundleMaxCost
    /\ \A b \in StartPeaks \ {NoBlock} : SpendsAreSound(b)

VARIABLES
    pool,         \* MempoolManager.mempool
    potential,    \* MempoolManager.potential_cache
    seen,         \* MempoolManager.seen_bundle_hashes, oldest first
    mempoolPeak,  \* MempoolManager.peak
    tasks,        \* tasks[i]: respond_transaction calls for i past the seen check
    syncing,      \* "no", "mode" (sync_mode set), "lock" (syncing), "finish"
    job,          \* what the holder of the blockchain lock is doing
    told          \* history: new_peak has been called for every transaction block

mempool == <<pool, potential, seen, mempoolPeak>>
vars == <<known, peak, coins, pool, potential, seen, mempoolPeak, tasks, syncing, job>>

Stages == {"free", "batch", "sync", "rebuild", "drain", "announce"}

\* by: the caller of new_peak; was, old: old_pool and its items still to be
\* added; retry: potential_txs still to be added; added: txs_added;
\* advanced, changes: receive_block_batch's locals, last: its latest block.
Jobs == [stage : Stages, by : {"block", "batch", "sync"}, was : SUBSET Item,
         old : SUBSET Item, retry : Seq(Item), added : Seq(Item),
         advanced : BOOLEAN, changes : SUBSET Coin, last : Block \cup {NoBlock}]

FreeLock == [stage |-> "free", by |-> "block", was |-> {}, old |-> {}, retry |-> <<>>,
             added |-> <<>>, advanced |-> FALSE, changes |-> {}, last |-> NoBlock]

-----------------------------------------------------------------------------
\* The transaction block that ends the chain of b, b included.
LastTx(b) ==
    IF \E h \in 0 .. Height[b] : IsTx[Chain[b][h]]
    THEN Chain[b][Max({h \in 0 .. Height[b] : IsTx[Chain[b][h]]})]
    ELSE NoBlock

\* prev_transaction_block_hash
PrevTx(b) == IF Height[b] = 0 THEN NoBlock ELSE LastTx(Prev(b))

\* Checks 1 and 5 of validate_block_body: only a transaction block has a body, and it claims
\* the rewards due.  Check 26b of validate_unfinished_header_block: timestamps grow from one
\* to the next.
ASSUME ValidBlockAssumption ==
    \A b \in Block :
        /\ RewardsClaimed(b)
        /\ IsTx[b] /\ PrevTx(b) # NoBlock => Timestamp[PrevTx(b)] < Timestamp[b]

\* get_coin_record(c) is not None, and its record is marked spent.
HasRecord(c) == peak # NoBlock /\ \E h \in 0 .. Height[peak] : c \in Adds(Chain[peak][h])
IsSpent(c) == HasRecord(c) /\ c \notin coins

\* add_and_maybe_pop_seen; an entry already there keeps its place.
WithSeen(i) ==
    LET s == IF i \in Range(seen) THEN seen ELSE Append(seen, i)
    IN  SubSeq(s, Max({1, Len(s) - SeenCacheSize + 1}), Len(s))

\* remove_seen, of each item of S.
WithoutSeen(S) == SelectSeq(seen, LAMBDA j : j \notin S)

-----------------------------------------------------------------------------
(* add_spendbundle *)

\* The checks that end in FAILED before the pool's own items are looked at.
Admissible(i) ==
    /\ mempoolPeak # NoBlock
    /\ \A c \in Spends[i] : HasRecord(c) \/ c \in Creates[i]
    /\ at_full_capacity(pool, Cost[i]) =>
          /\ Fee[i] >= NonzeroFeeMin * Cost[i]
          /\ AboveMinFeeRate(pool, i)
    /\ \A c \in Spends[i] \ Creates[i] : ~ IsSpent(c)

\* check_removals: the pool items that spend a coin of i.
Conflicting(i) == {pool.removals[c] : c \in Spends[i]} \ {NoItem}

\* A mutant: any increase of the fee replaces.
ReplacesForAnyIncrease(i) ==
    LET S == Conflicting(i)
    IN  /\ \A j \in S : Spends[j] \subseteq Spends[i]
        /\ Fee[i] * CostOf(S) > FeeOf(S) * Cost[i]

can_replace(i) ==
    LET S == Conflicting(i)
    IN  /\ \A j \in S : Spends[j] \subseteq Spends[i]
        /\ Fee[i] * CostOf(S) > FeeOf(S) * Cost[i]
        /\ Fee[i] - FeeOf(S) >= MinFeeIncrease

HeightOk(i) == HeightLock[i] <= Height[mempoolPeak]
SecondsOk(i) == SecondsLock[i] <= Timestamp[mempoolPeak]

Pends(i) ==
    /\ i \notin pool.spends
    /\ Admissible(i)
    /\ (Conflicting(i) # {} /\ ~ can_replace(i)) \/ ~ HeightOk(i)

Accepts(i) ==
    /\ i \notin pool.spends
    /\ Admissible(i)
    /\ Conflicting(i) # {} => can_replace(i)
    /\ HeightOk(i) /\ SecondsOk(i)

\* MempoolInclusionStatus.SUCCESS, also for an item that is there already.
Succeeds(i) == Accepts(i) \/ (mempoolPeak # NoBlock /\ i \in pool.spends)

add_spendbundle(i) ==
    \/ /\ Accepts(i)
       /\ LET p == remove_from_pool(pool, Conflicting(i))
          IN  \E E \in Evictions(p, Cost[i]) : pool' = add_to_pool(p, i, E)
       /\ UNCHANGED potential
    \/ /\ Pends(i)
       /\ potential' = pending_add(potential, i)
       /\ UNCHANGED pool
    \/ /\ ~ Accepts(i) /\ ~ Pends(i)
       /\ UNCHANGED <<pool, potential>>

-----------------------------------------------------------------------------
(* new_peak *)

\* A mutant: the optimised path re-adds items whose coins were spent.
KeepsAll(changes) == pool.spends

\* The pool items the optimised path re-adds.
Untouched(changes) == {i \in pool.spends : Spends[i] \cap changes = {}}

use_optimization(b) == mempoolPeak # NoBlock /\ PrevTx(b) = mempoolPeak

\* new_peak up to its first await, called by `by` with the peak b.
new_peak(b, changes, by) ==
    \/ /\ ~ IsTx[b] \/ mempoolPeak = b
       /\ job' = FreeLock
       /\ UNCHANGED mempool
    \/ /\ IsTx[b] /\ mempoolPeak # b /\ use_optimization(b)
       /\ mempoolPeak' = b
       /\ pool' = PoolOf(Untouched(changes))
       /\ seen' = WithoutSeen(pool.spends \ Untouched(changes))
       /\ job' = [FreeLock EXCEPT !.stage = "drain", !.by = by, !.was = pool.spends,
                                  !.retry = potential.txs]
       /\ potential' = pending_drain(potential)
    \/ /\ IsTx[b] /\ mempoolPeak # b /\ ~ use_optimization(b)
       /\ mempoolPeak' = b
       /\ pool' = EmptyPool
       /\ job' = [FreeLock EXCEPT !.stage = "rebuild", !.by = by, !.was = pool.spends,
                                  !.old = pool.spends]
       /\ UNCHANGED <<potential, seen>>

\* One item of old_pool is added to the new pool.
Rebuild(i) ==
    /\ job.stage = "rebuild"
    /\ i \in job.old
    /\ add_spendbundle(i)
    /\ seen' = IF Succeeds(i) THEN seen ELSE WithoutSeen({i})
    /\ job' = [job EXCEPT !.old = @ \ {i}]
    /\ UNCHANGED <<ledger, mempoolPeak, tasks, syncing>>

\* The loop over old_pool ends, the potential cache is drained.
StartDrain ==
    /\ job.stage = "rebuild"
    /\ job.old = {}
    /\ job' = [job EXCEPT !.stage = "drain", !.retry = potential.txs]
    /\ potential' = pending_drain(potential)
    /\ UNCHANGED <<ledger, pool, seen, mempoolPeak, tasks, syncing>>

\* One drained item is tried again.
Retry ==
    /\ job.stage = "drain"
    /\ job.retry # <<>>
    /\ LET i == Head(job.retry)
       IN  /\ add_spendbundle(i)
           /\ job' = [job EXCEPT !.retry = Tail(@),
                        !.added = IF Succeeds(i) THEN Append(@, i) ELSE @]
    /\ UNCHANGED <<ledger, seen, mempoolPeak, tasks, syncing>>

EndNewPeak ==
    /\ job.stage = "drain"
    /\ job.retry = <<>>
    /\ job' = [job EXCEPT !.stage = "announce"]
    /\ UNCHANGED <<ledger, mempool, tasks, syncing>>

\* peak_post_processing_2 looks up every item of txs_added; an item that is
\* not in the pool fails its assertion and ends the task.  No await of it
\* gives way before the last item, so the release of the lock is part of it.
peak_post_processing_2 ==
    /\ job.stage = "announce"
    /\ job' = FreeLock
    /\ UNCHANGED <<ledger, mempool, tasks, syncing>>

\* A CancelledError inside new_peak, in a respond_block that a timelord's
\* infusion point started: the handler calls peak_post_processing again, whose
\* new_peak finds the peak already set and returns at once.
Cancel ==
    /\ job.stage \in {"rebuild", "drain"}
    /\ job.by = "block"
    /\ job' = FreeLock
    /\ UNCHANGED <<ledger, mempool, tasks, syncing>>

-----------------------------------------------------------------------------
(* respond_transaction *)

BeginTransaction(i) ==
    /\ syncing \in {"no", "finish"}
    /\ i \notin Range(seen)
    /\ MapThenSumSet(LAMBDA j : tasks[j], Item) < MaxTasks
    /\ seen' = WithSeen(i)
    /\ tasks' = [tasks EXCEPT ![i] = @ + 1]
    /\ UNCHANGED <<ledger, pool, potential, mempoolPeak, syncing, job>>

\* pre_validate_spendbundle raises.
FailTransaction(i) ==
    /\ tasks[i] > 0
    /\ seen' = WithoutSeen({i})
    /\ tasks' = [tasks EXCEPT ![i] = @ - 1]
    /\ UNCHANGED <<ledger, pool, potential, mempoolPeak, syncing, job>>

EndTransaction(i) ==
    /\ tasks[i] > 0
    /\ job.stage = "free"
    /\ \/ /\ i \in pool.spends
          /\ seen' = WithoutSeen({i})
          /\ UNCHANGED <<pool, potential>>
       \/ /\ i \notin pool.spends
          /\ add_spendbundle(i)
          /\ seen' = IF Succeeds(i) THEN seen ELSE WithoutSeen({i})
    /\ tasks' = [tasks EXCEPT ![i] = @ - 1]
    /\ UNCHANGED <<ledger, mempoolPeak, syncing, job>>

-----------------------------------------------------------------------------
(* Blocks *)

\* The coins of the records receive_block reports when the peak moves to b:
\* those its new blocks add or spend and those rollback_to_block deletes.
\* (The coins a rollback makes unspent are missing, see EveryChangeReported.)
CoinChanges(b) ==
    LET f == IF peak = NoBlock THEN -1
             ELSE Max({-1} \cup {h \in Heights : /\ h <= Height[b] /\ h <= Height[peak]
                                                 /\ Chain[b][h] = Chain[peak][h]})
    IN  (UNION {Adds(Chain[b][h]) \cup Removals[Chain[b][h]] : h \in f + 1 .. Height[b]})
        \cup (IF peak = NoBlock THEN {}
              ELSE UNION {Adds(Chain[peak][h]) : h \in f + 1 .. Height[peak]})

\* receive_block, as its implementation of Ledger.
receive_block(b) == b \notin known /\ (Follow(b) \/ Remember(b))

respond_block(b) ==
    /\ job.stage = "free"
    /\ receive_block(b)
    /\ IF peak' # peak THEN new_peak(b, CoinChanges(b), "block")
       ELSE UNCHANGED <<mempool, job>>
    /\ UNCHANGED <<tasks, syncing>>

\* short_sync_batch takes the lock for a batch of blocks.
BeginBatch ==
    /\ job.stage = "free"
    /\ job' = [FreeLock EXCEPT !.stage = "batch"]
    /\ UNCHANGED <<ledger, mempool, tasks, syncing>>

\* receive_block_batch, one block; pre-validation only passes blocks that
\* follow one another.
BatchBlock(b) ==
    /\ job.stage = "batch"
    /\ job.last # NoBlock => Prev(b) = job.last
    /\ receive_block(b)
    /\ job' = [job EXCEPT !.last = b,
                 !.advanced = @ \/ peak' # peak,
                 !.changes = IF peak' # peak THEN @ \cup CoinChanges(b) ELSE @]
    /\ UNCHANGED <<mempool, tasks, syncing>>

EndBatch ==
    /\ job.stage = "batch"
    /\ IF job.advanced THEN new_peak(peak, job.changes, "batch")
       ELSE job' = FreeLock /\ UNCHANGED mempool
    /\ UNCHANGED <<ledger, tasks, syncing>>

\* A block of the batch is invalid or disconnected: short_sync_batch raises,
\* and nobody tells the mempool about the blocks before it.
FailBatch ==
    /\ job.stage = "batch"
    /\ job' = FreeLock
    /\ UNCHANGED <<ledger, mempool, tasks, syncing>>

\* _sync sets sync_mode, waits for the lock, adds blocks and releases it.
BeginSync ==
    /\ syncing = "no"
    /\ syncing' = "mode"
    /\ UNCHANGED <<ledger, mempool, tasks, job>>

LockSync ==
    /\ syncing = "mode"
    /\ job.stage = "free"
    /\ syncing' = "lock"
    /\ job' = [FreeLock EXCEPT !.stage = "sync"]
    /\ UNCHANGED <<ledger, mempool, tasks>>

SyncBlock(b) ==
    /\ job.stage = "sync"
    /\ receive_block(b)
    /\ UNCHANGED <<mempool, tasks, syncing, job>>

EndSync ==
    /\ job.stage = "sync"
    /\ syncing' = "finish"
    /\ job' = FreeLock
    /\ UNCHANGED <<ledger, mempool, tasks>>

\* _finish_sync under the lock: no coin changes are passed on.
FinishSync ==
    /\ syncing = "finish"
    /\ job.stage = "free"
    /\ syncing' = "no"
    /\ IF peak # NoBlock THEN new_peak(peak, {}, "sync")
       ELSE UNCHANGED <<mempool, job>>
    /\ UNCHANGED <<ledger, tasks>>

-----------------------------------------------------------------------------
\* _start: the chain comes from the database, the mempool is empty.
Init ==
    \E b \in StartPeaks :
        /\ peak = b
        /\ known = IF b = NoBlock THEN {} ELSE {Chain[b][h] : h \in 0 .. Height[b]}
        /\ coins = IF b = NoBlock THEN {} ELSE UnspentOf(b)
        /\ mempoolPeak = IF b # NoBlock /\ IsTx[b] THEN b ELSE NoBlock
        /\ pool = EmptyPool
        /\ potential = EmptyPending
        /\ seen = <<>>
        /\ tasks = [i \in Item |-> 0]
        /\ syncing = "no"
        /\ job = FreeLock

JobStep ==
    \/ \E i \in Item : Rebuild(i)
    \/ StartDrain
    \/ Retry
    \/ EndNewPeak
    \/ peak_post_processing_2

Transactions ==
    \E i \in Item : BeginTransaction(i) \/ FailTransaction(i) \/ EndTransaction(i)

Blocks ==
    \/ \E b \in Block : respond_block(b) \/ BatchBlock(b)
    \/ BeginBatch \/ EndBatch \/ FailBatch

LongSync ==
    \/ BeginSync \/ LockSync \/ EndSync \/ FinishSync
    \/ \E b \in Block : SyncBlock(b)

\* Transactions, blocks and batches; no long sync, no cancelled task.
Next == JobStep \/ Transactions \/ Blocks
Spec == Init /\ [][Next]_vars

NextSync == Next \/ LongSync

NextAll == Next \/ LongSync \/ Cancel
SpecAll == Init /\ [][NextAll]_vars

\* The mempool knows the last transaction block of the chain, or none.
UpToDate ==
    job.stage = "free" =>
        mempoolPeak \in {NoBlock, IF peak = NoBlock THEN NoBlock ELSE LastTx(peak)}

\* With the history: a failed batch, a batch or a reorganisation that ends in no
\* transaction block, or a long sync may leave the mempool behind.
NextTold ==
    \/ /\ Next \/ Cancel
       /\ told' = (told /\ UpToDate')
    \/ /\ LongSync
       /\ told' = FALSE
SpecTold == Init /\ told = TRUE /\ [][NextTold]_<<vars, told>>

-----------------------------------------------------------------------------
(* Reading the pool *)

\* create_bundle_from_mempool: items in decreasing fee per cost, up to the
\* first one that does not fit.
Bundles ==
    IF mempoolPeak = NoBlock \/ mempoolPeak # LastTx(peak) THEN {}
    ELSE {B \in SUBSET pool.spends :
            /\ CostOf(B) <= BundleMaxCost
            /\ \A i \in B : \A j \in pool.spends \ B : ~ PaysMore(j, i)
            /\ B # pool.spends => \E next \in pool.spends \ B :
                  /\ \A j \in pool.spends \ B : ~ PaysMore(j, next)
                  /\ CostOf(B) + Cost[next] > BundleMaxCost}

\* get_items_not_in_filter with an empty filter: sorted_spends is walked from
\* its first key.
FilterItems(limit) ==
    {S \in SUBSET pool.spends :
        /\ Cardinality(S) = Min({limit, Cardinality(pool.spends)})
        /\ \A i \in S : \A j \in pool.spends \ S : ~ PaysMore(i, j)}

-----------------------------------------------------------------------------
(* Properties *)

TypeOK ==
    /\ known \subseteq Block /\ peak \in Block \cup {NoBlock} /\ coins \subseteq Coin
    /\ pool \in Pools
    /\ potential \in Pendings
    /\ seen \in Seq(Item) /\ Len(seen) <= SeenCacheSize
    /\ mempoolPeak \in Block \cup {NoBlock}
    /\ tasks \in [Item -> Nat]
    /\ syncing \in {"no", "mode", "lock", "finish"}
    /\ job \in Jobs

\* No two items of the mempool spend the same coin, and the removals index
\* names, for every coin, the item that spends it: check_removals, which only
\* looks at the index, never misses a conflict.
PoolIndexed ==
    \A c \in Coin :
        \/ /\ pool.removals[c] = NoItem
           /\ \A i \in pool.spends : c \notin Spends[i]
        \/ /\ pool.removals[c] \in pool.spends
           /\ \A i \in pool.spends : c \in Spends[i] <=> i = pool.removals[c]

\* total_mempool_cost and _cache_cost are the sums of the costs of the items
\* held, through replacements, evictions, rebuilds and drains, and neither
\* container holds more than its limit.
CostAccounted ==
    /\ pool.cost = CostOf(pool.spends) /\ pool.cost <= MaxTotalCost
    /\ potential.cost = CostOf(Range(potential.txs)) /\ potential.cost <= MaxPendingCost

\* The containers of the mempool agree with each other after any sequence of adds,
\* replacements, evictions and rebuilds: the index by coin and the cost totals that
\* the checks of add_spendbundle rely on are those of the items held.
PoolSound == PoolIndexed /\ CostAccounted

\* The item i can be in a block on top of the peak.
SpendableAtPeak(i) ==
    /\ peak # NoBlock
    /\ \A c \in Spends[i] : c \in coins \/ c \in Creates[i]
    /\ LastTx(peak) # NoBlock
    /\ HeightLock[i] <= Height[LastTx(peak)]
    /\ SecondsLock[i] <= Timestamp[LastTx(peak)]

\* When declare_proof_of_space asks for a bundle, under the lock, the block
\* made from it is valid: every coin spent is unspent on the peak's chain or
\* created by the same item, none is spent twice, the locks have expired and
\* the cost is within the limit.
BundleIsValid ==
    job.stage = "free" =>
        \A B \in Bundles :
            /\ CostOf(B) <= BundleMaxCost
            /\ \A i \in B : SpendableAtPeak(i)
            /\ \A i, j \in B : i # j => Spends[i] \cap Spends[j] = {}

\* A bundle is valid as long as the mempool was told of every transaction block.
BundleIsValidIfTold == told => BundleIsValid

\* An item only leaves the pool, when another one enters, because the newcomer
\* spends one of its coins or pays a strictly higher fee per cost.
EvictedPayLess ==
    \A n \in pool'.spends \ pool.spends : \A i \in pool.spends \ pool'.spends :
        Spends[i] \cap Spends[n] # {} \/ PaysMore(n, i)

\* A newcomer that replaces conflicting items spends all their coins and pays
\* at least all their fees and the minimum increase.
ReplacementPays ==
    \A n \in pool'.spends \ pool.spends :
        LET replaced == {i \in pool.spends \ pool'.spends : Spends[i] \cap Spends[n] # {}}
        IN  replaced # {} =>
              /\ UNION {Spends[i] : i \in replaced} \subseteq Spends[n]
              /\ Fee[n] >= FeeOf(replaced) + MinFeeIncrease

\* When new_peak has gone through old_pool (at once or item by item), each of
\* its items that is still valid on the new peak is in the new pool.
RebuildKeepsValid ==
    job.stage # "drain" /\ job'.stage = "drain" =>
        \A i \in job'.was : SpendableAtPeak(i)' => i \in pool'.spends

\* An item leaves the pool for a reason only, over adds, replacements, evictions and
\* rebuilds: a newcomer that spends all the coins of those it conflicts with and pays for
\* them, a newcomer with a higher fee per cost, or, when the mempool was told of every
\* change, a new peak on which the item is not valid any more.
LeavesForCause == [][EvictedPayLess /\ ReplacementPays /\ (told => RebuildKeepsValid)]_vars

\* Every transaction new_peak reports as added is in the mempool when
\* peak_post_processing_2 looks it up (its assertion).
AddedIsInPool == job.stage = "announce" => Range(job.added) \subseteq pool.spends

\* A new_peak that is over has tried every item of old_pool and every drained
\* one, also when its task was cancelled.
NewPeakCompletes ==
    [][job.stage \in {"rebuild", "drain"} /\ job'.stage = "free"
          => job.old = {} /\ job.retry = <<>>]_vars

\* get_items_not_in_filter answers with the items of highest fee per cost.
FilterSendsHighest ==
    \A S \in FilterItems(1) : \A i \in S : \A j \in pool.spends \ S : ~ PaysMore(j, i)

=============================================================================
