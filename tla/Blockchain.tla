----------------------------- MODULE Blockchain -----------------------------
(***************************************************************************)
(* consensus/blockchain.py with the stores it drives: receive_block, the   *)
(* choice of the peak, reorganisations of the coin set, the caches in      *)
(* memory, and a restart from the database.                                *)
(*                                                                         *)
(* receive_block runs under the blockchain lock and writes inside one      *)
(* SQLite transaction that spans many awaits; one action here is one run   *)
(* of the code between two awaits at which the transaction may be lost.    *)
(* full_blocks, peak_row and coin_record are the tables as the open        *)
(* connection sees them, disk is what has been committed.                  *)
(*                                                                         *)
(* Spec has every step of a process that may be killed at any moment.      *)
(* AbortSpec adds the exception path of receive_block, CompactSpec the     *)
(* replacement of a stored block by its compact form.                      *)
(***************************************************************************)
EXTENDS BlockTree, FiniteSets

CONSTANTS
    NoRecord,           \* no coin record
    BLOCKS_CACHE_SIZE   \* depth of the cache of block records

ASSUME CacheAssumption == BLOCKS_CACHE_SIZE \in Nat \ {0}

INSTANCE CoinStore

ASSUME RecordAssumption == NoRecord \notin CoinRecord

VARIABLES
    full_blocks,          \* rows of full_blocks and block_records
    peak_row,             \* the row of block_records with is_peak = 1
    coin_record,          \* the coin table
    disk,                 \* the committed value of those three
    block_records,        \* __block_records
    height_to_hash,       \* __height_to_hash
    sub_epoch_summaries,  \* __sub_epoch_summaries: height to the block including it
    peak_height,          \* _peak_height, -1 for None
    coin_record_cache,    \* the coin store's LRU cache
    pc,                   \* where receive_block is
    block,                \* its argument
    hint,                 \* its fork_point_with_peak, -1 for None
    fork_height,          \* fork_height of _reconsider_peak
    next,                 \* the height it re-applies next
    lastest_coin_state    \* the coin records it will report

db == <<full_blocks, peak_row, coin_record>>
memory == <<block_records, height_to_hash, sub_epoch_summaries, peak_height>>
locals == <<block, hint, fork_height, next>>
vars == <<db, disk, memory, coin_record_cache, pc, locals, lastest_coin_state>>

-----------------------------------------------------------------------------
(* Reading the state *)

NoSummaries == [h \in Heights |-> NoBlock]
NoTable == [c \in Coin |-> NoRecord]

get_peak == height_to_hash[peak_height]

\* The rows of block_records on the chain of b that carry a summary.
SummariesOf(b) ==
    [h \in Heights |-> IF h <= Height[b] /\ HasSummary[Chain[b][h]]
                          THEN Chain[b][h] ELSE NoBlock]

\* find_fork_point_in_chain reads every block it walks over from
\* block_records and raises KeyError on one that is no longer there.
WalkCached(a, f) ==
    \A h \in 0 .. Height[a] : h >= f => Chain[a][h] \in block_records

find_fork_point_in_chain(a, b, f) ==
    IsForkPoint(a, b, f) /\ WalkCached(a, f) /\ WalkCached(b, f)

-----------------------------------------------------------------------------
(* validate_block_body *)

\* fork_h of check 15.
BodyFork(b, given, f) ==
    IF peak_height = -1 \/ Height[b] = 0 THEN f = -1
    ELSE IF given # -1 THEN f = given
    ELSE find_fork_point_in_chain(get_peak, Prev(b), f)

additions_since_fork(b, f) ==
    UNION {Adds(Chain[b][h]) : h \in f + 1 .. Height[b] - 1}

\* As removals_since_fork, looking at the coin store alone.
NoRemovalsSinceFork(b, f) == {}

removals_since_fork(b, f) ==
    UNION {Removals[Chain[b][h]] : h \in f + 1 .. Height[b] - 1}

\* Check 15 for one removal that b does not create itself.
SpendOk(b, f, c) ==
    LET unspent == GetCoinRecord(coin_record, coin_record_cache, c) IN
    /\ IF unspent # NoRecord /\ unspent.confirmed_index <= f
          THEN ~ (unspent.spent /\ unspent.spent_index <= f)
          ELSE c \in additions_since_fork(b, f)
    /\ c \notin removals_since_fork(b, f)

\* A block that is not a transaction block has no body; checks 1 to 22 of one
\* that is.
validate_block_body(b, f) ==
    /\ RewardsClaimed(b)
    /\ IsTx[b] => /\ BodyOk[b]
                  /\ \A c \in Removals[b] : c \in Adds(b) \/ SpendOk(b, f, c)

-----------------------------------------------------------------------------
(* Initial state: an empty database, just opened. *)

Init ==
    /\ full_blocks = {}
    /\ peak_row = NoBlock
    /\ coin_record = NoTable
    /\ disk = [full_blocks |-> {}, peak_row |-> NoBlock, coin_record |-> NoTable]
    /\ block_records = {}
    /\ height_to_hash = [h \in Heights |-> NoBlock]
    /\ sub_epoch_summaries = NoSummaries
    /\ peak_height = -1
    /\ coin_record_cache = NoTable
    /\ pc = "idle"
    /\ block = NoBlock
    /\ hint = -1
    /\ fork_height = -1
    /\ next = 0
    /\ lastest_coin_state = NoTable

-----------------------------------------------------------------------------
(* receive_block *)

\* The checks that come before the body: already known, parent unknown, header.
Connected(b) ==
    /\ b \notin block_records
    /\ Height[b] = 0 \/ Prev(b) \in block_records
    /\ HeaderOk[b]

\* A fork point handed in by the sync code is the height of a block the peak's
\* chain and b's chain share.
GivenForkPoint(b, given) ==
    \/ given = -1
    \/ /\ given >= 0 /\ peak_height # -1 /\ Height[b] > 0
       /\ CommonUpTo(get_peak, Prev(b), given)

\* Validation looks the spent coins up, which fills the coin cache.
ReadRemovals(b) ==
    coin_record_cache' =
        CacheAfterReads(coin_record, coin_record_cache, Removals[b] \ Adds(b))

\* The body does not validate: INVALID_BLOCK, nothing is stored.
RejectBlock(b, given, f) ==
    /\ pc = "idle"
    /\ Connected(b)
    /\ GivenForkPoint(b, given)
    /\ BodyFork(b, given, f)
    /\ ~ validate_block_body(b, f)
    /\ ReadRemovals(b)
    /\ UNCHANGED <<db, disk, memory, pc, locals, lastest_coin_state>>

\* The block is valid: open the transaction and add the block to it.
BeginTransaction(b, given, f) ==
    /\ pc = "idle"
    /\ Connected(b)
    /\ GivenForkPoint(b, given)
    /\ BodyFork(b, given, f)
    /\ validate_block_body(b, f)
    /\ ReadRemovals(b)
    /\ full_blocks' = full_blocks \cup {b}
    /\ pc' = "reconsider"
    /\ block' = b
    /\ hint' = given
    /\ UNCHANGED <<peak_row, coin_record, disk, memory, fork_height, next,
                   lastest_coin_state>>

\* lastest_coin_state after the records of S have been set from table t.
Report(t, S) == [c \in Coin |-> IF c \in S THEN t[c] ELSE lastest_coin_state[c]]

\* A coin that leaves the table is reported with confirmed_index 0.
ReportDeleted(S) ==
    [c \in Coin |-> IF c \in S THEN [coin_record[c] EXCEPT !.confirmed_index = 0]
                              ELSE lastest_coin_state[c]]

\* new_block on table and cache, and the records of the block reported.
ApplyToCoinStore(b) ==
    IF IsTx[b]
       THEN LET t == NewBlock(coin_record, Adds(b), Removals[b], Height[b])
                m == NewBlock(coin_record_cache, Adds(b), Removals[b], Height[b])
            IN /\ coin_record' = t
               /\ coin_record_cache' = CacheAfterReads(t, m, Removals[b])
               /\ lastest_coin_state' = Report(t, Adds(b) \cup Removals[b])
       ELSE UNCHANGED <<coin_record, coin_record_cache, lastest_coin_state>>

Heavier(b) == Weight[b] > Weight[get_peak]

\* _reconsider_peak for the first block of an empty chain.
ReconsiderGenesis ==
    /\ pc = "reconsider"
    /\ Height[block] = 0 /\ peak_height = -1
    /\ IF IsTx[block]
          THEN /\ coin_record' = NewBlock(coin_record, Adds(block), Removals[block], 0)
               /\ coin_record_cache' =
                     NewBlock(coin_record_cache, Adds(block), Removals[block], 0)
               /\ lastest_coin_state' =
                     Report(AddCoinRecords(coin_record, Adds(block), 0), Adds(block))
          ELSE UNCHANGED <<coin_record, coin_record_cache, lastest_coin_state>>
    /\ peak_row' = block
    /\ fork_height' = -1
    /\ pc' = "commit_peak"
    /\ UNCHANGED <<full_blocks, disk, memory, block, hint, next>>

\* _reconsider_peak when the peak stays.
ReconsiderOrphan ==
    /\ pc = "reconsider"
    /\ peak_height # -1
    /\ Height[block] = 0 \/ ~ Heavier(block)
    /\ pc' = "commit_orphan"
    /\ UNCHANGED <<db, disk, memory, coin_record_cache, locals, lastest_coin_state>>

\* fork_height of _reconsider_peak.
ReorgFork(f) ==
    IF Prev(block) = get_peak THEN f = peak_height
    ELSE IF hint # -1 THEN f = hint
    ELSE find_fork_point_in_chain(Prev(block), get_peak, f)

\* __sub_epoch_summaries without the heights above the fork.
SummariesUpTo(f) ==
    [h \in Heights |-> IF h > f THEN NoBlock ELSE sub_epoch_summaries[h]]

\* The lowest height among blocks_to_add.
FirstToApply(f) == f + 1

\* The block is heavier: roll coins and summaries back to the fork.
ReconsiderHeavier(f) ==
    /\ pc = "reconsider"
    /\ peak_height # -1 /\ Height[block] > 0
    /\ Heavier(block)
    /\ ReorgFork(f)
    /\ IF Prev(block) = get_peak
          THEN UNCHANGED <<coin_record, coin_record_cache, lastest_coin_state>>
          ELSE /\ coin_record' = RollbackToBlock(coin_record, f)
               /\ coin_record_cache' = RollbackCache(coin_record_cache, f)
               /\ lastest_coin_state' = ReportDeleted(RollbackChanges(coin_record, f))
    /\ sub_epoch_summaries' = SummariesUpTo(f)
    /\ fork_height' = f
    /\ next' = FirstToApply(f)
    /\ pc' = "apply"
    /\ UNCHANGED <<full_blocks, peak_row, disk, block_records, height_to_hash,
                   peak_height, block, hint>>

\* Apply the blocks from the fork to the new peak, in height order.
ApplyBlock ==
    /\ pc = "apply"
    /\ next <= Height[block]
    /\ ApplyToCoinStore(Chain[block][next])
    /\ next' = next + 1
    /\ UNCHANGED <<full_blocks, peak_row, disk, memory, pc, block, hint, fork_height>>

SetPeak ==
    /\ pc = "apply"
    /\ next > Height[block]
    /\ peak_row' = block
    /\ pc' = "commit_peak"
    /\ UNCHANGED <<full_blocks, coin_record, disk, memory, coin_record_cache,
                   locals, lastest_coin_state>>

\* As Commit, with the peak marked after the commit.
CommitWithoutPeak == disk' = [disk EXCEPT !.full_blocks = full_blocks,
                                          !.coin_record = coin_record]

Commit == disk' = [full_blocks |-> full_blocks, peak_row |-> peak_row,
                   coin_record |-> coin_record]

\* The heights of the records that _reconsider_peak returns.
records_to_add == fork_height + 1 .. Height[block]

\* Commit, then update the memory; nothing can come between the two.
CommitPeak ==
    /\ pc = "commit_peak"
    /\ Commit
    /\ block_records' = block_records \cup {block}
    /\ height_to_hash' = [h \in Heights |->
          IF h \in records_to_add THEN Chain[block][h] ELSE height_to_hash[h]]
    /\ sub_epoch_summaries' = [h \in Heights |->
          IF h \in records_to_add /\ HasSummary[Chain[block][h]]
             THEN Chain[block][h] ELSE sub_epoch_summaries[h]]
    /\ peak_height' = Height[block]
    /\ pc' = "idle"
    /\ lastest_coin_state' = NoTable
    /\ UNCHANGED <<db, coin_record_cache, locals>>

CommitOrphan ==
    /\ pc = "commit_orphan"
    /\ Commit
    /\ block_records' = block_records \cup {block}
    /\ pc' = "idle"
    /\ UNCHANGED <<db, height_to_hash, sub_epoch_summaries, peak_height,
                   coin_record_cache, locals, lastest_coin_state>>

\* As Abort, leaving the transaction open.
AbortWithoutRollback ==
    /\ pc # "idle"
    /\ pc' = "idle"
    /\ lastest_coin_state' = NoTable
    /\ UNCHANGED <<db, disk, memory, coin_record_cache, locals>>

\* An exception or a cancellation at one of the awaits of the transaction: the
\* database is rolled back, the memory is left as it is.
Abort ==
    /\ pc # "idle"
    /\ full_blocks' = disk.full_blocks
    /\ peak_row' = disk.peak_row
    /\ coin_record' = disk.coin_record
    /\ pc' = "idle"
    /\ lastest_coin_state' = NoTable
    /\ UNCHANGED <<disk, memory, coin_record_cache, locals>>

-----------------------------------------------------------------------------
(* The caches, and a restart *)

\* get_coin_record called by the mempool or a request.
ReadCoin(c) ==
    /\ coin_record_cache[c] = NoRecord
    /\ coin_record_cache' = CacheAfterReads(coin_record, coin_record_cache, {c})
    /\ UNCHANGED <<db, disk, memory, pc, locals, lastest_coin_state>>

\* The LRU cache drops its oldest entry; any entry can be the oldest one.
EvictCoin(c) ==
    /\ coin_record_cache[c] # NoRecord
    /\ coin_record_cache' = [coin_record_cache EXCEPT ![c] = NoRecord]
    /\ UNCHANGED <<db, disk, memory, pc, locals, lastest_coin_state>>

\* clean_block_record: from a height downwards, as long as there are records.
clean_block_record(top) ==
    {b \in block_records :
        \/ Height[b] > top
        \/ \E k \in Height[b] .. top : \A x \in block_records : Height[x] # k}

clean_block_records ==
    /\ pc = "idle"
    /\ Cardinality(block_records) >= BLOCKS_CACHE_SIZE
    /\ peak_height - BLOCKS_CACHE_SIZE >= 0
    /\ block_records' = clean_block_record(peak_height - BLOCKS_CACHE_SIZE)
    /\ UNCHANGED <<db, disk, height_to_hash, sub_epoch_summaries, peak_height,
                   coin_record_cache, pc, locals, lastest_coin_state>>

\* warmup: load the records around a fork point before a sync.
warmup(f) ==
    /\ pc = "idle"
    /\ peak_height # -1
    /\ block_records' = block_records \cup
          {b \in full_blocks : Height[b] >= f - BLOCKS_CACHE_SIZE /\ Height[b] <= f}
    /\ UNCHANGED <<db, disk, height_to_hash, sub_epoch_summaries, peak_height,
                   coin_record_cache, pc, locals, lastest_coin_state>>

\* The process dies at any point and starts again: the tables are the committed
\* ones and _load_chain_from_store rebuilds the memory from them.
Restart ==
    LET p == disk.peak_row IN
    /\ full_blocks' = disk.full_blocks
    /\ peak_row' = p
    /\ coin_record' = disk.coin_record
    /\ IF p = NoBlock
          THEN /\ block_records' = {}
               /\ height_to_hash' = [h \in Heights |-> NoBlock]
               /\ sub_epoch_summaries' = NoSummaries
               /\ peak_height' = -1
          ELSE /\ block_records' = {b \in disk.full_blocks :
                                       Height[b] >= Height[p] - BLOCKS_CACHE_SIZE}
               /\ height_to_hash' = Chain[p]
               /\ sub_epoch_summaries' = SummariesOf(p)
               /\ peak_height' = Height[p]
    /\ coin_record_cache' = NoTable
    /\ pc' = "idle"
    /\ block' = NoBlock
    /\ hint' = -1
    /\ fork_height' = -1
    /\ next' = 0
    /\ lastest_coin_state' = NoTable
    /\ UNCHANGED disk

\* _replace_proof on a block of the peak's chain: INSERT OR REPLACE writes the
\* block record with is_peak = False.
ReplaceProof(b) ==
    /\ pc = "idle"
    /\ b \in full_blocks
    /\ height_to_hash[Height[b]] = b
    /\ peak_row' = IF peak_row = b THEN NoBlock ELSE peak_row
    /\ disk' = [disk EXCEPT !.peak_row = peak_row']
    /\ UNCHANGED <<full_blocks, coin_record, memory, coin_record_cache, pc,
                   locals, lastest_coin_state>>

-----------------------------------------------------------------------------
ReceiveBlock ==
    \/ \E b \in Block, given, f \in -1 .. MaxHeight :
          RejectBlock(b, given, f) \/ BeginTransaction(b, given, f)
    \/ ReconsiderGenesis
    \/ ReconsiderOrphan
    \/ \E f \in -1 .. MaxHeight : ReconsiderHeavier(f)
    \/ ApplyBlock
    \/ SetPeak
    \/ CommitPeak
    \/ CommitOrphan

Next ==
    \/ ReceiveBlock
    \/ \E c \in Coin : ReadCoin(c) \/ EvictCoin(c)
    \/ clean_block_records
    \/ \E f \in Heights : warmup(f)
    \/ Restart

Spec == Init /\ [][Next]_vars

AbortSpec == Init /\ [][Next \/ Abort]_vars

CompactSpec == Init /\ [][Next \/ \E b \in Block : ReplaceProof(b)]_vars

-----------------------------------------------------------------------------
(* What the chain promises *)

TypeOK ==
    /\ full_blocks \in SUBSET Block
    /\ peak_row \in Block \cup {NoBlock}
    /\ coin_record \in Table
    /\ disk \in [full_blocks : SUBSET Block, peak_row : Block \cup {NoBlock},
                 coin_record : Table]
    /\ block_records \in SUBSET Block
    /\ height_to_hash \in [Heights -> Block \cup {NoBlock}]
    /\ sub_epoch_summaries \in [Heights -> Block \cup {NoBlock}]
    /\ peak_height \in -1 .. MaxHeight
    /\ coin_record_cache \in Table
    /\ pc \in {"idle", "reconsider", "apply", "commit_peak", "commit_orphan"}
    /\ block \in Block \cup {NoBlock}
    /\ hint \in -1 .. MaxHeight
    /\ fork_height \in -1 .. MaxHeight
    /\ next \in 0 .. MaxHeight + 1
    /\ lastest_coin_state \in Table

\* The ledger the committed tables stand for.
L == INSTANCE Ledger
        WITH known <- disk.full_blocks,
             peak <- disk.peak_row,
             coins <- {c \in Coin : /\ disk.coin_record[c] # NoRecord
                                    /\ ~ disk.coin_record[c].spent}

\* t is the coin set of the chain of b up to height k: a coin has a row exactly
\* when a block of that chain creates it, and the row says which block created
\* it and which one spent it.
IsCoinSet(t, b, k) ==
    \A c \in Coin :
        IF t[c] = NoRecord
           THEN \A h \in 0 .. k : c \notin Adds(Chain[b][h])
           ELSE /\ t[c].confirmed_index <= k
                /\ c \in Adds(Chain[b][t[c].confirmed_index])
                /\ IF t[c].spent
                      THEN /\ t[c].spent_index <= k
                           /\ c \in Removals[Chain[b][t[c].spent_index]]
                      ELSE /\ t[c].spent_index = 0
                           /\ \A h \in 0 .. k : c \notin Removals[Chain[b][h]]

\* No block that validate_block_body let into the store spends a coin that does
\* not exist on its own chain, or one that its own chain has spent already,
\* whichever chain was the peak's when it was validated.
NoDoubleSpend == \A b \in full_blocks : SpendsAreSound(b)

\* Whenever the process dies, the committed coin table is the coin set of the
\* committed peak's chain, whatever extensions and reorganisations led there.
CommittedCoinSet ==
    IF disk.peak_row = NoBlock
       THEN disk.coin_record = NoTable
       ELSE IsCoinSet(disk.coin_record, disk.peak_row, Height[disk.peak_row])

\* The cache in front of the coin table never answers differently from it.
CacheCoherent ==
    \A c \in Coin : coin_record_cache[c] \in {NoRecord, coin_record[c]}

\* Between two calls of receive_block, __height_to_hash up to the peak is the
\* path from genesis to the block marked is_peak in the database.
PathLeadsToPeak ==
    pc = "idle" =>
        IF peak_row = NoBlock THEN peak_height = -1
        ELSE /\ peak_height = Height[peak_row]
             /\ \A h \in 0 .. peak_height : height_to_hash[h] = Chain[peak_row][h]

\* __sub_epoch_summaries holds the summaries on the path to the peak, all of
\* them and no other.
SummariesFollowPeak ==
    pc = "idle" =>
        sub_epoch_summaries =
            IF peak_row = NoBlock THEN NoSummaries ELSE SummariesOf(peak_row)

\* The peak is a heaviest block among all blocks ever stored; a second block of
\* height 0 is never a candidate.
PeakIsHeaviest ==
    pc = "idle" =>
        \A b \in full_blocks :
            Height[b] > 0 => peak_row # NoBlock /\ Weight[b] <= Weight[peak_row]

\* Applying a block of a reorganisation never hits a row that already exists
\* (INSERT into a primary key) and always finds the rows it marks as spent (the
\* assertions on removed_rec).
ReorgNeverFails ==
    pc = "apply" /\ next <= Height[block] =>
        LET b == Chain[block][next] IN
        /\ b \in full_blocks
        /\ \A c \in Adds(b) : coin_record[c] = NoRecord
        /\ \A c \in Removals[b] : c \in Adds(b) \/ coin_record[c] # NoRecord

\* The records reported with a new peak are the records of the new coin table,
\* and a coin whose row has changed is missing from the report only if the
\* reorganisation has made it unspent again.
ReportAgrees ==
    pc = "commit_peak" =>
        \A c \in Coin :
            /\ lastest_coin_state[c] # NoRecord /\ coin_record[c] # NoRecord
                  => lastest_coin_state[c] = coin_record[c]
            /\ coin_record[c] # disk.coin_record[c] /\ lastest_coin_state[c] = NoRecord
                  => /\ disk.coin_record[c] # NoRecord /\ disk.coin_record[c].spent
                     /\ coin_record[c] = Unspent(disk.coin_record[c])

\* The committed peak is only ever replaced by a strictly heavier block: of two
\* blocks of the same weight the first one seen stays.
PeakOnlyGetsHeavier ==
    [][disk.peak_row' # disk.peak_row /\ disk.peak_row # NoBlock
          => /\ disk.peak_row' # NoBlock
             /\ Weight[disk.peak_row'] > Weight[disk.peak_row]]_vars

\* The commits of receive_block, restarts included, are the steps of a ledger
\* that knows nothing of forks, caches and transactions.
ImplementsLedger == L!LedgerSpec

\* After a failed block the tables are those of the last commit, so the next
\* block starts from a consistent database.
IdleIsCommitted ==
    pc = "idle" =>
        disk = [full_blocks |-> full_blocks, peak_row |-> peak_row,
                coin_record |-> coin_record]

\* A process that is killed between two blocks comes back to the same peak, the
\* same path and the same summaries.
RestartKeepsChain ==
    [][Restart /\ pc = "idle" =>
          /\ UNCHANGED <<full_blocks, peak_row, coin_record, peak_height,
                         sub_epoch_summaries>>
          /\ \A h \in 0 .. peak_height : height_to_hash'[h] = height_to_hash[h]]_vars

-----------------------------------------------------------------------------
(* What comments of the code say and the code does not keep *)

\* coin_store.py: rollback_to_block "returns the list of coin records that have
\* been modified", so every coin whose row a new peak changes is reported.
EveryChangeReported ==
    pc = "commit_peak" =>
        \A c \in Coin : coin_record[c] # disk.coin_record[c]
                           => lastest_coin_state[c] # NoRecord

\* blockchain.py: __height_to_hash is "the path from genesis to the peak, no
\* orphan blocks".
NoOrphansInPath ==
    pc = "idle" => \A h \in Heights : h > peak_height => height_to_hash[h] = NoBlock

\* blockchain.py: clean_block_records "removes block records that have height <
\* peak - BLOCKS_CACHE_SIZE" and keeps the others.
CleanKeepsCacheSize ==
    [][clean_block_records =>
          \A b \in block_records :
              Height[b] >= peak_height - BLOCKS_CACHE_SIZE => b \in block_records']_vars

-----------------------------------------------------------------------------
(* The inductive invariant behind the safety properties.  Each part says how *)
(* one group of variables relates to the last commit.                        *)

\* Blocks are stored with all their ancestors; the table is the committed one,
\* with the block of the running call added.
StoreInv ==
    /\ \A b \in disk.full_blocks : \A h \in 0 .. Height[b] :
          Chain[b][h] \in disk.full_blocks
    /\ block_records \subseteq disk.full_blocks
    /\ IF pc = "idle" THEN full_blocks = disk.full_blocks
       ELSE /\ block \in Block
            /\ full_blocks = disk.full_blocks \cup {block}
            /\ Height[block] = 0 \/ Prev(block) \in disk.full_blocks

\* The memory of the chain is the committed peak's, which is the heaviest.
PeakInv ==
    IF disk.peak_row = NoBlock
       THEN peak_height = -1 /\ disk.full_blocks = {}
       ELSE /\ disk.peak_row \in disk.full_blocks
            /\ peak_height = Height[disk.peak_row]
            /\ \A h \in 0 .. peak_height :
                  height_to_hash[h] = Chain[disk.peak_row][h]
            /\ \A b \in disk.full_blocks :
                  Height[b] > 0 => Weight[b] <= Weight[disk.peak_row]

\* The call is about to replace the committed peak by a heavier block whose
\* chain leaves the peak's above fork_height.
Replacing ==
    /\ disk.peak_row # NoBlock
    /\ Height[block] > 0
    /\ Weight[block] > Weight[disk.peak_row]
    /\ CommonUpTo(disk.peak_row, block, fork_height)
    /\ fork_height < Height[block]

\* What the position of the running call says of its local variables and of
\* the uncommitted tables.
CallInv ==
    /\ pc \in {"idle", "reconsider", "commit_orphan"} =>
          peak_row = disk.peak_row /\ coin_record = disk.coin_record
    /\ pc = "reconsider" /\ hint # -1 =>
          /\ disk.peak_row # NoBlock
          /\ Height[block] > 0
          /\ CommonUpTo(disk.peak_row, Prev(block), hint)
    /\ pc = "commit_orphan" =>
          /\ disk.peak_row # NoBlock
          /\ Height[block] > 0 => Weight[block] <= Weight[disk.peak_row]
    /\ pc = "apply" =>
          /\ Replacing
          /\ peak_row = disk.peak_row
          /\ next \in fork_height + 1 .. Height[block] + 1
    /\ pc = "commit_peak" =>
          /\ peak_row = block
          /\ IF disk.peak_row = NoBlock
                THEN Height[block] = 0 /\ fork_height = -1
                ELSE Replacing

\* While a block is applied the summaries above the fork are gone.
SummaryInv ==
    sub_epoch_summaries =
        IF disk.peak_row = NoBlock THEN NoSummaries
        ELSE IF pc \in {"apply", "commit_peak"}
                THEN [h \in Heights |-> IF h > fork_height THEN NoBlock
                                        ELSE SummariesOf(disk.peak_row)[h]]
        ELSE SummariesOf(disk.peak_row)

\* Stored blocks spend soundly; the coin table is the coin set of the chain
\* that has been applied so far; the cache agrees with the table.
CoinInv ==
    /\ \A b \in full_blocks : SpendsAreSound(b) /\ RewardsClaimed(b)
    /\ CommittedCoinSet
    /\ pc = "apply" => IsCoinSet(coin_record, block, next - 1)
    /\ pc = "commit_peak" => IsCoinSet(coin_record, block, Height[block])
    /\ CacheCoherent

\* The inductive invariant: the parts above hold together at every await of
\* receive_block, whatever the caches, restarts and forks before it.
ChainInv == StoreInv /\ PeakInv /\ CallInv /\ SummaryInv /\ CoinInv
=============================================================================
