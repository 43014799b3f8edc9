-------------------------- MODULE BlockchainProofs --------------------------
(***************************************************************************)
(* Proofs about Blockchain, for every block tree, every set of coins and   *)
(* every BLOCKS_CACHE_SIZE: type correctness; the steps of receive_block   *)
(* keep the invariant ChainInv, one lemma per step; and with it the safety *)
(* properties, the refinement, and what receive_block reports.             *)
(***************************************************************************)
EXTENDS CoinSetProofs

\* The provers of a step that names none, and the seconds they may take.
USE ZenonT(2), SMTT(30)

-----------------------------------------------------------------------------
(* Type correctness *)

\* The argument of receive_block is a block while the call runs.
CallHasBlock == pc # "idle" => block \in Block

TypeInv == TypeOK /\ CallHasBlock

\* The types hold at the start.
LEMMA TypeInit == Init => TypeInv
<1> SUFFICES ASSUME Init PROVE TypeInv
  OBVIOUS
<1>1. MaxHeight \in Nat
  BY TreeAssumption DEF TreeAssumption
<1>2. NoTable \in Table
  BY DEF NoTable, Table
<1> QED
  BY <1>1, <1>2 DEF Init, TypeInv, TypeOK, CallHasBlock, NoSummaries, Heights

\* Applying a block keeps the types,
LEMMA ApplyType ==
  ASSUME TypeInv, NEW b \in Block, ApplyToCoinStore(b)
  PROVE  /\ coin_record' \in Table
         /\ coin_record_cache' \in Table
         /\ lastest_coin_state' \in Table
<1> DEFINE t == NewBlock(coin_record, Adds(b), Removals[b], Height[b])
           m == NewBlock(coin_record_cache, Adds(b), Removals[b], Height[b])
<1>1. Height[b] \in Heights
  BY TreeAssumption DEF TreeAssumption
<1>2. coin_record \in Table /\ coin_record_cache \in Table /\ lastest_coin_state \in Table
  BY DEF TypeInv, TypeOK
<1>3. t \in Table /\ m \in Table
  BY <1>1, <1>2, NewBlockType
<1> HIDE DEF t, m
<1>4. Report(t, Adds(b) \cup Removals[b]) \in Table
  BY <1>2, <1>3 DEF Report, Table
<1>5. CacheAfterReads(t, m, Removals[b]) \in Table
  BY <1>3, CacheReadsType
<1> QED
  BY <1>2, <1>3, <1>4, <1>5 DEF ApplyToCoinStore, t, m

\* and so does each step.
LEMMA TypeStep == TypeInv /\ [Next]_vars => TypeInv'
<1> SUFFICES ASSUME TypeInv, [Next]_vars PROVE TypeInv'
  OBVIOUS
<1> USE DEF TypeInv, CallHasBlock
<1>h. MaxHeight \in Nat /\ Height \in [Block -> Heights]
  BY TreeAssumption DEF TreeAssumption
<1>n. NoTable \in Table
  BY DEF NoTable, Table
<1>t. coin_record \in Table /\ coin_record_cache \in Table /\ lastest_coin_state \in Table
  BY DEF TypeOK
<1>1. ASSUME NEW b \in Block, NEW given \in -1 .. MaxHeight, NEW f \in -1 .. MaxHeight,
             RejectBlock(b, given, f)
      PROVE  TypeInv'
  BY <1>1, <1>t, CacheReadsType DEF RejectBlock, ReadRemovals, TypeOK, db, memory, locals
<1>2. ASSUME NEW b \in Block, NEW given \in -1 .. MaxHeight, NEW f \in -1 .. MaxHeight,
             BeginTransaction(b, given, f)
      PROVE  TypeInv'
  BY <1>2, <1>t, CacheReadsType DEF BeginTransaction, ReadRemovals, TypeOK, memory
<1>3. CASE ReconsiderGenesis
  <2>1. /\ block \in Block
        /\ 0 \in Heights
    BY <1>3, <1>h DEF ReconsiderGenesis, Heights
  <2>2. /\ NewBlock(coin_record, Adds(block), Removals[block], 0) \in Table
        /\ NewBlock(coin_record_cache, Adds(block), Removals[block], 0) \in Table
    BY <2>1, <1>t, NewBlockType
  <2>3. Report(AddCoinRecords(coin_record, Adds(block), 0), Adds(block)) \in Table
    BY <2>1, <1>t, NewRecordType, Zenon DEF Report, AddCoinRecords, Table
  <2>4. /\ coin_record' \in Table
        /\ coin_record_cache' \in Table
        /\ lastest_coin_state' \in Table
    BY <1>3, <1>t, <2>2, <2>3 DEF ReconsiderGenesis
  <2> QED
    BY <1>3, <1>h, <2>1, <2>4 DEF ReconsiderGenesis, TypeOK, memory
<1>4. CASE ReconsiderOrphan
  BY <1>4 DEF ReconsiderOrphan, TypeOK, db, memory, locals
<1>5. ASSUME NEW f \in -1 .. MaxHeight, ReconsiderHeavier(f)
      PROVE  TypeInv'
  <2>1. ReportDeleted(RollbackChanges(coin_record, f)) \in Table
    <3>1. ASSUME NEW c \in Coin, coin_record[c] # NoRecord
          PROVE  [coin_record[c] EXCEPT !.confirmed_index = 0] \in CoinRecord
      <4>1. coin_record[c] \in CoinRecord /\ 0 \in Heights
        BY <3>1, <1>t, <1>h DEF Table, Heights
      <4> QED
        BY <4>1 DEF CoinRecord
    <3> QED
      BY <3>1, <1>t DEF ReportDeleted, RollbackChanges, Table
  <2>2. /\ coin_record' \in Table
        /\ coin_record_cache' \in Table
        /\ lastest_coin_state' \in Table
    BY <1>5, <1>t, <2>1, RollbackType DEF ReconsiderHeavier
  <2>3. sub_epoch_summaries' \in [Heights -> Block \cup {NoBlock}]
    BY <1>5 DEF ReconsiderHeavier, SummariesUpTo, TypeOK
  <2>4. next' \in 0 .. MaxHeight + 1
    BY <1>5, <1>h DEF ReconsiderHeavier, FirstToApply
  <2> QED
    BY <1>5, <2>2, <2>3, <2>4 DEF ReconsiderHeavier, TypeOK
<1>6. CASE ApplyBlock
  <2>1. /\ block \in Block
        /\ next \in Heights
        /\ next \in 0 .. Height[block]
    BY <1>6, <1>h DEF ApplyBlock, TypeOK, Heights
  <2>2. Chain[block][next] \in Block
    BY <2>1, ChainInBlock
  <2>3. /\ coin_record' \in Table
        /\ coin_record_cache' \in Table
        /\ lastest_coin_state' \in Table
    BY <1>6, <2>2, ApplyType DEF ApplyBlock
  <2>4. next' \in 0 .. MaxHeight + 1
    BY <1>6, <1>h, <2>1 DEF ApplyBlock, Heights
  <2> QED
    BY <1>6, <2>3, <2>4 DEF ApplyBlock, TypeOK, memory
<1>7. CASE SetPeak
  BY <1>7 DEF SetPeak, TypeOK, memory, locals
<1>8. CASE CommitPeak
  <2>1. block \in Block /\ Height[block] \in -1 .. MaxHeight
    BY <1>8, <1>h DEF CommitPeak, Heights
  <2>2. \A h \in Heights : Chain[block][h] \in Block \cup {NoBlock}
    BY <2>1, TreeAssumption DEF TreeAssumption
  <2>3. /\ height_to_hash' \in [Heights -> Block \cup {NoBlock}]
        /\ sub_epoch_summaries' \in [Heights -> Block \cup {NoBlock}]
    BY <1>8, <2>2 DEF CommitPeak, TypeOK
  <2>4. disk' \in [full_blocks : SUBSET Block, peak_row : Block \cup {NoBlock},
                   coin_record : Table]
    BY <1>8 DEF CommitPeak, Commit, TypeOK
  <2> QED
    BY <1>8, <1>n, <2>1, <2>3, <2>4 DEF CommitPeak, TypeOK, db, locals
<1>9. CASE CommitOrphan
  <2>1. disk' \in [full_blocks : SUBSET Block, peak_row : Block \cup {NoBlock},
                   coin_record : Table]
    BY <1>9 DEF CommitOrphan, Commit, TypeOK
  <2> QED
    BY <1>9, <2>1 DEF CommitOrphan, TypeOK, db, locals
<1>10. ASSUME NEW c \in Coin, ReadCoin(c)
       PROVE  TypeInv'
  BY <1>10, <1>t, CacheReadsType DEF ReadCoin, TypeOK, db, memory, locals
<1>11. ASSUME NEW c \in Coin, EvictCoin(c)
       PROVE  TypeInv'
  <2>1. coin_record_cache' \in Table
    BY <1>11, <1>t DEF EvictCoin, Table
  <2> QED
    BY <1>11, <2>1 DEF EvictCoin, TypeOK, db, memory, locals
<1>12. CASE clean_block_records
  BY <1>12 DEF clean_block_records, clean_block_record, TypeOK, db, locals
<1>13. ASSUME NEW f \in Heights, warmup(f)
       PROVE  TypeInv'
  BY <1>13 DEF warmup, TypeOK, db, locals
<1>14. CASE Restart
  <2>1. disk \in [full_blocks : SUBSET Block, peak_row : Block \cup {NoBlock},
                  coin_record : Table]
    BY DEF TypeOK
  <2>2. /\ block_records' \in SUBSET Block
        /\ height_to_hash' \in [Heights -> Block \cup {NoBlock}]
        /\ sub_epoch_summaries' \in [Heights -> Block \cup {NoBlock}]
        /\ peak_height' \in -1 .. MaxHeight
    <3>1. CASE disk.peak_row = NoBlock
      BY <1>14, <1>h, <3>1 DEF Restart, NoSummaries
    <3>2. CASE disk.peak_row # NoBlock
      <4>1. disk.peak_row \in Block
        BY <2>1, <3>2
      <4>2. Chain[disk.peak_row] \in [Heights -> Block \cup {NoBlock}]
        BY <4>1, TreeAssumption DEF TreeAssumption
      <4>3. SummariesOf(disk.peak_row) \in [Heights -> Block \cup {NoBlock}]
        BY <4>2 DEF SummariesOf
      <4>4. Height[disk.peak_row] \in -1 .. MaxHeight
        BY <4>1, <1>h DEF Heights
      <4> QED
        BY <1>14, <2>1, <3>2, <4>2, <4>3, <4>4 DEF Restart
    <3> QED
      BY <3>1, <3>2
  <2>3. /\ full_blocks' \in SUBSET Block
        /\ peak_row' \in Block \cup {NoBlock}
        /\ coin_record' \in Table
        /\ disk' = disk
    BY <1>14, <2>1 DEF Restart
  <2>4. /\ coin_record_cache' \in Table
        /\ lastest_coin_state' \in Table
    BY <1>14, <1>n DEF Restart
  <2>5. /\ pc' = "idle" /\ block' = NoBlock
        /\ hint' = -1 /\ fork_height' = -1 /\ next' = 0
    BY <1>14, Zenon DEF Restart
  <2>6. /\ hint' \in -1 .. MaxHeight /\ fork_height' \in -1 .. MaxHeight
        /\ next' \in 0 .. MaxHeight + 1
    BY <1>h, <2>5 DEF Heights
  <2> QED
    BY <2>1, <2>2, <2>3, <2>4, <2>5, <2>6 DEF TypeOK
<1>15. CASE UNCHANGED vars
  BY <1>15 DEF vars, db, memory, locals, TypeOK
<1> QED
  BY <1>1, <1>2, <1>3, <1>4, <1>5, <1>6, <1>7, <1>8, <1>9, <1>10, <1>11, <1>12,
     <1>13, <1>14, <1>15 DEF Next, ReceiveBlock

\* The tables, the memory and the local variables of receive_block always have
\* their types, whatever blocks arrive and whenever the process dies.
THEOREM Spec_TypeOK == Spec => []TypeOK
<1>1. TypeInv => TypeOK
  BY DEF TypeInv
<1> QED
  BY TypeInit, TypeStep, <1>1, PTL DEF Spec

-----------------------------------------------------------------------------
(* The inductive invariant *)

Inv == TypeInv /\ ChainInv

\* The property of the runs is agreement of cache and table.
LEMMA CoherentCache == CacheCoherent <=> Coherent(coin_record_cache, coin_record)
  BY DEF CacheCoherent, Coherent

\* The types of what is committed.
LEMMA DiskType ==
  ASSUME TypeInv
  PROVE  /\ disk.full_blocks \subseteq Block
         /\ disk.peak_row \in Block \cup {NoBlock}
         /\ disk.coin_record \in Table
         /\ coin_record \in Table
         /\ coin_record_cache \in Table
         /\ full_blocks \subseteq Block
         /\ MaxHeight \in Nat
         /\ NoBlock \notin Block
         /\ Weight \in [Block -> Nat]
  BY TreeAssumption, WeightAssumption DEF TreeAssumption, WeightAssumption, TypeInv, TypeOK

\* Every stored block has its whole chain stored, claims the rewards due along
\* that chain and spends soundly.
LEMMA StoredFacts ==
  ASSUME Inv, NEW b \in full_blocks
  PROVE  /\ b \in Block
         /\ \A h \in 0 .. Height[b] : Chain[b][h] \in full_blocks
         /\ ChainClaimed(b)
         /\ SpendsAreSound(b)
<1>1. b \in Block
  BY DiskType DEF Inv
<1>2. \A x \in disk.full_blocks : \A h \in 0 .. Height[x] : Chain[x][h] \in disk.full_blocks
  BY DEF Inv, ChainInv, StoreInv
<1>3. disk.full_blocks \subseteq full_blocks
  BY DEF Inv, ChainInv, StoreInv
<1>4. \A h \in 0 .. Height[b] : Chain[b][h] \in full_blocks
  <2>1. CASE b \in disk.full_blocks
    BY <1>2, <1>3, <2>1
  <2>2. CASE b \notin disk.full_blocks
    <3>1. b = block /\ (Height[b] = 0 \/ Prev(b) \in disk.full_blocks)
      BY <2>2 DEF Inv, ChainInv, StoreInv
    <3>2. Height[b] \in Nat /\ Chain[b][Height[b]] = b
      BY <1>1, HeightType
    <3>3. CASE Height[b] = 0
      BY <3>2, <3>3
    <3>4. CASE Height[b] > 0
      <4>1. /\ Height[Prev(b)] = Height[b] - 1
            /\ \A k \in 0 .. Height[b] - 1 : Chain[Prev(b)][k] = Chain[b][k]
        BY <1>1, <3>4, PrevFacts
      <4>2. \A k \in 0 .. Height[b] - 1 : Chain[b][k] \in full_blocks
        BY <1>2, <1>3, <3>1, <3>4, <4>1
      <4>3. \A h \in 0 .. Height[b] : h \in 0 .. Height[b] - 1 \/ h = Height[b]
        BY <3>2
      <4> QED
        BY <3>2, <4>2, <4>3
    <3> QED
      BY <3>2, <3>3, <3>4
  <2> QED
    BY <2>1, <2>2
<1>5. ChainClaimed(b)
  BY <1>4 DEF Inv, ChainInv, CoinInv, ChainClaimed
<1>6. SpendsAreSound(b)
  BY DEF Inv, ChainInv, CoinInv
<1> QED
  BY <1>1, <1>4, <1>5, <1>6

\* get_peak is the committed peak.
LEMMA PeakFacts ==
  ASSUME Inv
  PROVE  /\ peak_height = -1 <=> disk.peak_row = NoBlock
         /\ disk.peak_row # NoBlock =>
               /\ disk.peak_row \in Block
               /\ disk.peak_row \in full_blocks
               /\ get_peak = disk.peak_row
               /\ peak_height = Height[disk.peak_row]
               /\ peak_height \in Nat
               /\ IsCoinSet(disk.coin_record, disk.peak_row, Height[disk.peak_row])
<1>1. CASE disk.peak_row = NoBlock
  BY <1>1 DEF Inv, ChainInv, PeakInv
<1>2. CASE disk.peak_row # NoBlock
  <2>1. /\ disk.peak_row \in disk.full_blocks
        /\ peak_height = Height[disk.peak_row]
        /\ \A h \in 0 .. peak_height : height_to_hash[h] = Chain[disk.peak_row][h]
    BY <1>2 DEF Inv, ChainInv, PeakInv
  <2>2. disk.peak_row \in Block /\ disk.peak_row \in full_blocks
    BY <2>1, DiskType DEF Inv, ChainInv, StoreInv
  <2>3. peak_height \in Nat /\ Chain[disk.peak_row][peak_height] = disk.peak_row
    BY <2>1, <2>2, HeightType
  <2>4. get_peak = disk.peak_row
    <3>1. peak_height \in 0 .. peak_height
      BY <2>3
    <3> QED
      BY <2>1, <2>3, <3>1 DEF get_peak
  <2>5. IsCoinSet(disk.coin_record, disk.peak_row, Height[disk.peak_row])
    BY <1>2 DEF Inv, ChainInv, CoinInv, CommittedCoinSet
  <2> QED
    BY <1>2, <2>1, <2>2, <2>3, <2>4, <2>5
<1> QED
  BY <1>1, <1>2

\* The invariant holds at the start.
LEMMA ChainInit == Init => ChainInv
<1> SUFFICES ASSUME Init PROVE ChainInv
  OBVIOUS
<1>1. StoreInv /\ PeakInv /\ CallInv
  BY DEF Init, StoreInv, PeakInv, CallInv
<1>2. SummaryInv
  BY DEF Init, SummaryInv
<1>3. CoinInv
  BY DEF Init, CoinInv, CommittedCoinSet, CacheCoherent, NoTable
<1> QED
  BY <1>1, <1>2, <1>3 DEF ChainInv

\* Steps that only fill or empty the coin cache.
LEMMA CacheStep ==
  ASSUME Inv, UNCHANGED <<db, disk, memory, pc, locals>>,
         Coherent(coin_record_cache', coin_record)
  PROVE  ChainInv'
<1>1. StoreInv' /\ PeakInv' /\ CallInv' /\ SummaryInv'
  BY Zenon DEF Inv, ChainInv, StoreInv, PeakInv, CallInv, SummaryInv, Replacing, db, memory,
         locals, SummariesOf
<1>2. CoinInv'
  BY Zenon DEF Inv, ChainInv, CoinInv, CommittedCoinSet, CacheCoherent, Coherent, db, locals
<1> QED
  BY <1>1, <1>2 DEF ChainInv

\* Steps that only fill or clean the cache of block records.
LEMMA RecordsStep ==
  ASSUME Inv, block_records' \subseteq disk.full_blocks,
         UNCHANGED <<db, disk, height_to_hash, sub_epoch_summaries, peak_height,
                     coin_record_cache, pc, locals>>
  PROVE  ChainInv'
<1>1. StoreInv' /\ PeakInv' /\ CallInv' /\ SummaryInv'
  BY DEF Inv, ChainInv, StoreInv, PeakInv, CallInv, SummaryInv, Replacing, db, locals,
         SummariesOf
<1>2. CoinInv'
  BY Zenon DEF Inv, ChainInv, CoinInv, CommittedCoinSet, CacheCoherent, db, locals
<1> QED
  BY <1>1, <1>2 DEF ChainInv

\* Facts about b's parent carry over to b.
LEMMA CommonWithChild ==
  ASSUME NEW p \in Block, NEW b \in Block, Height[b] > 0, NEW f, CommonUpTo(p, Prev(b), f)
  PROVE  CommonUpTo(p, b, f) /\ f < Height[b]
<1>1. /\ Height[Prev(b)] = Height[b] - 1
      /\ \A k \in 0 .. Height[b] - 1 : Chain[Prev(b)][k] = Chain[b][k]
  BY PrevFacts
<1>2. Height[b] \in Nat /\ MaxHeight \in Nat
  BY HeightType
<1> QED
  BY <1>1, <1>2 DEF CommonUpTo

\* A block that passes validate_block_body spends soundly.
LEMMA AcceptedIsSound ==
  ASSUME Inv, pc = "idle", NEW b \in Block, NEW given, NEW f,
         Connected(b), GivenForkPoint(b, given), BodyFork(b, given, f),
         validate_block_body(b, f)
  PROVE  SpendsAreSound(b) /\ RewardsClaimed(b)
<1>1. RewardsClaimed(b)
  BY DEF validate_block_body
<1>t. coin_record \in Table /\ CacheCoherent /\ coin_record = disk.coin_record
  BY DiskType DEF Inv, ChainInv, CoinInv, CallInv
<1>2. CASE Height[b] = 0
  <2>1. f = -1
    BY <1>2 DEF BodyFork
  <2> QED
    BY <1>1, <1>2, <1>t, <2>1, ValidGenesisSound
<1>3. CASE Height[b] # 0
  <2>h. Height[b] > 0
    BY <1>3, HeightType
  <2>1. Prev(b) \in disk.full_blocks /\ Prev(b) \in full_blocks
    BY <1>3 DEF Connected, Inv, ChainInv, StoreInv
  <2>2. disk.peak_row # NoBlock
    BY <2>1 DEF Inv, ChainInv, PeakInv
  <2> DEFINE p == disk.peak_row
  <2>3. /\ p \in Block /\ p \in full_blocks
        /\ get_peak = p
        /\ peak_height # -1
        /\ IsCoinSet(coin_record, p, Height[p])
    BY <1>t, <2>2, PeakFacts
  <2>4. CommonUpTo(p, Prev(b), f)
    <3>1. CASE given # -1
      BY <1>3, <2>3, <3>1 DEF BodyFork, GivenForkPoint
    <3>2. CASE given = -1
      BY <1>3, <2>3, <3>2 DEF BodyFork, find_fork_point_in_chain, IsForkPoint
    <3> QED
      BY <3>1, <3>2
  <2>5. SpendsAreSound(p) /\ SpendsAreSound(Prev(b)) /\ ChainClaimed(Prev(b))
    BY <2>1, <2>3, StoredFacts
  <2>6. ChainClaimed(b)
    <3>1. /\ Height[Prev(b)] = Height[b] - 1
          /\ \A k \in 0 .. Height[b] - 1 : Chain[Prev(b)][k] = Chain[b][k]
          /\ Height[b] \in Nat /\ Chain[b][Height[b]] = b
      BY <2>h, PrevFacts, HeightType
    <3>2. \A k \in 0 .. Height[b] - 1 : RewardsClaimed(Chain[b][k])
      BY <2>5, <3>1 DEF ChainClaimed
    <3>3. \A k \in 0 .. Height[b] : k \in 0 .. Height[b] - 1 \/ k = Height[b]
      BY <3>1
    <3> QED
      BY <1>1, <3>1, <3>2, <3>3 DEF ChainClaimed
  <2> HIDE DEF p
  <2> QED
    BY <1>1, <1>t, <2>h, <2>3, <2>4, <2>5, <2>6, ValidBodySound
<1> QED
  BY <1>1, <1>2, <1>3

\* receive_block begins its transaction.
LEMMA BeginStep ==
  ASSUME Inv, NEW b \in Block, NEW given \in -1 .. MaxHeight, NEW f \in -1 .. MaxHeight,
         BeginTransaction(b, given, f)
  PROVE  ChainInv'
<1>0. /\ pc = "idle" /\ pc' = "reconsider" /\ block' = b /\ hint' = given
      /\ Connected(b) /\ GivenForkPoint(b, given)
      /\ full_blocks' = full_blocks \cup {b}
      /\ UNCHANGED <<peak_row, coin_record, disk, block_records, height_to_hash,
                     sub_epoch_summaries, peak_height, fork_height, next>>
  BY DEF BeginTransaction, memory
<1>1. StoreInv'
  BY <1>0 DEF Inv, ChainInv, StoreInv, Connected, Prev
<1>2. PeakInv'
  BY <1>0 DEF Inv, ChainInv, PeakInv
<1>3. CallInv'
  <2>1. given # -1 => /\ disk.peak_row # NoBlock
                      /\ Height[b] > 0
                      /\ CommonUpTo(disk.peak_row, Prev(b), given)
    BY <1>0, PeakFacts DEF GivenForkPoint
  <2>2. peak_row = disk.peak_row /\ coin_record = disk.coin_record
    BY <1>0 DEF Inv, ChainInv, CallInv
  <2> QED
    BY <1>0, <2>1, <2>2 DEF CallInv, CommonUpTo, Prev
<1>4. SummaryInv'
  BY <1>0 DEF Inv, ChainInv, SummaryInv, SummariesOf
<1>5. CoinInv'
  <2>1. SpendsAreSound(b) /\ RewardsClaimed(b)
    BY <1>0, AcceptedIsSound DEF BeginTransaction
  <2>2. Coherent(coin_record_cache', coin_record)
    BY DiskType, CoherentReads, CoherentCache
       DEF BeginTransaction, ReadRemovals, Inv, ChainInv, CoinInv
  <2>3. CacheCoherent'
    BY <1>0, <2>2 DEF Coherent, CacheCoherent
  <2>4. CommittedCoinSet'
    BY <1>0 DEF Inv, ChainInv, CoinInv, CommittedCoinSet
  <2>5. \A x \in full_blocks : SpendsAreSound(x) /\ RewardsClaimed(x)
    BY DEF Inv, ChainInv, CoinInv
  <2>6. (\A x \in full_blocks : SpendsAreSound(x) /\ RewardsClaimed(x))'
    BY <1>0, <2>1, <2>5
  <2> QED
    BY <1>0, <2>3, <2>4, <2>6 DEF CoinInv
<1> QED
  BY <1>1, <1>2, <1>3, <1>4, <1>5 DEF ChainInv

\* _reconsider_peak takes the first block as the peak,
LEMMA GenesisStep ==
  ASSUME Inv, ReconsiderGenesis
  PROVE  ChainInv'
<1>0. /\ pc = "reconsider" /\ pc' = "commit_peak"
      /\ Height[block] = 0 /\ peak_height = -1
      /\ peak_row' = block /\ fork_height' = -1
      /\ UNCHANGED <<full_blocks, disk, block_records, height_to_hash,
                     sub_epoch_summaries, peak_height, block, hint, next>>
  BY DEF ReconsiderGenesis, memory
<1>b. block \in Block /\ block \in full_blocks
  BY <1>0 DEF Inv, ChainInv, StoreInv
<1>p. disk.peak_row = NoBlock
  BY <1>0, PeakFacts
<1>1. StoreInv'
  BY <1>0 DEF Inv, ChainInv, StoreInv, Prev
<1>2. PeakInv'
  BY <1>0 DEF Inv, ChainInv, PeakInv
<1>3. CallInv'
  BY <1>0, <1>p DEF CallInv
<1>4. SummaryInv'
  BY <1>0, <1>p DEF Inv, ChainInv, SummaryInv
<1>5. CoinInv'
  <2>1. coin_record = NoTable
    BY <1>0, <1>p DEF Inv, ChainInv, CallInv, CoinInv, CommittedCoinSet
  <2>2. IsCoinSet(coin_record, block, 0 - 1)
    BY <2>1, EmptyCoinSet
  <2>3. ChainClaimed(block) /\ SpendsAreSound(block)
    BY <1>b, StoredFacts
  <2>4. /\ Chain[block][0] = block /\ 0 \in 0 .. Height[block]
        /\ coin_record \in Table /\ coin_record_cache \in Table
    BY <1>0, <1>b, HeightType, DiskType DEF Inv
  <2>5. IsCoinSet(coin_record', block, 0)
    <3>1. CASE IsTx[block]
      <4>1. IsCoinSet(NewBlock(coin_record, Adds(Chain[block][0]),
                               Removals[Chain[block][0]], 0), block, 0)
        BY <1>b, <2>2, <2>3, <2>4, NewBlockCoinSet
      <4> QED
        BY <2>4, <3>1, <4>1, Zenon DEF ReconsiderGenesis
    <3>2. CASE ~ IsTx[block]
      <4>1. IsCoinSet(coin_record, block, 0)
        BY <1>b, <2>2, <2>3, <2>4, <3>2, EmptyBlockCoinSet
      <4> QED
        BY <3>2, <4>1 DEF ReconsiderGenesis
    <3> QED
      BY <3>1, <3>2
  <2>6. Coherent(coin_record_cache, coin_record)
    BY CoherentCache DEF Inv, ChainInv, CoinInv
  <2>7. Coherent(NewBlock(coin_record_cache, Adds(block), Removals[block], 0),
                 NewBlock(coin_record, Adds(block), Removals[block], 0))
    BY <2>4, <2>6, CoherentNewBlock
  <2>8. Coherent(coin_record_cache', coin_record')
    BY <2>6, <2>7 DEF ReconsiderGenesis
  <2>9. CacheCoherent'
    BY <2>8 DEF Coherent, CacheCoherent
  <2>10. IsCoinSet(coin_record, block, Height[block])'
    BY <1>0, <2>5 DEF IsCoinSet
  <2>11. CommittedCoinSet'
    BY <1>0 DEF Inv, ChainInv, CoinInv, CommittedCoinSet
  <2>12. (\A x \in full_blocks : SpendsAreSound(x) /\ RewardsClaimed(x))'
    BY <1>0 DEF Inv, ChainInv, CoinInv, SpendsAreSound, RewardsClaimed
  <2> QED
    BY <1>0, <2>9, <2>10, <2>11, <2>12 DEF CoinInv
<1> QED
  BY <1>1, <1>2, <1>3, <1>4, <1>5 DEF ChainInv

\* leaves the peak as it is for a block that is not heavier,
LEMMA OrphanStep ==
  ASSUME Inv, ReconsiderOrphan
  PROVE  ChainInv'
<1>0. /\ pc = "reconsider" /\ pc' = "commit_orphan" /\ peak_height # -1
      /\ Height[block] = 0 \/ ~ Heavier(block)
      /\ UNCHANGED <<full_blocks, peak_row, coin_record, disk, block_records,
                     height_to_hash, sub_epoch_summaries, peak_height,
                     coin_record_cache, block, hint, fork_height, next>>
  BY DEF ReconsiderOrphan, db, memory, locals
<1>b. block \in Block
  BY <1>0 DEF Inv, ChainInv, StoreInv
<1>1. StoreInv'
  BY <1>0 DEF Inv, ChainInv, StoreInv, Prev
<1>2. PeakInv'
  BY <1>0 DEF Inv, ChainInv, PeakInv
<1>3. CallInv'
  <2>1. disk.peak_row # NoBlock /\ disk.peak_row \in Block /\ get_peak = disk.peak_row
    BY <1>0, PeakFacts
  <2>2. Weight[block] \in Nat /\ Weight[disk.peak_row] \in Nat
    BY <1>b, <2>1, DiskType DEF Inv
  <2>3. Height[block] > 0 => Weight[block] <= Weight[disk.peak_row]
    BY <1>0, <2>1, <2>2 DEF Heavier
  <2>4. peak_row = disk.peak_row /\ coin_record = disk.coin_record
    BY <1>0 DEF Inv, ChainInv, CallInv
  <2> QED
    BY <1>0, <2>1, <2>3, <2>4 DEF CallInv
<1>4. SummaryInv'
  BY <1>0 DEF Inv, ChainInv, SummaryInv, SummariesOf
<1>5. CoinInv'
  BY <1>0 DEF Inv, ChainInv, CoinInv, CommittedCoinSet, CacheCoherent
<1> QED
  BY <1>1, <1>2, <1>3, <1>4, <1>5 DEF ChainInv

\* The fork point of _reconsider_peak is a height the peak's chain and the new
\* block's chain share.
LEMMA ReorgForkIsCommon ==
  ASSUME Inv, pc = "reconsider", peak_height # -1, Height[block] > 0,
         NEW f, ReorgFork(f)
  PROVE  /\ CommonUpTo(disk.peak_row, block, f)
         /\ f < Height[block]
         /\ Prev(block) = get_peak => f = Height[disk.peak_row]
<1>b. block \in Block
  BY DEF Inv, ChainInv, StoreInv
<1>p. /\ disk.peak_row # NoBlock
      /\ disk.peak_row \in Block
      /\ get_peak = disk.peak_row
      /\ peak_height = Height[disk.peak_row]
  BY PeakFacts
<1>q. Prev(block) \in Block /\ Height[Prev(block)] = Height[block] - 1
  BY <1>b, PrevFacts
<1>1. CommonUpTo(disk.peak_row, Prev(block), f)
  <2>1. CASE Prev(block) = get_peak
    <3>1. f = Height[disk.peak_row]
      BY <1>p, <2>1 DEF ReorgFork
    <3>2. Height[disk.peak_row] \in Heights /\ MaxHeight \in Nat
      BY <1>p, HeightType
    <3> QED
      BY <1>p, <2>1, <3>1, <3>2 DEF CommonUpTo, Heights
  <2>2. CASE Prev(block) # get_peak /\ hint # -1
    BY <2>2 DEF ReorgFork, Inv, ChainInv, CallInv
  <2>3. CASE Prev(block) # get_peak /\ hint = -1
    BY <1>p, <2>3 DEF ReorgFork, find_fork_point_in_chain, IsForkPoint, CommonUpTo
  <2> QED
    BY <2>1, <2>2, <2>3
<1>2. Prev(block) = get_peak => f = Height[disk.peak_row]
  BY <1>p DEF ReorgFork
<1> QED
  BY <1>b, <1>p, <1>1, <1>2, CommonWithChild

\* or rolls back to the fork for one that is.
LEMMA HeavierStep ==
  ASSUME Inv, NEW f \in -1 .. MaxHeight, ReconsiderHeavier(f)
  PROVE  ChainInv'
<1> DEFINE p == disk.peak_row
<1>0. /\ pc = "reconsider" /\ pc' = "apply" /\ peak_height # -1 /\ Height[block] > 0
      /\ Heavier(block) /\ ReorgFork(f)
      /\ fork_height' = f /\ next' = f + 1
      /\ sub_epoch_summaries' = SummariesUpTo(f)
      /\ UNCHANGED <<full_blocks, peak_row, disk, block_records, height_to_hash,
                     peak_height, block, hint>>
  BY DEF ReconsiderHeavier, FirstToApply
<1>b. block \in Block /\ block \in full_blocks
  BY <1>0 DEF Inv, ChainInv, StoreInv
<1>p. /\ p # NoBlock /\ p \in Block /\ p \in full_blocks /\ get_peak = p
      /\ peak_height = Height[p]
      /\ IsCoinSet(disk.coin_record, p, Height[p])
  BY <1>0, PeakFacts
<1>f. /\ CommonUpTo(p, block, f)
      /\ f < Height[block]
      /\ Prev(block) = get_peak => f = Height[p]
  BY <1>0, ReorgForkIsCommon
<1>h. Height[block] \in Nat /\ Height[p] \in Nat /\ f <= Height[p] /\ f \in Int
  BY <1>b, <1>p, <1>f, HeightType DEF CommonUpTo
<1>1. StoreInv'
  BY Zenon, <1>0 DEF Inv, ChainInv, StoreInv, Prev
<1>2. PeakInv'
  BY Zenon, <1>0 DEF Inv, ChainInv, PeakInv
<1>3. CallInv'
  <2>1. Weight[block] > Weight[p]
    BY <1>0, <1>p DEF Heavier
  <2>2. Replacing'
    BY <1>0, <1>p, <1>f, <2>1 DEF Replacing, CommonUpTo
  <2>3. next' \in fork_height' + 1 .. Height[block'] + 1
    BY <1>0, <1>h, <1>f
  <2>4. peak_row = disk.peak_row
    BY <1>0 DEF Inv, ChainInv, CallInv
  <2> QED
    BY <1>0, <2>2, <2>3, <2>4 DEF CallInv
<1>4. SummaryInv'
  <2>1. sub_epoch_summaries = SummariesOf(p)
    BY <1>0, <1>p DEF Inv, ChainInv, SummaryInv
  <2>2. sub_epoch_summaries' =
          [h \in Heights |-> IF h > f THEN NoBlock ELSE SummariesOf(p)[h]]
    BY <1>0, <2>1 DEF SummariesUpTo
  <2>3. (SummariesOf(disk.peak_row))' = SummariesOf(p)
    BY <1>0 DEF SummariesOf
  <2> QED
    BY <1>0, <1>p, <2>2, <2>3 DEF SummaryInv
<1>5. CoinInv'
  <2>t. coin_record \in Table /\ coin_record_cache \in Table
    BY DiskType DEF Inv
  <2>1. IsCoinSet(coin_record, p, Height[p])
    BY <1>0, <1>p, Zenon DEF Inv, ChainInv, CallInv
  <2>2. ChainClaimed(p) /\ SpendsAreSound(p)
    BY <1>p, StoredFacts, Zenon
  <2>3. \A h \in 0 .. f : Chain[p][h] = Chain[block][h]
    BY <1>b, <1>p, <1>f, CommonPrefix
  <2>4. Coherent(coin_record_cache, coin_record)
    BY CoherentCache DEF Inv, ChainInv, CoinInv
  <2>5. IsCoinSet(coin_record', block, f) /\ Coherent(coin_record_cache', coin_record')
    <3>1. CASE Prev(block) = get_peak
      <4>1. IsCoinSet(coin_record, block, f)
        BY <1>b, <1>p, <1>f, <1>h, <2>t, <2>1, <2>3, <3>1, CoinSetTransfer
      <4> QED
        BY <2>4, <3>1, <4>1 DEF ReconsiderHeavier
    <3>2. CASE Prev(block) # get_peak
      <4> DEFINE u == RollbackToBlock(coin_record, f)
      <4>1. IsCoinSet(u, p, f)
        BY <1>p, <1>h, <2>t, <2>1, <2>2, RollbackCoinSet
      <4>2. u \in Table
        BY <2>t, RollbackType
      <4>3. coin_record' = u /\ coin_record_cache' = RollbackCache(coin_record_cache, f)
        BY <3>2 DEF ReconsiderHeavier
      <4>4. Coherent(RollbackCache(coin_record_cache, f), u)
        BY <2>t, <2>4, CoherentRollback
      <4> HIDE DEF u
      <4>5. IsCoinSet(u, block, f)
        BY <1>b, <1>p, <1>h, <2>3, <4>1, <4>2, CoinSetTransfer
      <4> QED
        BY <4>3, <4>4, <4>5
    <3> QED
      BY <3>1, <3>2
  <2>6. CacheCoherent'
    BY <2>5 DEF Coherent, CacheCoherent
  <2>7. IsCoinSet(coin_record, block, next - 1)'
    <3>1. next' - 1 = f
      BY <1>0, <1>h
    <3> QED
      BY <1>0, <2>5, <3>1 DEF IsCoinSet
  <2>8. CommittedCoinSet'
    BY <1>0 DEF Inv, ChainInv, CoinInv, CommittedCoinSet
  <2>9. (\A x \in full_blocks : SpendsAreSound(x) /\ RewardsClaimed(x))'
    BY Zenon, <1>0 DEF Inv, ChainInv, CoinInv, SpendsAreSound, RewardsClaimed
  <2> QED
    BY <1>0, <2>6, <2>7, <2>8, <2>9 DEF CoinInv
<1> QED
  BY <1>1, <1>2, <1>3, <1>4, <1>5 DEF ChainInv

-----------------------------------------------------------------------------
(* The steps of _reconsider_peak, the commits and the restarts *)

\* A block of the new chain is applied to the coin store.
LEMMA ApplyStep ==
  ASSUME Inv, ApplyBlock
  PROVE  ChainInv'
<1>0. /\ pc = "apply" /\ pc' = "apply" /\ next <= Height[block] /\ next' = next + 1
      /\ ApplyToCoinStore(Chain[block][next])
      /\ UNCHANGED <<full_blocks, peak_row, disk, block_records, height_to_hash,
                     sub_epoch_summaries, peak_height, block, hint, fork_height>>
  BY DEF ApplyBlock, memory
<1>b. block \in Block /\ block \in full_blocks
  BY <1>0 DEF Inv, ChainInv, StoreInv
<1>r. /\ Replacing /\ peak_row = disk.peak_row
      /\ next \in fork_height + 1 .. Height[block] + 1
  BY <1>0 DEF Inv, ChainInv, CallInv
<1>h. /\ Height[block] \in Nat
      /\ fork_height \in -1 .. MaxHeight /\ MaxHeight \in Nat
      /\ next \in 0 .. Height[block]
  BY <1>0, <1>b, <1>r, HeightType DEF Replacing, CommonUpTo
<1>1. StoreInv'
  BY <1>0 DEF Inv, ChainInv, StoreInv, Prev
<1>2. PeakInv'
  BY <1>0 DEF Inv, ChainInv, PeakInv
<1>3. CallInv'
  <2>1. Replacing'
    BY <1>0, <1>r DEF Replacing, CommonUpTo
  <2>2. next' \in fork_height' + 1 .. Height[block'] + 1
    BY <1>0, <1>r, <1>h
  <2> QED
    BY <1>0, <1>r, <2>1, <2>2 DEF CallInv
<1>4. SummaryInv'
  BY <1>0 DEF Inv, ChainInv, SummaryInv, SummariesOf
<1>5. CoinInv'
  <2> DEFINE B == Chain[block][next]
             t == NewBlock(coin_record, Adds(B), Removals[B], next)
             m == NewBlock(coin_record_cache, Adds(B), Removals[B], next)
  <2>t. coin_record \in Table /\ coin_record_cache \in Table
    BY DiskType DEF Inv
  <2>1. Height[B] = next /\ next \in Heights
    BY <1>b, <1>h, ChainInBlock, HeightType DEF Heights
  <2>2. ChainClaimed(block) /\ SpendsAreSound(block)
    BY <1>b, StoredFacts
  <2>3. IsCoinSet(coin_record, block, next - 1)
    BY <1>0 DEF Inv, ChainInv, CoinInv
  <2>4. Coherent(coin_record_cache, coin_record)
    BY CoherentCache DEF Inv, ChainInv, CoinInv
  <2>5. IsCoinSet(coin_record', block, next) /\ Coherent(coin_record_cache', coin_record')
    <3>1. CASE IsTx[B]
      <4>1. IsCoinSet(t, block, next)
        BY <1>b, <1>h, <2>t, <2>2, <2>3, NewBlockCoinSet
      <4>2. coin_record' = t /\ coin_record_cache' = CacheAfterReads(t, m, Removals[B])
        BY Zenon, <1>0, <2>1, <3>1 DEF ApplyToCoinStore
      <4>3. t \in Table /\ m \in Table
        BY <2>t, <2>1, NewBlockType
      <4>4. Coherent(m, t)
        BY <2>t, <2>4, CoherentNewBlock
      <4> HIDE DEF t, m
      <4>5. Coherent(CacheAfterReads(t, m, Removals[B]), t)
        BY <4>3, <4>4, CoherentReads
      <4> QED
        BY <4>1, <4>2, <4>5
    <3>2. CASE ~ IsTx[B]
      <4>1. IsCoinSet(coin_record, block, next)
        BY <1>b, <1>h, <2>t, <2>2, <2>3, <3>2, EmptyBlockCoinSet
      <4> QED
        BY Zenon, <1>0, <2>4, <3>2, <4>1 DEF ApplyToCoinStore
    <3> QED
      BY <3>1, <3>2
  <2>6. CacheCoherent'
    BY Zenon, <2>5 DEF Coherent, CacheCoherent
  <2>7. IsCoinSet(coin_record, block, next - 1)'
    <3>1. next' - 1 = next
      BY <1>0, <1>h
    <3> QED
      BY <1>0, <2>5, <3>1 DEF IsCoinSet
  <2>8. CommittedCoinSet'
    BY Zenon, <1>0 DEF Inv, ChainInv, CoinInv, CommittedCoinSet
  <2>9. (\A x \in full_blocks : SpendsAreSound(x) /\ RewardsClaimed(x))'
    BY Zenon, <1>0 DEF Inv, ChainInv, CoinInv, SpendsAreSound, RewardsClaimed
  <2> QED
    BY <1>0, <2>6, <2>7, <2>8, <2>9, Zenon DEF CoinInv
<1> QED
  BY <1>1, <1>2, <1>3, <1>4, <1>5 DEF ChainInv

\* The peak row is written.
LEMMA SetPeakStep ==
  ASSUME Inv, SetPeak
  PROVE  ChainInv'
<1>0. /\ pc = "apply" /\ pc' = "commit_peak" /\ next > Height[block] /\ peak_row' = block
      /\ UNCHANGED <<full_blocks, coin_record, disk, block_records, height_to_hash,
                     sub_epoch_summaries, peak_height, coin_record_cache, block, hint,
                     fork_height, next>>
  BY DEF SetPeak, memory, locals
<1>b. block \in Block
  BY <1>0 DEF Inv, ChainInv, StoreInv
<1>r. Replacing /\ next \in fork_height + 1 .. Height[block] + 1
  BY <1>0 DEF Inv, ChainInv, CallInv
<1>1. StoreInv'
  BY <1>0 DEF Inv, ChainInv, StoreInv, Prev
<1>2. PeakInv'
  BY <1>0 DEF Inv, ChainInv, PeakInv
<1>3. CallInv'
  <2>1. Replacing' /\ disk'.peak_row # NoBlock
    BY <1>0, <1>r DEF Replacing, CommonUpTo
  <2> QED
    BY <1>0, <2>1 DEF CallInv
<1>4. SummaryInv'
  BY <1>0 DEF Inv, ChainInv, SummaryInv, SummariesOf
<1>5. CoinInv'
  <2>1. next - 1 = Height[block]
    BY <1>0, <1>b, <1>r, HeightType DEF Replacing, CommonUpTo
  <2>2. IsCoinSet(coin_record, block, Height[block])
    BY <1>0, <2>1 DEF Inv, ChainInv, CoinInv
  <2>3. IsCoinSet(coin_record, block, Height[block])'
    BY <1>0, <2>2 DEF IsCoinSet
  <2>4. CommittedCoinSet' /\ CacheCoherent'
    BY <1>0 DEF Inv, ChainInv, CoinInv, CommittedCoinSet, CacheCoherent
  <2>5. (\A x \in full_blocks : SpendsAreSound(x) /\ RewardsClaimed(x))'
    BY <1>0 DEF Inv, ChainInv, CoinInv, SpendsAreSound, RewardsClaimed
  <2> QED
    BY <1>0, <2>3, <2>4, <2>5 DEF CoinInv
<1> QED
  BY <1>1, <1>2, <1>3, <1>4, <1>5 DEF ChainInv

\* A commit makes the stored blocks the committed ones, which stay closed under
\* ancestors.
LEMMA CommitStoreStep ==
  ASSUME Inv, pc # "idle", pc' = "idle", disk'.full_blocks = full_blocks,
         full_blocks' = full_blocks, block_records' = block_records \cup {block}
  PROVE  StoreInv'
<1>1. \A b \in full_blocks : \A h \in 0 .. Height[b] : Chain[b][h] \in full_blocks
  BY StoredFacts
<1>2. block_records \cup {block} \subseteq full_blocks
  BY DEF Inv, ChainInv, StoreInv
<1> QED
  BY <1>1, <1>2 DEF StoreInv

\* The transaction with a new peak is committed,
LEMMA CommitPeakStep ==
  ASSUME Inv, CommitPeak
  PROVE  ChainInv'
<1> DEFINE p == disk.peak_row
<1>0. /\ pc = "commit_peak" /\ pc' = "idle"
      /\ disk' = [full_blocks |-> full_blocks, peak_row |-> peak_row,
                  coin_record |-> coin_record]
      /\ block_records' = block_records \cup {block}
      /\ peak_height' = Height[block]
      /\ UNCHANGED <<full_blocks, peak_row, coin_record, coin_record_cache, block>>
  BY DEF CommitPeak, Commit, db, locals
<1>d. /\ disk'.full_blocks = full_blocks /\ disk'.peak_row = block
      /\ disk'.coin_record = coin_record /\ peak_row = block
  BY <1>0 DEF Inv, ChainInv, CallInv
<1>b. block \in Block /\ block \in full_blocks /\ block # NoBlock
  BY Zenon, <1>0, DiskType DEF Inv, ChainInv, StoreInv
<1>h. /\ Height[block] \in Heights /\ Height[block] \in Nat /\ MaxHeight \in Nat
      /\ fork_height \in -1 .. MaxHeight
  BY <1>b, HeightType DEF Inv, TypeInv, TypeOK
<1>c. IF p = NoBlock THEN Height[block] = 0 /\ fork_height = -1 ELSE Replacing
  BY <1>0 DEF Inv, ChainInv, CallInv
<1>1. StoreInv'
  BY <1>0, <1>d, CommitStoreStep
<1>2. PeakInv'
  <2>1. \A h \in 0 .. Height[block] : height_to_hash'[h] = Chain[block][h]
    <3>1. SUFFICES ASSUME NEW h \in 0 .. Height[block]
                   PROVE  height_to_hash'[h] = Chain[block][h]
      OBVIOUS
    <3>2. h \in Heights
      BY <1>h DEF Heights
    <3>3. height_to_hash'[h] = IF h \in fork_height + 1 .. Height[block]
                                  THEN Chain[block][h] ELSE height_to_hash[h]
      BY Zenon, <3>2 DEF CommitPeak, records_to_add
    <3>4. CASE h \in fork_height + 1 .. Height[block]
      BY <3>3, <3>4
    <3>5. CASE h \notin fork_height + 1 .. Height[block]
      <4>1. h \in 0 .. fork_height
        BY <1>h, <3>5
      <4>2. p # NoBlock /\ Replacing
        BY <1>c, <4>1
      <4>3. p \in Block /\ p \in full_blocks /\ peak_height = Height[p] /\ peak_height \in Nat
        BY <4>2, PeakFacts
      <4>4. Chain[p][h] = Chain[block][h]
        BY <1>b, <4>1, <4>2, <4>3, CommonPrefix DEF Replacing
      <4>5. h \in 0 .. peak_height
        BY <1>h, <4>1, <4>2, <4>3 DEF Replacing, CommonUpTo
      <4>6. height_to_hash[h] = Chain[p][h]
        BY <4>2, <4>5 DEF Inv, ChainInv, PeakInv
      <4> QED
        BY <3>3, <3>5, <4>4, <4>6
    <3> QED
      BY <3>4, <3>5
  <2>2. \A b \in full_blocks : Height[b] > 0 => Weight[b] <= Weight[block]
    <3>1. SUFFICES ASSUME NEW b \in full_blocks, Height[b] > 0
                   PROVE  Weight[b] <= Weight[block]
      OBVIOUS
    <3>2. Weight[b] \in Nat /\ Weight[block] \in Nat
      BY <1>b, DiskType DEF Inv
    <3>3. full_blocks = disk.full_blocks \cup {block}
      BY <1>0 DEF Inv, ChainInv, StoreInv
    <3>4. CASE b = block
      BY <3>2, <3>4
    <3>5. CASE b \in disk.full_blocks
      <4>1. p # NoBlock
        BY <3>5 DEF Inv, ChainInv, PeakInv
      <4>2. p \in Block /\ Weight[p] \in Nat
        BY <4>1, PeakFacts, DiskType DEF Inv
      <4>3. Weight[b] <= Weight[p]
        BY <3>1, <3>5, <4>1 DEF Inv, ChainInv, PeakInv
      <4>4. Weight[block] > Weight[p]
        BY <1>c, <4>1 DEF Replacing
      <4> QED
        BY <3>2, <4>2, <4>3, <4>4
    <3> QED
      BY <3>3, <3>4, <3>5
  <2> QED
    BY <1>0, <1>d, <1>b, <2>1, <2>2 DEF PeakInv
<1>3. CallInv'
  BY <1>0, <1>d DEF CallInv
<1>4. SummaryInv'
  <2>1. sub_epoch_summaries' = SummariesOf(block)
    <3>1. SUFFICES ASSUME NEW h \in Heights
                   PROVE  (IF h \in fork_height + 1 .. Height[block] /\ HasSummary[Chain[block][h]]
                              THEN Chain[block][h] ELSE sub_epoch_summaries[h])
                          = (IF h <= Height[block] /\ HasSummary[Chain[block][h]]
                              THEN Chain[block][h] ELSE NoBlock)
      BY DEF CommitPeak, records_to_add, SummariesOf
    <3>2. h \in Nat
      BY <1>h DEF Heights
    <3>3. CASE h > fork_height
      <4>1. sub_epoch_summaries[h] = NoBlock
        BY <1>0, <3>1, <3>3 DEF Inv, ChainInv, SummaryInv, NoSummaries
      <4>2. h \in fork_height + 1 .. Height[block] <=> h <= Height[block]
        BY <1>h, <3>2, <3>3
      <4> QED
        BY <4>1, <4>2
    <3>4. CASE ~ (h > fork_height)
      <4>1. h \in 0 .. fork_height
        BY <1>h, <3>2, <3>4
      <4>2. p # NoBlock /\ Replacing
        BY <1>c, <4>1
      <4>3. p \in Block /\ Height[p] \in Nat
        BY <4>2, PeakFacts, HeightType
      <4>4. Chain[p][h] = Chain[block][h] /\ h <= Height[p] /\ h <= Height[block]
        BY <1>b, <1>h, <4>1, <4>2, <4>3, CommonPrefix DEF Replacing, CommonUpTo
      <4>5. sub_epoch_summaries[h] = SummariesOf(p)[h]
        BY <1>0, <3>1, <3>4, <4>2 DEF Inv, ChainInv, SummaryInv
      <4>6. SummariesOf(p)[h] = IF h <= Height[p] /\ HasSummary[Chain[p][h]]
                                   THEN Chain[p][h] ELSE NoBlock
        BY <3>1 DEF SummariesOf
      <4>7. h \notin fork_height + 1 .. Height[block]
        BY <1>h, <4>1
      <4> QED
        BY <4>4, <4>5, <4>6, <4>7
    <3> QED
      BY <3>3, <3>4
  <2> QED
    BY <1>0, <1>d, <1>b, <2>1 DEF SummaryInv, SummariesOf
<1>5. CoinInv'
  <2>1. IsCoinSet(coin_record, block, Height[block])
    BY <1>0 DEF Inv, ChainInv, CoinInv
  <2>2. CommittedCoinSet'
    BY <1>d, <1>b, <2>1 DEF CommittedCoinSet, IsCoinSet
  <2>3. CacheCoherent'
    BY Zenon, <1>0 DEF Inv, ChainInv, CoinInv, CacheCoherent
  <2>4. (\A x \in full_blocks : SpendsAreSound(x) /\ RewardsClaimed(x))'
    BY <1>0 DEF Inv, ChainInv, CoinInv, SpendsAreSound, RewardsClaimed
  <2> QED
    BY <1>0, <2>2, <2>3, <2>4 DEF CoinInv
<1> QED
  BY <1>1, <1>2, <1>3, <1>4, <1>5 DEF ChainInv

\* or the one without.
LEMMA CommitOrphanStep ==
  ASSUME Inv, CommitOrphan
  PROVE  ChainInv'
<1>0. /\ pc = "commit_orphan" /\ pc' = "idle"
      /\ disk' = [full_blocks |-> full_blocks, peak_row |-> peak_row,
                  coin_record |-> coin_record]
      /\ block_records' = block_records \cup {block}
      /\ UNCHANGED <<full_blocks, peak_row, coin_record, height_to_hash, block,
                     sub_epoch_summaries, peak_height, coin_record_cache>>
  BY DEF CommitOrphan, Commit, db, locals
<1>d. /\ disk'.full_blocks = full_blocks
      /\ disk'.peak_row = disk.peak_row /\ peak_row = disk.peak_row
      /\ disk'.coin_record = disk.coin_record /\ coin_record = disk.coin_record
      /\ disk.peak_row # NoBlock
      /\ Height[block] > 0 => Weight[block] <= Weight[disk.peak_row]
      /\ full_blocks = disk.full_blocks \cup {block}
  BY <1>0 DEF Inv, ChainInv, CallInv, StoreInv
<1>1. StoreInv'
  BY <1>0, <1>d, CommitStoreStep
<1>2. PeakInv'
  BY <1>0, <1>d DEF Inv, ChainInv, PeakInv
<1>3. CallInv'
  BY <1>0, <1>d DEF CallInv
<1>4. SummaryInv'
  BY Zenon, <1>0, <1>d DEF Inv, ChainInv, SummaryInv, SummariesOf
<1>5. CoinInv'
  <2>1. CommittedCoinSet' /\ CacheCoherent'
    BY Zenon, <1>0, <1>d DEF Inv, ChainInv, CoinInv, CommittedCoinSet, CacheCoherent, IsCoinSet
  <2>2. (\A x \in full_blocks : SpendsAreSound(x) /\ RewardsClaimed(x))'
    BY Zenon, <1>0 DEF Inv, ChainInv, CoinInv, SpendsAreSound, RewardsClaimed
  <2> QED
    BY <1>0, <2>1, <2>2 DEF CoinInv
<1> QED
  BY <1>1, <1>2, <1>3, <1>4, <1>5 DEF ChainInv

\* The node restarts from what was committed.
LEMMA RestartStep ==
  ASSUME Inv, Restart
  PROVE  ChainInv'
<1>0. /\ pc' = "idle" /\ disk' = disk
      /\ full_blocks' = disk.full_blocks /\ peak_row' = disk.peak_row
      /\ coin_record' = disk.coin_record /\ coin_record_cache' = NoTable
      /\ disk.peak_row = NoBlock =>
            /\ block_records' = {} /\ peak_height' = -1
            /\ sub_epoch_summaries' = NoSummaries
      /\ disk.peak_row # NoBlock =>
            /\ block_records' \subseteq disk.full_blocks
            /\ height_to_hash' = Chain[disk.peak_row]
            /\ peak_height' = Height[disk.peak_row]
            /\ sub_epoch_summaries' = SummariesOf(disk.peak_row)
  BY Zenon DEF Restart
<1>1. StoreInv'
  BY <1>0 DEF Inv, ChainInv, StoreInv
<1>2. PeakInv'
  BY <1>0 DEF Inv, ChainInv, PeakInv
<1>3. CallInv'
  BY <1>0 DEF CallInv
<1>4. SummaryInv'
  BY <1>0 DEF SummaryInv, SummariesOf
<1>5. CoinInv'
  <2>1. CommittedCoinSet'
    BY Zenon, <1>0 DEF Inv, ChainInv, CoinInv, CommittedCoinSet, IsCoinSet
  <2>2. CacheCoherent'
    BY Zenon, <1>0 DEF CacheCoherent, NoTable
  <2>3. disk.full_blocks \subseteq full_blocks
    BY DEF Inv, ChainInv, StoreInv
  <2>4. (\A x \in full_blocks : SpendsAreSound(x) /\ RewardsClaimed(x))'
    BY <1>0, <2>3 DEF Inv, ChainInv, CoinInv, SpendsAreSound, RewardsClaimed
  <2> QED
    BY <1>0, <2>1, <2>2, <2>4 DEF CoinInv
<1> QED
  BY <1>1, <1>2, <1>3, <1>4, <1>5 DEF ChainInv

\* Each step keeps the invariant.
LEMMA ChainStep == Inv /\ [Next]_vars => ChainInv'
<1> SUFFICES ASSUME Inv, [Next]_vars PROVE ChainInv'
  OBVIOUS
<1>t. coin_record \in Table /\ coin_record_cache \in Table
  BY DiskType DEF Inv
<1>c. Coherent(coin_record_cache, coin_record)
  BY CoherentCache DEF Inv, ChainInv, CoinInv
<1>1. ASSUME NEW b \in Block, NEW given \in -1 .. MaxHeight, NEW f \in -1 .. MaxHeight,
             RejectBlock(b, given, f)
      PROVE  ChainInv'
  <2>1. Coherent(coin_record_cache', coin_record)
    BY <1>1, <1>t, <1>c, CoherentReads DEF RejectBlock, ReadRemovals
  <2> QED
    BY <1>1, <2>1, CacheStep DEF RejectBlock
<1>2. ASSUME NEW b \in Block, NEW given \in -1 .. MaxHeight, NEW f \in -1 .. MaxHeight,
             BeginTransaction(b, given, f)
      PROVE  ChainInv'
  BY <1>2, BeginStep
<1>3. CASE ReconsiderGenesis
  BY <1>3, GenesisStep
<1>4. CASE ReconsiderOrphan
  BY <1>4, OrphanStep
<1>5. ASSUME NEW f \in -1 .. MaxHeight, ReconsiderHeavier(f)
      PROVE  ChainInv'
  BY <1>5, HeavierStep
<1>6. CASE ApplyBlock
  BY <1>6, ApplyStep
<1>7. CASE SetPeak
  BY <1>7, SetPeakStep
<1>8. CASE CommitPeak
  BY <1>8, CommitPeakStep
<1>9. CASE CommitOrphan
  BY <1>9, CommitOrphanStep
<1>10. ASSUME NEW c \in Coin, ReadCoin(c)
       PROVE  ChainInv'
  <2>1. Coherent(coin_record_cache', coin_record)
    BY <1>10, <1>t, <1>c, CoherentReads DEF ReadCoin
  <2> QED
    BY <1>10, <2>1, CacheStep DEF ReadCoin
<1>11. ASSUME NEW c \in Coin, EvictCoin(c)
       PROVE  ChainInv'
  <2>1. Coherent(coin_record_cache', coin_record)
    BY <1>11, <1>t, <1>c DEF EvictCoin, Coherent, Table
  <2> QED
    BY <1>11, <2>1, CacheStep DEF EvictCoin
<1>12. CASE clean_block_records
  <2>1. block_records' \subseteq disk.full_blocks
    BY <1>12 DEF clean_block_records, clean_block_record, Inv, ChainInv, StoreInv
  <2> QED
    BY <1>12, <2>1, RecordsStep DEF clean_block_records
<1>13. ASSUME NEW f \in Heights, warmup(f)
       PROVE  ChainInv'
  <2>1. block_records' \subseteq disk.full_blocks
    BY <1>13 DEF warmup, Inv, ChainInv, StoreInv
  <2> QED
    BY Zenon, <1>13, <2>1, RecordsStep DEF warmup
<1>14. CASE Restart
  BY <1>14, RestartStep
<1>15. CASE UNCHANGED vars
  BY <1>15, <1>c, CacheStep DEF vars
<1> QED
  BY <1>1, <1>2, <1>3, <1>4, <1>5, <1>6, <1>7, <1>8, <1>9, <1>10, <1>11, <1>12,
     <1>13, <1>14, <1>15 DEF Next, ReceiveBlock

-----------------------------------------------------------------------------
(* Safety *)

\* The invariant holds at every moment.
LEMMA InvAlways == Spec => []Inv
<1>1. Init => Inv
  BY TypeInit, ChainInit DEF Inv
<1>2. Inv /\ [Next]_vars => Inv'
  BY TypeStep, ChainStep DEF Inv
<1> QED
  BY <1>1, <1>2, PTL DEF Spec

\* ChainInv holds in every reachable state: at every await of receive_block the
\* stores, the memory and the locals relate to the last commit as it says.
THEOREM Spec_ChainInv == Spec => []ChainInv
<1>1. Inv => ChainInv
  BY DEF Inv
<1> QED
  BY <1>1, InvAlways, PTL

\* validate_block_body lets no block into the store that double-spends on its
\* own chain, whichever chain was the peak's when the block came in.
THEOREM Spec_NoDoubleSpend == Spec => []NoDoubleSpend
<1>1. Inv => NoDoubleSpend
  BY DEF Inv, ChainInv, CoinInv, NoDoubleSpend
<1> QED
  BY <1>1, InvAlways, PTL

\* The committed coin table is the coin set of the committed peak's chain after
\* any sequence of extensions, reorganisations and crashes.
THEOREM Spec_CommittedCoinSet == Spec => []CommittedCoinSet
<1>1. Inv => CommittedCoinSet
  BY DEF Inv, ChainInv, CoinInv
<1> QED
  BY <1>1, InvAlways, PTL

\* The coin store's LRU cache never disagrees with its table.
THEOREM Spec_CacheCoherent == Spec => []CacheCoherent
<1>1. Inv => CacheCoherent
  BY DEF Inv, ChainInv, CoinInv
<1> QED
  BY <1>1, InvAlways, PTL

\* Between two calls of receive_block __height_to_hash is the path to the peak
\* and __sub_epoch_summaries has the summaries on it.
THEOREM Spec_MemoryFollowsPeak == Spec => [](PathLeadsToPeak /\ SummariesFollowPeak)
<1>1. Inv => PathLeadsToPeak
  BY DEF Inv, ChainInv, PeakInv, CallInv, PathLeadsToPeak
<1>2. Inv => SummariesFollowPeak
  BY DEF Inv, ChainInv, SummaryInv, CallInv, SummariesFollowPeak
<1> QED
  BY <1>1, <1>2, InvAlways, PTL

\* _reconsider_peak keeps the peak a heaviest block among all stored ones.
THEOREM Spec_PeakIsHeaviest == Spec => []PeakIsHeaviest
<1>1. Inv => PeakIsHeaviest
  BY DEF Inv, ChainInv, StoreInv, PeakInv, CallInv, PeakIsHeaviest
<1> QED
  BY <1>1, InvAlways, PTL

\* The database is the committed one whenever no call of receive_block runs.
THEOREM Spec_IdleIsCommitted == Spec => []IdleIsCommitted
<1>1. Inv => IdleIsCommitted
  BY Zenon DEF Inv, TypeInv, TypeOK, ChainInv, StoreInv, CallInv, IdleIsCommitted
<1> QED
  BY <1>1, InvAlways, PTL

\* Applying a block of a reorganisation creates rows that are not there and spends rows
\* that are.
LEMMA ReorgRows ==
  ASSUME Inv
  PROVE  ReorgNeverFails
<1>1. SUFFICES ASSUME pc = "apply", next <= Height[block]
               PROVE  /\ Chain[block][next] \in full_blocks
                      /\ \A c \in Adds(Chain[block][next]) : coin_record[c] = NoRecord
                      /\ \A c \in Removals[Chain[block][next]] :
                            c \in Adds(Chain[block][next]) \/ coin_record[c] # NoRecord
  BY Zenon DEF ReorgNeverFails
<1>2. block \in Block /\ block \in full_blocks
  BY <1>1 DEF Inv, ChainInv, StoreInv
<1>0. next \in Nat
  BY DEF Inv, TypeInv, TypeOK
<1>3. next \in 0 .. Height[block] /\ Height[block] \in Nat
  BY <1>0, <1>1, <1>2, HeightType
<1>4. /\ Chain[block][next] \in full_blocks
      /\ ChainClaimed(block) /\ SpendsAreSound(block)
  BY <1>2, <1>3, StoredFacts
<1>5. IsCoinSet(coin_record, block, next - 1) /\ coin_record \in Table
  BY <1>1, DiskType DEF Inv, ChainInv, CoinInv
<1>6. Chain[block][next] \in Block
  BY <1>2, <1>3, ChainInBlock
<1>7. Adds(Chain[block][next]) \subseteq Coin /\ Removals[Chain[block][next]] \subseteq Coin
  BY <1>6, CoinAssumption DEF CoinAssumption, Adds
<1>8. ASSUME NEW c \in Adds(Chain[block][next]) PROVE coin_record[c] = NoRecord
  <2>1. SUFFICES ASSUME coin_record[c] # NoRecord PROVE FALSE
    OBVIOUS
  <2> DEFINE k == coin_record[c].confirmed_index
  <2>2. k \in Heights /\ k <= next - 1 /\ c \in Adds(Chain[block][k])
    BY <1>5, <1>7, <1>8, <2>1, TableEntry DEF IsCoinSet
  <2>3. k \in 0 .. Height[block] /\ k # next
    BY <1>3, <2>2, HeightType, <1>2 DEF Heights
  <2> HIDE DEF k
  <2> QED
    BY <1>2, <1>3, <1>4, <1>8, <2>2, <2>3, CreatedOnce
<1>9. ASSUME NEW c \in Removals[Chain[block][next]], c \notin Adds(Chain[block][next])
      PROVE  coin_record[c] # NoRecord
  <2>1. PICK k \in 0 .. next : c \in Adds(Chain[block][k])
    BY <1>3, <1>4, <1>9 DEF SpendsAreSound
  <2>2. k \in 0 .. next - 1
    BY <1>3, <1>9, <2>1
  <2> QED
    BY <1>5, <1>7, <1>9, <2>1, <2>2 DEF IsCoinSet
<1> QED
  BY Zenon, <1>4, <1>8, <1>9

\* Neither the primary key of coin_record nor the assertions on removed_rec stop
\* a reorganisation half way.
THEOREM Spec_ReorgNeverFails == Spec => []ReorgNeverFails
  BY ReorgRows, InvAlways, PTL

\* What a step may do to the committed database: nothing, add an orphan, or
\* follow a new peak.
LEMMA CommitCases ==
  ASSUME Inv, [Next]_vars
  PROVE  \/ disk' = disk
         \/ CommitOrphan
         \/ CommitPeak
  BY Zenon DEF Next, ReceiveBlock, RejectBlock, BeginTransaction, ReconsiderGenesis,
         ReconsiderOrphan, ReconsiderHeavier, ApplyBlock, SetPeak, ReadCoin, EvictCoin,
         clean_block_records, warmup, Restart, vars

\* A committed peak is only replaced by a strictly heavier block.
THEOREM Spec_PeakOnlyGetsHeavier == Spec => PeakOnlyGetsHeavier
<1> DEFINE A == disk.peak_row' # disk.peak_row /\ disk.peak_row # NoBlock
                   => /\ disk.peak_row' # NoBlock
                      /\ Weight[disk.peak_row'] > Weight[disk.peak_row]
<1>1. ASSUME Inv, [Next]_vars PROVE A
  <2>1. CASE disk' = disk
    BY <2>1
  <2>2. CASE CommitOrphan
    BY Zenon, <1>1, <2>2 DEF CommitOrphan, Commit, Inv, ChainInv, CallInv
  <2>3. CASE CommitPeak
    <3>1. disk'.peak_row = block
      BY Zenon, <1>1, <2>3 DEF CommitPeak, Commit, Inv, ChainInv, CallInv
    <3>2. block \in Block /\ block # NoBlock
      BY Zenon, <1>1, <2>3, DiskType DEF CommitPeak, Inv, ChainInv, StoreInv
    <3>3. disk.peak_row # NoBlock => Weight[block] > Weight[disk.peak_row]
      BY <1>1, <2>3 DEF CommitPeak, Inv, ChainInv, CallInv, Replacing
    <3> QED
      BY <3>1, <3>2, <3>3
  <2> QED
    BY <1>1, <2>1, <2>2, <2>3, CommitCases
<1>2. Inv /\ [Next]_vars => [A]_vars
  BY <1>1
<1> QED
  BY <1>2, InvAlways, PTL DEF Spec, PeakOnlyGetsHeavier

\* _load_chain_from_store rebuilds the memory a running process has.
THEOREM Spec_RestartKeepsChain == Spec => RestartKeepsChain
<1> DEFINE A == Restart /\ pc = "idle" =>
                   /\ UNCHANGED <<full_blocks, peak_row, coin_record, peak_height,
                                  sub_epoch_summaries>>
                   /\ \A h \in 0 .. peak_height : height_to_hash'[h] = height_to_hash[h]
<1>1. ASSUME Inv PROVE A
  <2>1. SUFFICES ASSUME Restart, pc = "idle"
                 PROVE  /\ UNCHANGED <<full_blocks, peak_row, coin_record, peak_height,
                                       sub_epoch_summaries>>
                        /\ \A h \in 0 .. peak_height : height_to_hash'[h] = height_to_hash[h]
    BY Zenon
  <2>2. UNCHANGED <<full_blocks, peak_row, coin_record>>
    BY Zenon, <1>1, <2>1 DEF Restart, Inv, ChainInv, StoreInv, CallInv
  <2>3. CASE disk.peak_row = NoBlock
    BY <1>1, <2>1, <2>2, <2>3 DEF Restart, Inv, ChainInv, PeakInv, SummaryInv
  <2>4. CASE disk.peak_row # NoBlock
    BY <1>1, <2>1, <2>2, <2>4 DEF Restart, Inv, ChainInv, PeakInv, SummaryInv
  <2> QED
    BY <2>3, <2>4
<1>2. Inv /\ [Next]_vars => [A]_vars
  BY <1>1
<1> QED
  BY <1>2, InvAlways, PTL DEF Spec, RestartKeepsChain

-----------------------------------------------------------------------------
(* Refinement *)

\* The unspent rows of a coin set are the unspent coins of the chain.
LEMMA UnspentRows ==
  ASSUME NEW t \in Table, NEW b \in Block, IsCoinSet(t, b, Height[b])
  PROVE  {c \in Coin : t[c] # NoRecord /\ ~ t[c].spent} = L!UnspentOf(b)
<1>h. Height[b] \in Nat
  BY HeightType
<1>1. SUFFICES ASSUME NEW c \in Coin
               PROVE  (t[c] # NoRecord /\ ~ t[c].spent) <=>
                      /\ \E h \in 0 .. Height[b] : c \in Adds(Chain[b][h])
                      /\ \A h \in 0 .. Height[b] : c \notin Removals[Chain[b][h]]
  BY Zenon DEF L!UnspentOf, L!Adds, Adds
<1>2. CASE t[c] = NoRecord
  <2>1. \A h \in 0 .. Height[b] : c \notin Adds(Chain[b][h])
    BY <1>2, Zenon DEF IsCoinSet
  <2> QED
    BY Zenon, <1>2, <2>1
<1>3. CASE t[c] # NoRecord
  <2>1. /\ t[c].confirmed_index \in 0 .. Height[b]
        /\ c \in Adds(Chain[b][t[c].confirmed_index])
    BY <1>h, <1>3, TableEntry DEF IsCoinSet, Heights
  <2>2. CASE t[c].spent
    <3>1. t[c].spent_index \in 0 .. Height[b] /\ c \in Removals[Chain[b][t[c].spent_index]]
      BY <1>h, <1>3, <2>2, TableEntry DEF IsCoinSet, Heights
    <3> QED
      BY <2>2, <3>1
  <2>3. CASE ~ t[c].spent
    BY <1>3, <2>1, <2>3 DEF IsCoinSet
  <2> QED
    BY <2>2, <2>3
<1> QED
  BY Zenon, <1>2, <1>3

\* The commits of receive_block are the steps of Ledger: forks, transactions,
\* caches and restarts are invisible to a reader of the committed database.
THEOREM Spec_ImplementsLedger == Spec => ImplementsLedger
<1>1. Init => L!LedgerInit
  BY DEF Init, L!LedgerInit, NoTable
<1>2. ASSUME Inv, [Next]_vars PROVE [L!LedgerNext]_(L!ledger)
  <2>1. CASE disk' = disk
    BY <2>1 DEF L!ledger
  <2> SUFFICES ASSUME CommitOrphan \/ CommitPeak
               PROVE  L!LedgerNext
    BY <1>2, <2>1, CommitCases
  <2>2. block \in Block /\ block \in full_blocks /\ block # NoBlock
    BY <1>2, DiskType DEF CommitPeak, CommitOrphan, Inv, ChainInv, StoreInv
  <2>3. SpendsAreSound(block)
    BY <1>2, <2>2, StoredFacts
  <2>4. L!Acceptable(block)
    BY Zenon, <1>2, <2>3 DEF CommitPeak, CommitOrphan, Inv, ChainInv, StoreInv, L!Acceptable,
       L!SpendsAreSound, SpendsAreSound, L!Prev, Prev, L!Adds, Adds
  <2>5. disk'.full_blocks = disk.full_blocks \cup {block}
    <3>1. disk'.full_blocks = full_blocks /\ pc # "idle"
      <4>1. Commit /\ (pc = "commit_peak" \/ pc = "commit_orphan")
        BY Zenon DEF CommitPeak, CommitOrphan
      <4>2. disk' = [full_blocks |-> full_blocks, peak_row |-> peak_row,
                     coin_record |-> coin_record]
        BY <4>1, Zenon DEF Commit
      <4>3. disk'.full_blocks = full_blocks
        BY ONLY <4>2
      <4> QED BY ONLY <4>1, <4>3
    <3>2. full_blocks = disk.full_blocks \cup {block}
      BY Zenon, <1>2, <3>1 DEF Inv, ChainInv, StoreInv
    <3> QED
      BY <3>1, <3>2
  <2>6. CASE CommitOrphan
    <3>1. /\ disk'.peak_row = disk.peak_row /\ disk'.coin_record = disk.coin_record
          /\ disk.peak_row # NoBlock
          /\ Height[block] > 0 => Weight[block] <= Weight[disk.peak_row]
      BY <1>2, <2>6, Zenon DEF CommitOrphan, Commit, Inv, ChainInv, CallInv
    <3>2. Weight[block] \in Nat /\ Weight[disk.peak_row] \in Nat
      BY <1>2, <2>2, <3>1, DiskType DEF Inv
    <3>3. ~ L!Wins(block)
      BY <3>1, <3>2 DEF L!Wins
    <3>4. L!Remember(block)
      BY <2>4, <2>5, <3>1, <3>3 DEF L!Remember
    <3> QED
      BY <2>2, <3>4 DEF L!LedgerNext
  <2>7. CASE CommitPeak
    <3>1. /\ disk'.peak_row = block /\ disk'.coin_record = coin_record
          /\ IsCoinSet(coin_record, block, Height[block])
          /\ coin_record \in Table
      BY Zenon, <1>2, <2>7, DiskType DEF CommitPeak, Commit, Inv, ChainInv, CallInv, CoinInv
    <3>2. {c \in Coin : coin_record[c] # NoRecord /\ ~ coin_record[c].spent}
             = L!UnspentOf(block)
      BY <2>2, <3>1, UnspentRows
    <3>3. L!Wins(block)
      BY Zenon, <1>2, <2>7 DEF CommitPeak, Inv, ChainInv, CallInv, Replacing, L!Wins
    <3>4. L!Follow(block)
      BY Zenon, <2>4, <2>5, <3>1, <3>2, <3>3 DEF L!Follow
    <3> QED
      BY <2>2, <3>4 DEF L!LedgerNext, L!Follow
  <2> QED
    BY <2>6, <2>7
<1> QED
  BY <1>1, <1>2, InvAlways, PTL DEF Spec, ImplementsLedger, L!LedgerSpec

-----------------------------------------------------------------------------
(* What receive_block reports *)

\* s reports, for a call that started from table d, the rows of table t; only a coin
\* made unspent again may be missing.
Reported(s, t, d) ==
    \A c \in Coin :
        /\ s[c] # NoRecord /\ t[c] # NoRecord => s[c] = t[c]
        /\ t[c] # d[c] /\ s[c] = NoRecord
              => d[c] # NoRecord /\ d[c].spent /\ t[c] = Unspent(d[c])

ReportInv ==
    IF pc \in {"apply", "commit_peak"}
       THEN Reported(lastest_coin_state, coin_record, disk.coin_record)
       ELSE lastest_coin_state = NoTable

\* The first block of a chain has no coin to spend: it claims no reward, and a coin it
\* creates would have a parent among the coins it creates.
LEMMA FirstBlockEmpty ==
  ASSUME NEW b \in Block, Height[b] = 0, RewardsClaimed(b), SpendsAreSound(b)
  PROVE  Removals[b] = {}
<1>1. /\ Chain[b][0] = b /\ Removals[b] \subseteq Adds(b) /\ Removals[b] \subseteq Coin
  <2>1. Chain[b][0] = b /\ Removals[b] \subseteq Coin
    BY HeightType, CoinAssumption DEF CoinAssumption
  <2>2. ASSUME NEW c \in Removals[b] PROVE c \in Adds(b)
    <3>1. 0 \in 0 .. Height[b]
      <4>1. Height[b] = 0
        BY Zenon
      <4> QED BY ONLY <4>1
    <3>2. PICK k \in 0 .. 0 : c \in Adds(Chain[b][k])
      BY <2>1, <3>1 DEF SpendsAreSound
    <3>3. k = 0
      BY ONLY <3>2
    <3>4. c \in Adds(Chain[b][k])
      BY <3>2, Zenon
    <3> QED BY <2>1, <3>3, <3>4, Zenon
  <2>3. Removals[b] \subseteq Adds(b)
    BY <2>2, Zenon
  <2> QED BY <2>1, <2>3, Zenon
<1>2. CASE ~ IsTx[b]
  BY <1>2 DEF RewardsClaimed
<1>3. CASE IsTx[b]
  <2>1. ClaimHeights(b) = {}
    <3>1. 0 .. Height[b] - 1 = {}
      OBVIOUS
    <3> QED BY <3>1 DEF ClaimHeights
  <2>2. Claims[b] = {}
    BY <1>3, <2>1 DEF RewardsClaimed, ExpectedRewards
  <2>3. Adds(b) = Additions[b]
    BY <2>2 DEF Adds
  <2>4. Additions[b] \in SUBSET Coin /\ \A c \in Additions[b] : Parent[c] \in Removals[b]
    BY CoinAssumption DEF CoinAssumption
  <2>5. SUFFICES ASSUME Additions[b] # {} PROVE FALSE
    BY <1>1, <2>3, Zenon
  <2>6. PICK c \in Additions[b] : Parent[c] \notin Additions[b]
    BY <2>4, <2>5, CoinAssumption DEF CoinAssumption
  <2> QED BY <1>1, <2>3, <2>4, <2>6
<1> QED BY <1>2, <1>3, Zenon

\* rollback_to_block: the rows it deletes are reported, and a row it keeps and changes
\* was spent.
LEMMA RollbackReported ==
  ASSUME NEW t \in Table, NEW b \in Block, IsCoinSet(t, b, Height[b]), NEW f \in -1 .. MaxHeight, NEW s,
         \A c \in Coin : s[c] = IF c \in RollbackChanges(t, f) THEN [t[c] EXCEPT !.confirmed_index = 0] ELSE NoRecord
  PROVE  Reported(s, RollbackToBlock(t, f), t)
<1> DEFINE r == RollbackToBlock(t, f)
<1>1. SUFFICES ASSUME NEW c \in Coin
               PROVE  /\ s[c] # NoRecord /\ r[c] # NoRecord => s[c] = r[c]
                      /\ r[c] # t[c] /\ s[c] = NoRecord => t[c] # NoRecord /\ t[c].spent /\ r[c] = Unspent(t[c])
  BY DEF Reported
<1>2. r[c] = IF t[c] = NoRecord THEN NoRecord
             ELSE IF t[c].confirmed_index > f THEN NoRecord
             ELSE IF t[c].spent_index > f THEN Unspent(t[c]) ELSE t[c]
  BY DEF RollbackToBlock
<1> HIDE DEF r
<1>3. CASE t[c] = NoRecord
  BY <1>1, <1>2, <1>3 DEF RollbackChanges
<1>4. CASE t[c] # NoRecord /\ t[c].confirmed_index > f
  <2>1. s[c] = [t[c] EXCEPT !.confirmed_index = 0]
    BY <1>1, <1>4 DEF RollbackChanges
  <2>2. s[c] # NoRecord
    <3>1. t[c] \in CoinRecord /\ 0 \in Heights
      BY <1>4, TableEntry, TreeAssumption DEF TreeAssumption, Heights
    <3>2. [t[c] EXCEPT !.confirmed_index = 0] \in CoinRecord
      BY <3>1 DEF CoinRecord
    <3> QED BY <2>1, <3>2, RecordAssumption DEF RecordAssumption
  <2> QED BY <1>2, <1>4, <2>2
<1>5. CASE t[c] # NoRecord /\ ~(t[c].confirmed_index > f)
  <2>1. s[c] = NoRecord
    BY <1>1, <1>5, Zenon DEF RollbackChanges
  <2>2. t[c].confirmed_index \in Nat /\ t[c].spent_index \in Nat /\ f \in Int
    BY <1>5, TableEntry DEF Heights
  <2>3. t[c].spent_index > f => t[c].spent
    BY <1>5, <2>2 DEF IsCoinSet
  <2> QED BY <1>2, <1>5, <2>1, <2>3
<1> QED BY <1>3, <1>4, <1>5

\* new_block: every row it changes is reported as it is.
LEMMA NewBlockReported ==
  ASSUME NEW s, NEW t, NEW d, Reported(s, t, d), NEW adds, NEW removals, NEW h, NEW u,
         \A c \in removals : c \in adds \/ t[c] # NoRecord,
         \A c \in Coin : u[c] = IF c \in adds \cup removals THEN NewBlock(t, adds, removals, h)[c] ELSE s[c],
         \A c \in Coin : c \in adds \cup removals => NewBlock(t, adds, removals, h)[c] # NoRecord
  PROVE  Reported(u, NewBlock(t, adds, removals, h), d)
<1> DEFINE n == NewBlock(t, adds, removals, h)
<1>1. \A c \in Coin : c \notin adds \cup removals => n[c] = t[c]
  BY Zenon DEF NewBlock, SetSpent, AddCoinRecords
<1>2. \A c \in Coin : u[c] = IF c \in adds \cup removals THEN n[c] ELSE s[c]
  OBVIOUS
<1>3. \A c \in Coin : c \in adds \cup removals => n[c] # NoRecord
  OBVIOUS
<1> HIDE DEF n
<1>4. Reported(u, n, d)
  BY <1>1, <1>2, <1>3, Zenon DEF Reported
<1> QED BY <1>4, Zenon DEF n

\* A record of a coin created or spent is a record.
LEMMA NewRows ==
  ASSUME NEW t \in Table, NEW adds, NEW removals, NEW h \in Heights,
         \A c \in removals : c \in adds \/ t[c] # NoRecord, NEW c \in Coin, c \in adds \cup removals
  PROVE  NewBlock(t, adds, removals, h)[c] # NoRecord
<1> DEFINE a == AddCoinRecords(t, adds, h)
<1>1. a \in Table /\ NewBlock(t, adds, removals, h) \in Table
  BY AddType, NewBlockType
<1>2. a[c] = IF c \in adds THEN NewRecord(h) ELSE t[c]
  BY DEF AddCoinRecords
<1>3. NewRecord(h) \in CoinRecord
  BY NewRecordType, Zenon
<1>4. a[c] # NoRecord
  BY <1>2, <1>3, RecordAssumption DEF RecordAssumption
<1>5. NewBlock(t, adds, removals, h)[c] = IF c \in removals /\ a[c] # NoRecord THEN Spent(a[c], h) ELSE a[c]
  BY DEF NewBlock, SetSpent
<1> HIDE DEF a
<1>6. Spent(a[c], h) \in CoinRecord
  BY <1>1, <1>4, TableEntry, SpentType, Zenon
<1> QED BY <1>4, <1>5, <1>6, RecordAssumption DEF RecordAssumption

\* Each step of receive_block, and each other step, keeps the report right.
LEMMA ReportStep ==
  ASSUME Inv, Inv', ReportInv, [Next]_vars
  PROVE  ReportInv'
<1>1. coin_record \in Table /\ disk.coin_record \in Table
  BY DiskType DEF Inv
<1>2. CASE UNCHANGED <<pc, coin_record, disk, lastest_coin_state>>
  BY <1>2 DEF ReportInv
<1>3. ASSUME NEW b \in Block, NEW given, NEW f, BeginTransaction(b, given, f) PROVE ReportInv'
  BY <1>3 DEF BeginTransaction, ReportInv
<1>4. CASE ReconsiderOrphan
  BY <1>4 DEF ReconsiderOrphan, ReportInv
<1>5. CASE CommitPeak \/ CommitOrphan \/ Restart
  BY <1>5, Zenon DEF CommitPeak, CommitOrphan, Restart, ReportInv
<1>6. CASE SetPeak
  BY <1>6 DEF SetPeak, ReportInv
<1>7. CASE ReconsiderGenesis
  <2>1. /\ pc = "reconsider" /\ pc' = "commit_peak" /\ disk' = disk
        /\ Height[block] = 0 /\ block \in Block /\ peak_height = -1
        /\ block \in full_blocks
    <3>1. /\ pc = "reconsider" /\ pc' = "commit_peak" /\ disk' = disk
          /\ Height[block] = 0 /\ peak_height = -1
      BY <1>7, Zenon DEF ReconsiderGenesis
    <3>2. StoreInv
      BY Zenon DEF Inv, ChainInv
    <3>3. pc # "idle"
      BY ONLY <3>1
    <3>4. block \in Block /\ full_blocks = disk.full_blocks \cup {block}
      BY <3>2, <3>3, Zenon DEF StoreInv
    <3> QED BY <3>1, <3>4, Zenon
  <2>2. disk.coin_record = NoTable /\ coin_record = NoTable /\ lastest_coin_state = NoTable
    <3>1. disk.peak_row = NoBlock
      BY <2>1, PeakFacts
    <3>2. CommittedCoinSet /\ CallInv
      BY Zenon DEF Inv, ChainInv, CoinInv
    <3>3. disk.coin_record = NoTable
      BY <3>1, <3>2, Zenon DEF CommittedCoinSet
    <3>4. coin_record = disk.coin_record
      BY <2>1, <3>2, Zenon DEF CallInv
    <3>5. ~ (pc \in {"apply", "commit_peak"})
      BY ONLY <2>1
    <3>6. lastest_coin_state = NoTable
      BY <3>5, Zenon DEF ReportInv
    <3> QED BY <3>3, <3>4, <3>6, Zenon
  <2>3. Reported(NoTable, NoTable, NoTable)
    BY DEF Reported
  <2>4. CASE ~ IsTx[block]
    <3>1. coin_record' = NoTable /\ lastest_coin_state' = NoTable
      BY <1>7, <2>2, <2>4, Zenon DEF ReconsiderGenesis
    <3> QED BY <2>1, <2>2, <2>3, <3>1 DEF ReportInv
  <2>5. CASE IsTx[block]
    <3>1. Removals[block] = {}
      BY <2>1, FirstBlockEmpty DEF Inv, ChainInv, CoinInv
    <3>2. PICK adds : adds = Adds(block)
      OBVIOUS
    <3>3. /\ coin_record' = NewBlock(NoTable, adds, {}, 0)
          /\ lastest_coin_state' = Report(AddCoinRecords(NoTable, adds, 0), adds)
      BY <1>7, <2>2, <2>5, <3>1, <3>2, Zenon DEF ReconsiderGenesis
    <3>4. \A c \in Coin : NewBlock(NoTable, adds, {}, 0)[c] = AddCoinRecords(NoTable, adds, 0)[c]
      BY DEF NewBlock, SetSpent
    <3>5. \A c \in Coin : lastest_coin_state'[c] = IF c \in adds \cup {} THEN NewBlock(NoTable, adds, {}, 0)[c] ELSE NoTable[c]
      BY <2>2, <3>3, <3>4 DEF Report
    <3>6. 0 \in Heights /\ NoTable \in Table
      BY <1>1, <2>2, TreeAssumption DEF TreeAssumption, Heights
    <3>7. \A c \in Coin : c \in adds \cup {} => NewBlock(NoTable, adds, {}, 0)[c] # NoRecord
      BY <3>6, NewRows
    <3>8. PICK u : u = lastest_coin_state'
      OBVIOUS
    <3>9. Reported(u, NewBlock(NoTable, adds, {}, 0), NoTable)
      BY <2>3, <3>5, <3>7, <3>8, NewBlockReported
    <3> QED BY <2>1, <2>2, <3>3, <3>8, <3>9 DEF ReportInv
  <2> QED BY <2>4, <2>5
<1>8. ASSUME NEW f \in -1 .. MaxHeight, ReconsiderHeavier(f) PROVE ReportInv'
  <2>1. /\ pc = "reconsider" /\ pc' = "apply" /\ disk' = disk /\ peak_height # -1
    BY <1>8 DEF ReconsiderHeavier
  <2>2. lastest_coin_state = NoTable /\ coin_record = disk.coin_record
    BY <2>1, Zenon DEF ReportInv, Inv, ChainInv, CallInv
  <2>3. CASE UNCHANGED <<coin_record, coin_record_cache, lastest_coin_state>>
    <3>1. Reported(lastest_coin_state, coin_record, disk.coin_record)
      BY <2>2 DEF Reported, NoTable
    <3> QED BY <2>1, <2>3, <3>1 DEF ReportInv
  <2>4. CASE /\ coin_record' = RollbackToBlock(coin_record, f)
             /\ lastest_coin_state' = ReportDeleted(RollbackChanges(coin_record, f))
    <3>1. disk.peak_row \in Block /\ IsCoinSet(coin_record, disk.peak_row, Height[disk.peak_row])
      BY <2>1, <2>2, PeakFacts
    <3>2. \A c \in Coin : lastest_coin_state'[c] = IF c \in RollbackChanges(coin_record, f)
                             THEN [coin_record[c] EXCEPT !.confirmed_index = 0] ELSE NoRecord
      BY <2>2, <2>4 DEF ReportDeleted, NoTable
    <3>3. PICK u : u = lastest_coin_state'
      OBVIOUS
    <3>4. Reported(u, RollbackToBlock(coin_record, f), coin_record)
      BY <1>1, <3>1, <3>2, <3>3, RollbackReported, Zenon
    <3> QED BY <2>1, <2>2, <2>4, <3>3, <3>4 DEF ReportInv
  <2> QED BY <1>8, <2>3, <2>4 DEF ReconsiderHeavier
<1>9. CASE ApplyBlock
  <2>1. pc = "apply" /\ pc' = "apply" /\ disk' = disk /\ next <= Height[block]
    BY <1>9 DEF ApplyBlock
  <2>2. Reported(lastest_coin_state, coin_record, disk.coin_record)
    BY <2>1 DEF ReportInv
  <2>3. PICK b : b = Chain[block][next]
    OBVIOUS
  <2>4. \A c \in Removals[b] : c \in Adds(b) \/ coin_record[c] # NoRecord
    BY <2>1, <2>3, ReorgRows DEF ReorgNeverFails
  <2>5. b \in Block /\ Height[b] \in Heights
    <3>1. b \in full_blocks
      BY <2>1, <2>3, ReorgRows DEF ReorgNeverFails
    <3>2. b \in Block
      BY <3>1, DiskType DEF Inv
    <3> QED BY <3>2, TreeAssumption DEF TreeAssumption
  <2>6. ApplyToCoinStore(b)
    BY <1>9, <2>3 DEF ApplyBlock
  <2>7. CASE ~ IsTx[b]
    BY <2>1, <2>2, <2>6, <2>7, Zenon DEF ApplyToCoinStore, ReportInv
  <2>8. CASE IsTx[b]
    <3>1. PICK adds, removals, h : adds = Adds(b) /\ removals = Removals[b] /\ h = Height[b]
      OBVIOUS
    <3>2. /\ coin_record' = NewBlock(coin_record, adds, removals, h)
          /\ lastest_coin_state' = Report(NewBlock(coin_record, adds, removals, h), adds \cup removals)
      BY <2>6, <2>8, <3>1, Zenon DEF ApplyToCoinStore
    <3>3. \A c \in removals : c \in adds \/ coin_record[c] # NoRecord
      BY <2>4, <3>1
    <3>4. \A c \in Coin : c \in adds \cup removals => NewBlock(coin_record, adds, removals, h)[c] # NoRecord
      BY <1>1, <2>5, <3>1, <3>3, NewRows, Zenon
    <3>5. PICK u : u = lastest_coin_state'
      OBVIOUS
    <3>6. \A c \in Coin : u[c] = IF c \in adds \cup removals THEN NewBlock(coin_record, adds, removals, h)[c] ELSE lastest_coin_state[c]
      BY <3>2, <3>5, Zenon DEF Report
    <3>7. PICK s, t, d : s = lastest_coin_state /\ t = coin_record /\ d = disk.coin_record
      OBVIOUS
    <3>8. Reported(s, t, d)
      BY <2>2, <3>7
    <3>9. Reported(u, NewBlock(t, adds, removals, h), d)
      BY <3>3, <3>4, <3>6, <3>7, <3>8, NewBlockReported, Zenon
    <3> QED BY <2>1, <3>2, <3>5, <3>7, <3>9 DEF ReportInv
  <2> QED BY <2>7, <2>8
<1>10. CASE UNCHANGED vars
  BY <1>2, <1>10 DEF vars, db
<1>11. ASSUME NEW b \in Block, NEW given, NEW f, RejectBlock(b, given, f) PROVE ReportInv'
  BY <1>2, <1>11 DEF RejectBlock, db
<1>12. ASSUME NEW c \in Coin, ReadCoin(c) \/ EvictCoin(c) PROVE ReportInv'
  BY <1>2, <1>12 DEF ReadCoin, EvictCoin, db
<1>13. ASSUME clean_block_records \/ \E f \in Heights : warmup(f) PROVE ReportInv'
  BY <1>2, <1>13 DEF clean_block_records, warmup, db
<1> QED BY <1>3, <1>4, <1>5, <1>6, <1>7, <1>8, <1>9, <1>10, <1>11, <1>12, <1>13 DEF Next, ReceiveBlock

\* The coin records that receive_block hands to the mempool and to the wallets with a new
\* peak are the rows of the new table, through rollbacks and the blocks applied after
\* them; a changed coin that is not among them has been made unspent again.
THEOREM Spec_ReportAgrees == Spec => []ReportAgrees
<1>1. Init => ReportInv
  BY DEF Init, ReportInv
<1>2. Inv /\ Inv' /\ ReportInv /\ [Next]_vars => ReportInv'
  BY ReportStep
<1>3. ReportInv => ReportAgrees
  BY DEF ReportInv, Reported, ReportAgrees
<1> QED BY <1>1, <1>2, <1>3, InvAlways, PTL DEF Spec
=============================================================================
