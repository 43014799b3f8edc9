--------------------------- MODULE CoinSetProofs ----------------------------
(***************************************************************************)
(* Facts about chains of blocks and the coins on them, what the operations *)
(* of the coin store do to the coin set of a chain, and what check 15 of   *)
(* validate_block_body establishes.                                        *)
(***************************************************************************)
EXTENDS Blockchain, TLAPS

\* The provers of a step that names none, and the seconds they may take.
USE ZenonT(2), SMTT(30)

-----------------------------------------------------------------------------
(* Chains *)

\* The height of a block, and its place on its own chain.
LEMMA HeightType ==
  ASSUME NEW b \in Block
  PROVE  /\ Height[b] \in Heights
         /\ Height[b] \in Nat
         /\ MaxHeight \in Nat
         /\ Chain[b][Height[b]] = b
  BY TreeAssumption DEF TreeAssumption, Heights

\* The blocks of a chain are at their heights, and share its lower part.
LEMMA ChainInBlock ==
  ASSUME NEW b \in Block, NEW h \in 0 .. Height[b]
  PROVE  /\ Chain[b][h] \in Block
         /\ Height[Chain[b][h]] = h
         /\ \A k \in 0 .. h : Chain[Chain[b][h]][k] = Chain[b][k]
  BY TreeAssumption DEF TreeAssumption

\* The parent is one lower and has the same chain below.
LEMMA PrevFacts ==
  ASSUME NEW b \in Block, Height[b] > 0
  PROVE  /\ Prev(b) \in Block
         /\ Height[Prev(b)] = Height[b] - 1
         /\ \A k \in 0 .. Height[b] - 1 : Chain[Prev(b)][k] = Chain[b][k]
<1>1. Height[b] \in Nat /\ Height[b] - 1 \in 0 .. Height[b]
  BY HeightType
<1>2. Prev(b) = Chain[b][Height[b] - 1]
  BY <1>1 DEF Prev
<1> QED
  BY <1>1, <1>2, ChainInBlock

\* Two chains that share the block at a height share all blocks below it.
LEMMA CommonPrefix ==
  ASSUME NEW a \in Block, NEW b \in Block, NEW f, CommonUpTo(a, b, f)
  PROVE  \A h \in 0 .. f : Chain[a][h] = Chain[b][h]
<1>1. f \in -1 .. MaxHeight /\ f <= Height[a] /\ f <= Height[b] /\ MaxHeight \in Nat
  BY HeightType DEF CommonUpTo
<1> SUFFICES ASSUME NEW h \in 0 .. f PROVE Chain[a][h] = Chain[b][h]
  OBVIOUS
<1>2. f \in 0 .. Height[a] /\ f \in 0 .. Height[b]
  BY <1>1, HeightType
<1>3. Chain[a][f] = Chain[b][f]
  BY <1>1, <1>2 DEF CommonUpTo
<1> QED
  BY <1>2, <1>3, ChainInBlock

-----------------------------------------------------------------------------
(* Reward coins *)

\* What a claim of height k by the block at height h of b's chain means in
\* terms of that chain.
LEMMA ClaimMeaning ==
  ASSUME NEW b \in Block, NEW h \in 0 .. Height[b], NEW k \in ClaimHeights(Chain[b][h])
  PROVE  /\ k \in 0 .. h - 1
         /\ \E p \in k .. h - 1 :
               /\ IsTx[Chain[b][p]]
               /\ \A j \in p + 1 .. h - 1 : ~ IsTx[Chain[b][j]]
               /\ \A j \in k .. p - 1 : ~ IsTx[Chain[b][j]]
<1> DEFINE B == Chain[b][h]
<1>1. /\ B \in Block
      /\ Height[B] = h
      /\ \A j \in 0 .. h : Chain[B][j] = Chain[b][j]
  BY ChainInBlock
<1>2. Height[b] \in Nat
  BY HeightType
<1> HIDE DEF B
<1>3. k \in 0 .. h - 1
  BY <1>1 DEF ClaimHeights, B
<1>4. PICK p \in k .. h - 1 :
        /\ IsTx[Chain[B][p]]
        /\ \A j \in p + 1 .. h - 1 : ~ IsTx[Chain[B][j]]
        /\ \A j \in k .. p - 1 : ~ IsTx[Chain[B][j]]
  BY <1>1 DEF ClaimHeights, B
<1>5. \A j \in k .. h - 1 : Chain[B][j] = Chain[b][j]
  BY <1>1, <1>2, <1>3
<1>6. /\ \A j \in p + 1 .. h - 1 : j \in k .. h - 1
      /\ \A j \in k .. p - 1 : j \in k .. h - 1
  BY <1>2, <1>3
<1> QED
  BY <1>3, <1>4, <1>5, <1>6

\* A height's rewards are claimed by one transaction block of a chain only.
LEMMA ClaimedOnce ==
  ASSUME NEW b \in Block, NEW h1 \in 0 .. Height[b], NEW h2 \in 0 .. Height[b],
         IsTx[Chain[b][h1]], IsTx[Chain[b][h2]],
         NEW k, k \in ClaimHeights(Chain[b][h1]), k \in ClaimHeights(Chain[b][h2])
  PROVE  h1 = h2
<1>1. PICK p1 \in k .. h1 - 1 :
        /\ IsTx[Chain[b][p1]]
        /\ \A j \in p1 + 1 .. h1 - 1 : ~ IsTx[Chain[b][j]]
        /\ \A j \in k .. p1 - 1 : ~ IsTx[Chain[b][j]]
  BY ClaimMeaning
<1>2. PICK p2 \in k .. h2 - 1 :
        /\ IsTx[Chain[b][p2]]
        /\ \A j \in p2 + 1 .. h2 - 1 : ~ IsTx[Chain[b][j]]
        /\ \A j \in k .. p2 - 1 : ~ IsTx[Chain[b][j]]
  BY ClaimMeaning
<1>3. k \in Nat /\ h1 \in Nat /\ h2 \in Nat
  <2>1. k \in 0 .. h1 - 1
    BY ClaimMeaning
  <2> QED
    BY <2>1, HeightType
<1>4. p1 = p2
  <2>1. ~ (p1 < p2)
    <3>1. p1 < p2 => p1 \in k .. p2 - 1
      BY <1>3
    <3> QED
      BY <3>1, <1>1, <1>2
  <2>2. ~ (p2 < p1)
    <3>1. p2 < p1 => p2 \in k .. p1 - 1
      BY <1>3
    <3> QED
      BY <3>1, <1>1, <1>2
  <2> QED
    BY <1>3, <2>1, <2>2
<1>5. ~ (h1 < h2)
  <2>1. h1 < h2 => h1 \in p2 + 1 .. h2 - 1
    BY <1>3, <1>4
  <2> QED
    BY <2>1, <1>2
<1>6. ~ (h2 < h1)
  <2>1. h2 < h1 => h2 \in p1 + 1 .. h1 - 1
    BY <1>3, <1>4
  <2> QED
    BY <2>1, <1>1
<1> QED
  BY <1>3, <1>5, <1>6

\* Every block of the chain of b claims the rewards due to it.
ChainClaimed(b) == \A h \in 0 .. Height[b] : RewardsClaimed(Chain[b][h])

\* A reward coin is created once on a chain, and never by a spend.
LEMMA RewardOnce ==
  ASSUME NEW b \in Block, ChainClaimed(b),
         NEW h1 \in 0 .. Height[b], NEW h2 \in 0 .. Height[b],
         NEW c, c \in Claims[Chain[b][h1]], c \in Adds(Chain[b][h2])
  PROVE  h1 = h2
<1> DEFINE B1 == Chain[b][h1]
           B2 == Chain[b][h2]
<1>1. B1 \in Block /\ B2 \in Block /\ Height[B1] = h1 /\ Height[B2] = h2
  BY ChainInBlock
<1>2. RewardsClaimed(B1) /\ RewardsClaimed(B2)
  BY DEF ChainClaimed
<1>3. c \in ExpectedRewards(B1) /\ IsTx[B1]
  BY <1>2 DEF RewardsClaimed, Adds
<1>4. PICK k1 \in ClaimHeights(B1) : c = Reward[Chain[B1][k1]]
  BY <1>3 DEF ExpectedRewards
<1>5. k1 \in 0 .. h1 /\ h1 \in Nat
  <2>1. k1 \in 0 .. h1 - 1
    BY <1>4, ClaimMeaning, Zenon
  <2>2. Height[b] \in Nat
    BY HeightType, Zenon
  <2> QED
    BY <2>1, <2>2
<1>6. Chain[B1][k1] \in Block /\ Height[Chain[B1][k1]] = k1
  BY <1>1, <1>5, ChainInBlock
<1>7. Parent[c] = NoCoin
  BY <1>4, <1>6, CoinAssumption DEF CoinAssumption
<1>8. c \notin Additions[B2]
  <2>1. \A d \in Additions[B2] : Parent[d] \in Coin
    BY <1>1, CoinAssumption DEF CoinAssumption
  <2> QED
    BY <1>7, <2>1, CoinAssumption DEF CoinAssumption
<1>9. c \in ExpectedRewards(B2) /\ IsTx[B2]
  BY <1>2, <1>8 DEF RewardsClaimed, Adds
<1>10. PICK k2 \in ClaimHeights(B2) : c = Reward[Chain[B2][k2]]
  BY <1>9 DEF ExpectedRewards
<1>11. k2 \in 0 .. h2 /\ h2 \in Nat
  <2>1. k2 \in 0 .. h2 - 1
    BY <1>10, ClaimMeaning, Zenon
  <2>2. Height[b] \in Nat
    BY HeightType, Zenon
  <2> QED
    BY <2>1, <2>2
<1>12. Chain[B2][k2] \in Block /\ Height[Chain[B2][k2]] = k2
  BY <1>1, <1>11, ChainInBlock
<1>13. k1 = k2
  <2>1. \A x, y \in Block : Reward[x] = Reward[y] => Height[x] = Height[y]
    BY CoinAssumption DEF CoinAssumption
  <2> QED
    BY <1>4, <1>6, <1>10, <1>12, <2>1, ZenonT(40)
<1> QED
  BY <1>3, <1>4, <1>9, <1>10, <1>13, ClaimedOnce

\* On a chain whose spends are sound every coin is created at one height only.
LEMMA CreatedOnce ==
  ASSUME NEW b \in Block, ChainClaimed(b), SpendsAreSound(b),
         NEW h1 \in 0 .. Height[b], NEW h2 \in 0 .. Height[b],
         NEW c, c \in Adds(Chain[b][h1]), c \in Adds(Chain[b][h2])
  PROVE  h1 = h2
<1>1. CASE c \in Claims[Chain[b][h1]] \/ c \in Claims[Chain[b][h2]]
  BY <1>1, RewardOnce
<1>2. CASE c \in Additions[Chain[b][h1]] /\ c \in Additions[Chain[b][h2]]
  <2>1. Chain[b][h1] \in Block /\ Chain[b][h2] \in Block /\ Height[b] \in Nat
    BY ChainInBlock, HeightType
  <2>2. Parent[c] \in Removals[Chain[b][h1]] /\ Parent[c] \in Removals[Chain[b][h2]]
    BY <1>2, <2>1, CoinAssumption DEF CoinAssumption
  <2>3. ~ (h1 < h2)
    <3>1. h1 < h2 => h1 \in 0 .. h2 - 1
      BY <2>1
    <3> QED
      BY <3>1, <2>2 DEF SpendsAreSound
  <2>4. ~ (h2 < h1)
    <3>1. h2 < h1 => h2 \in 0 .. h1 - 1
      BY <2>1
    <3> QED
      BY <3>1, <2>2 DEF SpendsAreSound
  <2> QED
    BY <2>1, <2>3, <2>4
<1> QED
  BY <1>1, <1>2 DEF Adds

\* On a sound chain every coin is spent at one height at most.
LEMMA SpentOnce ==
  ASSUME NEW b \in Block, SpendsAreSound(b),
         NEW h1 \in 0 .. Height[b], NEW h2 \in 0 .. Height[b],
         NEW c, c \in Removals[Chain[b][h1]], c \in Removals[Chain[b][h2]]
  PROVE  h1 = h2
<1>1. h1 \in Nat /\ h2 \in Nat
  BY HeightType
<1>2. h1 < h2 => h1 \in 0 .. h2 - 1
  BY <1>1
<1>3. h2 < h1 => h2 \in 0 .. h1 - 1
  BY <1>1
<1>4. ~ (h1 < h2) /\ ~ (h2 < h1)
  BY <1>2, <1>3 DEF SpendsAreSound
<1> QED
  BY <1>1, <1>4

-----------------------------------------------------------------------------
(* The operators map tables to tables *)

\* The row of a new coin,
LEMMA NewRecordType ==
  ASSUME NEW h \in Heights
  PROVE  /\ NewRecord(h) \in CoinRecord
         /\ NewRecord(h).confirmed_index = h
         /\ NewRecord(h).spent_index = 0
         /\ NewRecord(h).spent = FALSE
<1>1. 0 \in Heights
  BY TreeAssumption DEF TreeAssumption, Heights
<1> QED
  BY <1>1 DEF NewRecord, CoinRecord

\* of a coin that is spent,
LEMMA SpentType ==
  ASSUME NEW r \in CoinRecord, NEW h \in Heights
  PROVE  /\ Spent(r, h) \in CoinRecord
         /\ Spent(r, h).confirmed_index = r.confirmed_index
         /\ Spent(r, h).spent_index = h
         /\ Spent(r, h).spent = TRUE
  BY Zenon DEF Spent, CoinRecord

\* and of one that is made unspent again.
LEMMA UnspentType ==
  ASSUME NEW r \in CoinRecord
  PROVE  /\ Unspent(r) \in CoinRecord
         /\ Unspent(r).confirmed_index = r.confirmed_index
         /\ Unspent(r).spent_index = 0
         /\ Unspent(r).spent = FALSE
<1>1. 0 \in Heights
  BY TreeAssumption DEF TreeAssumption, Heights
<1> QED
  BY <1>1, Zenon DEF Unspent, CoinRecord

\* The rows of a table.
LEMMA TableEntry ==
  ASSUME NEW t \in Table, NEW c \in Coin, t[c] # NoRecord
  PROVE  /\ t[c] \in CoinRecord
         /\ t[c].confirmed_index \in Heights
         /\ t[c].spent_index \in Heights
         /\ t[c].spent \in BOOLEAN
  BY DEF Table, CoinRecord

\* Adding coins,
LEMMA AddType ==
  ASSUME NEW t \in Table, NEW adds, NEW h \in Heights
  PROVE  AddCoinRecords(t, adds, h) \in Table
  BY Zenon, NewRecordType DEF AddCoinRecords, Table

\* a block,
LEMMA NewBlockType ==
  ASSUME NEW t \in Table, NEW adds, NEW removals, NEW h \in Heights
  PROVE  NewBlock(t, adds, removals, h) \in Table
<1>1. ASSUME NEW u \in Table PROVE SetSpent(u, removals, h) \in Table
  <2> SUFFICES ASSUME NEW c \in Coin, c \in removals, u[c] # NoRecord
               PROVE  Spent(u[c], h) \in CoinRecord \cup {NoRecord}
    BY DEF SetSpent, Table
  <2> QED
    BY TableEntry, SpentType, Zenon
<1> QED
  BY <1>1, AddType DEF NewBlock

\* rolling back,
LEMMA RollbackType ==
  ASSUME NEW t \in Table, NEW h
  PROVE  RollbackToBlock(t, h) \in Table /\ RollbackCache(t, h) \in Table
<1>1. \A c \in Coin : t[c] # NoRecord => Unspent(t[c]) \in CoinRecord
  BY UnspentType, TableEntry, Zenon
<1>2. RollbackToBlock(t, h) \in Table
  BY <1>1 DEF RollbackToBlock, Table
<1>3. RollbackCache(t, h) \in Table
  BY <1>1 DEF RollbackCache, Table
<1> QED
  BY <1>2, <1>3

\* and reading through the cache give tables again.
LEMMA CacheReadsType ==
  ASSUME NEW t \in Table, NEW m \in Table, NEW S
  PROVE  CacheAfterReads(t, m, S) \in Table
  BY DEF CacheAfterReads, GetCoinRecord, Table

-----------------------------------------------------------------------------
(* The cache agrees with the table *)

Coherent(m, t) == \A c \in Coin : m[c] \in {NoRecord, t[c]}

\* What is read through the cache agrees with the table;
LEMMA CoherentReads ==
  ASSUME NEW t \in Table, NEW m \in Table, NEW S, Coherent(m, t)
  PROVE  Coherent(CacheAfterReads(t, m, S), t)
  BY DEF Coherent, CacheAfterReads, GetCoinRecord

\* a block that is applied to both,
LEMMA CoherentNewBlock ==
  ASSUME NEW t \in Table, NEW m \in Table, NEW adds, NEW removals, NEW h, Coherent(m, t)
  PROVE  Coherent(NewBlock(m, adds, removals, h), NewBlock(t, adds, removals, h))
  BY DEF Coherent, NewBlock, SetSpent, AddCoinRecords

\* and a rollback of both, keeps them in agreement.
LEMMA CoherentRollback ==
  ASSUME NEW t \in Table, NEW m \in Table, NEW h, Coherent(m, t)
  PROVE  Coherent(RollbackCache(m, h), RollbackToBlock(t, h))
  BY DEF Coherent, RollbackCache, RollbackToBlock

-----------------------------------------------------------------------------
(* The coin set of a chain *)

\* IsCoinSet for one coin, as its three cases.
EntryOk(r, c, b, k) ==
    IF r = NoRecord
       THEN \A h \in 0 .. k : c \notin Adds(Chain[b][h])
       ELSE /\ r.confirmed_index <= k
            /\ c \in Adds(Chain[b][r.confirmed_index])
            /\ IF r.spent
                  THEN /\ r.spent_index <= k
                       /\ c \in Removals[Chain[b][r.spent_index]]
                  ELSE /\ r.spent_index = 0
                       /\ \A h \in 0 .. k : c \notin Removals[Chain[b][h]]

\* A table is the coin set of a chain if each of its rows is.
LEMMA CoinSetEntries ==
  ASSUME NEW t, NEW b, NEW k
  PROVE  IsCoinSet(t, b, k) <=> \A c \in Coin : EntryOk(t[c], c, b, k)
  BY DEF IsCoinSet, EntryOk

\* Before any block there are no coins.
LEMMA EmptyCoinSet == \A b : IsCoinSet(NoTable, b, -1)
  BY DEF IsCoinSet, NoTable

\* Chains that agree up to a height have the same coin set there.
LEMMA CoinSetTransfer ==
  ASSUME NEW t \in Table, NEW a \in Block, NEW b \in Block, NEW f \in Int,
         \A h \in 0 .. f : Chain[a][h] = Chain[b][h],
         IsCoinSet(t, a, f)
  PROVE  IsCoinSet(t, b, f)
<1> SUFFICES ASSUME NEW c \in Coin PROVE EntryOk(t[c], c, b, f)
  BY CoinSetEntries
<1>1. EntryOk(t[c], c, a, f)
  BY CoinSetEntries
<1>2. CASE t[c] = NoRecord
  BY <1>1, <1>2 DEF EntryOk
<1>3. CASE t[c] # NoRecord
  <2>1. t[c].confirmed_index \in Nat /\ t[c].spent_index \in Nat
    BY <1>3, TableEntry DEF Heights
  <2>2. t[c].confirmed_index \in 0 .. f
    BY <1>1, <1>3, <2>1 DEF EntryOk
  <2>3. t[c].spent => t[c].spent_index \in 0 .. f
    BY <1>1, <1>3, <2>1 DEF EntryOk
  <2> QED
    BY <1>1, <1>3, <2>2, <2>3 DEF EntryOk
<1> QED
  BY <1>2, <1>3

\* rollback_to_block(f) takes the coin set of a peak's chain to the coin set of
\* its part up to f.
LEMMA RollbackCoinSet ==
  ASSUME NEW t \in Table, NEW p \in Block, NEW f \in -1 .. MaxHeight, f <= Height[p],
         ChainClaimed(p), SpendsAreSound(p), IsCoinSet(t, p, Height[p])
  PROVE  IsCoinSet(RollbackToBlock(t, f), p, f)
<1> DEFINE u == RollbackToBlock(t, f)
<1> SUFFICES ASSUME NEW c \in Coin PROVE EntryOk(u[c], c, p, f)
  BY CoinSetEntries
<1>0. Height[p] \in Nat /\ f \in Int /\ f >= -1
  BY HeightType
<1>1. EntryOk(t[c], c, p, Height[p])
  BY CoinSetEntries
<1>2. u[c] = IF t[c] = NoRecord THEN NoRecord
             ELSE IF t[c].confirmed_index > f THEN NoRecord
             ELSE IF t[c].spent_index > f THEN Unspent(t[c])
             ELSE t[c]
  BY DEF RollbackToBlock
<1> HIDE DEF u
<1>3. CASE t[c] = NoRecord
  BY <1>0, <1>1, <1>2, <1>3 DEF EntryOk
<1>4. CASE t[c] # NoRecord
  <2>1. /\ t[c] \in CoinRecord
        /\ t[c].confirmed_index \in 0 .. Height[p]
        /\ t[c].spent_index \in Nat
        /\ t[c].spent \in BOOLEAN
        /\ c \in Adds(Chain[p][t[c].confirmed_index])
    BY <1>0, <1>1, <1>4, TableEntry DEF EntryOk, Heights
  <2>2. CASE t[c].confirmed_index > f
    <3>1. ASSUME NEW h \in 0 .. f, c \in Adds(Chain[p][h]) PROVE FALSE
      <4>1. h \in 0 .. Height[p]
        BY <1>0
      <4>2. h = t[c].confirmed_index
        BY <2>1, <3>1, <4>1, CreatedOnce
      <4> QED
        BY <1>0, <2>1, <2>2, <4>2
    <3> QED
      BY <1>2, <1>4, <2>2, <3>1 DEF EntryOk
  <2>3. CASE ~ (t[c].confirmed_index > f) /\ t[c].spent_index > f
    <3>1. u[c] = Unspent(t[c]) /\ u[c] # NoRecord
      BY Zenon, <1>2, <1>4, <2>1, <2>3, UnspentType, RecordAssumption DEF RecordAssumption
    <3>2. /\ u[c].confirmed_index = t[c].confirmed_index
          /\ u[c].spent_index = 0
          /\ u[c].spent = FALSE
      BY <2>1, <3>1, UnspentType, ZenonT(40)
    <3>3. t[c].spent
      BY <1>0, <1>1, <1>4, <2>1, <2>3 DEF EntryOk
    <3>4. /\ t[c].spent_index \in 0 .. Height[p]
          /\ c \in Removals[Chain[p][t[c].spent_index]]
      BY <1>0, <1>1, <1>4, <2>1, <3>3 DEF EntryOk
    <3>5. ASSUME NEW h \in 0 .. f, c \in Removals[Chain[p][h]] PROVE FALSE
      <4>1. h \in 0 .. Height[p]
        BY <1>0
      <4>2. h = t[c].spent_index
        BY <3>4, <3>5, <4>1, SpentOnce
      <4> QED
        BY <1>0, <2>1, <2>3, <4>2
    <3> QED
      BY <1>0, <2>1, <2>3, <3>1, <3>2, <3>5 DEF EntryOk
  <2>4. CASE ~ (t[c].confirmed_index > f) /\ ~ (t[c].spent_index > f)
    <3>1. u[c] = t[c]
      BY <1>2, <1>4, <2>4
    <3>2. t[c].confirmed_index <= f /\ t[c].spent_index <= f
      BY <1>0, <2>1, <2>4
    <3>3. \A h \in 0 .. f : h \in 0 .. Height[p]
      BY <1>0
    <3> QED
      BY <1>1, <1>4, <2>1, <3>1, <3>2, <3>3 DEF EntryOk
  <2> QED
    BY <2>2, <2>3, <2>4
<1> QED
  BY <1>3, <1>4

\* new_block takes the coin set up to height k - 1 to the coin set up to k.
LEMMA NewBlockCoinSet ==
  ASSUME NEW t \in Table, NEW b \in Block, NEW k \in 0 .. Height[b],
         ChainClaimed(b), SpendsAreSound(b), IsCoinSet(t, b, k - 1)
  PROVE  IsCoinSet(NewBlock(t, Adds(Chain[b][k]), Removals[Chain[b][k]], k), b, k)
<1> DEFINE B == Chain[b][k]
           a == AddCoinRecords(t, Adds(B), k)
           u == NewBlock(t, Adds(B), Removals[B], k)
<1> SUFFICES ASSUME NEW c \in Coin PROVE EntryOk(u[c], c, b, k)
  BY CoinSetEntries
<1>0. Height[b] \in Nat /\ k \in Heights /\ k \in Nat
  BY HeightType DEF Heights
<1>1. EntryOk(t[c], c, b, k - 1)
  BY CoinSetEntries
<1>2. a[c] = IF c \in Adds(B) THEN NewRecord(k) ELSE t[c]
  BY DEF AddCoinRecords
<1>3. u[c] = IF c \in Removals[B] /\ a[c] # NoRecord THEN Spent(a[c], k) ELSE a[c]
  BY DEF NewBlock, SetSpent
<1> HIDE DEF a, u
<1>4. CASE c \in Adds(B)
  <2>1. a[c] = NewRecord(k) /\ a[c] \in CoinRecord /\ a[c] # NoRecord
    BY Zenon, <1>0, <1>2, <1>4, NewRecordType, RecordAssumption DEF RecordAssumption
  <2>2. CASE c \in Removals[B]
    <3>1. u[c] = Spent(a[c], k) /\ u[c] \in CoinRecord /\ u[c] # NoRecord
      <4>1. u[c] = Spent(a[c], k)
        BY <1>3, <2>1, <2>2, Zenon
      <4>2. Spent(a[c], k) \in CoinRecord
        BY <1>0, <2>1, SpentType, Zenon
      <4> QED
        BY <4>1, <4>2, RecordAssumption, Zenon DEF RecordAssumption
    <3>a. /\ Spent(a[c], k).confirmed_index = a[c].confirmed_index
          /\ Spent(a[c], k).spent_index = k
          /\ Spent(a[c], k).spent = TRUE
      BY Zenon, <1>0, <2>1, SpentType
    <3>b. a[c].confirmed_index = k
      BY Zenon, <1>0, <2>1, NewRecordType
    <3>2. u[c].confirmed_index = k /\ u[c].spent_index = k /\ u[c].spent = TRUE
      BY <3>1, <3>a, <3>b
    <3> QED
      BY <1>0, <1>4, <2>2, <3>1, <3>2 DEF EntryOk
  <2>3. CASE c \notin Removals[B]
    <3>1. u[c] = NewRecord(k) /\ u[c] # NoRecord
      BY <1>3, <2>1, <2>3
    <3>2. u[c].confirmed_index = k /\ u[c].spent_index = 0 /\ u[c].spent = FALSE
      BY <1>0, <3>1, NewRecordType, Zenon
    <3>3. ASSUME NEW h \in 0 .. k, c \in Removals[Chain[b][h]] PROVE FALSE
      <4>1. h # k
        BY <2>3, <3>3
      <4>2. h \in 0 .. Height[b]
        BY <1>0
      <4>3. PICK j \in 0 .. h : c \in Adds(Chain[b][j])
        BY <3>3, <4>2 DEF SpendsAreSound
      <4>4. j \in 0 .. Height[b] /\ j < k
        BY <1>0, <4>1, <4>2
      <4>5. j = k
        BY <1>4, <4>3, <4>4, CreatedOnce
      <4> QED
        BY <1>0, <4>4, <4>5
    <3> QED
      BY <1>0, <1>4, <3>1, <3>2, <3>3 DEF EntryOk
  <2> QED
    BY <2>2, <2>3
<1>5. CASE c \notin Adds(B) /\ t[c] = NoRecord
  <2>1. u[c] = NoRecord
    BY <1>2, <1>3, <1>5
  <2>2. \A h \in 0 .. k : c \notin Adds(Chain[b][h])
    <3>1. \A h \in 0 .. k : h = k \/ h \in 0 .. k - 1
      BY <1>0
    <3> QED
      BY <1>1, <1>5, <3>1 DEF EntryOk
  <2> QED
    BY <2>1, <2>2 DEF EntryOk
<1>6. CASE c \notin Adds(B) /\ t[c] # NoRecord
  <2>1. /\ a[c] = t[c]
        /\ t[c] \in CoinRecord
        /\ t[c].confirmed_index \in Nat
        /\ t[c].spent_index \in Nat
        /\ t[c].spent \in BOOLEAN
    BY <1>2, <1>6, TableEntry DEF Heights
  <2>2. t[c].confirmed_index <= k - 1 /\ c \in Adds(Chain[b][t[c].confirmed_index])
    BY <1>1, <1>6 DEF EntryOk
  <2>3. CASE c \in Removals[B]
    <3>a. /\ Spent(t[c], k) \in CoinRecord
          /\ Spent(t[c], k).confirmed_index = t[c].confirmed_index
          /\ Spent(t[c], k).spent_index = k
          /\ Spent(t[c], k).spent = TRUE
      BY Zenon, <1>0, <2>1, SpentType
    <3>1. u[c] = Spent(t[c], k) /\ u[c] # NoRecord
      BY <1>3, <1>6, <2>1, <2>3, <3>a, RecordAssumption DEF RecordAssumption
    <3>2. /\ u[c].confirmed_index = t[c].confirmed_index
          /\ u[c].spent_index = k
          /\ u[c].spent = TRUE
      BY <3>1, <3>a
    <3> QED
      BY <1>0, <2>1, <2>2, <2>3, <3>1, <3>2 DEF EntryOk
  <2>4. CASE c \notin Removals[B]
    <3>1. u[c] = t[c]
      BY <1>3, <2>1, <2>4
    <3>2. \A h \in 0 .. k : h = k \/ h \in 0 .. k - 1
      BY <1>0
    <3>3. t[c].confirmed_index <= k
      BY <1>0, <2>1, <2>2
    <3>4. CASE t[c].spent
      <4>1. t[c].spent_index <= k /\ c \in Removals[Chain[b][t[c].spent_index]]
        BY <1>0, <1>1, <1>6, <2>1, <3>4 DEF EntryOk
      <4> QED
        BY <1>6, <2>2, <3>1, <3>3, <3>4, <4>1 DEF EntryOk
    <3>5. CASE ~ t[c].spent
      <4>1. t[c].spent_index = 0 /\ \A h \in 0 .. k : c \notin Removals[Chain[b][h]]
        BY <1>1, <1>6, <2>4, <3>2, <3>5 DEF EntryOk
      <4> QED
        BY <1>6, <2>2, <3>1, <3>3, <3>5, <4>1 DEF EntryOk
    <3> QED
      BY <3>4, <3>5
  <2> QED
    BY <2>3, <2>4
<1> QED
  BY <1>4, <1>5, <1>6

\* A block without transactions leaves the coin set as it is.
LEMMA EmptyBlockCoinSet ==
  ASSUME NEW t \in Table, NEW b \in Block, NEW k \in 0 .. Height[b],
         ChainClaimed(b), ~ IsTx[Chain[b][k]], IsCoinSet(t, b, k - 1)
  PROVE  IsCoinSet(t, b, k)
<1>1. Adds(Chain[b][k]) = {} /\ Removals[Chain[b][k]] = {}
  BY DEF ChainClaimed, RewardsClaimed
<1>2. k \in Nat /\ \A h \in 0 .. k : h = k \/ h \in 0 .. k - 1
  BY HeightType
<1> SUFFICES ASSUME NEW c \in Coin PROVE EntryOk(t[c], c, b, k)
  BY CoinSetEntries
<1>3. EntryOk(t[c], c, b, k - 1)
  BY CoinSetEntries
<1>4. CASE t[c] = NoRecord
  BY <1>1, <1>2, <1>3, <1>4 DEF EntryOk
<1>5. CASE t[c] # NoRecord
  <2>1. t[c].confirmed_index \in Nat /\ t[c].spent_index \in Nat
    BY <1>5, TableEntry DEF Heights
  <2> QED
    BY <1>1, <1>2, <1>3, <1>5, <2>1 DEF EntryOk
<1> QED
  BY <1>4, <1>5

-----------------------------------------------------------------------------
(* What check 15 of validate_block_body establishes *)

\* A coin that the block spends and does not create exists on the block's own
\* chain and is not spent there, although the coin store is the peak's.
LEMMA SpendOkSound ==
  ASSUME NEW b \in Block, Height[b] > 0, NEW p \in Block, NEW f,
         CommonUpTo(p, Prev(b), f),
         SpendsAreSound(p), SpendsAreSound(Prev(b)), ChainClaimed(Prev(b)),
         coin_record \in Table, IsCoinSet(coin_record, p, Height[p]), CacheCoherent,
         NEW c \in Coin, SpendOk(b, f, c)
  PROVE  /\ \E k \in 0 .. Height[b] - 1 : c \in Adds(Chain[b][k])
         /\ \A k \in 0 .. Height[b] - 1 : c \notin Removals[Chain[b][k]]
<1> DEFINE q == Prev(b)
           r == coin_record[c]
           n == Height[b] - 1
<1>0. /\ q \in Block /\ Height[q] = n
      /\ \A k \in 0 .. n : Chain[q][k] = Chain[b][k]
      /\ n \in Nat
  BY PrevFacts, HeightType
<1>1. GetCoinRecord(coin_record, coin_record_cache, c) = r
  BY DEF CacheCoherent, GetCoinRecord
<1>2. /\ IF r # NoRecord /\ r.confirmed_index <= f
            THEN ~ (r.spent /\ r.spent_index <= f)
            ELSE c \in additions_since_fork(b, f)
      /\ c \notin removals_since_fork(b, f)
  BY <1>1 DEF SpendOk
<1>3. /\ f \in Int /\ f >= -1 /\ f <= n /\ f <= Height[p] /\ Height[p] \in Nat
      /\ \A k \in 0 .. f : Chain[p][k] = Chain[q][k]
  BY <1>0, HeightType, CommonPrefix DEF CommonUpTo
<1>4. \A k \in f + 1 .. n : c \notin Removals[Chain[b][k]]
  BY <1>2 DEF removals_since_fork
<1>5. \A k \in 0 .. n : k \in 0 .. f \/ k \in f + 1 .. n
  BY <1>0, <1>3
<1>6. EntryOk(r, c, p, Height[p])
  BY CoinSetEntries
<1> HIDE DEF q, r, n
<1>7. CASE r # NoRecord /\ r.confirmed_index <= f
  <2>1. r.confirmed_index \in Nat /\ r.spent_index \in Nat /\ r.spent \in BOOLEAN
    BY <1>7, TableEntry DEF r, Heights
  <2>2. r.confirmed_index \in 0 .. f /\ r.confirmed_index \in 0 .. n
    BY <1>0, <1>3, <1>7, <2>1
  <2>3. c \in Adds(Chain[b][r.confirmed_index])
    BY <1>0, <1>3, <1>6, <1>7, <2>2 DEF EntryOk
  <2>4. ASSUME NEW k \in 0 .. f, c \in Removals[Chain[b][k]] PROVE FALSE
    <3>1. k \in 0 .. Height[p] /\ k \in 0 .. n /\ k \in Nat
      BY <1>0, <1>3
    <3>2. c \in Removals[Chain[p][k]]
      BY <1>0, <1>3, <2>4, <3>1
    <3>3. r.spent /\ r.spent_index <= Height[p] /\ c \in Removals[Chain[p][r.spent_index]]
      BY <1>6, <1>7, <2>1, <3>1, <3>2 DEF EntryOk
    <3>4. r.spent_index = k
      <4>1. r.spent_index \in 0 .. Height[p]
        BY <1>3, <2>1, <3>3
      <4> QED
        BY <3>1, <3>2, <3>3, <4>1, SpentOnce
    <3> QED
      BY <1>2, <1>3, <1>7, <3>1, <3>3, <3>4
  <2> QED
    BY <1>4, <1>5, <2>2, <2>3, <2>4 DEF n
<1>8. CASE ~ (r # NoRecord /\ r.confirmed_index <= f)
  <2>1. PICK k \in f + 1 .. n : c \in Adds(Chain[b][k])
    BY <1>2, <1>8 DEF additions_since_fork, n
  <2>2. k \in 0 .. n /\ k \in Int
    BY <1>0, <1>3
  <2>3. ASSUME NEW h \in 0 .. f, c \in Removals[Chain[b][h]] PROVE FALSE
    <3>1. h \in 0 .. n /\ h \in Nat
      BY <1>0, <1>3
    <3>2. c \in Removals[Chain[q][h]]
      BY <1>0, <2>3, <3>1
    <3>3. PICK j \in 0 .. h : c \in Adds(Chain[q][j])
      BY <1>0, <3>1, <3>2 DEF SpendsAreSound, q
    <3>4. j \in 0 .. n /\ j <= f
      BY <1>0, <1>3, <3>1
    <3>5. c \in Adds(Chain[q][k])
      BY <1>0, <2>1, <2>2
    <3>6. j = k
      BY Zenon, <1>0, <2>2, <3>3, <3>4, <3>5, CreatedOnce DEF q
    <3> QED
      BY <1>3, <2>1, <2>2, <3>4, <3>6
  <2> QED
    BY <1>4, <1>5, <2>1, <2>2, <2>3 DEF n
<1> QED
  BY <1>7, <1>8

\* A block that passes check 15 spends soundly.
LEMMA ValidBodySound ==
  ASSUME NEW b \in Block, Height[b] > 0, NEW p \in Block, NEW f,
         CommonUpTo(p, Prev(b), f),
         SpendsAreSound(p), SpendsAreSound(Prev(b)), ChainClaimed(b),
         coin_record \in Table, IsCoinSet(coin_record, p, Height[p]), CacheCoherent,
         validate_block_body(b, f)
  PROVE  SpendsAreSound(b)
<1> DEFINE q == Prev(b)
           n == Height[b] - 1
<1>0. /\ q \in Block /\ Height[q] = n
      /\ \A k \in 0 .. n : Chain[q][k] = Chain[b][k]
      /\ n \in Nat
      /\ Height[b] \in Nat
      /\ Chain[b][Height[b]] = b
  BY PrevFacts, HeightType
<1>1. ChainClaimed(q)
  BY <1>0 DEF ChainClaimed
<1>2. Removals[b] \subseteq Coin /\ Additions[b] \subseteq Coin
  BY CoinAssumption DEF CoinAssumption
<1>3. ASSUME NEW h \in 0 .. n, NEW c \in Removals[Chain[b][h]]
      PROVE  /\ \E k \in 0 .. h : c \in Adds(Chain[b][k])
             /\ \A k \in 0 .. h - 1 : c \notin Removals[Chain[b][k]]
  <2>1. c \in Removals[Chain[q][h]] /\ h \in 0 .. Height[q]
    BY <1>0
  <2>2. /\ \E k \in 0 .. h : c \in Adds(Chain[q][k])
        /\ \A k \in 0 .. h - 1 : c \notin Removals[Chain[q][k]]
    BY <2>1 DEF SpendsAreSound
  <2>3. (\A k \in 0 .. h : k \in 0 .. n) /\ \A k \in 0 .. h - 1 : k \in 0 .. n
    BY <1>0
  <2> QED
    BY <1>0, <2>2, <2>3
<1>4. ASSUME NEW c \in Removals[b], c \notin Adds(b)
      PROVE  /\ \E k \in 0 .. n : c \in Adds(Chain[b][k])
             /\ \A k \in 0 .. n : c \notin Removals[Chain[b][k]]
  <2>1. SpendOk(b, f, c)
    BY <1>4 DEF validate_block_body, RewardsClaimed
  <2>2. c \in Coin
    BY <1>2
  <2> QED
    BY <1>1, <2>1, <2>2, SpendOkSound
<1>5. ASSUME NEW c \in Claims[b], NEW k \in 0 .. n PROVE c \notin Removals[Chain[b][k]]
  <2> SUFFICES ASSUME c \in Removals[Chain[b][k]] PROVE FALSE
    OBVIOUS
  <2>1. PICK j \in 0 .. k : c \in Adds(Chain[b][j])
    BY <1>3
  <2>2. j \in 0 .. Height[b] /\ Height[b] \in 0 .. Height[b] /\ j # Height[b]
    BY <1>0
  <2>3. Height[b] = j
    BY <1>0, <2>1, <2>2, RewardOnce, Zenon
  <2> QED
    BY <2>2, <2>3
<1>6. ASSUME NEW c \in Additions[b], NEW k \in 0 .. n PROVE c \notin Removals[Chain[b][k]]
  \* A coin created both here and before: follow its parents to a first one.
  <2> DEFINE T == {d \in Additions[b] : \E j \in 0 .. n : d \in Adds(Chain[b][j])}
  <2>1. T = {}
    <3> SUFFICES ASSUME T # {} PROVE FALSE
      OBVIOUS
    <3>1. T \subseteq Coin
      BY <1>2
    <3>2. PICK d \in T : Parent[d] \notin T
      BY Zenon, <3>1, CoinAssumption DEF CoinAssumption
    <3>3. PICK j \in 0 .. n : d \in Adds(Chain[b][j])
      BY <3>2
    <3>4. j \in 0 .. Height[b] /\ Height[b] \in 0 .. Height[b] /\ j # Height[b]
      BY <1>0
    <3>5. d \notin Claims[Chain[b][j]]
      <4>1. d \in Adds(Chain[b][Height[b]])
        BY <1>0, <3>2 DEF Adds
      <4> QED
        BY Zenon, <3>4, <4>1, RewardOnce
    <3>6. Parent[d] \in Removals[Chain[b][j]] /\ Parent[d] \in Removals[b]
      <4>1. Chain[b][j] \in Block /\ d \in Additions[Chain[b][j]] /\ d \in Additions[b]
        BY <3>2, <3>3, <3>4, <3>5, ChainInBlock DEF Adds
      <4> QED
        BY <4>1, CoinAssumption DEF CoinAssumption
    <3>7. Parent[d] \in Adds(b)
      BY <1>4, <3>6
    <3>8. Parent[d] \notin Claims[b]
      BY <1>5, <3>6
    <3>9. Parent[d] \in Additions[b]
      BY <3>7, <3>8 DEF Adds
    <3>10. \E i \in 0 .. n : Parent[d] \in Adds(Chain[b][i])
      <4>1. PICK i \in 0 .. j : Parent[d] \in Adds(Chain[b][i])
        BY <1>3, <3>6
      <4>2. i \in 0 .. n
        BY <1>0
      <4> QED
        BY <4>1, <4>2
    <3> QED
      BY <3>2, <3>9, <3>10
  <2>2. ASSUME c \in Removals[Chain[b][k]] PROVE FALSE
    <3>1. PICK j \in 0 .. k : c \in Adds(Chain[b][j])
      BY <1>3, <2>2
    <3>2. j \in 0 .. n
      BY <1>0
    <3> QED
      BY <2>1, <3>1, <3>2
  <2> QED
    BY <2>2
<1>7. ASSUME NEW c \in Removals[b]
      PROVE  /\ \E k \in 0 .. Height[b] : c \in Adds(Chain[b][k])
             /\ \A k \in 0 .. n : c \notin Removals[Chain[b][k]]
  <2>1. CASE c \in Adds(b)
    <3>1. Height[b] \in 0 .. Height[b]
      BY <1>0
    <3> QED
      BY <1>0, <1>5, <1>6, <2>1, <3>1 DEF Adds
  <2>2. CASE c \notin Adds(b)
    <3>1. \A k \in 0 .. n : k \in 0 .. Height[b]
      BY <1>0
    <3> QED
      BY <1>4, <2>2, <3>1
  <2> QED
    BY <2>1, <2>2
<1>8. \A h \in 0 .. Height[b] : h \in 0 .. n \/ h = Height[b]
  BY <1>0
<1> QED
  BY <1>0, <1>3, <1>7, <1>8 DEF SpendsAreSound

\* A block of height 0 spends only what it creates.
LEMMA ValidGenesisSound ==
  ASSUME NEW b \in Block, Height[b] = 0, coin_record \in Table, CacheCoherent,
         validate_block_body(b, -1)
  PROVE  SpendsAreSound(b)
<1>1. Chain[b][0] = b /\ Removals[b] \subseteq Coin
  BY HeightType, CoinAssumption DEF CoinAssumption
<1>2. ASSUME NEW c \in Removals[b] PROVE c \in Adds(b)
  <2> SUFFICES ASSUME c \notin Adds(b) PROVE FALSE
    OBVIOUS
  <2>1. SpendOk(b, -1, c)
    BY DEF validate_block_body, RewardsClaimed
  <2>2. additions_since_fork(b, -1) = {}
    BY DEF additions_since_fork
  <2>3. GetCoinRecord(coin_record, coin_record_cache, c) = coin_record[c]
    BY <1>1 DEF CacheCoherent, GetCoinRecord
  <2>4. coin_record[c] # NoRecord => ~ (coin_record[c].confirmed_index <= -1)
    BY <1>1, TableEntry DEF Heights
  <2> QED
    BY <2>1, <2>2, <2>3, <2>4 DEF SpendOk
<1> QED
  BY <1>1, <1>2 DEF SpendsAreSound
=============================================================================
