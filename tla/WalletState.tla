---------------------------- MODULE WalletState ----------------------------
(***************************************************************************)
(* The chain, the coins and the transactions of a wallet.  A block is      *)
(* added in a database transaction that holds the wallet's lock and that   *)
(* of the database; caches are rebuilt when it fails.  Blocks come from a  *)
(* short sync, from a batch of a wallet that is a little behind, or from   *)
(* a long sync.  Transactions are created, sent, confirmed by a block and  *)
(* pending again after a reorg, while answers of nodes arrive at any time. *)
(***************************************************************************)
EXTENDS Integers, Sequences, FiniteSets, SequencesExt, FiniteSetsExt

CONSTANTS
    Block, Genesis, Parent, Weight, \* the tree of blocks
    Coin, Tx, Rems, Change,         \* coins, transactions, what they spend and their change
    Income, Mined,                  \* the coins others send, the transactions, of a block
    Peer,                           \* full nodes
    Behind,                         \* short_sync_blocks_behind_threshold
    MaxSyncs, MaxAcks, MaxFaults    \* bounds on syncs, answers, failures and restarts

VARIABLES
    known,    \* block records, with the additions and removals found for each
    heights,  \* height_to_hash
    peakAt,   \* _peak_height
    dbPeak,   \* the block of the database that is_peak
    coinRecs, \* the coin store
    txCache,  \* tx_record_cache
    txRows,   \* the table of transactions
    job,      \* the sync that runs: its blocks, the fork point it was given
    adding,   \* the block that is added: what the filter found, whether the transaction is open
    lateAcks, \* writes of answers that wait for the lock of the database
    toSend,   \* a resend is due
    offered,  \* transactions sent to nodes that have not answered
    syncs, acks, walletFaults \* counts of syncs, answers (all, and late ones), faults

None == [conf |-> 0 - 1]
NoFork == 0 - 1
Unknown == [adds |-> {}, rems |-> {}, known |-> FALSE]
NoJob == [todo |-> <<>>, fork |-> NoFork, advanced |-> FALSE]
NoBlock == [block |-> Genesis, fork |-> NoFork, found |-> Unknown, stage |-> "idle"]

chainState == <<known, heights, peakAt, dbPeak>>
txState == <<txCache, txRows, lateAcks, toSend, offered>>
bounds == <<syncs, acks, walletFaults>>
walletVars == <<chainState, coinRecs, txState, job, adding, bounds>>

PathTo[b \in Block] == IF b = Genesis THEN <<b>> ELSE Append(PathTo[Parent[b]], b)
Height(b) == Len(PathTo[b]) - 1
MaxHeight == Max({Height(b) : b \in Block})
AtHeight(b, h) == PathTo[b][h + 1]

Adds(b) == Income[b] \cup {Change[t] : t \in Mined[b]}
Removes(b) == UNION {Rems[t] : t \in Mined[b]}

Init ==
    /\ known = [b \in Block |-> [Unknown EXCEPT !.known = (b = Genesis)]]
    /\ heights = [h \in 0..MaxHeight |-> IF h = 0 THEN <<Genesis>> ELSE <<>>]
    /\ peakAt = 0 /\ dbPeak = Genesis /\ coinRecs = [c \in Coin |-> None]
    /\ txCache = [t \in Tx |-> None] /\ txRows = txCache
    /\ job = NoJob /\ adding = NoBlock /\ lateAcks = <<>> /\ toSend = FALSE /\ offered = {}
    /\ syncs = 0 /\ acks = [all |-> 0, late |-> 0] /\ walletFaults = 0

-----------------------------------------------------------------------------
\* get_peak raises when height_to_hash has no block at the height of the peak.
Wedged == heights[peakAt] = <<>>
Peak == heights[peakAt][1]

\* find_fork_point_in_chain
Fork(a, b) == Max({h \in 0..Min({Height(a), Height(b)}) : AtHeight(a, h) = AtHeight(b, h)})

Pending(t) == t # None /\ t.conf = 0
Unsent == [conf |-> 0, sent |-> {}]

Unspent == {c \in Coin : coinRecs[c] # None /\ coinRecs[c].spent = 0}

\* get_spendable_coins_for_wallet: not removed by a transaction that is not confirmed.
Spendable == {c \in Unspent : \A t \in Tx : Pending(txCache[t]) => c \notin Rems[t]}

select_coins(t) == Rems[t] \subseteq Spendable

\* add_transaction_record, outside of a transaction that is open: both cache and table.
add_transaction_record(t, record) ==
    /\ txCache' = [txCache EXCEPT ![t] = record]
    /\ IF adding.stage = "open"
       THEN lateAcks' = Append(lateAcks, <<t, record>>) /\ UNCHANGED txRows
       ELSE txRows' = [txRows EXCEPT ![t] = record] /\ UNCHANGED lateAcks

add_pending_transaction(t) == add_transaction_record(t, Unsent) /\ toSend' = TRUE

\* send_transaction: with the wallet's lock, so that no block is being added, coins are
\* selected, and the transaction is signed and stored.
SendTransaction(t) ==
    /\ adding.stage # "open" /\ ~Wedged /\ txCache[t] = None
    /\ select_coins(t) /\ add_pending_transaction(t)
    /\ UNCHANGED <<chainState, coinRecs, offered, job, adding, bounds>>

rebuild_tx_cache == txCache' = txRows'

\* The RPC that deletes pending transactions: with both locks, then the cache is rebuilt.
DeleteUnconfirmed ==
    /\ adding.stage # "open" /\ lateAcks = <<>>
    /\ \E t \in Tx : Pending(txRows[t])
    /\ txRows' = [t \in Tx |-> IF Pending(txRows[t]) THEN None ELSE txRows[t]]
    /\ rebuild_tx_cache
    /\ UNCHANGED <<chainState, coinRecs, lateAcks, toSend, offered, job, adding, bounds>>

\* increment_sent: the cache is changed at once, the table when the lock of the database is
\* free, with the record as it was read.
increment_sent(t, n, accepted) ==
    add_transaction_record(t, [txCache[t] EXCEPT !.sent = IF accepted THEN @ \cup {n} ELSE @])

\* transaction_ack: a node has accepted the transaction or not.
Ack(t, n) ==
    /\ acks.all < MaxAcks /\ <<t, n>> \in offered /\ offered' = offered \ {<<t, n>>}
    /\ acks' = [all |-> acks.all + 1, late |-> acks.late + IF adding.stage = "open" THEN 1 ELSE 0]
    /\ IF txCache[t] = None THEN UNCHANGED <<txCache, txRows, lateAcks>>
       ELSE \E accepted \in BOOLEAN : increment_sent(t, n, accepted)
    /\ UNCHANGED <<chainState, coinRecs, toSend, job, adding, syncs, walletFaults>>

WriteAck ==
    /\ lateAcks # <<>> /\ adding.stage # "open"
    /\ txRows' = [txRows EXCEPT ![lateAcks[1][1]] = lateAcks[1][2]]
    /\ lateAcks' = Tail(lateAcks)
    /\ UNCHANGED <<chainState, coinRecs, txCache, toSend, offered, job, adding, bounds>>

\* get_not_sent: what the table has as pending.
NotSent == {t \in Tx : Pending(txRows[t])}

\* _resend_queue: sent to the nodes that have not accepted it.
Resend ==
    /\ toSend /\ toSend' = FALSE
    /\ offered' = offered \cup {<<t, n>> \in NotSent \X Peer : n \notin txRows[t].sent}
    /\ UNCHANGED <<chainState, coinRecs, txCache, txRows, lateAcks, job, adding, bounds>>

-----------------------------------------------------------------------------
\* wallet_short_sync_backtrack fetches the blocks back to a known one.
ShortSync(b) ==
    /\ Height(b) <= peakAt + Behind
    /\ job' = [NoJob EXCEPT !.todo = SelectSeq(PathTo[b], LAMBDA x : ~known[x].known)]

\* batch_sync_to_peak: the blocks from the one before the fork point on.
BatchSync(b, fork) ==
    job' = [NoJob EXCEPT !.todo = SubSeq(PathTo[b], Max({0, fork - 1}) + 1, Len(PathTo[b])),
                         !.fork = fork]

\* new_peak_wallet.  The batch of a wallet that is a little behind takes the height of its own
\* peak for the fork point; _sync takes one from the weight proof, at or below the real one.
NewPeak(b) ==
    /\ job = NoJob /\ adding = NoBlock /\ ~Wedged /\ syncs < MaxSyncs /\ syncs' = syncs + 1
    /\ ~known[b].known /\ Weight[b] > Weight[Peak]
    /\ \/ ShortSync(b)
       \/ Height(b) > peakAt + Behind /\ BatchSync(b, peakAt)
       \/ \E f \in 0..Fork(b, Peak) : BatchSync(b, f)
    /\ UNCHANGED <<chainState, coinRecs, txState, adding, acks, walletFaults>>

get_unspent_coins_at_height(h) ==
    {c \in Coin : /\ coinRecs[c] # None /\ coinRecs[c].conf <= h
                  /\ coinRecs[c].spent = 0 \/ coinRecs[c].spent > h}

\* The coins whose removal the filter is asked for: unspent at the fork point, or added by a
\* block between it and this one.
NamesAt(b, f) ==
    LET between == {x \in ToSet(PathTo[b]) : x # b /\ Height(x) > f}
    IN  (get_unspent_coins_at_height(f) \cup UNION {known[x].adds : x \in between}) \ UNION {known[x].rems : x \in between}

ForkOf(b) == IF job.fork # NoFork /\ ~job.advanced THEN job.fork ELSE Fork(b, Peak)

\* The additions for the keys of the wallet, and the removals asked for, proven by the node.
get_additions(b) == Adds(b)
get_removals(b) == Removes(b) \cap NamesAt(b, ForkOf(b))

\* receive_block up to the transaction: the block is new, its parent is known, and its header
\* is valid, as those of the tree are.
Receivable(b) == ~known[b].known /\ known[Parent[b]].known

\* fetch_blocks_and_validate, complete_blocks: known blocks and those without a parent are
\* passed over; for others the additions and removals are requested.
FetchBlock ==
    /\ job.todo # <<>> /\ adding = NoBlock /\ ~Wedged
    /\ LET b == Head(job.todo)
       IN  /\ job' = [job EXCEPT !.todo = Tail(@)]
           /\ IF ~Receivable(b) THEN UNCHANGED adding
              ELSE adding' = [block |-> b, fork |-> ForkOf(b), stage |-> "found",
                              found |-> [adds |-> get_additions(b), rems |-> get_removals(b),
                                         known |-> TRUE]]
    /\ UNCHANGED <<chainState, coinRecs, txState, bounds>>

\* receive_block takes both locks and begins the transaction.
BeginTransaction ==
    /\ adding.stage = "found" /\ lateAcks = <<>> /\ adding' = [adding EXCEPT !.stage = "open"]
    /\ UNCHANGED <<chainState, coinRecs, txState, job, bounds>>

-----------------------------------------------------------------------------
\* coin_store.rollback_to_block
RollbackCoins(recs, h) ==
    [c \in Coin |-> IF recs[c] = None \/ recs[c].conf > h THEN None
                    ELSE IF recs[c].spent > h THEN [recs[c] EXCEPT !.spent = 0] ELSE recs[c]]

\* tx_store.rollback_to_block, and tx_reorged for what the table has as confirmed above: it is
\* pending and unsent; other records above leave the cache.
RollbackTxs(tx, h) ==
    LET above == {t \in Tx : tx.rows[t] # None /\ tx.rows[t].conf > h}
    IN  [rows  |-> [t \in Tx |-> IF t \in above THEN Unsent ELSE tx.rows[t]],
         cache |-> [t \in Tx |-> IF t \in above THEN Unsent
                                 ELSE IF tx.cache[t] # None /\ tx.cache[t].conf > h THEN None
                                 ELSE tx.cache[t]]]

\* reorg_rollback
reorg_rollback(wallet, h) == [coins |-> RollbackCoins(wallet.coins, h), tx |-> RollbackTxs(wallet.tx, h)]

coin_added(b) == [conf |-> Height(b), spent |-> 0]
set_spent(rec, b) == IF rec = None THEN rec ELSE [rec EXCEPT !.spent = Height(b)]

\* coins_of_interest_added, then coins_of_interest_removed.
ApplyCoins(recs, b, found) ==
    [c \in Coin |-> LET rec == IF c \in found.adds THEN coin_added(b) ELSE recs[c]
                    IN  IF c \in found.rems THEN set_spent(rec, b) ELSE rec]

\* A transaction the table has as pending is confirmed when its change is added or one of its
\* coins removed.
Confirmed(tx, found) ==
    {t \in Tx : Pending(tx.rows[t]) /\ (Change[t] \in found.adds \/ Rems[t] \cap found.rems # {})}

\* set_confirmed, for the record of the cache if there is one.
set_confirmed(tx, t, b) ==
    [(IF tx.cache[t] = None THEN tx.rows[t] ELSE tx.cache[t]) EXCEPT !.conf = Height(b)]

ApplyTxs(tx, b, found) ==
    LET new(t, old) == IF t \in Confirmed(tx, found) THEN set_confirmed(tx, t, b) ELSE old
    IN  [rows  |-> [t \in Tx |-> new(t, tx.rows[t])],
         cache |-> [t \in Tx |-> new(t, tx.cache[t])]]

\* new_transaction_block_callback
ApplyBlock(wallet, b, found) ==
    [coins |-> ApplyCoins(wallet.coins, b, found), tx |-> ApplyTxs(wallet.tx, b, found)]

Wallet == [coins |-> coinRecs, tx |-> [cache |-> txCache, rows |-> txRows]]

\* A mutant: a reorganisation does not roll back.
NoRollback(wallet, b, f) == wallet

\* Rolled back to the fork point unless the block extends the peak.
RollbackFor(wallet, b, f) == IF Parent[b] # Peak THEN reorg_rollback(wallet, f) ELSE wallet

\* The blocks above the fork point, which are all blocks when the chain of the block does not
\* have the block of the fork point.
PathFrom(b, f) ==
    IF f <= Height(b) /\ heights[f] = <<AtHeight(b, f)>>
    THEN SubSeq(PathTo[b], f + 2, Len(PathTo[b])) ELSE PathTo[b]

\* _reconsider_peak of a heavier block: the blocks are applied as they were found.
Reconsider(b, f, found) ==
    FoldLeft(LAMBDA w, x : ApplyBlock(w, x, IF x = b THEN found ELSE known[x]),
             RollbackFor(Wallet, b, f), PathFrom(b, f))

\* height_to_hash of the blocks of the path, the height and the stored peak.
set_peak(b, f) ==
    /\ heights' = [h \in 0..MaxHeight |->
                     IF \E x \in ToSet(PathFrom(b, f)) : Height(x) = h
                     THEN <<AtHeight(b, h)>> ELSE heights[h]]
    /\ peakAt' = Height(b) /\ dbPeak' = b

\* The transaction is committed; a block that is not heavier is only stored.
CommitTransaction ==
    /\ adding.stage = "open" /\ ~Wedged /\ adding' = NoBlock
    /\ LET b == adding.block
           r == Reconsider(b, adding.fork, adding.found)
       IN  /\ known' = [known EXCEPT ![b] = adding.found]
           /\ IF Weight[b] > Weight[Peak]
              THEN /\ coinRecs' = r.coins /\ txCache' = r.tx.cache /\ txRows' = r.tx.rows
                   /\ set_peak(b, adding.fork) /\ toSend' = TRUE
                   /\ job' = [job EXCEPT !.advanced = TRUE]
              ELSE UNCHANGED <<heights, peakAt, dbPeak, coinRecs, txCache, txRows, toSend, job>>
    /\ UNCHANGED <<lateAcks, offered, bounds>>

\* A step of it raises: rolled back, the caches are read again, and the sync ends.  When the
\* commit itself raises, the height of the peak has been set, and stays.
FailTransaction ==
    /\ adding.stage = "open" /\ adding' = NoBlock /\ job' = NoJob
    /\ walletFaults < MaxFaults /\ walletFaults' = walletFaults + 1
    /\ UNCHANGED txRows /\ rebuild_tx_cache
    /\ \/ UNCHANGED peakAt
       \/ Weight[adding.block] > Weight[Peak] /\ peakAt' = Height(adding.block)
    /\ UNCHANGED <<known, heights, dbPeak, coinRecs, lateAcks, toSend, offered, syncs, acks>>

\* The peer does not answer: the sync raises and ends.
AbortSync ==
    /\ job # NoJob /\ adding.stage # "open" /\ job' = NoJob /\ adding' = NoBlock
    /\ UNCHANGED <<chainState, coinRecs, txState, bounds>>

EndSync ==
    /\ job # NoJob /\ job.todo = <<>> /\ adding = NoBlock /\ job' = NoJob
    /\ UNCHANGED <<chainState, coinRecs, txState, adding, bounds>>

get_peak_heights_dicts ==
    [h \in 0..MaxHeight |-> IF h <= Height(dbPeak) THEN <<AtHeight(dbPeak, h)>> ELSE <<>>]

\* The wallet starts again from the database.
Restart ==
    /\ walletFaults < MaxFaults /\ walletFaults' = walletFaults + 1
    /\ heights' = get_peak_heights_dicts /\ peakAt' = Height(dbPeak)
    /\ UNCHANGED txRows /\ rebuild_tx_cache /\ toSend' = TRUE
    /\ job' = NoJob /\ adding' = NoBlock /\ lateAcks' = <<>> /\ offered' = {}
    /\ UNCHANGED <<known, dbPeak, coinRecs, syncs, acks>>

Next ==
    \/ \E t \in Tx : SendTransaction(t) \/ \E n \in Peer : Ack(t, n)
    \/ DeleteUnconfirmed \/ WriteAck \/ Resend
    \/ \E b \in Block : NewPeak(b)
    \/ FetchBlock \/ BeginTransaction \/ CommitTransaction \/ FailTransaction
    \/ AbortSync \/ EndSync \/ Restart

Spec == Init /\ [][Next]_walletVars

-----------------------------------------------------------------------------
OnChain(c, S(_)) == {b \in ToSet(PathTo[dbPeak]) : c \in S(b)}

\* The coin records are those of the chain of the peak, nothing more and nothing less: every
\* coin the chain pays to the wallet, at its height, spent where the chain spends it, after
\* any reorg, replay of blocks, failed transaction and restart.
CoinsOfChain ==
    \A c \in Coin :
      LET added   == OnChain(c, Adds)
          removed == OnChain(c, Removes)
      IN  IF added = {} THEN coinRecs[c] = None
          ELSE /\ coinRecs[c] # None /\ \E b \in added : coinRecs[c].conf = Height(b)
               /\ coinRecs[c].spent = IF removed = {} THEN 0 ELSE Max({Height(b) : b \in removed})

\* The wallet never has two pending transactions that spend one coin, also when a reorg makes
\* one pending again whose coin is unspent again: but for an answer that comes while a block
\* is added (below).
SpendsOnce ==
    acks.late = 0 =>
      \A t, u \in Tx : Pending(txCache[t]) /\ Pending(txCache[u]) /\ t # u => Rems[t] \cap Rems[u] = {}

\* A record is stored in the table and the cache alike when no write is under way, as the
\* docstring of add_transaction_record says.  An answer of a node that comes while a block is
\* added overwrites the confirmation with the record it has read: after a restart and a reorg
\* the wallet even has two pending transactions for one coin.
StoredAsCached == adding.stage # "open" /\ lateAcks = <<>> => txRows = txCache
=============================================================================
