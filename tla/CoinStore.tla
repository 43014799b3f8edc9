----------------------------- MODULE CoinStore -----------------------------
(***************************************************************************)
(* full_node/coin_store.py: the table coin_record of the coins of the      *)
(* peak's chain, and the LRU cache of records kept in front of it.  The    *)
(* operators below say what each method does to the table and to the       *)
(* cache; the modules that use them own the interleaving.                  *)
(*                                                                         *)
(* A record keeps what consensus reads: the height that confirmed the      *)
(* coin, whether it is spent, and the height that spent it (0 when it is   *)
(* not).  Amount, puzzle hash, coinbase flag and timestamp are left out.   *)
(***************************************************************************)
EXTENDS Integers

CONSTANTS
    Coin,       \* coin names
    Heights,    \* block heights
    NoRecord    \* no row for the coin, or no entry in the cache

CoinRecord ==
    [confirmed_index : Heights, spent_index : Heights, spent : BOOLEAN]

\* Both the table and the cache map every coin to its record or to NoRecord.
Table == [Coin -> CoinRecord \cup {NoRecord}]

NewRecord(h) == [confirmed_index |-> h, spent_index |-> 0, spent |-> FALSE]

Spent(r, h) == [r EXCEPT !.spent_index = h, !.spent = TRUE]

Unspent(r) == [r EXCEPT !.spent_index = 0, !.spent = FALSE]

\* _add_coin_records, on the table and on the cache alike.
AddCoinRecords(t, adds, h) ==
    [c \in Coin |-> IF c \in adds THEN NewRecord(h) ELSE t[c]]

\* As SetSpent, overlooking coins that the same block created.
SetSpentOnlyOld(t, removals, h) ==
    [c \in Coin |-> IF c \in removals /\ t[c] # NoRecord /\ t[c].confirmed_index < h
                       THEN Spent(t[c], h) ELSE t[c]]

\* _set_spent: a row, or a cache entry, that is not there stays missing.
SetSpent(t, removals, h) ==
    [c \in Coin |-> IF c \in removals /\ t[c] # NoRecord
                       THEN Spent(t[c], h) ELSE t[c]]

\* new_block: additions first, then removals, so a coin created and spent in
\* the block ends up spent.
NewBlock(t, adds, removals, h) ==
    SetSpent(AddCoinRecords(t, adds, h), removals, h)

\* As RollbackToBlock, without the UPDATE that makes coins unspent again.
RollbackKeepsSpent(t, h) ==
    [c \in Coin |-> IF t[c] # NoRecord /\ t[c].confirmed_index > h
                       THEN NoRecord ELSE t[c]]

\* rollback_to_block on the table: coins confirmed above the height go, coins
\* spent above it become unspent.
RollbackToBlock(t, h) ==
    [c \in Coin |->
        IF t[c] = NoRecord THEN NoRecord
        ELSE IF t[c].confirmed_index > h THEN NoRecord
        ELSE IF t[c].spent_index > h THEN Unspent(t[c])
        ELSE t[c]]

\* rollback_to_block on the cache: entries of coins spent above the height are
\* replaced, then entries of coins confirmed above it are removed.
RollbackCache(m, h) ==
    LET unspent == [c \in Coin |-> IF m[c] # NoRecord /\ m[c].spent_index > h
                                      THEN Unspent(m[c]) ELSE m[c]]
    IN [c \in Coin |-> IF m[c] # NoRecord /\ m[c].confirmed_index > h
                          THEN NoRecord ELSE unspent[c]]

\* As RollbackChanges, reporting nothing.
RollbackReportsNothing(t, h) == {}

\* What rollback_to_block returns.  The first SELECT collects the rows that are
\* about to be deleted; the second runs after the DELETE with the same
\* condition and finds nothing, so coins that become unspent are not in it.
RollbackChanges(t, h) ==
    {c \in Coin : t[c] # NoRecord /\ t[c].confirmed_index > h}

\* get_coin_record: the cache first, then the table.
GetCoinRecord(t, cache, c) == IF cache[c] # NoRecord THEN cache[c] ELSE t[c]

\* The cache after get_coin_record has been called for every coin of S.
CacheAfterReads(t, cache, S) ==
    [c \in Coin |-> IF c \in S THEN GetCoinRecord(t, cache, c) ELSE cache[c]]
=============================================================================
