------------------------------ MODULE Mempool ------------------------------
(***************************************************************************)
(* The two containers of spend bundles: Mempool (the pool proper, bounded  *)
(* by total cost, cheapest item out first) and PendingTxCache (bundles     *)
(* kept for a retry, bounded by total cost, oldest out first).  They are   *)
(* pure data: operators from a container to the next one.                  *)
(*                                                                         *)
(* A MempoolItem is an opaque value with constant attributes.  A fee per   *)
(* cost is a float in the code and compared here exactly, by cross         *)
(* multiplication.  Items of the same fee per cost leave in any order (the *)
(* code takes the one inserted first).  The additions index is left out:   *)
(* nothing reads it.                                                       *)
(***************************************************************************)
EXTENDS BlockTree, Sequences, Functions, FiniteSetsExt

CONSTANTS
    Item,           \* spend bundles, by name
    NoItem,         \* no item: a missing dictionary entry
    Spends,         \* Spends[i]: the coins of item.removals
    Creates,        \* Creates[i]: the coins of item.additions
    Cost,           \* Cost[i]: item.cost
    Fee,            \* Fee[i]: item.fee
    MaxTotalCost,   \* mempool_max_total_cost
    MaxPendingCost  \* _cache_max_total_cost of the potential cache

\* The coins a bundle creates are outputs of the coins it spends.
ASSUME ItemAssumption ==
    /\ NoItem \notin Item
    /\ Spends \in [Item -> SUBSET Coin]
    /\ Creates \in [Item -> SUBSET Coin]
    /\ Cost \in [Item -> Nat]
    /\ Fee \in [Item -> Nat]
    /\ MaxTotalCost \in Nat
    /\ MaxPendingCost \in Nat
    /\ \A i \in Item : Cost[i] > 0 /\ Cost[i] <= MaxTotalCost
    /\ \A i \in Item : \A c \in Creates[i] : Parent[c] \in Spends[i]

CostOf(S) == MapThenSumSet(LAMBDA i : Cost[i], S)
FeeOf(S) == MapThenSumSet(LAMBDA i : Fee[i], S)

\* fee_per_cost of i is greater than that of j.
PaysMore(i, j) == Fee[i] * Cost[j] > Fee[j] * Cost[i]

-----------------------------------------------------------------------------
Pools == [spends : SUBSET Item, removals : [Coin -> Item \cup {NoItem}], cost : Int]

EmptyPool == [spends |-> {}, removals |-> [c \in Coin |-> NoItem], cost |-> 0]

at_full_capacity(p, cost) == p.cost + cost > MaxTotalCost

\* A mutant: a removed item stays in the index by coin.
RemoveKeepsIndex(p, S) == [p EXCEPT !.spends = @ \ S, !.cost = @ - CostOf(S)]

\* remove_from_pool, of each item of S.
remove_from_pool(p, S) ==
    [spends   |-> p.spends \ S,
     removals |-> [c \in Coin |-> IF \E i \in S : c \in Spends[i] THEN NoItem
                                  ELSE p.removals[c]],
     cost     |-> p.cost - CostOf(S)]

\* The sets of items that make room for an item of this cost when they are
\* taken out one at a time, in increasing fee per cost, while the pool is at
\* full capacity.
Evictions(p, cost) ==
    {E \in SUBSET p.spends :
        /\ ~ at_full_capacity(remove_from_pool(p, E), cost)
        /\ \A i \in E : \A j \in p.spends \ E : ~ PaysMore(i, j)
        /\ E # {} => \E last \in E :
              /\ \A i \in E : ~ PaysMore(i, last)
              /\ at_full_capacity(remove_from_pool(p, E \ {last}), cost)}

\* The fee per cost of i is above get_min_fee_rate(cost of i).
AboveMinFeeRate(p, i) ==
    \A E \in Evictions(p, Cost[i]) : \A j \in E : PaysMore(i, j)

\* add_to_pool after the evictions E.
add_to_pool(p, i, E) ==
    LET q == remove_from_pool(p, E)
    IN  [spends   |-> q.spends \cup {i},
         removals |-> [c \in Coin |-> IF c \in Spends[i] THEN i ELSE q.removals[c]],
         cost     |-> q.cost + Cost[i]]

\* An empty pool to which the items of S have been added one after the other.
PoolOf(S) ==
    [spends   |-> S,
     removals |-> [c \in Coin |-> IF \E i \in S : c \in Spends[i]
                                  THEN CHOOSE i \in S : c \in Spends[i] ELSE NoItem],
     cost     |-> CostOf(S)]

-----------------------------------------------------------------------------
Pendings == [txs : Seq(Item), cost : Int]

EmptyPending == [txs |-> <<>>, cost |-> 0]

\* The cache without its n oldest items.
WithoutOldest(q, n) ==
    [txs  |-> SubSeq(q.txs, n + 1, Len(q.txs)),
     cost |-> q.cost - CostOf({q.txs[k] : k \in 1 .. n})]

\* PendingTxCache.add
pending_add(q, i) ==
    IF i \in Range(q.txs) THEN q
    ELSE LET r == [txs |-> Append(q.txs, i), cost |-> q.cost + Cost[i]]
             n == CHOOSE m \in 0 .. Len(r.txs) :
                     /\ WithoutOldest(r, m).cost <= MaxPendingCost
                     /\ \A k \in 0 .. m - 1 : WithoutOldest(r, k).cost > MaxPendingCost
         IN  WithoutOldest(r, n)

\* PendingTxCache.drain: what stays behind; the items drained are q.txs.
pending_drain(q) == [txs |-> <<>>, cost |-> 0]
=============================================================================
