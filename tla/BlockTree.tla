----------------------------- MODULE BlockTree -----------------------------
(***************************************************************************)
(* The blocks a full node can be shown, as data.  A block is an opaque     *)
(* value; what consensus reads from it (its height, its ancestors through  *)
(* prev_header_hash, its weight, its coins) is a constant function on      *)
(* Block.  Header hashes are collision free, so the ancestors of a block   *)
(* are fixed by the block: Chain[b][h] is the ancestor of b at height h.   *)
(*                                                                         *)
(* Coins: Additions[b] and Removals[b] are what the block's generator      *)
(* creates and spends, Claims[b] the reward coins listed in its            *)
(* transactions_info.  The pool coin and the farmer coin of a block are    *)
(* always created together and are one element, Reward[b].                 *)
(***************************************************************************)
EXTENDS Integers

CONSTANTS
    Block,        \* header hashes of the blocks that exist
    NoBlock,      \* no block: None, or a missing dictionary entry
    Coin,         \* coin names
    NoCoin,       \* the parent of a reward coin, which is no coin
    MaxHeight,    \* bound on block heights
    Height,       \* Height[b]: block.height
    Chain,        \* Chain[b][h]: the ancestor of b at height h
    Weight,       \* Weight[b]: block.weight
    IsTx,         \* IsTx[b]: block.is_transaction_block()
    HasSummary,   \* HasSummary[b]: b includes a sub-epoch summary
    HeaderOk,     \* HeaderOk[b]: header validation accepts b
    BodyOk,       \* BodyOk[b]: the checks of the body that read no coin pass
    Additions,    \* Additions[b]: coins created by the spends of b
    Removals,     \* Removals[b]: coins spent by b
    Claims,       \* Claims[b]: reward_claims_incorporated of b
    Reward,       \* Reward[b]: the reward coins b earns, claimed by a later block
    Parent        \* Parent[c]: coin.parent_coin_info

Heights == 0 .. MaxHeight

ASSUME TreeAssumption ==
    /\ MaxHeight \in Nat
    /\ NoBlock \notin Block
    /\ Height \in [Block -> Heights]
    /\ Chain \in [Block -> [Heights -> Block \cup {NoBlock}]]
    /\ \A b \in Block :
          /\ Chain[b][Height[b]] = b
          /\ \A h \in Heights : h > Height[b] => Chain[b][h] = NoBlock
          /\ \A h \in 0 .. Height[b] :
                /\ Chain[b][h] \in Block
                /\ Height[Chain[b][h]] = h
                /\ \A k \in 0 .. h : Chain[Chain[b][h]][k] = Chain[b][k]

\* Header validation, check 28: a block's weight is its parent's plus the
\* difficulty, which is positive.
ASSUME WeightAssumption ==
    /\ Weight \in [Block -> Nat]
    /\ \A b \in Block : \A h \in 0 .. Height[b] :
          h < Height[b] => Weight[Chain[b][h]] < Weight[b]

\* A coin created by a spend names the spent coin as its parent, a reward coin
\* names no coin; names are hashes over the parent's name, so the parent
\* relation is well founded; reward names include the rewarded height.
ASSUME CoinAssumption ==
    /\ NoCoin \notin Coin
    /\ Additions \in [Block -> SUBSET Coin]
    /\ Removals \in [Block -> SUBSET Coin]
    /\ Claims \in [Block -> SUBSET Coin]
    /\ Reward \in [Block -> Coin]
    /\ Parent \in [Coin -> Coin \cup {NoCoin}]
    /\ \A b \in Block : \A c \in Additions[b] : Parent[c] \in Removals[b]
    /\ \A b \in Block : Parent[Reward[b]] = NoCoin
    /\ \A a, b \in Block : Reward[a] = Reward[b] => Height[a] = Height[b]
    /\ \A T \in SUBSET Coin : T # {} => \E c \in T : Parent[c] \notin T

ASSUME FlagAssumption ==
    /\ IsTx \in [Block -> BOOLEAN]
    /\ HasSummary \in [Block -> BOOLEAN]
    /\ HeaderOk \in [Block -> BOOLEAN]
    /\ BodyOk \in [Block -> BOOLEAN]

\* block.prev_header_hash; a block of height 0 names the genesis challenge.
Prev(b) == IF Height[b] = 0 THEN NoBlock ELSE Chain[b][Height[b] - 1]

\* Every coin b puts into the coin set: spends' outputs and reward coins.
Adds(b) == Additions[b] \cup Claims[b]

\* The heights whose rewards a block claims: its previous transaction block
\* (at height p) and the blocks before that one back to, and not including,
\* the transaction block before it.
ClaimHeights(b) ==
    {h \in 0 .. Height[b] - 1 :
        \E p \in h .. Height[b] - 1 :
            /\ IsTx[Chain[b][p]]
            /\ \A k \in p + 1 .. Height[b] - 1 : ~ IsTx[Chain[b][k]]
            /\ \A k \in h .. p - 1 : ~ IsTx[Chain[b][k]]}

\* expected_reward_coins of validate_block_body; empty at height 0.
ExpectedRewards(b) == {Reward[Chain[b][h]] : h \in ClaimHeights(b)}

\* Check 5 of validate_block_body; check 1 leaves other blocks no body.
RewardsClaimed(b) ==
    IF IsTx[b] THEN Claims[b] = ExpectedRewards(b)
               ELSE Adds(b) = {} /\ Removals[b] = {}

\* On the chain of b, a spent coin was created at or before the block that
\* spends it, and no earlier block spends it.
SpendsAreSound(b) ==
    \A h \in 0 .. Height[b] : \A c \in Removals[Chain[b][h]] :
        /\ \E k \in 0 .. h : c \in Adds(Chain[b][k])
        /\ \A k \in 0 .. h - 1 : c \notin Removals[Chain[b][k]]

\* f is a height up to which the chains of a and b are the same one; -1 is
\* common to any two chains.
CommonUpTo(a, b, f) ==
    /\ f \in -1 .. MaxHeight
    /\ f <= Height[a] /\ f <= Height[b]
    /\ f >= 0 => Chain[a][f] = Chain[b][f]

\* find_fork_point_in_chain: the last common height, -1 if there is none.
IsForkPoint(a, b, f) ==
    /\ CommonUpTo(a, b, f)
    /\ f < Height[a] /\ f < Height[b] => Chain[a][f + 1] # Chain[b][f + 1]
=============================================================================
