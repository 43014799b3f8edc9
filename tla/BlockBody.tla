----------------------------- MODULE BlockBody -----------------------------
(***************************************************************************)
(* The amounts of a chain: which bodies of blocks validate_block_body      *)
(* accepts, the body a farmer makes (create_foliage), and the rewards and  *)
(* fees that are claimed by later transaction blocks.                      *)
(*                                                                         *)
(* A coin is its parent and its amount, as its name is a hash of them; the *)
(* parent of a reward is the height it is paid for.  Bodies are those of a *)
(* farmer, and others that differ from them in one field.                  *)
(***************************************************************************)
EXTENDS Integers, Sequences, FiniteSets, SequencesExt, FiniteSetsExt

CONSTANTS
    Eighth,        \* Eighth[h]: an eighth of the reward of the block at height h
    MaxCost,       \* MAX_BLOCK_COST_CLVM, in spends and outputs
    MaxCoinAmount, \* MAX_COIN_AMOUNT
    LastHeight     \* bound

VARIABLES
    bodies,  \* for each block of the chain: is it a transaction block, its fees
    records  \* the coin records: for a coin, the height it is confirmed at, and is it spent

bodyVars == <<bodies, records>>

calculate_pool_reward(h) == 7 * Eighth[h]
calculate_base_farmer_reward(h) == Eighth[h]

create_pool_coin(h) == [parent |-> <<h, "pool">>, amount |-> calculate_pool_reward(h)]
create_farmer_coin(h, fees) ==
    [parent |-> <<h, "farmer">>, amount |-> calculate_base_farmer_reward(h) + fees]

\* bodies[h + 1] is the block at height h.
At(h) == bodies[h + 1]
Top == Len(bodies) - 1
PrevTx(h) == Max({g \in 0..h : At(g).tx})

Init == bodies = <<[tx |-> TRUE, fees |-> 0]>> /\ records = <<>>

-----------------------------------------------------------------------------
Amounts(coins) == FoldLeft(LAMBDA sum, c : sum + c.amount, 0, coins)
Total(coins) == FoldSet(LAMBDA c, sum : sum + c.amount, 0, coins)

\* additions_for_npc: the outputs of the spends, in order.
additions_for_npc(spends) ==
    FlattenSeq([i \in DOMAIN spends |->
      [j \in DOMAIN spends[i].outs |-> [parent |-> <<spends[i].coin>>, amount |-> spends[i].outs[j]]]])

Removals(spends) == [i \in DOMAIN spends |-> spends[i].coin]

calculate_cost_of_program(spends) == Len(spends) + Len(additions_for_npc(spends))

\* reward_claims_incorporated: from the previous block back to the last transaction block, for
\* it and for the blocks before it, back to the transaction block before.
RewardClaims ==
    LET last == PrevTx(Top)
        older == IF last = 0 THEN <<>> ELSE [i \in 1 .. last - 1 - PrevTx(last - 1) |-> last - i]
    IN  <<create_pool_coin(last), create_farmer_coin(last, At(last).fees)>>
        \o FlattenSeq([i \in DOMAIN older |->
                         <<create_pool_coin(older[i]), create_farmer_coin(older[i], 0)>>])

\* The Merkle roots and the filter stand for the sets they are made of.
MerkleRoots(adds, rems) == <<adds, rems>>

\* create_foliage, of a transaction block.
create_foliage(spends) ==
    [spends |-> spends, cost |-> calculate_cost_of_program(spends), claims |-> RewardClaims,
     fees   |-> Amounts(Removals(spends)) - Amounts(additions_for_npc(spends)),
     roots  |-> MerkleRoots(ToSet(additions_for_npc(spends) \o RewardClaims), ToSet(Removals(spends)))]

-----------------------------------------------------------------------------
\* The rewards for the previous transaction block, and for the blocks between it and the one
\* before it: as a set, of which the claims must be an enumeration.
ExpectedRewards ==
    LET last == PrevTx(Top)
        walked == {h \in 1 .. last - 1 : \A g \in h .. last - 1 : ~At(g).tx}
    IN  {create_pool_coin(last), create_farmer_coin(last, At(last).fees)}
        \cup {create_pool_coin(h) : h \in walked} \cup {create_farmer_coin(h, 0) : h \in walked}

ClaimsOk(b) == ToSet(b.claims) = ExpectedRewards /\ Len(b.claims) = Cardinality(ExpectedRewards)

Unique(s) == Cardinality(ToSet(s)) = Len(s)

AllAdditions(b) == ToSet(additions_for_npc(b.spends)) \cup ExpectedRewards

\* Checks 7 to 14: cost, amounts, roots, duplicate outputs and duplicate spends.
CostOk(b) == b.cost = calculate_cost_of_program(b.spends) /\ b.cost <= MaxCost
AmountsOk(b) == \A c \in AllAdditions(b) : c.amount >= 0 /\ c.amount <= MaxCoinAmount
validate_block_merkle_roots(b) == b.roots = MerkleRoots(AllAdditions(b), ToSet(Removals(b.spends)))
NoDuplicates(b) ==
    /\ Unique(additions_for_npc(b.spends)) /\ Unique(Removals(b.spends))
    /\ ToSet(additions_for_npc(b.spends)) \cap ExpectedRewards = {}

\* Check 15, on the chain of the peak: the coin is made by this block, or is unspent.
RemovalOk(b, c) ==
    c \in AllAdditions(b) \/ (c \in DOMAIN records /\ ~records[c].spent)

\* Checks 16 to 19.  The fees of the body count, as the farmer of this block is paid them.
FeesUnchecked(b) == Amounts(additions_for_npc(b.spends)) <= Amounts(Removals(b.spends))

FeesOk(b) ==
    LET fees == Amounts(Removals(b.spends)) - Amounts(additions_for_npc(b.spends))
    IN  /\ fees >= 0 /\ b.fees = fees
        /\ fees + calculate_base_farmer_reward(Top + 1) <= MaxCoinAmount

\* Check 21, for a spend that needs the coin to have an age at the previous transaction block.
RelativeHeightOk(conf, age) == PrevTx(Top) >= conf + age

ConditionsOk(s) ==
    s.age # 0 => RelativeHeightOk(IF s.coin \in DOMAIN records THEN records[s.coin].at ELSE Top + 1, s.age)

validate_block_body(b) ==
    /\ ClaimsOk(b) /\ CostOk(b) /\ AmountsOk(b) /\ validate_block_merkle_roots(b)
    /\ NoDuplicates(b) /\ \A c \in ToSet(Removals(b.spends)) : RemovalOk(b, c)
    /\ FeesOk(b) /\ \A s \in ToSet(b.spends) : ConditionsOk(s)

\* coin_store.new_block
new_block(b) ==
    LET new == AllAdditions(b)
        gone == ToSet(Removals(b.spends))
    IN  [c \in DOMAIN records \cup new |->
           [at |-> IF c \in new THEN Top + 1 ELSE records[c].at,
            spent |-> c \in gone \/ (c \notin new /\ records[c].spent)]]

-----------------------------------------------------------------------------
\* What may be spent: a coin the node knows, spent or not, or one a spend or the block makes;
\* the outputs keep the amount, leave a fee, or are more than it.
Outputs(a) == {<<a>>, <<a - 1>>, <<1, a - 1>>, <<a + 1>>}
SpendsOf(c) ==
    {[coin |-> c, outs |-> o, age |-> 0] : o \in Outputs(c.amount)}
    \cup {[coin |-> c, outs |-> <<c.amount>>, age |-> 2]}

Singles == UNION {SpendsOf(c) : c \in DOMAIN records \cup ToSet(RewardClaims)}

SpendLists ==
    {<<>>} \cup {<<s>> : s \in Singles}
    \cup UNION {{<<s, t>> : t \in {s} \cup UNION {SpendsOf(c) : c \in ToSet(additions_for_npc(<<s>>))}}
                : s \in Singles}

Variants(b) ==
    {b, [b EXCEPT !.fees = @ + 1], [b EXCEPT !.fees = @ - 1], [b EXCEPT !.cost = @ - 1],
     [b EXCEPT !.claims = Tail(@)], [b EXCEPT !.claims = Append(@, Head(@))]}

TransactionBlock ==
    /\ Top < LastHeight
    /\ \E s \in SpendLists : \E b \in Variants(create_foliage(s)) :
         /\ validate_block_body(b)
         /\ bodies' = Append(bodies, [tx |-> TRUE, fees |-> b.fees]) /\ records' = new_block(b)

\* A block without transactions has no body.
EmptyBlock ==
    /\ Top < LastHeight /\ bodies' = Append(bodies, [tx |-> FALSE, fees |-> 0])
    /\ UNCHANGED records

Next == TransactionBlock \/ EmptyBlock
Spec == Init /\ [][Next]_bodyVars

-----------------------------------------------------------------------------
Unspent == {c \in DOMAIN records : ~records[c].spent}

\* The rewards that are paid: of all blocks up to the transaction block before the last one.
PaidFor == IF PrevTx(Top) = 0 THEN {} ELSE 0 .. PrevTx(PrevTx(Top) - 1)

\* Coins are made by rewards only, and none is lost: all that is unspent, and the fees that
\* the next transaction block pays, are the rewards of the blocks paid for, whatever bodies
\* are offered, with coins spent in the block that makes them, fees, and any run of blocks
\* without transactions.
SupplyIsRewards ==
    Total(Unspent) + At(PrevTx(Top)).fees =
      FoldSet(LAMBDA h, sum : sum + 8 * Eighth[h], 0, PaidFor)
=============================================================================
