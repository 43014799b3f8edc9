----------------------------- MODULE PoolWallet -----------------------------
(***************************************************************************)
(* The pool wallet: a singleton on the chain whose coins are spent to join *)
(* a pool, to leave it through a waiting room, to farm for oneself and to  *)
(* absorb rewards.  The wallet keeps the history of the spends, rewinds it *)
(* after a reorg, writes the state to the configuration the farmer reads,  *)
(* and sends the second half of a change when the waiting time is over.    *)
(***************************************************************************)
EXTENDS Naturals, Sequences, FiniteSets, SequencesExt, FiniteSetsExt

CONSTANTS
    Pool, RelativeLock, \* pools, and the relative lock height each asks for
    MinLock, MaxLock,   \* MINIMUM_, MAXIMUM_RELATIVE_LOCK_HEIGHT
    Buffer,             \* the blocks new_peak waits longer
    TxBlocks,           \* the heights of transaction blocks
    MaxChain, MaxReorgs, MaxAbsorbs, MaxAsks, MaxPoolFaults \* bounds

VARIABLES
    pchain,  \* the chain: for each block the spends of the singleton
    pseen,   \* the chain of the wallet
    hist,    \* the spends of pool_store, empty when there is no pool wallet
    ghost,   \* a pool wallet object has been left without spends
    wish,    \* target_state
    poolTxs, \* transactions of the wallet, with the height that confirms each, 0 while pending
    poolCfg, \* the pool state of config.yaml
    peakDue, \* new_peak has to be called
    preorgs, absorbs, asks, poolFaults

chainOnly == <<pchain, preorgs, absorbs>>
poolVars == <<chainOnly, pseen, hist, ghost, wish, poolTxs, poolCfg, peakDue, asks, poolFaults>>

NoState == [state |-> "none", pool |-> "none"]
Self == [state |-> "self", pool |-> "none"]
FarmingTo(p) == [state |-> "farming", pool |-> p]
Lock(s) == IF s.pool \in Pool THEN RelativeLock[s.pool] ELSE 0

Init ==
    /\ pchain = <<>> /\ pseen = <<>> /\ hist = <<>> /\ ghost = FALSE
    /\ wish = NoState /\ poolTxs = {} /\ poolCfg = NoState /\ peakDue = FALSE
    /\ preorgs = 0 /\ absorbs = 0 /\ asks = 0 /\ poolFaults = 0

-----------------------------------------------------------------------------
(* The singleton.  A coin of it is known by the puzzles of its ancestors.  *)
Spend(kind, coin, next) == [kind |-> kind, coin |-> coin, next |-> next]

\* get_most_recent_singleton_coin_from_coin_spend
CreatedBy(spend) == Append(spend.coin, spend.next)

At(h, spends) == [i \in DOMAIN spends |-> [height |-> h, spend |-> spends[i]]]
Lineage(c) == FlattenSeq([h \in DOMAIN c |-> At(h, c[h])])

TipOf(history) == IF history = <<>> THEN <<>> ELSE CreatedBy(Last(history).spend)

\* solution_to_pool_state: an absorbing spend has none.
solution_to_pool_state(spend) == IF spend.kind = "absorb" THEN NoState ELSE spend.next

\* get_current_state: that of the last spend that has one.
get_current_state(history) ==
    solution_to_pool_state(
      history[Max({i \in DOMAIN history : solution_to_pool_state(history[i].spend) # NoState})].spend)

\* pool_state_to_inner_puzzle, as far as the chain tells: in the waiting room a travelling
\* spend waits for the relative lock height, and rewards are absorbed in every state.
Waits(s) == s.state # "farming"

\* create_travel_spend
create_travel_spend(coin, next) == Spend("travel", coin, next)

\* create_absorb_spend, for n rewards one after the other.
create_absorb_spend(coin, s, n) ==
    [i \in 1..n |-> Spend("absorb", coin \o [j \in 1..(i - 1) |-> s], s)]

Minable(tx, history, h) ==
    /\ tx.spends[1].coin = TipOf(history)
    /\ tx.spends[1].kind = "travel" /\ Waits(Last(TipOf(history))) =>
         h > Last(history).height + Lock(Last(TipOf(history)))

\* A block with at most one absorbing spend of a pool and one transaction of the wallet.
Mine ==
    /\ Len(pchain) < MaxChain
    /\ LET h == Len(pchain) + 1
           before == Lineage(pchain)
       IN  \E first \in {<<>>} \cup (IF before = <<>> THEN {} ELSE
                          {create_absorb_spend(TipOf(before), Last(TipOf(before)), 1)}) :
           \E sent \in {<<>>} \cup {tx.spends : tx \in {t \in poolTxs :
                                                  Minable(t, before \o At(h, first), h)}} :
             /\ first \o sent # <<>> => h \in TxBlocks
             /\ first # <<>> => absorbs < MaxAbsorbs /\ Last(TipOf(before)).state # "self"
             /\ absorbs' = IF first = <<>> THEN absorbs ELSE absorbs + 1
             /\ pchain' = Append(pchain, first \o sent)
    /\ UNCHANGED <<preorgs, pseen, hist, ghost, wish, poolTxs, poolCfg, peakDue, asks, poolFaults>>

\* Another chain gets the blocks.
Fork ==
    /\ preorgs < MaxReorgs /\ preorgs' = preorgs + 1
    /\ \E n \in 1..2 : n <= Len(pchain) /\ pchain' = SubSeq(pchain, 1, Len(pchain) - n)
    /\ UNCHANGED <<absorbs, pseen, hist, ghost, wish, poolTxs, poolCfg, peakDue, asks, poolFaults>>

-----------------------------------------------------------------------------
(* The wallet's part of a block, for w = its history, target, configuration *)
update_pool_config(w) == [w EXCEPT !.cfg = get_current_state(w.hist)]

\* add_spend: it is not added twice, and extends the last one.
add_spend(history, h, spend) ==
    IF \E i \in DOMAIN history : history[i] = [height |-> h, spend |-> spend] THEN history
    ELSE Append(history, [height |-> h, spend |-> spend])

\* Part of apply_state_transitions: the target has been reached.
ResetTarget(w) == IF w.wish = get_current_state(w.hist) THEN [w EXCEPT !.wish = NoState] ELSE w

ApplySpend(w, h, spend) == ResetTarget([w EXCEPT !.hist = add_spend(@, h, spend)])

\* apply_state_transitions: the spends of the block that follow from the tip.
apply_state_transitions(w, h, spends) ==
    update_pool_config(
      FoldLeft(LAMBDA v, s : IF s.coin = TipOf(v.hist) THEN ApplySpend(v, h, s) ELSE v, w, spends))

\* PoolWallet.create, for a launcher that is new.
create(w, h, spend) == update_pool_config([w EXCEPT !.hist = <<[height |-> h, spend |-> spend]>>,
                                                    !.wish = NoState, !.ghost = FALSE])

\* new_transaction_block_callback
ApplyBlock(w, h, spends) ==
    IF spends = <<>> THEN w
    ELSE IF w.hist = <<>> /\ Head(spends).kind = "launch"
         THEN apply_state_transitions(create(w, h, Head(spends)), h, Tail(spends))
         ELSE IF w.hist = <<>> THEN w ELSE apply_state_transitions(w, h, spends)

\* pool_store.rollback
rollback(history, h) == SelectSeq(history, LAMBDA e : e.height <= h)

\* A mutant: the configuration is not updated when the history is rewound.
KeepsConfig(w, h) == [w EXCEPT !.hist = rollback(@, h)]

\* rewind: a wallet that was created later is removed, though not its configuration.
rewind(w, h) ==
    LET r == [w EXCEPT !.hist = rollback(@, h)]
    IN  IF w.hist = <<>> THEN w
        ELSE IF r.hist = <<>> THEN [r EXCEPT !.wish = NoState]
        ELSE IF <<get_current_state(r.hist), TipOf(r.hist)>> # <<get_current_state(w.hist), TipOf(w.hist)>>
             THEN update_pool_config(r) ELSE r

ForkPoint == Max({f \in 0..Min({Len(pchain), Len(pseen)}) : SubSeq(pchain, 1, f) = SubSeq(pseen, 1, f)})

\* The spends of the launcher and of the coins that follow from it, in the block at a height.
get_additional_coin_spends(h) == pchain[h]

\* _reconsider_peak up to height n: rewound if need be, then the blocks of the new branch.
Reconsider(w, n) ==
    FoldLeft(LAMBDA v, h : ApplyBlock(v, h, get_additional_coin_spends(h)),
             IF ForkPoint < Len(pseen) THEN rewind(w, ForkPoint) ELSE w,
             [i \in 1..(n - ForkPoint) |-> ForkPoint + i])

Wallet == [hist |-> hist, wish |-> wish, cfg |-> poolCfg, ghost |-> ghost]

\* coins_of_interest_removed: a transaction one of whose coins is spent is confirmed, whoever
\* spends it.  reorg_rollback: what was confirmed above is pending again.
ConfirmTxs(n) ==
    LET spentAt(tx) == {h \in ForkPoint + 1..n : \E i \in DOMAIN pchain[h], j \in DOMAIN tx.spends :
                          pchain[h][i].coin = tx.spends[j].coin}
        kept(tx) == IF tx.conf > ForkPoint THEN 0 ELSE tx.conf
    IN  {[tx EXCEPT !.conf = IF kept(tx) = 0 /\ spentAt(tx) # {} THEN Min(spentAt(tx)) ELSE kept(tx)]
           : tx \in poolTxs}

\* A pool wallet object without spends makes every block with spends raise.
Raises == ghost /\ \E h \in ForkPoint + 1..Len(pseen) + 1 : get_additional_coin_spends(h) # <<>>

\* receive_block of the block that makes the other chain heavier; new_peak is called after it.
ReceiveBlock ==
    /\ Len(pchain) > Len(pseen) /\ ~peakDue /\ ~Raises
    /\ LET n == Len(pseen) + 1
           w == Reconsider(Wallet, n)
       IN  /\ hist' = w.hist /\ wish' = w.wish /\ poolCfg' = w.cfg /\ ghost' = w.ghost
           /\ poolTxs' = ConfirmTxs(n) /\ pseen' = SubSeq(pchain, 1, n)
    /\ peakDue' = TRUE
    /\ UNCHANGED <<chainOnly, asks, poolFaults>>

\* It raises after some of the blocks: the database is rolled back and the caches are rebuilt;
\* the target, the configuration and a wallet that was created stay as they are then.
FailBlock ==
    /\ Len(pchain) > Len(pseen) /\ ~peakDue
    /\ poolFaults < MaxPoolFaults /\ poolFaults' = poolFaults + 1
    /\ \E n \in ForkPoint..Len(pseen) + 1 :
         LET w == Reconsider(Wallet, n)
         IN  /\ wish' = w.wish /\ poolCfg' = w.cfg
             /\ ghost' = (ghost \/ (hist = <<>> /\ w.hist # <<>>))
    /\ UNCHANGED <<chainOnly, pseen, hist, poolTxs, peakDue, asks>>

-----------------------------------------------------------------------------
Current == get_current_state(hist)
Tip == TipOf(hist)
Pending == {tx \in poolTxs : tx.conf = 0}
have_unconfirmed_transaction == \E tx \in Pending : tx.spends[1].kind # "launch"

add_pending_transaction(spends) == poolTxs' = poolTxs \cup {[spends |-> spends, conf |-> 0]}

Ask == asks < MaxAsks /\ asks' = asks + 1

_verify_pooling_state(s) == Lock(s) \in MinLock..MaxLock
_verify_pool_state(s) == s.state = "self" \/ _verify_pooling_state(s)

\* The singleton starts in the state that is asked for.
generate_launcher_spend(s) == <<Spend("launch", <<>>, s)>>

create_new_pool_wallet_transaction(s) ==
    /\ Ask /\ poolTxs = {} /\ hist = <<>> /\ _verify_pool_state(s)
    /\ add_pending_transaction(generate_launcher_spend(s))
    /\ UNCHANGED <<chainOnly, pseen, hist, ghost, wish, poolCfg, peakDue, poolFaults>>

\* generate_travel_transaction: out of a pool the way is through the waiting room.
generate_travel_transaction(target) ==
    <<create_travel_spend(Tip, IF Current.state = "farming" THEN [Current EXCEPT !.state = "leaving"]
                               ELSE target)>>

MayLeave == Current.state = "leaving" => Len(pseen) > Last(hist).height + Lock(Current)

Travel(target) ==
    /\ Ask /\ hist # <<>> /\ ~have_unconfirmed_transaction /\ wish = NoState
    /\ _verify_pool_state(target) /\ MayLeave
    /\ wish' = target /\ add_pending_transaction(generate_travel_transaction(target))
    /\ UNCHANGED <<chainOnly, pseen, hist, ghost, poolCfg, peakDue, poolFaults>>

join_pool(p) == Travel(FarmingTo(p)) /\ Current # FarmingTo(p)

self_pool == Travel(Self) /\ Current.state # "self"

\* claim_pool_rewards, of n rewards.
claim_pool_rewards(n) ==
    /\ Ask /\ hist # <<>> /\ ~have_unconfirmed_transaction
    /\ add_pending_transaction(create_absorb_spend(Tip, Current, n))
    /\ UNCHANGED <<chainOnly, pseen, hist, ghost, wish, poolCfg, peakDue, poolFaults>>

\* delete_unconfirmed_transactions
DeletePending ==
    /\ Ask /\ have_unconfirmed_transaction
    /\ poolTxs' = {tx \in poolTxs : tx.conf # 0 \/ tx.spends[1].kind = "launch"}
    /\ UNCHANGED <<chainOnly, pseen, hist, ghost, wish, poolCfg, peakDue, poolFaults>>

LastTxBlock == Max({0} \cup (TxBlocks \cap 1..Len(pseen)))

\* A transaction that is not confirmed spends the tip.
AlreadySubmitted == \E tx \in Pending : \E i \in DOMAIN tx.spends : tx.spends[i].coin = Tip

SecondDue ==
    /\ hist # <<>> /\ wish # NoState /\ Current.state = "leaving"
    /\ LastTxBlock > Last(hist).height + Lock(Current) + Buffer

\* new_peak: the second transaction is sent when the waiting time is over.
new_peak ==
    /\ peakDue /\ peakDue' = FALSE
    /\ IF SecondDue /\ ~AlreadySubmitted
       THEN add_pending_transaction(generate_travel_transaction(wish)) ELSE UNCHANGED poolTxs
    /\ UNCHANGED <<chainOnly, pseen, hist, ghost, wish, poolCfg, asks, poolFaults>>

\* create_from_db: the spends are there, the target is not.
Restart ==
    /\ poolFaults < MaxPoolFaults /\ poolFaults' = poolFaults + 1
    /\ wish' = NoState /\ ghost' = FALSE /\ peakDue' = FALSE
    /\ UNCHANGED <<chainOnly, pseen, hist, poolTxs, poolCfg, asks>>

Next ==
    \/ Mine \/ Fork \/ ReceiveBlock \/ FailBlock \/ new_peak \/ Restart \/ DeletePending
    \/ create_new_pool_wallet_transaction(Self) \/ self_pool
    \/ \E p \in Pool : create_new_pool_wallet_transaction(FarmingTo(p)) \/ join_pool(p)
    \/ \E n \in 1..2 : claim_pool_rewards(n)

Spec == Init /\ [][Next]_poolVars

-----------------------------------------------------------------------------
\* The history is that of the singleton on the wallet's chain, after reorgs, two transitions in
\* one block, failed transactions and restarts; and unless a transaction has failed the farmer
\* is told the state the singleton has.
PoolStateOfChain ==
    /\ hist = Lineage(pseen)
    /\ hist # <<>> /\ poolFaults = 0 => poolCfg = Current

\* The user can change pools, as the class comment says: while a target is set, a pending
\* transaction spends the tip or the waiting time passes.  It is not so when the pool absorbs a
\* reward first: the transaction counts as confirmed, the target stays, and every request is
\* refused until the wallet is started again.
ChangeGoesOn ==
    wish # NoState /\ ~peakDue => AlreadySubmitted \/ (Current.state = "leaving" /\ ~SecondDue)
=============================================================================
