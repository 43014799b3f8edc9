------------------------------- MODULE Trade -------------------------------
(***************************************************************************)
(* Offers of wallets: a maker signs its half of a trade and gives it away  *)
(* in a file, a taker completes it and sends the bundle, and both follow   *)
(* the coins of the trade on the chain to tell whether it was confirmed,   *)
(* failed or was cancelled.  Several takers may complete one offer, and    *)
(* the maker may cancel it, in its records only or by spending the coins.  *)
(***************************************************************************)
EXTENDS Naturals, Sequences, FiniteSets, SequencesExt, FiniteSetsExt

CONSTANTS
    Trader, Taker, \* wallets, and those that are given the file of an offer
    Coin, Owner,   \* coins, and the wallet of each
    Offer, Gives,  \* offers, and the amount of each, in coins
    MaxBlocks, MaxCancels, MaxTorn \* bounds

VARIABLES
    files,    \* the files of offers: which offer, and the coins of the maker
    trades,   \* the trade records of each wallet, in the order of the table
    pending,  \* the transactions of each wallet that are not confirmed
    pool,     \* the bundles sent to the network
    blocks,   \* the chain: the bundles of each block
    seenUpTo, \* the number of blocks each wallet has processed
    cancels, torn

tradeVars == <<files, trades, pending, pool, blocks, seenUpTo, cancels, torn>>

Init ==
    /\ files = {} /\ trades = [w \in Trader |-> <<>>] /\ pending = [w \in Trader |-> {}]
    /\ pool = {} /\ blocks = <<>> /\ seenUpTo = [w \in Trader |-> 0] /\ cancels = 0 /\ torn = 0

-----------------------------------------------------------------------------
\* The coins the maker's half and the taker's half create.
HalfOf(o, w) == <<o, w>>
Makers(o) == HalfOf(o, "maker")

Spends(S) == {<<c, "spent">> : c \in S}

Removals(b) == b.rems
Additions(b) == IF b.kind = "trade" THEN {Makers(b.offer), HalfOf(b.offer, b.by)} ELSE {}

Record(w, o, rems, adds, status) ==
    [offer |-> o, rems |-> rems, adds |-> adds, status |-> status, since |-> seenUpTo[w],
     revived |-> FALSE]

CoinsOf(t) == Spends(t.rems) \cup t.adds
IsPending(t) == t.status \in {"PENDING_ACCEPT", "PENDING_CONFIRM", "PENDING_CANCEL"}
PendingTrades(trs) == {trs[i] : i \in {j \in DOMAIN trs : IsPending(trs[j])}}

\* get_locked_coins: coins of pending trades are not selected.
get_locked_coins(w) == UNION {t.rems : t \in PendingTrades(trades[w])}

SpentIn(m, n) == UNION {Removals(b) : b \in UNION {blocks[i] : i \in m..n}}
Spent(n) == SpentIn(1, n)

\* get_spendable_coins_for_wallet
Spendable(w) ==
    {c \in Coin : /\ Owner[c] = w /\ c \notin Spent(seenUpTo[w]) \cup get_locked_coins(w)
                  /\ \A b \in pending[w] : c \notin Removals(b)}

\* select_coins, of coins of one amount.
Selections(w, n) == {S \in SUBSET Spendable(w) : Cardinality(S) = n}

Free(o) == \A f \in files : f.offer # o

\* add_trade_record: a record that is replaced moves to the end of the table.
add_trade_record(trs, t) ==
    Append(SelectSeq(trs, LAMBDA x : <<x.offer, x.adds>> # <<t.offer, t.adds>>), t)

\* _create_offer_for_ids: the coins are selected and the half is signed.
_create_offer_for_ids(w, o, S) == Record(w, o, S, {Makers(o)}, "PENDING_ACCEPT")

\* create_offer_for_ids: written to the file, then stored.
create_offer_for_ids(w, o) ==
    /\ Free(o)
    /\ \E S \in Selections(w, Gives[o]) :
         /\ files' = files \cup {[offer |-> o, rems |-> S]}
         /\ trades' = [trades EXCEPT ![w] = add_trade_record(@, _create_offer_for_ids(w, o, S))]
    /\ UNCHANGED <<pending, pool, blocks, seenUpTo, cancels, torn>>

\* The coins of the file are spendable coins of this wallet.
OwnOffer(w, f) == f.rems \cap Spendable(w) # {}

\* The part of respond_to_offer that completes the bundle with a coin of the taker.
CompleteOffer(w, f, c) == [kind |-> "trade", offer |-> f.offer, by |-> w, rems |-> f.rems \cup {c}]

\* respond_to_offer: the trade is stored, then the transaction, which is sent.
respond_to_offer(w, f) ==
    /\ ~OwnOffer(w, f) /\ \A i \in DOMAIN trades[w] : trades[w][i].offer # f.offer
    /\ \E S \in Selections(w, 1) :
         LET b == CompleteOffer(w, f, CHOOSE c \in S : TRUE)
         IN  /\ trades' = [trades EXCEPT ![w] =
                             add_trade_record(@, Record(w, f.offer, b.rems, Additions(b), "PENDING_CONFIRM"))]
             /\ pending' = [pending EXCEPT ![w] = @ \cup {b}] /\ pool' = pool \cup {b}
    /\ UNCHANGED <<files, blocks, seenUpTo, cancels, torn>>

\* set_status
set_status(trs, i, status) == add_trade_record(trs, [trs[i] EXCEPT !.status = status])

Cancelled(w, i, status) ==
    trades' = [trades EXCEPT ![w] =
                 set_status([@ EXCEPT ![i].revived = @ \/ ~IsPending(trades[w][i]),
                                   ![i].since = seenUpTo[w]], i, status)]

Cancel == cancels < MaxCancels /\ cancels' = cancels + 1

\* cancel_pending_offer: whatever the status was.
cancel_pending_offer(w, i) ==
    /\ Cancel /\ Cancelled(w, i, "CANCELED")
    /\ UNCHANGED <<files, pending, pool, blocks, seenUpTo, torn>>

SpendsOf(w, t) == {[kind |-> "cancel", offer |-> t.offer, by |-> w, rems |-> {c}]
                     : c \in {d \in t.rems : Owner[d] = w}}

\* cancel_pending_offer_safely: the wallet's coins are spent, each by its own transaction, and
\* the status is set; the wallet may stop before it is.
cancel_pending_offer_safely(w, i) ==
    /\ Cancel
    /\ LET txs == SpendsOf(w, trades[w][i])
       IN  pending' = [pending EXCEPT ![w] = @ \cup txs] /\ pool' = pool \cup txs
    /\ \/ Cancelled(w, i, "PENDING_CANCEL") /\ UNCHANGED torn
       \/ torn < MaxTorn /\ torn' = torn + 1 /\ UNCHANGED trades
    /\ UNCHANGED <<files, blocks, seenUpTo>>

\* Bundles are farmed whose coins are unspent.
FarmBlock ==
    /\ Len(blocks) < MaxBlocks
    /\ \E B \in SUBSET {b \in pool : Removals(b) \cap Spent(Len(blocks)) = {}} :
         /\ B # {} /\ \A a, b \in B : a # b => Removals(a) \cap Removals(b) = {}
         /\ blocks' = Append(blocks, B)
    /\ UNCHANGED <<files, trades, pending, pool, seenUpTo, cancels, torn>>

-----------------------------------------------------------------------------
\* A mutant: cancelled trades are looked at, too.
AnyTrade(trs, c) == {i \in DOMAIN trs : c \in CoinsOf(trs[i])}

\* get_trade_by_coin looks at the trades that are not cancelled, and takes the first.
get_trade_by_coin(trs, c) ==
    {i \in DOMAIN trs : trs[i].status # "CANCELED" /\ c \in CoinsOf(trs[i])}

\* The trade is confirmed if all of its coins are in the block; otherwise it has failed or
\* been cancelled.
Judge(trs, i, farmed) ==
    IF CoinsOf(trs[i]) \subseteq farmed THEN set_status(trs, i, "CONFIRMED")
    ELSE IF trs[i].status = "PENDING_CANCEL" THEN set_status(trs, i, "CANCELED")
    ELSE IF trs[i].status = "PENDING_CONFIRM" THEN set_status(trs, i, "FAILED") ELSE trs

\* coins_of_interest_farmed: coins of a trade that has been judged are passed over.
coins_of_interest_farmed(trs, farmed) ==
    FoldLeft(LAMBDA acc, c :
               LET found == get_trade_by_coin(acc.trs, c)
               IN  IF c \in acc.checked \/ found = {} THEN acc
                   ELSE [trs |-> Judge(acc.trs, Min(found), farmed),
                         checked |-> acc.checked \cup Spends(acc.trs[Min(found)].rems) \cup {c}],
             [trs |-> trs, checked |-> {}], SetToSeq(farmed)).trs

\* get_coins_of_interest: removals and additions of pending trades.
get_coins_of_interest(trs) == UNION {CoinsOf(t) : t \in PendingTrades(trs)}

\* A wallet processes a block: the coins of interest, then the transactions it confirms.
SeeBlock(w) ==
    /\ seenUpTo[w] < Len(blocks) /\ seenUpTo' = [seenUpTo EXCEPT ![w] = @ + 1]
    /\ LET B == blocks[seenUpTo[w] + 1]
           removed == UNION {Removals(b) : b \in B}
           farmed == (Spends(removed) \cup UNION {Additions(b) : b \in B}) \cap get_coins_of_interest(trades[w])
       IN  /\ trades' = [trades EXCEPT ![w] = coins_of_interest_farmed(@, farmed)]
           /\ pending' = [pending EXCEPT ![w] = {b \in @ : Removals(b) \cap removed = {}}]
    /\ UNCHANGED <<files, pool, blocks, cancels, torn>>

Next ==
    \/ FarmBlock
    \/ \E w \in Trader :
      \/ \E o \in Offer : w \notin Taker /\ create_offer_for_ids(w, o)
      \/ \E f \in files : w \in Taker /\ respond_to_offer(w, f)
      \/ \E i \in DOMAIN trades[w] : cancel_pending_offer(w, i) \/ cancel_pending_offer_safely(w, i)
      \/ SeeBlock(w)

Spec == Init /\ [][Next]_tradeVars

-----------------------------------------------------------------------------
FarmedBy(t, n) == \E i \in 1..n : \E b \in blocks[i] : t.adds \subseteq Additions(b)

\* No other trade the wallet looks at has a coin of this one: none but trades cancelled while
\* they were pending.
Alone(trs, i) ==
    \A j \in DOMAIN trs \ {i} :
      \/ trs[j].status = "CANCELED" /\ ~trs[j].revived
      \/ CoinsOf(trs[i]) \cap CoinsOf(trs[j]) = {}

\* What a wallet says of a trade is what the chain did with it: confirmed only if the whole
\* trade is on the chain, failed only if it can no longer be; and a trade that waits to be
\* confirmed or cancelled is decided by the first block that spends one of its coins, whichever
\* taker or cancellation came first.  (Where two trades share a coin, get_trade_by_coin returns
\* the first of them, also when that has failed already, and the other one waits for ever.)
TradesOfChain ==
    \A w \in Trader : \A i \in DOMAIN trades[w] :
      LET t == trades[w][i]
      IN  /\ t.status = "CONFIRMED" => FarmedBy(t, seenUpTo[w])
          /\ t.status = "FAILED" => t.rems \cap Spent(Len(blocks)) # {} /\ ~FarmedBy(t, Len(blocks))
          /\ t.status \in {"PENDING_CONFIRM", "PENDING_CANCEL"} /\ Alone(trades[w], i) =>
               t.rems \cap SpentIn(t.since + 1, seenUpTo[w]) = {}
=============================================================================
