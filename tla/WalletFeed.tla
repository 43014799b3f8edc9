----------------------------- MODULE WalletFeed -----------------------------
(***************************************************************************)
(* What a full node tells its wallets: the peak, on connecting and with    *)
(* every block, and the state of the coins a wallet registered for, by     *)
(* coin id or by puzzle hash.                                              *)
(*                                                                         *)
(* A block is committed under the blockchain lock, which is kept while the *)
(* mempool is rebuilt; the announcement follows without another await.     *)
(* The state of the coins of a topic is a version that a block raises.     *)
(***************************************************************************)
EXTENDS Naturals, FiniteSets, FiniteSetsExt

CONSTANTS
    Wallet,       \* node ids of wallets
    Topic,        \* coin ids and puzzle hashes
    PuzzleHash,   \* the topics that are puzzle hashes
    Reg,          \* ids of calls of the two register_interest handlers
    SubLimit,     \* 100000, the subscriptions a peer may have
    MaxHeight     \* bound on blocks

VARIABLES
    here,      \* wallets in server.all_connections
    subs,      \* ph_subscriptions and coin_subscriptions
    subsOf,    \* peer_puzzle_hash and peer_coin_ids
    counter,   \* peer_sub_counter, for the peers in its domain
    reg,       \* reg[r]: a call of register_interest_in_puzzle_hash or _coin
    greet,     \* greet[p]: the peak on_connect has read and not sent yet
    height,    \* the peak
    version,   \* version[t]: what the coin store has on the coins of t
    unsaid,    \* topics changed by the committed block that is not announced
    saidPeak,  \* saidPeak[p]: the newest peak sent on the connection of p
    said       \* said[p][t]: the newest version of t sent on it, 0 before any

feedVars == <<here, subs, subsOf, counter, reg, greet, height, version, unsaid, saidPeak, said>>
registry == <<subs, subsOf, counter>>
ledger == <<height, version, unsaid>>
sent == <<saidPeak, said>>

Idle == [stage |-> "idle"]
Nothing == 0 - 1

Init ==
    /\ here = {} /\ subs = [t \in Topic |-> {}] /\ subsOf = [p \in Wallet |-> {}]
    /\ counter = [p \in {} |-> 0] /\ reg = [r \in Reg |-> Idle]
    /\ greet = [p \in Wallet |-> Nothing]
    /\ height = 1 /\ version = [t \in Topic |-> 1] /\ unsaid = {}
    /\ saidPeak = [p \in Wallet |-> 0] /\ said = [p \in Wallet |-> [t \in Topic |-> 0]]

-----------------------------------------------------------------------------
\* connection_added and on_connect: the peak is read from the database, then sent.
Connect(p) ==
    /\ p \notin here /\ here' = here \cup {p} /\ greet' = [greet EXCEPT ![p] = height]
    /\ UNCHANGED <<registry, reg, ledger, sent>>

on_connect(p) ==
    /\ greet[p] # Nothing /\ greet' = [greet EXCEPT ![p] = Nothing]
    /\ saidPeak' = [saidPeak EXCEPT ![p] = Max({@, greet[p]})]
    /\ UNCHANGED <<here, registry, reg, ledger, said>>

\* The sets of the peer stay in peer_puzzle_hash and peer_coin_ids.
remove_subscriptions(p) ==
    /\ subs' = [t \in Topic |-> IF t \in subsOf[p] THEN subs[t] \ {p} ELSE subs[t]]
    /\ counter' = [q \in DOMAIN counter \ {p} |-> counter[q]]
    /\ UNCHANGED subsOf

\* on_disconnect, and the tasks of the peer are cancelled; a call that is still in the
\* queue of incoming messages runs nevertheless, with nobody to answer.
Disconnect(p) ==
    /\ p \in here /\ here' = here \ {p} /\ remove_subscriptions(p)
    /\ greet' = [greet EXCEPT ![p] = Nothing]
    /\ reg' = [r \in Reg |->
                 IF reg[r] = Idle \/ reg[r].peer # p THEN reg[r]
                 ELSE IF reg[r].stage = "queued" THEN [reg[r] EXCEPT !.answered = FALSE]
                 ELSE [reg[r] EXCEPT !.stage = "cancelled"]]
    /\ saidPeak' = [saidPeak EXCEPT ![p] = 0] /\ said' = [said EXCEPT ![p] = [t \in Topic |-> 0]]
    /\ UNCHANGED ledger

-----------------------------------------------------------------------------
RequestStates(r, p, S) ==
    /\ reg[r] = Idle /\ p \in here
    /\ reg' = [reg EXCEPT ![r] = [stage |-> "queued", peer |-> p, todo |-> S, topics |-> S,
                                  answered |-> TRUE, states |-> [t \in S |-> 0]]]
    /\ UNCHANGED <<here, registry, greet, ledger, sent>>

\* The peer p subscribes to the topics of S, up to the limit.
Subscribe(p, S, count) ==
    LET new == {t \in S : p \notin subs[t]}
    IN  \E T \in SUBSET new :
        /\ Cardinality(T) = Min({Cardinality(new), SubLimit - count})
        /\ subs' = [t \in Topic |-> IF t \in T THEN subs[t] \cup {p} ELSE subs[t]]
        /\ subsOf' = [subsOf EXCEPT ![p] = @ \cup T]
        /\ counter' = [q \in DOMAIN counter \cup {p} |->
                         IF q = p THEN count + Cardinality(T) ELSE counter[q]]

\* The start of either call.  Coins are subscribed to at once, a puzzle hash after
\* the hint store was asked for its coins.
StartRegister(r) ==
    LET p == reg[r].peer
        at == IF p \in DOMAIN counter THEN counter[p] ELSE 0
        coins == reg[r].todo \ PuzzleHash
    IN  /\ reg[r] # Idle /\ reg[r].stage = "queued"
        /\ reg' = [reg EXCEPT ![r].stage = "hints", ![r].todo = @ \cap PuzzleHash]
        /\ Subscribe(p, coins, at)
        /\ UNCHANGED <<here, greet, ledger, sent>>

\* One puzzle hash; a counter that is gone raises KeyError and ends the call.
RegisterPuzzleHash(r) ==
    /\ reg[r] # Idle /\ reg[r].stage = "hints" /\ reg[r].todo # {}
    /\ \E t \in reg[r].todo :
         IF reg[r].peer \in DOMAIN counter
         THEN /\ Subscribe(reg[r].peer, {t}, counter[reg[r].peer])
              /\ reg' = [reg EXCEPT ![r].todo = @ \ {t}]
         ELSE reg' = [reg EXCEPT ![r].stage = "cancelled"] /\ UNCHANGED registry
    /\ UNCHANGED <<here, greet, ledger, sent>>

\* A mutant: the states are read before the topics are subscribed to.
ReadBeforeAll(r) ==
    /\ reg[r] # Idle /\ reg[r].stage = "hints"
    /\ \/ /\ \A t \in reg[r].topics : reg[r].states[t] = 0
          /\ reg' = [reg EXCEPT ![r].states = [t \in reg[r].topics |-> version[t]]]
       \/ /\ \A t \in reg[r].topics : reg[r].states[t] # 0
          /\ reg[r].todo = {} /\ reg' = [reg EXCEPT ![r].stage = "respond"]
    /\ UNCHANGED <<here, registry, greet, ledger, sent>>

\* get_coin_states_by_puzzle_hashes or get_coin_state_by_ids, after all the topics
\* were subscribed to.
ReadStates(r) ==
    /\ reg[r] # Idle /\ reg[r].stage = "hints" /\ reg[r].todo = {}
    /\ reg' = [reg EXCEPT ![r].states = [t \in reg[r].topics |-> version[t]],
                          ![r].stage = "respond"]
    /\ UNCHANGED <<here, registry, greet, ledger, sent>>

Respond(r) ==
    /\ reg[r] # Idle /\ reg[r].stage = "respond"
    /\ reg' = [reg EXCEPT ![r] = Idle]
    /\ said' = IF reg[r].answered
               THEN [said EXCEPT ![reg[r].peer] =
                       [t \in Topic |-> IF t \in reg[r].topics THEN Max({@[t], reg[r].states[t]}) ELSE @[t]]]
               ELSE said
    /\ UNCHANGED <<here, registry, greet, ledger, saidPeak>>

\* The slot of an ended call is free again.
EndRegister(r) ==
    /\ reg[r] # Idle /\ reg[r].stage = "cancelled" /\ reg' = [reg EXCEPT ![r] = Idle]
    /\ UNCHANGED <<here, registry, greet, ledger, sent>>

-----------------------------------------------------------------------------
\* A block is committed; its post-processing still holds the lock.
CommitBlock(S) ==
    /\ unsaid = {} /\ height < MaxHeight
    /\ height' = height + 1 /\ unsaid' = S
    /\ version' = [t \in Topic |-> IF t \in S THEN height + 1 ELSE version[t]]
    /\ UNCHANGED <<here, registry, reg, greet, sent>>

\* update_wallets, which sends the changed coins to the subscribed peers that are
\* connected, and the new peak to all wallets.
update_wallets ==
    /\ unsaid # {} /\ unsaid' = {}
    /\ said' = [p \in Wallet |-> [t \in Topic |->
                  IF t \in unsaid /\ p \in subs[t] \cap here THEN version[t] ELSE said[p][t]]]
    /\ saidPeak' = [p \in Wallet |-> IF p \in here THEN height ELSE saidPeak[p]]
    /\ UNCHANGED <<here, registry, reg, greet, height, version>>

Next ==
    \/ \E p \in Wallet : Connect(p) \/ on_connect(p) \/ Disconnect(p)
    \/ \E r \in Reg, p \in Wallet : \E S \in ((SUBSET PuzzleHash) \cup (SUBSET (Topic \ PuzzleHash))) \ {{}} :
         RequestStates(r, p, S)
    \/ \E r \in Reg : StartRegister(r) \/ RegisterPuzzleHash(r) \/ ReadStates(r) \/ Respond(r) \/ EndRegister(r)
    \/ \E S \in (SUBSET Topic) \ {{}} : CommitBlock(S)
    \/ update_wallets

Spec == Init /\ [][Next]_feedVars

-----------------------------------------------------------------------------
\* The subscriptions of a peer are among those that its disconnection removes, and
\* peer_sub_counter counts them: through concurrent calls, the limit, and a
\* disconnection in the middle of a call.
SubscriptionsCounted ==
    /\ \A t \in Topic : \A p \in subs[t] : t \in subsOf[p] /\ p \in DOMAIN counter
    /\ \A p \in DOMAIN counter :
         counter[p] = Cardinality({t \in Topic : p \in subs[t]}) /\ counter[p] <= SubLimit

\* A wallet misses nothing: once every committed block is announced, a connected
\* wallet was sent the peak or is about to be, and was sent the newest state of each
\* topic it is subscribed to and was answered for.
WalletInformed ==
    unsaid = {} =>
      \A p \in here :
        /\ saidPeak[p] = height \/ greet[p] = height
        /\ \A t \in Topic : p \in subs[t] /\ said[p][t] > 0 => said[p][t] = version[t]
=============================================================================
