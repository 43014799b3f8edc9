----------------------------- MODULE MCNetwork ------------------------------
(***************************************************************************)
(* Small instances of LockQueue, WalletFeed, TxRelay, Sync and AddressBook.*)
(* The constants and the properties of the first four are those of the     *)
(* modules that prove them for all instances.                              *)
(* They share no state, so a behaviour of all of them is one of each: TLC  *)
(* takes one at a time, and the others stay as they began.                 *)
(***************************************************************************)
EXTENDS NetworkProofs, SyncProofs, TLC

CONSTANTS
    Modes,  \* what to run: some of "lock", "lock_cancel", "lock_all", "feed", "transactions", "sync",
            \* "addresses", "dialling" ("quiet" and "lossy" in MCProgress)
    u, h1, h2, l,
    Host, Source, NewCell, TriedCell, MaxIds, MaxRefs, MaxCollisions, MaxSince, MaxTears, MaxPending,
    Neighbour, MaxRelays  \* AddressBook

VARIABLES
    mode,
    book, collide, db, saving, since, tears, dialled, dialDone, dialWait, knownBy, relayQueue,
    posted, relays  \* AddressBook

A == INSTANCE AddressBook

\* Four clients of the lock: one of the ultra priority, two of the high and one
\* of the low.
MCPriority == u :> 0 @@ h1 :> 1 @@ h2 :> 1 @@ l :> 2

\* The transaction that is sent by the wallet is the one that peers announce.
MCCallTx == [c \in Call |-> 1]

\* A main chain m0 .. m5 and a fork x1 .. x4 that parts from it after m0.
MCBlock == {"m0", "m1", "m2", "m3", "m4", "m5", "x1", "x2", "x3", "x4"}
MCHeight ==
    [b \in MCBlock |-> CASE b = "m0" -> 0 [] b \in {"m1", "x1"} -> 1 [] b \in {"m2", "x2"} -> 2
                           [] b \in {"m3", "x3"} -> 3 [] b \in {"m4", "x4"} -> 4 [] b = "m5" -> 5]
MCPrev ==
    [b \in MCBlock |-> CASE b = "m0" -> "none" [] b \in {"m1", "x1"} -> "m0" [] b = "m2" -> "m1"
                           [] b = "m3" -> "m2" [] b = "m4" -> "m3" [] b = "m5" -> "m4"
                           [] b = "x2" -> "x1" [] b = "x3" -> "x2" [] b = "x4" -> "x3"]
MainTips == {"m3", "m5"}
ForkTips == {"x4", "m3"}

\* Three addresses heard of from two groups of peers, with cells they compete for.
MCNewCell ==
    "h1" :> ("s1" :> "c1" @@ "s2" :> "c2") @@ "h2" :> ("s1" :> "c1" @@ "s2" :> "c3")
    @@ "h3" :> ("s1" :> "c2" @@ "s2" :> "c3")
MCTriedCell == "h1" :> "t1" @@ "h2" :> "t1" @@ "h3" :> "t2"

\* The instances are such as the theorems are about.
ASSUME FeedConstants /\ RelayConstants /\ SyncConstants

feedVars == <<here, subs, subsOf, counter, reg, greet, height, version, unsaid, saidPeak, said>>
relayVars ==
    <<linked, pendingTx, peersWithTx, fetch, asked, txQueue, permits, dispatch, created, adding, seenTx,
      inPool, responses, send, inSync, failures>>
syncVars ==
    <<known, peak, tip, has, connected, session, peak_to_peer, peer_to_peak, peers_changed,
      sync_target, sync_mode, long_sync, batch_syncing, backtrack_syncing, task, sync, lock>>
addressVars ==
    <<book, collide, db, saving, since, tears, dialled, dialDone, dialWait, knownBy, relayQueue,
      posted, relays>>
allVars == <<mode, vars, feedVars, relayVars, syncVars, addressVars>>

-----------------------------------------------------------------------------
MCInit ==
    /\ mode \in Modes
    /\ Init /\ W!Init /\ R!Init /\ Y!Init /\ A!Init
    /\ mode \notin {"sync", "quiet", "lossy"} => peak = "x2" /\ \A p \in Peer : tip[p] = "m3"

RunLock ==
    /\ \/ mode = "lock" /\ Next
       \/ mode = "lock_cancel" /\ NextCancel
       \/ mode = "lock_all" /\ NextAll
    /\ UNCHANGED <<mode, feedVars, relayVars, syncVars, addressVars>>
RunFeed == mode = "feed" /\ W!Next /\ UNCHANGED <<mode, vars, relayVars, syncVars, addressVars>>
RunTransactions ==
    mode = "transactions" /\ R!Next /\ UNCHANGED <<mode, vars, feedVars, syncVars, addressVars>>
RunSync == mode = "sync" /\ Y!Next /\ UNCHANGED <<mode, vars, feedVars, relayVars, addressVars>>
RunAddresses ==
    /\ \/ mode = "addresses" /\ A!BookNext
       \/ mode = "dialling" /\ (A!DialNext \/ \E h \in Host : A!add_to_new_table_(h, "s1"))
    /\ UNCHANGED <<mode, vars, feedVars, relayVars, syncVars>>

MCNext == RunLock \/ RunFeed \/ RunTransactions \/ RunSync \/ RunAddresses
MCSpec == MCInit /\ [][MCNext]_allVars

\* The lock alone, when tasks are cancelled.
CancelSpec == MCSpec /\ Fairness

Symmetry == Permutations(Peer) \cup Permutations(Task) \cup Permutations(SyncTask)
-----------------------------------------------------------------------------
\* The tables of the address manager agree after any sequence of additions, successes,
\* evictions, clean-ups, saves and restarts, and what the manager saves is what it loads.
BookSound == A!BookSound /\ A!SaveRestores
=============================================================================
