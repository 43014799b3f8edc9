----------------------------- MODULE WalletSync -----------------------------
(***************************************************************************)
(* How a wallet follows its full nodes: the handlers of new_peak_wallet,   *)
(* which add a few blocks, a batch, or ask for a weight proof; sync_job,   *)
(* which adds the blocks of a proven peak; the peaks kept meanwhile; and   *)
(* the log in with another key, which replaces the wallet while handlers   *)
(* and connections of the old one are still ending.                        *)
(* The nodes are on one chain, so that a height stands for a block.        *)
(***************************************************************************)
EXTENDS Naturals, Sequences, FiniteSets, FiniteSetsExt, SequencesExt

CONSTANTS
    Node,
    Tip,       \* the height the chain stops at
    Short,     \* short_sync_blocks_behind_threshold
    Near,      \* how far behind a wallet may be and need no weight proof
    Recent,    \* WEIGHT_PROOF_RECENT_BLOCKS
    BatchSize, \* MAX_BLOCK_COUNT_PER_REQUESTS
    KeptPeaks, \* capacity of last_new_peak_messages
    Start,     \* the peaks of the nodes at first
    MaxTrouble \* bound on connections lost and log ins

VARIABLES
    tip, link, \* of a node: its peak, and whether it is connected
    heard,     \* the last peak of a node that reached the wallet on this connection
    session,   \* "in", or "out" while the wallet is replaced
    height,    \* the peak of the wallet
    queue,     \* handlers that wait for new_peak_lock
    busy,      \* the handler that has it
    stray,     \* a weight proof the former wallet was validating
    peaks,     \* potential_peaks with peak_fork_point
    event, recheck, \* sync_event, and check_new_peak asleep
    syncing,   \* sync_job
    kept,      \* last_new_peak_messages
    chainLock, \* who has blockchain.lock
    trouble

nodes == <<tip, link, heard>>
handlers == <<queue, busy, stray>>
syncState == <<peaks, event, recheck, syncing, kept>>
syncVars == <<nodes, session, height, handlers, syncState, chainLock, trouble>>

NoFork == Tip + 1
Idle == [pc |-> "none", n |-> "", h |-> 0, cur |-> 0, next |-> 0, fork |-> 0]
Waiting == [pc |-> "wait", h |-> 0, next |-> 0]

Init ==
    /\ tip = Start /\ link = [n \in Node |-> FALSE] /\ heard = [n \in Node |-> 0]
    /\ session = "in" /\ height = 0
    /\ queue = <<>> /\ busy = Idle /\ stray = <<>>
    /\ peaks = [h \in 1..Tip |-> NoFork] /\ event = FALSE /\ recheck = FALSE
    /\ syncing = Waiting /\ kept = <<>> /\ chainLock = "free"
    /\ trouble = 0

-----------------------------------------------------------------------------
\* LRUCache.put: the peak of a peer replaces the one before; the oldest is dropped.
Put(cache, n, h) ==
    LET c == Append(SelectSeq(cache, LAMBDA e : e.n # n), [n |-> n, h |-> h])
    IN  IF Len(c) > KeptPeaks THEN Tail(c) ELSE c

\* One handler of a peak of a node waits for the lock: a second one would do the same again.
Enqueue(q, new) == FoldLeft(LAMBDA acc, e : IF e \in ToSet(acc) THEN acc ELSE Append(acc, e), q, new)

\* new_peak_wallet, up to the lock.
new_peak_wallet(n, h) ==
    IF h <= height THEN UNCHANGED <<queue, kept>>
    ELSE IF syncing.pc # "wait" THEN kept' = Put(kept, n, h) /\ UNCHANGED queue
    ELSE queue' = Enqueue(queue, <<[n |-> n, h |-> h]>>) /\ UNCHANGED kept

\* A message of a node: refused as long as the wallet is not logged in.
Deliver(n, h) ==
    IF session = "in" THEN heard' = [heard EXCEPT ![n] = h] /\ new_peak_wallet(n, h)
    ELSE UNCHANGED <<heard, queue, kept>>

\* A node has a new peak, and announces it.
Grow(n) ==
    /\ tip[n] < Tip
    /\ \E h \in tip[n] + 1..Tip :
         /\ tip' = [tip EXCEPT ![n] = h]
         /\ IF link[n] THEN Deliver(n, h) ELSE UNCHANGED <<heard, queue, kept>>
    /\ UNCHANGED <<link, session, height, busy, stray, peaks, event, recheck, syncing,
                   chainLock, trouble>>

\* The task that reconnects to the nodes of the configuration; a node announces its peak.
Reconnect(n) ==
    /\ ~link[n] /\ link' = [link EXCEPT ![n] = TRUE]
    /\ IF tip[n] > 0 THEN Deliver(n, tip[n]) ELSE UNCHANGED <<heard, queue, kept>>
    /\ UNCHANGED <<tip, session, height, busy, stray, peaks, event, recheck, syncing,
                   chainLock, trouble>>

\* Handlers of the peer go on: new_peak_wallet is a task of its own.
Close(S) ==
    /\ link' = [n \in Node |-> link[n] /\ n \notin S]
    /\ heard' = [n \in Node |-> IF n \in S THEN 0 ELSE heard[n]]

Drop(n) ==
    /\ trouble < MaxTrouble /\ trouble' = trouble + 1 /\ link[n] /\ Close({n})
    /\ UNCHANGED <<tip, session, height, handlers, syncState, chainLock>>

-----------------------------------------------------------------------------
\* The lock is taken; the peak may have been reached meanwhile.
TakePeakLock ==
    /\ session = "in" /\ busy = Idle /\ queue # <<>> /\ queue' = Tail(queue)
    /\ LET q == Head(queue)
       IN  busy' = IF height >= q.h THEN Idle
                   ELSE [Idle EXCEPT !.pc = "header", !.n = q.n, !.h = q.h, !.cur = height]
    /\ UNCHANGED <<nodes, session, height, stray, syncState, chainLock, trouble>>

IsNear(cur, h) == (cur = 0 /\ h < Recent) \/ h < cur + Near

\* The header of the peak has come: how the wallet gets there depends on how far behind it
\* was.  Without an answer the peak is forgotten.
RequestHeader ==
    /\ busy.pc = "header"
    /\ busy' = IF ~link[busy.n] THEN Idle
               ELSE IF IsNear(busy.cur, busy.h)
               THEN IF busy.h <= busy.cur + Short THEN [busy EXCEPT !.pc = "short"]
                    ELSE [busy EXCEPT !.pc = "batch", !.next = Max({1, busy.cur}) - 1]
               ELSE IF busy.h >= Recent THEN [busy EXCEPT !.pc = "proof"] ELSE Idle
    /\ UNCHANGED <<nodes, session, height, queue, stray, syncState, chainLock, trouble>>

\* wallet_short_sync_backtrack and complete_blocks, with blockchain.lock.
ShortSync ==
    /\ busy.pc = "short" /\ chainLock = "free" /\ busy' = Idle
    /\ height' = IF link[busy.n] THEN Max({height, busy.h}) ELSE height
    /\ UNCHANGED <<nodes, session, queue, stray, syncState, chainLock, trouble>>

\* fetch_blocks_and_validate of a batch, from one peer after another: one that has not got
\* the blocks is closed; blocks that are not connected are not added.
FetchBatch(next, end, ok) ==
    LET able == {n \in Node : link[n] /\ tip[n] >= end}
        late == {n \in Node : link[n] /\ tip[n] < end}
    IN  /\ ok = (able # {} /\ next <= height + 1)
        /\ \E S \in SUBSET late : (able = {} => S = late) /\ Close(S)
        /\ height' = IF ok THEN Max({height, end}) ELSE height

BatchEnd(next, h) == Min({h, next + BatchSize})

\* batch_sync_to_peak of a handler; blockchain.lock is not taken.
BatchSync ==
    /\ busy.pc = "batch"
    /\ \E ok \in BOOLEAN :
         /\ FetchBatch(busy.next, BatchEnd(busy.next, busy.h), ok)
         /\ busy' = IF ok /\ BatchEnd(busy.next, busy.h) < busy.h
                    THEN [busy EXCEPT !.next = @ + BatchSize] ELSE Idle
    /\ UNCHANGED <<tip, session, queue, stray, syncState, chainLock, trouble>>

\* The weight proof has come, and is validated against the chain of this wallet.
RequestProof ==
    /\ busy.pc = "proof"
    /\ IF ~link[busy.n] THEN busy' = Idle
       ELSE \E f \in {0, height} : busy' = [busy EXCEPT !.pc = "validate", !.fork = f]
    /\ UNCHANGED <<nodes, session, height, queue, stray, syncState, chainLock, trouble>>

\* add_potential_fork_point, add_potential_peak, start_sync
AddPotentialPeak(h, f) == peaks' = [peaks EXCEPT ![h] = f] /\ event' = TRUE

Validated ==
    /\ busy.pc = "validate" /\ busy' = Idle /\ AddPotentialPeak(busy.h, busy.fork)
    /\ UNCHANGED <<nodes, session, height, queue, stray, recheck, syncing, kept, chainLock, trouble>>

\* The same for a handler of the former wallet: the peak is added to the wallet there is.
StrayValidated ==
    /\ stray # <<>> /\ stray' = <<>>
    /\ IF session = "in" THEN AddPotentialPeak(stray[1].h, stray[1].fork) ELSE UNCHANGED <<peaks, event>>
    /\ UNCHANGED <<nodes, session, height, queue, busy, recheck, syncing, kept, chainLock, trouble>>

-----------------------------------------------------------------------------
Potential == {h \in 1..Tip : peaks[h] # NoFork}

\* check_new_peak, at the start of every round of sync_job.
check_new_peak == recheck' = (recheck \/ \E p \in Potential : p > height')

\* A mutant: the peaks that came meanwhile are forgotten.
NoReplay ==
    /\ syncing' = Waiting /\ check_new_peak /\ kept' = <<>> /\ UNCHANGED queue

\* The end of a round: the peaks that came meanwhile are handled now.
EndRound ==
    /\ syncing' = Waiting /\ check_new_peak /\ kept' = <<>>
    /\ queue' = Enqueue(queue, SelectSeq(kept, LAMBDA e : e.h > height'))

\* _sync goes for the heaviest of the potential peaks, unless the wallet has it or no node is
\* connected.
NothingToSync == Potential = {} \/ Max(Potential) <= height \/ \A n \in Node : ~link[n]

\* The start of a round of sync_job, up to the lock.
StartSync ==
    /\ session = "in" /\ syncing.pc = "wait" /\ event /\ event' = FALSE /\ kept' = <<>>
    /\ IF NothingToSync
       THEN UNCHANGED syncing /\ recheck' = (recheck \/ \E p \in Potential : p > height)
       ELSE syncing' = [pc |-> "lock", h |-> Max(Potential), next |-> 0] /\ UNCHANGED recheck
    /\ UNCHANGED <<nodes, session, height, handlers, peaks, chainLock, trouble>>

\* check_fork_next_block: the fork point is the wallet's peak when a node has the block after it.
SyncLock ==
    /\ syncing.pc = "lock" /\ chainLock = "free" /\ chainLock' = "sync"
    /\ \E f \in {peaks[syncing.h]} \cup {height : n \in {m \in Node : link[m] /\ tip[m] > height}} :
         syncing' = [syncing EXCEPT !.pc = "batch", !.next = Max({1, f}) - 1]
    /\ UNCHANGED <<nodes, session, height, handlers, peaks, event, recheck, kept, trouble>>

SyncBatch ==
    /\ syncing.pc = "batch"
    /\ \E ok \in BOOLEAN :
         /\ FetchBatch(syncing.next, BatchEnd(syncing.next, syncing.h), ok)
         /\ IF ok /\ BatchEnd(syncing.next, syncing.h) < syncing.h
            THEN syncing' = [syncing EXCEPT !.next = @ + BatchSize] /\ UNCHANGED <<recheck, kept, queue, chainLock>>
            ELSE EndRound /\ chainLock' = "free"
    /\ UNCHANGED <<tip, session, busy, stray, peaks, event, trouble>>

\* check_new_peak after its sleep; also one of the former wallet.
Recheck ==
    /\ recheck /\ recheck' = FALSE /\ event' = (session = "in")
    /\ UNCHANGED <<nodes, session, height, handlers, peaks, syncing, kept, chainLock, trouble>>

-----------------------------------------------------------------------------
\* log_in with another key: _close and _await_closed.  The connections are closed, so that the
\* requests of the handlers are not answered; a validation goes on.
StopWallet ==
    /\ session = "in" /\ trouble < MaxTrouble /\ trouble' = trouble + 1 /\ session' = "out"
    /\ Close(Node) /\ queue' = <<>> /\ busy' = Idle
    /\ stray' = IF busy.pc = "validate" THEN <<[h |-> busy.h, fork |-> busy.fork]>> ELSE stray
    /\ syncing' = Waiting /\ event' = FALSE /\ chainLock' = "free"
    /\ UNCHANGED <<tip, height, peaks, recheck, kept>>

\* _start: the wallet of the other key has a database of its own.
StartWallet ==
    /\ session = "out" /\ session' = "in" /\ height' = 0
    /\ peaks' = [h \in 1..Tip |-> NoFork] /\ event' = FALSE
    /\ UNCHANGED <<nodes, handlers, recheck, syncing, kept, chainLock, trouble>>

Handler == TakePeakLock \/ RequestHeader \/ ShortSync \/ BatchSync \/ RequestProof \/ Validated \/ StrayValidated
SyncJob == StartSync \/ SyncLock \/ SyncBatch \/ Recheck

Next ==
    \/ \E n \in Node : Grow(n) \/ Reconnect(n) \/ Drop(n)
    \/ Handler \/ SyncJob \/ StopWallet \/ StartWallet

Spec == Init /\ [][Next]_syncVars

-----------------------------------------------------------------------------
\* The wallet reaches the peaks its nodes have told it: also one that comes while the wallet
\* syncs to another, or while handlers of other peaks hold the lock, or when the sync to a peak
\* fails.  A node whose connection is lost tells its peak again.  But for a proof that was
\* validated for the former wallet: its fork point is above the peak of this one, and the sync
\* fails each time until a heavier peak is proven.
CaughtUp == (\A n \in Node : heard[n] <= height) \/ (\E p \in Potential : peaks[p] > height)
=============================================================================
