-------------------------------- MODULE Sync --------------------------------
(***************************************************************************)
(* How a full node catches up with its peers: the handler new_peak, the    *)
(* short syncs it runs (backtrack and batch), the long sync it starts as a *)
(* task of its own, and the SyncStore that all of them share.              *)
(*                                                                         *)
(* A peer answers from the chain of its current peak.  Blocks are valid;   *)
(* one whose parent is unknown is disconnected.  Adding a block or a batch *)
(* is one step: it happens under the blockchain lock (module Blockchain).  *)
(* Only the long sync holds that lock over several steps.  A handler keeps *)
(* the connection it was called on, here the peer and the number of its    *)
(* session; the SyncStore knows the peer only.                             *)
(***************************************************************************)
EXTENDS Integers, Sequences, FiniteSets, Functions

CONSTANTS
    Block, NoBlock, Height, Weight, Prev,  \* the tree of blocks
    Starts,                                \* what the node's peak may be at the start
    PeerBlock,                             \* the blocks that are peaks of peers
    Peer, MaxSession,                      \* a peer connects at most MaxSession times
    Task,                                  \* the handlers that new_peak_sem lets run
    SyncTask,                              \* long syncs that may exist at a time
    BACKTRACK, BEHIND,                     \* 5 and 6 in the code
    MAX_BLOCK_COUNT_PER_REQUESTS, WEIGHT_PROOF_RECENT_BLOCKS,
    short_sync_blocks_behind_threshold, sync_blocks_behind_threshold

VARIABLES
    known, peak,        \* the blockchain
    tip, has,           \* the peak of each peer and the blocks it knows
    connected, session, \* the peers we are connected to; the last session of each
    peak_to_peer, peer_to_peak, peers_changed,
    sync_target, sync_mode, long_sync,
    batch_syncing, backtrack_syncing,
    task,               \* what each new_peak handler is doing
    sync,               \* what each long sync is doing
    lock                \* the long sync that holds the blockchain lock

chain == <<known, peak>>
far == <<tip, has>>
net == <<connected, session>>
maps == <<peak_to_peer, peer_to_peak, peers_changed>>
flags == <<sync_target, sync_mode, long_sync>>
short == <<batch_syncing, backtrack_syncing>>
vars == <<chain, far, net, maps, flags, short, task, sync, lock>>

Idle == [pc |-> "idle"]
None == [pc |-> "none"]
Empty == [x \in {} |-> {}]

-----------------------------------------------------------------------------
ChainOf[b \in Block] == {b} \cup (IF Prev[b] = NoBlock THEN {} ELSE ChainOf[Prev[b]])

\* The block at height h of the chain of b, and the blocks at heights i to j.
At(b, h) == CHOOSE x \in ChainOf[b] : Height[x] = h
Slice(b, i, j) == [k \in 1 .. (j - i + 1) |-> At(b, i + k - 1)]

PeakHeight == IF peak = NoBlock THEN 0 ELSE Height[peak]

Connects(b) == Prev[b] = NoBlock \/ Prev[b] \in known
Heavier(b) == IF peak = NoBlock THEN TRUE ELSE Weight[b] > Weight[peak]

\* The blocks of s, each the parent of the next, are received one after the other.
Receive(s) ==
    LET last == s[Len(s)]
    IN  IF Connects(s[1])
        THEN /\ known' = known \cup Range(s)
             /\ peak' = IF last \notin known /\ Heavier(last) THEN last ELSE peak
        ELSE UNCHANGED chain

-----------------------------------------------------------------------------
\* SyncStore.
PeersWith(m, b) == IF b \in DOMAIN m THEN m[b] ELSE {}

WithPeers(m, b, P) ==
    [x \in DOMAIN m \cup {b} |-> IF x = b THEN PeersWith(m, b) \cup P ELSE m[x]]

\* For each of the peers P, one call.
peer_has_block(b, P) ==
    /\ peak_to_peer' = IF P = {} THEN peak_to_peer ELSE WithPeers(peak_to_peer, b, P)
    /\ peers_changed' = (peers_changed \/ (P # {} /\ b = sync_target))

get_peers_that_have_peak(b) == PeersWith(peak_to_peer, b)

\* The peers that get_heaviest_peak considers.
WithKnownPeak == {p \in DOMAIN peer_to_peak : peer_to_peak[p] \in DOMAIN peak_to_peer}

get_heaviest_peak ==
    {b \in {peer_to_peak[p] : p \in WithKnownPeak} :
        \A p \in WithKnownPeak : Weight[peer_to_peak[p]] <= Weight[b]}

peer_disconnected(p) ==
    /\ peer_to_peak' = Restrict(peer_to_peak, DOMAIN peer_to_peak \ {p})
    /\ peak_to_peer' = [b \in DOMAIN peak_to_peer |-> peak_to_peer[b] \ {p}]
    /\ peers_changed' = TRUE

-----------------------------------------------------------------------------
Init ==
    /\ peak \in Starts /\ known = (IF peak = NoBlock THEN {} ELSE ChainOf[peak])
    /\ tip \in [Peer -> PeerBlock] /\ has = [p \in Peer |-> ChainOf[tip[p]]]
    /\ connected = Peer /\ session = [p \in Peer |-> 1]
    /\ peak_to_peer = Empty /\ peer_to_peak = Empty /\ peers_changed = FALSE
    /\ sync_target = NoBlock /\ sync_mode = FALSE /\ long_sync = FALSE
    /\ batch_syncing = {} /\ backtrack_syncing = [p \in Peer |-> 0]
    /\ task = [t \in Task |-> Idle]
    /\ sync = [s \in SyncTask |-> None]
    /\ lock = "free"

\* A peer's chain grows, or the peer moves to a heavier one.
Grow(p, b) ==
    /\ Weight[b] > Weight[tip[p]]
    /\ tip' = [tip EXCEPT ![p] = b]
    /\ has' = [has EXCEPT ![p] = @ \cup ChainOf[b]]
    /\ UNCHANGED <<chain, net, maps, flags, short, task, sync, lock>>

\* Session n with p, if it is still the open one.
Live(p, n) == p \in connected /\ session[p] = n

\* The connection is closed, and on_disconnect runs; nothing if it is closed already.
close(p, n) ==
    IF Live(p, n)
    THEN connected' = connected \ {p} /\ peer_disconnected(p) /\ UNCHANGED session
    ELSE UNCHANGED <<net, maps>>

Drop(p) ==
    /\ p \in connected
    /\ close(p, session[p])
    /\ UNCHANGED <<chain, far, flags, short, task, sync, lock>>

Reconnect(p) ==
    /\ p \notin connected /\ session[p] < MaxSession
    /\ connected' = connected \cup {p}
    /\ session' = [session EXCEPT ![p] = @ + 1]
    /\ UNCHANGED <<chain, far, maps, flags, short, task, sync, lock>>

-----------------------------------------------------------------------------
\* asyncio.create_task(self._sync()), at the end of the handler.
SpawnSync(t) ==
    /\ \E s \in SyncTask : sync[s] = None /\ sync' = [sync EXCEPT ![s] = [pc |-> "spawned"]]
    /\ task' = [task EXCEPT ![t] = Idle]

\* The start of short_sync_batch, up to its first request; backtracking is the
\* number of backtracks from p.
short_sync_batch(t, p, b, from, backtracking) ==
    /\ IF backtracking > 0 \/ p \in batch_syncing
       THEN /\ task' = [task EXCEPT ![t] = Idle]
            /\ UNCHANGED batch_syncing
       ELSE /\ task' = [task EXCEPT ![t] = [pc |-> IF from > 0 THEN "first" ELSE "batch",
                                            peer |-> p, session |-> session[p], req |-> b, at |-> from]]
            /\ batch_syncing' = batch_syncing \cup {p}
    /\ UNCHANGED sync

\* The rest of new_peak when a backtrack was not tried or found no fork point; ph
\* is the height of our peak when new_peak began.
Behind(t, p, b, ph, backtracking) ==
    IF Height[b] < WEIGHT_PROOF_RECENT_BLOCKS THEN short_sync_batch(t, p, b, 0, backtracking)
    ELSE IF Height[b] < ph + sync_blocks_behind_threshold
    THEN short_sync_batch(t, p, b, IF ph > BEHIND THEN ph - BEHIND ELSE 0, backtracking)
    ELSE SpawnSync(t) /\ UNCHANGED batch_syncing

\* short_sync_backtrack up to its first request.
short_sync_backtrack(t, p, b) ==
    /\ backtrack_syncing' = [backtrack_syncing EXCEPT ![p] = @ + 1]
    /\ task' = [task EXCEPT ![t] = [pc |-> "backtrack", peer |-> p, session |-> session[p], req |-> b,
                                    at |-> Height[b], ph |-> PeakHeight, responses |-> <<>>]]
    /\ UNCHANGED <<batch_syncing, sync>>

\* A peer announces its peak and the handler new_peak runs up to its first request.
new_peak(t, p) ==
    LET b == tip[p]
        asks == sync_target # NoBlock /\ b # sync_target /\ p \notin get_peers_that_have_peak(sync_target)
    IN  /\ task[t] = Idle /\ p \in connected
        /\ peer_has_block(b, {p})
        /\ peer_to_peak' = [q \in DOMAIN peer_to_peak \cup {p} |-> IF q = p THEN b ELSE peer_to_peak[q]]
        /\ IF b \in known \/ (peak # NoBlock /\ Weight[peak] > Weight[b]) \/ (sync_mode /\ ~ asks)
           THEN UNCHANGED <<short, task, sync>>
           ELSE IF sync_mode
           THEN /\ task' = [task EXCEPT ![t] = [pc |-> "probe", peer |-> p, session |-> session[p],
                                                target |-> sync_target]]
                /\ UNCHANGED <<short, sync>>
           ELSE IF Height[b] <= PeakHeight + short_sync_blocks_behind_threshold
           THEN short_sync_backtrack(t, p, b)
           ELSE Behind(t, p, b, PeakHeight, backtrack_syncing[p]) /\ UNCHANGED backtrack_syncing
        /\ UNCHANGED <<chain, far, net, flags, lock>>

\* The peer of the handler's connection answers a request for height h.
Answers(t, h) == Live(task[t].peer, task[t].session) /\ h <= Height[tip[task[t].peer]]

\* In sync mode: the peer was asked for a block at the height of the target.
Probed(t) ==
    /\ task[t].pc = "probe"
    /\ \/ Answers(t, Height[task[t].target]) /\ peer_has_block(task[t].target, {task[t].peer})
       \/ UNCHANGED <<peak_to_peer, peers_changed>>
    /\ task' = [task EXCEPT ![t] = Idle]
    /\ UNCHANGED <<chain, far, net, peer_to_peak, flags, short, sync, lock>>

-----------------------------------------------------------------------------
\* A mutant: a batch sync that ends stays registered.
BatchStays(p) == p \in batch_syncing /\ UNCHANGED short

\* The counters, put back when a backtrack or a batch from p ends.
BacktrackEnds(p) ==
    backtrack_syncing' = [backtrack_syncing EXCEPT ![p] = @ - 1] /\ UNCHANGED batch_syncing
BatchEnds(p) == batch_syncing' = batch_syncing \ {p} /\ UNCHANGED backtrack_syncing

\* A mutant: an exception leaves the counters as they are.
RaiseUncounted(t) ==
    /\ task' = [task EXCEPT ![t] = Idle]
    /\ close(task[t].peer, task[t].session)
    /\ UNCHANGED <<chain, far, flags, short, sync, lock>>

\* An exception ends the handler, and api_call closes its connection.
Raise(t) ==
    LET p == task[t].peer
    IN  /\ task' = [task EXCEPT ![t] = Idle]
        /\ IF task[t].pc = "backtrack" THEN BacktrackEnds(p) ELSE BatchEnds(p)
        /\ close(p, task[t].session)
        /\ UNCHANGED <<chain, far, flags, sync, lock>>

\* A request of a short sync is not answered in time.
TimeOut(t) == task[t].pc \in {"backtrack", "first", "batch"} /\ Raise(t)

\* One request of short_sync_backtrack.
Backtrack(t) ==
    LET p == task[t].peer
        b == At(tip[p], task[t].at)
        responses == <<b>> \o task[t].responses
    IN  /\ task[t].pc = "backtrack"
        /\ IF ~ Answers(t, task[t].at) THEN Raise(t)
           ELSE /\ IF Connects(b)
                   THEN /\ task' = [task EXCEPT ![t] = [pc |-> "apply", peer |-> p, req |-> task[t].req,
                                                        responses |-> responses, next |-> 1]]
                        /\ UNCHANGED <<short, sync>>
                   ELSE IF task[t].at - 1 > task[t].ph - BACKTRACK
                   THEN /\ task' = [task EXCEPT ![t].at = @ - 1, ![t].responses = responses]
                        /\ UNCHANGED <<short, sync>>
                   ELSE /\ backtrack_syncing' = [backtrack_syncing EXCEPT ![p] = @ - 1]
                        /\ Behind(t, p, task[t].req, task[t].ph, backtrack_syncing[p] - 1)
                /\ UNCHANGED <<chain, far, net, maps, flags, lock>>

\* respond_block for the next of the blocks that a backtrack found, oldest first.
Apply(t) ==
    /\ task[t].pc = "apply" /\ lock = "free"
    /\ Receive(<<task[t].responses[task[t].next]>>)
    /\ IF task[t].next = Len(task[t].responses)
       THEN task' = [task EXCEPT ![t] = Idle] /\ BacktrackEnds(task[t].peer)
       ELSE task' = [task EXCEPT ![t].next = @ + 1] /\ UNCHANGED short
    /\ UNCHANGED <<far, net, maps, flags, sync, lock>>

\* The first block of a batch sync shows whether it connects to our chain.
First(t) ==
    /\ task[t].pc = "first"
    /\ IF ~ Answers(t, task[t].at) THEN Raise(t)
       ELSE /\ IF Connects(At(tip[task[t].peer], task[t].at))
               THEN /\ IF task[t].at < Height[task[t].req]
                       THEN task' = [task EXCEPT ![t].pc = "batch"] /\ UNCHANGED short
                       ELSE task' = [task EXCEPT ![t] = Idle] /\ BatchEnds(task[t].peer)
                    /\ UNCHANGED sync
               ELSE SpawnSync(t) /\ BatchEnds(task[t].peer)
            /\ UNCHANGED <<chain, far, net, maps, flags, lock>>

\* The last height that a request of a batch or long sync asks for, from `at` on.
BatchEnd(at, b) ==
    IF at + MAX_BLOCK_COUNT_PER_REQUESTS < Height[b] THEN at + MAX_BLOCK_COUNT_PER_REQUESTS ELSE Height[b]

\* One batch of short_sync_batch.
Batch(t) ==
    LET at == task[t].at
        last == BatchEnd(at, task[t].req)
    IN  /\ task[t].pc = "batch"
        /\ IF ~ Answers(t, last) THEN Raise(t)
           ELSE LET blocks == Slice(tip[task[t].peer], at, last)
                IN  /\ lock = "free"
                    /\ IF ~ Connects(blocks[1]) THEN Raise(t)
                       ELSE /\ Receive(blocks)
                            /\ IF at + MAX_BLOCK_COUNT_PER_REQUESTS >= Height[task[t].req]
                               THEN task' = [task EXCEPT ![t] = Idle] /\ BatchEnds(task[t].peer)
                               ELSE /\ task' = [task EXCEPT ![t].at = at + MAX_BLOCK_COUNT_PER_REQUESTS]
                                    /\ UNCHANGED short
                            /\ UNCHANGED <<far, net, maps, flags, sync, lock>>

-----------------------------------------------------------------------------

\* _sync up to where it waits for the peaks of the peers.
SyncStart(s) ==
    /\ sync[s].pc = "spawned"
    /\ IF sync_mode \/ long_sync
       THEN sync' = [sync EXCEPT ![s] = None] /\ UNCHANGED long_sync
       ELSE sync' = [sync EXCEPT ![s] = [pc |-> "collect"]] /\ long_sync' = TRUE
    /\ UNCHANGED <<chain, far, net, maps, sync_target, sync_mode, short, task, lock>>

\* The `finally` of _sync and _finish_sync up to the lock.
EndSync(s) ==
    /\ long_sync' = FALSE /\ sync_mode' = FALSE
    /\ sync' = [sync EXCEPT ![s] = [pc |-> "finish"]]
    /\ UNCHANGED <<sync_target, far, short, task>>

AbortSync(s) == EndSync(s) /\ UNCHANGED <<chain, net, maps, lock>>

\* The peaks were collected: the target is chosen, and every peer is asked for the
\* block at its height.
Collected(s) ==
    /\ sync[s].pc = "collect"
    /\ \/ get_heaviest_peak = {} /\ AbortSync(s)
       \/ \E b \in get_heaviest_peak :
             /\ sync_target' = b
             /\ sync' = [sync EXCEPT ![s] = [pc |-> "gather", target |-> b, asked |-> connected]]
             /\ UNCHANGED <<chain, far, net, maps, sync_mode, long_sync, short, task, lock>>

\* The peers R have answered.  One that is believed to have the target is chosen for
\* the weight proof.
Gathered(s, R) ==
    LET b == sync[s].target
        with == connected \cap (get_peers_that_have_peak(b) \cup R)
    IN  /\ sync[s].pc = "gather"
        /\ R \subseteq {p \in sync[s].asked : Height[b] <= Height[tip[p]]}
        /\ peer_has_block(b, R)
        /\ \/ /\ with = {} \/ ~ Heavier(b)
              /\ EndSync(s)
           \/ /\ Heavier(b)
              /\ \E p \in with :
                    sync' = [sync EXCEPT ![s] = [pc |-> "proof", target |-> b, peer |-> p, session |-> session[p]]]
              /\ UNCHANGED <<flags, far, short, task>>
        /\ UNCHANGED <<chain, net, peer_to_peak, lock>>

\* The weight proof arrives.
Proof(s) ==
    /\ sync[s].pc = "proof"
    /\ Live(sync[s].peer, sync[s].session) /\ sync[s].target \in has[sync[s].peer]
    /\ IF ~ Heavier(sync[s].target) THEN AbortSync(s)
       ELSE /\ sync' = [sync EXCEPT ![s] = [pc |-> "validate", target |-> sync[s].target]]
            /\ UNCHANGED <<chain, far, net, maps, flags, short, task, lock>>

\* The peer does not send it in time, and is closed.
NoProof(s) ==
    /\ sync[s].pc = "proof"
    /\ close(sync[s].peer, sync[s].session)
    /\ EndSync(s)
    /\ UNCHANGED <<chain, lock>>

\* The height of the last block that our chain and that of b have in common.
ForkHeight(b) ==
    LET common == {Height[x] : x \in ChainOf[b] \cap (IF peak = NoBlock THEN {} ELSE ChainOf[peak])}
    IN  IF common = {} THEN 0 ELSE CHOOSE h \in common : \A i \in common : i <= h

\* validate_weight_proof returns a fork point, at or below that height.
Validated(s) ==
    /\ sync[s].pc = "validate"
    /\ \E f \in 0 .. ForkHeight(sync[s].target) :
          sync' = [sync EXCEPT ![s] = [pc |-> "lock", target |-> sync[s].target, at |-> f]]
    /\ sync_mode' = TRUE
    /\ UNCHANGED <<chain, far, net, maps, sync_target, long_sync, short, task, lock>>

\* get_peers_with_peak: the open connections of the peers believed to have b.
get_peers_with_peak(b) == {<<p, session[p]>> : p \in connected \cap get_peers_that_have_peak(b)}

\* check_fork_next_block: a peer whose next block extends our peak.
NextBlockFrom(b) ==
    {p \in connected \cap get_peers_that_have_peak(b) :
        PeakHeight < Height[tip[p]] /\ Prev[At(tip[p], PeakHeight + 1)] = peak}

\* _sync takes the lock; sync_from_fork_point may move the fork point to our peak.
TakeLock(s) ==
    LET b == sync[s].target
    IN  /\ sync[s].pc = "lock" /\ lock = "free"
        /\ lock' = s
        /\ \E f \in {sync[s].at} \cup (IF peak # NoBlock /\ NextBlockFrom(b) # {} THEN {PeakHeight} ELSE {}) :
              sync' = [sync EXCEPT ![s] = [pc |-> "download", target |-> b, at |-> f, from |-> get_peers_with_peak(b)]]
        /\ UNCHANGED <<chain, far, net, maps, flags, short, task>>

\* The connections of sync_from_fork_point that deliver the blocks up to height h.
Deliver(s, h) == {c \in sync[s].from : Live(c[1], c[2]) /\ h <= Height[tip[c[1]]]}

\* One batch of sync_from_fork_point, fetched and validated.
Download(s) ==
    LET b == sync[s].target
        last == BatchEnd(sync[s].at, b)
    IN  /\ sync[s].pc = "download" /\ sync[s].at < Height[b]
        /\ \E c \in Deliver(s, last) :
              LET blocks == Slice(tip[c[1]], sync[s].at, last)
              IN  IF Connects(blocks[1])
                  THEN /\ Receive(blocks)
                       /\ sync' = [sync EXCEPT ![s].at = @ + MAX_BLOCK_COUNT_PER_REQUESTS,
                                               ![s].from = IF peers_changed THEN get_peers_with_peak(b) ELSE @]
                       /\ peers_changed' = FALSE
                       /\ UNCHANGED <<far, net, peak_to_peer, peer_to_peak, flags, short, task, lock>>
                  ELSE close(c[1], c[2]) /\ EndSync(s) /\ lock' = "free" /\ UNCHANGED chain

\* sync_from_fork_point has all batches, or nobody to get the next one from.
Downloaded(s) ==
    /\ sync[s].pc = "download"
    /\ \/ sync[s].at >= Height[sync[s].target]
       \/ Deliver(s, BatchEnd(sync[s].at, sync[s].target)) = {}
    /\ EndSync(s)
    /\ lock' = "free"
    /\ UNCHANGED <<chain, net, maps>>

\* The rest of _finish_sync, under the lock.
FinishSync(s) ==
    /\ sync[s].pc = "finish" /\ lock = "free"
    /\ peak_to_peer' = Empty
    /\ sync' = [sync EXCEPT ![s] = None]
    /\ UNCHANGED <<chain, far, net, peer_to_peak, peers_changed, flags, short, task, lock>>

-----------------------------------------------------------------------------
Handler(t) == Probed(t) \/ Backtrack(t) \/ Apply(t) \/ First(t) \/ Batch(t)

LongSync(s) ==
    \/ SyncStart(s) \/ Collected(s) \/ Proof(s) \/ Validated(s) \/ TakeLock(s)
    \/ Download(s) \/ Downloaded(s) \/ FinishSync(s)
    \/ \E R \in SUBSET Peer : Gathered(s, R)

Announce(p) == \E t \in Task : new_peak(t, p)

Next ==
    \/ \E p \in Peer : (\E b \in PeerBlock : Grow(p, b)) \/ Drop(p) \/ Reconnect(p) \/ Announce(p)
    \/ \E t \in Task : Handler(t) \/ TimeOut(t)
    \/ \E s \in SyncTask : LongSync(s) \/ NoProof(s)

Spec == Init /\ [][Next]_vars

\* Nothing is lost: connections stay, requests are answered in time, and a peer
\* announces no peak while another announcement of its is being handled.
Unhandled(p) == \A t \in Task : task[t] # Idle => task[t].peer # p

QuietNext ==
    \/ \E p \in Peer : (\E b \in PeerBlock : Grow(p, b)) \/ (Unhandled(p) /\ Announce(p))
    \/ \E t \in Task : Handler(t)
    \/ \E s \in SyncTask : LongSync(s)

-----------------------------------------------------------------------------
Heights == 0 .. 15
TaskType ==
    {Idle}
    \cup [pc : {"probe"}, peer : Peer, session : 1 .. MaxSession, target : Block]
    \cup [pc : {"first", "batch"}, peer : Peer, session : 1 .. MaxSession, req : Block, at : Heights]

Backtracking(t) == task[t].pc \in {"backtrack", "apply"}
Batching(t) == task[t].pc \in {"first", "batch"}
Syncing(s) == sync[s].pc \in {"collect", "gather", "proof", "validate", "lock", "download"}

\* The state has the types of the code's attributes, and the maps of SyncStore
\* mention only peers and blocks.
TypeOK ==
    /\ known \subseteq Block /\ peak \in known \cup {NoBlock}
    /\ tip \in [Peer -> PeerBlock] /\ has \in [Peer -> SUBSET Block]
    /\ connected \subseteq Peer /\ session \in [Peer -> 1 .. MaxSession]
    /\ DOMAIN peak_to_peer \subseteq Block /\ \A b \in DOMAIN peak_to_peer : peak_to_peer[b] \subseteq Peer
    /\ DOMAIN peer_to_peak \subseteq Peer /\ \A p \in DOMAIN peer_to_peak : peer_to_peak[p] \in Block
    /\ sync_target \in Block \cup {NoBlock}
    /\ {peers_changed, sync_mode, long_sync} \subseteq BOOLEAN
    /\ batch_syncing \subseteq Peer /\ backtrack_syncing \in [Peer -> 0 .. Cardinality(Task)]
    /\ \A t \in Task : Backtracking(t) \/ task[t] \in TaskType
    /\ lock \in {"free"} \cup SyncTask

\* "Ensure we are only syncing once" (_sync): at most one long sync is under way;
\* long_sync says whether one is, sync_mode whether it has a valid weight proof, and
\* only it has the blockchain lock over several batches.
SyncOnce ==
    /\ \A s, r \in SyncTask : Syncing(s) /\ Syncing(r) => s = r
    /\ long_sync <=> \E s \in SyncTask : Syncing(s)
    /\ sync_mode <=> \E s \in SyncTask : sync[s].pc \in {"lock", "download"}
    /\ \A s \in SyncTask : lock = s <=> sync[s].pc = "download"

\* The counters of short_sync_backtrack and short_sync_batch, which later
\* announcements consult, count exactly the handlers at work, whatever ends them
\* (success, a lost connection, a timeout); a peer has at most one batch sync.
CountersMatch ==
    /\ \A p \in Peer :
          backtrack_syncing[p] = Cardinality({t \in Task : Backtracking(t) /\ task[t].peer = p})
    /\ batch_syncing = {task[t].peer : t \in {u \in Task : Batching(u)}}
    /\ \A t, u \in Task : Batching(t) /\ Batching(u) /\ task[t].peer = task[u].peer => t = u

\* Every block that a backtrack adds connects when its turn comes, and the last is
\* the announced one, unless the peer changed its chain meanwhile.
BacktrackConnects ==
    \A t \in Task :
        task[t].pc = "apply" /\ Range(task[t].responses) \subseteq ChainOf[task[t].req] =>
            LET r == task[t].responses
            IN  Connects(r[task[t].next]) /\ r[Len(r)] = task[t].req

\* What short syncs and long syncs add, interleaved as they are, leaves a chain
\* without gaps whose peak is a heaviest block of all that are known.
ChainComplete ==
    /\ \A b \in known : Connects(b)
    /\ \A b \in known : ~ Heavier(b)

\* The assertion at the end of get_heaviest_peak: when the peaks were collected, a
\* peer that has announced a peak has one that is recorded.
HeaviestDefined ==
    [][\A s \in SyncTask :
          sync[s].pc = "collect" /\ sync'[s].pc # "collect" =>
              peer_to_peak = Empty \/ WithKnownPeak # {}]_vars

\* get_peers_that_have_peak returns "peer ids of peers that have at least one of the
\* header hashes".
PeersHavePeak == \A b \in DOMAIN peak_to_peer : \A p \in peak_to_peer[b] : b \in has[p]

\* There is one long sync at a time, as its flags say; the counters of short syncs count
\* the handlers at work, whatever ends them; the blocks of a backtrack connect; and what
\* all of them add, interleaved, is a chain without gaps whose peak is the heaviest block.
SyncSound == SyncOnce /\ CountersMatch /\ BacktrackConnects /\ ChainComplete
=============================================================================
