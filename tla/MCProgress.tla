----------------------------- MODULE MCProgress -----------------------------
(***************************************************************************)
(* What must happen in the end, on small instances with the fairness that  *)
(* the schedulers give: of the components of MCNetwork, and of others that *)
(* have such a promise.  One component runs, the others stay as they are.  *)
(***************************************************************************)
EXTENDS MCNetwork

CONSTANTS
    p1, p2,
    Side, Request, SideOf, NonceCount, Cancelled, ClosesAtOnce,   \* Connection
    Conn, PeerOf, Outbound, InboundLimit, Overlap                 \* Server

VARIABLES
    nonce, pending_requests, request_results, event, call, id, result, timer, pending_timeouts, wire,
    api, closed,                                                                \* Connection
    all_connections, connection_by_type, stage, old, conn_closed, ban, banned_peers,    \* Server
    mem, coins, target, query, powCreation, wpHandler, wpMessage, switches,     \* NodeQueries
    lastState, newPeak, unfinishedBlocks, overflowBlocks, spIters, toSubmit, submitted, itersDone,
    proofType, proofsDone, resets, unspawned, streams, allows, freeClients, tasks, broken,
    vdfFailures, tpc, stopping, onlyEos, afterStop, sent, infusable, budget,    \* Timelord
    cfgPayout, pstate, update, pool, partial, sets, partials, errors,           \* PoolClient
    disk, dirs, loaded, paths, failed, enabled, due, refresh, batch, opened, found, lookup, changes,
    fails,                                                                      \* PlotManager
    nodeTip, link, heard, login, walletHeight, peakQueue, busy, stray, peaks, syncEvent, recheck, syncing,
    kept, chainLock, trouble,                                                   \* WalletSync
    services, pstat, held, kills, shutting, plotQueue, plotState, delayed, plotter, watching,
    plotStops, plotFaults, crashes                                              \* Daemon

connVars ==
    <<nonce, pending_requests, request_results, event, call, id, result, timer, pending_timeouts, wire,
      api, closed>>
serverVars == <<all_connections, connection_by_type, stage, old, conn_closed, ban, banned_peers>>
queryVars == <<mem, coins, target, query, powCreation, wpHandler, wpMessage, switches>>
timelordVars ==
    <<lastState, newPeak, unfinishedBlocks, overflowBlocks, spIters, toSubmit, submitted, itersDone,
      proofType, proofsDone, resets, unspawned, streams, allows, freeClients, tasks, broken,
      vdfFailures, tpc, stopping, onlyEos, afterStop, sent, infusable, budget>>
poolVars == <<cfgPayout, pstate, update, pool, partial, sets, partials, errors>>
plotVars ==
    <<disk, dirs, loaded, paths, failed, enabled, due, refresh, batch, opened, found, lookup, changes,
      fails>>
walletVars ==
    <<nodeTip, link, heard, login, walletHeight, peakQueue, busy, stray, peaks, syncEvent, recheck, syncing,
      kept, chainLock, trouble>>
daemonVars ==
    <<services, pstat, held, kills, shutting, plotQueue, plotState, delayed, plotter, watching,
      plotStops, plotFaults, crashes>>
idle == <<feedVars, relayVars>>
network == <<vars, idle, connVars, serverVars, syncVars>>
services1 == <<queryVars, timelordVars, poolVars, plotVars>>
services2 == <<walletVars, daemonVars, addressVars>>
everything == <<mode, network, services1, services2>>

\* Two requests of the end that opened the connection, one of which may be cancelled.
MCSide == {"out", "in"}
MCSideOf == [r \in Request |-> "out"]
C == INSTANCE Connection

\* A peer with two inbound connections and an outbound one.
MCPeerOf == [c \in Conn |-> "a"]
MCOutbound == {"a3"}
S == INSTANCE Server WITH closed <- conn_closed

Q == INSTANCE NodeQueries WITH
       Branch <- {"A", "B"}, Query <- {1, 2}, Span <- 2, PowCache <- 1, MaxSwitches <- 1

T == INSTANCE Timelord WITH
       known <- infusable, Block <- {[id |-> "b1", sp |-> 0, ip |-> 1]}, SubSlotIters <- 4,
       NumSps <- 2, SpWindow <- 3, MinBlocks <- 2, MaxSubSlotBlocks <- 2, FirstOwnHeight <- 0,
       MaxTotal <- 4, MaxFaults <- 0

P == INSTANCE PoolClient WITH
       Payout <- {"a", "b"}, Difficulty <- {1, 2}, MaxSets <- 1, MaxPartials <- 1, MaxErrors <- 1

M == INSTANCE PlotManager WITH
       Dir <- {"d1", "d2"}, Name <- {"x"}, BatchSize <- 2, MaxChanges <- 2, MaxFails <- 1

\* Two nodes, of which one is a block behind at first; one connection is lost, or the user logs
\* in again.
FirstTip == "n1" :> 2 @@ "n2" :> 3
WS == INSTANCE WalletSync WITH
       tip <- nodeTip, height <- walletHeight, session <- login, queue <- peakQueue, event <- syncEvent,
       Node <- {"n1", "n2"}, Tip <- 3, Short <- 1, Near <- 2, Recent <- 2, BatchSize <- 2,
       KeptPeaks <- 1, MaxTrouble <- 1, Start <- FirstTip

D == INSTANCE Daemon WITH
       Service <- {"node"}, Pid <- {1}, Plot <- 1..3, Parallel <- {},
       PlotRequests <- {<<1, 2>>, <<3>>}, MaxPlotFaults <- 1, MaxCrashes <- 0

-----------------------------------------------------------------------------
ProgressInit ==
    /\ MCInit /\ C!Init /\ S!Init /\ Q!Init /\ T!Init /\ P!Init /\ M!Init /\ WS!Init /\ D!Init
    /\ mode # "payouts" => cfgPayout = "a"
    /\ mode # "plots" => disk = {}

LockStep == RunLock /\ UNCHANGED <<connVars, serverVars, services1, walletVars, daemonVars>>
ConnectionStep ==
    /\ mode = "connection" /\ C!Next
    /\ UNCHANGED <<mode, vars, idle, serverVars, syncVars, services1, services2>>
ServerStep ==
    /\ mode = "server" /\ S!Next
    /\ UNCHANGED <<mode, vars, idle, connVars, syncVars, services1, services2>>

\* What the steps of each component leave alone.
OnlySync == UNCHANGED <<mode, vars, idle, connVars, serverVars, services1, services2>>
OnlyQueries == UNCHANGED <<mode, network, timelordVars, poolVars, plotVars, services2>>
OnlyTimelord == UNCHANGED <<mode, network, queryVars, poolVars, plotVars, services2>>
OnlyPayouts == UNCHANGED <<mode, network, queryVars, timelordVars, plotVars, services2>>
OnlyPlots == UNCHANGED <<mode, network, queryVars, timelordVars, poolVars, services2>>
OnlyWallet == UNCHANGED <<mode, network, services1, daemonVars, addressVars>>
OnlyQueue == UNCHANGED <<mode, network, services1, walletVars, addressVars>>
OnlyRelay == UNCHANGED <<mode, network, services1, walletVars, daemonVars>>

\* Peers on one chain, and nothing is lost; or something may be lost, and then only one of the
\* peers announces, grows and goes away, for good.
OnlyP1 ==
    /\ tip'[p2] = tip[p2] /\ ~ Y!Drop(p2)
    /\ \A t \in Task : task'[t] # Y!Idle => task'[t].peer = p1
QuietStep == mode = "quiet" /\ Y!QuietNext /\ OnlySync
LossyStep == mode = "lossy" /\ Y!Next /\ OnlyP1 /\ OnlySync

QueryStep == mode = "queries" /\ Q!Next /\ OnlyQueries
TimelordStep == mode = "timelord" /\ T!Next /\ OnlyTimelord
PayoutStep == mode = "payouts" /\ P!Next /\ OnlyPayouts
PlotStep == mode = "plots" /\ M!Next /\ OnlyPlots
WalletStep == mode = "wallet" /\ WS!Next /\ OnlyWallet
QueueStep == mode = "queue" /\ D!QueueNext /\ OnlyQueue
RelayStep == mode = "relay" /\ A!RelayNext /\ OnlyRelay

ProgressNext ==
    \/ LockStep \/ ConnectionStep \/ ServerStep
    \/ QuietStep \/ LossyStep \/ QueryStep \/ TimelordStep \/ PayoutStep \/ PlotStep
    \/ WalletStep \/ QueueStep \/ RelayStep

-----------------------------------------------------------------------------
\* Tasks that can go on do, time passes, requests are answered or time out: the fairness of each
\* component, while it is the one that runs.
WeaklyFair ==
    /\ WF_vars(mode = "lock" /\ Wake)
    /\ WF_vars(mode = "lock" /\ \E c \in Client : Serve(c))
    /\ \A c \in Client : WF_vars(mode = "lock" /\ Resume(c)) /\ WF_vars(mode = "lock" /\ Exit(c))
    /\ \A r \in Request :
         /\ WF_connVars(mode = "connection" /\ C!TimerStart(r))
         /\ WF_connVars(mode = "connection" /\ C!time_out(r))
         /\ WF_connVars(mode = "connection" /\ C!Returned(r))
    /\ \A s \in Side : WF_connVars(mode = "connection" /\ C!close_end(s))
    /\ \A c \in Conn : WF_serverVars(mode = "server" /\ (S!close_end(c) \/ S!close_raises(c)))
    /\ \A q \in {1, 2} : /\ WF_queryVars(mode = "queries" /\ Q!GoOn(q))
                         /\ WF_queryVars(mode = "queries" /\ Q!TimeOut(q))
    /\ WF_timelordVars(mode = "timelord" /\ T!MainLoop)
    /\ WF_poolVars(mode = "payouts" /\ P!periodically_update_pool_state)
    /\ WF_poolVars(mode = "payouts" /\ P!InfoDue) /\ WF_poolVars(mode = "payouts" /\ P!FarmerDue)
    /\ \A t \in P!Run : WF_poolVars(mode = "payouts" /\ P!RequestStep(t))
    /\ WF_plotVars(mode = "plots" /\ M!Refresh) /\ WF_plotVars(mode = "plots" /\ M!needs_refresh)
    /\ WF_plotVars(mode = "plots" /\ M!RetryInvalid)
    /\ WF_plotVars(mode = "plots" /\ lookup # "idle" /\ M!Lookup)
    /\ \A n \in {"n1", "n2"} : /\ WF_walletVars(mode = "wallet" /\ WS!Grow(n))
                               /\ WF_walletVars(mode = "wallet" /\ WS!Reconnect(n))
    /\ WF_walletVars(mode = "wallet" /\ WS!TakePeakLock)
    /\ WF_walletVars(mode = "wallet" /\ busy # WS!Idle /\ WS!Handler)
    /\ WF_walletVars(mode = "wallet" /\ WS!StrayValidated) /\ WF_walletVars(mode = "wallet" /\ WS!StartSync)
    /\ WF_walletVars(mode = "wallet" /\ WS!SyncBatch) /\ WF_walletVars(mode = "wallet" /\ WS!Recheck)
    /\ WF_walletVars(mode = "wallet" /\ WS!StartWallet)
    /\ \A i \in 1..3 : /\ WF_daemonVars(mode = "queue" /\ D!PlotStep(i))
                       /\ WF_daemonVars(mode = "queue" /\ D!PlotterEnds(i))
    /\ WF_addressVars(mode = "relay" /\ A!Relaying)

\* Where tasks wait for one lock, one of them gets it in turn: handlers and long syncs of the
\* node, which peers give new peaks again and again; communication tasks of the timelord; the
\* refresh thread of the plot manager; syncs of the wallet.  As one component runs, one formula
\* serves several.
running ==
    CASE mode = "timelord" -> timelordVars [] mode = "plots" -> plotVars [] mode = "wallet" -> walletVars
      [] OTHER -> syncVars
Turn(n) ==
    /\ \/ mode = "quiet" /\ n = 1 /\ \E p \in Peer : Y!Unhandled(p) /\ Y!Announce(p)
       \/ mode = "quiet" /\ n = 2 /\ \E s \in SyncTask : Y!LongSync(s)
       \/ mode = "quiet" /\ n = 3 /\ \E t \in Task : Y!Handler(t)
       \/ mode = "lossy" /\ n = 2 /\ \E s \in SyncTask : Y!LongSync(s) \/ Y!NoProof(s)
       \/ mode = "lossy" /\ n = 3 /\ \E t \in Task : Y!Handler(t) \/ Y!TimeOut(t)
       \/ mode = "timelord" /\ n = 1 /\ \E t \in tasks : T!Handshake(t)
       \/ mode = "timelord" /\ n = 2 /\ \E t \in tasks : T!ReceiveProof(t) \/ T!Stopped(t)
       \/ mode = "plots" /\ n = 1 /\ M!StartBatch
       \/ mode = "wallet" /\ n = 1 /\ WS!ShortSync
       \/ mode = "wallet" /\ n = 2 /\ WS!SyncLock
    /\ UNCHANGED mode
StronglyFair == SF_running(Turn(1)) /\ SF_running(Turn(2)) /\ SF_running(Turn(3))

ProgressSpec == ProgressInit /\ [][ProgressNext]_everything /\ WeaklyFair /\ StronglyFair

-----------------------------------------------------------------------------
\* Who waits is served: the lock goes on to one of its waiters, and lets the only one of
\* the highest priority in; every call of send_request returns, a connection that replaces an
\* older one of its peer does not wait for ever, and every request of a wallet ends, also one
\* that waits for the event of a weight proof whose creation was cancelled.
WaitsEnd ==
    /\ LockProgress /\ []<>(pc[u] # "waiting")
    /\ <>[](/\ \A r \in Request : call[r] # "waiting"
            /\ \A c \in Conn : stage[c] # "replacing"
            /\ \A q \in {1, 2} : query[q].stage = "new" \/ Q!Ended(q))

\* Once the peers are on one chain and nothing is lost, new_peak and the syncs it starts give
\* the node a peak that is as heavy as the heaviest of theirs; and a long sync ends although
\* connections and requests are lost, so that another can start.
CatchesUp ==
    /\ <>[](mode = "quiet" => \A p \in Peer : ~ Y!Heavier(tip[p]))
    /\ \A s \in SyncTask : []<>(~ Y!Syncing(s))

\* As long as no VDF client fails the timelord ends sub-slot after sub-slot, whatever blocks
\* and peaks arrive and however its stops and resets fall.
SlotsEnd == <>[](mode = "timelord" => T!SlotStart >= 4)

\* The payout instructions that the user sets reach the pool and stay there, although a run of
\* update_pool_state may have loaded the old ones.
PayoutReachesPool == <>[](mode = "payouts" => pool = cfgPayout)

\* While the refresh thread runs, every plot that has a file is loaded in the end, also when the
\* copy that was loaded is deleted and a duplicate remains; and never two copies of one.
PlotsLoaded == <>[](mode = "plots" => M!AllLoaded) /\ [](mode = "plots" => M!LoadedOnce)

\* The wallet reaches the peaks its nodes have told it, whatever it was doing when they came.
WalletCatchesUp == <>[](mode = "wallet" => WS!CaughtUp)

\* Every plot of the queue gets its turn, in whatever order the requests, the delays and the
\* ends of the plotters come.
QueueDrains == <>[](mode = "queue" => D!QueueEmpty)

\* An address is not relayed for ever, also when some nodes forget who knows it.
RelayEnds == <>[](mode = "relay" => A!NothingToRelay)
=============================================================================
