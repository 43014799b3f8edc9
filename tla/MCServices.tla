----------------------------- MODULE MCServices -----------------------------
(***************************************************************************)
(* The services beside the full node and the connections they share, on    *)
(* small instances: the variable service says which one runs, and the      *)
(* others stay as they are.  The constants and the properties of the first *)
(* five are those of the module that proves them for all instances.        *)
(***************************************************************************)
EXTENDS ServiceProofs, TLC

VARIABLES
    service,
    file, osKeys, proc, kop, wantedKeys, wantedPhrase, overlap, raised, ops     \* Keyring

farmerVars ==
    <<sps, proofs, idents, responses, addTime, clock, farmLink, handshaken, lookups, plots, mail,
      declared, signedFor>>
timelordVars ==
    <<lastState, newPeak, unfinishedBlocks, overflowBlocks, spIters, toSubmit, submitted, itersDone,
      proofType, proofsDone, resets, unspawned, streams, allows, freeClients, tasks, broken,
      vdfFailures, tpc, stopping, onlyEos, afterStop, sent, known, budget>>
daemonVars ==
    <<services, pstat, held, kills, shutting, plotQueue, plotState, delayed, plotter, watching,
      plotStops, plotFaults, crashes>>
ringVars == <<file, osKeys, proc, kop, wantedKeys, wantedPhrase, overlap, raised, ops>>
connVars ==
    <<nonce, pending_requests, request_results, event, call, id, result, timer, pending_timeouts, wire,
      api, closed>>
serverVars == <<all_connections, connection_by_type, stage, old, conn_closed, ban, banned_peers>>
links == <<connVars, serverVars>>
vars == <<service, farmerVars, timelordVars, daemonVars, ringVars, links>>

-----------------------------------------------------------------------------
\* Two proofs for one signage point, of which one wins.
MCSpOf == [q \in Quality |-> "p1"]

\* One block to infuse, in sub-slots of four iterations with two signage points.
MCBlock == {[id |-> "b1", sp |-> 0, ip |-> 1]}

MCPlotRequests == {<<1>>}

\* Three requests of the end that opened the connection, one of the other.
MCSide == {"out", "in"}
MCSideOf == [r \in Request |-> IF r \in {"r1", "r2", "r3"} THEN "out" ELSE "in"]

\* Peers a and b, the first with two inbound connections and an outbound one, and c.
MCPeerOf ==
    [k \in Conn |-> CASE k \in {"a1", "a2", "a3"} -> "a" [] k \in {"b1", "b2"} -> "b" [] k = "c1" -> "c"]
MCOutbound == {"a3"}

\* The instances are such as the theorems are about; what Connection_AnswerIsOwn says of the
\* nonces is ConnectionRun below.
ASSUME FarmerConstants /\ DaemonConstants /\ ConnectionConstants /\ ServerConstants

\* The daemon and a command line, two keys of which one is in the legacy keyring.
K == INSTANCE Keyring WITH
       Process <- {"daemon", "cli"}, Key <- {"k1", "k2"}, Phrase <- {"default", "p1"}, Slots <- 2,
       LegacyKeys <- [i \in 0..1 |-> IF i = 0 THEN "k1" ELSE "none"], MaxOps <- 3

-----------------------------------------------------------------------------
MCInit ==
    /\ service \in {"farmer", "timelord", "daemon", "connection", "wrap", "server", "keyring"}
    /\ F!Init /\ T!Init /\ D!Init /\ Con!Init /\ Srv!Init /\ K!Init
    /\ service # "keyring" => osKeys = K!NoKeys

FarmerRun ==
    /\ service = "farmer" /\ F!Next
    /\ UNCHANGED <<service, timelordVars, daemonVars, ringVars, links>>

TimelordRun ==
    /\ service = "timelord" /\ T!Next
    /\ UNCHANGED <<service, farmerVars, daemonVars, ringVars, links>>

DaemonRun ==
    /\ service = "daemon" /\ D!ServiceNext
    /\ UNCHANGED <<service, plotQueue, plotState, delayed, plotter, watching, plotStops, plotFaults,
                   crashes, farmerVars, timelordVars, ringVars, links>>

\* Both ends make requests, and one may be cancelled; or one end makes more than there are
\* nonces, and none is cancelled (a cancelled call leaves its entries for the next with its nonce).
ConnectionRun ==
    /\ Con!Next
    /\ \/ service = "connection" /\ \A r \in Request \cap {"r3"} : call'[r] = "idle"
       \/ service = "wrap" /\ \A r \in Request :
                                 call'[r] # "cancelled" /\ (SideOf[r] = "in" => call'[r] = "idle")
    /\ UNCHANGED <<service, farmerVars, timelordVars, daemonVars, ringVars, serverVars>>

ServerRun ==
    /\ service = "server" /\ Srv!Next
    /\ UNCHANGED <<service, farmerVars, timelordVars, daemonVars, ringVars, connVars>>

KeyringRun ==
    /\ service = "keyring" /\ K!Next
    /\ UNCHANGED <<service, farmerVars, timelordVars, daemonVars, links>>

MCNext ==
    \/ FarmerRun \/ TimelordRun \/ DaemonRun \/ ConnectionRun \/ ServerRun \/ KeyringRun
MCSpec == MCInit /\ [][MCNext]_vars

-----------------------------------------------------------------------------
\* No key the user has added and not deleted is lost, whichever processes wrote the file with
\* whatever caches, and across changes of the passphrase and the migration.
KeysKept == K!KeysKept
=============================================================================
