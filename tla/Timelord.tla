------------------------------ MODULE Timelord ------------------------------
(***************************************************************************)
(* The timelord: a main loop that keeps one VDF client on each of the      *)
(* challenge, reward and infused challenge chains of its last state, one   *)
(* communication task per client that collects proofs, and the handlers of *)
(* the full node's messages.  One lock guards all of it; the main loop     *)
(* gives the lock up only while it waits for a client it wants to stop.    *)
(*                                                                         *)
(* The reward chain is the sequence of what was infused into it, each      *)
(* entry with its total iterations; a challenge is the chain up to it.     *)
(* Sub-epoch summaries and the bluebox mode are left out.                  *)
(***************************************************************************)
EXTENDS Integers, FiniteSets, Sequences

CONSTANTS
    Block,          \* unfinished blocks: records id, sp and ip (iterations in the sub-slot)
    SubSlotIters, NumSps,  \* sub_slot_iters, NUM_SPS_SUB_SLOT
    SpWindow,       \* signage points submitted ahead (3)
    MinBlocks,      \* MIN_BLOCKS_PER_CHALLENGE_BLOCK
    MaxSubSlotBlocks, \* MAX_SUB_SLOT_BLOCKS
    FirstOwnHeight, \* the first height the timelord moves to by itself (5)
    MaxTotal, \* no work is submitted from this many iterations on
    MaxFaults \* bound on the peaks of others, the stalls and the failures

ChainType == {"cc", "rc", "icc"}
NoPeak == [rc |-> <<>>, ip |-> -1]

VARIABLES
    lastState,  \* rc: the reward chain; ip: last_ip; txAt: last_block_total_iters (-1: None)
    newPeak,    \* new_peak
    unfinishedBlocks, overflowBlocks,
    spIters,    \* signage_point_iters, ascending
    toSubmit, submitted, itersDone, \* iters_to_submit, iters_submitted, iters_finished
    proofType,  \* iteration_to_proof_type
    proofsDone, \* proofs_finished
    resets,     \* num_resets
    unspawned, streams, allows, \* unspawned_chains, chain_type_to_stream, allows_iters
    freeClients,\* number of free_clients
    tasks,      \* communication tasks: chain, label, on (the state), stage, work
    broken,     \* chains whose stream raises ConnectionResetError
    vdfFailures,
    tpc, stopping, onlyEos, afterStop, \* where the main loop is
    sent,       \* the last VDF message to the full nodes
    known,      \* blocks the full node has sent
    budget      \* what is left of the environment's faults

state == <<lastState, newPeak, unfinishedBlocks, overflowBlocks>>
work == <<spIters, toSubmit, submitted, itersDone, proofType, proofsDone, resets>>
clients == <<unspawned, streams, allows, freeClients, tasks, broken, vdfFailures>>
loop == <<tpc, stopping, onlyEos, afterStop>>
env == <<sent, known, budget>>
timelordVars == <<state, work, clients, loop, env>>

-----------------------------------------------------------------------------
\* LastState.
rc == lastState.rc
Last(c) == c[Len(c)]
TotalOf(c) == IF c = <<>> THEN 0 ELSE Last(c).at
Deficit(c) == IF c = <<>> THEN MinBlocks ELSE Last(c).deficit
HasIcc(c) == Deficit(c) < MinBlocks
SlotStart == TotalOf(rc) - lastState.ip
UpTo(c, t) == SelectSeq(c, LAMBDA e : e.at <= t)
Blocks(c) == SelectSeq(c, LAMBDA e : e.what # "eos")
StartOf(c) == TotalOf(SelectSeq(c, LAMBDA e : e.what = "eos"))
Overflow(b) == b.sp > b.ip
HasChallenge(ch) == ch = "icc" => HasIcc(rc)

set_state_peak(p) ==
    [rc |-> p.rc, ip |-> p.ip, txAt |-> IF Last(p.rc).tx THEN TotalOf(p.rc) ELSE lastState.txAt]

set_state_eos(e) == [lastState EXCEPT !.rc = Append(rc, e), !.ip = 0]

\* Blocks infused in the sub-slot of the peak are counted against the maximum.
can_infuse_block ==
    \/ rc = <<>> \/ Last(rc).what = "eos"
    \/ Cardinality({i \in DOMAIN rc : rc[i].at > SlotStart}) < MaxSubSlotBlocks

\* The iterations from the last state to the infusion of b, 0 if it cannot be infused.
can_infuse(st, b) ==
    LET start == TotalOf(st.rc) - st.ip
        spTotal == start + b.sp - (IF Overflow(b) THEN SubSlotIters ELSE 0)
        n == Len(b.prev)
    IN  IF /\ n <= Len(st.rc) /\ SubSeq(st.rc, 1, n) = b.prev
           /\ Len(st.rc) - n < 2 * MaxSubSlotBlocks
           /\ st.ip < b.ip
           /\ Len(st.rc) > n => st.rc[n + 1].at >= spTotal /\ TotalOf(b.prev) <= spTotal
        THEN b.ip - st.ip ELSE 0

NewDeficit(c, over) ==
    IF c = <<>> THEN MinBlocks - 1
    ELSE IF over /\ Deficit(c) = MinBlocks
         THEN IF Last(c).what # "eos" THEN MinBlocks
              ELSE IF ~Last(c).icc THEN MinBlocks - 1 ELSE MinBlocks
         ELSE IF Deficit(c) = 0 THEN 0 ELSE Deficit(c) - 1

Init ==
    /\ lastState = [rc |-> <<>>, ip |-> 0, txAt |-> -1]
    /\ newPeak = NoPeak /\ unfinishedBlocks = <<>> /\ overflowBlocks = <<>>
    /\ spIters = <<>> /\ itersDone = {} /\ proofType = <<>> /\ proofsDone = {} /\ resets = 0
    /\ toSubmit = [c \in ChainType |-> {}] /\ submitted = [c \in ChainType |-> {}]
    /\ unspawned = <<"cc", "rc", "icc">> /\ streams = <<>> /\ allows = {}
    /\ freeClients = 3 /\ tasks = {} /\ broken = {} /\ vdfFailures = <<>>
    /\ tpc = "stop" /\ stopping = <<>> /\ onlyEos = FALSE /\ afterStop = "failures"
    /\ sent = [kind |-> "none"] /\ known = {}
    /\ budget = [left |-> MaxFaults, crashed |-> FALSE]

-----------------------------------------------------------------------------
\* The lock is free between two turns of the main loop, and while _stop_chain waits.
LockFree ==
    \/ tpc \in {"failures", "map"}
    \/ tpc = "stop" /\ stopping # <<>> /\ Head(stopping) \notin allows

\* Messages of the full node.
new_peak_timelord ==
    \E b \in known :
        LET at == b.slot + b.ip + (IF Overflow(b) THEN SubSlotIters ELSE 0)
            base == UpTo(rc, at - 1)
            txs == SelectSeq(base, LAMBDA e : e.what # "eos" /\ e.tx)
            entry == [what |-> b.id, at |-> at, deficit |-> NewDeficit(base, Overflow(b)),
                      icc |-> FALSE, tx |-> txs = <<>> \/ TotalOf(txs) < b.slot + b.sp]
            p == [rc |-> Append(base, entry), ip |-> b.ip]
        IN  /\ LockFree /\ budget.left > 0
            /\ budget' = [budget EXCEPT !.left = @ - 1]
            /\ StartOf(base) = at - b.ip /\ UpTo(base, b.slot + b.sp) = b.prev
            /\ newPeak' = IF Len(Blocks(p.rc)) > Len(Blocks(rc)) \/ rc = <<>> \/ p.rc # rc
                          THEN p ELSE newPeak
            /\ UNCHANGED <<lastState, unfinishedBlocks, overflowBlocks, work, clients, loop, sent,
                           known>>

new_unfinished_block_timelord ==
    \E u \in Block :
        LET b == [id |-> u.id, sp |-> u.sp, ip |-> u.ip, slot |-> SlotStart,
                  prev |-> UpTo(rc, SlotStart + u.sp)]
            n == can_infuse(lastState, b)
        IN  /\ LockFree /\ \A k \in known : k.id # u.id
            /\ known' = known \cup {b}
            /\ IF Overflow(b)
               THEN /\ overflowBlocks' = Append(overflowBlocks, b)
                    /\ UNCHANGED <<unfinishedBlocks, toSubmit, proofType>>
               ELSE /\ UNCHANGED overflowBlocks
                    /\ IF n = 0 THEN UNCHANGED <<unfinishedBlocks, toSubmit, proofType>>
                       ELSE /\ unfinishedBlocks' = Append(unfinishedBlocks, b)
                            /\ toSubmit' = [c \in ChainType |->
                                   toSubmit[c] \cup IF HasChallenge(c) THEN {n} ELSE {}]
                            /\ proofType' = [i \in DOMAIN proofType \cup {n} |->
                                   IF i = n THEN "ip" ELSE proofType[i]]
            /\ UNCHANGED <<lastState, newPeak, spIters, submitted, itersDone, proofsDone, resets,
                           clients, loop, sent, budget>>

-----------------------------------------------------------------------------
\* Resetting the chains: every running one is stopped, then the work is laid out anew.
StartReset(eos, next) ==
    /\ tpc' = "stop" /\ stopping' = streams /\ onlyEos' = eos /\ afterStop' = next

\* A chain that accepts iterations is told to stop; a stream that was reset raises, and the
\* chain stays where it is.
StopUnspawned(c) ==
    IF c \in broken THEN UNCHANGED <<unspawned, streams, allows, tasks>>
    ELSE /\ allows' = allows \ {c}
         /\ unspawned' = Append(unspawned, c)
         /\ streams' = SelectSeq(streams, LAMBDA x : x # c)
         /\ tasks' = {IF t.chain = c THEN [t EXCEPT !.stage = "stopping"] ELSE t : t \in tasks}

\* A mutant: a chain that is stopped is not given to a new client.
ForgetsChain(c) ==
    /\ allows' = allows \ {c} /\ streams' = SelectSeq(streams, LAMBDA x : x # c)
    /\ tasks' = {IF t.chain = c THEN [t EXCEPT !.stage = "stopping"] ELSE t : t \in tasks}
    /\ UNCHANGED unspawned

StopChain(c) == StopUnspawned(c)

StopNext ==
    /\ tpc = "stop" /\ stopping # <<>> /\ Head(stopping) \in allows
    /\ StopChain(Head(stopping)) /\ stopping' = Tail(stopping)
    /\ UNCHANGED <<state, work, freeClients, broken, vdfFailures, tpc, onlyEos, afterStop, env>>

SpsAfter(ip) ==
    LET step == SubSlotIters \div NumSps
        ahead == SelectSeq([k \in 1 .. NumSps - 1 |-> [iters |-> k * step - ip, index |-> k]],
                           LAMBDA s : s.iters > 0)
    IN  ahead
Window(s) == {s[i].iters : i \in 1 .. IF Len(s) < SpWindow THEN Len(s) ELSE SpWindow}

\* One block per iteration is kept, of the unfinished ones that can still be infused.
KeepInfusable(bs) ==
    LET kept[k \in 0 .. Len(bs)] ==
            IF k = 0 THEN <<>>
            ELSE IF \/ can_infuse(lastState, bs[k]) = 0
                    \/ \E i \in DOMAIN kept[k - 1] : kept[k - 1][i].ip = bs[k].ip
                 THEN kept[k - 1]
                 ELSE Append(kept[k - 1], bs[k])
    IN  kept[Len(bs)]

_reset_chains ==
    /\ tpc = "stop" /\ stopping = <<>>
    /\ LET kept == IF onlyEos THEN <<>> ELSE KeepInfusable(unfinishedBlocks \o overflowBlocks)
           ips == {kept[i].ip - lastState.ip : i \in DOMAIN kept}
           sps == IF onlyEos THEN {} ELSE Window(SpsAfter(lastState.ip))
           left == SubSlotIters - lastState.ip
       IN  /\ unfinishedBlocks' = kept
           /\ spIters' = SpsAfter(lastState.ip)
           /\ proofType' = [i \in ips \cup sps \cup {left} |->
                  IF i = left THEN "eos" ELSE IF i \in sps THEN "sp" ELSE "ip"]
           /\ toSubmit' = [c \in ChainType |->
                  IF c # "icc" THEN ips \cup sps \cup {left}
                  ELSE IF HasIcc(rc) THEN ips \cup {left} ELSE {}]
    /\ submitted' = [c \in ChainType |-> {}] /\ itersDone' = {} /\ proofsDone' = {}
    /\ resets' = resets + 1
    /\ tpc' = afterStop
    /\ UNCHANGED <<lastState, newPeak, overflowBlocks, clients, stopping, onlyEos, afterStop, env>>

-----------------------------------------------------------------------------
\* One turn of _manage_chains.
Inactive == budget.left > 0

Drop(bs, p) == SelectSeq(bs, LAMBDA b : b.id # Last(p.rc).what)

\* A failure of the current work leads straight to the end of the slot; after a time
\* without activity everything is restarted.
_handle_failures ==
    /\ tpc = "failures"
    /\ \/ /\ vdfFailures # <<>> /\ vdfFailures' = <<>>
          /\ IF Head(vdfFailures).label = resets THEN StartReset(TRUE, "failures")
             ELSE UNCHANGED loop
          /\ UNCHANGED budget
       \/ /\ vdfFailures = <<>> /\ Inactive
          /\ budget' = [budget EXCEPT !.left = @ - 1]
          /\ StartReset(FALSE, "peak") /\ UNCHANGED vdfFailures
    /\ UNCHANGED <<state, work, unspawned, streams, allows, freeClients, tasks, broken, sent, known>>

_handle_new_peak ==
    /\ tpc = "peak" \/ (tpc = "failures" /\ vdfFailures = <<>>)
    /\ IF newPeak = NoPeak
       THEN tpc' = "map" /\ UNCHANGED <<state, stopping, onlyEos, afterStop>>
       ELSE /\ lastState' = set_state_peak(newPeak)
            /\ unfinishedBlocks' = Drop(unfinishedBlocks, newPeak)
            /\ overflowBlocks' = Drop(overflowBlocks, newPeak)
            /\ newPeak' = NoPeak
            /\ StartReset(FALSE, "map")
    /\ UNCHANGED <<work, clients, env>>

\* The first unspawned chain gets the challenge of the first one that has a challenge.
NothingToMap == freeClients = 0 \/ \A i \in DOMAIN unspawned : ~HasChallenge(unspawned[i])

_map_chains_with_vdf_clients ==
    /\ tpc = "map" /\ ~NothingToMap
    /\ LET c == Head(unspawned)
           donor == CHOOSE i \in DOMAIN unspawned :
                        HasChallenge(unspawned[i]) /\ \A j \in 1 .. i - 1 : ~HasChallenge(unspawned[j])
       IN  /\ streams' = Append(streams, c) /\ unspawned' = Tail(unspawned)
           /\ freeClients' = freeClients - 1
           /\ tasks' = tasks \cup {[chain |-> c, label |-> resets, on |-> rc,
                                    of |-> unspawned[donor], stage |-> "init", work |-> {}]}
    /\ UNCHANGED <<state, work, allows, broken, vdfFailures, loop, env>>

Unsubmitted(c) == toSubmit[c] \ submitted[c]
Raises == {c \in allows \cap broken : Unsubmitted(c) # {}}

\* Writing to a stream that was reset raises: the turn of the loop ends there.
SubmitRaises ==
    /\ tpc = "map" /\ NothingToMap /\ Raises # {} /\ tpc' = "failures"
    /\ UNCHANGED <<state, work, clients, stopping, onlyEos, afterStop, env>>

_submit_iterations ==
    /\ tpc = "map" /\ NothingToMap /\ Raises = {} /\ SlotStart < MaxTotal
    /\ submitted' = [c \in ChainType |-> IF c \in allows THEN submitted[c] \cup toSubmit[c]
                                          ELSE submitted[c]]
    /\ tasks' = {IF t.stage = "ready" /\ t.chain \in allows
                 THEN [t EXCEPT !.work = @ \cup Unsubmitted(t.chain)] ELSE t : t \in tasks}
    /\ tpc' = "check"
    /\ UNCHANGED <<state, spIters, toSubmit, itersDone, proofType, proofsDone, resets, unspawned,
                   streams, allows, freeClients, broken, vdfFailures, stopping, onlyEos, afterStop, env>>

\* The least iteration of the reward chain that was not dealt with, and its proofs.
Open == submitted["rc"] \ itersDone
Selected == CHOOSE i \in Open : \A j \in Open : i <= j
\* A mutant: proofs of an earlier reset count.
AnyLabel(p, i) == p.iters = i
CountsFor(p, i) == p.iters = i /\ p.label = resets
ProofsWith(i) == {p \in proofsDone : CountsFor(p, i)}
ChainCount(type) == IF type # "sp" /\ HasIcc(rc) THEN 3 ELSE 2
Complete(i) ==
    /\ Cardinality(ProofsWith(i)) = ChainCount(proofType[i])
    /\ {"cc", "rc"} \subseteq {p.chain : p \in ProofsWith(i)}
    /\ \A p \in ProofsWith(i) : p.chain = "rc" => p.on = rc
Ready(type) == tpc = "check" /\ Open # {} /\ proofType[Selected] = type /\ Complete(Selected)
Announce(type) == sent' = [kind |-> type, on |-> rc, proofs |-> ProofsWith(Selected)]
Cleared == {p \in proofsDone : p.iters # Selected}

NothingFinished ==
    /\ tpc = "check" /\ (Open # {} => ~Complete(Selected))
    /\ tpc' = "failures"
    /\ UNCHANGED <<state, work, clients, stopping, onlyEos, afterStop, env>>

\* A signage point is sent; those in the window of the remaining points are submitted.
_check_for_new_sp ==
    /\ Ready("sp") /\ Announce("sp")
    /\ itersDone' = itersDone \cup {Selected}
    /\ proofsDone' = Cleared
    /\ toSubmit' = [c \in ChainType |-> IF c = "icc" THEN toSubmit[c] ELSE toSubmit[c] \cup Window(spIters)]
    /\ proofType' = [i \in DOMAIN proofType \cup Window(spIters) |->
                         IF i \in Window(spIters) THEN "sp" ELSE proofType[i]]
    /\ spIters' = SelectSeq(spIters, LAMBDA s : s.iters # Selected)
    /\ tpc' = "failures"
    /\ UNCHANGED <<state, submitted, resets, clients, stopping, onlyEos, afterStop, known, budget>>

\* An infusion point is sent, and the block becomes the peak when its height and the last
\* transaction block are known; when too many blocks are in the sub-slot it is discarded.
_check_for_new_ip ==
    /\ Ready("ip")
    /\ LET i == CHOOSE j \in DOMAIN unfinishedBlocks :
                    /\ unfinishedBlocks[j].ip - lastState.ip = Selected
                    /\ \A k \in 1 .. j - 1 : unfinishedBlocks[k].ip - lastState.ip # Selected
           b == unfinishedBlocks[i]
           spTotal == SlotStart + b.sp - (IF Overflow(b) THEN SubSlotIters ELSE 0)
           height == Len(Blocks(rc))
           entry == [what |-> b.id, at |-> SlotStart + b.ip, icc |-> FALSE,
                     deficit |-> NewDeficit(rc, Overflow(b)),
                     tx |-> rc = <<>> \/ lastState.txAt < spTotal]
           p == [rc |-> Append(rc, entry), ip |-> b.ip]
       IN  IF ~can_infuse_block
           THEN /\ itersDone' = itersDone \cup {Selected} /\ tpc' = "failures"
                /\ UNCHANGED <<state, proofsDone, stopping, onlyEos, afterStop, sent>>
           ELSE /\ Announce("ip")
                /\ itersDone' = itersDone \cup {Selected} /\ proofsDone' = Cleared
                /\ IF (lastState.txAt = -1 /\ rc # <<>>) \/ height < FirstOwnHeight
                   THEN tpc' = "failures" /\ UNCHANGED <<state, stopping, onlyEos, afterStop>>
                   ELSE /\ lastState' = set_state_peak(p) /\ newPeak' = NoPeak
                        /\ unfinishedBlocks' = Drop(unfinishedBlocks, p)
                        /\ overflowBlocks' = Drop(overflowBlocks, p)
                        /\ StartReset(FALSE, "failures")
    /\ UNCHANGED <<spIters, toSubmit, submitted, proofType, resets, clients, known, budget>>

\* The end of the sub-slot is sent, and becomes the state; overflow blocks become infusable.
_check_for_end_of_subslot ==
    /\ Ready("eos") /\ Announce("eos")
    /\ LET d == Deficit(rc)
       IN  lastState' = set_state_eos([what |-> "eos", at |-> SlotStart + SubSlotIters, tx |-> FALSE,
                                       icc |-> HasIcc(rc),
                                       deficit |-> IF 0 < d /\ d < MinBlocks THEN d ELSE MinBlocks])
    /\ unfinishedBlocks' = overflowBlocks /\ overflowBlocks' = <<>>
    /\ itersDone' = itersDone \cup {Selected}
    /\ StartReset(FALSE, "failures")
    /\ UNCHANGED <<newPeak, spIters, toSubmit, submitted, proofType, proofsDone, resets, clients, known,
                   budget>>

-----------------------------------------------------------------------------
\* _do_process_communication, one task per chain, and the client it talks to.
Handshake(t) ==
    /\ LockFree /\ t.stage = "init"
    /\ tasks' = (tasks \ {t}) \cup {[t EXCEPT !.stage = "ready"]}
    /\ allows' = allows \cup {t.chain}
    /\ UNCHANGED <<state, work, unspawned, streams, freeClients, broken, vdfFailures, loop, env>>

\* The client computes its iterations in ascending order.
ReceiveProof(t) ==
    /\ LockFree /\ t.work # {}
    /\ LET i == CHOOSE n \in t.work : \A m \in t.work : n <= m
       IN  /\ proofsDone' = proofsDone \cup {[chain |-> t.chain, iters |-> i, label |-> t.label, on |-> t.on]}
           /\ tasks' = (tasks \ {t}) \cup {[t EXCEPT !.work = @ \ {i}]}
    /\ UNCHANGED <<state, spIters, toSubmit, submitted, itersDone, proofType, resets, unspawned, streams,
                   allows, freeClients, broken, vdfFailures, loop, env>>

\* STOP is acknowledged; the launcher starts the client's process again, which connects.
Stopped(t) ==
    /\ LockFree /\ t.stage = "stopping"
    /\ tasks' = tasks \ {t} /\ freeClients' = freeClients + 1
    /\ UNCHANGED <<state, work, unspawned, streams, allows, broken, vdfFailures, loop, env>>

\* The connection to a client ends, in an orderly way or with a reset.
ClientFails(t) ==
    /\ LockFree /\ budget.left > 0 /\ t.stage # "stopping"
    /\ budget' = [budget EXCEPT !.left = @ - 1, !.crashed = TRUE]
    /\ vdfFailures' = Append(vdfFailures, [chain |-> t.chain, label |-> t.label])
    /\ tasks' = tasks \ {t} /\ freeClients' = freeClients + 1
    /\ \E reset \in BOOLEAN : broken' = IF reset THEN broken \cup {t.chain} ELSE broken
    /\ UNCHANGED <<state, work, unspawned, streams, allows, loop, sent, known>>

MainLoop ==
    \/ StopNext \/ _reset_chains \/ _handle_failures \/ _handle_new_peak
    \/ _map_chains_with_vdf_clients \/ SubmitRaises \/ _submit_iterations
    \/ NothingFinished \/ _check_for_new_sp \/ _check_for_new_ip \/ _check_for_end_of_subslot

Next ==
    \/ MainLoop
    \/ new_peak_timelord \/ new_unfinished_block_timelord
    \/ \E t \in tasks : Handshake(t) \/ ReceiveProof(t) \/ Stopped(t) \/ ClientFails(t)

\* The main loop runs on and clients answer.  A communication task waits for the lock,
\* which asyncio hands on in the order of the requests: its steps are strongly fair.
Fairness ==
    /\ WF_timelordVars(MainLoop)
    /\ SF_timelordVars(\E t \in tasks : Handshake(t))
    /\ SF_timelordVars(\E t \in tasks : ReceiveProof(t))
    /\ SF_timelordVars(\E t \in tasks : Stopped(t))

Spec == Init /\ [][Next]_timelordVars /\ Fairness

-----------------------------------------------------------------------------
\* Every signage point, infusion point and end of sub-slot the timelord sends is made of
\* proofs of all its chains on the state it holds: a late proof of a stopped client, which
\* only its reset number gives away, is never paired with a new one.
ProofsOfOneState == sent.kind # "none" => \A p \in sent.proofs : p.on = sent.on

\* "this reset should bring the timelord back to a running state": after a failed client the
\* challenge and reward chains are handed to clients again.
Running == \A c \in {"cc", "rc"} : \E t \in tasks : t.chain = c /\ t.label = resets /\ t.stage = "ready"
FailureIsRecovered == (vdfFailures # <<>>) ~> (Running \/ SlotStart >= MaxTotal)
=============================================================================
