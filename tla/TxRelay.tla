------------------------------ MODULE TxRelay -------------------------------
(***************************************************************************)
(* Transactions on their way to the mempool: announcements of peers        *)
(* (new_transaction) and the task that asks for the transaction, answers   *)
(* of peers, transactions of wallets (send_transaction), the queue between *)
(* them and respond_transaction, and the tasks that serve the queue.       *)
(*                                                                         *)
(* One action is a stretch of a coroutine without an await.  The mempool   *)
(* is the set of its transactions and of the seen ones; what it decides is *)
(* any of its answers (MempoolManager has the rules).                      *)
(***************************************************************************)
EXTENDS Naturals, Sequences, FiniteSets, FiniteSetsExt, Functions

CONSTANTS
    Tx,             \* spend names, numbers: queue entries are ordered by them
    Relay,          \* peers that announce transactions
    Announced,      \* the transactions they announce
    Fetch,          \* ids of tx_request_and_timeout tasks
    Call,           \* calls of send_transaction
    CallTx,         \* CallTx[c]: the transaction of c
    AskLimit,       \* 5, the requests one task makes
    QueueSize,      \* 10000, the size of transaction_queue
    Permits,        \* 200, the permits of respond_transaction_semaphore
    KeptResponses,  \* 50, the length of transaction_responses
    MaxFailures     \* bound on sync phases and raised exceptions

VARIABLES
    linked,       \* server.all_connections
    pendingTx,    \* keys of full_node_store.pending_tx_request
    peersWithTx,  \* full_node_store.peers_with_tx
    fetch,        \* fetch[k]: the task k, of tx_fetch_tasks until it is done
    asked,        \* <<t, p>>: p was asked for t and has not answered
    txQueue,      \* txQueue[t]: entries of t in transaction_queue
    permits,      \* free permits of respond_transaction_semaphore
    dispatch,     \* "acquire" or "get": where _handle_transactions waits
    created,      \* created[t]: _handle_one_transaction tasks of t to be started
    adding,       \* transactions respond_transaction is validating
    seenTx,       \* seen_bundle_hashes
    inPool,       \* transactions of the mempool
    responses,    \* transaction_responses
    send,         \* send[c]: stage and answer of the call c
    inSync,       \* sync_mode
    failures

fetching == <<pendingTx, peersWithTx, fetch, asked>>
serving == <<txQueue, permits, dispatch, created, adding>>
told == <<seenTx, inPool, responses, send>>
world == <<linked, inSync, failures>>
relayVars == <<fetching, serving, told, world>>

Status == {"SUCCESS", "PENDING", "FAILED"}
Stages == {"unused", "new", "asleep", "done"}

QueueLength == MapThenSumSet(LAMBDA t : txQueue[t], Tx)
QueueFull == QueueLength >= QueueSize
Enqueued(t) == [txQueue EXCEPT ![t] = @ + 1]

Without(f, t) == Restrict(f, DOMAIN f \ {t})

Init ==
    /\ linked = Relay /\ pendingTx = {} /\ peersWithTx = [t \in {} |-> {}]
    /\ fetch = [k \in Fetch |-> [stage |-> "unused", tx |-> 0, counter |-> 0]]
    /\ asked = {} /\ txQueue = [t \in Tx |-> 0]
    /\ permits = Permits /\ dispatch = "acquire" /\ created = [t \in Tx |-> 0] /\ adding = {}
    /\ seenTx = {} /\ inPool = {} /\ responses = <<>>
    /\ send = [c \in Call |-> [stage |-> "idle", answer |-> "none"]]
    /\ inSync = FALSE /\ failures = 0

-----------------------------------------------------------------------------
\* new_transaction by peer p, of a transaction whose fee is enough: a pending
\* request gets one more peer, else a task is created.
new_transaction(p, t) ==
    /\ p \in linked /\ ~inSync /\ t \notin seenTx
    /\ IF t \in pendingTx
       THEN /\ peersWithTx' =
                 [u \in DOMAIN peersWithTx \cup {t} |->
                    IF u # t THEN peersWithTx[u]
                    ELSE IF t \in DOMAIN peersWithTx THEN peersWithTx[t] \cup {p} ELSE {p}]
            /\ UNCHANGED <<pendingTx, fetch>>
       ELSE \E k \in Fetch :
            /\ fetch[k].stage = "unused"
            /\ fetch' = [fetch EXCEPT ![k] = [stage |-> "new", tx |-> t, counter |-> 0]]
            /\ pendingTx' = pendingTx \cup {t}
            /\ peersWithTx' = [u \in DOMAIN peersWithTx \cup {t} |-> IF u = t THEN {p} ELSE peersWithTx[u]]
    /\ UNCHANGED <<asked, world, serving, told>>

\* A mutant: the mark of the pending fetch is left.
KeepsPending(k) ==
    /\ peersWithTx' = Without(peersWithTx, fetch[k].tx)
    /\ fetch' = [fetch EXCEPT ![k].stage = "done"]
    /\ UNCHANGED <<pendingTx, asked>>

\* The finally clause of the task.
Cleanup(k) ==
    /\ peersWithTx' = Without(peersWithTx, fetch[k].tx)
    /\ pendingTx' = pendingTx \ {fetch[k].tx}
    /\ fetch' = [fetch EXCEPT ![k].stage = "done"]
    /\ UNCHANGED asked

\* The loop of the task k after n requests, up to the sleep that follows the next
\* one: peers that are gone are popped on the way to one that is connected.
AskNext(k, n) ==
    LET t == fetch[k].tx
        S == IF t \in DOMAIN peersWithTx THEN peersWithTx[t] ELSE {}
    IN  IF n = AskLimit \/ S \cap linked = {}
        THEN Cleanup(k)
        ELSE \E q \in S \cap linked, D \in SUBSET (S \ linked) :
             /\ peersWithTx' = [peersWithTx EXCEPT ![t] = @ \ ({q} \cup D)]
             /\ asked' = asked \cup {<<t, q>>}
             /\ fetch' = [fetch EXCEPT ![k].stage = "asleep", ![k].counter = n]
             /\ UNCHANGED pendingTx

FetchStep(k) ==
    /\ \/ fetch[k].stage = "new" /\ AskNext(k, 0)
       \/ /\ fetch[k].stage = "asleep"
          /\ IF fetch[k].tx \in seenTx THEN Cleanup(k) ELSE AskNext(k, fetch[k].counter + 1)
    /\ UNCHANGED <<world, serving, told>>

\* respond_transaction (API): p answers; a full queue drops the transaction.
respond_transaction(p, t) ==
    /\ <<t, p>> \in asked /\ asked' = asked \ {<<t, p>>}
    /\ pendingTx' = pendingTx \ {t} /\ peersWithTx' = Without(peersWithTx, t)
    /\ txQueue' = IF QueueFull THEN txQueue ELSE Enqueued(t)
    /\ UNCHANGED <<fetch, permits, dispatch, created, adding, world, told>>

\* p does not have the transaction any more, or its answer is lost.
NoAnswer(p, t) ==
    /\ <<t, p>> \in asked /\ asked' = asked \ {<<t, p>>}
    /\ UNCHANGED <<pendingTx, peersWithTx, fetch, world, serving, told>>

-----------------------------------------------------------------------------
\* _handle_transactions: a permit first, then an entry, the one of the smallest name.
Acquire ==
    /\ dispatch = "acquire" /\ permits > 0
    /\ permits' = permits - 1 /\ dispatch' = "get"
    /\ UNCHANGED <<txQueue, created, adding, world, fetching, told>>

Get ==
    /\ dispatch = "get" /\ QueueLength > 0
    /\ LET t == Min({u \in Tx : txQueue[u] > 0})
       IN  /\ txQueue' = [txQueue EXCEPT ![t] = @ - 1]
           /\ created' = [created EXCEPT ![t] = @ + 1]
    /\ dispatch' = "acquire"
    /\ UNCHANGED <<permits, adding, world, fetching, told>>

\* The end of _handle_one_transaction: the response is kept, the permit released.
Responded(t, status) ==
    /\ LET r == Append(responses, <<t, status>>)
       IN  responses' = IF Len(r) > KeptResponses THEN Tail(r) ELSE r
    /\ permits' = permits + 1

\* FullNode.respond_transaction up to the validation.
StartOne(t) ==
    /\ created[t] > 0 /\ created' = [created EXCEPT ![t] = @ - 1]
    /\ IF inSync \/ t \in seenTx
       THEN Responded(t, "FAILED") /\ UNCHANGED <<seenTx, adding>>
       ELSE /\ seenTx' = seenTx \cup {t} /\ adding' = adding \cup {t}
            /\ UNCHANGED <<responses, permits>>
    /\ UNCHANGED <<txQueue, dispatch, inPool, send, world, fetching>>

\* The rest of it: the mempool's answer; only what it took stays seen.
EndOne(t, status) ==
    /\ t \in adding /\ adding' = adding \ {t}
    /\ t \in inPool => status = "FAILED"
    /\ IF status = "SUCCESS"
       THEN inPool' = inPool \cup {t} /\ UNCHANGED seenTx
       ELSE seenTx' = seenTx \ {t} /\ UNCHANGED inPool
    /\ Responded(t, status)
    /\ UNCHANGED <<txQueue, dispatch, created, send, world, fetching>>

\* pre_validate_spendbundle raises: no response, and the peer, if any, is closed.
Raise(t) ==
    /\ t \in adding /\ adding' = adding \ {t} /\ failures < MaxFailures
    /\ seenTx' = seenTx \ {t} /\ failures' = failures + 1
    /\ \E L \in {linked} \cup {linked \ {p} : p \in linked} : linked' = L
    /\ permits' = permits + 1
    /\ UNCHANGED <<txQueue, dispatch, created, inPool, responses, send, inSync, fetching>>

-----------------------------------------------------------------------------
\* send_transaction of a wallet: put waits for room in the queue, then the responses
\* are polled until one has the name or the time is over.
BeginSend(c) ==
    /\ send[c].stage = "idle" /\ ~QueueFull
    /\ txQueue' = Enqueued(CallTx[c])
    /\ send' = [send EXCEPT ![c].stage = "poll"]
    /\ UNCHANGED <<permits, dispatch, created, adding, seenTx, inPool, responses, world, fetching>>

StatusesOf(t) == [i \in {j \in DOMAIN responses : responses[j][1] = t} |-> responses[i][2]]
FirstStatus(t) == StatusesOf(t)[Min(DOMAIN StatusesOf(t))]

\* A failure is answered as a success when the mempool has the transaction.
AckOf(t) ==
    IF DOMAIN StatusesOf(t) = {} THEN "PENDING"
    ELSE IF t \in inPool THEN "SUCCESS" ELSE FirstStatus(t)

EndSend(c) ==
    /\ send[c].stage = "poll"
    /\ send' = [send EXCEPT ![c] = [stage |-> "done", answer |-> AckOf(CallTx[c])]]
    /\ UNCHANGED <<seenTx, inPool, responses, world, fetching, serving>>

-----------------------------------------------------------------------------
\* The world: a peer leaves, a block takes a transaction, a sync begins or ends.
Leave(p) ==
    /\ p \in linked /\ linked' = linked \ {p}
    /\ UNCHANGED <<inSync, failures, fetching, serving, told>>

Confirm(t) ==
    /\ t \in inPool /\ inPool' = inPool \ {t}
    /\ seenTx' \in {seenTx, seenTx \ {t}}
    /\ UNCHANGED <<responses, send, world, fetching, serving>>

SwitchSync ==
    /\ inSync \/ failures < MaxFailures
    /\ inSync' = ~inSync /\ failures' = IF inSync THEN failures ELSE failures + 1
    /\ UNCHANGED <<linked, fetching, serving, told>>

Next ==
    \/ \E p \in Relay, t \in Announced :
          new_transaction(p, t) \/ respond_transaction(p, t) \/ NoAnswer(p, t)
    \/ \E k \in Fetch : FetchStep(k)
    \/ Acquire \/ Get
    \/ \E t \in Tx : StartOne(t) \/ Raise(t) \/ Confirm(t)
    \/ \E t \in Tx, s \in Status : EndOne(t, s)
    \/ \E c \in Call : BeginSend(c) \/ EndSend(c)
    \/ \E p \in Relay : Leave(p)
    \/ SwitchSync

Spec == Init /\ [][Next]_relayVars

-----------------------------------------------------------------------------
TypeOK ==
    /\ linked \subseteq Relay /\ pendingTx \subseteq Tx
    /\ DOMAIN peersWithTx \subseteq Tx /\ \A t \in DOMAIN peersWithTx : peersWithTx[t] \subseteq Relay
    /\ fetch \in [Fetch -> [stage : Stages, tx : Tx \cup {0}, counter : 0 .. AskLimit]]
    /\ txQueue \in [Tx -> 0 .. QueueSize] /\ QueueLength <= QueueSize
    /\ created \in [Tx -> 0 .. Permits] /\ adding \subseteq seenTx
    /\ send \in [Call -> [stage : {"idle", "poll", "done"}, answer : Status \cup {"none"}]]

\* A transaction that is marked as being fetched has a task that fetches it and will
\* clear the mark, also when an older task for it ends: the mark keeps every later
\* announcement from starting one, so one left behind would stop it for good.
PendingHasTask ==
    \A t \in pendingTx : \E k \in Fetch : fetch[k].stage \in {"new", "asleep"} /\ fetch[k].tx = t

\* No permit of respond_transaction_semaphore is lost or made, whichever way a
\* transaction ends: each one that is not free is held by the loop or by one task.
PermitsConserved ==
    permits + (IF dispatch = "get" THEN 1 ELSE 0) + Cardinality(adding)
            + MapThenSumSet(LAMBDA t : created[t], Tx) = Permits
=============================================================================
