----------------------------- MODULE LockQueue ------------------------------
(***************************************************************************)
(* LockQueue and LockClient: the blockchain lock of the full node.  A task *)
(* (Client) enters `async with LockClient`: it puts a callback into a      *)
(* priority queue and waits for its event.  The queue's own task _run      *)
(* takes the callback of the lowest priority number, acquires the inner    *)
(* lock, calls the callback, which sets the event, and waits for the       *)
(* release event that leaving the block sets.                              *)
(*                                                                         *)
(* Steps are what happens between two points where a coroutine gives way.  *)
(* Putting into the unbounded queue does not, nor does acquiring the inner *)
(* lock when it is free, which LockMatches shows it to be each time _run   *)
(* gets there: only the queue acquires it.  Callbacks of equal priority    *)
(* come out of the heap in any order.  A cancelled task is gone; its       *)
(* callback stays queued.                                                  *)
(***************************************************************************)
EXTENDS Naturals

CONSTANTS
    Client,    \* the tasks that use the lock
    Priority   \* Priority[c]: the priority of the LockClient c uses

ASSUME ClientAssumption == Priority \in [Client -> Nat]

VARIABLES
    pc,       \* pc[c]: "out", "waiting" (called.wait()), "inside" or "gone"
    queue,    \* _task_queue: the clients whose callback is in it
    called,   \* the clients whose event has been set and not yet consumed
    runner,   \* _run: at "get", at "wait" for the release, or "closed"
    locked,   \* _inner_lock.locked()
    released  \* _release_event.is_set()

vars == <<pc, queue, called, runner, locked, released>>

Init ==
    /\ pc = [c \in Client |-> "out"]
    /\ queue = {}
    /\ called = {}
    /\ runner = "get"
    /\ locked = FALSE
    /\ released = FALSE

\* __aenter__ up to called.wait()
Enter(c) ==
    /\ pc[c] = "out"
    /\ pc' = [pc EXCEPT ![c] = "waiting"]
    /\ queue' = queue \cup {c}
    /\ UNCHANGED <<called, runner, locked, released>>

\* The head of the priority queue.
First(c) == \A d \in queue : Priority[c] <= Priority[d]

\* One round of _run: get, a fresh release event, acquire, callback.
Serve(c) ==
    /\ runner = "get"
    /\ c \in queue
    /\ First(c)
    /\ ~ locked
    /\ queue' = queue \ {c}
    /\ released' = FALSE
    /\ locked' = TRUE
    /\ called' = called \cup {c}
    /\ runner' = "wait"
    /\ UNCHANGED pc

\* called.wait() returns, the body of the block begins.
Resume(c) ==
    /\ pc[c] = "waiting"
    /\ c \in called
    /\ pc' = [pc EXCEPT ![c] = "inside"]
    /\ called' = called \ {c}
    /\ UNCHANGED <<queue, runner, locked, released>>

\* __aexit__: release, also when the body raises or is cancelled.
Exit(c) ==
    /\ pc[c] = "inside"
    /\ pc' = [pc EXCEPT ![c] = "out"]
    /\ locked' = FALSE
    /\ released' = TRUE
    /\ UNCHANGED <<queue, called, runner>>

\* As Wake, with _run releasing the inner lock after the callback itself.
WakesAtOnce ==
    /\ runner = "wait"
    /\ runner' = "get"
    /\ locked' = FALSE
    /\ UNCHANGED <<pc, queue, called, released>>

\* As Wake, polling the event of an earlier round.
WakePolls == runner = "wait" /\ UNCHANGED vars

\* _release_event.wait() returns.
Wake ==
    /\ runner = "wait"
    /\ released
    /\ runner' = "get"
    /\ UNCHANGED <<pc, queue, called, locked, released>>

\* A task is cancelled while it waits in __aenter__.
Cancel(c) ==
    /\ pc[c] = "waiting"
    /\ pc' = [pc EXCEPT ![c] = "gone"]
    /\ UNCHANGED <<queue, called, runner, locked, released>>

\* close(): the task of _run is cancelled.
Close ==
    /\ runner # "closed"
    /\ runner' = "closed"
    /\ UNCHANGED <<pc, queue, called, locked, released>>

Step(c) == Enter(c) \/ Serve(c) \/ Resume(c) \/ Exit(c)

Next == Wake \/ \E c \in Client : Step(c)

\* The event loop runs every coroutine that can run, and no holder keeps the
\* lock for ever.
Fairness ==
    /\ WF_vars(Wake)
    /\ WF_vars(\E c \in Client : Serve(c))
    /\ \A c \in Client : WF_vars(Resume(c)) /\ WF_vars(Exit(c))

Spec == Init /\ [][Next]_vars /\ Fairness

NextCancel == Next \/ \E c \in Client : Cancel(c)

\* Tasks are cancelled and the node shuts down.
NextAll == NextCancel \/ Close
SpecAll == Init /\ [][NextAll]_vars

-----------------------------------------------------------------------------
TypeOK ==
    /\ pc \in [Client -> {"out", "waiting", "inside", "gone"}]
    /\ queue \subseteq Client
    /\ called \subseteq Client \ queue
    /\ runner \in {"get", "wait", "closed"}
    /\ locked \in BOOLEAN
    /\ released \in BOOLEAN

Inside == {c \in Client : pc[c] = "inside"}

\* At most one client is inside its block, whatever is cancelled: blocks and
\* transactions are validated one at a time.
MutualExclusion == \A c, d \in Client : pc[c] = "inside" /\ pc[d] = "inside" => c = d

\* The inner lock is taken whenever someone is inside, so the release in
\* __aexit__ never meets an unlocked lock, and _run never waits in acquire:
\* it chooses its next client only when that client can go in at once.
LockMatches ==
    /\ \A c \in Client : pc[c] = "inside" => locked /\ ~ released
    /\ runner = "get" => ~ locked

\* The lock the clients see is an ordinary lock.
L == INSTANCE CriticalSection WITH inside <- Inside
ImplementsLock == L!OneAtATime

Waiting == {c \in Client : pc[c] = "waiting"}

\* As long as someone waits for the lock, someone gets it: _run never waits
\* for a release that nobody will signal.
LockProgress == []<>(Waiting = {} \/ Inside # {})
=============================================================================
