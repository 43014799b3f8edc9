----------------------------- MODULE WalletKeys -----------------------------
(***************************************************************************)
(* The derivation paths of a wallet: the table of key indexes, handed out  *)
(* as addresses by RPCs and by the transaction that adds a block, and      *)
(* extended by the sync.  Every write outside of the transaction takes the *)
(* lock of the database; reads take none and share its connection.         *)
(***************************************************************************)
EXTENDS Naturals, Sequences, FiniteSets, FiniteSetsExt

CONSTANTS
    Rpc,         \* requests of an address: get_next_address and others without a lock
    NumKeys,     \* initial_num_public_keys
    MaxIndex,    \* bound on key indexes
    MaxRequests, MaxBlocks, MaxFailures \* bounds on requests, blocks, failures and restarts

VARIABLES
    rows,     \* the table: for each index, whether its rows are "none", "used" or (one is) "unused"
    saved,    \* the table when the transaction began
    watched,  \* all_puzzle_hashes
    keyLock,  \* puzzle_store.lock: who holds it, then who waits
    dbLock,   \* db_wrapper.lock: who holds it, then who waits
    task,     \* the state of each task
    given,    \* how often an index was handed out
    requests, newBlocks, fails, restarts

Index == 0..MaxIndex
Task == Rpc \cup {"sync", "block"}
counters == <<requests, newBlocks, fails, restarts>>
keyVars == <<rows, saved, watched, keyLock, dbLock, task, given, counters>>

Idle == [pc |-> "idle", record |-> 0, unused |-> 0, last |-> 0]
Running(t) == task[t].pc # "idle"

Init ==
    /\ rows = [i \in Index |-> IF i < NumKeys THEN "unused" ELSE "none"] /\ saved = rows
    /\ watched = {i \in Index : i < NumKeys}
    /\ keyLock = <<>> /\ dbLock = <<>> /\ task = [t \in Task |-> Idle]
    /\ given = [i \in Index |-> 0] /\ requests = 0 /\ newBlocks = 0 /\ fails = 0 /\ restarts = 0

-----------------------------------------------------------------------------
Stored == {i \in Index : rows[i] # "none"}
Unused == {i \in Index : rows[i] = "unused"}

\* The smallest unused index, or else the last one there is.
UnusedOrLast == IF Unused # {} THEN Min(Unused) ELSE Max(Stored)

Goto(t, pc) == task' = [task EXCEPT ![t].pc = pc]
Holds(t, lock) == lock # <<>> /\ Head(lock) = t

\* What comes after a write: the block goes on in its transaction, others release the lock
\* of the database, and queue for it again if they write next.
WriteLock(t, writesNext) ==
    dbLock' = IF t = "block" THEN dbLock
              ELSE IF writesNext THEN Append(Tail(dbLock), t) ELSE Tail(dbLock)

MayWrite(t) == Holds(t, dbLock)

\* get_unused_derivation_record: the lock of the store is taken.
get_unused_derivation_record(t) ==
    /\ keyLock' = Append(keyLock, t) /\ Goto(t, "take")

Request(t) ==
    /\ t \in Rpc /\ ~Running(t)
    /\ requests < MaxRequests /\ requests' = requests + 1
    /\ get_unused_derivation_record(t)
    /\ UNCHANGED <<rows, saved, watched, dbLock, given, newBlocks, fails, restarts>>

\* The first unused index is taken; without one, more keys are created first.  That call is
\* not told about the transaction, so that the block waits for the lock it holds.
TakeRecord(t) ==
    /\ task[t].pc = "take" /\ Holds(t, keyLock)
    /\ IF Unused # {}
       THEN /\ task' = [task EXCEPT ![t].record = Min(Unused), ![t].pc = "mark"]
            /\ dbLock' = IF t = "block" THEN dbLock ELSE Append(dbLock, t)
       ELSE /\ Goto(t, IF t = "block" THEN "stuck" ELSE "more0") /\ UNCHANGED dbLock
    /\ UNCHANGED <<rows, saved, watched, keyLock, given, counters>>

set_used_up_to(index) ==
    rows' = [i \in Index |-> IF i <= index /\ rows[i] # "none" THEN "used" ELSE rows[i]]

\* A mutant: the key that is handed out is not marked.
MarksFirst(t) ==
    /\ task[t].pc = "mark" /\ MayWrite(t) /\ WriteLock(t, FALSE)
    /\ set_used_up_to(task[t].record - 1) /\ Goto(t, "more")
    /\ UNCHANGED <<saved, watched, keyLock, given, counters>>

MarkUsed(t) ==
    /\ task[t].pc = "mark" /\ MayWrite(t) /\ WriteLock(t, FALSE)
    /\ set_used_up_to(task[t].record) /\ Goto(t, "more")
    /\ UNCHANGED <<saved, watched, keyLock, given, counters>>

\* create_more_puzzle_hashes: the first unused index is read,
ReadUnused(t) ==
    /\ task[t].pc \in {"more", "more0"}
    /\ task' = [task EXCEPT ![t].unused = UnusedOrLast,
                            ![t].pc = IF @ = "more" THEN "last" ELSE "last0"]
    /\ UNCHANGED <<rows, saved, watched, keyLock, dbLock, given, counters>>

\* then the last one, in another query.
ReadLast(t) ==
    /\ task[t].pc \in {"last", "last0"}
    /\ task' = [task EXCEPT ![t].last = Max(Stored) + 1,
                            ![t].pc = IF @ = "last" THEN "add" ELSE "add0"]
    /\ dbLock' = IF t = "block" THEN dbLock ELSE Append(dbLock, t)
    /\ UNCHANGED <<rows, saved, watched, keyLock, given, counters>>

\* Rows are added: the column is declared PRIMARY_KEY, which is no key, so that a row of a
\* used index is not replaced.
add_derivation_paths(t) ==
    /\ task[t].pc \in {"add", "add0"} /\ MayWrite(t) /\ WriteLock(t, task[t].unused > 0)
    /\ LET new == task[t].last..(task[t].unused + NumKeys - 1) \cap Index
       IN  /\ rows' = [i \in Index |-> IF i \in new THEN "unused" ELSE rows[i]]
           /\ watched' = watched \cup new
    /\ Goto(t, IF task[t].unused > 0 THEN IF task[t].pc = "add" THEN "used" ELSE "used0"
               ELSE IF task[t].pc = "add" THEN "give" ELSE "take")
    /\ UNCHANGED <<saved, keyLock, given, counters>>

MarkUsedUpTo(t) ==
    /\ task[t].pc \in {"used", "used0"} /\ MayWrite(t) /\ WriteLock(t, FALSE)
    /\ set_used_up_to(task[t].unused - 1)
    /\ Goto(t, IF task[t].pc = "used" THEN "give" ELSE "take")
    /\ UNCHANGED <<saved, watched, keyLock, given, counters>>

\* The record is returned; the block writes it to the configuration, which no transaction
\* rolls back, and goes on.
Give(t) ==
    /\ task[t].pc = "give"
    /\ Goto(t, IF t = "block" THEN "block" ELSE "idle")
    /\ IF t = "sync" THEN UNCHANGED <<given, keyLock>>
       ELSE given' = [given EXCEPT ![task[t].record] = @ + 1] /\ keyLock' = Tail(keyLock)
    /\ UNCHANGED <<rows, saved, watched, dbLock, counters>>

\* The wallet node extends the keys after a batch of blocks, without the lock of the store.
CreateMore ==
    /\ ~Running("sync") /\ requests < MaxRequests /\ requests' = requests + 1
    /\ Goto("sync", "more")
    /\ UNCHANGED <<rows, saved, watched, keyLock, dbLock, given, newBlocks, fails, restarts>>

-----------------------------------------------------------------------------
\* receive_block takes the lock of the database for its transaction.
BeginBlock ==
    /\ ~Running("block")
    /\ newBlocks < MaxBlocks /\ newBlocks' = newBlocks + 1
    /\ dbLock' = Append(dbLock, "block") /\ Goto("block", "begin")
    /\ UNCHANGED <<rows, saved, watched, keyLock, given, requests, fails, restarts>>

BeginTransaction ==
    /\ task["block"].pc = "begin" /\ MayWrite("block")
    /\ saved' = rows /\ Goto("block", "coins")
    /\ UNCHANGED <<rows, watched, keyLock, dbLock, given, counters>>

\* A coin of the block marks the keys up to its own as used.
CoinAdded ==
    /\ task["block"].pc = "coins" /\ Goto("block", "pool")
    /\ \/ \E i \in watched \cap Stored : set_used_up_to(i)
       \/ UNCHANGED rows
    /\ UNCHANGED <<saved, watched, keyLock, dbLock, given, counters>>

\* The launcher of a pool wallet: its configuration gets a new payout address.
NewPoolWallet ==
    /\ task["block"].pc = "pool" /\ get_unused_derivation_record("block")
    /\ UNCHANGED <<rows, saved, watched, dbLock, given, counters>>

CommitBlock ==
    /\ task["block"].pc \in {"pool", "block"}
    /\ dbLock' = Tail(dbLock) /\ Goto("block", "idle")
    /\ UNCHANGED <<rows, saved, watched, keyLock, given, counters>>

\* A later step raises: the transaction is rolled back, all_puzzle_hashes is not.
FailBlock ==
    /\ task["block"].pc \in {"pool", "block"} /\ fails + restarts < MaxFailures /\ fails' = fails + 1
    /\ rows' = saved /\ dbLock' = Tail(dbLock) /\ Goto("block", "idle")
    /\ UNCHANGED <<saved, watched, keyLock, given, requests, newBlocks, restarts>>

\* The wallet stops and starts again: an open transaction is lost, tasks end, all_puzzle_hashes
\* is read from the table.  (The table has its first keys, so no more are created.)
Restart ==
    /\ fails + restarts < MaxFailures /\ restarts' = restarts + 1
    /\ rows' = IF task["block"].pc \notin {"idle", "begin"} THEN saved ELSE rows
    /\ watched' = {i \in Index : rows'[i] # "none"} /\ UNCHANGED saved
    /\ task' = [t \in Task |-> Idle] /\ keyLock' = <<>> /\ dbLock' = <<>>
    /\ UNCHANGED <<given, requests, newBlocks, fails>>

Keys(t) ==
    \/ TakeRecord(t) \/ MarkUsed(t) \/ ReadUnused(t) \/ ReadLast(t)
    \/ add_derivation_paths(t) \/ MarkUsedUpTo(t) \/ Give(t)

Next ==
    \/ \E t \in Task : Request(t) \/ Keys(t)
    \/ CreateMore \/ BeginBlock \/ BeginTransaction \/ CoinAdded \/ NewPoolWallet
    \/ CommitBlock \/ FailBlock \/ Restart

Spec == Init /\ [][Next]_keyVars

-----------------------------------------------------------------------------
\* A key is handed out at most once, whichever RPCs, sync and blocks interleave: the docstring
\* of get_unused_derivation_record promises it.  A transaction that is rolled back makes a
\* key unused again that a pool configuration, or an RPC that read it meanwhile, has.
NeverReused == \A i \in Index : given[i] <= 1

\* Without a failure none is, and a payment to an address that was handed out is always seen:
\* the filter of a block is matched against all_puzzle_hashes, also after a restart that reads
\* it from the table.  (An RPC may have read a key of a transaction that fails; all_puzzle_hashes
\* keeps it, the table does not, and a restart after the failure loses it.)
KeysSound ==
    /\ fails = 0 /\ restarts = 0 => NeverReused
    /\ fails = 0 \/ restarts = 0 => \A i \in Index : given[i] > 0 => i \in watched
=============================================================================
