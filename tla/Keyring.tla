------------------------------ MODULE Keyring ------------------------------
(***************************************************************************)
(* The keyring of a machine: one encrypted file, which the daemon and the  *)
(* command line read and write with caches of their own (the outer         *)
(* payload, the decrypted keys, a master passphrase that was validated     *)
(* once), and the keyring of the operating system, from which keys are     *)
(* migrated at the first write.                                            *)
(***************************************************************************)
EXTENDS Naturals, FiniteSets, FiniteSetsExt, Functions

CONSTANTS
    Process,    \* processes that use the keyring; "daemon" is one
    Key, Phrase,\* private keys; passphrases, "default" if the user sets none
    Slots,      \* the users of the keyring: indices of keys
    LegacyKeys, \* keys by index in the keyring of the operating system
    MaxOps

VARIABLES
    file,       \* keyring.yaml: the passphrase that decrypts it, the keys, and the time of the write
    osKeys,     \* the legacy keyring
    proc,       \* of a process: its caches
    kop,        \* of a process: the operation in progress
    wantedKeys, wantedPhrase, \* what the user has stored, and the passphrase told
    overlap,    \* operations of two processes have overlapped
    raised,     \* a process could not decrypt the file with the passphrase it had validated
    ops

ringVars == <<file, osKeys, proc, kop, wantedKeys, wantedPhrase, overlap, raised, ops>>

Index == 0..Slots - 1
NoKey == "none"
NoKeys == [i \in Index |-> NoKey]
KeysOf(ring) == Range(ring) \ {NoKey}

NoPhrase == "none"
EmptyFile == [pass |-> NoPhrase, keys |-> NoKeys, stamp |-> 0]
HasContent(outer) == outer.pass # NoPhrase

IdleOp == [kind |-> "idle", pc |-> "", key |-> NoKey, idx |-> 0, phrase |-> NoPhrase]

\* A process starts: the legacy keyring is used when it has keys and the file has none.
NewProcess(f) ==
    [legacy |-> ~HasContent(f) /\ KeysOf(osKeys) # {}, outer |-> f, cache |-> NoKeys, loaded |-> FALSE,
     seen |-> 0, needs |-> FALSE, pass |-> "default", valid |-> FALSE]

Init ==
    /\ file = EmptyFile /\ osKeys \in {NoKeys, LegacyKeys}
    /\ proc = [p \in Process |-> NewProcess(EmptyFile)]
    /\ kop = [p \in Process |-> IdleOp]
    /\ wantedKeys = KeysOf(osKeys) /\ wantedPhrase = "default"
    /\ overlap = FALSE /\ raised = FALSE /\ ops = 0

-----------------------------------------------------------------------------
\* What a call leaves: it returns, raises, or has ended the process.
Ok(r) == [r |-> r, ok |-> TRUE, exits |-> FALSE]
Raise(r) == [r |-> r, ok |-> FALSE, exits |-> FALSE]
Exit == [r |-> NewProcess(file), ok |-> FALSE, exits |-> TRUE]

\* has_master_passphrase, check_passphrase: by the outer payload as it was read.
HasMaster(r) == ~r.legacy /\ HasContent(r.outer)
check_passphrase(r, phrase) == HasContent(r.outer) /\ phrase = r.outer.pass

\* obtain_current_passphrase: one that was validated is not checked again; the command line
\* asks the user.  Without one the process exits.
Obtain(p, r) ==
    IF r.valid THEN Ok(r)
    ELSE IF check_passphrase(r, r.pass) THEN Ok([r EXCEPT !.valid = TRUE])
    ELSE IF p # "daemon" /\ check_passphrase(r, wantedPhrase)
    THEN Ok([r EXCEPT !.pass = wantedPhrase, !.valid = TRUE])
    ELSE Exit

\* load_keyring with a passphrase: the flag is cleared and the outer payload read before the
\* keys are decrypted.
Decrypt(r, phrase) ==
    IF phrase = file.pass THEN Ok([r EXCEPT !.cache = file.keys, !.loaded = TRUE]) ELSE Raise(r)

load_keyring(p, r) ==
    LET read == [r EXCEPT !.needs = FALSE, !.outer = file]
        got  == Obtain(p, read)
    IN  IF ~HasContent(file) THEN Ok(read) ELSE IF got.ok THEN Decrypt(got.r, got.r.pass) ELSE got

\* A mutant: a file that was modified by another process is not read again.
NeverReloaded(p, r) == IF r.needs \/ (HasContent(r.outer) /\ ~r.loaded) THEN load_keyring(p, r) ELSE Ok(r)

check_if_keyring_file_modified(r) ==
    IF file.stamp > r.seen THEN [r EXCEPT !.needs = TRUE, !.seen = file.stamp] ELSE r

\* The decorator of reads and writes.
loads_keyring(p, r) ==
    LET m == check_if_keyring_file_modified(r)
    IN  IF m.needs \/ (HasContent(m.outer) /\ ~m.loaded) THEN load_keyring(p, m) ELSE Ok(m)

\* unlocks_keyring and get_passphrase of all indices.
GetKeys(p, r) ==
    LET unlocked == IF HasMaster(r) THEN Obtain(p, r) ELSE Ok(r)
    IN  IF r.legacy THEN Ok(r) ELSE IF unlocked.ok THEN loads_keyring(p, unlocked.r) ELSE unlocked

View(r) == IF r.legacy THEN osKeys ELSE r.cache

\* write_keyring: the first write takes the cached passphrase as it is.
write_keyring(p, r, keys) ==
    LET got == IF HasContent(r.outer) THEN Obtain(p, r) ELSE Ok(r)
        new == [pass |-> got.r.pass, keys |-> keys, stamp |-> file.stamp + 1]
    IN  [of   |-> IF got.ok THEN Ok([got.r EXCEPT !.outer = new, !.cache = keys, !.loaded = TRUE]) ELSE got,
         file |-> IF got.ok THEN new ELSE file]

\* set_password and delete_password, with the lock of the file: loaded, changed and written.
SetPassword(p, r, i, k) ==
    LET l == loads_keyring(p, r)
    IN  IF ~l.ok \/ k = l.r.cache[i] THEN [of |-> l, file |-> file]
        ELSE write_keyring(p, l.r, [l.r.cache EXCEPT ![i] = k])

-----------------------------------------------------------------------------
Others == <<osKeys, wantedKeys, wantedPhrase, overlap, ops>>

\* A command is a process of its own.
Current(p) == IF p = "daemon" THEN proc[p] ELSE NewProcess(file)

Begin(p, op) ==
    /\ kop[p] = IdleOp /\ ops < MaxOps /\ ops' = ops + 1 /\ kop' = [kop EXCEPT ![p] = op]
    /\ overlap' = (overlap \/ \E q \in Process : kop[q] # IdleOp)

Settle(p, res) == /\ proc' = [proc EXCEPT ![p] = res.r]
                  /\ raised' = (raised \/ (~res.ok /\ ~res.exits))
Become(p, r) == Settle(p, Ok(r))
GoTo(p, pc) == kop' = [kop EXCEPT ![p].pc = pc]
EndOp(p) == kop' = [kop EXCEPT ![p] = IdleOp]

BeginAdd(p, k) ==
    /\ Become(p, Current(p))
    /\ k \notin wantedKeys /\ Cardinality(wantedKeys) < Slots
    /\ Begin(p, [IdleOp EXCEPT !.kind = "add", !.pc = "read", !.key = k])
    /\ UNCHANGED <<file, osKeys, wantedKeys, wantedPhrase>>

\* The key is gone once the request has been made.
BeginDelete(p, k) ==
    /\ Become(p, Current(p))
    /\ k \in wantedKeys /\ wantedKeys' = wantedKeys \ {k}
    /\ Begin(p, [IdleOp EXCEPT !.kind = "delete", !.pc = "read", !.key = k])
    /\ UNCHANGED <<file, osKeys, wantedPhrase>>

\* add_private_key: the first free index, unless the key is there.  delete_key_by_fingerprint:
\* the index of the key.  An exception ends the operation, and the key is still there.
ReadKeys(p) ==
    /\ kop[p].pc = "read"
    /\ LET got  == GetKeys(p, proc[p])
           view == View(got.r)
           hits == {i \in Index : view[i] = IF kop[p].kind = "add" THEN NoKey ELSE kop[p].key}
       IN  /\ Settle(p, got)
           /\ IF got.ok /\ hits # {} /\ (kop[p].kind = "add" => kop[p].key \notin KeysOf(view))
              THEN /\ kop' = [kop EXCEPT ![p].pc = IF got.r.legacy THEN "migrate" ELSE "write", ![p].idx = Min(hits)]
                   /\ UNCHANGED wantedKeys
              ELSE /\ EndOp(p)
                   /\ wantedKeys' = IF kop[p].kind = "delete" /\ ~got.ok THEN wantedKeys \cup {kop[p].key}
                                    ELSE wantedKeys
    /\ UNCHANGED <<file, osKeys, wantedPhrase, overlap, ops>>

WriteKey(p) ==
    /\ kop[p].pc = "write" /\ EndOp(p)
    /\ LET adds == kop[p].kind = "add"
           w    == SetPassword(p, proc[p], kop[p].idx, IF adds THEN kop[p].key ELSE NoKey)
       IN  /\ Settle(p, w.of) /\ file' = w.file
           /\ wantedKeys' = IF adds = w.of.ok THEN wantedKeys \cup {kop[p].key} ELSE wantedKeys
    /\ UNCHANGED <<osKeys, wantedPhrase, overlap, ops>>

\* delete_all_keys goes over the indices twice, and passes over exceptions.
BeginDeleteAll(p) ==
    /\ Become(p, Current(p))
    /\ ~Current(p).legacy /\ wantedKeys # {} /\ wantedKeys' = {}
    /\ Begin(p, [IdleOp EXCEPT !.kind = "delete_all", !.pc = "all"])
    /\ UNCHANGED <<file, osKeys, wantedPhrase>>

DeleteNext(p) ==
    /\ kop[p].pc = "all"
    /\ LET got == GetKeys(p, proc[p])
           w   == IF got.ok THEN SetPassword(p, got.r, kop[p].idx % Slots, NoKey) ELSE [of |-> got, file |-> file]
       IN  /\ Settle(p, w.of) /\ file' = w.file
           /\ kop' = [kop EXCEPT ![p] = IF w.of.exits \/ @.idx + 1 = 2 * Slots THEN IdleOp
                                        ELSE [@ EXCEPT !.idx = @ + 1]]
           /\ wantedKeys' = IF w.of.exits THEN KeysOf(w.file.keys) ELSE wantedKeys
    /\ UNCHANGED <<osKeys, wantedPhrase, overlap, ops>>

\* is_keyring_locked: the daemon refuses the requests of the services and of the GUI.
Locked(r) == HasMaster(r) /\ ~check_passphrase(r, r.pass)
Unlocked == "daemon" \in Process /\ ~Locked(proc["daemon"])

AddRequest(k) == Unlocked /\ BeginAdd("daemon", k)
DeleteRequest(k) == Unlocked /\ BeginDelete("daemon", k)
DeleteAllRequest == Unlocked /\ BeginDeleteAll("daemon")

\* get_all_private_keys, get_first_private_key, get_key_for_fingerprint.
ReadRequest ==
    /\ Unlocked /\ kop["daemon"] = IdleOp /\ Settle("daemon", GetKeys("daemon", proc["daemon"]))
    /\ UNCHANGED <<file, kop, Others>>

-----------------------------------------------------------------------------
\* The user is not asked for the default passphrase.
CurrentPhrase(r) == IF check_passphrase(r, "default") THEN "default" ELSE wantedPhrase

\* set_master_passphrase: the current one is checked by the outer payload there is; the new
\* one is cached before the file is read.
BeginChange(p, phrase) ==
    /\ phrase # wantedPhrase
    /\ LET current == CurrentPhrase(Current(p))
           refused == HasMaster(Current(p)) /\ ~check_passphrase(Current(p), current)
       IN  /\ Begin(p, IF refused THEN IdleOp
                       ELSE [IdleOp EXCEPT !.kind = "change", !.pc = "load", !.phrase = current])
           /\ Become(p, IF refused THEN Current(p) ELSE [Current(p) EXCEPT !.pass = phrase, !.valid = TRUE])
    /\ UNCHANGED <<file, osKeys, wantedKeys, wantedPhrase>>

ChangeRequest(phrase) == "daemon" \in Process /\ BeginChange("daemon", phrase)

\* The keys are decrypted with the current one; a keyring that is not migrated is migrated by
\* the command line, and refused by the daemon.
LoadForChange(p) ==
    /\ kop[p].pc = "load"
    /\ IF proc[p].legacy
       THEN (IF p = "daemon" THEN EndOp(p) ELSE GoTo(p, "migrate")) /\ UNCHANGED <<proc, raised>>
       ELSE LET read == [proc[p] EXCEPT !.needs = FALSE, !.outer = file]
                d    == IF HasContent(file) THEN Decrypt(read, kop[p].phrase) ELSE Ok(read)
            IN  Settle(p, d) /\ IF d.ok THEN GoTo(p, "rewrite") ELSE EndOp(p)
    /\ UNCHANGED <<file, Others>>

\* The lock of the file is not taken.
Rewrite(p) ==
    /\ kop[p].pc = "rewrite" /\ EndOp(p)
    /\ LET w == write_keyring(p, proc[p], proc[p].cache)
       IN  Settle(p, w.of) /\ file' = w.file /\ wantedPhrase' = proc[p].pass
    /\ UNCHANGED <<osKeys, wantedKeys, overlap, ops>>

\* unlock_keyring: the outer payload is read again.
unlock_keyring ==
    /\ "daemon" \in Process /\ kop["daemon"] = IdleOp
    /\ LET read == [proc["daemon"] EXCEPT !.outer = file]
       IN  /\ ~check_passphrase(read, read.pass) /\ HasContent(file) /\ ~read.legacy
           /\ Become("daemon", IF check_passphrase(read, wantedPhrase)
                               THEN [read EXCEPT !.pass = wantedPhrase, !.valid = FALSE] ELSE read)
    /\ UNCHANGED <<file, kop, Others>>

\* migrate_keyring, a request to the daemon, and the migration of the command line: the keys
\* are read, and written one after another.  With the default passphrase the user may set one.
BeginMigration ==
    /\ "daemon" \in Process /\ proc["daemon"].legacy
    /\ Begin("daemon", [IdleOp EXCEPT !.kind = "migrate", !.pc = "migrate"])
    /\ UNCHANGED <<file, osKeys, proc, raised, wantedKeys, wantedPhrase>>

CopyKeys(p) ==
    /\ kop[p].pc = "migrate" /\ GoTo(p, "verify")
    /\ \E phrase \in IF proc[p].pass = "default" THEN Phrase ELSE {proc[p].pass} :
         LET first  == [proc[p] EXCEPT !.pass = phrase, !.valid = @ \/ phrase # "default"]
             loaded == loads_keyring(p, first)
             merged == [i \in Index |-> IF osKeys[i] # NoKey THEN osKeys[i] ELSE loaded.r.cache[i]]
             w      == write_keyring(p, loaded.r, merged)
         IN  IF loaded.ok /\ w.of.ok THEN Settle(p, w.of) /\ file' = w.file /\ wantedPhrase' = w.file.pass
             ELSE Settle(p, loaded) /\ UNCHANGED <<file, wantedPhrase>>
    /\ UNCHANGED <<osKeys, wantedKeys, overlap, ops>>

\* notify_keyring_migration_completed: the daemon starts afresh with the passphrase it is told.
Told == [NewProcess(file) EXCEPT !.legacy = FALSE, !.pass = wantedPhrase]

\* verify_migration_results: the keys of the file are those that were read; else the legacy
\* keyring stays in use.  It may be cleaned, the daemon is told, and the operation goes on.
VerifyMigration(p) ==
    /\ kop[p].pc = "verify"
    /\ LET got  == GetKeys(p, [proc[p] EXCEPT !.legacy = FALSE])
           done == got.ok /\ KeysOf(got.r.cache) = KeysOf(osKeys)
       IN  IF done
           THEN /\ osKeys' \in {osKeys, NoKeys}
                /\ UNCHANGED raised
                /\ proc' = [q \in Process |-> IF q = p THEN got.r
                                              ELSE IF q = "daemon" THEN Told ELSE proc[q]]
                /\ IF kop[p].kind \in {"add", "delete"} THEN GoTo(p, "write") ELSE EndOp(p)
                /\ UNCHANGED wantedKeys
           ELSE /\ Become(p, [got.r EXCEPT !.legacy = TRUE]) /\ EndOp(p) /\ UNCHANGED osKeys
                /\ wantedKeys' = IF kop[p].kind = "delete" THEN wantedKeys \cup {kop[p].key} ELSE wantedKeys
    /\ UNCHANGED <<file, wantedPhrase, overlap, ops>>

\* The daemon ends, and another one starts.
Restart ==
    /\ "daemon" \in Process /\ kop["daemon"] = IdleOp
    /\ proc["daemon"] # NewProcess(file) /\ Become("daemon", NewProcess(file))
    /\ UNCHANGED <<file, kop, Others>>

Next ==
    \/ \E p \in Process \ {"daemon"} :
         \/ (\E k \in Key : BeginAdd(p, k) \/ BeginDelete(p, k)) \/ BeginDeleteAll(p)
         \/ \E phrase \in Phrase : BeginChange(p, phrase)
    \/ (\E k \in Key : AddRequest(k) \/ DeleteRequest(k)) \/ DeleteAllRequest \/ ReadRequest
    \/ \E phrase \in Phrase : ChangeRequest(phrase)
    \/ \E p \in Process :
         \/ ReadKeys(p) \/ WriteKey(p) \/ DeleteNext(p) \/ LoadForChange(p) \/ Rewrite(p)
         \/ CopyKeys(p) \/ VerifyMigration(p)
    \/ unlock_keyring \/ BeginMigration \/ Restart

Spec == Init /\ [][Next]_ringVars

-----------------------------------------------------------------------------
Stored == IF HasContent(file) THEN KeysOf(file.keys) ELSE KeysOf(osKeys)
Quiet == \A p \in Process : kop[p] = IdleOp

\* No key the user has added and not deleted is lost, whichever processes wrote the file,
\* with whatever caches, and across changes of the passphrase and the migration: as long as
\* operations of two processes do not overlap (the free index is read before the lock is
\* taken, and a change of the passphrase takes none), and no process fails to decrypt the file.
KeysKept == Quiet /\ ~overlap /\ ~raised => wantedKeys \subseteq Stored

\* The same when reads have raised.  The cache of keys is, by its comment, that of the file
\* as it was read last; but a load that raises has cleared the flag, and once the daemon is
\* unlocked again it goes on with the keys it decrypted before, and writes them.
CacheIsOfFile == Quiet /\ ~overlap => wantedKeys \subseteq Stored
=============================================================================
