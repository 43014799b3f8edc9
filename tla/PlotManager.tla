---------------------------- MODULE PlotManager ----------------------------
(***************************************************************************)
(* The plot manager of a harvester: a thread that refreshes the set of     *)
(* plots from the directories of the configuration, in batches whose files *)
(* are opened by a thread pool, while files come and go and the harvester  *)
(* looks plots up.                                                         *)
(***************************************************************************)
EXTENDS Naturals, FiniteSets

CONSTANTS
    Dir, Name,  \* directories, names of plot files
    BatchSize,  \* refresh_parameter.batch_size
    MaxChanges, \* bound on changes of files and directories
    MaxFails    \* bound on files that cannot be opened

VARIABLES
    disk,     \* the plot files there are
    dirs,     \* the plot directories of the configuration
    loaded,   \* plots
    paths,    \* plot_filename_paths: for a name, the directory loaded and those of duplicates
    failed,   \* failed_to_open_filenames, as long as they are not tried again
    enabled,  \* _refreshing_enabled: "no" at first, "yes", and "off" when the harvester closes
    due,      \* needs_refresh()
    refresh,  \* the refresh thread: stage, the directories it has read, the files to do
    batch, opened, found, \* files of the batch to process, opened, and to be added to plots
    lookup,   \* the harvester's loop over plots, which holds the manager's lock
    changes, fails

Files == Dir \X Name
work == <<batch, opened, found>>
outside == <<disk, dirs, changes>>
pmVars == <<outside, work, loaded, paths, failed, enabled, due, refresh, lookup, fails>>

None == [dir |-> "none", dups |-> {}]
Sleeping == [stage |-> "sleep", dirs |-> {}, todo |-> {}]

Init ==
    /\ disk \in SUBSET Files /\ dirs = Dir /\ changes = 0 /\ fails = 0
    /\ loaded = {} /\ paths = [n \in Name |-> None] /\ failed = {}
    /\ enabled = "no" /\ due = TRUE /\ refresh = Sleeping
    /\ batch = {} /\ opened = {} /\ found = {} /\ lookup = "idle"

-----------------------------------------------------------------------------
\* Files are copied, moved and deleted by others; directories are removed by an RPC.
ChangeFiles ==
    /\ changes < MaxChanges /\ changes' = changes + 1
    /\ \/ \E f \in Files : disk' = (disk \ {f}) \cup ({f} \ disk) /\ UNCHANGED <<dirs, due>>
       \/ \E d \in dirs : dirs' = dirs \ {d} /\ due' = TRUE /\ UNCHANGED disk
    /\ UNCHANGED <<work, loaded, paths, failed, enabled, refresh, lookup, fails>>

\* The handshake with the farmer starts the thread; closing the harvester stops it.
start_refreshing ==
    /\ enabled = "no" /\ enabled' = "yes"
    /\ UNCHANGED <<outside, work, loaded, paths, failed, due, refresh, lookup, fails>>

stop_refreshing ==
    /\ enabled = "yes" /\ enabled' = "off"
    /\ UNCHANGED <<outside, work, loaded, paths, failed, due, refresh, lookup, fails>>

\* The interval is over, or trigger_refresh is called.
needs_refresh ==
    /\ ~due /\ due' = TRUE
    /\ UNCHANGED <<outside, work, loaded, paths, failed, enabled, refresh, lookup, fails>>

\* A round: the files of the directories are listed.
ListFiles ==
    /\ enabled = "yes" /\ due /\ refresh.stage = "sleep"
    /\ refresh' = [stage |-> "remove", dirs |-> dirs, todo |-> {f \in disk : f[1] \in dirs}]
    /\ UNCHANGED <<outside, work, loaded, paths, failed, enabled, due, lookup, fails>>

Gone(f) == f \notin disk \/ f[1] \notin refresh.dirs

\* A mutant: the duplicates of a file that is gone are kept.
KeepDuplicates ==
    /\ refresh.stage = "remove" /\ refresh' = [refresh EXCEPT !.stage = "batches"]
    /\ LET drop == {n \in Name : paths[n] # None /\ Gone(<<paths[n].dir, n>>)}
           gone == {<<paths[n].dir, n>> : n \in drop}
       IN  /\ loaded' = loaded \ gone
           /\ paths' = [n \in Name |-> IF n \in drop /\ paths[n].dups = {} THEN None ELSE paths[n]]
           /\ lookup' = IF lookup = "loop" /\ loaded \cap gone # {} THEN "raised" ELSE lookup
    /\ UNCHANGED <<outside, work, failed, enabled, due, fails>>

\* Names whose loaded file is gone are dropped, with their duplicates; duplicates that are
\* gone are dropped.  The manager's lock is not taken: a loop over plots raises.
RemoveGone ==
    /\ refresh.stage = "remove" /\ refresh' = [refresh EXCEPT !.stage = "batches"]
    /\ LET drop == {n \in Name : paths[n] # None /\ Gone(<<paths[n].dir, n>>)}
           gone == {<<paths[n].dir, n>> : n \in drop}
       IN  /\ loaded' = loaded \ gone
           /\ paths' = [n \in Name |->
                          IF paths[n] = None \/ n \in drop THEN None
                          ELSE [paths[n] EXCEPT !.dups = {d \in @ : ~Gone(<<d, n>>)}]]
           /\ lookup' = IF lookup = "loop" /\ loaded \cap gone # {} THEN "raised" ELSE lookup
    /\ UNCHANGED <<outside, work, failed, enabled, due, fails>>

\* refresh_batch, with the manager's lock.
StartBatch ==
    /\ refresh.stage = "batches" /\ refresh.todo # {} /\ lookup = "idle"
    /\ \E b \in SUBSET refresh.todo :
         /\ Cardinality(b) = BatchSize \/ (b = refresh.todo /\ Cardinality(b) < BatchSize)
         /\ batch' = b /\ refresh' = [refresh EXCEPT !.stage = "batch", !.todo = @ \ b]
    /\ UNCHANGED <<outside, opened, found, loaded, paths, failed, enabled, due, lookup, fails>>

IsDuplicate(f) == paths[f[2]] # None /\ f[1] \in paths[f[2]].dups

\* process_file, up to the prover: the file is skipped, or has been loaded, or is opened, or
\* cannot be.
process_file(f) ==
    /\ f \in batch /\ batch' = batch \ {f}
    /\ IF enabled = "off" \/ f \in failed \/ (f \notin loaded /\ (IsDuplicate(f) \/ f \notin disk))
       THEN UNCHANGED <<opened, found, failed, fails>>
       ELSE IF f \in loaded THEN found' = found \cup {f} /\ UNCHANGED <<opened, failed, fails>>
       ELSE \/ opened' = opened \cup {f} /\ UNCHANGED <<found, failed, fails>>
            \/ /\ fails < MaxFails /\ fails' = fails + 1 /\ failed' = failed \cup {f}
               /\ UNCHANGED <<opened, found>>
    /\ UNCHANGED <<outside, loaded, paths, enabled, due, refresh, lookup>>

\* The end of process_file: with plot_filename_paths_lock, the first file of a name is the
\* one that is used, others are duplicates.
RegisterPath(f) ==
    /\ f \in opened /\ opened' = opened \ {f}
    /\ IF paths[f[2]] = None
       THEN /\ paths' = [paths EXCEPT ![f[2]] = [dir |-> f[1], dups |-> {}]]
            /\ found' = found \cup {f}
       ELSE paths' = [paths EXCEPT ![f[2]].dups = @ \cup {f[1]}] /\ UNCHANGED found
    /\ UNCHANGED <<outside, batch, loaded, failed, enabled, due, refresh, lookup, fails>>

EndBatch ==
    /\ refresh.stage = "batch" /\ batch = {} /\ opened = {}
    /\ loaded' = loaded \cup found /\ found' = {}
    /\ refresh' = [refresh EXCEPT !.stage = "batches", !.todo = IF enabled = "yes" THEN @ ELSE {}]
    /\ UNCHANGED <<outside, batch, opened, paths, failed, enabled, due, lookup, fails>>

\* The time of the last refresh is set, also when trigger_refresh was called meanwhile.
EndRefresh ==
    /\ refresh.stage = "batches" /\ refresh.todo = {}
    /\ refresh' = Sleeping /\ due' = FALSE
    /\ UNCHANGED <<outside, work, loaded, paths, failed, enabled, lookup, fails>>

\* retry_invalid_seconds are over.
RetryInvalid ==
    /\ failed # {} /\ failed' = {}
    /\ UNCHANGED <<outside, work, loaded, paths, enabled, due, refresh, lookup, fails>>

\* new_signage_point_harvester goes over plots, with the lock; an exception releases it.
Lookup ==
    /\ \/ lookup = "idle" /\ refresh.stage # "batch" /\ loaded # {} /\ lookup' = "loop"
       \/ lookup # "idle" /\ lookup' = "idle"
    /\ UNCHANGED <<outside, work, loaded, paths, failed, enabled, due, refresh, fails>>

Refresh ==
    \/ ListFiles \/ RemoveGone \/ StartBatch \/ EndBatch \/ EndRefresh
    \/ \E f \in Files : process_file(f) \/ RegisterPath(f)

Next ==
    \/ ChangeFiles \/ start_refreshing \/ stop_refreshing \/ needs_refresh \/ RetryInvalid
    \/ Refresh \/ Lookup

Spec == Init /\ [][Next]_pmVars

-----------------------------------------------------------------------------
Available(n) == {f \in disk : f[2] = n /\ f[1] \in dirs}
LoadedAs(n) == {f \in loaded : f[2] = n}

\* A plot is farmed once: of files with the same name at most one is loaded, that of
\* plot_filename_paths, whichever threads open the copies at the same time and whichever
\* copy is deleted between two refreshes.
LoadedOnce ==
    \A n \in Name : \A f \in LoadedAs(n) \cup {g \in found : g[2] = n} :
      paths[n] # None /\ f = <<paths[n].dir, n>>

\* While the thread runs: every plot that has a file is loaded, and only those.
AllLoaded ==
    enabled = "yes" => \A n \in Name : /\ LoadedAs(n) \subseteq Available(n)
                                       /\ Available(n) # {} => LoadedAs(n) # {}
=============================================================================
