------------------------------- MODULE Daemon -------------------------------
(***************************************************************************)
(* The daemon: it launches the services of the node as processes and ends  *)
(* them, on requests over several connections that its handlers serve      *)
(* concurrently, and works off queues of plots.                            *)
(***************************************************************************)
EXTENDS Naturals, Sequences, FiniteSets, FiniteSetsExt, Functions

CONSTANTS
    Service, Pid, \* services; processes that may be launched
    Plot, Parallel, PlotRequests, \* plots; those that do not wait; requests: sequences of plots
    MaxPlotFaults,\* bound on plotters that cannot be launched
    MaxCrashes    \* bound on plotters that end without their last line of output

VARIABLES
    services,   \* the process of a service, by the daemon's map
    pstat,      \* of a process: its service and what it does
    held,       \* the lock file of a service: its process
    kills,      \* kill_process in progress: the processes
    shutting,   \* exit: "no", "kill", "cleared"
    plotQueue,  \* plots_queue
    plotState,  \* of a plot: its state
    delayed,    \* _start_plotting of a plot, before or in its delay: number of tasks
    plotter,    \* of a plot: its process
    watching,   \* plots whose output is read
    plotStops,  \* stop_plotting that waits for the process
    plotFaults, crashes

queueVars == <<plotQueue, plotState, delayed, plotter, watching, plotStops, plotFaults, crashes>>
serviceVars == <<services, pstat, held, kills, shutting>>
daemonVars == <<serviceVars, queueVars>>

NoPid == 0
NotLaunched == [svc |-> "none", at |-> "none"]

Init ==
    /\ services = [s \in Service |-> NoPid] /\ pstat = [p \in Pid |-> NotLaunched]
    /\ held = [s \in Service |-> NoPid] /\ kills = {} /\ shutting = "no"
    /\ plotQueue = <<>> /\ plotState = [i \in Plot |-> "none"] /\ delayed = [i \in Plot |-> 0]
    /\ plotter = [i \in Plot |-> "none"] /\ watching = {} /\ plotStops = {} /\ plotFaults = 0 /\ crashes = 0

-----------------------------------------------------------------------------
Live(p) == pstat[p].at \notin {"none", "dead"}
Launchable == {p \in Pid : pstat[p].at = "none"}

\* poll() of the process in the map.
is_running(s) == services[s] # NoPid /\ Live(services[s])

launch_service(s, p) ==
    /\ p \in Launchable /\ \A q \in Launchable : p <= q
    /\ pstat' = [pstat EXCEPT ![p] = [svc |-> s, at |-> "launched"]]
    /\ services' = [services EXCEPT ![s] = p]

\* A mutant: a service that runs is started again.
StartAnyway(s) ==
    /\ shutting # "cleared" /\ \E p \in Pid : launch_service(s, p)
    /\ UNCHANGED <<held, kills, shutting, queueVars>>

\* start_service: not when the process in the map is running.
start_service(s) ==
    /\ shutting # "cleared" /\ ~is_running(s)
    /\ \E p \in Pid : launch_service(s, p)
    /\ UNCHANGED <<held, kills, shutting, queueVars>>

\* kill_service: the process leaves the map at once, and is signalled.
kill_service(s) ==
    /\ services[s] # NoPid /\ services' = [services EXCEPT ![s] = NoPid]
    /\ kills' = kills \cup {services[s]}
    /\ pstat' = [pstat EXCEPT ![services[s]].at =
                   CASE @ = "launched" -> "dead" [] @ = "running" -> "stopping" [] OTHER -> @]

stop_service(s) ==
    /\ shutting # "cleared" /\ kill_service(s) /\ UNCHANGED <<held, shutting, queueVars>>

\* kill_process returns when the process has ended, or has been killed after the delay.
kill_process(p) ==
    /\ p \in kills /\ kills' = kills \ {p}
    /\ pstat' = [pstat EXCEPT ![p].at = "dead"]
    /\ held' = [s \in Service |-> IF held[s] = p THEN NoPid ELSE held[s]]
    /\ UNCHANGED <<services, shutting, queueVars>>

\* exit: all services of the map are killed, and the map is cleared when they have ended.
ExitKills ==
    /\ shutting = "no" /\ shutting' = "kill"
    /\ kills' = kills \cup (Range(services) \ {NoPid})
    /\ services' = [s \in Service |-> NoPid]
    /\ pstat' = [p \in Pid |-> IF p \notin Range(services) THEN pstat[p]
                               ELSE [pstat[p] EXCEPT !.at = CASE @ = "launched" -> "dead"
                                                             [] @ = "running" -> "stopping" [] OTHER -> @]]
    /\ UNCHANGED <<held, queueVars>>

ExitClears ==
    /\ shutting = "kill" /\ kills = {}
    /\ shutting' = "cleared" /\ services' = [s \in Service |-> NoPid]
    /\ UNCHANGED <<pstat, held, kills, queueVars>>

\* Service.run: the lock file is taken, or the process ends; then signals are handled.
RunService(p) ==
    /\ pstat[p].at = "launched"
    /\ LET s == pstat[p].svc
       IN  IF held[s] = NoPid
           THEN held' = [held EXCEPT ![s] = p] /\ pstat' = [pstat EXCEPT ![p].at = "running"]
           ELSE UNCHANGED held /\ pstat' = [pstat EXCEPT ![p].at = "dead"]
    /\ UNCHANGED <<services, kills, shutting, queueVars>>

\* Service.stop by the RPC, and the end of wait_closed, which frees the lock file.
StopByRpc(p) ==
    /\ pstat[p].at = "running" /\ pstat' = [pstat EXCEPT ![p].at = "stopping"]
    /\ UNCHANGED <<services, held, kills, shutting, queueVars>>

wait_closed(p) ==
    /\ pstat[p].at = "stopping" /\ pstat' = [pstat EXCEPT ![p].at = "dead"]
    /\ held' = [held EXCEPT ![pstat[p].svc] = NoPid]
    /\ UNCHANGED <<services, kills, shutting, queueVars>>

ServiceNext ==
    \/ \E s \in Service : start_service(s) \/ stop_service(s)
    \/ \E p \in Pid : kill_process(p) \/ RunService(p) \/ StopByRpc(p) \/ wait_closed(p)
    \/ ExitKills \/ ExitClears

-----------------------------------------------------------------------------
Serial(i) == i \notin Parallel
InQueue(i) == i \in Range(plotQueue)

_is_serial_plotting_running(queue, state) == \E i \in Range(queue) : Serial(i) /\ state[i] = "running"

\* _run_next_serial_plotting: a task for the first plot that waits; more tasks of a plot than
\* two do what two do.
_run_next_serial_plotting(queue, state) ==
    LET waits == {k \in DOMAIN queue : Serial(queue[k]) /\ state[queue[k]] = "submitted"}
    IN  IF _is_serial_plotting_running(queue, state) \/ waits = {} THEN delayed
        ELSE [delayed EXCEPT ![queue[Min(waits)]] = Min({2, @ + 1})]

\* start_plotting: of plots that run one after another the first is started, unless one runs.
start_plotting(r) ==
    /\ \A k \in DOMAIN r : plotState[r[k]] = "none"
    /\ plotQueue' = plotQueue \o r
    /\ plotState' = [i \in Plot |-> IF i \in Range(r) THEN "submitted" ELSE plotState[i]]
    /\ delayed' = [i \in Plot |->
                     IF i \in Range(r) /\ (~Serial(i) \/ (i = r[1] /\ ~_is_serial_plotting_running(plotQueue, plotState)))
                     THEN 1 ELSE delayed[i]]
    /\ UNCHANGED <<serviceVars, plotter, watching, plotStops, plotFaults, crashes>>

\* _start_plotting after the delay: a plot that has been stopped or started is passed over, and
\* the next one is taken, also when the plotter cannot be launched.
PassOver(i) ==
    /\ delayed[i] > 0 /\ plotState[i] # "submitted"
    /\ delayed' = [_run_next_serial_plotting(plotQueue, plotState) EXCEPT ![i] = @ - 1]
    /\ UNCHANGED <<serviceVars, plotQueue, plotState, plotter, watching, plotStops, plotFaults, crashes>>

\* The process writes its output to a file that is read.
launch_plotter(i) == plotter' = [plotter EXCEPT ![i] = "alive"] /\ watching' = watching \cup {i}

StartPlotter(i) ==
    /\ delayed[i] > 0 /\ plotState[i] = "submitted" /\ delayed' = [delayed EXCEPT ![i] = @ - 1]
    /\ launch_plotter(i) /\ plotState' = [plotState EXCEPT ![i] = "running"]
    /\ UNCHANGED <<serviceVars, plotQueue, plotStops, plotFaults, crashes>>

LaunchFails(i) ==
    /\ delayed[i] > 0 /\ plotState[i] = "submitted" /\ plotFaults < MaxPlotFaults /\ plotFaults' = plotFaults + 1
    /\ plotState' = [plotState EXCEPT ![i] = "finished"]
    /\ delayed' = [_run_next_serial_plotting(plotQueue, plotState') EXCEPT ![i] = @ - 1]
    /\ UNCHANGED <<serviceVars, plotQueue, plotter, watching, plotStops, crashes>>

PlotterEnds(i) ==
    /\ plotter[i] = "alive"
    /\ \/ plotter' = [plotter EXCEPT ![i] = "done"] /\ UNCHANGED crashes
       \/ crashes < MaxCrashes /\ crashes' = crashes + 1 /\ plotter' = [plotter EXCEPT ![i] = "crashed"]
    /\ UNCHANGED <<serviceVars, plotQueue, plotState, delayed, watching, plotStops, plotFaults>>

\* _watch_file_changes returns at the last words of the plotter, or when the plot is no longer
\* running.
_watch_file_changes(i) == i \in watching /\ (plotState[i] # "running" \/ plotter[i] = "done")

\* A mutant: the next plot is not taken when one ends.
FinishAlone(i) ==
    /\ _watch_file_changes(i) /\ plotter[i] # "alive"
    /\ watching' = watching \ {i} /\ plotState' = [plotState EXCEPT ![i] = "finished"]
    /\ UNCHANGED <<serviceVars, plotQueue, delayed, plotter, plotStops, plotFaults, crashes>>

\* The process is waited for, and the next plot is taken.
FinishPlotting(i) ==
    /\ _watch_file_changes(i) /\ plotter[i] # "alive"
    /\ watching' = watching \ {i} /\ plotState' = [plotState EXCEPT ![i] = "finished"]
    /\ delayed' = _run_next_serial_plotting(plotQueue, plotState')
    /\ UNCHANGED <<serviceVars, plotQueue, plotter, plotStops, plotFaults, crashes>>

\* stop_plotting: a plotter that runs is signalled first.
stop_plotting(i) ==
    /\ InQueue(i) /\ plotState[i] # "removing"
    /\ IF plotState[i] = "running"
       THEN /\ plotState' = [plotState EXCEPT ![i] = "removing"] /\ plotStops' = plotStops \cup {i}
            /\ UNCHANGED plotQueue
       ELSE /\ plotState' = [plotState EXCEPT ![i] = "finished"] /\ UNCHANGED plotStops
            /\ plotQueue' = SelectSeq(plotQueue, LAMBDA j : j # i)
    /\ UNCHANGED <<serviceVars, delayed, plotter, watching, plotFaults, crashes>>

TerminatePlotter(i) ==
    /\ i \in plotStops /\ plotter[i] = "alive" /\ plotter' = [plotter EXCEPT ![i] = "crashed"]
    /\ UNCHANGED <<serviceVars, plotQueue, plotState, delayed, watching, plotStops, plotFaults, crashes>>

\* The plot may have been removed by another request meanwhile, which raises.
EndStop(i) ==
    /\ i \in plotStops /\ plotter[i] # "alive" /\ plotStops' = plotStops \ {i}
    /\ plotState' = [plotState EXCEPT ![i] = "finished"]
    /\ plotQueue' = SelectSeq(plotQueue, LAMBDA j : j # i)
    /\ delayed' = IF InQueue(i) THEN _run_next_serial_plotting(plotQueue', plotState') ELSE delayed
    /\ UNCHANGED <<serviceVars, plotter, watching, plotFaults, crashes>>

PlotStep(i) == PassOver(i) \/ StartPlotter(i) \/ LaunchFails(i) \/ FinishPlotting(i) \/ TerminatePlotter(i) \/ EndStop(i)

QueueNext ==
    \/ \E r \in PlotRequests : start_plotting(r)
    \/ \E i \in Plot : PlotStep(i) \/ PlotterEnds(i) \/ stop_plotting(i)

Next == ServiceNext \/ QueueNext

Spec == Init /\ [][Next]_daemonVars

-----------------------------------------------------------------------------
\* The daemon loses no process of a service: until it exits, what runs is the process of the
\* map, or one that is being killed, or is ending, or has not seen yet that another one holds
\* the lock file of the service.
Managed ==
    shutting = "no" =>
      \A p \in Pid : Live(p) => services[pstat[p].svc] = p \/ p \in kills

\* Every plot of the queue gets its turn: plots that wait for the one before are started when
\* it has ended, could not be launched or was stopped, in whatever order the requests, the
\* delays and the ends of the plotters come.
QueueEmpty == \A i \in Range(plotQueue) : plotState[i] = "finished"
=============================================================================
