------------------------------ MODULE Watcher ------------------------------
(***************************************************************************)
(* The watchdog process (watcher.cpp, init.cpp) over the worker of         *)
(* ScheduleDenylist.  One thread runs WatcherRunner::start: it inspects    *)
(* the worker, stops it when it is over a limit, and creates a new one     *)
(* when it is gone.  The main thread waits for a shutdown request, then    *)
(* binds the fates, interrupts the runner, stops the worker and joins.     *)
(* new_processes_mutex_ is held by createWorker, the delay of a quick      *)
(* respawn included, and by stop; interrupt notifies a paused thread only  *)
(* after stop has returned.                                                *)
(*                                                                         *)
(* No managed extensions.  SIGKILL ends a process.  At the bound of the    *)
(* clock every wait is over.                                               *)
(***************************************************************************)
EXTENDS ScheduleDenylist

CONSTANTS
  CpuHogs,        \* queries during which the worker is over the CPU limit
  MemoryHogs,     \* queries during which it is over the memory limit
  LatencyLimit,   \* LATENCY_LIMIT, in inspections
  RespawnLimit,   \* RESPAWN_LIMIT, in ticks and in respawns
  RespawnDelay,   \* RESPAWN_DELAY
  MaxDelay,       \* watchdog_max_delay
  WatchdogDelay,  \* watchdog_delay
  AlarmTimeout,   \* alarm_timeout
  MaxFaults       \* bound: failures of the watcher's environment

ASSUME LimitsAssumption ==
  /\ CpuHogs \subseteq Queries /\ MemoryHogs \subseteq Queries
  /\ LatencyLimit \in Nat \ {0}
  /\ RespawnLimit \in Nat /\ RespawnLimit <= FirstTime
  /\ RespawnDelay \in Nat /\ MaxDelay \in Nat
  /\ WatchdogDelay \in Nat /\ AlarmTimeout \in Nat /\ MaxFaults \in Nat

VARIABLES
  pc,           \* where the runner is
  main,         \* where the main thread is
  valid,        \* worker_ is a process
  code,         \* the exit code of the last worker, -1 once reaped
  status,       \* worker_status_
  restarts,     \* worker_restarts_
  lastRespawn,  \* state_.last_respawn_time
  latency,      \* state_.sustained_latency
  startTime,    \* worker_start_time_
  requested,    \* shutdownRequested
  bound,        \* fatesBound
  interrupted,  \* interrupted_ of the runner
  alarmAt,      \* when the alarm ends the process
  faults,
  missing       \* history: osqueryd was not found when a worker was to be created

counters == <<status, restarts, lastRespawn, latency, startTime>>
ending   == <<main, bound, interrupted, alarmAt>>
vars == <<workerVars, pc, valid, code, counters, requested, ending, faults, missing>>

EXIT_SUCCESS == 0
EXIT_FAILURE == 1
EXIT_CATASTROPHIC == 78

Init ==
  /\ WorkerInit
  /\ pc = "watch" /\ main = "wait"
  /\ valid = FALSE /\ code = -1 /\ status = -1
  /\ restarts = 0 /\ lastRespawn = 0 /\ latency = 0 /\ startTime = 0
  /\ requested = FALSE /\ bound = FALSE /\ interrupted = FALSE
  /\ alarmAt = 0 /\ faults = 0 /\ missing = FALSE

Over(t) == now >= t \/ now = MaxTime

-----------------------------------------------------------------------------
(* WatcherRunner::watch *)

\* getChange: inspections in a row over the CPU limit.
SustainedLatency == IF run \in CpuHogs THEN latency + 1 ELSE 0

\* isChildSane: exceededCyclesLimit or exceededMemoryLimit.
Insane == SustainedLatency >= LatencyLimit \/ run \in MemoryHogs

delayedTime == startTime + WatchdogDelay

\* Fates bound: the loop ends.
watchBound ==
  /\ pc = "watch" /\ bound
  /\ pc' = "done"
  /\ UNCHANGED <<workerVars, valid, code, counters, requested, ending, faults, missing>>

watchNone ==
  /\ pc = "watch" /\ ~bound /\ ~valid
  /\ pc' = "respawn"
  /\ UNCHANGED <<workerVars, valid, code, counters, requested, ending, faults, missing>>

\* Alive and sane, or not yet to be stopped.
watchSane ==
  /\ pc = "watch" /\ ~bound /\ Up
  /\ ~Insane \/ now < delayedTime
  /\ latency' = IF SustainedLatency > LatencyLimit THEN LatencyLimit ELSE SustainedLatency
  /\ pc' = "health"
  /\ UNCHANGED <<workerVars, valid, code, status, restarts, lastRespawn, startTime,
                 requested, ending, faults, missing>>

\* Over a limit: warnWorkerResourceLimitHit, then stopChild.
watchInsane ==
  /\ pc = "watch" /\ ~bound /\ Up
  /\ Insane /\ now >= delayedTime
  /\ latency' = IF SustainedLatency > LatencyLimit THEN LatencyLimit ELSE SustainedLatency
  /\ signalLimit
  /\ pc' = "stopChild"
  /\ UNCHANGED <<valid, code, status, restarts, lastRespawn, startTime, requested,
                 ending, faults, missing>>

\* Mutant: the exit is noted, the worker not replaced.
watchExitedLater ==
  /\ pc = "watch" /\ ~bound /\ valid /\ ~Up
  /\ status' = IF code = -1 THEN EXIT_SUCCESS ELSE code
  /\ code' = -1
  /\ pc' = "health"
  /\ UNCHANGED <<workerVars, valid, restarts, lastRespawn, latency, startTime,
                 requested, ending, faults, missing>>

\* Exited: its code, or 0 for a process that stopChild has already reaped.
watchExited ==
  /\ pc = "watch" /\ ~bound /\ valid /\ ~Up
  /\ status' = IF code = -1 THEN EXIT_SUCCESS ELSE code
  /\ code' = -1
  /\ pc' = "respawn"
  /\ UNCHANGED <<workerVars, valid, restarts, lastRespawn, latency, startTime,
                 requested, ending, faults, missing>>

\* stopChild after a limit: the worker exits within the timeout, or is killed.
stopChild ==
  /\ pc = "stopChild"
  /\ \/ ~Up /\ UNCHANGED workerVars
     \/ kill
  /\ code' = -1
  /\ pc' = "respawn"
  /\ UNCHANGED <<valid, counters, requested, ending, faults, missing>>

-----------------------------------------------------------------------------
(* WatcherRunner::start and createWorker *)

GiveUp == bound \/ status = EXIT_CATASTROPHIC \/ restarts = RespawnLimit

\* The fates were bound, the worker's exit was catastrophic, or too many restarts.
respawn ==
  /\ pc = "respawn"
  /\ requested' = (requested \/ (GiveUp /\ ~bound))
  /\ pc' = IF GiveUp THEN "done" ELSE "create"
  /\ UNCHANGED <<workerVars, valid, code, counters, ending, faults, missing>>

\* new_processes_mutex_ is free when neither createWorker nor stop has it.
Unlocked == pc \notin {"delay", "waiting", "launch"} /\ main # "stopChild"

TooQuick == lastRespawn > now - RespawnLimit

\* Mutant: the interruption is not checked under the mutex.
createWorkerAlways ==
  /\ pc = "create" /\ Unlocked
  /\ startTime' = now
  /\ restarts' = IF TooQuick THEN restarts + 1 ELSE restarts
  /\ pc' = IF TooQuick THEN "delay" ELSE "launch"
  /\ UNCHANGED <<workerVars, valid, code, status, lastRespawn, latency, requested,
                 ending, faults, missing>>

\* createWorker takes the mutex: interrupted, or a delay for a quick respawn.
createWorker ==
  /\ pc = "create" /\ Unlocked
  /\ startTime' = IF interrupted THEN startTime ELSE now
  /\ restarts' = IF ~interrupted /\ TooQuick THEN restarts + 1 ELSE restarts
  /\ pc' = IF interrupted THEN "done" ELSE IF TooQuick THEN "delay" ELSE "launch"
  /\ UNCHANGED <<workerVars, valid, code, status, lastRespawn, latency, requested,
                 ending, faults, missing>>

Backoff == LET d == RespawnDelay + 2^restarts
           IN  IF d < MaxDelay THEN d ELSE MaxDelay

\* InterruptibleRunnable::pause returns at once when interrupted; a runner that
\* waits is notified only after stop, which needs the mutex.
delay ==
  /\ pc = "delay"
  /\ pc' = IF interrupted THEN "launch" ELSE "waiting"
  /\ UNCHANGED <<workerVars, valid, code, counters, requested, ending, faults, missing>>

\* Mutant: a pause that only a notification ends.
delayNotified ==
  /\ pc = "waiting"
  /\ main = "join"
  /\ pc' = "launch"
  /\ UNCHANGED <<workerVars, valid, code, counters, requested, ending, faults, missing>>

delayEnds ==
  /\ pc = "waiting"
  /\ Over(startTime + Backoff)
  /\ pc' = "launch"
  /\ UNCHANGED <<workerVars, valid, code, counters, requested, ending, faults, missing>>

\* A new process: the counters are reset; the loop ends if a stop came meanwhile.
launchWorker ==
  /\ pc = "launch"
  /\ launch
  /\ valid' = TRUE /\ code' = -1 /\ status' = -1
  /\ lastRespawn' = now /\ latency' = 0
  /\ pc' = IF interrupted \/ requested THEN "done" ELSE "health"
  /\ UNCHANGED <<restarts, startTime, requested, ending, faults, missing>>

\* No path, unsafe permissions or no fork.
launchFails ==
  /\ pc = "launch" /\ faults < MaxFaults
  /\ faults' = faults + 1
  /\ requested' = TRUE
  /\ pc' = "done"
  /\ UNCHANGED <<workerVars, valid, code, counters, ending, missing>>

\* osqueryd does not exist: createWorker only warns.
launchMissing ==
  /\ pc = "launch" /\ faults < MaxFaults
  /\ faults' = faults + 1
  /\ missing' = TRUE
  /\ pc' = IF interrupted \/ requested THEN "done" ELSE "health"
  /\ UNCHANGED <<workerVars, valid, code, counters, requested, ending>>

\* isWatcherHealthy.
healthy ==
  /\ pc = "health"
  /\ pc' = "pause"
  /\ UNCHANGED <<workerVars, valid, code, counters, requested, ending, faults, missing>>

unhealthy ==
  /\ pc = "health" /\ faults < MaxFaults
  /\ faults' = faults + 1
  /\ requested' = TRUE
  /\ pc' = "done"
  /\ UNCHANGED <<workerVars, valid, code, counters, ending, missing>>

ok == status \notin {EXIT_SUCCESS, EXIT_CATASTROPHIC} /\ valid

pause ==
  /\ pc = "pause"
  /\ pc' = IF interrupted \/ ~ok THEN "done" ELSE "watch"
  /\ UNCHANGED <<workerVars, valid, code, counters, requested, ending, faults, missing>>

Runner ==
  \/ watchBound \/ watchNone \/ watchSane \/ watchInsane \/ watchExited
  \/ stopChild
  \/ respawn \/ createWorker \/ delay \/ delayEnds
  \/ launchWorker \/ launchFails \/ launchMissing
  \/ healthy \/ unhealthy \/ pause

-----------------------------------------------------------------------------
(* The main thread: initWatcher after waitForShutdown, then shutdown *)

\* A signal to the watcher.
requestShutdown ==
  /\ main = "wait" /\ ~requested
  /\ requested' = TRUE
  /\ UNCHANGED <<workerVars, pc, valid, code, counters, ending, faults, missing>>

bindFates ==
  /\ main = "wait" /\ requested
  /\ bound' = TRUE
  /\ main' = "shutdown"
  /\ UNCHANGED <<workerVars, pc, valid, code, counters, requested, interrupted, alarmAt,
                 faults, missing>>

\* shutdown starts the alarm; stopServices interrupts the runner, unless it has
\* ended and removed itself from the services.
interrupt ==
  /\ main = "shutdown"
  /\ alarmAt' = now + AlarmTimeout
  /\ \/ interrupted' = TRUE /\ main' = "stop"
     \/ pc = "done" /\ main' = "join" /\ UNCHANGED interrupted
  /\ UNCHANGED <<workerVars, pc, valid, code, counters, requested, bound, faults, missing>>

\* WatcherRunner::stop, under the mutex.
stop ==
  /\ main = "stop" /\ Unlocked
  /\ main' = IF valid THEN "stopChild" ELSE "join"
  /\ IF valid /\ Up THEN signalTerm ELSE UNCHANGED workerVars
  /\ UNCHANGED <<pc, valid, code, counters, requested, bound, interrupted, alarmAt,
                 faults, missing>>

stopped ==
  /\ main = "stopChild"
  /\ \/ ~Up /\ UNCHANGED workerVars
     \/ kill
  /\ code' = -1
  /\ main' = "join"
  /\ UNCHANGED <<pc, valid, counters, requested, bound, interrupted, alarmAt, faults,
                 missing>>

join ==
  /\ main = "join" /\ pc = "done"
  /\ main' = "exited"
  /\ UNCHANGED <<workerVars, pc, valid, code, counters, requested, bound, interrupted,
                 alarmAt, faults, missing>>

\* AlarmRunnable: the process ends where it is.
alarm ==
  /\ main \in {"stop", "stopChild", "join"} /\ now > alarmAt
  /\ main' = "killed" /\ pc' = "done"
  /\ UNCHANGED <<workerVars, valid, code, counters, requested, bound, interrupted,
                 alarmAt, faults, missing>>

Main == bindFates \/ interrupt \/ stop \/ stopped \/ join

-----------------------------------------------------------------------------
(* The worker process *)

Frame == UNCHANGED <<pc, valid, counters, requested, ending, faults, missing>>

\* It crashes, which waitpid reports as 0, or exits with an error.
workerDies == /\ die
              /\ code' \in {EXIT_SUCCESS, EXIT_FAILURE, EXIT_CATASTROPHIC}
              /\ Frame

workerRuns == /\ Schedule
              /\ code' = IF worker' = "down" THEN EXIT_SUCCESS ELSE code
              /\ Frame

\* WatcherWatcherRunner: a worker without its watcher shuts down.
workerFollows == main \in {"exited", "killed"} /\ kill /\ UNCHANGED code /\ Frame

TickAll == Tick /\ UNCHANGED code /\ Frame

\* The watchdog has ended and no worker is left.
Ended == main \in {"exited", "killed"} /\ ~Up /\ UNCHANGED vars

Next == \/ Runner \/ Main \/ requestShutdown \/ alarm
        \/ workerDies \/ workerRuns \/ workerFollows
        \/ TickAll \/ Ended

Spec == Init /\ [][Next]_vars

\* The threads of the watcher run, time passes, and an orphan notices.
FairSpec == /\ Spec /\ WF_vars(Runner) /\ WF_vars(Main) /\ WF_vars(alarm)
            /\ WF_vars(workerFollows) /\ WF_vars(TickAll)

-----------------------------------------------------------------------------
(* Properties *)

\* Every variable stays in its set; quick respawns are never counted past the limit
\* of WatcherRunner::start.
TypeOK ==
  /\ WorkerTypeOK
  /\ pc \in {"watch", "stopChild", "respawn", "create", "delay", "waiting", "launch",
             "health", "pause", "done"}
  /\ main \in {"wait", "shutdown", "stop", "stopChild", "join", "exited", "killed"}
  /\ valid \in BOOLEAN
  /\ {code, status} \subseteq {-1, EXIT_SUCCESS, EXIT_FAILURE, EXIT_CATASTROPHIC}
  /\ restarts \in 0..RespawnLimit
  /\ lastRespawn \in Nat /\ startTime \in Nat /\ latency \in 0..LatencyLimit
  /\ requested \in BOOLEAN /\ bound \in BOOLEAN /\ interrupted \in BOOLEAN
  /\ alarmAt \in Nat /\ faults \in 0..MaxFaults /\ missing \in BOOLEAN

\* Once WatcherRunner::stop has stopped the worker, none is created: the check of
\* interrupted() under new_processes_mutex_ in createWorker, whichever thread
\* gets the mutex first.
StoppedForGood == interrupted /\ main \in {"join", "exited"} => ~Up

\* A worker that is gone is replaced, unless a shutdown was requested or osqueryd
\* was not there to be started (start, createWorker, ok).
WorkerComesBack == ~Up ~> (Up \/ requested \/ missing)

\* A requested shutdown of the watchdog ends, and takes the worker with it: stop
\* waits for createWorker's mutex, the join for the runner, an orphan for its
\* WatcherWatcherRunner.
ShutdownEnds == requested ~> (main \in {"exited", "killed"} /\ ~Up)
=============================================================================
