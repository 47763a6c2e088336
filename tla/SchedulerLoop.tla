---------------------------- MODULE SchedulerLoop ----------------------------
(***************************************************************************)
(* The scheduler's thread (SchedulerRunner::start in scheduler.cpp) with   *)
(* what it drives: the relay of status logs, the reset of the database,    *)
(* and the carver.  A step runs the queries, then resets the database,     *)
(* relays the logs and starts the carver, each when the step's number is a *)
(* multiple of its period.  The queries are in DifferentialQuery; here     *)
(* they log a line or not.                                                 *)
(***************************************************************************)
EXTENDS Carver, LogRelay

CONSTANTS
  ReloadEvery,  \* schedule_reload, in steps
  FlushEvery,   \* 3
  CarveEvery,   \* 60
  Cycle,        \* a common multiple: steps are numbered modulo Cycle
  MaxCrash      \* bound: crashes

ASSUME PeriodsAssumption ==
  /\ {ReloadEvery, FlushEvery, CarveEvery, Cycle} \subseteq Nat \ {0}
  /\ \A n \in {ReloadEvery, FlushEvery, CarveEvery} : Cycle % n = 0
ASSUME CrashAssumption == MaxCrash \in Nat

VARIABLES
  pc,        \* where the scheduler's thread is
  step,
  stopping,  \* the dispatcher stops its services
  crashes

loopVars == <<pc, step, stopping, crashes>>
vars == <<loopVars, resetting, carverVars, relayVars>>

Init ==
  /\ pc = "queries" /\ step = 0 /\ stopping = FALSE /\ crashes = 0
  /\ resetting = FALSE
  /\ CarverInit /\ RelayInit

At(place) == pc = place

GoTo(place) == pc' = place /\ UNCHANGED <<step, stopping, crashes>>

Due(period) == step % period = 0

-----------------------------------------------------------------------------
(* The scheduler's thread *)

\* A log call of this thread, which goes on when WaitTillSent returns; or none.
logCall(wait, next) ==
  \/ send /\ GoTo(wait) /\ UNCHANGED <<relay, future, relayed, lost>>
  \/ GoTo(next) /\ UNCHANGED relayVars

waits(next) ==
  /\ waitLogRelay
  /\ GoTo(next)
  /\ UNCHANGED <<lines, logs, relay, relayed, lost>>

\* The scheduled queries and the decorators
queries ==
  /\ At("queries") /\ logCall("queried", "reload")
  /\ UNCHANGED <<resetting, carverVars>>

queried ==
  /\ At("queried") /\ waits("reload")
  /\ UNCHANGED <<resetting, carverVars>>

\* Mutant: the relay that is under way is not waited for.
beforeResetNoWait == GoTo("reset") /\ UNCHANGED relayVars

beforeReset == waits("reset")

maybeReloadSchedule ==
  /\ At("reload")
  /\ IF Due(ReloadEvery) THEN beforeReset
                          ELSE GoTo("flush") /\ UNCHANGED relayVars
  /\ UNCHANGED <<resetting, carverVars>>

\* resetDatabase: the lock is taken, and the plugin's name is logged under it.
resetLocks ==
  /\ At("reset") /\ lockReset
  /\ logCall("resetLogged", "resets")
  /\ UNCHANGED carverVars

resetLogged ==
  /\ At("resetLogged") /\ waits("resets")
  /\ UNCHANGED <<resetting, carverVars>>

resets ==
  /\ At("resets") /\ unlockReset
  /\ GoTo("flush")
  /\ UNCHANGED <<carverVars, relayVars>>

maybeFlushLogs ==
  /\ At("flush")
  /\ GoTo(IF Due(FlushEvery) /\ ~nothingToRelay THEN "relay" ELSE "carves")
  /\ UNCHANGED <<resetting, carverVars, relayVars>>

relays ==
  /\ At("relay") /\ relayStatusLogs
  /\ GoTo("carves")
  /\ UNCHANGED <<resetting, carverVars>>

maybeScheduleCarves ==
  /\ At("carves")
  /\ IF Due(CarveEvery) THEN scheduleCarves(stopping) ELSE UNCHANGED carverVars
  /\ GoTo("pause")
  /\ UNCHANGED <<resetting, relayVars>>

\* The step ends; a loop that was interrupted ends as well.
pause ==
  /\ At("pause")
  /\ IF stopping THEN pc' = "last" /\ UNCHANGED step
                 ELSE pc' = "queries" /\ step' = (step + 1) % Cycle
  /\ UNCHANGED <<stopping, crashes, resetting, carverVars, relayVars>>

\* The end of the loop waits "to prevent race conditions on shutdown".  The loop has
\* no end of its own: schedule_timeout is 0, its default.
last ==
  /\ At("last") /\ waits("ended")
  /\ UNCHANGED <<resetting, carverVars>>

Scheduler ==
  \/ queries \/ queried
  \/ maybeReloadSchedule \/ resetLocks \/ resetLogged \/ resets
  \/ maybeFlushLogs \/ relays
  \/ maybeScheduleCarves
  \/ pause \/ last

-----------------------------------------------------------------------------
(* Other threads and the environment *)

stopServices ==
  /\ ~stopping /\ stopping' = TRUE
  /\ UNCHANGED <<pc, step, crashes, resetting, carverVars, relayVars>>

\* The worker dies at any step, or has ended, and is started again.
Restart ==
  /\ crashes < MaxCrash /\ crashes' = crashes + 1
  /\ pc' = "queries" /\ step' = 0 /\ stopping' = FALSE
  /\ resetting' = FALSE
  /\ CarverRestart /\ RelayRestart

OtherLog      == logElsewhere /\ UNCHANGED <<loopVars, resetting, carverVars>>
RelayStep(t)  == RelayThread(t) /\ UNCHANGED <<loopVars, resetting, carverVars>>
RunnerStep    == RunnerNext /\ UNCHANGED <<loopVars, resetting, relayVars>>
AskStep       == (\E c \in Carves : askCarve(c)) /\ UNCHANGED <<loopVars, resetting, relayVars>>
StoreStep     == storeCarve /\ UNCHANGED <<loopVars, resetting, relayVars>>

Next ==
  \/ Scheduler
  \/ OtherLog
  \/ \E t \in Relays : RelayStep(t)
  \/ RunnerStep \/ AskStep \/ StoreStep
  \/ stopServices \/ Restart

\* Every thread runs on: the scheduler, the relay threads, the runner and the
\* thread that asks for carves.  The last three need the database, whose lock the
\* scheduler takes and releases again and again; a reader that waits gets it, since
\* the scheduler pauses between two resets.
Fairness ==
  /\ WF_vars(Scheduler)
  /\ \A t \in Relays : SF_vars(RelayStep(t))
  /\ SF_vars(RunnerStep)
  /\ SF_vars(StoreStep)

Spec == Init /\ [][Next]_vars /\ Fairness

-----------------------------------------------------------------------------
(* Properties *)

Places == {"queries", "queried", "reload", "reset", "resetLogged", "resets", "flush",
           "relay", "carves", "pause", "last", "ended"}

\* Every variable stays in its set, and the database is locked exactly while the
\* scheduler is inside a reset.
TypeOK ==
  /\ pc \in Places /\ step \in 0..Cycle-1 /\ stopping \in BOOLEAN
  /\ crashes \in 0..MaxCrash
  /\ resetting = (pc \in {"resetLogged", "resets"})
  /\ CarverTypeOK /\ RelayTypeOK

\* The relay keeps the promise of a log buffer: a line is in the buffer or in the
\* hands of a relay thread until the plugins have it, or it is lost to a plugin that
\* failed or to a crash; lines logged while a batch is relayed are not lost with it.
Promise ==
  INSTANCE Delivery
    WITH kept <- ToSet(logs) \cup UNION {ToSet(relay[t].lines) : t \in Relays},
         taken <- ToSet(relayed), dropped <- lost

KeepsPromise == Promise!Spec

\* The scheduler's thread never waits for ever: a relay that waits for the database
\* and a reset that waits for the relay do not meet.  Asked to stop, it ends.
SchedulerGoesOn ==
  /\ ~stopping ~> (At("pause") \/ stopping)
  /\ stopping ~> (At("ended") \/ ~stopping)

\* A line that is buffered is relayed in the end, or lost to a failing plugin or a
\* crash, unless the loop ends.
BufferedIsRelayed ==
  \A l \in 1..MaxLines :
    l \in ToSet(logs) ~> (l \in ToSet(relayed) \cup lost \/ stopping)

\* A carve that is stored while no runner is at work and the pending flag is set is
\* started in the end, after a crash as well, unless the loop ends.  A runner that
\* has scanned the requests before one is stored clears the flag all the same: that
\* carve is excepted, and waits for the next request or restart.
ScheduledIsStarted ==
  \A c \in Carves :
    (status[c] = "SCHEDULED" /\ runner.pc = "idle" /\ pending)
      ~> (status[c] # "SCHEDULED" \/ stopping)
=============================================================================
