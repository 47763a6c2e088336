-------------------------- MODULE ScheduleDenylist --------------------------
(***************************************************************************)
(* The denylist of scheduled queries (config.cpp) in the life of a worker  *)
(* process.  Before a query runs its name is stored under executing_query, *)
(* after it the name is cleared.  The Schedule of the next worker finds    *)
(* the name of a query that did not end, bars it for DenyTime and stores   *)
(* the denylist under failed_queries.  Config::scheduledQueries goes       *)
(* through the packs and skips the barred queries.                         *)
(*                                                                         *)
(* Here the worker may be started, warned, asked to stop and killed at any *)
(* time; Watcher says when the watchdog does so.                           *)
(***************************************************************************)
EXTENDS Integers

CONSTANTS
  Queries,    \* names of the scheduled queries
  NoQuery,    \* the empty name
  PackOf,     \* the position of a query's pack in the schedule
  Exempt,     \* event queries, and queries with the option denylist = false
  DenyTime,   \* 86400 seconds, in ticks
  FirstTime,  \* the clock at the start
  MaxTime,    \* bound: clock
  MaxDeaths   \* bound: ends of a worker that are not the watchdog's doing

ASSUME QueriesAssumption ==
  /\ NoQuery \notin Queries
  /\ PackOf \in [Queries -> Nat]
  /\ Exempt \subseteq Queries
ASSUME TimeAssumption ==
  /\ DenyTime \in Nat \ {0}
  /\ FirstTime \in Nat \ {0}
  /\ MaxTime \in Nat /\ FirstTime <= MaxTime
  /\ MaxDeaths \in Nat

VARIABLES
  executing,  \* database: executing_query
  failed,     \* database: failed_queries, the end of a query's denial, 0: none
  worker,     \* where the worker process is
  denylist,   \* Schedule::denylist_
  suspect,    \* Schedule::failed_query_, until it is barred
  todo,       \* the queries this pass of scheduledQueries has not reached
  run,        \* the query being executed
  limitHit,   \* Initializer::isResourceLimitHit
  leaving,    \* shutdownRequested in the worker
  now,
  deaths,
  barred,     \* history: until when a query that a worker died on must not run
  unfinished  \* history: queries that were cut off, or over the limit when they ended

stored   == <<executing, failed>>
schedule == <<denylist, suspect, todo>>
flags    == <<limitHit, leaving>>
clock    == <<now, deaths>>
history  == <<barred, unfinished>>
workerVars == <<stored, worker, schedule, run, flags, clock, history>>

Nobody == [q \in Queries |-> 0]

\* "down": no process; "boot": before the Schedule is built; "blame": in its
\* constructor; "pass": in the scheduler's loop; "query": in launchQuery.
Up == worker # "down"

WorkerInit ==
  /\ executing = NoQuery
  /\ failed = Nobody
  /\ worker = "down"
  /\ denylist = Nobody /\ suspect = NoQuery /\ todo = {}
  /\ run = NoQuery
  /\ limitHit = FALSE /\ leaving = FALSE
  /\ now = FirstTime /\ deaths = 0
  /\ barred = Nobody /\ unfinished = {}

-----------------------------------------------------------------------------
(* The Schedule's constructor *)

\* restoreScheduleDenylist keeps what has not expired; the executing query is
\* read and cleared.
Restored == [q \in Queries |-> IF now < failed[q] THEN failed[q] ELSE 0]

restore ==
  /\ worker = "boot"
  /\ denylist' = Restored
  /\ suspect' = executing
  /\ executing' = NoQuery
  /\ worker' = IF executing = NoQuery THEN "pass" ELSE "blame"
  /\ UNCHANGED <<failed, todo, run, flags, clock, history>>

\* Mutant: the denylist is not saved.
blameUnsaved ==
  /\ worker = "blame"
  /\ denylist' = [denylist EXCEPT ![suspect] = now + DenyTime]
  /\ worker' = "pass"
  /\ suspect' = NoQuery /\ unfinished' = {}
  /\ UNCHANGED <<stored, todo, run, flags, clock, barred>>

\* The suspect is barred and the denylist saved.
blame ==
  /\ worker = "blame"
  /\ denylist' = [denylist EXCEPT ![suspect] = now + DenyTime]
  /\ failed' = denylist'
  /\ worker' = "pass"
  /\ suspect' = NoQuery /\ unfinished' = {}
  /\ UNCHANGED <<executing, todo, run, flags, clock, barred>>

-----------------------------------------------------------------------------
(* Config::scheduledQueries and launchQuery *)

denylistExpired(q) == now > denylist[q] \/ q \in Exempt

\* The queries of a pack come in any order, packs in theirs.
Reached(q) == /\ worker = "pass" /\ q \in todo
              /\ \A p \in todo : PackOf[q] <= PackOf[p]

\* After the predicate: a shutdown request ends the loop over this pack only.
Left(q) == IF leaving THEN {p \in todo : PackOf[p] # PackOf[q]} ELSE todo \ {q}

startPass ==
  /\ worker = "pass" /\ todo = {}
  /\ todo' = Queries
  /\ UNCHANGED <<stored, worker, denylist, suspect, run, flags, clock, history>>

\* A barred query: the loop continues without a look at the shutdown request.
skipDenied(q) ==
  /\ Reached(q)
  /\ denylist[q] # 0 /\ ~denylistExpired(q)
  /\ todo' = todo \ {q}
  /\ UNCHANGED <<stored, worker, denylist, suspect, run, flags, clock, history>>

\* Not barred, or no longer: an expired entry is erased and the list saved.
Cleared(q) ==
  /\ Reached(q)
  /\ denylist[q] = 0 \/ denylistExpired(q)
  /\ denylist' = [denylist EXCEPT ![q] = 0]
  /\ failed' = IF denylist[q] = 0 THEN failed ELSE denylist'

notDue(q) ==
  /\ Cleared(q)
  /\ todo' = Left(q)
  /\ UNCHANGED <<executing, worker, suspect, run, flags, clock, history>>

\* monitor: recordQueryStart, then the SQL.
recordQueryStart(q) ==
  /\ Cleared(q)
  /\ executing' = q
  /\ worker' = "query"
  /\ run' = q
  /\ UNCHANGED <<suspect, todo, flags, clock, history>>

\* Mutant: the name is never cleared.
recordQueryPerformanceOnly ==
  /\ worker = "query"
  /\ unfinished' = IF limitHit THEN unfinished \cup {run} ELSE unfinished
  /\ todo' = Left(run)
  /\ worker' = "pass"
  /\ run' = NoQuery
  /\ UNCHANGED <<stored, denylist, suspect, flags, clock, barred>>

\* The SQL has ended: recordQueryPerformance keeps the name when the limit was hit.
recordQueryPerformance ==
  /\ worker = "query"
  /\ executing' = IF limitHit THEN executing ELSE NoQuery
  /\ unfinished' = IF limitHit THEN unfinished \cup {run} ELSE unfinished
  /\ todo' = Left(run)
  /\ worker' = "pass"
  /\ run' = NoQuery
  /\ UNCHANGED <<failed, denylist, suspect, flags, clock, barred>>

-----------------------------------------------------------------------------
(* The process *)

launch ==
  /\ worker = "down"
  /\ worker' = "boot"
  /\ UNCHANGED <<stored, schedule, run, flags, clock, history>>

\* signalHandler: SIGUSR1, and SIGTERM.
signalLimit ==
  /\ limitHit' = TRUE /\ leaving' = TRUE
  /\ UNCHANGED <<stored, worker, schedule, run, clock, history>>

signalTerm ==
  /\ leaving' = TRUE
  /\ UNCHANGED <<stored, worker, schedule, run, limitHit, clock, history>>

\* What is left of a process that ends: the database.  A death in the Schedule's
\* constructor loses the blame.
Gone ==
  /\ worker' = "down"
  /\ denylist' = Nobody /\ suspect' = NoQuery /\ todo' = {} /\ run' = NoQuery
  /\ limitHit' = FALSE /\ leaving' = FALSE
  /\ unfinished' = IF worker = "blame" THEN {}
                   ELSE unfinished \cup ({run} \ {NoQuery})
  /\ barred' = [q \in Queries |->
                  IF worker = "blame" /\ q = suspect THEN 0
                  ELSE IF q = executing THEN now + DenyTime ELSE barred[q]]
  /\ UNCHANGED <<stored, now>>

\* A crash, an exit on an error, or a kill.
die == Up /\ deaths < MaxDeaths /\ Gone /\ deaths' = deaths + 1
kill == Up /\ Gone /\ UNCHANGED deaths

\* The scheduler sees its interruption at the end of a pass.
leave == worker = "pass" /\ todo = {} /\ leaving /\ Gone /\ UNCHANGED deaths

Tick == now < MaxTime /\ now' = now + 1
        /\ UNCHANGED <<stored, worker, schedule, run, flags, deaths, history>>

Schedule ==
  \/ restore \/ blame
  \/ startPass
  \/ \E q \in Queries : skipDenied(q) \/ notDue(q) \/ recordQueryStart(q)
  \/ recordQueryPerformance
  \/ leave

WorkerNext == \/ Schedule \/ launch \/ die \/ kill \/ Tick
              \/ Up /\ (signalLimit \/ signalTerm)

\* The worker under any watchdog.
WorkerSpec == WorkerInit /\ [][WorkerNext]_workerVars

-----------------------------------------------------------------------------
(* Properties *)

\* The worker's variables stay in their sets.
WorkerTypeOK ==
  /\ executing \in Queries \cup {NoQuery}
  /\ failed \in [Queries -> Nat]
  /\ worker \in {"down", "boot", "blame", "pass", "query"}
  /\ denylist \in [Queries -> Nat]
  /\ suspect \in Queries \cup {NoQuery}
  /\ todo \subseteq Queries
  /\ run \in Queries \cup {NoQuery}
  /\ limitHit \in BOOLEAN /\ leaving \in BOOLEAN
  /\ now \in Nat /\ deaths \in 0..MaxDeaths
  /\ barred \in [Queries -> Nat]
  /\ unfinished \subseteq Queries

\* A query that was executing when its worker ended is not executed for DenyTime
\* after that, however many workers are started and killed in between and
\* whatever is erased and saved for other queries (Schedule::Schedule,
\* restoreScheduleDenylist, denylistExpired).  A death in the constructor between
\* the clearing of executing_query and the save is the exception.
KilledStaysOut ==
  [][\A q \in Queries \ Exempt : run # q /\ run' = q => now >= barred[q]]_workerVars

\* Only a query that did not end, or that was over the limit when it ended, is
\* ever barred (recordQueryStart, recordQueryPerformance, Schedule::Schedule).
OnlyUnfinishedBlamed == worker = "blame" => suspect \in unfinished
=============================================================================
