------------------------- MODULE DifferentialQuery -------------------------
(***************************************************************************)
(* The differential of scheduled queries: launchQuery (scheduler.cpp) runs *)
(* a query, Query::addNewResults / addNewEvents (query.cpp) compare the    *)
(* rows with the ones saved under the query's name, save the new ones, the *)
(* epoch and a counter in the "queries" domain of the database, and the    *)
(* difference is logged.  Config::purge (config.cpp) expires saved state   *)
(* when the configuration is updated.                                      *)
(*                                                                         *)
(* Every database write is a step of its own, so the process may crash, or *)
(* a write may fail, between any two of them.  The scheduler thread holds  *)
(* config_schedule_mutex_ during launchQuery (Config::scheduledQueries):   *)
(* the steps of Config::update that take it fall between two launches, the *)
(* scan of the saved keys does not take it and falls anywhere.             *)
(***************************************************************************)
EXTENDS Integers

CONSTANTS
  Queries,            \* names of the scheduled queries
  EventQueries,       \* the ones whose table is event based (sql.eventBased())
  ReportRemoved,      \* the ones with reportRemovedRows()
  PackQueries,        \* the ones that do not live in the pack "main"
  Rows,               \* distinct result rows
  NumericMonitoring,  \* FLAGS_enable_numeric_monitoring
  Week,               \* 592200 seconds of Config::purge, in ticks
  MaxCopies,          \* bound: copies of one row in a result
  MaxTime,            \* bound: ticks
  MaxCounter,         \* bound: counted launches of one query
  MaxEpoch,           \* bound: values of FLAGS_schedule_epoch
  MaxCrash,           \* bound: crashes
  MaxFailure          \* bound: failing database writes and log calls

ASSUME QueriesAssumption ==
  /\ Queries # {}
  /\ EventQueries \subseteq Queries
  /\ ReportRemoved \subseteq Queries
  /\ PackQueries \subseteq Queries
  /\ NumericMonitoring \in BOOLEAN

ASSUME BoundsAssumption ==
  /\ Week \in Nat
  /\ MaxCopies \in Nat
  /\ MaxTime \in Nat
  /\ MaxCounter \in Nat
  /\ MaxEpoch \in Nat
  /\ MaxCrash \in Nat
  /\ MaxFailure \in Nat

\* The keys Query keeps for one name: name, name+"epoch", name+"counter" and
\* "query."+name.
Kinds == {"results", "epoch", "counter", "sql"}

\* QueryDataSet is a multiset of rows: a count for every row.
Results == [Rows -> Nat]
NoRows  == [r \in Rows |-> 0]

NothingScanned == [q \in Queries |-> {}]

VARIABLES
  keys,      \* keys[q]: the kinds present in the database for q
  saved,     \* saved[q]: the values stored under them
  stamp,     \* stamp[q][k]: "timestamp."+key, 0 when absent
  update,    \* where Config::update is
  scanned,   \* purge's saved_queries, as the kinds seen for each query
  schedule,  \* the queries of the loaded configuration
  epoch,     \* FLAGS_schedule_epoch
  now,       \* getUnixTime()
  pc,        \* where launchQuery is
  run,       \* launchQuery's locals
  shutdown,  \* requestShutdown was called
  crashes, failures,
  consumer,  \* history: what a reader of the log has reconstructed
  integrity  \* history: was everything saved for q also logged?

vars == <<keys, saved, stamp, update, scanned, schedule, epoch, now, pc, run,
          shutdown, crashes, failures, consumer, integrity>>
database == <<keys, saved, stamp>>
updater  == <<update, scanned>>
budget   == <<crashes, failures>>
observer == <<consumer, integrity>>

NoRun == [q |-> CHOOSE q \in Queries : TRUE, rows |-> NoRows, added |-> NoRows,
          removed |-> NoRows, reset |-> FALSE, counter |-> 1]

Init ==
  /\ keys = [q \in Queries |-> {}]
  /\ saved = [q \in Queries |->
                [results |-> NoRows, epoch |-> 0, counter |-> 0]]
  /\ stamp = [q \in Queries |-> [k \in Kinds |-> 0]]
  /\ update = "none"
  /\ scanned = NothingScanned
  /\ schedule = {}
  /\ epoch = 0
  /\ now = 1
  /\ pc = "idle"
  /\ run = NoRun
  /\ shutdown = FALSE
  /\ crashes = 0
  /\ failures = 0
  /\ consumer = [q \in Queries |-> [view |-> NoRows, epoch |-> 0,
                                    counter |-> 0, gapless |-> FALSE]]
  /\ integrity = [q \in Queries |-> "whole"]

-----------------------------------------------------------------------------
(* Query *)

getPreviousEpoch(q) == IF "epoch" \in keys[q] THEN saved[q].epoch ELSE 0

isQueryNameInDatabase(q) == "results" \in keys[q]

newQueryEpoch(q) == ~isQueryNameInDatabase(q) \/ getPreviousEpoch(q) # epoch

\* getQueryStatus saves the SQL for a new name and for changed (or lost) SQL,
\* and forgets to when only the epoch is new.
sqlKeyAfterStatus(q) ==
  IF isQueryNameInDatabase(q) /\ getPreviousEpoch(q) # epoch
    THEN keys[q] ELSE keys[q] \cup {"sql"}

\* Mutants of getQueryCounter: the increment forgotten, the reset forgotten, and
\* a reset that starts at 1 whatever it returns.
getQueryCounterNoIncrement(q, is_reset, reset_has_all_records) ==
  IF is_reset
    THEN IF reset_has_all_records THEN 0 ELSE 1
    ELSE IF "counter" \in keys[q] THEN saved[q].counter ELSE 0

getQueryCounterNoReset(q, is_reset, reset_has_all_records) ==
  IF "counter" \in keys[q] THEN saved[q].counter + 1 ELSE 0

getQueryCounterResetToOne(q, is_reset, reset_has_all_records) ==
  IF is_reset \/ "counter" \notin keys[q] THEN 1 ELSE saved[q].counter + 1

getQueryCounter(q, is_reset, reset_has_all_records) ==
  IF is_reset
    THEN IF reset_has_all_records THEN 0 ELSE 1
    ELSE IF "counter" \in keys[q] THEN saved[q].counter + 1 ELSE 0

\* The multiset difference a - b, and diff() in both directions.
\*
Minus(a, b) == [r \in Rows |-> IF a[r] > b[r] THEN a[r] - b[r] ELSE 0]
Plus(a, b)  == [r \in Rows |-> a[r] + b[r]]
diffAdded(old, current)   == Minus(current, old)
diffRemoved(old, current) == Minus(old, current)

\* What the launch of q with these rows will add and remove, and whether it
\* is a reset.
NewRun(q, rows) ==
  LET reset == newQueryEpoch(q)
      whole == reset \/ q \in EventQueries IN
  [q |-> q, rows |-> rows, reset |-> reset, counter |-> 1,
   added   |-> IF whole THEN rows ELSE diffAdded(saved[q].results, rows),
   removed |-> IF whole THEN NoRows ELSE diffRemoved(saved[q].results, rows)]

hasNoResults(r) == r.added = NoRows /\ r.removed = NoRows

-----------------------------------------------------------------------------
(* launchQuery *)

\* recordQueryStart refreshes "timestamp."+name; monitor() does not call it
\* when numeric monitoring is enabled.
recordQueryStart(q) ==
  stamp' = IF NumericMonitoring THEN stamp
                                ELSE [stamp EXCEPT ![q]["results"] = now]

\* The query runs, its status is read and the differential computed.  With
\* nothing to save and nothing to count the launch ends here.
Launch(q, rows) ==
  /\ pc = "idle" /\ ~shutdown /\ q \in schedule
  /\ saved[q].counter < MaxCounter
  /\ recordQueryStart(q)
  /\ keys' = [keys EXCEPT ![q] = sqlKeyAfterStatus(q)]
  /\ LET r == NewRun(q, rows) IN
     /\ run' = r
     /\ pc' = IF r.reset THEN "results"
              ELSE IF hasNoResults(r) THEN "idle"
              ELSE IF q \in EventQueries THEN "counter" ELSE "results"
  /\ UNCHANGED <<saved, updater, schedule, epoch, now, shutdown, budget,
                 observer>>

\* The SQL fails: only the start was recorded.
LaunchFails(q) ==
  /\ pc = "idle" /\ ~shutdown /\ q \in schedule
  /\ recordQueryStart(q)
  /\ UNCHANGED <<keys, saved, updater, schedule, epoch, now, pc, run, shutdown,
                 budget, observer>>

\* What a launch that does not finish leaves behind: "lost" when the counter
\* tells (the item was counted but not logged), "silent" when it does not.
Damage(q) ==
  LET baseLost == run.reset /\ consumer[q].epoch = epoch IN
  [integrity EXCEPT ![q] =
     IF pc = "log" /\ @ # "silent" /\ ~baseLost THEN "lost" ELSE "silent"]

\* saveQueryResults, first write.  Event queries store an empty result.
SaveResults ==
  /\ pc = "results"
  /\ keys' = [keys EXCEPT ![run.q] = @ \cup {"results"}]
  /\ saved' = [saved EXCEPT ![run.q].results =
                 IF run.q \in EventQueries THEN NoRows ELSE run.rows]
  /\ pc' = "epoch"
  /\ UNCHANGED <<stamp, updater, schedule, epoch, now, run, shutdown, budget,
                 observer>>

\* saveQueryResults, second write.  Events are only counted when there are any.
SaveEpoch ==
  /\ pc = "epoch"
  /\ keys' = [keys EXCEPT ![run.q] = @ \cup {"epoch"}]
  /\ saved' = [saved EXCEPT ![run.q].epoch = epoch]
  /\ pc' = IF run.q \in EventQueries /\ run.added = NoRows
             THEN "log" ELSE "counter"
  /\ UNCHANGED <<stamp, updater, schedule, epoch, now, run, shutdown, budget,
                 observer>>

nextCounter == getQueryCounter(run.q, run.reset, run.q \notin EventQueries)

incrementCounter ==
  /\ pc = "counter"
  /\ keys' = [keys EXCEPT ![run.q] = @ \cup {"counter"}]
  /\ saved' = [saved EXCEPT ![run.q].counter = nextCounter]
  /\ run' = [run EXCEPT !.counter = nextCounter]
  /\ pc' = "log"
  /\ UNCHANGED <<stamp, updater, schedule, epoch, now, shutdown, budget,
                 observer>>

\* A write fails: shutdown is requested, yet launchQuery goes on to log what it
\* has.  The counter is 1 unless it was the counter's own write that failed.
WriteFails ==
  /\ pc \in {"results", "epoch", "counter"}
  /\ failures < MaxFailure
  /\ failures' = failures + 1
  /\ shutdown' = TRUE
  /\ run' = IF pc = "counter" THEN [run EXCEPT !.counter = nextCounter] ELSE run
  /\ pc' = "log"
  /\ integrity' = Damage(run.q)
  /\ UNCHANGED <<database, updater, schedule, epoch, now, crashes, consumer>>

\* The item launchQuery emits.
ReportedRemoved == IF run.q \in ReportRemoved THEN run.removed ELSE NoRows
NothingToLog ==
  run.added = NoRows /\ ReportedRemoved = NoRows /\ run.counter # 0

\* A reader of the log takes an item with counter 0 as all records and any
\* other one as a difference; a skipped counter tells it that items are missing.
Received(c) ==
  [view |-> IF run.counter = 0 THEN run.added
            ELSE Plus(Minus(c.view, ReportedRemoved), run.added),
   epoch |-> epoch,
   counter |-> run.counter,
   gapless |-> \/ run.counter = 0
               \/ c.gapless /\ c.epoch = epoch /\ run.counter = c.counter + 1]

LogItem ==
  /\ pc = "log"
  /\ pc' = "idle"
  /\ run' = NoRun
  /\ IF NothingToLog THEN UNCHANGED observer
     ELSE /\ consumer' = [consumer EXCEPT ![run.q] = Received(@)]
          /\ integrity' = IF run.reset /\ run.counter = 0 /\ ~shutdown
                            THEN [integrity EXCEPT ![run.q] = "whole"]
                            ELSE integrity
  /\ UNCHANGED <<database, updater, schedule, epoch, now, shutdown, budget>>

\* logQueryLogItem fails: the item is gone and shutdown is requested.
LogFails ==
  /\ pc = "log" /\ ~NothingToLog
  /\ failures < MaxFailure
  /\ failures' = failures + 1
  /\ shutdown' = TRUE
  /\ pc' = "idle"
  /\ run' = NoRun
  /\ integrity' = Damage(run.q)
  /\ UNCHANGED <<database, updater, schedule, epoch, now, crashes, consumer>>

-----------------------------------------------------------------------------
(* Config *)

\* queryExists compares the saved name with the names of the previous schedule,
\* without the pack's prefix: it knows the results of queries of "main" and none
\* of the other keys.
queryExists(q, k) == k = "results" /\ q \in schedule \ PackQueries

Expired(q, k) ==
  /\ k \in scanned[q] /\ ~queryExists(q, k)
  /\ stamp[q][k] # 0
  /\ stamp[q][k] < now - Week

Unstamped(q, k) == k \in scanned[q] /\ ~queryExists(q, k) /\ stamp[q][k] = 0

\* The keys a purge deletes for q: the expired ones, and the epoch with the
\* results.
Purged(q) == {k \in Kinds : Expired(q, k)} \cup
             (IF Expired(q, "results") THEN {"epoch"} ELSE {})

\* What a purge that leaves the results of q takes from its reader: the counter,
\* or, once items were lost, the epoch that tells those results from the ones of
\* epoch 0, to which the flag may go back.
PartlyPurged(q) ==
  /\ "results" \in keys[q] \ Purged(q)
  /\ \/ "counter" \in Purged(q)
     \/ "epoch" \in Purged(q) /\ saved[q].epoch # 0 /\ integrity[q] = "lost"

\* Config::update begins with purge, and purge with a scan of the saved keys,
\* before it takes the lock: a launch may be anywhere.
scanSavedQueries ==
  /\ update # "scanned"
  /\ update' = "scanned"
  /\ scanned' = keys
  /\ UNCHANGED <<database, schedule, epoch, now, pc, run, shutdown, budget,
                 observer>>

\* purge under the lock, against the previous schedule (empty after a start).
purge ==
  /\ pc = "idle" /\ update = "scanned"
  /\ keys' = [q \in Queries |-> keys[q] \ Purged(q)]
  /\ stamp' = [q \in Queries |-> [k \in Kinds |->
                 IF Expired(q, k) THEN 0
                 ELSE IF Unstamped(q, k) THEN now ELSE stamp[q][k]]]
  /\ integrity' = [q \in Queries |->
       IF PartlyPurged(q) THEN "silent" ELSE integrity[q]]
  /\ update' = "purged"
  /\ scanned' = NothingScanned
  /\ UNCHANGED <<saved, schedule, epoch, now, pc, run, shutdown, budget,
                 consumer>>

\* One of updateSource's sections under the lock: packs of a source are removed
\* or added, or its options applied, schedule_epoch among them, which may also
\* go back.  Launches fall between the sections, and an update has as many as it
\* has until the next one begins.
UpdateConfig(new, e) ==
  /\ pc = "idle" /\ update = "purged"
  /\ schedule' = new
  /\ epoch' = e
  /\ UNCHANGED <<database, updater, now, pc, run, shutdown, budget, observer>>

-----------------------------------------------------------------------------
(* The process and its environment *)

\* The process ends after a requested shutdown and is started again.
Restart ==
  /\ pc = "idle" /\ shutdown
  /\ shutdown' = FALSE
  /\ update' = "none" /\ scanned' = NothingScanned
  /\ schedule' = {}
  /\ UNCHANGED <<database, epoch, now, pc, run, budget, observer>>

\* The process dies.  Something was saved and will not be logged when the first
\* write was done, and what is logged is not saved after a failed write.
Crash ==
  /\ crashes < MaxCrash
  /\ crashes' = crashes + 1
  /\ pc' = "idle"
  /\ run' = NoRun
  /\ shutdown' = FALSE
  /\ update' = "none" /\ scanned' = NothingScanned
  /\ schedule' = {}
  /\ integrity' = IF pc \in {"epoch", "counter", "log"}
                    THEN Damage(run.q) ELSE integrity
  /\ UNCHANGED <<database, epoch, now, failures, consumer>>

Tick ==
  /\ now < MaxTime
  /\ now' = now + 1
  /\ UNCHANGED <<database, updater, schedule, epoch, pc, run, shutdown, budget,
                 observer>>

Next ==
  \/ \E q \in Queries, rows \in [Rows -> 0..MaxCopies] : Launch(q, rows)
  \/ \E q \in Queries : LaunchFails(q)
  \/ SaveResults
  \/ SaveEpoch
  \/ incrementCounter
  \/ WriteFails
  \/ LogItem
  \/ LogFails
  \/ scanSavedQueries
  \/ purge
  \/ \E new \in SUBSET Queries, e \in 0..MaxEpoch : UpdateConfig(new, e)
  \/ Restart
  \/ Crash
  \/ Tick

Spec == Init /\ [][Next]_vars

-----------------------------------------------------------------------------
(* Properties *)

\* Every variable stays in the set its code type and its bounds give it.
TypeOK ==
  /\ keys \in [Queries -> SUBSET Kinds]
  /\ saved \in [Queries -> [results : Results, epoch : Nat, counter : Nat]]
  /\ stamp \in [Queries -> [Kinds -> Nat]]
  /\ update \in {"none", "scanned", "purged"}
  /\ scanned \in [Queries -> SUBSET Kinds]
  /\ schedule \subseteq Queries
  /\ epoch \in Nat /\ now \in Nat /\ crashes \in Nat /\ failures \in Nat
  /\ pc \in {"idle", "results", "epoch", "counter", "log"}
  /\ run \in [q : Queries, rows : Results, added : Results, removed : Results,
              reset : BOOLEAN, counter : Nat]
  /\ shutdown \in BOOLEAN
  /\ consumer \in [Queries -> [view : Results, epoch : Nat, counter : Nat,
                               gapless : BOOLEAN]]
  /\ integrity \in [Queries -> {"whole", "lost", "silent"}]

\* The queries whose log can be replayed: diffed, and with removed rows.
Replayable == ReportRemoved \ EventQueries

\* While no item was lost, replaying the logged items of a query (all records
\* at counter 0, differences after it) gives exactly the rows addNewResults has
\* saved for it, multiplicities included, across epochs, purges and restarts.
ReplayMatchesSaved ==
  \A q \in Replayable :
    /\ integrity[q] = "whole" /\ "results" \in keys[q]
    /\ pc = "idle" \/ run.q # q
    => consumer[q].view = saved[q].results

\* A reader that saw every counter of the current epoch since counter 0, up to
\* the saved one, has the saved rows: lost items (a crash or a failing logger
\* after the counter was written) always show as a gap, also when the epoch goes
\* back, unless a purge took the counter, or the epoch that items were lost in,
\* from results it left.
LossShowsAsGap ==
  \A q \in Replayable :
    /\ integrity[q] # "silent"
    /\ {"results", "epoch", "counter"} \subseteq keys[q]
    /\ pc = "idle" \/ run.q # q
    /\ consumer[q].gapless
    /\ consumer[q].epoch = saved[q].epoch
    /\ consumer[q].counter = saved[q].counter
    => consumer[q].view = saved[q].results

\* "This allows consumers to reliably distinguish between differential results and
\* results with all records": for a diffed query whose saved state is not partially
\* written or partially purged, the counter is 0 exactly for the launches that start
\* over.
CounterZeroMarksReset ==
  pc = "log" /\ run.q \notin EventQueries /\ integrity[run.q] # "silent"
    => /\ run.counter = 0 <=> run.reset
       /\ run.reset => run.added = run.rows /\ run.removed = NoRows
=============================================================================
