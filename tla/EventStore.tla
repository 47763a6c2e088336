----------------------------- MODULE EventStore -----------------------------
(***************************************************************************)
(* The event buffer of EventSubscriberPlugin (eventsubscriberplugin.cpp):  *)
(* a publisher's thread adds batches of rows, scheduled queries read what  *)
(* they have not seen yet, and size, age and the queries' progress evict.  *)
(*                                                                         *)
(* Rows live in the database, one key per id; event_index, in memory, maps *)
(* a time to the ids of that time.  An event is the record of its id and   *)
(* time, and a batch of the index is the set of events of one time.  Every *)
(* scheduled query keeps two pointers in the database, "optimize.<name>"   *)
(* and "optimize_eid.<name>", one pair for all the tables it reads.  The    *)
(* name is kExecutingQuery, which recordQueryStart sets.                   *)
(*                                                                         *)
(* One publisher thread adds to a subscriber, and the scheduler's thread   *)
(* runs one query at a time.  The lock event_index_mutex makes each scan   *)
(* and each erasure of the index one step; database calls are steps of     *)
(* their own.  Queries without a time constraint are modelled; distributed *)
(* queries, which run on a thread of their own, are not.                   *)
(***************************************************************************)
EXTENDS Integers, FiniteSets, FiniteSetsExt

CONSTANTS
  Subscribers,
  Queries,     \* names of the scheduled queries
  NoQuery,     \* no scheduled query
  Tables,      \* the event tables each scheduled query selects from
  Delays,      \* how late an event's own time may be (0: getUnixTime)
  Expiry,      \* getMinExpiry()
  MaxBatches,  \* FLAGS_events_max
  Checkpoint,  \* kEventsCheckpoint
  MaxRows,     \* bound: rows of a batch
  MaxEvents,   \* bound: event ids
  MaxTime,     \* bound: clock
  MaxCrash     \* bound: crashes

ASSUME NamesAssumption == /\ IsFiniteSet(Queries) /\ NoQuery \notin Queries
                          /\ Tables \in [Queries -> SUBSET Subscribers]
\* No event is older than the epoch.
ASSUME FlagsAssumption == /\ Delays \subseteq 0..Expiry+2 /\ Expiry \in Nat \ {0}
                          /\ MaxBatches \in Nat
                          /\ Checkpoint \in Nat \ {0}
ASSUME BoundsAssumption == /\ MaxRows \in Nat /\ MaxEvents \in Nat
                           /\ MaxTime \in Nat /\ MaxCrash \in Nat

VARIABLES
  db,         \* kEvents: the rows of each subscriber
  index,      \* event_index: the events it lists
  lastId,     \* last_event_id
  count,      \* event_count_
  cleanup,    \* where addBatch is: "no", "overflow" or "expire"
  doomed,     \* what the publisher's thread has erased from the index only
  queries,    \* queries_: query -> start time, -1 if it is absent
  optTime,    \* "optimize.<name>", 0 if absent
  optEid,     \* "optimize_eid.<name>", 0 if absent
  th,         \* the scheduler's thread
  now,
  crashes,
  logged,     \* history: events each scheduled query has logged
  lost,       \* history: events it read in a run that a crash or an error ended
  evicted     \* history: events the size or the age limit has dropped, the latter
              \* by the clock

store   == <<db, index, lastId>>
adding  == <<count, cleanup, doomed>>
ptrs    == <<optTime, optEid>>
clock   == <<now, crashes>>
history == <<logged, lost, evicted>>
vars    == <<store, adding, queries, ptrs, th, clock, history>>

Event == [id : Nat, time : Nat]

\* The query (kExecutingQuery), the tables it still has to read, the one it is at,
\* what it has collected there, the last batch, its rows so far, the time up to which
\* it expires, whether that is the clock's, and what it has erased from the index
\* only.
Idle == [pc |-> "idle", q |-> NoQuery, todo |-> {}, s |-> NoQuery, got |-> {},
         last |-> [id |-> 0, time |-> 0], rows |-> {}, until |-> 0, byClock |-> FALSE,
         doomed |-> {}]

Init ==
  /\ db = [s \in Subscribers |-> {}]
  /\ index = db /\ doomed = db
  /\ lastId = [s \in Subscribers |-> 1]
  /\ count = [s \in Subscribers |-> 0]
  /\ cleanup = [s \in Subscribers |-> "no"]
  /\ queries = [s \in Subscribers |-> [q \in Queries |-> -1]]
  /\ optTime = [q \in Queries |-> 0]
  /\ optEid = optTime
  /\ th = Idle
  /\ now = Expiry + 2
  /\ crashes = 0
  /\ logged = [q \in Queries |-> {}]
  /\ lost = logged
  /\ evicted = db

-----------------------------------------------------------------------------
(* The index *)

Times(E) == {e.time : e \in E}

\* Mutant: the newest batch may go as well (issue 8524).
expiredNoKeep(E, current) ==
  LET oldestValid == current - Expiry
  IN  IF current = 0 \/ \A t \in Times(E) : t >= oldestValid
        THEN {}
        ELSE {e \in E : e.time <= oldestValid}

\* expireEventBatches: the batches up to the oldest valid time, once there is one
\* before it; but the newest batch stays.
expired(E, current) ==
  LET oldestValid == current - Expiry
  IN  IF current = 0 \/ \A t \in Times(E) : t >= oldestValid
        THEN {}
        ELSE {e \in E : e.time <= oldestValid /\ e.time # Max(Times(E))}

\* removeOverflowingEventBatches: the oldest batches, until MaxBatches are left.
overflowing(E) ==
  IF MaxBatches = 0 THEN {}
  ELSE {e \in E : Cardinality({t \in Times(E) : t >= e.time}) > MaxBatches}

-----------------------------------------------------------------------------
(* The publisher's thread: addBatch *)

\* Mutant: an exact multiple of the checkpoint is missed.
checkpointPast(s, n) == (count[s] % Checkpoint) + n > Checkpoint

checkpointReached(s, n) == (count[s] % Checkpoint) + n >= Checkpoint

\* n rows get their ids and the batch's time; one database batch and the index
\* take them.  (serializeRowJSON and toString always succeed, so no row is skipped.)
addBatch(s, n, delay) ==
  LET rows == {[id |-> lastId[s] + i, time |-> now - delay] : i \in 1..n}
  IN  /\ cleanup[s] = "no" /\ doomed[s] = {}
      /\ lastId[s] + n <= MaxEvents
      /\ db' = [db EXCEPT ![s] = @ \cup rows]
      /\ index' = [index EXCEPT ![s] = @ \cup rows]
      /\ lastId' = [lastId EXCEPT ![s] = @ + n]
      /\ cleanup' = [cleanup EXCEPT ![s] =
                       IF checkpointReached(s, n) THEN "overflow" ELSE "no"]
      /\ count' = [count EXCEPT ![s] = @ + n]
      /\ UNCHANGED <<doomed, queries, ptrs, th, clock, history>>

\* Both evictions erase from the index first and delete the keys afterwards.
Evict(s, E) ==
  /\ index' = [index EXCEPT ![s] = @ \ E]
  /\ doomed' = [doomed EXCEPT ![s] = E]
  /\ evicted' = [evicted EXCEPT ![s] = @ \cup E]
  /\ UNCHANGED <<db, lastId, count, queries, ptrs, th, clock, logged, lost>>

removeOverflowingEventBatches(s) ==
  /\ cleanup[s] = "overflow"
  /\ cleanup' = [cleanup EXCEPT ![s] = "expire"]
  /\ Evict(s, overflowing(index[s]))

expireEventBatches(s) ==
  /\ cleanup[s] = "expire" /\ doomed[s] = {}
  /\ cleanup' = [cleanup EXCEPT ![s] = "no"]
  /\ Evict(s, expired(index[s], now))

deleteDoomed(s) ==
  /\ \E e \in doomed[s] :
       /\ db' = [db EXCEPT ![s] = @ \ {e}]
       /\ doomed' = [doomed EXCEPT ![s] = @ \ {e}]
  /\ UNCHANGED <<index, lastId, count, cleanup, queries, ptrs, th, clock, history>>

-----------------------------------------------------------------------------
(* The scheduler's thread *)

\* recordQueryStart
StartQuery(q) ==
  /\ th.pc = "idle"
  /\ th' = [Idle EXCEPT !.pc = "table", !.q = q, !.todo = Tables[q]]
  /\ UNCHANGED <<store, adding, queries, ptrs, clock, history>>

\* Mutants: the scan starts after, or at, the saved second.
startAfter(q) == IF optTime[q] = 0 THEN 0 ELSE optTime[q] + 1
startAt(q) == optTime[q]

start(q) == IF optTime[q] = 0 THEN 0 ELSE optTime[q] - 1

\* getOptimizeData: where the scan starts, and the last id it skips.
pointers(q) == [start |-> start(q), eid |-> optEid[q]]

\* generateRows up to the scan of the index: read the query's pointers, record it,
\* and collect the newer ids from the start time on.  What the scan ends with
\* becomes the new pointers: the newest batch and its last id.  Without a batch in
\* range the pointers are not written.
collect(s) ==
  LET q    == th.q
      p    == pointers(q)
      scan == {e \in index[s] : e.time >= p.start}
      back == {e \in scan : e.time = Max(Times(scan))}
  IN  /\ th.pc = "table" /\ s \in th.todo
      /\ queries' = [queries EXCEPT ![s][q] = p.start]
      /\ th' = [th EXCEPT !.pc = "fetch", !.s = s, !.todo = @ \ {s},
                          !.got = {e \in scan : e.id > p.eid},
                          !.last = IF scan = {} THEN Idle.last
                                   ELSE CHOOSE e \in back : \A f \in back : f.id <= e.id]
      /\ UNCHANGED <<store, adding, ptrs, clock, history>>

\* The rows whose keys are still there are returned.
fetch ==
  /\ th.pc = "fetch"
  /\ th' = [th EXCEPT !.rows = @ \cup (th.got \cap db[th.s]), !.got = {},
                      !.pc = IF th.last.id = 0 THEN "check" ELSE "time"]
  /\ UNCHANGED <<store, adding, queries, ptrs, clock, history>>

\* setOptimizeData
setOptimizeTime ==
  /\ th.pc = "time"
  /\ th' = [th EXCEPT !.pc = "eid"]
  /\ optTime' = [optTime EXCEPT ![th.q] = th.last.time]
  /\ UNCHANGED <<store, adding, queries, optEid, clock, history>>

\* Mutant: only the time is saved.
setOptimizeEidNot ==
  /\ th.pc = "eid"
  /\ th' = [th EXCEPT !.pc = "check"]
  /\ UNCHANGED <<store, adding, queries, ptrs, clock, history>>

setOptimizeEid ==
  /\ th.pc = "eid"
  /\ th' = [th EXCEPT !.pc = "check"]
  /\ optEid' = [optEid EXCEPT ![th.q] = th.last.id]
  /\ UNCHANGED <<store, adding, queries, optTime, clock, history>>

readers(s)  == {q \in Queries : s \in Tables[q]}
recorded(s) == {q \in Queries : queries[s][q] # -1}

\* Mutant: the first query to finish is enough.
executedAny(s) == recorded(s) # {}

executedAllQueries(s) == Cardinality(recorded(s)) >= Cardinality(readers(s))

getExpireTime(s) ==
  IF readers(s) = {} \/ recorded(s) = {}
    THEN now ELSE Min({queries[s][q] : q \in recorded(s)})

\* The end of generateRows: what every query has been past for long enough goes.
\* Each of the three steps has a lock of its own.  Once all queries are recorded, the
\* least of their start times is the bound; but if configUpdate has cleared queries_
\* in between, the bound is the clock's time, and unread events go by their age.
checkExecuted ==
  /\ th.pc = "check"
  /\ th' = [th EXCEPT !.pc = IF executedAllQueries(th.s) THEN "bound" ELSE "delete"]
  /\ UNCHANGED <<store, adding, queries, ptrs, clock, history>>

boundRead ==
  /\ th.pc = "bound"
  /\ th' = [th EXCEPT !.pc = "expire", !.until = getExpireTime(th.s),
                      !.byClock = (recorded(th.s) = {})]
  /\ UNCHANGED <<store, adding, queries, ptrs, clock, history>>

expireRead ==
  LET E == expired(index[th.s], th.until)
  IN  /\ th.pc = "expire"
      /\ index' = [index EXCEPT ![th.s] = @ \ E]
      /\ th' = [th EXCEPT !.pc = "delete", !.doomed = E, !.until = 0, !.byClock = FALSE]
      /\ evicted' = [evicted EXCEPT ![th.s] = IF th.byClock THEN @ \cup E ELSE @]
      /\ UNCHANGED <<db, lastId, adding, queries, ptrs, clock, logged, lost>>

deleteRead ==
  /\ th.pc = "delete"
  /\ \E e \in th.doomed :
       /\ db' = [db EXCEPT ![th.s] = @ \ {e}]
       /\ th' = [th EXCEPT !.doomed = @ \ {e}]
  /\ UNCHANGED <<index, lastId, adding, queries, ptrs, clock, history>>

\* The next table of the query, or recordQueryPerformance.
nextTable ==
  /\ th.pc = "delete" /\ th.doomed = {}
  /\ th' = [th EXCEPT !.pc = IF th.todo # {} THEN "table" ELSE "log"]
  /\ UNCHANGED <<store, adding, queries, ptrs, clock, history>>

\* launchQuery logs the rows, or drops them because the SQL failed after it had
\* read them.
LogQuery(ok) ==
  /\ th.pc = "log"
  /\ th' = Idle
  /\ IF ok THEN logged' = [logged EXCEPT ![th.q] = @ \cup th.rows] /\ UNCHANGED lost
           ELSE lost' = [lost EXCEPT ![th.q] = @ \cup th.rows] /\ UNCHANGED logged
  /\ UNCHANGED <<store, adding, queries, ptrs, clock, evicted>>

-----------------------------------------------------------------------------
(* The process and its environment *)

\* EventFactory::configUpdate
resetQueryCount ==
  /\ queries' = [s \in Subscribers |->
                   IF readers(s) = {} THEN queries[s] ELSE [q \in Queries |-> -1]]
  /\ UNCHANGED <<store, adding, ptrs, th, clock, history>>

\* generateEventDataIndex: the index from the keys, and the largest id, at least 1.
largestId(E) == Max({1} \cup {e.id : e \in E})

\* The worker dies and the next one starts: each subscriber's setUp rebuilds the
\* index, expires and then removes the overflowing batches, the schedule clears
\* kExecutingQuery, and configUpdate resets queries_.
Restart ==
  LET young(s) == db[s] \ expired(db[s], now)
      kept(s)  == young(s) \ overflowing(young(s))
  IN  /\ crashes < MaxCrash
      /\ crashes' = crashes + 1
      /\ lastId' = [s \in Subscribers |-> largestId(db[s])]
      /\ db' = [s \in Subscribers |-> kept(s)]
      /\ index' = [s \in Subscribers |-> kept(s)]
      /\ evicted' = [s \in Subscribers |-> evicted[s] \cup (db[s] \ kept(s))]
      /\ count' = [s \in Subscribers |-> 0]
      /\ cleanup' = [s \in Subscribers |-> "no"]
      /\ doomed' = [s \in Subscribers |-> {}]
      /\ queries' = [s \in Subscribers |-> [q \in Queries |-> -1]]
      /\ th' = Idle
      /\ lost' = [q \in Queries |-> IF th.q = q THEN lost[q] \cup th.rows
                                                ELSE lost[q]]
      /\ UNCHANGED <<optTime, optEid, now, logged>>

Tick ==
  /\ now < MaxTime
  /\ now' = now + 1
  /\ UNCHANGED <<store, adding, queries, ptrs, th, crashes, history>>

Publish(s) ==
  \/ \E n \in 1..MaxRows, delay \in Delays : addBatch(s, n, delay)
  \/ removeOverflowingEventBatches(s)
  \/ expireEventBatches(s)
  \/ deleteDoomed(s)

Query ==
  \/ \E q \in Queries : StartQuery(q)
  \/ \E s \in Subscribers : collect(s)
  \/ fetch
  \/ setOptimizeTime
  \/ setOptimizeEid
  \/ checkExecuted
  \/ boundRead
  \/ expireRead
  \/ deleteRead
  \/ nextTable
  \/ \E ok \in BOOLEAN : LogQuery(ok)

Next ==
  \/ \E s \in Subscribers : Publish(s)
  \/ Query
  \/ resetQueryCount
  \/ Restart
  \/ Tick

Spec == Init /\ [][Next]_vars

-----------------------------------------------------------------------------
(* Properties *)

Places == {"idle", "table", "fetch", "time", "eid", "check", "bound", "expire",
           "delete", "log"}

Threads == [pc : Places, q : Queries \cup {NoQuery}, todo : SUBSET Subscribers,
            s : Subscribers \cup {NoQuery}, got : SUBSET Event, last : Event,
            rows : SUBSET Event, until : Nat, byClock : BOOLEAN, doomed : SUBSET Event]

Buffers == [Subscribers -> SUBSET Event]

\* Every variable stays in its set, and what the index lists, or what has yet to be
\* deleted, is stored.
TypeOK ==
  /\ db \in Buffers /\ index \in Buffers /\ doomed \in Buffers /\ evicted \in Buffers
  /\ \A s \in Subscribers : index[s] \cup doomed[s] \subseteq db[s]
  /\ lastId \in [Subscribers -> Nat] /\ count \in [Subscribers -> Nat]
  /\ cleanup \in [Subscribers -> {"no", "overflow", "expire"}]
  /\ queries \in [Subscribers -> [Queries -> Nat \cup {-1}]]
  /\ optTime \in [Queries -> Nat] /\ optEid \in [Queries -> Nat]
  /\ now \in Nat /\ crashes \in Nat
  /\ th \in Threads
  /\ logged \in [Queries -> SUBSET Event] /\ lost \in [Queries -> SUBSET Event]

\* What a scheduled query has read of its table, or is about to.
Read(q) == logged[q] \cup lost[q] \cup (IF th.q = q THEN th.rows \cup th.got ELSE {})

Visible(q, e) == e.time >= start(q) /\ e.id > optEid[q]

\* Whatever happens, a buffered event that a query has not read yet is still
\* within the query's pointers, so that its next run returns it: no order of
\* adding, evicting, saving the two pointers and restarting makes one invisible.
UnreadStaysVisible ==
  \A q \in Queries, s \in Subscribers :
    s \in Tables[q] =>
      \A e \in index[s] \ (evicted[s] \cup Read(q)) : Visible(q, e)

\* An event id is never handed out again once a query has read past it, so that
\* eviction followed by a restart does not hide new events (issue 8524).
PointersBehindIds ==
  \A q \in Queries : \A s \in Tables[q] : optEid[q] <= lastId[s]

\* A query does not log an event twice, restarts included.
LoggedOnce == th.pc # "idle" => th.rows \cap logged[th.q] = {}

\* The expiry at the end of a query only drops events that every scheduled query
\* on that table has read, while publishers add and configUpdate clears queries_; the
\* one exception is a bound that was taken from the clock because queries_ was cleared
\* after it had been found complete.
QueryExpiryOnlyDropsRead ==
  [][\A s \in Subscribers : \A q \in readers(s) :
       crashes' = crashes /\ th' # th /\ ~th.byClock
         => index[s] \ index'[s] \subseteq Read(q) \cup evicted[s]]_vars

\* Between two checkpoints the index exceeds events_max by less than a checkpoint,
\* whatever the sizes of the batches.
BufferBounded ==
  \A s \in Subscribers :
    MaxBatches > 0 /\ cleanup[s] # "overflow"
      => Cardinality(Times(index[s])) < MaxBatches + Checkpoint

\* "A previous optimized query has already visited this event": what a scheduled
\* query skips because of its pointers, it has read.
SkippedWasVisited ==
  \A q \in Queries : \A s \in Tables[q] :
    \A e \in index[s] \ evicted[s] : e.id <= optEid[q] => e \in Read(q)
=============================================================================
