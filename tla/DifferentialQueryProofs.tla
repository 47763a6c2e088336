---------------------- MODULE DifferentialQueryProofs ----------------------
(***************************************************************************)
(* Proofs about DifferentialQuery for any queries, rows and bounds: the    *)
(* types, that replaying the logged items gives the saved rows, that the   *)
(* counter is 0 exactly for the launches that start over, and that a       *)
(* reader who sees no gap in the counters has the saved rows even after    *)
(* items were lost.                                                        *)
(***************************************************************************)
EXTENDS DifferentialQuery, TLAPS

Diffed == Queries \ EventQueries

\* The launch of q is under way and its first write is done.
Written(q) == pc \in {"epoch", "counter", "log"} /\ run.q = q

\* A requested shutdown lets the current launch reach its log call, no more.
ShutdownInv ==
  shutdown => /\ pc \in {"idle", "log"}
              /\ pc = "log" => integrity[run.q] = "silent"

\* What the locals of a launch of a diffed query say.
RunInv ==
  pc # "idle" /\ run.q \in Diffed =>
    /\ run.reset => run.added = run.rows /\ run.removed = NoRows
    /\ ~run.reset => "results" \in keys[run.q]
    /\ pc # "results" /\ ~shutdown =>
         "results" \in keys[run.q] /\ saved[run.q].results = run.rows
    /\ pc = "log" /\ ~shutdown =>
         "counter" \in keys[run.q] /\ (run.reset => run.counter = 0)

\* Results have a counter, except inside a launch that starts over.
CounterInv ==
  \A q \in Diffed :
    /\ integrity[q] # "silent" /\ "results" \in keys[q]
    /\ ~(Written(q) /\ run.reset /\ pc # "log")
    => "counter" \in keys[q]

\* At the log call the counter is 0 exactly when the launch started over.
MarkInv ==
  pc = "log" /\ run.q \in Diffed /\ integrity[run.q] # "silent"
    => (run.counter = 0 <=> run.reset)

\* The reader's view: the saved rows before the first write of a launch, one
\* difference behind after it.
ReplayInv ==
  \A q \in Replayable : integrity[q] = "whole" =>
    /\ ~Written(q) /\ "results" \in keys[q]
         => consumer[q].view = saved[q].results
    /\ pc = "results" /\ run.q = q /\ ~run.reset =>
         /\ run.added = diffAdded(saved[q].results, run.rows)
         /\ run.removed = diffRemoved(saved[q].results, run.rows)
    /\ Written(q) /\ ~run.reset =>
         Plus(Minus(consumer[q].view, run.removed), run.added) = run.rows

IInv == TypeOK /\ ShutdownInv /\ RunInv /\ CounterInv /\ MarkInv /\ ReplayInv

-----------------------------------------------------------------------------
(* The reader's gaps *)

\* Between the first write of a launch and the next, a query that lost items reads
\* back the epoch of its results, and the reader of one that lost none is in it:
\* the flag may go back to 0 after a purge that took the saved epoch.
EpochInv ==
  \A q \in Replayable : "results" \in keys[q] /\ ~Written(q) =>
    /\ integrity[q] = "lost" => getPreviousEpoch(q) = saved[q].epoch
    /\ integrity[q] = "whole" => consumer[q].epoch = saved[q].epoch

\* A launch that does not start over has something to log, and is of the saved
\* epoch or of none the reader is in; and a finished save has written what the
\* item says.
SavedInv ==
  pc # "idle" /\ run.q \in Diffed =>
    /\ ~run.reset => ~hasNoResults(run)
    /\ pc = "results" /\ ~run.reset =>
         /\ run.added = diffAdded(saved[run.q].results, run.rows)
         /\ run.removed = diffRemoved(saved[run.q].results, run.rows)
         /\ run.q \in Replayable /\ integrity[run.q] # "silent"
              => saved[run.q].epoch = epoch \/ consumer[run.q].epoch # epoch
    /\ pc \in {"counter", "log"} /\ ~shutdown =>
         saved[run.q].epoch = epoch /\ "epoch" \in keys[run.q]
    /\ pc = "log" /\ ~shutdown => saved[run.q].counter = run.counter

\* The counter of the item that the launch of q is about to log.
ItemCounter(q) == IF pc = "log" THEN run.counter ELSE saved[q].counter + 1

\* A reader without a gap is not ahead of the saved counter, has the saved rows
\* when it has that counter, and gets them with the item of the current launch
\* when that item is the next one.
GapInv ==
  \A q \in Replayable : integrity[q] # "silent" /\ consumer[q].gapless =>
    /\ ~Written(q) /\ "results" \in keys[q] /\ consumer[q].epoch = saved[q].epoch =>
         /\ consumer[q].counter <= saved[q].counter
         /\ consumer[q].counter = saved[q].counter
              => consumer[q].view = saved[q].results
    /\ Written(q) /\ ~run.reset /\ consumer[q].epoch = epoch =>
         /\ consumer[q].counter < ItemCounter(q)
         /\ consumer[q].counter + 1 = ItemCounter(q)
              => Plus(Minus(consumer[q].view, run.removed), run.added) = run.rows

GapsInv == EpochInv /\ SavedInv /\ GapInv

-----------------------------------------------------------------------------
\* The multiset operations stay within multisets.
LEMMA MultisetType ==
  ASSUME NEW a \in Results, NEW b \in Results
  PROVE  /\ Minus(a, b) \in Results
         /\ Plus(a, b) \in Results
         /\ NoRows \in Results
BY DEF Minus, Plus, Results, NoRows

\* diff(): applying the removed and then the added rows to the old multiset
\* gives the current one.
LEMMA DiffApplies ==
  ASSUME NEW old \in Results, NEW current \in Results
  PROVE  Plus(Minus(old, diffRemoved(old, current)), diffAdded(old, current))
           = current
BY DEF Minus, Plus, Results, diffAdded, diffRemoved

\* The locals between two launches have their type.
LEMMA NoRunType ==
  NoRun \in [q : Queries, rows : Results, added : Results, removed : Results,
             reset : BOOLEAN, counter : Nat]
BY QueriesAssumption, MultisetType DEF NoRun, Results, NoRows

\* The initial state satisfies the invariant.
LEMMA InitInv == Init => IInv
<1> SUFFICES ASSUME Init PROVE IInv
  OBVIOUS
<1>1. TypeOK
  BY NoRunType DEF Init, TypeOK, Results, NoRows, Kinds, NothingScanned
<1> QED
  BY <1>1, QueriesAssumption
  DEF Init, IInv, ShutdownInv, RunInv, CounterInv, MarkInv, ReplayInv, Written,
      Diffed, Replayable
-----------------------------------------------------------------------------
\* Every step preserves the types.
LEMMA TypeStep == TypeOK /\ [Next]_vars => TypeOK'
<1> SUFFICES ASSUME TypeOK, [Next]_vars PROVE TypeOK'
  OBVIOUS
<1> USE QueriesAssumption, BoundsAssumption, NoRunType DEF updater, NothingScanned
<1>0. NoRows \in Results
  BY DEF NoRows, Results
<1>1. ASSUME NEW q \in Queries, NEW rows \in [Rows -> 0..MaxCopies],
             Launch(q, rows)
      PROVE  TypeOK'
  <2>1. rows \in Results
    BY DEF Results
  <2>2. NewRun(q, rows) \in [q : Queries, rows : Results, added : Results,
                             removed : Results, reset : BOOLEAN, counter : Nat]
    <3>1. saved[q].results \in Results
      BY DEF TypeOK
    <3>2. /\ diffAdded(saved[q].results, rows) \in Results
          /\ diffRemoved(saved[q].results, rows) \in Results
      BY <2>1, <3>1, MultisetType DEF diffAdded, diffRemoved
    <3>3. newQueryEpoch(q) \in BOOLEAN
      BY DEF newQueryEpoch, isQueryNameInDatabase
    <3> QED
      BY <1>0, <2>1, <3>2, <3>3 DEF NewRun
  <2>3. stamp' \in [Queries -> [Kinds -> Nat]]
    BY <1>1 DEF Launch, recordQueryStart, TypeOK, Kinds
  <2>4. keys' \in [Queries -> SUBSET Kinds]
    BY <1>1 DEF Launch, sqlKeyAfterStatus, TypeOK, Kinds
  <2> QED
    BY <1>1, <2>2, <2>3, <2>4 DEF Launch, TypeOK, budget, observer
<1>2. ASSUME NEW q \in Queries, LaunchFails(q) PROVE TypeOK'
  BY <1>2 DEF LaunchFails, recordQueryStart, TypeOK, Kinds, budget, observer
<1>3. CASE SaveResults
  <2>1. /\ run.q \in Queries /\ run.rows \in Results
        /\ saved[run.q] \in [results : Results, epoch : Nat, counter : Nat]
    BY DEF TypeOK
  <2>2. saved' \in [Queries -> [results : Results, epoch : Nat, counter : Nat]]
    BY <1>0, <1>3, <2>1 DEF SaveResults, TypeOK
  <2>3. keys' \in [Queries -> SUBSET Kinds]
    BY <1>3, <2>1 DEF SaveResults, TypeOK, Kinds
  <2> QED
    BY <1>3, <2>2, <2>3 DEF SaveResults, TypeOK, budget, observer
<1>4. CASE SaveEpoch
  <2>1. /\ run.q \in Queries /\ epoch \in Nat
        /\ saved[run.q] \in [results : Results, epoch : Nat, counter : Nat]
    BY DEF TypeOK
  <2>2. saved' \in [Queries -> [results : Results, epoch : Nat, counter : Nat]]
    BY <1>4, <2>1 DEF SaveEpoch, TypeOK
  <2>3. keys' \in [Queries -> SUBSET Kinds]
    BY <1>4, <2>1 DEF SaveEpoch, TypeOK, Kinds
  <2> QED
    BY <1>4, <2>2, <2>3 DEF SaveEpoch, TypeOK, budget, observer
<1>n. nextCounter \in Nat
  BY DEF nextCounter, getQueryCounter, TypeOK
<1>5. CASE incrementCounter
  <2>1. /\ run.q \in Queries
        /\ saved[run.q] \in [results : Results, epoch : Nat, counter : Nat]
    BY DEF TypeOK
  <2>2. saved' \in [Queries -> [results : Results, epoch : Nat, counter : Nat]]
    BY <1>5, <1>n, <2>1 DEF incrementCounter, TypeOK
  <2>3. keys' \in [Queries -> SUBSET Kinds]
    BY <1>5, <2>1 DEF incrementCounter, TypeOK, Kinds
  <2>4. run' \in [q : Queries, rows : Results, added : Results,
                  removed : Results, reset : BOOLEAN, counter : Nat]
    BY <1>5, <1>n DEF incrementCounter, TypeOK
  <2> QED
    BY <1>5, <2>2, <2>3, <2>4 DEF incrementCounter, TypeOK, budget, observer
<1>d. ASSUME NEW q \in Queries
      PROVE  Damage(q) \in [Queries -> {"whole", "lost", "silent"}]
  BY DEF Damage, TypeOK
<1>6. CASE WriteFails
  <2>1. run.q \in Queries
    BY DEF TypeOK
  <2> QED
    <3>1. integrity' \in [Queries -> {"whole", "lost", "silent"}]
      BY <1>6, <1>d, <2>1 DEF WriteFails
    <3>2. run' \in [q : Queries, rows : Results, added : Results,
                    removed : Results, reset : BOOLEAN, counter : Nat]
      BY <1>6, <1>n DEF WriteFails, TypeOK
    <3> QED
      BY <1>6, <3>1, <3>2 DEF WriteFails, TypeOK, database
<1>7. CASE LogItem
  <2>1. /\ run.q \in Queries /\ run.added \in Results /\ run.counter \in Nat
        /\ consumer[run.q].view \in Results
    BY DEF TypeOK
  <2>2. ReportedRemoved \in Results
    BY <1>0 DEF ReportedRemoved, TypeOK
  <2>3. Plus(Minus(consumer[run.q].view, ReportedRemoved), run.added) \in Results
    BY <2>1, <2>2, MultisetType
  <2>4. Received(consumer[run.q]) \in
          [view : Results, epoch : Nat, counter : Nat, gapless : BOOLEAN]
    BY <2>1, <2>3 DEF Received, TypeOK
  <2>5. consumer' \in [Queries -> [view : Results, epoch : Nat, counter : Nat,
                                   gapless : BOOLEAN]]
    BY <1>7, <2>1, <2>4 DEF LogItem, TypeOK, observer
  <2>6. integrity' \in [Queries -> {"whole", "lost", "silent"}]
    BY <1>7 DEF LogItem, TypeOK, observer
  <2> QED
    BY <1>7, <2>5, <2>6 DEF LogItem, TypeOK, database, budget
<1>8. CASE LogFails
  <2>1. run.q \in Queries
    BY DEF TypeOK
  <2> QED
    BY <1>8, <1>d, <2>1 DEF LogFails, TypeOK, database
<1>9. ASSUME NEW new \in SUBSET Queries, NEW e \in 0..MaxEpoch,
             UpdateConfig(new, e)
      PROVE  TypeOK'
  BY <1>9 DEF UpdateConfig, TypeOK, database, budget, observer
<1>14. CASE scanSavedQueries
  BY <1>14 DEF scanSavedQueries, TypeOK, database, budget, observer
<1>15. CASE purge
  <2>1. keys' \in [Queries -> SUBSET Kinds]
    BY <1>15 DEF purge, TypeOK
  <2>2. stamp' \in [Queries -> [Kinds -> Nat]]
    BY <1>15 DEF purge, TypeOK
  <2>3. integrity' \in [Queries -> {"whole", "lost", "silent"}]
    BY <1>15 DEF purge, TypeOK
  <2> QED
    BY <1>15, <2>1, <2>2, <2>3 DEF purge, TypeOK, budget
<1>10. CASE Restart
  BY <1>10 DEF Restart, TypeOK, database, budget, observer
<1>11. CASE Crash
  <2>1. run.q \in Queries
    BY DEF TypeOK
  <2> QED
    <3>1. integrity' \in [Queries -> {"whole", "lost", "silent"}]
      BY <1>11, <1>d, <2>1 DEF Crash, TypeOK
    <3>2. run' \in [q : Queries, rows : Results, added : Results,
                    removed : Results, reset : BOOLEAN, counter : Nat]
      BY <1>11 DEF Crash
    <3>3. /\ UNCHANGED <<keys, saved, stamp, epoch, now, failures, consumer>>
          /\ update' = "none" /\ scanned' \in [Queries -> SUBSET Kinds]
          /\ schedule' \subseteq Queries /\ shutdown' \in BOOLEAN
          /\ pc' = "idle"
      BY <1>11 DEF Crash, database
    <3>4. crashes' \in Nat
      BY <1>11 DEF Crash, TypeOK
    <3> QED
      BY <3>1, <3>2, <3>3, <3>4 DEF TypeOK
<1>12. CASE Tick
  BY <1>12 DEF Tick, TypeOK, database, budget, observer
<1>13. CASE UNCHANGED vars
  BY <1>13 DEF TypeOK, vars
<1> QED
  BY <1>1, <1>2, <1>3, <1>4, <1>5, <1>6, <1>7, <1>8, <1>9, <1>10, <1>11, <1>12,
     <1>13, <1>14, <1>15 DEF Next

-----------------------------------------------------------------------------
\* A step that touches only the clock, the budgets, the schedule or the epoch
\* preserves every part of the invariant.
LEMMA FrameStep ==
  ASSUME IInv, TypeOK', UNCHANGED <<keys, saved, pc, run, observer>>,
         shutdown' = shutdown
  PROVE  IInv'
BY DEF IInv, observer, ShutdownInv, RunInv, CounterInv, MarkInv, ReplayInv,
       Written

\* launchQuery, up to the first database write, preserves the invariant.
LEMMA LaunchStep ==
  ASSUME IInv, TypeOK', NEW q \in Queries, NEW rows \in [Rows -> 0..MaxCopies],
         Launch(q, rows)
  PROVE  IInv'
<1> USE QueriesAssumption DEF Diffed, Replayable
<1>1. /\ pc = "idle" /\ ~shutdown /\ ~shutdown'
      /\ saved' = saved /\ integrity' = integrity /\ consumer' = consumer
      /\ run' = NewRun(q, rows)
      /\ pc' \in {"idle", "results", "counter"}
      /\ pc' = "results" /\ q \in EventQueries => run'.reset
      /\ pc' = "counter" => q \in EventQueries
      /\ \A p \in Queries : keys'[p] \in {keys[p], keys[p] \cup {"sql"}}
  BY DEF Launch, observer, IInv, TypeOK, NewRun, hasNoResults, sqlKeyAfterStatus
<1>2. /\ run'.q = q /\ run'.rows = rows /\ run'.reset = newQueryEpoch(q)
      /\ run'.reset => run'.added = rows /\ run'.removed = NoRows
      /\ q \notin EventQueries /\ ~run'.reset =>
           /\ run'.added = diffAdded(saved[q].results, rows)
           /\ run'.removed = diffRemoved(saved[q].results, rows)
  BY <1>1 DEF NewRun, newQueryEpoch
<1>3. ~run'.reset => "results" \in keys[q]
  BY <1>2 DEF newQueryEpoch, isQueryNameInDatabase
<1>4. \A p \in Queries : /\ "results" \in keys'[p] <=> "results" \in keys[p]
                        /\ "counter" \in keys'[p] <=> "counter" \in keys[p]
  BY <1>1
<1>5. ShutdownInv'
  BY <1>1 DEF ShutdownInv
<1>6. RunInv'
  BY <1>1, <1>2, <1>3, <1>4 DEF RunInv
<1>7. CounterInv'
  BY <1>1, <1>2, <1>4 DEF CounterInv, IInv, Written
<1>8. MarkInv'
  BY <1>1 DEF MarkInv
<1>9. ReplayInv'
  BY <1>1, <1>2, <1>4 DEF ReplayInv, IInv, Written
<1> QED
  BY <1>5, <1>6, <1>7, <1>8, <1>9 DEF IInv

\* The first write of saveQueryResults preserves the invariant.
LEMMA SaveResultsStep ==
  ASSUME IInv, TypeOK', SaveResults
  PROVE  IInv'
<1> USE QueriesAssumption DEF Diffed, Replayable
<1>1. /\ pc = "results" /\ pc' = "epoch" /\ run' = run /\ ~shutdown'
      /\ integrity' = integrity /\ consumer' = consumer
      /\ run.q \in Queries
      /\ "results" \in keys'[run.q]
      /\ run.q \in Diffed => saved'[run.q].results = run.rows
      /\ "counter" \in keys'[run.q] <=> "counter" \in keys[run.q]
  BY DEF SaveResults, observer, IInv, TypeOK, ShutdownInv
<1>2. \A p \in Queries : p # run.q => keys'[p] = keys[p] /\ saved'[p] = saved[p]
  BY DEF SaveResults, IInv, TypeOK
<1>3. ShutdownInv'
  BY <1>1 DEF ShutdownInv
<1>4. RunInv'
  BY <1>1 DEF RunInv, IInv
<1>5. CounterInv'
  BY <1>1, <1>2 DEF CounterInv, RunInv, IInv, Written
<1>6. MarkInv'
  BY <1>1 DEF MarkInv
<1>7. ReplayInv'
  <2> SUFFICES ASSUME NEW q \in Replayable, integrity[q] = "whole"
               PROVE  /\ ~Written(q)' /\ "results" \in keys'[q]
                           => consumer[q].view = saved'[q].results
                      /\ Written(q)' /\ ~run.reset =>
                           Plus(Minus(consumer[q].view, run.removed), run.added)
                             = run.rows
    BY <1>1 DEF ReplayInv
  <2>1. CASE q # run.q
    BY <1>1, <1>2, <2>1 DEF ReplayInv, IInv, Written
  <2>2. CASE q = run.q
    <3>1. ~run.reset => /\ consumer[q].view = saved[q].results
                        /\ run.added = diffAdded(saved[q].results, run.rows)
                        /\ run.removed = diffRemoved(saved[q].results, run.rows)
      BY <1>1, <2>2 DEF ReplayInv, RunInv, IInv, Written
    <3>2. saved[q].results \in Results /\ run.rows \in Results
      BY <1>1, <2>2 DEF IInv, TypeOK
    <3> QED
      BY <1>1, <2>2, <3>1, <3>2, DiffApplies DEF Written
  <2> QED
    BY <2>1, <2>2
<1> QED
  BY <1>3, <1>4, <1>5, <1>6, <1>7 DEF IInv

\* The second write of saveQueryResults preserves the invariant.
LEMMA SaveEpochStep ==
  ASSUME IInv, TypeOK', SaveEpoch
  PROVE  IInv'
<1> USE QueriesAssumption DEF Diffed, Replayable
<1>1. /\ pc = "epoch" /\ run' = run /\ ~shutdown /\ ~shutdown'
      /\ pc' = "counter" \/ (pc' = "log" /\ run.q \in EventQueries)
      /\ integrity' = integrity /\ consumer' = consumer
      /\ run.q \in Queries
      /\ \A p \in Queries : /\ "results" \in keys'[p] <=> "results" \in keys[p]
                            /\ "counter" \in keys'[p] <=> "counter" \in keys[p]
                            /\ saved'[p].results = saved[p].results
  BY DEF SaveEpoch, observer, IInv, TypeOK, ShutdownInv
<1>2. ShutdownInv'
  BY <1>1 DEF ShutdownInv
<1>3. RunInv'
  BY <1>1 DEF RunInv, IInv
<1>4. CounterInv'
  BY <1>1 DEF CounterInv, IInv, Written
<1>5. MarkInv'
  BY <1>1 DEF MarkInv
<1>6. ReplayInv'
  BY <1>1 DEF ReplayInv, IInv, Written
<1> QED
  BY <1>2, <1>3, <1>4, <1>5, <1>6 DEF IInv

\* incrementCounter preserves the invariant.
LEMMA IncrementCounterStep ==
  ASSUME IInv, TypeOK', incrementCounter
  PROVE  IInv'
<1> USE QueriesAssumption DEF Diffed, Replayable
<1>1. /\ pc = "counter" /\ pc' = "log" /\ ~shutdown /\ ~shutdown'
      /\ integrity' = integrity /\ consumer' = consumer
      /\ run.q \in Queries
      /\ run'.q = run.q /\ run'.rows = run.rows /\ run'.added = run.added
      /\ run'.removed = run.removed /\ run'.reset = run.reset
      /\ run'.counter = nextCounter
      /\ "counter" \in keys'[run.q]
      /\ \A p \in Queries : /\ "results" \in keys'[p] <=> "results" \in keys[p]
                            /\ "counter" \in keys[p] => "counter" \in keys'[p]
                            /\ saved'[p].results = saved[p].results
  BY DEF incrementCounter, observer, IInv, TypeOK, ShutdownInv
<1>2. run.q \in Diffed /\ run.reset => nextCounter = 0
  BY DEF nextCounter, getQueryCounter
<1>3. run.q \in Diffed /\ ~run.reset /\ integrity[run.q] # "silent"
        => nextCounter # 0
  <2>1. run.q \in Diffed /\ ~run.reset /\ integrity[run.q] # "silent"
          => "counter" \in keys[run.q]
    BY <1>1 DEF IInv, CounterInv, RunInv, Written
  <2>2. saved[run.q].counter \in Nat
    BY <1>1 DEF IInv, TypeOK
  <2> QED
    BY <2>1, <2>2 DEF nextCounter, getQueryCounter
<1>4. ShutdownInv'
  BY <1>1 DEF ShutdownInv
<1>5. RunInv'
  BY <1>1, <1>2 DEF RunInv, IInv
<1>6. CounterInv'
  BY <1>1 DEF CounterInv, IInv, Written
<1>7. MarkInv'
  BY <1>1, <1>2, <1>3 DEF MarkInv
<1>8. ReplayInv'
  BY <1>1 DEF ReplayInv, IInv, Written
<1> QED
  BY <1>4, <1>5, <1>6, <1>7, <1>8 DEF IInv

\* Damage touches one query only, and ends its replay.
LEMMA DamageIs ==
  ASSUME TypeOK, NEW q \in Queries
  PROVE  /\ \A p \in Queries : p # q => Damage(q)[p] = integrity[p]
         /\ Damage(q)[q] # "whole"
         /\ pc # "log" => Damage(q)[q] = "silent"
         /\ integrity[q] = "silent" => Damage(q)[q] = "silent"
BY DEF Damage, TypeOK

\* A failing write preserves the invariant: the query is marked as damaged.
LEMMA WriteFailsStep ==
  ASSUME IInv, TypeOK', WriteFails
  PROVE  IInv'
<1> USE QueriesAssumption DEF Diffed, Replayable
<1>1. /\ pc \in {"results", "epoch", "counter"} /\ pc' = "log" /\ shutdown'
      /\ keys' = keys /\ saved' = saved /\ consumer' = consumer
      /\ run.q \in Queries
      /\ integrity' = Damage(run.q)
      /\ run'.q = run.q /\ run'.rows = run.rows /\ run'.added = run.added
      /\ run'.removed = run.removed /\ run'.reset = run.reset
  BY DEF WriteFails, database, IInv, TypeOK
<1>2. /\ integrity'[run.q] = "silent"
      /\ \A p \in Queries : p # run.q => integrity'[p] = integrity[p]
  BY <1>1, DamageIs DEF IInv
<1>3. ShutdownInv'
  BY <1>1, <1>2 DEF ShutdownInv
<1>4. RunInv'
  BY <1>1 DEF RunInv, IInv
<1>5. CounterInv'
  BY <1>1, <1>2 DEF CounterInv, IInv, Written
<1>6. MarkInv'
  BY <1>1, <1>2 DEF MarkInv
<1>7. ReplayInv'
  BY <1>1, <1>2 DEF ReplayInv, IInv, Written
<1> QED
  BY <1>3, <1>4, <1>5, <1>6, <1>7 DEF IInv

\* The end of a launch, whatever becomes of its item: the other queries are
\* not concerned, and the launched one needs its counter and its replay.
LEMMA EndOfLaunch ==
  ASSUME IInv, TypeOK', pc # "idle", pc' = "idle", UNCHANGED <<keys, saved>>,
         \A p \in Queries : p # run.q => /\ integrity'[p] = integrity[p]
                                        /\ consumer'[p] = consumer[p],
         run.q \in Diffed /\ integrity'[run.q] # "silent"
           /\ "results" \in keys[run.q] => "counter" \in keys[run.q],
         run.q \in Replayable /\ integrity'[run.q] = "whole"
           /\ "results" \in keys[run.q]
             => consumer'[run.q].view = saved[run.q].results
  PROVE  IInv'
<1> USE QueriesAssumption DEF Diffed, Replayable
<1>1. ShutdownInv' /\ RunInv' /\ MarkInv'
  BY DEF ShutdownInv, RunInv, MarkInv
<1>2. CounterInv'
  BY DEF CounterInv, IInv, Written
<1>3. ReplayInv'
  BY DEF ReplayInv, IInv, Written
<1> QED
  BY <1>1, <1>2, <1>3 DEF IInv

\* Logging the item preserves the invariant: the reader catches up.
LEMMA LogItemStep ==
  ASSUME IInv, TypeOK', LogItem
  PROVE  IInv'
<1> USE QueriesAssumption DEF Diffed, Replayable
<1>1. /\ pc = "log" /\ pc' = "idle" /\ UNCHANGED <<keys, saved>>
      /\ run.q \in Queries
      /\ \A p \in Queries : p # run.q => /\ integrity'[p] = integrity[p]
                                         /\ consumer'[p] = consumer[p]
  BY DEF LogItem, database, observer, IInv, TypeOK
<1>2. \/ NothingToLog /\ consumer' = consumer /\ integrity' = integrity
      \/ /\ ~NothingToLog
         /\ consumer'[run.q] = Received(consumer[run.q])
         /\ \/ integrity'[run.q] = integrity[run.q]
            \/ run.reset /\ run.counter = 0 /\ ~shutdown
  BY DEF LogItem, observer, IInv, TypeOK
<1>3. ~shutdown /\ run.q \in Diffed =>
        /\ "results" \in keys[run.q] /\ "counter" \in keys[run.q]
        /\ saved[run.q].results = run.rows
        /\ run.reset => run.added = run.rows /\ run.removed = NoRows
        /\ run.reset => run.counter = 0
  BY <1>1 DEF IInv, RunInv
<1>4. integrity'[run.q] # "silent" => ~shutdown
  BY <1>1, <1>2 DEF IInv, ShutdownInv
<1>5. ASSUME run.q \in Replayable, integrity'[run.q] = "whole"
      PROVE  consumer'[run.q].view = saved[run.q].results
  <2>1. ReportedRemoved = run.removed
    BY <1>5 DEF ReportedRemoved
  <2>2. ~run.reset => /\ integrity[run.q] = "whole"
                      /\ run.counter # 0
                      /\ Plus(Minus(consumer[run.q].view, run.removed), run.added)
                            = run.rows
    BY <1>1, <1>2, <1>5 DEF IInv, MarkInv, ReplayInv, Written
  <2>3. CASE NothingToLog
    <3>1. /\ run.added = NoRows /\ run.removed = NoRows /\ run.counter # 0
          /\ consumer' = consumer
      BY <1>2, <2>1, <2>3 DEF NothingToLog
    <3>2. ~run.reset
      BY <1>3, <1>4, <1>5, <3>1
    <3>3. consumer[run.q].view \in Results
      BY <1>1 DEF IInv, TypeOK
    <3>4. Plus(Minus(consumer[run.q].view, NoRows), NoRows)
            = consumer[run.q].view
      BY <3>3 DEF Plus, Minus, NoRows, Results
    <3> QED
      BY <1>3, <1>4, <1>5, <2>2, <3>1, <3>2, <3>4
  <2>4. CASE ~NothingToLog
    <3>1. consumer'[run.q].view =
            IF run.counter = 0 THEN run.added
            ELSE Plus(Minus(consumer[run.q].view, run.removed), run.added)
      BY <1>2, <2>1, <2>4 DEF Received
    <3> QED
      BY <1>3, <1>4, <1>5, <2>2, <3>1
  <2> QED
    BY <2>3, <2>4
<1>6. run.q \in Diffed /\ integrity'[run.q] # "silent"
        => "counter" \in keys[run.q]
  BY <1>3, <1>4
<1> QED
  BY <1>1, <1>5, <1>6, EndOfLaunch

\* A failing logger preserves the invariant.
LEMMA LogFailsStep ==
  ASSUME IInv, TypeOK', LogFails
  PROVE  IInv'
<1> USE QueriesAssumption DEF Diffed, Replayable
<1>1. /\ pc = "log" /\ pc' = "idle" /\ UNCHANGED <<keys, saved, consumer>>
      /\ run.q \in Queries
      /\ integrity' = Damage(run.q)
  BY DEF LogFails, database, IInv, TypeOK
<1>2. /\ integrity'[run.q] # "whole"
      /\ integrity'[run.q] # "silent" => integrity[run.q] # "silent"
      /\ \A p \in Queries : p # run.q => integrity'[p] = integrity[p]
  BY <1>1, DamageIs DEF IInv
<1>3. run.q \in Diffed /\ integrity'[run.q] # "silent"
        /\ "results" \in keys[run.q] => "counter" \in keys[run.q]
  BY <1>1, <1>2 DEF IInv, CounterInv, Written
<1> QED
  BY <1>1, <1>2, <1>3, EndOfLaunch

\* A crash between any two writes preserves the invariant.
LEMMA CrashStep ==
  ASSUME IInv, TypeOK', Crash
  PROVE  IInv'
<1> USE QueriesAssumption DEF Diffed, Replayable
<1>1. /\ pc' = "idle" /\ UNCHANGED <<keys, saved, consumer>> /\ ~shutdown'
      /\ run.q \in Queries
  BY DEF Crash, database, IInv, TypeOK
<1>2. CASE pc = "idle"
  <2>1. integrity' = integrity
    BY <1>2 DEF Crash
  <2> QED
    BY <1>1, <1>2, <2>1
    DEF IInv, ShutdownInv, RunInv, CounterInv, MarkInv, ReplayInv, Written
<1>3. CASE pc = "results"
  <2>1. integrity' = integrity
    BY <1>3 DEF Crash
  <2>2. run.q \in Diffed /\ integrity[run.q] # "silent"
        /\ "results" \in keys[run.q] => "counter" \in keys[run.q]
    BY <1>3 DEF IInv, CounterInv, Written
  <2>3. run.q \in Replayable /\ integrity[run.q] = "whole"
           /\ "results" \in keys[run.q]
             => consumer[run.q].view = saved[run.q].results
    BY <1>3 DEF IInv, ReplayInv, Written
  <2> QED
    BY <1>1, <1>3, <2>1, <2>2, <2>3, EndOfLaunch
<1>4. CASE pc \in {"epoch", "counter", "log"}
  <2>1. integrity' = Damage(run.q)
    BY <1>4 DEF Crash
  <2>2. /\ integrity'[run.q] # "whole"
        /\ integrity'[run.q] # "silent" =>
             integrity[run.q] # "silent" /\ pc = "log"
        /\ \A p \in Queries : p # run.q => integrity'[p] = integrity[p]
    BY <1>1, <2>1, DamageIs DEF IInv
  <2>3. run.q \in Diffed /\ integrity'[run.q] # "silent"
          /\ "results" \in keys[run.q] => "counter" \in keys[run.q]
    BY <1>1, <2>2 DEF IInv, CounterInv, Written
  <2> QED
    BY <1>1, <1>4, <2>2, <2>3, EndOfLaunch
<1> QED
  BY <1>2, <1>3, <1>4 DEF IInv, TypeOK

\* purge preserves the invariant.
LEMMA PurgeStep ==
  ASSUME IInv, TypeOK', purge
  PROVE  IInv'
<1> USE QueriesAssumption DEF Diffed, Replayable
<1>1. /\ pc = "idle" /\ pc' = "idle" /\ UNCHANGED <<saved, consumer, shutdown>>
      /\ \A q \in Queries : keys'[q] = keys[q] \ Purged(q)
      /\ \A q \in Queries : integrity'[q] =
           IF PartlyPurged(q) THEN "silent" ELSE integrity[q]
      /\ \A q \in Queries :
           "counter" \in Purged(q) /\ "results" \in keys[q] \ Purged(q)
             => PartlyPurged(q)
  BY DEF purge, PartlyPurged
<1>2. ShutdownInv' /\ RunInv' /\ MarkInv'
  BY <1>1 DEF ShutdownInv, RunInv, MarkInv
<1>3. CounterInv'
  BY <1>1 DEF CounterInv, IInv, Written
<1>4. ReplayInv'
  BY <1>1 DEF ReplayInv, IInv, Written
<1> QED
  BY <1>2, <1>3, <1>4 DEF IInv

\* A restart after a requested shutdown preserves the invariant.
LEMMA RestartStep ==
  ASSUME IInv, TypeOK', Restart
  PROVE  IInv'
<1>1. /\ pc = "idle" /\ pc' = "idle" /\ ~shutdown'
      /\ UNCHANGED <<keys, saved, run, consumer, integrity>>
  BY DEF Restart, database, observer
<1> QED
  BY <1>1
  DEF IInv, ShutdownInv, RunInv, CounterInv, MarkInv, ReplayInv, Written

\* Every step preserves the inductive invariant.
LEMMA InvStep == IInv /\ [Next]_vars => IInv'
<1> SUFFICES ASSUME IInv, [Next]_vars PROVE IInv'
  OBVIOUS
<1>0. TypeOK'
  BY TypeStep DEF IInv
<1>1. ASSUME NEW q \in Queries, NEW rows \in [Rows -> 0..MaxCopies],
             Launch(q, rows)
      PROVE  IInv'
  BY <1>0, <1>1, LaunchStep
<1>2. ASSUME NEW q \in Queries, LaunchFails(q) PROVE IInv'
  BY <1>0, <1>2, FrameStep DEF LaunchFails
<1>3. CASE SaveResults
  BY <1>0, <1>3, SaveResultsStep
<1>4. CASE SaveEpoch
  BY <1>0, <1>4, SaveEpochStep
<1>5. CASE incrementCounter
  BY <1>0, <1>5, IncrementCounterStep
<1>6. CASE WriteFails
  BY <1>0, <1>6, WriteFailsStep
<1>7. CASE LogItem
  BY <1>0, <1>7, LogItemStep
<1>8. CASE LogFails
  BY <1>0, <1>8, LogFailsStep
<1>9. ASSUME NEW new \in SUBSET Queries, NEW e \in 0..MaxEpoch,
             UpdateConfig(new, e)
      PROVE  IInv'
  BY <1>0, <1>9, FrameStep DEF UpdateConfig, database
<1>14. CASE scanSavedQueries
  BY <1>0, <1>14, FrameStep DEF scanSavedQueries, database
<1>15. CASE purge
  BY <1>0, <1>15, PurgeStep
<1>10. CASE Restart
  BY <1>0, <1>10, RestartStep
<1>11. CASE Crash
  BY <1>0, <1>11, CrashStep
<1>12. CASE Tick
  BY <1>0, <1>12, FrameStep DEF Tick, database
<1>13. CASE UNCHANGED vars
  BY <1>0, <1>13, FrameStep DEF vars, observer
<1> QED
  BY <1>1, <1>2, <1>3, <1>4, <1>5, <1>6, <1>7, <1>8, <1>9, <1>10, <1>11, <1>12,
     <1>13, <1>14, <1>15 DEF Next

-----------------------------------------------------------------------------
\* Every variable keeps its type in every behaviour of launchQuery, the purge,
\* crashes and failures.
THEOREM TypeCorrect == Spec => []TypeOK
<1>1. Init => TypeOK
  BY InitInv DEF IInv
<1> QED
  BY <1>1, TypeStep, PTL DEF Spec

\* Replaying the log of a query that lost no item gives the saved rows.
THEOREM ReplayCorrect == Spec => []ReplayMatchesSaved
<1>1. IInv => ReplayMatchesSaved
  BY DEF IInv, ReplayInv, ReplayMatchesSaved, Written
<1> QED
  BY <1>1, InitInv, InvStep, PTL DEF Spec

\* Counter 0 marks the launches of a diffed query that start over, and only
\* them, unless its saved state is incomplete.
THEOREM CounterZeroCorrect == Spec => []CounterZeroMarksReset
<1>1. IInv => CounterZeroMarksReset
  BY DEF IInv, TypeOK, MarkInv, RunInv, CounterZeroMarksReset, Diffed
<1> QED
  BY <1>1, InitInv, InvStep, PTL DEF Spec

-----------------------------------------------------------------------------
(* Lost items show as a gap *)

\* Before the first launch no reader has seen anything.
LEMMA GapInit == Init => GapsInv
<1> SUFFICES ASSUME Init PROVE GapsInv
  OBVIOUS
<1>1. /\ \A q \in Queries : ~consumer[q].gapless
      /\ pc = "idle"
      /\ \A q \in Queries : "results" \notin keys[q]
  BY DEF Init
<1> QED
  BY <1>1, QueriesAssumption DEF GapsInv, EpochInv, SavedInv, GapInv, Replayable

\* A step that leaves the saved values and the launch alone.
LEMMA GapFrame ==
  ASSUME IInv, GapsInv, UNCHANGED <<saved, pc, run, consumer>>,
         shutdown' \/ shutdown' = shutdown \/ pc = "idle",
         epoch' = epoch \/ pc = "idle",
         \A q \in Queries : /\ "results" \in keys'[q] => "results" \in keys[q]
                            /\ integrity'[q] \in {"silent", integrity[q]},
         pc = "idle" \/ keys' = keys,
         \A q \in Queries : "results" \in keys'[q] /\ integrity'[q] = "lost"
            => saved[q].epoch = 0 \/ ("epoch" \in keys[q] => "epoch" \in keys'[q])
  PROVE  GapsInv'
<1> USE QueriesAssumption DEF Replayable, GapsInv
<1>1. SavedInv'
  BY DEF SavedInv, hasNoResults
<1>2. EpochInv'
  BY DEF EpochInv, Written, getPreviousEpoch
<1>3. GapInv'
  BY DEF GapInv, Written, ItemCounter
<1> QED
  BY <1>1, <1>2, <1>3

\* launchQuery computes the difference to the saved rows of the same epoch.
LEMMA GapLaunch ==
  ASSUME IInv, GapsInv, NEW q \in Queries, NEW rows \in [Rows -> 0..MaxCopies],
         Launch(q, rows)
  PROVE  GapsInv'
<1> USE QueriesAssumption DEF Diffed, Replayable, GapsInv
<1>1. /\ pc = "idle" /\ UNCHANGED <<saved, epoch, integrity, consumer>>
      /\ run' = NewRun(q, rows)
      /\ pc' = IF run'.reset THEN "results" ELSE IF hasNoResults(run') THEN "idle"
               ELSE IF q \in EventQueries THEN "counter" ELSE "results"
      /\ \A p \in Queries : /\ "results" \in keys'[p] <=> "results" \in keys[p]
                            /\ "epoch" \in keys'[p] <=> "epoch" \in keys[p]
  BY DEF Launch, observer, IInv, TypeOK, sqlKeyAfterStatus
<1>2. /\ run'.q = q /\ run'.rows = rows /\ run'.reset = newQueryEpoch(q)
      /\ q \notin EventQueries /\ ~run'.reset =>
           /\ run'.added = diffAdded(saved[q].results, rows)
           /\ run'.removed = diffRemoved(saved[q].results, rows)
  BY <1>1 DEF NewRun
<1>3. /\ ~run'.reset => "results" \in keys[q] /\ getPreviousEpoch(q) = epoch
      /\ pc' # "idle" /\ ~run'.reset => ~hasNoResults(run')
  BY <1>1, <1>2 DEF newQueryEpoch, isQueryNameInDatabase
<1>4. SavedInv'
  <2>1. ASSUME q \in Replayable, integrity[q] # "silent", ~run'.reset
        PROVE  saved[q].epoch = epoch \/ consumer[q].epoch # epoch
    <3>1. integrity[q] \in {"whole", "lost"} /\ ~Written(q)
      BY <1>1, <2>1 DEF IInv, TypeOK, Written
    <3> QED
      BY <1>3, <2>1, <3>1 DEF EpochInv
  <2> QED
    BY <1>1, <1>2, <1>3, <2>1 DEF SavedInv
<1>6. EpochInv'
  <2>1. \A p \in Replayable : ~Written(p) /\ ~Written(p)'
    BY <1>1, <1>2 DEF Written
  <2>2. \A p \in Replayable : getPreviousEpoch(p)' = getPreviousEpoch(p)
    BY <1>1 DEF getPreviousEpoch
  <2> QED
    BY <1>1, <2>1, <2>2 DEF EpochInv
<1>5. GapInv'
  <2>1. \A p \in Replayable : ~Written(p) /\ ~Written(p)'
    BY <1>1, <1>2 DEF Written
  <2> QED
    BY <1>1, <2>1 DEF GapInv, ItemCounter
<1> QED
  BY <1>4, <1>5, <1>6

\* The first write: the reader is now one difference behind.
LEMMA GapSaveResults ==
  ASSUME IInv, GapsInv, SaveResults
  PROVE  GapsInv'
<1> USE QueriesAssumption DEF Diffed, Replayable, GapsInv
<1>1. /\ pc = "results" /\ pc' = "epoch" /\ run.q \in Queries
      /\ UNCHANGED <<run, epoch, integrity, consumer, shutdown>>
      /\ \A p \in Queries : /\ saved'[p].epoch = saved[p].epoch
                            /\ saved'[p].counter = saved[p].counter
                            /\ p # run.q => saved'[p] = saved[p] /\ keys'[p] = keys[p]
  BY DEF SaveResults, observer, IInv, TypeOK
<1>2. SavedInv'
  BY <1>1 DEF SavedInv
<1>5. EpochInv'
  BY <1>1 DEF EpochInv, Written, getPreviousEpoch
<1>3. ASSUME NEW q \in Replayable, integrity[q] # "silent", consumer[q].gapless, q = run.q,
             ~run.reset, consumer[q].epoch = epoch
      PROVE  /\ consumer[q].counter < saved[q].counter + 1
             /\ consumer[q].counter + 1 = saved[q].counter + 1
                  => Plus(Minus(consumer[q].view, run.removed), run.added) = run.rows
  <2>1. /\ "results" \in keys[q] /\ saved[q].epoch = epoch
        /\ run.added = diffAdded(saved[q].results, run.rows)
        /\ run.removed = diffRemoved(saved[q].results, run.rows)
    BY <1>1, <1>3 DEF IInv, RunInv, SavedInv
  <2>2. /\ consumer[q].counter <= saved[q].counter
        /\ consumer[q].counter = saved[q].counter => consumer[q].view = saved[q].results
    BY <1>1, <1>3, <2>1 DEF GapInv, Written
  <2>3. /\ saved[q].results \in Results /\ run.rows \in Results
        /\ consumer[q].counter \in Nat /\ saved[q].counter \in Nat
    BY DEF IInv, TypeOK
  <2>4. consumer[q].counter + 1 = saved[q].counter + 1
          => consumer[q].counter = saved[q].counter
    BY <2>3
  <2> QED
    BY <2>1, <2>2, <2>3, <2>4, DiffApplies
<1>4. GapInv'
  BY <1>1, <1>3 DEF GapInv, Written, ItemCounter
<1> QED
  BY <1>2, <1>4, <1>5

\* The second write and the counter's leave the reader as far behind.
LEMMA GapSaves ==
  ASSUME IInv, GapsInv, SaveEpoch \/ incrementCounter
  PROVE  GapsInv'
<1> USE QueriesAssumption DEF Diffed, Replayable, GapsInv
<1>1. CASE SaveEpoch
  <2>1. /\ pc = "epoch" /\ run.q \in Queries
        /\ pc' = "counter" \/ (pc' = "log" /\ run.q \in EventQueries)
        /\ UNCHANGED <<run, epoch, integrity, consumer, shutdown>>
        /\ saved'[run.q].epoch = epoch /\ "epoch" \in keys'[run.q]
        /\ \A p \in Queries : /\ saved'[p].results = saved[p].results
                              /\ saved'[p].counter = saved[p].counter
                              /\ "results" \in keys'[p] <=> "results" \in keys[p]
                              /\ p # run.q => saved'[p] = saved[p] /\ keys'[p] = keys[p]
    BY <1>1 DEF SaveEpoch, observer, IInv, TypeOK
  <2>2. EpochInv'
    BY <2>1 DEF EpochInv, Written, getPreviousEpoch
  <2>3. SavedInv'
    BY <2>1 DEF SavedInv
  <2>4. GapInv'
    BY <2>1 DEF GapInv, Written, ItemCounter
  <2> QED
    BY <2>2, <2>3, <2>4
<1>2. CASE incrementCounter
  <2>1. /\ pc = "counter" /\ pc' = "log" /\ run.q \in Queries /\ ~shutdown
        /\ UNCHANGED <<epoch, integrity, consumer, shutdown>>
        /\ run' = [run EXCEPT !.counter = nextCounter]
        /\ saved'[run.q].counter = nextCounter
        /\ \A p \in Queries : /\ saved'[p].results = saved[p].results
                              /\ saved'[p].epoch = saved[p].epoch
                              /\ "epoch" \in keys[p] => "epoch" \in keys'[p]
                              /\ "results" \in keys'[p] <=> "results" \in keys[p]
                              /\ p # run.q => saved'[p] = saved[p] /\ keys'[p] = keys[p]
    BY <1>2 DEF incrementCounter, observer, IInv, TypeOK, ShutdownInv
  <2>2. /\ run'.q = run.q /\ run'.rows = run.rows /\ run'.added = run.added
        /\ run'.removed = run.removed /\ run'.reset = run.reset
        /\ run'.counter = nextCounter
    BY <2>1 DEF IInv, TypeOK
  <2>3. SavedInv'
    BY <2>1, <2>2 DEF SavedInv, hasNoResults
  <2>6. EpochInv'
    BY <2>1, <2>2 DEF EpochInv, Written, getPreviousEpoch
  <2>4. ASSUME NEW q \in Replayable, integrity[q] # "silent", q = run.q, ~run.reset
        PROVE  nextCounter = saved[q].counter + 1
    <3>1. "counter" \in keys[q]
      BY <2>1, <2>4 DEF IInv, CounterInv, RunInv, Written
    <3> QED
      BY <2>4, <3>1 DEF nextCounter, getQueryCounter
  <2>5. GapInv'
    BY <2>1, <2>2, <2>4 DEF GapInv, Written, ItemCounter
  <2> QED
    BY <2>3, <2>5, <2>6
<1> QED
  BY <1>1, <1>2

\* A launch ends without its item: the other queries are not concerned, and the
\* launched one is damaged, or its first write was not done.
LEMMA GapLost ==
  ASSUME IInv, GapsInv, WriteFails \/ LogFails \/ Crash
  PROVE  GapsInv'
<1> USE QueriesAssumption DEF Diffed, Replayable, GapsInv
<1>t. TypeOK /\ run.q \in Queries
  BY DEF IInv, TypeOK
<1>1. CASE WriteFails
  <2>1. /\ UNCHANGED <<keys, saved, epoch, consumer>> /\ shutdown' /\ pc' = "log"
        /\ pc \in {"results", "epoch", "counter"} /\ integrity' = Damage(run.q)
        /\ run'.q = run.q /\ run'.added = run.added /\ run'.removed = run.removed
        /\ run'.reset = run.reset
    BY <1>1, <1>t DEF WriteFails, database, TypeOK
  <2>2. /\ integrity'[run.q] = "silent"
        /\ \A p \in Queries : p # run.q => integrity'[p] = integrity[p]
    BY <1>t, <2>1, DamageIs
  <2>3. SavedInv'
    BY <2>1 DEF SavedInv, hasNoResults
  <2>4. GapInv'
    BY <2>1, <2>2 DEF GapInv, Written
  <2>5. EpochInv'
    BY <2>1, <2>2 DEF EpochInv, Written, getPreviousEpoch
  <2> QED
    BY <2>3, <2>4, <2>5
<1>2. CASE pc' = "idle" /\ UNCHANGED <<keys, saved, epoch, consumer>>
           /\ (integrity' = Damage(run.q) \/ (integrity' = integrity /\ pc \in {"idle", "results"}))
  <2>1. SavedInv'
    BY <1>2 DEF SavedInv
  <2>2. ASSUME NEW q \in Replayable, integrity'[q] # "silent", consumer[q].gapless,
               "results" \in keys[q], consumer[q].epoch = saved[q].epoch
        PROVE  /\ consumer[q].counter <= saved[q].counter
               /\ consumer[q].counter = saved[q].counter
                    => consumer[q].view = saved[q].results
    <3>1. integrity[q] # "silent"
      BY <1>2, <1>t, <2>2, DamageIs
    <3>2. CASE ~Written(q)
      BY <2>2, <3>1, <3>2 DEF GapInv
    <3>3. CASE Written(q)
      <4>1. q = run.q /\ integrity' = Damage(q)
        BY <1>2, <3>3 DEF Written
      <4>2. pc = "log" /\ ~(run.reset /\ consumer[q].epoch = epoch)
        BY <1>t, <2>2, <4>1 DEF Damage, TypeOK
      <4>3. ~shutdown
        BY <3>1, <4>1, <4>2 DEF IInv, ShutdownInv
      <4>4. saved[q].epoch = epoch /\ saved[q].counter = run.counter
        BY <4>1, <4>2, <4>3 DEF SavedInv
      <4>5. consumer[q].counter < saved[q].counter
        BY <2>2, <3>1, <3>3, <4>1, <4>2, <4>4 DEF GapInv, ItemCounter
      <4>6. consumer[q].counter \in Nat /\ saved[q].counter \in Nat
        BY <1>t DEF TypeOK
      <4> QED
        BY <4>5, <4>6
    <3> QED
      BY <3>2, <3>3
  <2>3. GapInv'
    BY <1>2, <2>2 DEF GapInv, Written
  <2>4. ASSUME NEW q \in Replayable, "results" \in keys[q], integrity'[q] # "silent"
        PROVE  /\ integrity'[q] = "lost" => getPreviousEpoch(q) = saved[q].epoch
               /\ integrity'[q] = "whole" => consumer[q].epoch = saved[q].epoch
    <3>1. CASE ~Written(q) /\ integrity'[q] = integrity[q]
      BY <2>4, <3>1 DEF EpochInv
    <3>2. CASE q = run.q /\ integrity' = Damage(q)
      <4>1. /\ pc = "log" /\ integrity[q] # "silent" /\ integrity'[q] = "lost"
        BY <1>t, <2>4, <3>2, DamageIs DEF Damage, TypeOK
      <4>2. "epoch" \in keys[q]
        BY <3>2, <4>1 DEF SavedInv, IInv, ShutdownInv
      <4> QED
        BY <4>1, <4>2 DEF getPreviousEpoch
    <3> QED
      BY <1>2, <1>t, <3>1, <3>2, DamageIs DEF Written
  <2>5. EpochInv'
    BY <1>2, <2>4 DEF EpochInv, getPreviousEpoch
  <2> QED
    BY <2>1, <2>3, <2>5
<1>3. CASE LogFails
  BY <1>2, <1>3 DEF LogFails, database
<1>4. CASE Crash
  <2>1. /\ pc' = "idle" /\ UNCHANGED <<keys, saved, epoch, consumer>>
        /\ integrity' = IF pc \in {"epoch", "counter", "log"} THEN Damage(run.q) ELSE integrity
    BY <1>4 DEF Crash, database
  <2> QED
    BY <1>2, <1>t, <2>1 DEF TypeOK
<1> QED
  BY <1>1, <1>3, <1>4

\* The item reaches the reader: counter 0 gives it all the rows, and any other one
\* the saved rows if it has missed none.
LEMMA GapLogItem ==
  ASSUME IInv, GapsInv, LogItem
  PROVE  GapsInv'
<1> USE QueriesAssumption DEF Diffed, Replayable, GapsInv
<1>1. /\ pc = "log" /\ pc' = "idle" /\ UNCHANGED <<keys, saved, epoch, shutdown>>
      /\ run.q \in Queries
      /\ \A p \in Queries : p # run.q => /\ integrity'[p] = integrity[p]
                                         /\ consumer'[p] = consumer[p]
  BY DEF LogItem, database, observer, IInv, TypeOK
<1>2. \/ NothingToLog /\ consumer' = consumer /\ integrity' = integrity
      \/ /\ ~NothingToLog
         /\ consumer'[run.q] = Received(consumer[run.q])
         /\ \/ integrity'[run.q] = integrity[run.q]
            \/ run.reset /\ run.counter = 0 /\ ~shutdown
  BY DEF LogItem, observer, IInv, TypeOK
<1>3. SavedInv'
  BY <1>1 DEF SavedInv
<1>4. ASSUME run.q \in Replayable, integrity'[run.q] # "silent", consumer'[run.q].gapless
      PROVE  /\ consumer'[run.q].counter <= saved[run.q].counter
             /\ consumer'[run.q].view = saved[run.q].results
  <2>1. ~shutdown /\ run.q \in Diffed
    BY <1>1, <1>2, <1>4 DEF IInv, ShutdownInv
  <2>2. /\ saved[run.q].results = run.rows /\ saved[run.q].counter = run.counter
        /\ run.reset => run.added = run.rows /\ run.counter = 0
        /\ ~run.reset => ~hasNoResults(run)
        /\ run.counter \in Nat
    BY <1>1, <2>1 DEF IInv, RunInv, SavedInv, TypeOK
  <2>3. ReportedRemoved = run.removed
    BY <1>4 DEF ReportedRemoved
  <2>4. ~NothingToLog
    BY <2>2, <2>3 DEF NothingToLog, hasNoResults
  <2>5. /\ consumer'[run.q].counter = run.counter
        /\ consumer'[run.q].view =
             IF run.counter = 0 THEN run.added
             ELSE Plus(Minus(consumer[run.q].view, run.removed), run.added)
        /\ \/ run.counter = 0
           \/ /\ consumer[run.q].gapless /\ consumer[run.q].epoch = epoch
              /\ run.counter = consumer[run.q].counter + 1
    BY <1>2, <1>4, <2>3, <2>4 DEF Received
  <2>6. CASE run.reset
    BY <2>2, <2>5, <2>6
  <2>7. CASE ~run.reset
    <3>1. integrity[run.q] # "silent" /\ run.counter # 0
      BY <1>1, <1>2, <1>4, <2>4, <2>7 DEF IInv, MarkInv
    <3>2. Plus(Minus(consumer[run.q].view, run.removed), run.added) = run.rows
      BY <1>1, <1>4, <2>5, <2>7, <3>1 DEF GapInv, Written, ItemCounter
    <3> QED
      BY <2>2, <2>5, <3>1, <3>2
  <2> QED
    BY <2>6, <2>7
<1>5. GapInv'
  BY <1>1, <1>4 DEF GapInv, Written
<1>6. ASSUME run.q \in Replayable, integrity'[run.q] # "silent"
      PROVE  /\ getPreviousEpoch(run.q) = saved[run.q].epoch
             /\ consumer'[run.q].epoch = saved[run.q].epoch
  <2>1. ~shutdown /\ run.q \in Diffed
    BY <1>1, <1>2, <1>6 DEF IInv, ShutdownInv
  <2>2. /\ saved[run.q].epoch = epoch /\ "epoch" \in keys[run.q]
        /\ run.reset => run.counter = 0
        /\ ~run.reset => ~hasNoResults(run)
    BY <1>1, <2>1 DEF IInv, RunInv, SavedInv
  <2>3. ~NothingToLog
    BY <1>6, <2>2 DEF NothingToLog, ReportedRemoved, hasNoResults
  <2> QED
    BY <1>2, <2>2, <2>3 DEF Received, getPreviousEpoch
<1>7. EpochInv'
  BY <1>1, <1>6 DEF EpochInv, Written, getPreviousEpoch
<1> QED
  BY <1>3, <1>5, <1>7

\* Every step of a launch, of purge and of a crash keeps the counters in step.
LEMMA GapStep ==
  ASSUME IInv, GapsInv, [Next]_vars
  PROVE  GapsInv'
<1>1. ASSUME NEW q \in Queries, NEW rows \in [Rows -> 0..MaxCopies], Launch(q, rows)
      PROVE  GapsInv'
  BY <1>1, GapLaunch
<1>2. ASSUME NEW q \in Queries, LaunchFails(q) PROVE GapsInv'
  BY <1>2, GapFrame DEF LaunchFails, observer
<1>3. CASE SaveResults
  BY <1>3, GapSaveResults
<1>4. CASE SaveEpoch \/ incrementCounter
  BY <1>4, GapSaves
<1>5. CASE WriteFails \/ LogFails \/ Crash
  BY <1>5, GapLost
<1>6. CASE LogItem
  BY <1>6, GapLogItem
<1>7. ASSUME NEW new \in SUBSET Queries, NEW e \in 0..MaxEpoch, UpdateConfig(new, e)
      PROVE  GapsInv'
  BY <1>7, GapFrame DEF UpdateConfig, database, observer
<1>10. CASE scanSavedQueries
  BY <1>10, GapFrame DEF scanSavedQueries, database, observer
<1>11. CASE purge
  <2>1. /\ pc = "idle" /\ UNCHANGED <<saved, pc, run, consumer, shutdown, epoch>>
        /\ \A q \in Queries :
             /\ keys'[q] = keys[q] \ Purged(q)
             /\ integrity'[q] = IF PartlyPurged(q) THEN "silent" ELSE integrity[q]
    BY <1>11 DEF purge
  <2>2. \A q \in Queries : "results" \in keys'[q] /\ integrity'[q] = "lost"
          => saved[q].epoch = 0 \/ ("epoch" \in keys[q] => "epoch" \in keys'[q])
    BY <2>1 DEF PartlyPurged
  <2> QED
    BY <2>1, <2>2, GapFrame
<1>8. CASE Restart
  BY <1>8, GapFrame DEF Restart, database, observer
<1>9. CASE Tick \/ UNCHANGED vars
  BY <1>9, GapFrame DEF Tick, vars, database, observer
<1> QED
  BY <1>1, <1>2, <1>3, <1>4, <1>5, <1>6, <1>7, <1>8, <1>9, <1>10, <1>11 DEF Next

\* A reader that saw every counter of the epoch up to the saved one has the saved
\* rows: an item that a crash or a failing logger lost after the counter was written
\* shows as a gap, for any number of launches, epochs, purges, crashes and failures.
THEOREM GapsTell == Spec => []LossShowsAsGap
<1>1. IInv /\ GapsInv => LossShowsAsGap
  BY DEF GapsInv, IInv, TypeOK, GapInv, LossShowsAsGap, Written
<1>2. IInv /\ GapsInv /\ [Next]_vars => GapsInv'
  BY GapStep
<1> QED
  BY <1>1, <1>2, InitInv, InvStep, GapInit, PTL DEF Spec

=============================================================================
