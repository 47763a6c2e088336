---------------------------- MODULE BufferedLog ----------------------------
(***************************************************************************)
(* BufferedLogForwarder (plugins/logger/buffered.cpp): log lines are kept  *)
(* in the database until the remote logger has taken them.  Threads that   *)
(* log add lines; one forwarder thread scans a batch, sends results and    *)
(* statuses, deletes what was taken, purges above buffered_log_max and     *)
(* pauses, with a backoff for each of the two kinds.                       *)
(*                                                                         *)
(* A line is its key, the kind ("r" or "s"), the time and the index, with  *)
(* an identity that tells apart two lines written to the same key.  Keys   *)
(* sort by kind, then time, then the decimal text of the index.            *)
(***************************************************************************)
EXTENDS Integers, Sequences, FiniteSets, FiniteSetsExt

CONSTANTS
  LogMax,      \* FLAGS_buffered_log_max, 0: unlimited
  MaxLines,    \* max_log_lines_
  LogPeriod,   \* log_period_
  MaxBackoff,  \* max_backoff_period_
  FirstIndex,  \* values of log_index_ after the lines forwarded so far
  MaxWrites,   \* bound: lines logged
  MaxTime,     \* bound: clock
  MaxCrash     \* bound: crashes

ASSUME FlagsAssumption == /\ LogMax \in Nat /\ MaxLines \in Nat \ {0}
                          /\ LogPeriod \in Nat \ {0} /\ MaxBackoff \in Nat
ASSUME BoundsAssumption == /\ FirstIndex \subseteq Nat /\ MaxWrites \in Nat
                           /\ MaxTime \in Nat /\ MaxCrash \in Nat

VARIABLES
  db,        \* kLogs: the buffered lines
  logIndex,  \* log_index_
  drawn,     \* keys that threads have generated and not written yet
  count,     \* buffer_count_
  uncounted, \* lines stored whose thread has not incremented the count yet
  pc,        \* where the forwarder is
  batch,     \* check: the indexes it scanned
  doomed,    \* the keys it still has to delete
  backoff,   \* results_backoff_ and statuses_backoff_
  period,    \* results_backoff_period_ and statuses_backoff_period_
  now,
  crashes,
  writes,    \* lines logged so far
  taken,     \* the remote logger's lines
  purged,    \* history: lines purged above the limit
  reused     \* history: lines lost because another line had the same key

forwarder == <<pc, batch, doomed, backoff, period>>
clock     == <<now, crashes>>
vars == <<db, logIndex, drawn, count, uncounted, forwarder, clock, writes, taken, purged,
          reused>>

Kinds == {"r", "s"}
Key  == [kind : Kinds, time : Nat, idx : Nat]
Line == [kind : Kinds, time : Nat, idx : Nat, uid : Nat]

SameKey(a, b) == a.kind = b.kind /\ a.time = b.time /\ a.idx = b.idx

Init ==
  /\ db = {} /\ drawn = {} /\ batch = {} /\ doomed = {}
  /\ taken = {} /\ purged = {} /\ reused = {}
  /\ logIndex \in FirstIndex
  /\ count = 0 /\ uncounted = 0 /\ writes = 0
  /\ pc = "scan"
  /\ backoff = [k \in Kinds |-> 0]
  /\ period = [k \in Kinds |-> 0]
  /\ now = 1
  /\ crashes = 0

-----------------------------------------------------------------------------
(* Keys *)

\* The decimal text of a number below 100.
Digits(n) == IF n < 10 THEN <<n>> ELSE <<n \div 10, n % 10>>

TextBefore(a, b) ==
  LET x == Digits(a)  y == Digits(b)
      d == {i \in 1..Min({Len(x), Len(y)}) : x[i] # y[i]}
  IN  IF d = {} THEN Len(x) < Len(y) ELSE x[Min(d)] < y[Min(d)]

\* The order without the prefix, as purge compares.
Older(a, b) == \/ a.time < b.time
               \/ a.time = b.time /\ TextBefore(a.idx, b.idx)

\* The order of the database.
KeyBefore(a, b) == \/ a.kind = "r" /\ b.kind = "s"
                   \/ a.kind = b.kind /\ Older(a, b)

\* scanDatabaseKeys: the first n keys of a set of lines.
scanDatabaseKeys(L, n) == {a \in L : Cardinality({b \in L : KeyBefore(b, a)}) < n}

-----------------------------------------------------------------------------
(* The threads that log *)

\* logString, or a line of logStatus, up to genIndex.  The line's time may be a moment
\* old.
genIndex(kind, time) ==
  /\ writes + Cardinality(drawn) < MaxWrites
  /\ logIndex' = logIndex + 1
  /\ drawn' = drawn \cup {[kind |-> kind, time |-> time, idx |-> logIndex + 1]}
  /\ UNCHANGED <<db, count, uncounted, forwarder, clock, writes, taken, purged, reused>>

\* addValueWithCount up to the write: a line that has the key already is displaced.
addValue(k) ==
  LET l == [kind |-> k.kind, time |-> k.time, idx |-> k.idx, uid |-> writes]
      o == {m \in db : SameKey(m, l)}
  IN  /\ drawn' = drawn \ {k}
      /\ writes' = writes + 1
      /\ db' = (db \ o) \cup {l}
      /\ uncounted' = uncounted + 1
      /\ reused' = reused \cup o
      /\ UNCHANGED <<logIndex, count, forwarder, clock, taken, purged>>

\* The end of addValueWithCount; purge holds count_mutex_ until it has deleted.
countLine ==
  /\ uncounted > 0 /\ pc # "purging"
  /\ count' = count + 1
  /\ uncounted' = uncounted - 1
  /\ UNCHANGED <<db, logIndex, drawn, forwarder, clock, writes, taken, purged, reused>>

-----------------------------------------------------------------------------
(* The forwarder: check *)

Of(kind, L) == {l \in L : l.kind = kind}

scan ==
  /\ pc = "scan"
  /\ batch' = scanDatabaseKeys(db, MaxLines)
  /\ pc' = "r"
  /\ UNCHANGED <<db, logIndex, drawn, count, uncounted, doomed, backoff, period, clock,
                 writes, taken, purged, reused>>

\* After the results come the statuses, after them the purge.
After(kind) == IF kind = "r" THEN "s" ELSE "purge"
Deleting(kind) == IF kind = "r" THEN "del_r" ELSE "del_s"

Sending(kind) == pc = kind /\ period[kind] <= 0 /\ Of(kind, batch) # {}

\* Nothing to send, or the kind is in backoff.
skip(kind) ==
  /\ pc = kind /\ ~Sending(kind)
  /\ pc' = After(kind)
  /\ UNCHANGED <<db, logIndex, drawn, count, uncounted, batch, doomed, backoff, period,
                 clock, writes, taken, purged, reused>>

send(kind) ==
  /\ Sending(kind)
  /\ taken' = taken \cup Of(kind, batch)
  /\ doomed' = Of(kind, batch)
  /\ pc' = Deleting(kind)
  /\ UNCHANGED <<db, logIndex, drawn, count, uncounted, batch, backoff, period, clock,
                 writes, purged, reused>>

\* The next backoff counter and period.
backedOff(n) ==
  LET p == LogPeriod * (n + 1) * (n + 1)
  IN  IF p > MaxBackoff THEN [n |-> n, p |-> MaxBackoff] ELSE [n |-> n + 1, p |-> p]

\* Mutant: what was sent is cleared although the send failed.
sendFailsAndClears(kind, received) ==
  /\ Sending(kind)
  /\ taken' = IF received THEN taken \cup Of(kind, batch) ELSE taken
  /\ doomed' = Of(kind, batch)
  /\ pc' = Deleting(kind)
  /\ UNCHANGED <<db, logIndex, drawn, count, uncounted, batch, backoff, period, clock,
                 writes, purged, reused>>

\* The send fails; with received, only its answer was lost.  A forwarder that is
\* interrupted by then returns instead and ends, which is a Restart here.
sendFails(kind, received) ==
  /\ Sending(kind)
  /\ taken' = IF received THEN taken \cup Of(kind, batch) ELSE taken
  /\ IF MaxBackoff > 0
       THEN /\ backoff' = [backoff EXCEPT ![kind] = backedOff(@).n]
            /\ period' = [period EXCEPT ![kind] = backedOff(backoff[kind]).p]
       ELSE UNCHANGED <<backoff, period>>
  /\ pc' = After(kind)
  /\ UNCHANGED <<db, logIndex, drawn, count, uncounted, batch, doomed, clock, writes,
                 purged, reused>>

\* deleteValueWithCount of one key, whatever line is stored there now.
Deleted(l) ==
  LET stored == {m \in db : SameKey(m, l)}
  IN  /\ db' = db \ stored
      /\ count' = IF count > 0 THEN count - 1 ELSE 0
      /\ doomed' = doomed \ {l}
      /\ reused' = reused \cup (stored \ {l})

deleteSent(kind) ==
  /\ pc = Deleting(kind)
  /\ \E l \in doomed : Deleted(l)
  /\ UNCHANGED <<logIndex, drawn, uncounted, pc, batch, backoff, period, clock, writes, taken,
                 purged>>

\* The keys are gone: the kind's backoff starts over.
deletedSent(kind) ==
  /\ pc = Deleting(kind) /\ doomed = {}
  /\ pc' = After(kind)
  /\ backoff' = [backoff EXCEPT ![kind] = 0]
  /\ period' = [period EXCEPT ![kind] = 0]
  /\ UNCHANGED <<db, logIndex, drawn, count, uncounted, batch, doomed, clock, writes, taken,
                 purged, reused>>

-----------------------------------------------------------------------------
(* The forwarder: purge *)

\* Mutant: only the results are scanned.
oldestResults(n) == {scanDatabaseKeys(Of("r", db), n)}

\* nth_element on the first n results and the first n statuses: n of them such that
\* no other one is older.
oldest(n) ==
  LET found == UNION {scanDatabaseKeys(Of(k, db), n) : k \in Kinds}
  IN  {L \in kSubset(n, found) : \A l \in L, m \in found \ L : ~Older(m, l)}

\* When the count is above the limit by more lines than there are, nothing happens.
purge ==
  LET n == count - LogMax
  IN  /\ pc = "purge"
      /\ IF LogMax > 0 /\ n > 0 /\ Cardinality(db) >= n
           THEN doomed' \in oldest(n) /\ pc' = "purging"
           ELSE pc' = "pause" /\ UNCHANGED doomed
      /\ UNCHANGED <<db, logIndex, drawn, count, uncounted, batch, backoff, period, clock,
                     writes, taken, purged, reused>>

purgeLine ==
  /\ pc = "purging"
  /\ \E l \in doomed : Deleted(l) /\ purged' = purged \cup {l}
  /\ UNCHANGED <<logIndex, drawn, uncounted, pc, batch, backoff, period, clock, writes,
                 taken>>

purgeEnds ==
  /\ pc = "purging" /\ doomed = {}
  /\ pc' = "pause"
  /\ UNCHANGED <<db, logIndex, drawn, count, uncounted, batch, doomed, backoff, period, clock,
                 writes, taken, purged, reused>>
-----------------------------------------------------------------------------
(* The forwarder: the loop of start *)

\* Mutant: the periods are not reduced.
backoffTickNever == UNCHANGED <<period, backoff>>

backoffTick ==
  IF MaxBackoff <= LogPeriod
    THEN /\ period' = [k \in Kinds |-> 0]
         /\ backoff' = [k \in Kinds |-> 0]
    ELSE /\ period' = [k \in Kinds |-> IF period[k] > 0 THEN period[k] - LogPeriod
                                                       ELSE period[k]]
         /\ UNCHANGED backoff

\* One pause; the next check comes once one of the kinds may be sent.
pause ==
  /\ pc = "pause"
  /\ backoffTick
  /\ pc' = IF \A k \in Kinds : period'[k] > 0 THEN "pause" ELSE "scan"
  /\ UNCHANGED <<db, logIndex, drawn, count, uncounted, batch, doomed, clock, writes, taken,
                 purged, reused>>

-----------------------------------------------------------------------------
(* The process and its environment *)

\* Mutant: the count starts at zero.
setUpWithoutCount == count' = 0

setUp == count' = Cardinality(db)

\* The process ends, at any step, and starts again: log_index_ starts over.
Restart ==
  /\ crashes < MaxCrash
  /\ crashes' = crashes + 1
  /\ setUp
  /\ logIndex' = 0 /\ drawn' = {}
  /\ uncounted' = 0
  /\ pc' = "scan"
  /\ batch' = {} /\ doomed' = {}
  /\ backoff' = [k \in Kinds |-> 0]
  /\ period' = [k \in Kinds |-> 0]
  /\ UNCHANGED <<db, now, writes, taken, purged, reused>>

Tick ==
  /\ now < MaxTime
  /\ now' = now + 1
  /\ UNCHANGED <<db, logIndex, drawn, count, uncounted, forwarder, crashes, writes, taken,
                 purged, reused>>

Forward ==
  \/ scan
  \/ \E kind \in Kinds : skip(kind)
  \/ \E kind \in Kinds : send(kind)
  \/ \E kind \in Kinds, received \in BOOLEAN : sendFails(kind, received)
  \/ \E kind \in Kinds : deleteSent(kind)
  \/ \E kind \in Kinds : deletedSent(kind)
  \/ purge
  \/ purgeLine
  \/ purgeEnds
  \/ pause

Log ==
  \/ \E kind \in Kinds : \E time \in {now - 1, now} : genIndex(kind, time)
  \/ \E k \in drawn : addValue(k)
  \/ countLine

Next == Forward \/ Log \/ Restart \/ Tick

Spec == Init /\ [][Next]_vars

\* The forwarder's thread keeps running, and the remote logger takes lines of each
\* kind again and again.
Fairness == WF_vars(Forward) /\ \A kind \in Kinds : SF_vars(send(kind))

FairSpec == Spec /\ Fairness

-----------------------------------------------------------------------------
(* Properties *)

\* Every variable stays in its set; no two stored lines have the same key; a
\* backoff period never exceeds max_backoff_period_, and a counter stops growing
\* with its period, however many sends fail.
TypeOK ==
  /\ db \subseteq Line /\ batch \subseteq Line /\ doomed \subseteq Line
  /\ \A l, m \in db : SameKey(l, m) => l = m
  /\ drawn \subseteq Key
  /\ logIndex \in Nat /\ count \in Nat /\ uncounted \in Nat
  /\ writes \in Nat /\ now \in Nat \ {0} /\ crashes \in Nat
  /\ pc \in {"scan", "r", "del_r", "s", "del_s", "purge", "purging", "pause"}
  /\ period \in [Kinds -> Int] /\ backoff \in [Kinds -> Nat]
  /\ \A k \in Kinds : /\ period[k] <= MaxBackoff
                      /\ LogPeriod * backoff[k] * backoff[k] <= MaxBackoff
  /\ taken \subseteq Line /\ purged \subseteq Line /\ reused \subseteq Line

\* A line that has left the buffer was taken by the remote logger or purged, or
\* another line had its key; failed sends, lost answers and restarts in the middle of
\* a deletion drop nothing.
NothingDropped ==
  \A u \in 0..writes - 1 :
    \E l \in db \cup taken \cup purged \cup reused : l.uid = u

\* The buffer keeps the promise of a log buffer: no step of the logging threads, the
\* forwarder or a restart takes a line away that was neither taken nor accounted for,
\* and the remote logger gets only lines that were logged.
Promise == INSTANCE Delivery WITH kept <- db, dropped <- purged \cup reused

KeepsPromise == Promise!Spec

\* The count never falls behind the buffer, so that purge leaves no more than
\* buffered_log_max lines and those whose thread is still counting.
CountCoversBuffer == Cardinality(db) <= count + uncounted

\* Purge picks lines with the oldest timestamps, of both kinds.
PurgesOldest ==
  [][pc = "purge" => \A l \in doomed' : \A m \in db \ doomed' : l.time <= m.time]_vars

\* Every line is taken by the remote logger in the end, unless it is purged or another
\* line has its key.  Backoffs and results that fill the scanned batch delay a status
\* line, but not for ever once the lines that are logged come to an end: results that
\* keep coming at max_log_lines_ in a period do keep it waiting.
LineIsTaken ==
  \A u \in 0..MaxWrites - 1 :
    writes > u ~> \E l \in taken \cup purged \cup reused : l.uid = u
=============================================================================
