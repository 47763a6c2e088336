---------------------------- MODULE Distributed ----------------------------
(***************************************************************************)
(* Distributed queries: the loop of DistributedRunner::start               *)
(* (distributed_runner.cpp) and the Distributed class (distributed.cpp).   *)
(* Requests pulled from the server are stored in the database, popped one  *)
(* by one, executed under a persistent "running" mark and answered.        *)
(* Results wait in memory until a flush succeeds; a mark that survives a   *)
(* crash denylists its SQL for a while.                                    *)
(*                                                                         *)
(* The server is external: it offers requests it has no answer for.  The   *)
(* length of the pause (normal or accelerated) is left open: time may pass *)
(* at any step.                                                            *)
(***************************************************************************)
EXTENDS Integers

CONSTANTS
  Ids,       \* request ids
  Sqls,      \* query texts; the marks are keyed by their hash
  SqlOf,     \* the text of each request
  Duration,  \* FLAGS_distributed_denylist_duration
  MaxTime,    \* bound: clock
  MaxCrash,   \* bound: crashes
  MaxFailure  \* bound: failing database writes

ASSUME RequestsAssumption == Ids # {} /\ SqlOf \in [Ids -> Sqls]
ASSUME BoundsAssumption ==
  /\ Duration \in Nat /\ MaxTime \in Nat
  /\ MaxCrash \in Nat /\ MaxFailure \in Nat

VARIABLES
  pending,   \* kDistributedQueries: stored requests
  running,   \* kDistributedRunningQueries: SQL -> time of the mark, 0 if none
  queue,     \* runQueries' snapshot, what is left of it
  cur,       \* the request that was popped
  started,   \* when the current execution began
  results,   \* results_, by request id: the last one serialized wins
  pc,        \* where the runner is
  now,
  crashes, failures,
  answer,    \* the server's answers
  accepted,  \* history: requests that were ever stored
  lost,      \* history: requests a crash dropped after they were popped
  killed,    \* history: start of the last execution of the SQL that was killed
  unmarked,  \* history: SQL killed while it ran on an expired mark or on none
  left       \* history: SQL whose mark could not be deleted when it ended

vars == <<pending, running, queue, cur, started, results, pc, now, crashes,
          failures, answer, accepted, lost, killed, unmarked, left>>
agent   == <<pending, running, queue, cur, started, results>>
clock   == <<now, crashes, failures>>
history == <<accepted, lost, killed, unmarked, left>>

Outcomes == {"ok", "error", "denied"}
None == [id \in Ids |-> "none"]

Init ==
  /\ pending = {} /\ queue = {} /\ accepted = {} /\ lost = {}
  /\ unmarked = {} /\ left = {}
  /\ running = [s \in Sqls |-> 0]
  /\ killed = [s \in Sqls |-> 0]
  /\ cur = CHOOSE id \in Ids : TRUE
  /\ started = 0
  /\ results = None
  /\ answer = None
  /\ pc = "pull"
  /\ now = 1
  /\ crashes = 0 /\ failures = 0

Unanswered == {id \in Ids : answer[id] = "none"}
Completed  == {id \in Ids : results[id] # "none"}

\* A write of the database succeeds, or fails, which is logged and no more.
Write(ok) ==
  /\ ok \/ failures < MaxFailure
  /\ failures' = IF ok THEN failures ELSE failures + 1

-----------------------------------------------------------------------------
(* The loop of the runner *)

\* pullUpdates and acceptWork: of what the server offers, the requests without
\* discovery query or with one that returns rows are stored.  A malformed entry
\* or a failing pull stores only the ones before it, and a request whose write
\* fails is left out.
acceptWork(stored) ==
  /\ pc = "pull"
  /\ stored \subseteq Unanswered
  /\ pending' = pending \cup stored
  /\ pc' = "scan"
  /\ accepted' = accepted \cup stored
  /\ lost' = lost \ stored
  /\ UNCHANGED <<running, queue, cur, started, results, clock, answer, killed,
                 unmarked, left>>

\* Mutant: the requests are deleted as soon as they are listed.
getPendingQueriesAndDelete ==
  /\ pc = "scan"
  /\ queue' = pending
  /\ pending' = {}
  /\ pc' = "next"
  /\ UNCHANGED <<running, cur, started, results, clock, answer, history>>

getPendingQueries ==
  /\ pc = "scan"
  /\ queue' = pending
  /\ pc' = "next"
  /\ UNCHANGED <<pending, running, cur, started, results, clock, answer,
                 history>>

\* The request leaves the database before it is executed.  When it cannot be
\* deleted it is executed all the same, and again in the next round.
popRequest(id, deleted) ==
  /\ pc = "next" /\ id \in queue
  /\ Write(deleted)
  /\ queue' = queue \ {id}
  /\ pending' = IF deleted THEN pending \ {id} ELSE pending
  /\ cur' = id
  /\ pc' = "check"
  /\ UNCHANGED <<running, started, results, now, crashes, answer, history>>

\* Mutant: the duration is forgotten.
expiredAtOnce(ts) == now > ts

denylistedQueryTimestampExpired(ts) == now > ts + Duration

sql == SqlOf[cur]

\* checkAndSetAsRunning says the SQL is denylisted: that is the answer.
Denylisted ==
  /\ pc = "check"
  /\ running[sql] # 0 /\ ~denylistedQueryTimestampExpired(running[sql])
  /\ results' = [results EXCEPT ![cur] = "denied"]
  /\ pc' = "next"
  /\ UNCHANGED <<pending, running, queue, cur, started, clock, answer, history>>

\* checkAndSetAsRunning lets the SQL run.  It marks it, but an expired mark is
\* left as it is, and without the mark, when it cannot be written, the SQL runs
\* all the same.
Begin(marked) ==
  /\ pc = "check"
  /\ running[sql] = 0 \/ denylistedQueryTimestampExpired(running[sql])
  /\ marked \/ running[sql] = 0
  /\ Write(marked)
  /\ running' = [running EXCEPT ![sql] = IF @ = 0 /\ marked THEN now ELSE @]
  /\ started' = now
  /\ pc' = "execute"
  /\ UNCHANGED <<pending, queue, cur, results, now, crashes, answer, history>>

\* Mutant: a failing query keeps its mark.
FinishMarked(status, deleted) ==
  /\ pc = "execute"
  /\ Write(deleted)
  /\ running' = IF status = "ok" THEN [running EXCEPT ![sql] = 0] ELSE running
  /\ left' = IF deleted THEN left ELSE left \cup {sql}
  /\ results' = [results EXCEPT ![cur] = status]
  /\ pc' = "next"
  /\ UNCHANGED <<pending, queue, cur, started, now, crashes, answer, accepted,
                 lost, killed, unmarked>>

\* The SQL ends, with or without an error: setAsNotRunning, addResult.  A mark
\* that cannot be deleted stays.
Finish(status, deleted) ==
  /\ pc = "execute"
  /\ Write(deleted)
  /\ running' = IF deleted THEN [running EXCEPT ![sql] = 0] ELSE running
  /\ left' = IF deleted THEN left ELSE left \cup {sql}
  /\ results' = [results EXCEPT ![cur] = status]
  /\ pc' = "next"
  /\ UNCHANGED <<pending, queue, cur, started, now, crashes, answer, accepted,
                 lost, killed, unmarked>>

\* The server takes every result it has no answer for yet.
Deliver == answer' = [id \in Ids |-> IF answer[id] = "none" THEN results[id]
                                                            ELSE answer[id]]

\* flushCompleted with nothing to send, or whose results were taken.
flushCompleted ==
  /\ pc = "next" /\ queue = {}
  /\ Deliver
  /\ results' = None
  /\ pc' = "cleanup"
  /\ UNCHANGED <<pending, running, queue, cur, started, clock, history>>

\* Mutant: the results are cleared whether or not they were sent.
flushFailsAndClears(delivered) ==
  /\ pc = "next" /\ queue = {} /\ Completed # {}
  /\ IF delivered THEN Deliver ELSE UNCHANGED answer
  /\ results' = None
  /\ pc' = "cleanup"
  /\ UNCHANGED <<pending, running, queue, cur, started, clock, history>>

\* flushCompleted when the request or only its response is lost: the results
\* stay for the next round.
flushFails(delivered) ==
  /\ pc = "next" /\ queue = {} /\ Completed # {}
  /\ IF delivered THEN Deliver ELSE UNCHANGED answer
  /\ pc' = "cleanup"
  /\ UNCHANGED <<agent, clock, history>>

Expired ==
  {s \in Sqls : running[s] # 0 /\ denylistedQueryTimestampExpired(running[s])}

\* Expired marks are deleted; one that cannot be is seen again in the next round.
cleanupExpiredRunningQueries(kept) ==
  /\ pc = "cleanup"
  /\ kept \subseteq Expired
  /\ Write(kept = {})
  /\ running' = [s \in Sqls |-> IF s \in Expired \ kept THEN 0 ELSE running[s]]
  /\ pc' = "pause"
  /\ UNCHANGED <<pending, queue, cur, started, results, now, crashes, answer,
                 history>>

pause ==
  /\ pc = "pause"
  /\ pc' = "pull"
  /\ UNCHANGED <<agent, clock, answer, history>>

-----------------------------------------------------------------------------
(* The process and its environment *)

\* The process dies or is stopped: the database stays, the memory does not.
\* Stopping the service between two rounds has the same effect.
Crash ==
  /\ crashes < MaxCrash
  /\ crashes' = crashes + 1
  /\ pc' = "pull"
  /\ queue' = {}
  /\ results' = None
  /\ lost' = lost \cup
       ((Completed \cup (IF pc \in {"check", "execute"} THEN {cur} ELSE {}))
          \ pending)
  /\ IF pc = "execute"
       THEN /\ killed' = [killed EXCEPT ![sql] = started]
            /\ unmarked' = IF running[sql] = started THEN unmarked \ {sql}
                                                     ELSE unmarked \cup {sql}
       ELSE UNCHANGED <<killed, unmarked>>
  /\ UNCHANGED <<pending, running, cur, started, now, failures, answer, accepted,
                 left>>

Tick ==
  /\ now < MaxTime
  /\ now' = now + 1
  /\ UNCHANGED <<agent, pc, crashes, failures, answer, history>>

Step ==
  \/ \E stored \in SUBSET Ids : acceptWork(stored)
  \/ getPendingQueries
  \/ \E id \in Ids, deleted \in BOOLEAN : popRequest(id, deleted)
  \/ Denylisted
  \/ \E marked \in BOOLEAN : Begin(marked)
  \/ \E status \in {"ok", "error"}, deleted \in BOOLEAN : Finish(status, deleted)
  \/ flushCompleted
  \/ \E delivered \in BOOLEAN : flushFails(delivered)
  \/ \E kept \in SUBSET Sqls : cleanupExpiredRunningQueries(kept)
  \/ pause

Next == Step \/ Crash \/ Tick

Spec == Init /\ [][Next]_vars

\* The runner's thread keeps being scheduled, every query ends, and the server
\* is reachable again and again.
Fairness == WF_vars(Step) /\ SF_vars(flushCompleted)

FairSpec == Spec /\ Fairness

-----------------------------------------------------------------------------
(* Properties *)

\* Every variable stays in its set, and no mark is from the future.
TypeOK ==
  /\ pending \subseteq Ids /\ queue \subseteq Ids /\ cur \in Ids
  /\ accepted \subseteq Ids /\ lost \subseteq Ids
  /\ now \in Nat /\ crashes \in Nat /\ failures \in Nat /\ started \in Nat
  /\ running \in [Sqls -> 0..now]
  /\ killed \in [Sqls -> 0..now]
  /\ unmarked \subseteq Sqls /\ left \subseteq Sqls
  /\ results \in [Ids -> Outcomes \cup {"none"}]
  /\ answer \in [Ids -> Outcomes \cup {"none"}]
  /\ pc \in {"pull", "scan", "next", "check", "execute", "cleanup", "pause"}

\* A stored request is in the database, being executed, waiting to be sent, or
\* answered, whatever writes fail; only a crash after popRequest can drop it, and
\* one before cannot.
NoRequestForgotten ==
  accepted \subseteq
    pending \cup Completed \cup lost \cup (Ids \ Unanswered)
      \cup (IF pc \in {"check", "execute"} THEN {cur} ELSE {})

\* A request is only refused as denylisted when an execution of its SQL was
\* killed or its mark could not be deleted: queries that end, even with an error,
\* leave no mark behind otherwise, and neither do other requests with the same
\* SQL.
DeniedOnlyAfterKill ==
  \A id \in Ids : "denied" \in {results[id], answer[id]}
    => killed[SqlOf[id]] # 0 \/ SqlOf[id] \in left

Executing(s) == pc = "execute" /\ sql = s

\* An SQL text whose marked execution was killed is not executed again before
\* the denylist duration has passed since that execution began, although its
\* mark is shared with requests of the same text and may outlive them.
KilledIsNotReexecuted ==
  \A s \in Sqls : Executing(s) /\ killed[s] # 0 /\ s \notin unmarked
                    => started > killed[s] + Duration

\* Every stored request is answered unless a crash drops it: results survive any
\* number of failed flushes.
AcceptedIsAnswered ==
  \A id \in Ids : id \in pending ~> (answer[id] # "none" \/ id \in lost)
=============================================================================
