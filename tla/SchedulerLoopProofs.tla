------------------------- MODULE SchedulerLoopProofs -------------------------
(***************************************************************************)
(* Proofs about SchedulerLoop, for any carves, blocks, relay threads,      *)
(* lines, periods and crashes.  The carver and the relay share nothing but *)
(* the database's lock: each has an invariant over its own variables.      *)
(***************************************************************************)
EXTENDS SchedulerLoop, SequenceTheorems, TLAPS

-----------------------------------------------------------------------------
(* The carver *)

AtCarve == {"create", "archive", "start", "blocks"}

Runners == [pc : {"idle", "scan", "next", "end"} \cup AtCarve,
            todo : SUBSET Carves, at : Carves \cup {NoCarve}, block : 0..Blocks+1]

\* The blocks of a carve that were posted, with success or without.
Posted(c) == accepted[c] \cup skipped[c]

\* A carve has no session before the runner's request for one: not while it is
\* asked for, not while it is scheduled, nor while its files are collected.  The
\* carve a runner is at is no longer scheduled, and a crash does not schedule it
\* again.  No block is posted without a session, and the runner has posted the
\* blocks before the one it is at.
CarverInv ==
  /\ CarverTypeOK
  /\ CarvedOnce
  /\ \A c \in Carves : status[c] = "SCHEDULED" => sessions[c] = 0
  /\ asking # NoCarve => asking \in asked
  /\ \A c \in Carves : c \notin asked \/ c = asking => status[c] = "none" /\ sessions[c] = 0
  /\ runner.pc \in AtCarve => /\ runner.at \in Carves
                              /\ status[runner.at] \in {"STARTING", "PENDING"}
                              /\ sessions[runner.at] = IF runner.pc = "blocks" THEN 1 ELSE 0
  /\ \A c \in Carves : sessions[c] = 0 => Posted(c) = {}
  /\ runner.pc = "blocks" => /\ runner.block \in 1..Blocks+1
                            /\ Posted(runner.at) = 1..runner.block-1

-----------------------------------------------------------------------------
(* The relay *)

Increasing(s) == \A i, j \in DOMAIN s : i < j => s[i] < s[j]

Before(s, u) == \A i \in DOMAIN s, j \in DOMAIN u : s[i] < u[j]

\* Only the thread of the future is at work, and only one that calls the plugins
\* has lines.  What is relayed, that thread's batch and the buffer are, in this
\* order, increasing parts of the lines that have been logged.
RelayInv ==
  /\ RelayTypeOK
  /\ \A t \in Relays : relay[t].pc # "none" => t = future
  /\ \A t \in Relays : relay[t].pc # "call" => relay[t].lines = <<>>
  /\ Increasing(relayed) /\ Increasing(logs) /\ Before(relayed, logs)
  /\ \A t \in Relays : /\ Increasing(relay[t].lines)
                       /\ Before(relayed, relay[t].lines)
                       /\ Before(relay[t].lines, logs)
  /\ \A i \in DOMAIN logs : logs[i] <= lines
  /\ \A i \in DOMAIN relayed : relayed[i] <= lines
  /\ \A t \in Relays : \A i \in DOMAIN relay[t].lines : relay[t].lines[i] <= lines
  /\ \A l \in lost : l <= lines

-----------------------------------------------------------------------------
(* The scheduler's thread *)

LoopInv ==
  /\ pc \in Places /\ step \in 0..Cycle-1 /\ stopping \in BOOLEAN
  /\ crashes \in 0..MaxCrash
  /\ resetting \in BOOLEAN /\ (resetting <=> pc \in {"resetLogged", "resets"})

Inv == LoopInv /\ CarverInv /\ RelayInv

-----------------------------------------------------------------------------
(* Steps of the carver *)

\* What the type invariant says of each variable, the runner's places gathered.
LEMMA CarverTypes ==
  ASSUME CarverTypeOK
  PROVE  /\ pending \in BOOLEAN /\ running \in BOOLEAN
         /\ status \in [Carves -> Statuses] /\ sessions \in [Carves -> Nat]
         /\ runner \in Runners
         /\ asking \in Carves \cup {NoCarve} /\ asked \subseteq Carves
         /\ accepted \in [Carves -> SUBSET (1..Blocks)]
         /\ skipped \in [Carves -> SUBSET (1..Blocks)]
  BY DEF CarverTypeOK, Runners, AtCarve

\* A runner that waits at no carve.
LEMMA NoRunnerType == NoRunner \in Runners /\ [NoRunner EXCEPT !.pc = "scan"] \in Runners
  <1>1. 0 \in 0..Blocks+1
    BY BlocksAssumption
  <1> HIDE DEF AtCarve
  <1> QED BY <1>1 DEF NoRunner, Runners

\* The database is empty and no runner is at work.
LEMMA CarverStart == CarverInit => CarverInv
  <1> SUFFICES ASSUME CarverInit PROVE CarverInv OBVIOUS
  <1>1. status \in [Carves -> Statuses] /\ sessions \in [Carves -> Nat]
    BY DEF CarverInit, Statuses
  <1>2. runner \in Runners /\ runner.pc = "idle"
    BY NoRunnerType DEF CarverInit, NoRunner
  <1>3. CarverTypeOK
    BY <1>1, <1>2 DEF CarverInit, CarverTypeOK, Runners, AtCarve
  <1> QED BY <1>2, <1>3 DEF CarverInit, CarverInv, CarvedOnce, Posted, AtCarve

\* A step that leaves the statuses and the uploads alone.
LEMMA RunnerMoves ==
  ASSUME CarverInv, UNCHANGED <<status, uploads, request>>,
         pending' \in BOOLEAN, running' \in BOOLEAN, runner' \in Runners,
         \/ runner'.pc \notin AtCarve
         \/ /\ runner.pc \in AtCarve \ {"blocks"} /\ runner'.pc # "blocks"
            /\ runner'.at = runner.at
  PROVE  CarverInv'
  <1>1. CarverTypeOK'
    BY CarverTypes DEF CarverInv, CarverTypeOK, Runners, AtCarve, request, uploads
  <1> QED BY <1>1 DEF CarverInv, CarvedOnce, Posted, AtCarve, request, uploads

\* The carve that the runner is at, or is about to be at, gets a status.
LEMMA StatusMoves ==
  ASSUME CarverInv, NEW c \in Carves, NEW value \in Statuses \ {"SCHEDULED"},
         UNCHANGED <<pending, running, uploads, request>>,
         status' = [status EXCEPT ![c] = value],
         status[c] # "none",
         value = "SUCCESS" => sessions[c] = 1 /\ Posted(c) = 1..Blocks,
         runner' \in Runners,
         \/ runner'.pc \notin AtCarve
         \/ /\ runner'.pc \in AtCarve \ {"blocks"} /\ runner'.at = c /\ sessions[c] = 0
            /\ value \in {"STARTING", "PENDING"}
  PROVE  CarverInv'
  <1>0. status \in [Carves -> Statuses] /\ sessions \in [Carves -> Nat]
    BY CarverTypes DEF CarverInv
  <1>1. status' \in [Carves -> Statuses] /\ status'[c] = value
        /\ \A d \in Carves \ {c} : status'[d] = status[d]
    BY <1>0
  <1>2. CarverTypeOK'
    BY <1>1, CarverTypes DEF CarverInv, CarverTypeOK, Runners, AtCarve, request, uploads
  <1>3. CarvedOnce'
    BY <1>1 DEF CarverInv, CarvedOnce, Posted, uploads
  <1>4. \A d \in Carves : d \notin asked \/ d = asking => d # c
    BY DEF CarverInv
  <1> QED BY <1>1, <1>2, <1>3, <1>4 DEF CarverInv, Posted, AtCarve, request, uploads

\* The runner's own steps.
LEMMA RunnerKeeps == CarverInv /\ RunnerNext => CarverInv'
  <1> SUFFICES ASSUME CarverInv, RunnerNext PROVE CarverInv' OBVIOUS
  <1>t. /\ runner \in Runners /\ status \in [Carves -> Statuses]
        /\ sessions \in [Carves -> Nat] /\ pending \in BOOLEAN /\ running \in BOOLEAN
    BY CarverTypes DEF CarverInv
  <1>b. 0 \in 0..Blocks+1 /\ 1 \in 0..Blocks+1
    BY BlocksAssumption
  <1>n. [runner EXCEPT !.pc = "next", !.at = NoCarve, !.block = 0] \in Runners
    <2> HIDE DEF AtCarve
    <2> QED BY <1>t, <1>b DEF Runners
  <1>e. ASSUME NEW value \in {"FAILED", "SUCCESS"}, ends(value), runner.pc \in AtCarve,
               value = "SUCCESS" => runner.pc = "blocks" /\ runner.block > Blocks,
               UNCHANGED <<pending, running, request, uploads>>
        PROVE  CarverInv'
    <2>1. /\ runner.at \in Carves /\ status[runner.at] # "none"
          /\ value = "SUCCESS" => sessions[runner.at] = 1
      BY <1>e DEF CarverInv
    <2>4. value = "SUCCESS" => Posted(runner.at) = 1..Blocks
      <3> SUFFICES ASSUME value = "SUCCESS" PROVE Posted(runner.at) = 1..Blocks OBVIOUS
      <3>1. runner.block \in 1..Blocks+1 /\ Posted(runner.at) = 1..runner.block-1
        BY <1>e DEF CarverInv
      <3>2. runner.block - 1 = Blocks
        BY <1>e, <3>1, BlocksAssumption
      <3> QED BY <3>1, <3>2
    <2>2. runner' \in Runners /\ runner'.pc \notin AtCarve
      BY <1>e, <1>n, <1>t DEF ends, Runners, AtCarve
    <2>3. value \in Statuses \ {"SCHEDULED"}
      BY DEF Statuses
    <2> QED BY <1>e, <2>1, <2>2, <2>3, <2>4, StatusMoves DEF ends
  <1>1. CASE scan
    <2>1. runner' \in Runners /\ runner'.pc \notin AtCarve
      BY <1>1, <1>t DEF scan, Runners, AtCarve
    <2> QED BY <1>1, <1>t, <2>1, RunnerMoves DEF scan
  <1>2. ASSUME NEW c \in Carves, NEW expired \in BOOLEAN, visit(c, expired)
        PROVE  CarverInv'
    <2>1. CASE status[c] = "SCHEDULED"
      <3>1. status' = [status EXCEPT ![c] = "STARTING"] /\ sessions[c] = 0
            /\ runner' = [runner EXCEPT !.pc = "create", !.todo = @ \ {c}, !.at = c]
        BY <1>2, <2>1 DEF visit, carvable, CarverInv
      <3>2. runner' \in Runners /\ runner'.pc = "create" /\ runner'.at = c
        BY <3>1, <1>t DEF Runners, AtCarve
      <3>3. "STARTING" \in Statuses \ {"SCHEDULED"} /\ "create" \in AtCarve \ {"blocks"}
        BY DEF Statuses, AtCarve
      <3>4. UNCHANGED <<pending, running, request, uploads>>
        BY <1>2 DEF visit
      <3> QED BY <2>1, <3>1, <3>2, <3>3, <3>4, StatusMoves
    <2>2. CASE status[c] # "SCHEDULED"
      <3>1. /\ runner' = [runner EXCEPT !.todo = @ \ {c}] /\ Runner("next")
            /\ status' = IF expired THEN [status EXCEPT ![c] = "none"] ELSE status
            /\ expired => status[c] = "SUCCESS"
            /\ UNCHANGED <<pending, running, request, uploads>>
        BY <1>2, <2>2 DEF visit, carvable
      <3>2. runner' \in Runners /\ runner'.pc \notin AtCarve
        BY <3>1, <1>t DEF Runners, AtCarve, Runner
      <3>3. "none" \in Statuses \ {"SCHEDULED"}
        BY DEF Statuses
      <3>4. CASE expired
        BY <3>1, <3>2, <3>3, <3>4, StatusMoves
      <3>5. CASE ~expired
        BY <3>1, <3>2, <3>5, <1>t, RunnerMoves
      <3> QED BY <3>4, <3>5
    <2> QED BY <2>1, <2>2
  <1>3. ASSUME NEW ok \in BOOLEAN, createPaths(ok)
        PROVE  CarverInv'
    <2>1. CASE ok
      <3>1. /\ status' = [status EXCEPT ![runner.at] = "PENDING"]
            /\ runner' = [runner EXCEPT !.pc = "archive"] /\ runner.pc = "create"
            /\ UNCHANGED <<pending, running, request, uploads>>
        BY <1>3, <2>1 DEF createPaths, Runner
      <3>2. runner' \in Runners /\ runner'.pc = "archive" /\ runner'.at = runner.at
        BY <3>1, <1>t DEF Runners, AtCarve
      <3>3. runner.at \in Carves /\ status[runner.at] # "none" /\ sessions[runner.at] = 0
        BY <3>1 DEF CarverInv, AtCarve
      <3>4. "PENDING" \in Statuses \ {"SCHEDULED"} /\ "archive" \in AtCarve \ {"blocks"}
        BY DEF Statuses, AtCarve
      <3> QED BY <3>1, <3>2, <3>3, <3>4, StatusMoves
    <2>2. CASE ~ok
      BY <1>3, <2>2, <1>e DEF createPaths, Runner, AtCarve
    <2> QED BY <2>1, <2>2
  <1>4. ASSUME NEW ok \in BOOLEAN, archive(ok)
        PROVE  CarverInv'
    <2>1. CASE ok
      <3>1. /\ runner' = [runner EXCEPT !.pc = "start"] /\ runner.pc = "archive"
            /\ UNCHANGED <<pending, running, status, request, uploads>>
        BY <1>4, <2>1 DEF archive, Runner
      <3>2. /\ runner' \in Runners /\ runner'.at = runner.at
            /\ runner'.pc # "blocks"
        BY <3>1, <1>t DEF Runners, AtCarve
      <3>3. runner.pc \in AtCarve \ {"blocks"}
        BY <3>1 DEF AtCarve
      <3> QED BY <3>1, <3>2, <3>3, <1>t, RunnerMoves
    <2>2. CASE ~ok
      BY <1>4, <2>2, <1>e DEF archive, Runner, AtCarve
    <2> QED BY <2>1, <2>2
  <1>5. ASSUME NEW arrives \in BOOLEAN, NEW ok \in BOOLEAN, startRequest(arrives, ok)
        PROVE  CarverInv'
    <2> DEFINE c == runner.at
    <2>1. /\ runner.pc = "start" /\ c \in Carves /\ sessions[c] = 0
          /\ status[c] \in {"STARTING", "PENDING"} /\ c # asking /\ c \in asked
          /\ UNCHANGED <<pending, running, request, accepted, skipped>>
          /\ Posted(c) = {}
      BY <1>5 DEF startRequest, Runner, CarverInv, AtCarve
    <2>2. /\ sessions' \in [Carves -> Nat]
          /\ \A d \in Carves \ {c} : sessions'[d] = sessions[d]
          /\ sessions'[c] = IF arrives THEN 1 ELSE 0
      BY <1>5, <1>t, <2>1 DEF startRequest
    <2>3. CASE ok
      <3>1. /\ runner' = [runner EXCEPT !.pc = "blocks", !.block = 1]
            /\ status' = status /\ arrives
        BY <1>5, <2>3 DEF startRequest
      <3>2. runner' \in Runners /\ runner'.pc = "blocks" /\ runner'.at = c
        <4> HIDE DEF AtCarve
        <4>1. "blocks" \in AtCarve
          BY DEF AtCarve
        <4> QED BY <3>1, <4>1, <1>t, <1>b DEF Runners
      <3>3. CarverTypeOK'
        BY <2>1, <2>2, <3>1, <3>2, <1>t, CarverTypes
        DEF CarverInv, CarverTypeOK, Runners, AtCarve, request
      <3>4. runner'.block = 1 /\ 1 \in 1..Blocks+1 /\ 1..runner'.block-1 = {}
        BY <3>1, <1>t, BlocksAssumption DEF Runners
      <3> QED BY <2>1, <2>2, <3>1, <3>2, <3>3, <3>4
              DEF CarverInv, CarvedOnce, Posted, request
    <2>4. CASE ~ok
      <3>1. /\ status' = [status EXCEPT ![c] = "FAILED"]
            /\ runner' = [runner EXCEPT !.pc = "next", !.at = NoCarve, !.block = 0]
        BY <1>5, <2>4 DEF startRequest, ends
      <3>2. runner' \in Runners /\ runner'.pc \notin AtCarve
        BY <3>1, <1>n, <1>t DEF Runners, AtCarve
      <3>3. /\ status' \in [Carves -> Statuses] /\ status'[c] = "FAILED"
            /\ \A d \in Carves \ {c} : status'[d] = status[d]
        BY <3>1, <2>1, <1>t DEF Statuses
      <3>4. CarverTypeOK'
        BY <2>1, <2>2, <3>3, <3>2, <1>t, CarverTypes
        DEF CarverInv, CarverTypeOK, Runners, AtCarve, request
      <3>5. CarvedOnce'
        BY <2>1, <2>2, <3>3 DEF CarvedOnce, CarverInv
      <3> QED BY <2>1, <2>2, <3>2, <3>3, <3>4, <3>5
              DEF CarverInv, Posted, AtCarve, request
    <2> QED BY <2>3, <2>4
  <1>6. ASSUME NEW ok \in BOOLEAN, contRequest(ok)
        PROVE  CarverInv'
    <2>1. /\ runner' = [runner EXCEPT !.block = @ + 1] /\ runner.pc = "blocks"
          /\ runner.block <= Blocks
          /\ UNCHANGED <<pending, running, status, request, sessions>>
      BY <1>6 DEF contRequest, Runner
    <2>2. /\ runner.block \in 1..Blocks /\ runner.block + 1 \in 0..Blocks+1
          /\ runner.block + 1 \in 1..Blocks+1
          /\ 1..(runner.block + 1) - 1 = (1..runner.block - 1) \cup {runner.block}
      BY <2>1, BlocksAssumption DEF CarverInv
    <2>3. /\ runner' \in Runners /\ runner'.at = runner.at /\ runner'.pc = runner.pc
          /\ runner'.block = runner.block + 1
      <3> HIDE DEF AtCarve
      <3> QED BY <2>1, <2>2, <1>t DEF Runners
    <2>4. PICK c \in Carves : runner.at = c
      BY <2>1 DEF CarverInv, AtCarve
    <2>5. /\ sessions[c] = 1 /\ status[c] \in {"STARTING", "PENDING"}
          /\ Posted(c) = 1..runner.block - 1
      BY <2>1, <2>4 DEF CarverInv, AtCarve
    <2>6. /\ accepted \in [Carves -> SUBSET (1..Blocks)]
          /\ skipped \in [Carves -> SUBSET (1..Blocks)]
      BY CarverTypes DEF CarverInv
    <2>7. /\ accepted' \in [Carves -> SUBSET (1..Blocks)]
          /\ skipped' \in [Carves -> SUBSET (1..Blocks)]
          /\ \A d \in Carves \ {c} : accepted'[d] = accepted[d] /\ skipped'[d] = skipped[d]
          /\ accepted'[c] \cup skipped'[c] = accepted[c] \cup skipped[c] \cup {runner.block}
      BY <1>6, <2>2, <2>4, <2>6 DEF contRequest
    <2>8. Posted(c)' = 1..runner'.block - 1
      BY <2>2, <2>3, <2>5, <2>7 DEF Posted
    <2>9. CarverTypeOK'
      BY <2>1, <2>3, <2>7, CarverTypes
      DEF CarverInv, CarverTypeOK, Runners, AtCarve, request
    <2>10. CarvedOnce'
      BY <2>1, <2>5, <2>7 DEF CarverInv, CarvedOnce
    <2> QED BY <2>1, <2>2, <2>3, <2>4, <2>5, <2>7, <2>8, <2>9, <2>10
            DEF CarverInv, Posted, AtCarve, request
  <1>7. CASE posted
    BY <1>7, <1>e DEF posted, Runner, AtCarve
  <1>8. CASE clearPending
    <2>1. runner' \in Runners /\ runner'.pc \notin AtCarve
      BY <1>8, <1>t DEF clearPending, Runners, AtCarve
    <2> QED BY <1>8, <1>t, <2>1, RunnerMoves DEF clearPending
  <1>9. CASE removeService
    <2>1. runner' \in Runners /\ runner'.pc \notin AtCarve
      BY <1>9, NoRunnerType DEF removeService, NoRunner, AtCarve
    <2> QED BY <1>9, <1>t, <2>1, RunnerMoves DEF removeService, notRunning
  <1> QED BY <1>1, <1>2, <1>3, <1>4, <1>5, <1>6, <1>7, <1>8, <1>9 DEF RunnerNext

\* A request, the start of a runner and a crash.
LEMMA CarverKeeps ==
  ASSUME CarverInv,
         \/ RunnerNext \/ storeCarve \/ CarverRestart \/ UNCHANGED carverVars
         \/ \E c \in Carves : askCarve(c)
         \/ \E b \in BOOLEAN : scheduleCarves(b)
  PROVE  CarverInv'
  <1>t. /\ runner \in Runners /\ status \in [Carves -> Statuses]
        /\ sessions \in [Carves -> Nat] /\ pending \in BOOLEAN /\ running \in BOOLEAN
        /\ asking \in Carves \cup {NoCarve} /\ asked \subseteq Carves
        /\ accepted \in [Carves -> SUBSET (1..Blocks)]
        /\ skipped \in [Carves -> SUBSET (1..Blocks)]
    BY CarverTypes DEF CarverInv
  <1> USE DEF uploads, Posted
  <1>n. NoRunner.pc = "idle"
    BY DEF NoRunner
  <1>1. CASE storeCarve
    <2>1. /\ asking \in Carves /\ asking' = NoCarve
          /\ status' = [status EXCEPT ![asking] = "SCHEDULED"]
          /\ UNCHANGED <<asked, pending, running, runner, uploads>>
      BY <1>1, <1>t DEF storeCarve
    <2>2. /\ status' \in [Carves -> Statuses] /\ status'[asking] = "SCHEDULED"
          /\ \A d \in Carves \ {asking} : status'[d] = status[d]
      BY <2>1, <1>t DEF Statuses
    <2>3. CarverTypeOK'
      BY <2>1, <2>2, <1>t DEF CarverTypeOK, Runners, AtCarve
    <2>4. /\ sessions[asking] = 0 /\ status[asking] = "none" /\ asking \in asked
      BY <2>1, CarvesAssumption DEF CarverInv
    <2>5. CarvedOnce'
      BY <2>1, <2>2, <2>4 DEF CarverInv, CarvedOnce
    <2> QED BY <2>1, <2>2, <2>3, <2>4, <2>5, CarvesAssumption DEF CarverInv
  <1>2. CASE CarverRestart
    <2>1. CarverTypeOK'
      BY <1>2, <1>t, NoRunnerType DEF CarverRestart, CarverTypeOK, Runners, AtCarve
    <2> QED BY <1>2, <1>n, <2>1, CarvesAssumption DEF CarverRestart, CarverInv, CarvedOnce, AtCarve
  <1>3. CASE UNCHANGED carverVars
    BY <1>3 DEF carverVars, request, CarverInv, CarverTypeOK, CarvedOnce
  <1>4. ASSUME NEW c \in Carves, askCarve(c)
        PROVE  CarverInv'
    <2>1. CarverTypeOK'
      BY <1>4, <1>t DEF askCarve, CarverTypeOK, Runners, AtCarve
    <2> QED BY <1>4, <2>1, <1>t DEF askCarve, CarverInv, CarvedOnce
  <1>5. ASSUME NEW b \in BOOLEAN, scheduleCarves(b)
        PROVE  CarverInv'
    <2>1. CASE pending /\ ~running /\ ~b
      <3>1. runner' \in Runners /\ runner'.pc \notin AtCarve /\ running' = TRUE
        BY <1>5, <2>1, NoRunnerType DEF scheduleCarves, AtCarve, NoRunner
      <3> QED BY <1>5, <3>1, <1>t, RunnerMoves DEF scheduleCarves
    <2>2. CASE ~(pending /\ ~running /\ ~b)
      BY <1>5, <2>2 DEF scheduleCarves, request, CarverInv, CarverTypeOK, CarvedOnce
    <2> QED BY <2>1, <2>2
  <1> QED BY <1>1, <1>2, <1>3, <1>4, <1>5, RunnerKeeps

-----------------------------------------------------------------------------
(* Steps of the relay *)

RelayThreads == [pc : {"none", "take", "call"}, lines : LineSeqs]

\* A relay thread that does not run, and an empty buffer.
LEMMA NoThreadType == NoThread \in RelayThreads /\ <<>> \in LineSeqs
  <1>1. <<>> \in LineSeqs
    BY DEF LineSeqs
  <1> HIDE DEF LineSeqs
  <1> QED BY <1>1 DEF NoThread, RelayThreads

\* A line appended to the buffer is its last one.
LEMMA AppendedLine ==
  ASSUME NEW s \in LineSeqs, NEW l \in 1..MaxLines
  PROVE  /\ Append(s, l) \in LineSeqs
         /\ DOMAIN Append(s, l) = DOMAIN s \cup {Len(s) + 1}
         /\ \A i \in DOMAIN s : Append(s, l)[i] = s[i] /\ i < Len(s) + 1 /\ i \in Int
         /\ Append(s, l)[Len(s) + 1] = l
  BY DEF LineSeqs

\* The lines of two sequences, one after the other.
LEMMA JoinedLines ==
  ASSUME NEW s \in LineSeqs, NEW u \in LineSeqs
  PROVE  /\ s \o u \in LineSeqs
         /\ \A i \in DOMAIN (s \o u) :
              \/ i \in DOMAIN s /\ (s \o u)[i] = s[i]
              \/ i - Len(s) \in DOMAIN u /\ (s \o u)[i] = u[i - Len(s)]
         /\ ToSet(s \o u) = ToSet(s) \cup ToSet(u)
  <1>1. /\ s \o u \in LineSeqs /\ Len(s \o u) = Len(s) + Len(u)
        /\ \A i \in 1..Len(s) + Len(u) :
             (s \o u)[i] = IF i <= Len(s) THEN s[i] ELSE u[i - Len(s)]
    BY ConcatProperties DEF LineSeqs
  <1>2. /\ DOMAIN s = 1..Len(s) /\ DOMAIN u = 1..Len(u)
        /\ DOMAIN (s \o u) = 1..Len(s) + Len(u)
        /\ Len(s) \in Nat /\ Len(u) \in Nat
    BY <1>1, LenProperties DEF LineSeqs
  <1>3. \A i \in DOMAIN (s \o u) :
          \/ i \in DOMAIN s /\ (s \o u)[i] = s[i]
          \/ i - Len(s) \in DOMAIN u /\ (s \o u)[i] = u[i - Len(s)]
    BY <1>1, <1>2
  <1>4. \A i \in DOMAIN s : i \in DOMAIN (s \o u) /\ (s \o u)[i] = s[i]
    BY <1>1, <1>2
  <1>5. \A i \in DOMAIN u : /\ i + Len(s) \in DOMAIN (s \o u)
                            /\ (s \o u)[i + Len(s)] = u[i]
    BY <1>1, <1>2
  <1>6. ToSet(s \o u) = ToSet(s) \cup ToSet(u)
    BY <1>3, <1>4, <1>5 DEF ToSet
  <1> QED BY <1>1, <1>3, <1>6

\* What an increasing sequence is, joined with one that comes after it.
LEMMA JoinedIncreases ==
  ASSUME NEW s \in LineSeqs, NEW u \in LineSeqs,
         Increasing(s), Increasing(u), Before(s, u)
  PROVE  /\ Increasing(s \o u)
         /\ \A w \in LineSeqs : Before(s, w) /\ Before(u, w) => Before(s \o u, w)
  <1>1. /\ Len(s \o u) = Len(s) + Len(u)
        /\ \A i \in 1..Len(s) + Len(u) :
             (s \o u)[i] = IF i <= Len(s) THEN s[i] ELSE u[i - Len(s)]
        /\ DOMAIN s = 1..Len(s) /\ DOMAIN u = 1..Len(u)
        /\ DOMAIN (s \o u) = 1..Len(s) + Len(u)
        /\ Len(s) \in Nat /\ Len(u) \in Nat
    BY ConcatProperties, LenProperties DEF LineSeqs
  <1>2. ASSUME NEW i \in DOMAIN (s \o u), NEW j \in DOMAIN (s \o u), i < j
        PROVE  (s \o u)[i] < (s \o u)[j]
    <2>1. CASE j <= Len(s)
      BY <1>1, <1>2, <2>1 DEF Increasing
    <2>2. CASE i > Len(s)
      <3>1. i - Len(s) \in DOMAIN u /\ j - Len(s) \in DOMAIN u /\ i - Len(s) < j - Len(s)
        BY <1>1, <1>2, <2>2
      <3>2. (s \o u)[i] = u[i - Len(s)] /\ (s \o u)[j] = u[j - Len(s)]
        BY <1>1, <1>2, <2>2
      <3> QED BY <3>1, <3>2 DEF Increasing
    <2>3. CASE i <= Len(s) /\ j > Len(s)
      <3>1. i \in DOMAIN s /\ j - Len(s) \in DOMAIN u
        BY <1>1, <1>2, <2>3
      <3>2. (s \o u)[i] = s[i] /\ (s \o u)[j] = u[j - Len(s)]
        BY <1>1, <1>2, <2>3
      <3> QED BY <3>1, <3>2 DEF Before
    <2> QED BY <1>1, <2>1, <2>2, <2>3
  <1>3. ASSUME NEW w \in LineSeqs, Before(s, w), Before(u, w)
        PROVE  Before(s \o u, w)
    BY <1>3, JoinedLines DEF Before
  <1> QED BY <1>2, <1>3 DEF Increasing

\* Nothing is logged and no relay thread is at work.
LEMMA RelayStart == RelayInit => RelayInv
  <1> SUFFICES ASSUME RelayInit PROVE RelayInv OBVIOUS
  <1>1. /\ relay \in [Relays -> RelayThreads]
        /\ \A t \in Relays : relay[t].pc = "none" /\ relay[t].lines = <<>>
    BY NoThreadType DEF RelayInit, NoThread
  <1>2. RelayTypeOK
    BY <1>1, NoThreadType, LinesAssumption DEF RelayInit, RelayTypeOK, RelayThreads
  <1>3. DOMAIN <<>> = {}
    OBVIOUS
  <1> QED BY <1>1, <1>2, <1>3 DEF RelayInit, RelayInv, Increasing, Before

\* What the type invariant says of each variable.
LEMMA RelayTypes ==
  ASSUME RelayTypeOK
  PROVE  /\ lines \in 0..MaxLines /\ logs \in LineSeqs /\ relayed \in LineSeqs
         /\ relay \in [Relays -> RelayThreads] /\ future \in Relays \cup {NoRelay}
         /\ lost \subseteq 1..MaxLines
         /\ \A t \in Relays : relay[t].lines \in LineSeqs
  BY DEF RelayTypeOK, RelayThreads

\* A line of any thread goes to the end of the buffer, after all others.
LEMMA SendKeeps ==
  ASSUME RelayInv, send, UNCHANGED <<relay, future, relayed, lost>>
  PROVE  RelayInv'
  <1>1. /\ lines \in 0..MaxLines /\ logs \in LineSeqs /\ relayed \in LineSeqs
        /\ \A t \in Relays : relay[t].lines \in LineSeqs
    BY RelayTypes DEF RelayInv
  <1>2. lines + 1 \in 1..MaxLines /\ lines' = lines + 1 /\ logs' = Append(logs, lines + 1)
        /\ lines' \in 0..MaxLines /\ lines \in Int
    BY <1>1, LinesAssumption DEF send
  <1>3. /\ logs' \in LineSeqs
        /\ DOMAIN logs' = DOMAIN logs \cup {Len(logs) + 1}
        /\ \A i \in DOMAIN logs : logs'[i] = logs[i] /\ i < Len(logs) + 1 /\ i \in Int
        /\ logs'[Len(logs) + 1] = lines'
    BY <1>1, <1>2, AppendedLine
  <1>4. RelayTypeOK'
    BY <1>2, <1>3 DEF RelayInv, RelayTypeOK
  <1>i. ASSUME NEW s \in LineSeqs, NEW i \in DOMAIN s PROVE s[i] \in Int
    <2>1. s[i] \in 1..MaxLines
      BY ElementOfSeq, LenProperties DEF LineSeqs
    <2> QED BY <2>1
  <1>5. \A i \in DOMAIN logs : logs[i] < lines'
    BY <1>1, <1>2, <1>i DEF RelayInv
  <1>l. Len(logs) + 1 \in Int
    BY <1>1, LenProperties DEF LineSeqs
  <1>6. Increasing(logs')
    <2> SUFFICES ASSUME NEW i \in DOMAIN logs', NEW j \in DOMAIN logs', i < j
                 PROVE  logs'[i] < logs'[j]
      BY DEF Increasing
    <2>1. i \in DOMAIN logs
      BY <1>3, <1>l
    <2> QED BY <2>1, <1>3, <1>5 DEF RelayInv, Increasing
  <1>7. ASSUME NEW s \in LineSeqs, Before(s, logs), \A i \in DOMAIN s : s[i] <= lines
        PROVE  Before(s, logs')
    BY <1>7, <1>2, <1>3, <1>i DEF Before
  <1>8. /\ Before(relayed, logs')
        /\ \A t \in Relays : Before(relay[t].lines, logs')
    BY <1>1, <1>7 DEF RelayInv
  <1>9. /\ \A i \in DOMAIN logs' : logs'[i] <= lines'
        /\ \A i \in DOMAIN relayed : relayed[i] <= lines'
        /\ \A t \in Relays : \A i \in DOMAIN relay[t].lines : relay[t].lines[i] <= lines'
    BY <1>1, <1>2, <1>3, <1>5, <1>i DEF RelayInv
  <1>10. \A l \in lost : l <= lines'
    BY <1>2 DEF RelayInv, RelayTypeOK
  <1> HIDE DEF Increasing, Before
  <1> QED BY <1>4, <1>6, <1>8, <1>9, <1>10 DEF RelayInv, Increasing, Before

\* The scheduler's thread waits for its future, or starts another relay.
LEMMA FutureKeeps ==
  ASSUME RelayInv,
         \/ relayStatusLogs
         \/ waitLogRelay /\ UNCHANGED <<lines, logs, relay, relayed, lost>>
         \/ UNCHANGED relayVars
  PROVE  RelayInv' /\ \A t \in Relays : relay'[t].lines = relay[t].lines
  <1>t. relay \in [Relays -> RelayThreads]
    BY RelayTypes DEF RelayInv
  <1>w. ASSUME Relayed PROVE \A t \in Relays : relay[t].pc = "none"
    BY <1>w DEF Relayed, RelayInv
  <1>1. CASE waitLogRelay /\ UNCHANGED <<lines, logs, relay, relayed, lost>>
    BY <1>1, <1>w DEF waitLogRelay, RelayInv, RelayTypeOK, Increasing, Before
  <1>2. CASE UNCHANGED relayVars
    BY <1>2 DEF relayVars, RelayInv, RelayTypeOK, Increasing, Before
  <1>3. CASE relayStatusLogs
    <2> DEFINE u == NewThread
    <2>1. \A t \in Relays : relay[t].pc = "none"
      BY <1>3, <1>w DEF relayStatusLogs
    <2>2. u \in Relays
      BY <2>1, RelaysAssumption DEF NewThread
    <2>3. /\ relay' = [relay EXCEPT ![u].pc = "take"] /\ future' = u
          /\ UNCHANGED <<lines, logs, relayed, lost>>
      BY <1>3 DEF relayStatusLogs
    <2> HIDE DEF u
    <2>4. /\ relay' \in [Relays -> RelayThreads]
          /\ \A t \in Relays : relay'[t].lines = relay[t].lines
          /\ \A t \in Relays : relay'[t].pc = IF t = u THEN "take" ELSE "none"
      <3> HIDE DEF LineSeqs
      <3> QED BY <1>t, <2>1, <2>2, <2>3 DEF RelayThreads
    <2>5. RelayTypeOK'
      BY <2>2, <2>3, <2>4 DEF RelayInv, RelayTypeOK, RelayThreads
    <2>6. \A t \in Relays : relay'[t].pc # "none" => t = future'
      BY <2>3, <2>4
    <2>7. \A t \in Relays : relay'[t].lines = <<>>
      BY <2>1, <2>4 DEF RelayInv
    <2> QED BY <2>3, <2>4, <2>5, <2>6, <2>7 DEF RelayInv, Increasing, Before
  <1> QED BY <1>1, <1>2, <1>3

\* One relay thread goes on: what is left to show is about its lines.
LEMMA ThreadMoves ==
  ASSUME RelayInv, NEW t \in Relays, NEW r \in RelayThreads,
         relay[t].pc # "none",
         relay' = [relay EXCEPT ![t] = r],
         lines' = lines, future' = future,
         logs' \in LineSeqs, relayed' \in LineSeqs, lost' \subseteq 1..MaxLines,
         r.pc # "call" => r.lines = <<>>,
         Increasing(relayed'), Increasing(logs'), Increasing(r.lines),
         Before(relayed', logs'), Before(relayed', r.lines), Before(r.lines, logs'),
         \A i \in DOMAIN logs' : logs'[i] <= lines,
         \A i \in DOMAIN relayed' : relayed'[i] <= lines,
         \A i \in DOMAIN r.lines : r.lines[i] <= lines,
         \A l \in lost' : l <= lines
  PROVE  RelayInv'
  <1>1. /\ relay' \in [Relays -> RelayThreads] /\ relay'[t] = r
        /\ \A u \in Relays \ {t} : relay'[u] = relay[u]
    BY RelayTypes DEF RelayInv
  <1>2. \A u \in Relays \ {t} : relay[u].pc = "none" /\ relay[u].lines = <<>>
    BY DEF RelayInv
  <1>3. RelayTypeOK'
    BY <1>1 DEF RelayInv, RelayTypeOK, RelayThreads
  <1>4. ASSUME NEW s PROVE Increasing(<<>>) /\ Before(s, <<>>) /\ Before(<<>>, s)
    BY DEF Increasing, Before
  <1>5. \A u \in Relays : /\ relay'[u].pc # "none" => u = future'
                          /\ relay'[u].pc # "call" => relay'[u].lines = <<>>
    BY <1>1, <1>2 DEF RelayInv
  <1>6. \A u \in Relays : /\ Increasing(relay'[u].lines)
                          /\ Before(relayed', relay'[u].lines)
                          /\ Before(relay'[u].lines, logs')
    BY <1>1, <1>2, <1>4
  <1>7. \A u \in Relays : \A i \in DOMAIN relay'[u].lines : relay'[u].lines[i] <= lines'
    BY <1>1, <1>2
  <1>8. Increasing(relayed)' /\ Increasing(logs)' /\ Before(relayed, logs)'
    BY DEF Increasing, Before
  <1>9. \A u \in Relays : /\ Increasing(relay[u].lines)'
                          /\ Before(relayed, relay[u].lines)'
                          /\ Before(relay[u].lines, logs)'
    BY <1>6 DEF Increasing, Before
  <1> QED BY <1>3, <1>5, <1>7, <1>8, <1>9 DEF RelayInv

\* A relay thread takes the buffer, or calls the plugins.
LEMMA ThreadKeeps ==
  ASSUME RelayInv, NEW t \in Relays, RelayThread(t)
  PROVE  RelayInv'
  <1>1. /\ lines \in 0..MaxLines /\ logs \in LineSeqs /\ relayed \in LineSeqs
        /\ relay[t].lines \in LineSeqs /\ lost \subseteq 1..MaxLines
    BY RelayTypes DEF RelayInv
  <1>2. ASSUME NEW s PROVE Increasing(<<>>) /\ Before(s, <<>>) /\ Before(<<>>, s)
    BY DEF Increasing, Before
  <1>n. NoThread.lines = <<>> /\ NoThread.pc = "none" /\ NoThread \in RelayThreads
        /\ <<>> \in LineSeqs
    BY NoThreadType DEF NoThread
  <1>3. CASE takeLogs(t)
    <2> DEFINE r == IF logs = <<>> THEN NoThread ELSE [pc |-> "call", lines |-> logs]
    <2>1. /\ relay' = [relay EXCEPT ![t] = r] /\ logs' = <<>> /\ relay[t].pc = "take"
          /\ UNCHANGED <<lines, future, relayed, lost>>
      BY <1>3 DEF takeLogs
    <2>2. r \in RelayThreads /\ r.lines = logs /\ (r.pc # "call" => r.lines = <<>>)
      <3> HIDE DEF LineSeqs
      <3> QED BY <1>1, <1>n DEF RelayThreads
    <2> HIDE DEF r
    <2>3. /\ Increasing(relayed') /\ Increasing(logs') /\ Increasing(r.lines)
          /\ Before(relayed', logs') /\ Before(relayed', r.lines)
          /\ Before(r.lines, logs')
      <3>1. Increasing(relayed) /\ Increasing(logs) /\ Before(relayed, logs)
        BY DEF RelayInv
      <3> QED BY <2>1, <2>2, <1>2, <3>1
    <2>4. /\ \A i \in DOMAIN logs' : logs'[i] <= lines
          /\ \A i \in DOMAIN relayed' : relayed'[i] <= lines
          /\ \A i \in DOMAIN r.lines : r.lines[i] <= lines
          /\ \A l \in lost' : l <= lines
      BY <2>1, <2>2 DEF RelayInv
    <2>5. logs' \in LineSeqs /\ relayed' \in LineSeqs /\ lost' \subseteq 1..MaxLines
      BY <2>1, <1>1, <1>n
    <2> QED BY <2>1, <2>2, <2>3, <2>4, <2>5, ThreadMoves
  <1>4. ASSUME NEW ok \in BOOLEAN, callPlugin(t, ok) PROVE RelayInv'
    <2> DEFINE b == relay[t].lines
    <2>1. /\ relay' = [relay EXCEPT ![t] = NoThread] /\ relay[t].pc = "call"
          /\ UNCHANGED <<lines, future, logs>>
          /\ relayed' = IF ok THEN relayed \o b ELSE relayed
          /\ lost' = IF ok THEN lost ELSE lost \cup ToSet(b)
      BY <1>4 DEF callPlugin
    <2>2. /\ Increasing(relayed) /\ Increasing(logs) /\ Before(relayed, logs)
          /\ Increasing(b) /\ Before(relayed, b) /\ Before(b, logs)
          /\ \A i \in DOMAIN logs : logs[i] <= lines
          /\ \A i \in DOMAIN relayed : relayed[i] <= lines
          /\ \A i \in DOMAIN b : b[i] <= lines
          /\ \A l \in lost : l <= lines
      BY DEF RelayInv
    <2>s. ToSet(b) \subseteq 1..MaxLines
      <3> SUFFICES ASSUME NEW i \in DOMAIN b PROVE b[i] \in 1..MaxLines
        BY DEF ToSet
      <3> QED BY <1>1, ElementOfSeq, LenProperties DEF LineSeqs
    <2> HIDE DEF b
    <2>3. relayed \o b \in LineSeqs /\ Increasing(relayed \o b) /\ Before(relayed \o b, logs)
      BY <1>1, <2>2, JoinedLines, JoinedIncreases DEF b
    <2>4. \A i \in DOMAIN (relayed \o b) : (relayed \o b)[i] <= lines
      <3>1. b \in LineSeqs
        BY <1>1 DEF b
      <3> QED BY <1>1, <3>1, <2>2, JoinedLines
    <2>5. /\ relayed' \in LineSeqs /\ Increasing(relayed') /\ Before(relayed', logs')
          /\ \A i \in DOMAIN relayed' : relayed'[i] <= lines
      BY <1>1, <2>1, <2>2, <2>3, <2>4
    <2>6. lost' \subseteq 1..MaxLines /\ \A l \in lost' : l <= lines
      BY <1>1, <2>1, <2>2, <2>s DEF ToSet
    <2>7. Increasing(logs') /\ logs' \in LineSeqs /\ \A i \in DOMAIN logs' : logs'[i] <= lines
      BY <1>1, <2>1, <2>2
    <2> DEFINE r == NoThread
    <2>8. /\ Increasing(r.lines) /\ Before(relayed', r.lines) /\ Before(r.lines, logs')
          /\ r.pc # "call" => r.lines = <<>>
          /\ \A i \in DOMAIN r.lines : r.lines[i] <= lines
          /\ r \in RelayThreads
      BY <1>2, <1>n
    <2>9. relay' = [relay EXCEPT ![t] = r]
      BY <2>1
    <2> HIDE DEF r
    <2> QED BY <2>1, <2>5, <2>6, <2>7, <2>8, <2>9, ThreadMoves
  <1> QED BY <1>3, <1>4 DEF RelayThread

\* A crash leaves what is relayed, and counts what it drops as lost.
LEMMA RelayRestartKeeps ==
  ASSUME RelayInv, RelayRestart
  PROVE  RelayInv'
  <1>1. /\ lines \in 0..MaxLines /\ logs \in LineSeqs /\ relayed \in LineSeqs
        /\ \A t \in Relays : relay[t].lines \in LineSeqs
        /\ lost \subseteq 1..MaxLines
    BY RelayTypes DEF RelayInv
  <1>2. ASSUME NEW s \in LineSeqs, \A i \in DOMAIN s : s[i] <= lines
        PROVE  \A l \in ToSet(s) : l \in 1..MaxLines /\ l <= lines
    <2>1. \A i \in DOMAIN s : s[i] \in 1..MaxLines
      BY ElementOfSeq, LenProperties DEF LineSeqs
    <2> QED BY <1>2, <2>1 DEF ToSet
  <1>3. \A l \in ToSet(logs) : l \in 1..MaxLines /\ l <= lines
    BY <1>1, <1>2 DEF RelayInv
  <1>4. \A t \in Relays : \A l \in ToSet(relay[t].lines) : l \in 1..MaxLines /\ l <= lines
    BY <1>1, <1>2 DEF RelayInv
  <1>5. lost' \subseteq 1..MaxLines /\ \A l \in lost' : l <= lines
    BY <1>1, <1>3, <1>4 DEF RelayRestart, RelayInv
  <1>6. /\ relay' \in [Relays -> RelayThreads] /\ logs' = <<>> /\ future' = NoRelay
        /\ \A t \in Relays : relay'[t].pc = "none" /\ relay'[t].lines = <<>>
        /\ UNCHANGED <<lines, relayed>> /\ logs' \in LineSeqs
    BY NoThreadType DEF RelayRestart, NoThread
  <1>7. RelayTypeOK'
    BY <1>1, <1>5, <1>6 DEF RelayTypeOK, RelayThreads
  <1>8. DOMAIN <<>> = {}
    OBVIOUS
  <1> QED BY <1>5, <1>6, <1>7, <1>8 DEF RelayInv, Increasing, Before

-----------------------------------------------------------------------------
(* Every step *)

\* What a step does to the carver.
CarverChanges ==
  \/ RunnerNext \/ storeCarve \/ CarverRestart \/ UNCHANGED carverVars
  \/ \E c \in Carves : askCarve(c)
  \/ \E b \in BOOLEAN : scheduleCarves(b)

\* What a step does to the relay.
RelayChanges ==
  \/ send /\ UNCHANGED <<relay, future, relayed, lost>>
  \/ waitLogRelay /\ UNCHANGED <<lines, logs, relay, relayed, lost>>
  \/ relayStatusLogs \/ RelayRestart \/ UNCHANGED relayVars
  \/ \E t \in Relays : RelayThread(t)

\* Every step of the loop is a step of the carver and of the relay, or none of theirs.
LEMMA StepChanges ==
  ASSUME stopping \in BOOLEAN, [Next]_vars
  PROVE  CarverChanges /\ RelayChanges
  <1>1. CASE Scheduler
    <2>1. CASE queries
      BY <2>1 DEF queries, logCall, CarverChanges, RelayChanges
    <2>2. CASE queried
      BY <2>2 DEF queried, waits, CarverChanges, RelayChanges
    <2>3. CASE maybeReloadSchedule
      BY <2>3 DEF maybeReloadSchedule, beforeReset, waits, CarverChanges, RelayChanges
    <2>4. CASE resetLocks
      BY <2>4 DEF resetLocks, logCall, CarverChanges, RelayChanges
    <2>5. CASE resetLogged
      BY <2>5 DEF resetLogged, waits, CarverChanges, RelayChanges
    <2>6. CASE resets
      BY <2>6 DEF resets, CarverChanges, RelayChanges
    <2>7. CASE maybeFlushLogs
      BY <2>7 DEF maybeFlushLogs, CarverChanges, RelayChanges
    <2>8. CASE relays
      BY <2>8 DEF relays, CarverChanges, RelayChanges
    <2>9. CASE maybeScheduleCarves
      BY <2>9 DEF maybeScheduleCarves, CarverChanges, RelayChanges
    <2>10. CASE pause
      BY <2>10 DEF pause, CarverChanges, RelayChanges
    <2>11. CASE last
      BY <2>11 DEF last, waits, CarverChanges, RelayChanges
    <2> QED BY <1>1, <2>1, <2>2, <2>3, <2>4, <2>5, <2>6, <2>7, <2>8, <2>9, <2>10, <2>11
            DEF Scheduler
  <1>2. CASE OtherLog \/ RunnerStep \/ AskStep \/ StoreStep
    BY <1>2 DEF OtherLog, logElsewhere, RunnerStep, AskStep, StoreStep,
                CarverChanges, RelayChanges
  <1>3. CASE \E t \in Relays : RelayStep(t)
    BY <1>3 DEF RelayStep, CarverChanges, RelayChanges
  <1>4. CASE stopServices \/ Restart
    BY <1>4 DEF stopServices, Restart, CarverChanges, RelayChanges
  <1>5. CASE UNCHANGED vars
    BY <1>5 DEF vars, CarverChanges, RelayChanges
  <1> QED BY <1>1, <1>2, <1>3, <1>4, <1>5 DEF Next

\* The scheduler's thread holds the database's lock between resetLocks and resets,
\* and a crash gives it up.
LEMMA LoopKeeps == LoopInv /\ [Next]_vars => LoopInv'
  <1> SUFFICES ASSUME LoopInv, [Next]_vars PROVE LoopInv' OBVIOUS
  <1> USE DEF LoopInv
  <1>c. Cycle \in Nat \ {0} /\ MaxCrash \in Nat
    BY PeriodsAssumption, CrashAssumption
  <1>g. ASSUME NEW next \in Places, GoTo(next),
               resetting' \in BOOLEAN, resetting' <=> next \in {"resetLogged", "resets"}
        PROVE  LoopInv'
    BY <1>g DEF GoTo
  <1>p. ASSUME NEW next \in {"reload", "reset", "flush", "relay", "carves", "pause", "ended"}
        PROVE  next \in Places /\ next \notin {"resetLogged", "resets"}
    BY DEF Places
  <1>1. CASE Scheduler
    <2>1. CASE queries
      <3>1. resetting' = FALSE /\ \E next \in {"queried", "reload"} : GoTo(next)
        BY <2>1 DEF queries, logCall, At
      <3> QED BY <3>1, <1>g DEF Places
    <2>2. CASE queried
      BY <2>2, <1>g, <1>p DEF queried, waits, At
    <2>3. CASE maybeReloadSchedule
      BY <2>3, <1>g, <1>p DEF maybeReloadSchedule, beforeReset, waits, At
    <2>4. CASE resetLocks
      <3>1. resetting' = TRUE /\ \E next \in {"resetLogged", "resets"} : GoTo(next)
        BY <2>4 DEF resetLocks, lockReset, logCall
      <3> QED BY <3>1, <1>g DEF Places
    <2>5. CASE resetLogged
      <3>1. resetting' = TRUE /\ GoTo("resets")
        BY <2>5 DEF resetLogged, waits, At
      <3> QED BY <3>1, <1>g DEF Places
    <2>6. CASE resets
      BY <2>6, <1>g, <1>p DEF resets, unlockReset
    <2>7. CASE maybeFlushLogs
      <3>1. resetting' = FALSE /\ \E next \in {"relay", "carves"} : GoTo(next)
        BY <2>7 DEF maybeFlushLogs, At
      <3> QED BY <3>1, <1>g, <1>p
    <2>8. CASE relays
      BY <2>8, <1>g, <1>p DEF relays, At
    <2>9. CASE maybeScheduleCarves
      BY <2>9, <1>g, <1>p DEF maybeScheduleCarves, At
    <2>10. CASE pause
      <3>1. (step + 1) % Cycle \in 0..Cycle-1
        BY <1>c
      <3> QED BY <2>10, <3>1 DEF pause, At, Places
    <2>11. CASE last
      BY <2>11, <1>g, <1>p DEF last, waits, At
    <2> QED BY <1>1, <2>1, <2>2, <2>3, <2>4, <2>5, <2>6, <2>7, <2>8, <2>9, <2>10, <2>11
            DEF Scheduler
  <1>2. CASE OtherLog \/ RunnerStep \/ AskStep \/ StoreStep
    BY <1>2 DEF OtherLog, RunnerStep, AskStep, StoreStep, loopVars
  <1>3. CASE \E t \in Relays : RelayStep(t)
    BY <1>3 DEF RelayStep, loopVars
  <1>4. CASE stopServices \/ Restart
    <2>1. 0 \in 0..Cycle-1
      BY <1>c
    <2>2. crashes < MaxCrash => crashes + 1 \in 0..MaxCrash
      BY <1>c
    <2>3. "queries" \in Places
      BY DEF Places
    <2>4. CASE stopServices
      BY <2>4 DEF stopServices
    <2>5. CASE Restart
      <3>1. /\ pc' = "queries" /\ step' = 0 /\ stopping' = FALSE /\ resetting' = FALSE
            /\ crashes' \in 0..MaxCrash
        BY <2>2, <2>5 DEF Restart
      <3> QED BY <2>1, <2>3, <3>1
    <2> QED BY <1>4, <2>4, <2>5
  <1>5. CASE UNCHANGED vars
    BY <1>5 DEF vars, loopVars
  <1> QED BY <1>1, <1>2, <1>3, <1>4, <1>5 DEF Next

\* The invariant holds when the worker starts.
LEMMA InitInv == Init => Inv
  <1> SUFFICES ASSUME Init PROVE Inv OBVIOUS
  <1>1. LoopInv
    <2>1. 0 \in 0..Cycle-1 /\ 0 \in 0..MaxCrash
      BY PeriodsAssumption, CrashAssumption
    <2>2. "queries" \in Places
      BY DEF Places
    <2> QED BY <2>1, <2>2 DEF Init, LoopInv
  <1> QED BY <1>1, CarverStart, RelayStart DEF Init, Inv

\* Every step keeps the invariant.
LEMMA StepInv == Inv /\ [Next]_vars => Inv'
  <1> SUFFICES ASSUME Inv, [Next]_vars PROVE Inv' OBVIOUS
  <1>1. LoopInv'
    BY LoopKeeps DEF Inv
  <1>2. CarverChanges /\ RelayChanges
    BY StepChanges DEF Inv, LoopInv
  <1>3. CarverInv'
    BY <1>2, CarverKeeps DEF CarverChanges, Inv
  <1>4. RelayInv'
    BY <1>2, SendKeeps, FutureKeeps, ThreadKeeps, RelayRestartKeeps DEF RelayChanges, Inv
  <1> QED BY <1>1, <1>3, <1>4 DEF Inv

\* The invariant holds in every behaviour.
THEOREM Invariance == Spec => []Inv
  BY InitInv, StepInv, PTL DEF Spec

\* Every variable of the loop, the carver and the relay stays in its set, and the
\* database is locked exactly while the scheduler is inside a reset.
THEOREM TypeCorrect == Spec => []TypeOK
  <1>1. Inv => TypeOK
    BY DEF Inv, LoopInv, CarverInv, RelayInv, TypeOK
  <1> QED BY <1>1, Invariance, PTL

\* At most one upload of a carve is begun, and a carve that is reported as a success
\* has gone through all its blocks once, each accepted or skipped: the runner takes
\* up only what is scheduled, and marks it before anything else (CarverRunner::start,
\* Carver::carve, Carver::postCarve).
THEOREM UploadedOnce == Spec => []CarvedOnce
  <1>1. Inv => CarvedOnce
    BY DEF Inv, CarverInv
  <1> QED BY <1>1, Invariance, PTL

\* The plugins get the lines in the order they were logged and none twice: a relay
\* starts only when the one before it has ended (relayStatusLogs).
THEOREM InOrder == Spec => []RelayedInOrder
  <1>1. Inv => RelayedInOrder
    BY DEF Inv, RelayInv, Increasing, RelayedInOrder
  <1> QED BY <1>1, Invariance, PTL

-----------------------------------------------------------------------------
(* The promise of a log buffer *)

Batches == UNION {ToSet(relay[t].lines) : t \in Relays}

Kept == ToSet(logs) \cup Batches

\* The lines of a sequence with one more, and of the empty one.
LEMMA LinesOf ==
  /\ ToSet(<<>>) = {}
  /\ \A s \in LineSeqs, l \in 1..MaxLines : ToSet(Append(s, l)) = ToSet(s) \cup {l}
  <1>1. ToSet(<<>>) = {}
    BY DEF ToSet
  <1>2. ASSUME NEW s \in LineSeqs, NEW l \in 1..MaxLines
        PROVE  ToSet(Append(s, l)) = ToSet(s) \cup {l}
    <2> DEFINE u == Append(s, l)
    <2>1. /\ DOMAIN u = DOMAIN s \cup {Len(s) + 1} /\ u[Len(s) + 1] = l
          /\ \A i \in DOMAIN s : u[i] = s[i]
      BY AppendedLine
    <2> HIDE DEF u
    <2>2. ToSet(u) = ToSet(s) \cup {l}
      BY <2>1 DEF ToSet
    <2> QED BY <2>2 DEF u
  <1> QED BY <1>1, <1>2

\* A new line is one that no buffer, thread, plugin or loss has seen.
LEMMA SendAccepts ==
  ASSUME RelayInv, send, UNCHANGED <<relay, future, relayed, lost>>
  PROVE  Promise!Accept
  <1>1. lines \in 0..MaxLines /\ logs \in LineSeqs
    BY RelayTypes DEF RelayInv
  <1> DEFINE l == lines + 1
  <1>2. l \in 1..MaxLines /\ logs' = Append(logs, l) /\ ~(l <= lines)
    BY <1>1, LinesAssumption DEF send
  <1> HIDE DEF l
  <1>3. ToSet(logs') = ToSet(logs) \cup {l}
    BY <1>1, <1>2, LinesOf
  <1>4. Batches' = Batches
    BY DEF Batches
  <1>5. l \notin ToSet(logs) /\ l \notin ToSet(relayed) /\ l \notin lost
    BY <1>2 DEF RelayInv, ToSet
  <1>6. l \notin Batches
    BY <1>2 DEF RelayInv, Batches, ToSet
  <1>7. /\ Kept' = Kept \cup {l} /\ l \notin Kept \cup ToSet(relayed) \cup lost
        /\ ToSet(relayed') = ToSet(relayed) /\ lost' = lost
    BY <1>3, <1>4, <1>5, <1>6 DEF Kept
  <1> QED BY <1>7 DEF Promise!Accept, Promise!Known, Kept, Batches

\* A relay thread that takes the buffer holds what the buffer held; what it passes
\* on reaches the plugins or is lost.
LEMMA ThreadForwards ==
  ASSUME RelayInv, NEW t \in Relays, RelayThread(t)
  PROVE  Promise!Forward
  <1>1. /\ logs \in LineSeqs /\ relayed \in LineSeqs
        /\ relay[t].lines \in LineSeqs
        /\ relay \in [Relays -> RelayThreads]
    BY RelayTypes DEF RelayInv
  <1>2. \A u \in Relays \ {t} : relay[u].lines = <<>>
    BY DEF RelayInv, RelayThread, takeLogs, callPlugin
  <1>3. Batches = ToSet(relay[t].lines)
    BY <1>2, LinesOf DEF Batches
  <1>4. ASSUME NEW r, relay' = [relay EXCEPT ![t] = r]
        PROVE  Batches' = ToSet(r.lines)
    <2>1. relay'[t] = r /\ \A u \in Relays \ {t} : relay'[u] = relay[u]
      BY <1>1, <1>4
    <2> QED BY <1>2, <2>1, LinesOf DEF Batches
  <1>5. CASE takeLogs(t)
    <2> DEFINE r == IF logs = <<>> THEN NoThread ELSE [pc |-> "call", lines |-> logs]
    <2>1. relay' = [relay EXCEPT ![t] = r] /\ logs' = <<>> /\ relay[t].lines = <<>>
          /\ UNCHANGED <<relayed, lost>>
      BY <1>5 DEF takeLogs, RelayInv
    <2>2. r.lines = logs
      BY DEF NoThread
    <2> HIDE DEF r
    <2>3. Kept' = Kept
      BY <2>1, <2>2, <1>3, <1>4, LinesOf DEF Kept
    <2>4. ToSet(relayed') = ToSet(relayed) /\ lost' = lost
      BY <2>1
    <2> QED BY <2>3, <2>4 DEF Promise!Forward, Promise!Known, Kept, Batches
  <1>6. ASSUME NEW ok \in BOOLEAN, callPlugin(t, ok) PROVE Promise!Forward
    <2> DEFINE b == relay[t].lines
               r == NoThread
    <2>1. /\ relay' = [relay EXCEPT ![t] = r] /\ logs' = logs /\ r.lines = <<>>
          /\ relayed' = IF ok THEN relayed \o b ELSE relayed
          /\ lost' = IF ok THEN lost ELSE lost \cup ToSet(b)
      BY <1>6 DEF callPlugin, NoThread
    <2>2. ToSet(relayed \o b) = ToSet(relayed) \cup ToSet(b)
      BY <1>1, JoinedLines
    <2>5. Batches = ToSet(b)
      BY <1>3
    <2> HIDE DEF b, r
    <2>3. Kept' = ToSet(logs) /\ Kept = ToSet(logs) \cup ToSet(b)
      BY <2>1, <2>5, <1>4, LinesOf DEF Kept
    <2>4. \/ ToSet(relayed') = ToSet(relayed) \cup ToSet(b) /\ lost' = lost
          \/ ToSet(relayed') = ToSet(relayed) /\ lost' = lost \cup ToSet(b)
      BY <2>1, <2>2
    <2> QED BY <2>3, <2>4 DEF Promise!Forward, Promise!Known, Kept, Batches
  <1> QED BY <1>5, <1>6 DEF RelayThread

\* Every step of the system is a step of Delivery or changes nothing there.
LEMMA StepDelivers ==
  ASSUME Inv, [Next]_vars
  PROVE  [Promise!Next]_<<Kept, ToSet(relayed), lost>>
  <1>1. RelayChanges /\ RelayInv
    BY StepChanges DEF Inv, LoopInv
  <1>2. CASE send /\ UNCHANGED <<relay, future, relayed, lost>>
    BY <1>1, <1>2, SendAccepts DEF Promise!Next
  <1>3. CASE \E t \in Relays : RelayThread(t)
    BY <1>1, <1>3, ThreadForwards DEF Promise!Next
  <1>4. CASE RelayRestart
    <2>1. /\ logs' = <<>> /\ relayed' = relayed
          /\ \A t \in Relays : relay'[t].lines = <<>>
          /\ lost' = lost \cup Kept
      BY <1>4 DEF RelayRestart, NoThread, Kept, Batches
    <2>2. Kept' = {}
      BY <2>1, LinesOf DEF Kept, Batches
    <2>3. ToSet(relayed') = ToSet(relayed)
      BY <2>1
    <2> QED BY <2>1, <2>2, <2>3 DEF Promise!Next, Promise!Forward, Promise!Known, Kept, Batches
  <1>5. CASE \/ waitLogRelay /\ UNCHANGED <<lines, logs, relay, relayed, lost>>
             \/ relayStatusLogs
             \/ UNCHANGED relayVars
    <2>1. \A t \in Relays : relay'[t].lines = relay[t].lines
      BY <1>1, <1>5, FutureKeeps
    <2>2. UNCHANGED <<logs, relayed, lost>>
      BY <1>5 DEF relayStatusLogs, relayVars
    <2>3. Batches' = Batches
      BY <2>1 DEF Batches
    <2> QED BY <2>2, <2>3 DEF Kept
  <1> QED BY <1>1, <1>2, <1>3, <1>4, <1>5 DEF RelayChanges

\* The relay keeps the promise of a log buffer: a line is in the buffer or in the
\* hands of a relay thread until the plugins have it or it is lost to a failing
\* plugin or a crash (BufferedLogSink::send, relayStatusLogs).
THEOREM Delivers == Spec => KeepsPromise
  <1>1. Init => Promise!Init
    <2> SUFFICES ASSUME Init PROVE Promise!Init OBVIOUS
    <2>1. Kept = {} /\ ToSet(relayed) = {} /\ lost = {}
      BY LinesOf DEF Init, RelayInit, NoThread, Kept, Batches
    <2> QED BY <2>1 DEF Promise!Init, Kept, Batches
  <1>2. Inv /\ [Next]_vars => [Promise!Next]_<<Kept, ToSet(relayed), lost>>
    BY StepDelivers
  <1> QED BY <1>1, <1>2, Invariance, PTL DEF Spec, KeepsPromise, Promise!Spec, Kept, Batches
==============================================================================
