------------------------------- MODULE Carver -------------------------------
(***************************************************************************)
(* File carves (carver.cpp, carver_utils.cpp).  A query that asks for a    *)
(* carve sets a flag and stores the request in the database; when the      *)
(* scheduler finds the flag set it starts a runner, which scans the        *)
(* requests, carries them out one after the other and clears the flag.     *)
(*                                                                         *)
(* One thread asks for carves, as the distributed queries do: its two      *)
(* steps fall between any steps of the runner.  Files, archives and        *)
(* compression are one step that succeeds or fails, and all failures are   *)
(* one status.  SchedulerLoop says when scheduleCarves is called.          *)
(***************************************************************************)
EXTENDS Integers, FiniteSets, DatabaseReset

CONSTANTS
  Carves,  \* carve guids
  NoCarve,
  Blocks   \* the number of blocks of every archive

ASSUME CarvesAssumption == NoCarve \notin Carves
ASSUME BlocksAssumption == Blocks \in Nat

VARIABLES
  pending,   \* kCarverPendingCarves
  running,   \* CarverRunnable::running_
  status,    \* database: the status of each carve, "none" if there is none
  runner,    \* the runner's thread
  asking,    \* the request that is being made
  asked,     \* the guids that have been used
  sessions,  \* history: uploads of each carve that the remote has begun
  accepted,  \* history: the blocks of each carve that the remote has accepted
  skipped    \* history: the blocks of each carve whose post has failed

request    == <<asking, asked>>
uploads    == <<sessions, accepted, skipped>>
carverVars == <<pending, running, status, runner, request, uploads>>

\* Its place, the keys it has still to visit, the carve and the block it is at
NoRunner == [pc |-> "idle", todo |-> {}, at |-> NoCarve, block |-> 0]

CarverInit ==
  /\ pending = TRUE /\ running = FALSE
  /\ status = [c \in Carves |-> "none"]
  /\ runner = NoRunner
  /\ asking = NoCarve /\ asked = {}
  /\ sessions = [c \in Carves |-> 0]
  /\ accepted = [c \in Carves |-> {}] /\ skipped = [c \in Carves |-> {}]

-----------------------------------------------------------------------------
(* A request *)

\* carvePaths: the flag is set first, then the request is stored.
askCarve(c) ==
  /\ asking = NoCarve /\ c \notin asked
  /\ asking' = c /\ asked' = asked \cup {c}
  /\ pending' = TRUE
  /\ UNCHANGED <<running, status, runner, uploads>>

storeCarve ==
  /\ asking # NoCarve /\ ReadLock
  /\ status' = [status EXCEPT ![asking] = "SCHEDULED"]
  /\ asking' = NoCarve
  /\ UNCHANGED <<asked, pending, running, runner, uploads>>

-----------------------------------------------------------------------------
(* The runner *)

\* The constructor sets running_; a dispatcher that is stopping refuses the
\* service, and the destructor resets running_ at once.
scheduleCarves(stopping) ==
  /\ IF pending /\ ~running /\ ~stopping
       THEN running' = TRUE /\ runner' = [NoRunner EXCEPT !.pc = "scan"]
       ELSE UNCHANGED <<running, runner>>
  /\ UNCHANGED <<pending, status, request, uploads>>

Runner(pc) == runner.pc = pc

\* The carve it is at ends with a status, and it goes on with the next.
ends(value) ==
  /\ ReadLock
  /\ status' = [status EXCEPT ![runner.at] = value]
  /\ runner' = [runner EXCEPT !.pc = "next", !.at = NoCarve, !.block = 0]

scan ==
  /\ Runner("scan") /\ ReadLock
  /\ runner' = [runner EXCEPT !.pc = "next",
                              !.todo = {c \in Carves : status[c] # "none"}]
  /\ UNCHANGED <<pending, running, status, request, uploads>>

\* Mutant: a carve that was cut off is taken up again.
carvableAgain(c) == status[c] \in {"SCHEDULED", "STARTING", "PENDING"}

carvable(c) == status[c] = "SCHEDULED"

\* One key: a success may have expired; only what is scheduled is carved.
visit(c, expired) ==
  /\ Runner("next") /\ c \in runner.todo /\ ReadLock
  /\ expired => status[c] = "SUCCESS"
  /\ IF carvable(c)
       THEN /\ status' = [status EXCEPT ![c] = "STARTING"]
            /\ runner' = [runner EXCEPT !.pc = "create", !.todo = @ \ {c}, !.at = c]
       ELSE /\ status' = IF expired THEN [status EXCEPT ![c] = "none"] ELSE status
            /\ runner' = [runner EXCEPT !.todo = @ \ {c}]
  /\ UNCHANGED <<pending, running, request, uploads>>

createPaths(ok) ==
  /\ Runner("create") /\ ReadLock
  /\ IF ok THEN /\ status' = [status EXCEPT ![runner.at] = "PENDING"]
                /\ runner' = [runner EXCEPT !.pc = "archive"]
           ELSE ends("FAILED")
  /\ UNCHANGED <<pending, running, request, uploads>>

\* carveAll, archive, compress, and the size and hash of the result
archive(ok) ==
  /\ Runner("archive") /\ ReadLock
  /\ IF ok THEN /\ runner' = [runner EXCEPT !.pc = "start"]
                /\ UNCHANGED status
           ELSE ends("FAILED")
  /\ UNCHANGED <<pending, running, request, uploads>>

\* The request for a session; its answer may be lost.
startRequest(arrives, ok) ==
  /\ Runner("start") /\ (ok => arrives)
  /\ sessions' = IF arrives THEN [sessions EXCEPT ![runner.at] = @ + 1] ELSE sessions
  /\ IF ok THEN /\ runner' = [runner EXCEPT !.pc = "blocks", !.block = 1]
                /\ UNCHANGED status
           ELSE ends("FAILED")
  /\ UNCHANGED <<pending, running, request, accepted, skipped>>

\* One block: one that fails is skipped, and is not posted again.
contRequest(ok) ==
  /\ Runner("blocks") /\ runner.block <= Blocks
  /\ IF ok THEN /\ accepted' = [accepted EXCEPT ![runner.at] = @ \cup {runner.block}]
                /\ UNCHANGED skipped
           ELSE /\ skipped' = [skipped EXCEPT ![runner.at] = @ \cup {runner.block}]
                /\ UNCHANGED accepted
  /\ runner' = [runner EXCEPT !.block = @ + 1]
  /\ UNCHANGED <<pending, running, status, request, sessions>>

posted ==
  /\ Runner("blocks") /\ runner.block > Blocks
  /\ ends("SUCCESS")
  /\ UNCHANGED <<pending, running, request, uploads>>

\* "All pending carves have been started."
clearPending ==
  /\ Runner("next") /\ runner.todo = {}
  /\ pending' = FALSE
  /\ runner' = [runner EXCEPT !.pc = "end"]
  /\ UNCHANGED <<running, status, request, uploads>>

\* Mutant: running_ is not reset.
notRunningKept == UNCHANGED running

notRunning == running' = FALSE

\* The dispatcher removes the service, which destroys the runner.
removeService ==
  /\ Runner("end")
  /\ runner' = NoRunner
  /\ notRunning
  /\ UNCHANGED <<pending, status, request, uploads>>

RunnerNext ==
  \/ scan
  \/ \E c \in Carves, expired \in BOOLEAN : visit(c, expired)
  \/ \E ok \in BOOLEAN : createPaths(ok) \/ archive(ok) \/ contRequest(ok)
  \/ \E arrives, ok \in BOOLEAN : startRequest(arrives, ok)
  \/ posted
  \/ clearPending
  \/ removeService

CarverNext ==
  \/ RunnerNext
  \/ \E c \in Carves : askCarve(c)
  \/ storeCarve

\* The worker dies and another starts: the database is all that is left.
CarverRestart ==
  /\ pending' = TRUE /\ running' = FALSE
  /\ runner' = NoRunner
  /\ asking' = NoCarve
  /\ UNCHANGED <<status, asked, uploads>>

-----------------------------------------------------------------------------
(* Properties *)

Statuses == {"none", "SCHEDULED", "STARTING", "PENDING", "FAILED", "SUCCESS"}

CarverTypeOK ==
  /\ pending \in BOOLEAN /\ running \in BOOLEAN
  /\ status \in [Carves -> Statuses]
  /\ runner \in [pc : {"idle", "scan", "next", "create", "archive", "start",
                       "blocks", "end"},
                 todo : SUBSET Carves, at : Carves \cup {NoCarve}, block : 0..Blocks+1]
  /\ asking \in Carves \cup {NoCarve} /\ asked \subseteq Carves
  /\ sessions \in [Carves -> Nat]
  /\ accepted \in [Carves -> SUBSET (1..Blocks)] /\ skipped \in [Carves -> SUBSET (1..Blocks)]

\* At most one upload of a carve is begun, whatever dies in the middle of it or is
\* scanned again.  A carve is reported as a success only after its one upload has
\* gone through all the blocks: each was accepted, or its post failed and it was
\* skipped, so that a success may lack blocks.
CarvedOnce ==
  \A c \in Carves :
    /\ sessions[c] <= 1
    /\ status[c] = "SUCCESS" => /\ sessions[c] = 1
                                /\ accepted[c] \cup skipped[c] = 1..Blocks
=============================================================================
