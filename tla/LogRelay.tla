------------------------------ MODULE LogRelay ------------------------------
(***************************************************************************)
(* The relay of status logs in the daemon (logger.cpp).  Every thread's    *)
(* log calls append a line to a buffer in memory.  The scheduler's thread  *)
(* starts a thread that takes the buffer and calls the logger plugins with *)
(* it; a plugin stores the lines in the database.  The future of that      *)
(* thread belongs to the scheduler's thread: each of its log calls waits   *)
(* for it (WaitTillSent), and so does waitLogRelay.                        *)
(*                                                                         *)
(* Lines are numbered in the order they are buffered.  SchedulerLoop says  *)
(* when the scheduler's thread logs, relays and waits.                     *)
(***************************************************************************)
EXTENDS Integers, Sequences, SequencesExt, DatabaseReset

CONSTANTS
  Relays,    \* relay threads
  NoRelay,
  MaxLines   \* bound: lines logged

ASSUME RelaysAssumption == Relays # {} /\ NoRelay \notin Relays
ASSUME LinesAssumption  == MaxLines \in Nat

VARIABLES
  lines,    \* the number of lines logged
  logs,     \* BufferedLogSink's logs_
  relay,    \* what each relay thread is doing
  future,   \* kOptBufferedLogSinkSender of the scheduler's thread
  relayed,  \* history: the lines the plugins have stored, in this order
  lost      \* history: lines that a failing plugin or a crash has dropped

relayVars == <<lines, logs, relay, future, relayed, lost>>

NoThread == [pc |-> "none", lines |-> <<>>]

RelayInit ==
  /\ lines = 0 /\ logs = <<>>
  /\ relay = [t \in Relays |-> NoThread]
  /\ future = NoRelay
  /\ relayed = <<>> /\ lost = {}

\* BufferedLogSink::send
send ==
  /\ lines < MaxLines
  /\ lines' = lines + 1
  /\ logs' = Append(logs, lines + 1)

\* A log call of another thread; none of those has a future to wait for.
logElsewhere ==
  /\ send
  /\ UNCHANGED <<relay, future, relayed, lost>>

Relayed == \A t \in Relays : t = future => relay[t].pc = "none"

\* waitLogRelay, and WaitTillSent: the future is waited for and reset.
waitLogRelay ==
  /\ Relayed
  /\ future' = NoRelay

\* Mutant: it waits for a batch.
nothingToRelayYet == ~databaseInitialized \/ Len(logs) < 2

\* relayStatusLogs starts nothing when the database is in a reset or there is
\* nothing to relay.
nothingToRelay == ~databaseInitialized \/ logs = <<>>

NewThread == CHOOSE t \in Relays : relay[t].pc = "none"

\* Mutant: the previous thread is not waited for.
relayStatusLogsAtOnce ==
  /\ \E t \in Relays : relay[t].pc = "none"
  /\ relay' = [relay EXCEPT ![NewThread].pc = "take"]
  /\ future' = NewThread
  /\ UNCHANGED <<lines, logs, relayed, lost>>

\* The asynchronous relay: the previous thread is waited for, then another starts.
relayStatusLogs ==
  /\ Relayed
  /\ relay' = [relay EXCEPT ![NewThread].pc = "take"]
  /\ future' = NewThread
  /\ UNCHANGED <<lines, logs, relayed, lost>>

\* The sender takes the buffer under its lock; if it is empty the thread ends.  The
\* host's identifier, which it may read from the database first, is left out: the
\* thread waits for the database before the plugins in any case.
takeLogs(t) ==
  /\ relay[t].pc = "take"
  /\ relay' = [relay EXCEPT ![t] = IF logs = <<>> THEN NoThread
                                   ELSE [pc |-> "call", lines |-> logs]]
  /\ logs' = <<>>
  /\ UNCHANGED <<lines, future, relayed, lost>>

\* Mutant: the buffer is cleared after the plugins have been called.
callPluginThenClear(t, ok) ==
  /\ relay[t].pc = "call" /\ ReadLock
  /\ relayed' = IF ok THEN relayed \o relay[t].lines ELSE relayed
  /\ lost' = IF ok THEN lost ELSE lost \cup ToSet(relay[t].lines)
  /\ relay' = [relay EXCEPT ![t] = NoThread]
  /\ logs' = <<>>
  /\ UNCHANGED <<lines, future>>

\* The plugins are called, and what they return is ignored.
callPlugin(t, ok) ==
  /\ relay[t].pc = "call" /\ ReadLock
  /\ relayed' = IF ok THEN relayed \o relay[t].lines ELSE relayed
  /\ lost' = IF ok THEN lost ELSE lost \cup ToSet(relay[t].lines)
  /\ relay' = [relay EXCEPT ![t] = NoThread]
  /\ UNCHANGED <<lines, logs, future>>

RelayThread(t) == takeLogs(t) \/ \E ok \in BOOLEAN : callPlugin(t, ok)

\* The worker dies: buffer and threads are gone.
RelayRestart ==
  /\ lost' = lost \cup ToSet(logs) \cup UNION {ToSet(relay[t].lines) : t \in Relays}
  /\ logs' = <<>>
  /\ relay' = [t \in Relays |-> NoThread]
  /\ future' = NoRelay
  /\ UNCHANGED <<lines, relayed>>

-----------------------------------------------------------------------------
(* Properties *)

LineSeqs == Seq(1..MaxLines)

RelayTypeOK ==
  /\ lines \in 0..MaxLines /\ logs \in LineSeqs /\ relayed \in LineSeqs
  /\ relay \in [Relays -> [pc : {"none", "take", "call"}, lines : LineSeqs]]
  /\ future \in Relays \cup {NoRelay}
  /\ lost \subseteq 1..MaxLines

\* The plugins get the lines in the order they were logged and none of them twice,
\* although each batch is taken and delivered by a thread of its own.
RelayedInOrder == \A i, j \in DOMAIN relayed : i < j => relayed[i] < relayed[j]
=============================================================================
