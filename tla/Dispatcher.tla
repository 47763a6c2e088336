----------------------------- MODULE Dispatcher -----------------------------
(***************************************************************************)
(* The dispatcher (dispatcher.cpp): the list of services, the list of      *)
(* their threads, and the mutex over both.  The thread of a service is     *)
(* created inside addService and may run, and even end, before addService  *)
(* has listed it; stopServices holds the mutex while it waits for threads  *)
(* to come up.                                                             *)
(***************************************************************************)
EXTENDS Integers, Sequences

CONSTANTS
  Services,
  Main,       \* the main thread
  Nobody

ASSUME DispatcherAssumption ==
  Main # Nobody /\ {Main, Nobody} \cap Services = {}

VARIABLES
  thread,       \* where the thread of each service is
  services,     \* services_
  threads,      \* service_threads_
  stopping,     \* stopping_
  interrupted,  \* the services that are interrupted
  mutex,        \* who holds mutex_ over more than one step
  adding        \* the service that addService has not listed yet

dispatcherVars ==
  <<thread, services, threads, stopping, interrupted, mutex, adding>>

Threads == {"new", "created", "loop", "adding", "work", "request", "ended", "gone"}

DispatcherTypeOK ==
  /\ thread \in [Services -> Threads]
  /\ services \subseteq Services
  /\ threads \in Seq(Services)
  /\ stopping \in BOOLEAN
  /\ interrupted \subseteq Services
  /\ mutex \in Services \cup {Main, Nobody}
  /\ adding \in Services \cup {Nobody}

DispatcherInit ==
  /\ thread = [s \in Services |-> "new"]
  /\ services = {} /\ threads = <<>>
  /\ stopping = FALSE /\ interrupted = {}
  /\ mutex = Nobody /\ adding = Nobody

ThreadAt(s, place) == thread[s] = place

WriteLock == mutex = Nobody

\* addService for s, by the main thread or by a service's thread: refused, or
\* the thread is created under the lock.
refused == WriteLock /\ stopping

accepted(s) == WriteLock /\ ~stopping /\ ThreadAt(s, "new")

\* ... and the second half: both lists get their entry, the lock is released.
listService ==
  /\ services' = services \cup {adding}
  /\ threads' = Append(threads, adding)
  /\ mutex' = Nobody /\ adding' = Nobody

\* InternalRunnable::run: the thread comes up ...
run(s) ==
  /\ ThreadAt(s, "created")
  /\ thread' = [thread EXCEPT ![s] = "loop"]
  /\ UNCHANGED <<services, threads, stopping, interrupted, mutex, adding>>

\* ... and when start has returned the service leaves the list.
removeService(s) ==
  /\ ThreadAt(s, "ended") /\ WriteLock
  /\ services' = services \ {s}
  /\ thread' = [thread EXCEPT ![s] = "gone"]
  /\ UNCHANGED <<threads, stopping, interrupted, mutex, adding>>

\* stopServices: the lock is taken for the whole loop; assureRun waits for the
\* thread of each service.
lockToStop ==
  /\ WriteLock
  /\ mutex' = Main /\ stopping' = TRUE
  /\ UNCHANGED <<thread, services, threads, interrupted, adding>>

interrupt ==
  /\ \E s \in services \ interrupted :
       ~ThreadAt(s, "created") /\ interrupted' = interrupted \cup {s}
  /\ UNCHANGED <<thread, services, threads, stopping, mutex, adding>>

allInterrupted ==
  /\ services \subseteq interrupted
  /\ mutex' = Nobody
  /\ UNCHANGED <<thread, services, threads, stopping, interrupted, adding>>

\* joinServices: the last thread of the list is joined ...
joinLast ==
  /\ WriteLock /\ threads # <<>>
  /\ ThreadAt(threads[Len(threads)], "gone")
  /\ threads' = SubSeq(threads, 1, Len(threads) - 1)
  /\ UNCHANGED <<thread, services, stopping, interrupted, mutex, adding>>

\* ... until there is none.
allJoined ==
  /\ WriteLock /\ threads = <<>>
  /\ services' = {}
  /\ UNCHANGED <<thread, threads, stopping, interrupted, mutex, adding>>

=============================================================================
