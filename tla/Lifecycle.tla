------------------------------ MODULE Lifecycle ------------------------------
(***************************************************************************)
(* The worker from start to exit: main (startDaemon in main.cpp,           *)
(* Initializer::shutdown in init.cpp), services of the dispatcher that     *)
(* make TLS requests, and the threads of the event publishers.  A service  *)
(* loops until it is interrupted: it makes a request, or adds another      *)
(* service, and pauses (DistributedRunner::start and the like).  The alarm *)
(* that kills a shutdown which takes too long is left out: ShutdownEnds    *)
(* shows what it is not needed for.                                        *)
(***************************************************************************)
EXTENDS Enrollment, Dispatcher, EventFactory

ASSUME ClientsAssumption == Clients = Services

VARIABLES
  main,  \* where the main thread is
  open   \* the database is open

mainVars == <<main, open>>
vars == <<mainVars, requested, enrollmentVars, dispatcherVars, factoryVars>>

MainPlaces == {"delay", "services", "wait", "stop", "interrupt", "join",
               "end", "deregister", "close", "exit"}

TypeOK ==
  /\ EnrollmentTypeOK /\ DispatcherTypeOK /\ FactoryTypeOK
  /\ main \in MainPlaces
  /\ open \in BOOLEAN

Init ==
  /\ EnrollmentInit /\ DispatcherInit /\ FactoryInit
  /\ main = "delay" /\ open = TRUE

MainAt(place) == main = place

MainGoesTo(place) == main' = place /\ UNCHANGED open

others == <<requested, enrollmentVars>>

-----------------------------------------------------------------------------
(* A service's thread *)

ThreadGoesTo(s, place) ==
  /\ thread' = [thread EXCEPT ![s] = place]
  /\ UNCHANGED <<services, threads, stopping, interrupted, mutex, adding>>

\* The pause is over or interrupted: while (!interrupted())
iterate(s) ==
  /\ ThreadAt(s, "loop")
  /\ ThreadGoesTo(s, IF s \in interrupted THEN "ended" ELSE "work")
  /\ UNCHANGED enrollmentVars

\* The iteration makes a TLS request, ...
requests(s) ==
  ThreadAt(s, "work") /\ go(s) /\ ThreadGoesTo(s, "request")

\* ... or adds a service, as the scheduler does with a carver.
adds(s) ==
  /\ ThreadAt(s, "work")
  /\ \/ \E new \in Services \ {s} :
          /\ accepted(new)
          /\ thread' = [thread EXCEPT ![s] = "adding", ![new] = "created"]
          /\ mutex' = s /\ adding' = new
          /\ UNCHANGED <<services, threads, stopping, interrupted>>
     \/ refused /\ ThreadGoesTo(s, "loop")
  /\ UNCHANGED enrollmentVars

added(s) ==
  /\ ThreadAt(s, "adding") /\ mutex = s
  /\ listService
  /\ thread' = [thread EXCEPT ![s] = "loop"]
  /\ UNCHANGED <<stopping, interrupted, enrollmentVars>>

\* The request is over: the loop goes on, or start returns (a carver is done).
worked(s) ==
  /\ ThreadAt(s, "request") /\ At(s, "idle")
  /\ \E next \in {"loop", "ended"} : ThreadGoesTo(s, next)
  /\ UNCHANGED enrollmentVars

ServiceStep(s) ==
  /\ \/ ClientStep(s) /\ UNCHANGED dispatcherVars
     \/ (run(s) \/ removeService(s)) /\ UNCHANGED enrollmentVars
     \/ iterate(s) \/ requests(s) \/ adds(s) \/ added(s) \/ worked(s)
  /\ UNCHANGED <<mainVars, requested, factoryVars>>

-----------------------------------------------------------------------------
(* The main thread *)

\* The last steps of Initializer::start, unless a shutdown was requested by then
starts ==
  /\ MainAt("delay") /\ mutex # Main
  /\ \/ ~requested /\ delay /\ MainGoesTo("services")
     \/ requested /\ MainGoesTo("wait") /\ UNCHANGED factoryVars
  /\ UNCHANGED <<others, dispatcherVars>>

\* Config::load and initLogger have services of their own, and so have
\* startDistributed and startScheduler.
AddsServices == main \in {"delay", "services"}

addsService ==
  /\ AddsServices /\ mutex # Main
  /\ \E new \in Services :
       /\ accepted(new)
       /\ thread' = [thread EXCEPT ![new] = "created"]
       /\ mutex' = Main /\ adding' = new
  /\ UNCHANGED <<mainVars, others, services, threads, stopping, interrupted,
                 factoryVars>>

addedService ==
  /\ AddsServices /\ mutex = Main
  /\ listService
  /\ UNCHANGED <<mainVars, others, thread, stopping, interrupted, factoryVars>>

servicesAdded ==
  /\ MainAt("services") /\ mutex # Main
  /\ MainGoesTo("wait")
  /\ UNCHANGED <<others, dispatcherVars, factoryVars>>

waitForShutdown ==
  /\ MainAt("wait") /\ requested
  /\ MainGoesTo("stop")
  /\ UNCHANGED <<others, dispatcherVars, factoryVars>>

stopServices ==
  /\ \/ MainAt("stop") /\ lockToStop /\ MainGoesTo("interrupt")
     \/ MainAt("interrupt") /\ interrupt /\ UNCHANGED mainVars
     \/ MainAt("interrupt") /\ allInterrupted /\ MainGoesTo("join")
  /\ UNCHANGED <<others, factoryVars>>

joinServices ==
  /\ MainAt("join")
  /\ \/ joinLast /\ UNCHANGED mainVars
     \/ allJoined /\ MainGoesTo("end")
  /\ UNCHANGED <<others, factoryVars>>

end ==
  /\ \/ MainAt("end") /\ publisherTypes /\ MainGoesTo("deregister")
     \/ MainAt("deregister") /\ EndStep /\ UNCHANGED mainVars
     \/ MainAt("deregister") /\ clearPublishers /\ MainGoesTo("close")
  /\ UNCHANGED <<others, dispatcherVars>>

shutdownDatabase ==
  /\ MainAt("close")
  /\ open' = FALSE /\ main' = "exit"
  /\ UNCHANGED <<others, dispatcherVars, factoryVars>>

MainStep ==
  \/ starts \/ addsService \/ addedService \/ servicesAdded \/ waitForShutdown
  \/ stopServices \/ joinServices \/ end \/ shutdownDatabase

-----------------------------------------------------------------------------

PublisherThread(p) ==
  /\ PublisherStep(p)
  /\ UNCHANGED <<mainVars, others, dispatcherVars>>

\* A signal, or any thread
requestShutdown ==
  /\ ~requested /\ requested' = TRUE
  /\ UNCHANGED <<mainVars, enrollmentVars, dispatcherVars, factoryVars>>

ServerForgets ==
  /\ forget
  /\ UNCHANGED <<mainVars, requested, dispatcherVars, factoryVars>>

Exited == MainAt("exit") /\ UNCHANGED vars

Next ==
  \/ MainStep \/ requestShutdown \/ ServerForgets \/ Exited
  \/ \E s \in Services : ServiceStep(s)
  \/ \E p \in Publishers : PublisherThread(p)

\* Every thread that can go on does: each request ends within its timeout, and
\* each run() of a publisher returns.
Spec ==
  /\ Init /\ [][Next]_vars
  /\ WF_vars(MainStep)
  /\ \A s \in Services : WF_vars(ServiceStep(s))
  /\ \A p \in Publishers : WF_vars(PublisherThread(p))

-----------------------------------------------------------------------------

\* The database is closed only when every service and every publisher thread has
\* ended, services that were added while the shutdown began included: none of
\* them touches a closed database.
DatabaseOutlivesThreads ==
  ~open => /\ \A s \in Services : thread[s] \in {"new", "gone"}
           /\ \A p \in Publishers : loop[p] \in {"none", "done"}

\* At exit the resources of every publisher have been released, whether its
\* loop had run, was on its way, found its publisher gone, or never started.
TornDownAtExit == MainAt("exit") => resources = {}

\* A requested shutdown ends, whatever the services are doing: enrolling
\* without end against a server that does not answer, waiting for the node
\* key, or being added.
ShutdownEnds == requested ~> MainAt("exit")
=============================================================================
