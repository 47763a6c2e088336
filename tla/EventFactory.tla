---------------------------- MODULE EventFactory ----------------------------
(***************************************************************************)
(* The threads of the event publishers (eventfactory.cpp): delay starts a  *)
(* thread for every publisher that is set up, run is its loop, end         *)
(* deregisters the publishers and joins the threads.  A thread may still   *)
(* be on its way into the loop when its publisher is deregistered: the two *)
(* sides meet in the atomic flags ending_ and started_ only.  Platform     *)
(* publishers are represented by their resources, which setUp creates and  *)
(* tearDown releases.                                                      *)
(***************************************************************************)
CONSTANTS Publishers, NoPublisher

ASSUME FactoryAssumption == NoPublisher \notin Publishers

VARIABLES
  registered,   \* event_pubs_
  ending,       \* the publishers whose ending_ is set
  started,      \* the publishers whose started_ is set
  resources,    \* the publishers whose resources exist
  loop,         \* where the thread of each publisher is
  leaving,      \* the publishers that end has yet to deregister
  factoryLock,  \* the publisher whose deregistration holds factory_lock_
  seenStarted   \* what that deregistration read from started_

factoryVars ==
  <<registered, ending, started, resources, loop, leaving, factoryLock,
    seenStarted>>

Loops == {"none", "created", "fetched", "check", "running", "teardown", "done"}

FactoryTypeOK ==
  /\ {registered, ending, started, resources, leaving} \subseteq SUBSET Publishers
  /\ loop \in [Publishers -> Loops]
  /\ factoryLock \in Publishers \cup {NoPublisher}
  /\ seenStarted \in {"unread", "yes", "no"}

\* After registerEventPublisher: setUp may have failed for some.
FactoryInit ==
  /\ registered = Publishers /\ resources = Publishers
  /\ ending \in SUBSET Publishers /\ started = {}
  /\ loop = [p \in Publishers |-> "none"]
  /\ leaving = {} /\ factoryLock = NoPublisher /\ seenStarted = "unread"

LoopAt(p, place) == loop[p] = place

LoopGoesTo(p, place) == loop' = [loop EXCEPT ![p] = place]

endVars == <<leaving, factoryLock, seenStarted>>

\* A thread for each publisher that is not ending
delay ==
  /\ loop' = [p \in Publishers |->
                IF p \in registered \ ending THEN "created" ELSE loop[p]]
  /\ UNCHANGED <<registered, ending, started, resources, endVars>>

-----------------------------------------------------------------------------
(* EventFactory::run *)

fetch(p) ==
  /\ LoopAt(p, "created") /\ factoryLock = NoPublisher
  /\ LoopGoesTo(p, IF p \in registered THEN "fetched" ELSE "done")
  /\ UNCHANGED <<registered, ending, started, resources, endVars>>

hasStarted(p) ==
  /\ LoopAt(p, "fetched")
  /\ started' = started \cup {p}
  /\ LoopGoesTo(p, "check")
  /\ UNCHANGED <<registered, ending, resources, endVars>>

isEnding(p) ==
  /\ LoopAt(p, "check")
  /\ LoopGoesTo(p, IF p \in ending THEN "teardown" ELSE "running")
  /\ UNCHANGED <<registered, ending, started, resources, endVars>>

\* publisher->run() returns: the loop goes on, or ends because it failed.
returns(p) ==
  /\ LoopAt(p, "running")
  /\ \E next \in {"check", "teardown"} : LoopGoesTo(p, next)
  /\ UNCHANGED <<registered, ending, started, resources, endVars>>

tearDown(p) ==
  /\ LoopAt(p, "teardown")
  /\ resources' = resources \ {p}
  /\ LoopGoesTo(p, "done")
  /\ UNCHANGED <<registered, ending, started, endVars>>

PublisherStep(p) ==
  fetch(p) \/ hasStarted(p) \/ isEnding(p) \/ returns(p) \/ tearDown(p)

-----------------------------------------------------------------------------
(* EventFactory::end *)

publisherTypes ==
  /\ leaving' = registered
  /\ UNCHANGED <<registered, ending, started, resources, loop, factoryLock,
                 seenStarted>>

\* Mutant: the publisher is not marked as ending.
markNone(p) == ending

mark(p) == ending \cup {p}

\* deregisterEventPublisher: the flag is set under the lock, ...
deregister ==
  /\ factoryLock = NoPublisher
  /\ \E p \in leaving : factoryLock' = p /\ ending' = mark(p)
  /\ UNCHANGED <<registered, started, resources, loop, leaving, seenStarted>>

\* ... started_ is read ...
checkStarted ==
  /\ factoryLock # NoPublisher /\ seenStarted = "unread"
  /\ seenStarted' = IF factoryLock \in started THEN "yes" ELSE "no"
  /\ UNCHANGED <<registered, ending, started, resources, loop, leaving,
                 factoryLock>>

\* Mutant: a publisher without a loop is dropped as it is.
releasedNever == resources

\* ... and a publisher whose loop has not started is torn down and erased here;
\* the others are told to stop.
released ==
  IF seenStarted = "no" THEN resources \ {factoryLock} ELSE resources

deregistered ==
  /\ seenStarted # "unread"
  /\ resources' = released
  /\ registered' = IF seenStarted = "no" THEN registered \ {factoryLock}
                                         ELSE registered
  /\ leaving' = leaving \ {factoryLock}
  /\ factoryLock' = NoPublisher /\ seenStarted' = "unread"
  /\ UNCHANGED <<ending, started, loop>>

\* Mutant: the threads are detached, as end(false) does.
loopsJoinedNot == leaving = {} /\ factoryLock = NoPublisher

\* All publishers are deregistered and all threads joined.
loopsJoined ==
  /\ leaving = {} /\ factoryLock = NoPublisher
  /\ \A p \in Publishers : loop[p] \in {"none", "done"}

clearPublishers ==
  /\ loopsJoined
  /\ registered' = {}
  /\ UNCHANGED <<ending, started, resources, loop, endVars>>

EndStep == deregister \/ checkStarted \/ deregistered

-----------------------------------------------------------------------------

\* A publisher's run() is never executed on resources that were torn down: a
\* deregistration that finds the loop not started has set ending_ before, and the
\* thread that starts it afterwards finds the flag before its first run().
RunsOnlyWhileUp ==
  \A p \in Publishers : loop[p] = "running" => p \in resources
=============================================================================
