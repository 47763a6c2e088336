--------------------------- MODULE LifecycleProofs ---------------------------
(***************************************************************************)
(* Proofs about Lifecycle, for any services, publishers, attempts and      *)
(* keys.  Each of the three parts has an invariant over its own variables  *)
(* and the main thread's place; a step of another part leaves it alone.    *)
(***************************************************************************)
EXTENDS Lifecycle, SequenceTheorems, TLAPS

-----------------------------------------------------------------------------
(* The node key *)

Enrolling(c) == call[c].at \in {"enroll", "ask", "backoff"}

\* The thread that enrolls holds the mutex, and no key is stored while it does; a
\* client that waits for its next attempt has one left.
EnrollInv ==
  /\ EnrollmentTypeOK
  /\ \A c \in Clients : Enrolling(c) <=> holder = c
  /\ holder # NoClient => nodeKey = 0
  /\ nodeKey # 0 => /\ nodeKey = server.issued
                    /\ server.accepted \in {0, nodeKey}
  /\ \A c \in Clients : At(c, "wait") => call[c].attempt < Attempts

-----------------------------------------------------------------------------
(* The dispatcher *)

Listed(s) == \E i \in 1..Len(threads) : threads[i] = s

Over(s) == thread[s] \in {"new", "gone"}

\* Whoever runs is in the list that joinServices empties, or is about to be: the
\* thread that adds it holds the mutex.  Once stopServices has the mutex nothing is
\* added any more.
DispatchInv ==
  /\ DispatcherTypeOK
  /\ \A s \in Services : ~Over(s) => Listed(s) \/ adding = s
  /\ adding = Nobody <=> mutex = Nobody \/ main = "interrupt"
  /\ mutex = Main => main \in {"delay", "services", "interrupt"}
  /\ main = "interrupt" => mutex = Main
  /\ main \in {"interrupt", "join", "end", "deregister", "close", "exit"} => stopping
  /\ main \in {"end", "deregister", "close", "exit"} => \A s \in Services : Over(s)

-----------------------------------------------------------------------------
(* The publishers *)

InLoop(p) == loop[p] \in {"check", "running", "teardown"}

\* What the flags say of the loop: a deregistration that reads started_ has set
\* ending_ before, so a loop that it finds not started does not run; resources that
\* are gone belong to a publisher that is ending or done.
FlagsInv ==
  /\ \A p \in Publishers : InLoop(p) => p \in started
  /\ \A p \in Publishers : loop[p] \in {"none", "created", "fetched"} => p \notin started
  /\ \A p \in Publishers : p \in started /\ p \in resources => InLoop(p)
  /\ \A p \in Publishers : p \notin resources => p \in ending \/ loop[p] = "done"
  /\ factoryLock # NoPublisher => factoryLock \in ending /\ factoryLock \in leaving
  /\ seenStarted # "unread" => factoryLock # NoPublisher
  /\ seenStarted = "no" => loop[factoryLock] # "running"
  /\ seenStarted = "yes" => factoryLock \in started
  /\ RunsOnlyWhileUp

\* What the main thread's place says: resources belong to a publisher that is
\* registered, has yet to be deregistered, or has a loop that tears it down.
EndInv ==
  /\ main = "delay" => \A p \in Publishers : loop[p] = "none"
  /\ factoryLock # NoPublisher => main = "deregister"
  /\ main \notin {"deregister", "close", "exit"} => resources \subseteq registered
  /\ main = "deregister" => resources \subseteq leaving \cup started
  /\ main \in {"close", "exit"} =>
       resources = {} /\ \A p \in Publishers : loop[p] \in {"none", "done"}

FactoryInv == FactoryTypeOK /\ FlagsInv /\ EndInv

-----------------------------------------------------------------------------

MainInv == main \in MainPlaces /\ open \in BOOLEAN /\ (~open => main = "exit")

Inv == EnrollInv /\ DispatchInv /\ FactoryInv /\ MainInv

-----------------------------------------------------------------------------
(* The start *)

Servers == [accepted : 0..MaxKeys, issued : 0..MaxKeys, forgets : 0..MaxForgets]

\* The worker starts without a key and with all clients idle.
LEMMA EnrollInit == EnrollmentInit => EnrollInv
  <1> SUFFICES ASSUME EnrollmentInit PROVE EnrollInv OBVIOUS
  <1>1. 0 \in Tries /\ 0 \in 0..MaxKeys /\ 0 \in 0..Attempts /\ 0 \in 0..MaxForgets
    BY EnrollmentAssumption DEF Tries
  <1>2. Idle \in Calls
    BY <1>1 DEF Idle, Calls, Places
  <1>3. EnrollmentTypeOK
    <2>1. requested \in BOOLEAN
      BY DEF EnrollmentInit
    <2>2. server \in [accepted : 0..MaxKeys, issued : 0..MaxKeys, forgets : 0..MaxForgets]
      BY <1>1 DEF EnrollmentInit
    <2>3. call \in [Clients -> Calls]
      BY <1>2 DEF EnrollmentInit
    <2> QED BY <1>1, <2>1, <2>2, <2>3 DEF EnrollmentTypeOK, EnrollmentInit
  <1>4. \A c \in Clients : call[c].at = "idle"
    BY DEF EnrollmentInit, Idle
  <1> QED BY <1>3, <1>4, EnrollmentAssumption
          DEF EnrollmentInit, EnrollInv, Enrolling, At

\* No service runs, no publisher's thread exists.
LEMMA InitInv == Init => Inv
  <1> SUFFICES ASSUME Init PROVE Inv OBVIOUS
  <1>1. EnrollInv
    BY EnrollInit DEF Init
  <1>2. DispatchInv
    <2>1. threads \in Seq(Services)
      BY DEF Init, DispatcherInit
    <2>2. stopping \in BOOLEAN /\ thread \in [Services -> Threads]
      BY DEF Init, DispatcherInit, Threads
    <2>3. DispatcherTypeOK
      BY <2>1, <2>2 DEF Init, DispatcherInit, DispatcherTypeOK
    <2> QED BY <2>3, DispatcherAssumption DEF Init, DispatcherInit, DispatchInv, Over
  <1>3. FactoryInv
    BY FactoryAssumption
    DEF Init, FactoryInit, FactoryInv, FactoryTypeOK, FlagsInv, EndInv, InLoop, Loops,
        RunsOnlyWhileUp
  <1> QED BY <1>1, <1>2, <1>3 DEF Init, Inv, MainInv, MainPlaces

-----------------------------------------------------------------------------
(* Steps of the clients *)

\* One client goes to another place: what is left to show is about that client.
LEMMA ClientMoves ==
  ASSUME EnrollInv, NEW c \in Clients, NEW r \in Calls,
         call' = [call EXCEPT ![c] = r],
         requested' = requested, nodeKey' \in 0..MaxKeys, server' \in Servers,
         \/ holder' = holder /\ (Enrolling(c) <=> r.at \in {"enroll", "ask", "backoff"})
         \/ holder = NoClient /\ holder' = c /\ r.at = "enroll"
         \/ holder = c /\ holder' = NoClient /\ r.at \notin {"enroll", "ask", "backoff"},
         holder' # NoClient => nodeKey' = 0,
         nodeKey' # 0 => /\ nodeKey' = server'.issued
                         /\ server'.accepted \in {0, nodeKey'},
         r.at = "wait" => r.attempt < Attempts
  PROVE  EnrollInv'
  <1>1. call'[c] = r /\ \A d \in Clients \ {c} : call'[d] = call[d]
    BY DEF EnrollInv, EnrollmentTypeOK
  <1>2. \A d \in Clients : Enrolling(d)' <=> holder' = d
    BY <1>1, EnrollmentAssumption DEF EnrollInv, Enrolling
  <1>3. \A d \in Clients : At(d, "wait")' => call'[d].attempt < Attempts
    BY <1>1 DEF EnrollInv, At
  <1>4. call' \in [Clients -> Calls]
    BY DEF EnrollInv, EnrollmentTypeOK
  <1>5. EnrollmentTypeOK'
    BY <1>4 DEF EnrollInv, EnrollmentTypeOK, Servers
  <1> QED BY <1>2, <1>3, <1>5 DEF EnrollInv

\* Every step of a client keeps the invariant of the node key.
LEMMA ClientKeeps ==
  ASSUME EnrollInv, NEW c \in Clients, go(c) \/ ClientStep(c), requested' = requested
  PROVE  EnrollInv'
  <1> DEFINE k == call[c]
  <1>a. /\ MaxKeys \in Nat /\ Attempts \in Nat \ {0} /\ EnrollAttempts \in Nat
        /\ NoClient \notin Clients
    BY EnrollmentAssumption
  <1>t. /\ k \in Calls /\ nodeKey \in 0..MaxKeys /\ server \in Servers
        /\ holder \in Clients \cup {NoClient}
    BY DEF EnrollInv, EnrollmentTypeOK, Servers
  <1>h. Enrolling(c) <=> holder = c
    BY DEF EnrollInv
  <1>s. /\ holder # NoClient => nodeKey = 0
        /\ nodeKey # 0 => nodeKey = server.issued /\ server.accepted \in {0, nodeKey}
        /\ At(c, "wait") => k.attempt < Attempts
    BY DEF EnrollInv
  <1>n. 0 \in Tries /\ 1 \in Tries /\ 0 \in 0..MaxKeys /\ {0, 1} \subseteq 0..Attempts
    BY <1>a DEF Tries
  <1>0. Idle \in Calls /\ Idle.at = "idle"
    BY <1>n DEF Idle, Calls, Places
  \* A step that leaves the mutex, the key and the server alone.
  <1>m. ASSUME NEW r \in Calls, call' = [call EXCEPT ![c] = r],
               UNCHANGED <<nodeKey, holder, server>>,
               Enrolling(c) <=> r.at \in {"enroll", "ask", "backoff"},
               r.at = "wait" => r.attempt < Attempts
        PROVE  EnrollInv'
    BY <1>m, <1>t, <1>s, ClientMoves
  \* getNodeKey returns.
  <1>r. ASSUME NEW key \in 0..MaxKeys, returnKey(c, key), Enrolling(c),
               nodeKey' \in 0..MaxKeys, server' \in Servers,
               nodeKey' # 0 => /\ nodeKey' = server'.issued
                               /\ server'.accepted \in {0, nodeKey'}
        PROVE  EnrollInv'
    <2> DEFINE r == [k EXCEPT !.at = "send", !.key = key, !.try = 0]
    <2>1. r \in Calls /\ r.at = "send"
      BY <1>t, <1>n DEF Calls, Places
    <2>2. call' = [call EXCEPT ![c] = r] /\ holder' = NoClient
      BY <1>r DEF returnKey
    <2> QED BY <1>r, <1>h, <2>1, <2>2, ClientMoves
  <1>1. CASE go(c)
    <2> DEFINE r == [Idle EXCEPT !.at = "key", !.attempt = 1]
    <2>1. r \in Calls /\ r.at = "key"
      BY <1>n, <1>0 DEF Calls, Places
    <2> QED BY <1>1, <1>m, <2>1 DEF go, Enrolling, At
  <1>2. CASE getNodeKey(c)
    <2>1. CASE nodeKey # 0
      <3> DEFINE r == [k EXCEPT !.at = "send", !.key = nodeKey]
      <3>1. r \in Calls /\ r.at = "send"
        BY <1>t DEF Calls, Places
      <3>2. call' = [call EXCEPT ![c] = r] /\ UNCHANGED <<nodeKey, holder, server>>
        BY <1>2, <2>1 DEF getNodeKey, takeKey
      <3> QED BY <1>2, <1>m, <3>1, <3>2 DEF getNodeKey, Enrolling, At
    <2>2. CASE nodeKey = 0
      <3> DEFINE r == [k EXCEPT !.at = "enroll"]
      <3>1. r \in Calls /\ r.at = "enroll"
        BY <1>t DEF Calls, Places
      <3>2. /\ call' = [call EXCEPT ![c] = r] /\ UNCHANGED <<nodeKey, server>>
            /\ holder = NoClient /\ holder' = c
        BY <1>2, <2>2 DEF getNodeKey, takeKey, UpgradeLock
      <3> QED BY <1>t, <2>2, <3>1, <3>2, ClientMoves
    <2> QED BY <2>1, <2>2
  <1>3. CASE enroll(c)
    <2>0. Enrolling(c)
      BY <1>3 DEF enroll, At, Enrolling
    <2>1. CASE returnKey(c, 0) /\ UNCHANGED <<nodeKey, server>>
      BY <1>a, <1>t, <1>s, <1>r, <2>0, <2>1
    <2>2. CASE call' = [call EXCEPT ![c].at = "ask", ![c].try = 1]
      <3> DEFINE r == [k EXCEPT !.at = "ask", !.try = 1]
      <3>1. r \in Calls /\ r.at = "ask"
        BY <1>t, <1>n DEF Calls, Places
      <3>2. call' = [call EXCEPT ![c] = r] /\ UNCHANGED <<nodeKey, server>>
        BY <1>3, <2>2 DEF enroll
      <3> QED BY <1>3, <1>m, <2>0, <2>1, <3>1, <3>2 DEF enroll
    <2> QED BY <1>3, <2>1, <2>2 DEF enroll
  <1>4. CASE requestKey(c)
    <2>0. Enrolling(c) /\ k.at = "ask" /\ holder = c /\ nodeKey = 0
      BY <1>4, <1>h, <1>s, <1>a DEF requestKey, At, Enrolling
    <2>1. ASSUME issues
          PROVE  /\ server' \in Servers /\ server'.issued = server.issued + 1
                 /\ server'.accepted = server.issued + 1
                 /\ server.issued + 1 \in 0..MaxKeys
      <3>1. server.issued + 1 \in 0..MaxKeys
        BY <1>a, <1>t, <2>1 DEF issues, Servers
      <3> QED BY <1>t, <2>1, <3>1 DEF issues, Servers
    <2>2. ASSUME tryAgain(c), UNCHANGED nodeKey, server' \in Servers
          PROVE  EnrollInv'
      <3>1. CASE k.try = EnrollAttempts
        BY <1>a, <2>0, <2>2, <3>1, <1>r DEF tryAgain
      <3>2. CASE k.try # EnrollAttempts
        <4> DEFINE t == IF EnrollAttempts > 0 THEN k.try + 1 ELSE k.try
                   r == [k EXCEPT !.at = "backoff", !.try = t]
        <4>1. t \in Tries
          BY <1>a, <1>t, <3>2 DEF Calls, Tries
        <4>2. r \in Calls /\ r.at = "backoff"
          BY <1>t, <4>1 DEF Calls, Places
        <4>3. call' = [call EXCEPT ![c] = r] /\ holder' = holder
          BY <2>2, <3>2 DEF tryAgain
        <4> QED BY <2>0, <2>2, <4>2, <4>3, <1>t, ClientMoves
      <3> QED BY <3>1, <3>2
    <2>3. CASE issues /\ nodeKey' = server.issued + 1 /\ returnKey(c, server.issued + 1)
      BY <2>0, <2>1, <2>3, <1>r
    <2> QED BY <1>4, <1>t, <2>1, <2>2, <2>3 DEF requestKey
  <1>5. CASE backoff(c)
    <2>0. Enrolling(c)
      BY <1>5 DEF backoff, At, Enrolling
    <2>1. CASE returnKey(c, 0) /\ UNCHANGED <<nodeKey, server>>
      BY <1>a, <1>t, <1>s, <1>r, <2>0, <2>1
    <2>2. CASE call' = [call EXCEPT ![c].at = "ask"]
      <3> DEFINE r == [k EXCEPT !.at = "ask"]
      <3>1. r \in Calls /\ r.at = "ask"
        BY <1>t DEF Calls, Places
      <3>2. call' = [call EXCEPT ![c] = r] /\ UNCHANGED <<nodeKey, server>>
        BY <1>5, <2>2 DEF backoff
      <3> QED BY <1>5, <1>m, <2>0, <2>1, <3>1, <3>2 DEF backoff
    <2> QED BY <1>5, <2>1, <2>2 DEF backoff
  <1>f. ASSUME failed(c)
        PROVE  \E r \in Calls : /\ call' = [call EXCEPT ![c] = r]
                                /\ r.at \in {"idle", "wait"}
                                /\ r.at = "wait" => r.attempt < Attempts
    <2>1. CASE k.attempt = Attempts
      BY <1>f, <1>0, <2>1 DEF failed
    <2>2. CASE k.attempt # Attempts
      <3> DEFINE r == [Idle EXCEPT !.at = "wait", !.attempt = k.attempt]
      <3>1. r \in Calls /\ r.at = "wait" /\ r.attempt < Attempts
        <4>1. k.attempt \in 0..Attempts /\ k.attempt < Attempts
          BY <1>t, <1>a, <2>2 DEF Calls
        <4> QED BY <1>0, <4>1 DEF Calls, Places
      <3> QED BY <1>f, <2>2, <3>1 DEF failed
    <2> QED BY <2>1, <2>2
  <1>6. CASE answer(c)
    <2>1. PICK a \in {verdict(k.key), "lost"} :
            call' = [call EXCEPT ![c] = [k EXCEPT !.at = "answered", !.answer = a,
                                                  !.key = 0]]
      BY <1>6 DEF answer
    <2> DEFINE r == [k EXCEPT !.at = "answered", !.answer = a, !.key = 0]
    <2>2. r \in Calls /\ r.at = "answered"
      BY <1>t, <1>n DEF Calls, Places, verdict
    <2> QED BY <1>6, <1>m, <2>1, <2>2 DEF answer, Enrolling, At
  <1>7. CASE receive(c)
    <2>1. \E r \in Calls : /\ call' = [call EXCEPT ![c] = r]
                           /\ r.at \in {"idle", "wait", "clear"}
                           /\ r.at = "wait" => r.attempt < Attempts
      <3>1. CASE k.answer = "ok"
        BY <1>7, <1>0, <3>1 DEF receive
      <3>2. CASE k.answer = "invalid" /\ ~DisableReenrollment
        <4> DEFINE r == [k EXCEPT !.at = "clear"]
        <4>1. r \in Calls /\ r.at = "clear"
          BY <1>t DEF Calls, Places
        <4>2. call' = [call EXCEPT ![c] = r]
          BY <1>7, <3>2 DEF receive
        <4> QED BY <4>1, <4>2
      <3>3. CASE k.answer # "ok" /\ ~(k.answer = "invalid" /\ ~DisableReenrollment)
        BY <1>7, <1>f, <3>3 DEF receive
      <3> QED BY <3>1, <3>2, <3>3
    <2> QED BY <1>7, <1>m, <2>1 DEF receive, Enrolling, At
  <1>8. CASE clearNodeKey(c)
    <2>1. PICK r \in Calls : /\ call' = [call EXCEPT ![c] = r]
                             /\ r.at \in {"idle", "wait"}
                             /\ r.at = "wait" => r.attempt < Attempts
      BY <1>8, <1>f DEF clearNodeKey
    <2>2. nodeKey' = 0 /\ holder' = holder /\ server' = server /\ ~Enrolling(c)
      BY <1>8 DEF clearNodeKey, Enrolling, At
    <2> QED BY <1>n, <1>t, <1>s, <2>1, <2>2, ClientMoves
  <1>9. CASE retry(c)
    <2> DEFINE r == IF requested THEN Idle
                    ELSE [Idle EXCEPT !.at = "key", !.attempt = k.attempt + 1]
    <2>1. r \in Calls /\ r.at \in {"idle", "key"}
      <3>1. k.attempt + 1 \in 0..Attempts
        BY <1>9, <1>a, <1>s, <1>t DEF Calls, retry
      <3> QED BY <1>0, <3>1 DEF Calls, Places
    <2> QED BY <1>9, <1>m, <2>1 DEF retry, Enrolling, At
  <1> QED BY <1>1, <1>2, <1>3, <1>4, <1>5, <1>6, <1>7, <1>8, <1>9 DEF ClientStep

\* The server may forget the host at any time.
LEMMA ForgetKeeps ==
  ASSUME EnrollInv, forget, requested' = requested PROVE EnrollInv'
  <1>1. server' \in Servers /\ server'.accepted = 0 /\ server'.issued = server.issued
    <2>1. server \in Servers /\ server.forgets + 1 \in 0..MaxForgets /\ 0 \in 0..MaxKeys
      BY EnrollmentAssumption DEF EnrollInv, EnrollmentTypeOK, Servers, forget
    <2> QED BY <2>1 DEF forget, Servers
  <1>2. EnrollmentTypeOK'
    BY <1>1 DEF EnrollInv, EnrollmentTypeOK, forget, Servers
  <1> QED BY <1>1, <1>2 DEF EnrollInv, forget, Enrolling, At

\* A step of another part, a requested shutdown included, leaves the key alone.
LEMMA EnrollStutters ==
  ASSUME EnrollInv, UNCHANGED enrollmentVars, requested' \in BOOLEAN PROVE EnrollInv'
  BY DEF EnrollInv, EnrollmentTypeOK, enrollmentVars, Enrolling, At

-----------------------------------------------------------------------------
(* Steps of the dispatcher *)

\* A thread that is alive goes to another place.
LEMMA ThreadMoves ==
  ASSUME DispatchInv, NEW s \in Services, NEW place \in Threads, ~Over(s),
         ThreadGoesTo(s, place), main' = main
  PROVE  DispatchInv'
  BY DEF DispatchInv, DispatcherTypeOK, ThreadGoesTo, Over, Listed

\* The first half of addService: the new thread is not listed, but its creator has
\* the mutex.
LEMMA Creates ==
  ASSUME DispatchInv, NEW new \in Services, accepted(new), adding' = new,
         NEW owner \in Services \cup {Main}, mutex' = owner,
         owner = Main => main \in {"delay", "services"},
         thread' \in [Services -> Threads],
         \A s \in Services \ {new} : Over(s) => Over(s)',
         UNCHANGED <<services, threads, stopping, interrupted, main>>
  PROVE  DispatchInv'
  <1>1. DispatcherTypeOK'
    BY DEF DispatchInv, DispatcherTypeOK
  <1>2. \A s \in Services : Over(s)' \/ Listed(s)' \/ adding' = s
    BY DispatcherAssumption DEF DispatchInv, Listed, accepted, WriteLock
  <1> QED BY <1>1, <1>2, DispatcherAssumption DEF DispatchInv, accepted, WriteLock

\* The second half lists it.
LEMMA Lists ==
  ASSUME DispatchInv, listService, mutex # Nobody, main # "interrupt",
         thread' \in [Services -> Threads],
         \A s \in Services : Over(s) => Over(s)',
         UNCHANGED <<stopping, interrupted, main>>
  PROVE  DispatchInv'
  <1>1. adding \in Services
    BY DEF DispatchInv, DispatcherTypeOK
  <1>2. /\ threads \in Seq(Services) /\ threads' = Append(threads, adding)
        /\ threads' \in Seq(Services)
        /\ Len(threads') = Len(threads) + 1 /\ threads'[Len(threads) + 1] = adding
        /\ \A i \in 1..Len(threads) : threads'[i] = threads[i]
    BY <1>1 DEF DispatchInv, DispatcherTypeOK, listService
  <1>3. DispatcherTypeOK'
    BY <1>1, <1>2 DEF DispatchInv, DispatcherTypeOK, listService
  <1>4. \A s \in Services : Listed(s) \/ adding = s => Listed(s)'
    <2> SUFFICES ASSUME NEW s \in Services, Listed(s) \/ adding = s PROVE Listed(s)'
      OBVIOUS
    <2>0. Len(threads) \in Nat
      BY <1>2
    <2>1. CASE adding = s
      <3>1. Len(threads) + 1 \in 1..Len(threads')
        BY <1>2, <2>0
      <3> QED BY <1>2, <2>1, <3>1 DEF Listed
    <2>2. CASE Listed(s)
      <3>1. PICK i \in 1..Len(threads) : threads[i] = s
        BY <2>2 DEF Listed
      <3>2. i \in 1..Len(threads') /\ threads'[i] = s
        BY <1>2, <2>0, <3>1
      <3> QED BY <3>2 DEF Listed
    <2> QED BY <2>1, <2>2
  <1> QED BY <1>3, <1>4, DispatcherAssumption DEF DispatchInv, listService

\* Every step of a service's thread keeps the invariant of the dispatcher.
LEMMA ServiceKeeps ==
  ASSUME Inv, NEW s \in Services, ServiceStep(s) PROVE DispatchInv'
  <1>0. main' = main /\ DispatchInv
    BY DEF ServiceStep, mainVars, Inv
  <1>t. thread \in [Services -> Threads]
    BY DEF Inv, DispatchInv, DispatcherTypeOK
  <1>1. CASE UNCHANGED dispatcherVars
    BY <1>0, <1>1 DEF DispatchInv, DispatcherTypeOK, dispatcherVars, Over, Listed
  <1>2. CASE run(s)
    <2>1. ThreadGoesTo(s, "loop") /\ ~Over(s)
      BY <1>2 DEF run, ThreadGoesTo, ThreadAt, Over
    <2> QED BY <1>0, <2>1, ThreadMoves DEF Threads
  <1>3. CASE removeService(s)
    BY <1>0, <1>3, DispatcherAssumption
    DEF DispatchInv, DispatcherTypeOK, removeService, Over, Listed, Threads
  <1>4. CASE iterate(s)
    <2>1. ThreadGoesTo(s, "ended") \/ ThreadGoesTo(s, "work")
      BY <1>4 DEF iterate
    <2> QED BY <1>0, <1>4, <2>1, ThreadMoves DEF Threads, iterate, Over, ThreadAt
  <1>5. CASE requests(s)
    BY <1>0, <1>5, ThreadMoves DEF Threads, requests, Over, ThreadAt
  <1>6. CASE adds(s)
    <2>1. CASE ThreadGoesTo(s, "loop")
      BY <1>0, <1>6, <2>1, ThreadMoves DEF Threads, adds, Over, ThreadAt
    <2>2. ASSUME NEW new \in Services \ {s}, accepted(new),
                 thread' = [thread EXCEPT ![s] = "adding", ![new] = "created"],
                 mutex' = s, adding' = new,
                 UNCHANGED <<services, threads, stopping, interrupted>>
          PROVE  DispatchInv'
      <3>1. thread' \in [Services -> Threads]
        BY <1>t, <2>2 DEF Threads
      <3>2. \A u \in Services \ {new} : Over(u)' <=> Over(u)
        BY <1>t, <1>6, <2>2 DEF Over, adds, ThreadAt
      <3> QED BY <1>0, <2>2, <3>1, <3>2, DispatcherAssumption, Creates
    <2> QED BY <1>6, <2>1, <2>2 DEF adds
  <1>7. CASE added(s)
    <2>1. \A u \in Services : Over(u)' <=> Over(u)
      BY <1>t, <1>7 DEF Over, added, ThreadAt
    <2>2. thread' \in [Services -> Threads] /\ mutex # Nobody /\ main # "interrupt"
      BY <1>0, <1>t, <1>7, DispatcherAssumption DEF added, Threads, DispatchInv
    <2> QED BY <1>0, <1>7, <2>1, <2>2, Lists DEF added
  <1>8. CASE worked(s)
    <2>1. ThreadGoesTo(s, "ended") \/ ThreadGoesTo(s, "loop")
      BY <1>8 DEF worked
    <2> QED BY <1>0, <1>8, <2>1, ThreadMoves DEF Threads, worked, Over, ThreadAt
  <1> QED BY <1>1, <1>2, <1>3, <1>4, <1>5, <1>6, <1>7, <1>8 DEF ServiceStep

\* A sequence without its last element.
LEMMA WithoutLast ==
  ASSUME NEW S, NEW seq \in Seq(S), NEW n \in Nat, n = Len(seq), n > 0
  PROVE  /\ SubSeq(seq, 1, n - 1) \in Seq(S) /\ Len(SubSeq(seq, 1, n - 1)) = n - 1
         /\ \A i \in 1..n-1 : SubSeq(seq, 1, n - 1)[i] = seq[i]
  <1>1. PICK m \in Nat : m = n - 1
    OBVIOUS
  <1>2. \A i \in 1..m : seq[i] \in S
    BY <1>1
  <1>3. 1..m-1+1 = 1..m /\ (IF 1 <= m THEN m-1+1 ELSE 0) = m
    OBVIOUS
  <1>4. /\ SubSeq(seq, 1, m) \in Seq(S)
        /\ Len(SubSeq(seq, 1, m)) = IF 1 <= m THEN m-1+1 ELSE 0
        /\ \A i \in 1..m-1+1 : SubSeq(seq, 1, m)[i] = seq[1+i-1]
    BY <1>2, SubSeqProperties
  <1>5. \A i \in 1..m : SubSeq(seq, 1, m)[i] = seq[i]
    <2> SUFFICES ASSUME NEW i \in 1..m PROVE SubSeq(seq, 1, m)[i] = seq[i] OBVIOUS
    <2>1. 1+i-1 = i
      OBVIOUS
    <2> QED BY <1>3, <1>4, <2>1
  <1> QED BY <1>1, <1>3, <1>4, <1>5

\* Every step of the main thread keeps it: the list is empty only when every thread
\* has ended, and nothing is added after that.
LEMMA MainDispatches == ASSUME Inv, MainStep PROVE DispatchInv'
  <1>0. DispatchInv /\ main \in MainPlaces
    BY DEF Inv, MainInv
  <1>t. thread \in [Services -> Threads] /\ threads \in Seq(Services)
    BY <1>0 DEF DispatchInv, DispatcherTypeOK
  <1> USE DispatcherAssumption
  <1>1. ASSUME UNCHANGED dispatcherVars, mutex # Main,
               main \in {"delay", "services", "wait"},
               main' \in {"services", "wait", "stop"}
        PROVE  DispatchInv'
    BY <1>0, <1>1 DEF DispatchInv, DispatcherTypeOK, dispatcherVars, Over, Listed
  <1>2. CASE starts \/ servicesAdded \/ waitForShutdown
    <2>1. mutex # Main
      BY <1>0, <1>2 DEF DispatchInv, starts, servicesAdded, waitForShutdown, MainAt
    <2> QED BY <1>1, <1>2, <2>1
            DEF starts, servicesAdded, waitForShutdown, MainAt, MainGoesTo
  <1>3. CASE addsService
    <2>1. PICK new \in Services :
            /\ accepted(new)
            /\ thread' = [thread EXCEPT ![new] = "created"]
            /\ mutex' = Main /\ adding' = new
      BY <1>3 DEF addsService
    <2>2. main' = main /\ main \in {"delay", "services"}
          /\ UNCHANGED <<services, threads, stopping, interrupted>>
      BY <1>3 DEF addsService, AddsServices, mainVars
    <2>3. thread' \in [Services -> Threads]
      BY <1>t, <2>1 DEF Threads
    <2>4. \A s \in Services \ {new} : Over(s) => Over(s)'
      BY <1>t, <2>1 DEF Over
    <2> QED BY <1>0, <2>1, <2>2, <2>3, <2>4, Creates
  <1>4. CASE addedService
    <2>1. /\ main' = main /\ main \in {"delay", "services"} /\ mutex # Nobody
          /\ UNCHANGED <<thread, stopping, interrupted>> /\ listService
      BY <1>4 DEF addedService, AddsServices, mainVars
    <2> QED BY <1>0, <1>t, <2>1, Lists DEF Over
  <1>5. CASE stopServices
    <2>1. CASE MainAt("stop") /\ lockToStop /\ MainGoesTo("interrupt")
      BY <1>0, <2>1 DEF DispatchInv, DispatcherTypeOK, Over, Listed, MainAt, MainGoesTo,
                        lockToStop, WriteLock
    <2>2. CASE MainAt("interrupt") /\ interrupt /\ UNCHANGED mainVars
      <3>1. interrupted' \subseteq Services
        BY <1>0, <2>2 DEF interrupt, DispatchInv, DispatcherTypeOK
      <3> QED BY <1>0, <2>2, <3>1 DEF DispatchInv, DispatcherTypeOK, Over, Listed,
                                      mainVars, interrupt
    <2>3. CASE MainAt("interrupt") /\ allInterrupted /\ MainGoesTo("join")
      BY <1>0, <2>3 DEF DispatchInv, DispatcherTypeOK, Over, Listed, MainAt, MainGoesTo,
                        allInterrupted
    <2> QED BY <1>5, <2>1, <2>2, <2>3 DEF stopServices
  <1>6. CASE joinServices
    <2>1. CASE joinLast /\ UNCHANGED mainVars
      <3> DEFINE n == Len(threads)
      <3>1. n \in Nat /\ n > 0 /\ threads[n] \in Services /\ thread[threads[n]] = "gone"
        BY <1>t, <2>1 DEF joinLast, ThreadAt
      <3>2. /\ threads' \in Seq(Services) /\ Len(threads') = n - 1
            /\ \A i \in 1..n-1 : threads'[i] = threads[i]
        <4>1. threads' = SubSeq(threads, 1, n - 1)
          BY <2>1 DEF joinLast
        <4>2. /\ SubSeq(threads, 1, n - 1) \in Seq(Services)
              /\ Len(SubSeq(threads, 1, n - 1)) = n - 1
              /\ \A i \in 1..n-1 : SubSeq(threads, 1, n - 1)[i] = threads[i]
          BY <1>t, <3>1, WithoutLast, Zenon
        <4> QED BY <4>1, <4>2, Zenon
      <3>3. \A s \in Services : Over(s)' <=> Over(s)
        BY <2>1 DEF joinLast, Over
      <3>4. \A s \in Services : ~Over(s) => Listed(s)' \/ adding' = s
        <4> SUFFICES ASSUME NEW s \in Services, ~Over(s), Listed(s) PROVE Listed(s)'
          BY <1>0, <2>1 DEF DispatchInv, joinLast
        <4>1. PICK i \in 1..n : threads[i] = s
          BY DEF Listed
        <4>2. i # n
          BY <3>1, <4>1 DEF Over
        <4>3. i \in 1..Len(threads') /\ threads'[i] = s
          BY <3>1, <3>2, <4>1, <4>2
        <4> QED BY <4>3 DEF Listed
      <3>5. DispatcherTypeOK'
        BY <1>0, <2>1, <3>2 DEF DispatchInv, DispatcherTypeOK, joinLast
      <3> QED BY <1>0, <2>1, <3>3, <3>4, <3>5 DEF DispatchInv, joinLast, mainVars
    <2>2. CASE allJoined /\ MainGoesTo("end")
      <3>1. MainAt("join") /\ adding = Nobody /\ stopping
        BY <1>0, <1>6, <2>2 DEF joinServices, allJoined, WriteLock, DispatchInv, MainAt
      <3>2. \A s \in Services : Over(s)
        BY <1>0, <2>2, <3>1 DEF DispatchInv, allJoined, Listed
      <3> QED BY <1>0, <2>2, <3>1, <3>2
              DEF DispatchInv, DispatcherTypeOK, allJoined, Over, MainGoesTo, WriteLock
    <2> QED BY <1>6, <2>1, <2>2 DEF joinServices
  <1>7. CASE end \/ shutdownDatabase
    <2>1. /\ main \in {"end", "deregister", "close"} /\ UNCHANGED dispatcherVars
          /\ main' \in {"deregister", "close", "exit"}
      BY <1>7 DEF end, shutdownDatabase, MainAt, MainGoesTo, mainVars
    <2> QED BY <1>0, <2>1 DEF DispatchInv, DispatcherTypeOK, dispatcherVars, Over, Listed
  <1> QED BY <1>2, <1>3, <1>4, <1>5, <1>6, <1>7 DEF MainStep

-----------------------------------------------------------------------------
(* Steps of the publishers *)

\* A step of a publisher's thread.
LEMMA PublisherKeeps ==
  ASSUME Inv, NEW p \in Publishers, PublisherThread(p) PROVE FactoryInv'
  <1> USE FactoryAssumption
      DEF Inv, FactoryInv, FactoryTypeOK, FlagsInv, EndInv, InLoop, Loops, LoopAt,
          LoopGoesTo, endVars, mainVars, RunsOnlyWhileUp
  <1>1. CASE fetch(p)
    BY <1>1 DEF fetch, PublisherThread
  <1>2. CASE hasStarted(p)
    BY <1>2 DEF hasStarted, PublisherThread
  <1>3. CASE isEnding(p)
    BY <1>3 DEF isEnding, PublisherThread
  <1>4. CASE returns(p)
    BY <1>4 DEF returns, PublisherThread
  <1>5. CASE tearDown(p)
    BY <1>5 DEF tearDown, PublisherThread
  <1> QED BY <1>1, <1>2, <1>3, <1>4, <1>5 DEF PublisherThread, PublisherStep

\* A step of the main thread: delay, and the deregistrations of end.
LEMMA MainEnds == ASSUME Inv, MainStep PROVE FactoryInv'
  <1> USE FactoryAssumption
      DEF Inv, FactoryInv, FactoryTypeOK, FlagsInv, EndInv, InLoop, Loops,
          endVars, mainVars, RunsOnlyWhileUp, MainAt, MainGoesTo
  <1>1. CASE starts
    BY <1>1 DEF starts, delay, factoryVars
  <1>2. CASE servicesAdded \/ waitForShutdown \/ stopServices \/ joinServices
    <2>1. UNCHANGED factoryVars
      BY <1>2 DEF servicesAdded, waitForShutdown, stopServices, joinServices
    <2>2. /\ main \notin {"delay", "deregister", "close", "exit"}
          /\ main' \notin {"delay", "deregister", "close", "exit"}
      BY <1>2 DEF servicesAdded, waitForShutdown, stopServices, joinServices
    <2> QED BY <2>1, <2>2 DEF factoryVars
  <1>7. CASE addsService \/ addedService
    <2>1. UNCHANGED factoryVars /\ main' = main
      BY <1>7 DEF addsService, addedService
    <2> QED BY <2>1 DEF factoryVars
  <1>3. CASE MainAt("end") /\ publisherTypes /\ MainGoesTo("deregister")
    BY <1>3 DEF publisherTypes
  <1>4. CASE MainAt("deregister") /\ EndStep /\ UNCHANGED mainVars
    <2>1. CASE deregister
      BY <1>4, <2>1 DEF deregister, mark
    <2>2. CASE checkStarted
      BY <1>4, <2>2 DEF checkStarted
    <2>3. CASE deregistered
      BY <1>4, <2>3 DEF deregistered, released
    <2> QED BY <1>4, <2>1, <2>2, <2>3 DEF EndStep
  <1>5. CASE MainAt("deregister") /\ clearPublishers /\ MainGoesTo("close")
    BY <1>5 DEF clearPublishers, loopsJoined
  <1>6. CASE shutdownDatabase
    BY <1>6 DEF shutdownDatabase, factoryVars
  <1> QED BY <1>1, <1>2, <1>3, <1>4, <1>5, <1>6, <1>7 DEF MainStep, end

-----------------------------------------------------------------------------
(* The whole *)

\* Init and every step keep the invariant.
LEMMA Invariance == Spec => []Inv
  <1>1. Inv /\ [Next]_vars => Inv'
    <2> SUFFICES ASSUME Inv, [Next]_vars PROVE Inv' OBVIOUS
    <2>0. /\ EnrollInv /\ DispatchInv /\ FactoryInv /\ MainInv
          /\ requested \in BOOLEAN
      BY DEF Inv, EnrollInv, EnrollmentTypeOK
    <2>d. ASSUME UNCHANGED <<dispatcherVars, main>> PROVE DispatchInv'
      BY <2>0, <2>d DEF DispatchInv, DispatcherTypeOK, dispatcherVars, Over, Listed
    <2>f. ASSUME UNCHANGED <<factoryVars, main>> PROVE FactoryInv'
      BY <2>0, <2>f DEF FactoryInv, FactoryTypeOK, FlagsInv, EndInv, InLoop, factoryVars,
                        RunsOnlyWhileUp
    <2>1. CASE MainStep
      <3>1. UNCHANGED <<requested, enrollmentVars>>
        BY <2>1 DEF MainStep, starts, addsService, addedService, servicesAdded,
                    waitForShutdown, stopServices, joinServices, end, shutdownDatabase,
                    others
      <3>2. MainInv'
        BY <2>0, <2>1 DEF MainStep, starts, addsService, addedService, servicesAdded,
                    waitForShutdown, stopServices, joinServices, end, shutdownDatabase,
                    MainInv, MainPlaces, MainAt, MainGoesTo, mainVars
      <3> QED BY <2>0, <2>1, <3>1, <3>2, EnrollStutters, MainDispatches, MainEnds DEF Inv
    <2>2. ASSUME NEW s \in Services, ServiceStep(s) PROVE Inv'
      <3>1. UNCHANGED <<mainVars, requested, factoryVars>>
        BY <2>2 DEF ServiceStep
      <3>2. EnrollInv'
        <4>1. go(s) \/ ClientStep(s) \/ UNCHANGED enrollmentVars
          BY <2>2 DEF ServiceStep, iterate, requests, adds, added, worked
        <4> QED BY <2>0, <3>1, <4>1, ClientsAssumption, ClientKeeps, EnrollStutters
      <3> QED BY <2>0, <2>2, <2>f, <3>1, <3>2, ServiceKeeps DEF Inv, MainInv, mainVars
    <2>3. ASSUME NEW p \in Publishers, PublisherThread(p) PROVE Inv'
      <3>1. UNCHANGED <<mainVars, requested, enrollmentVars, dispatcherVars>>
        BY <2>3 DEF PublisherThread, others
      <3> QED BY <2>0, <2>3, <2>d, <3>1, EnrollStutters, PublisherKeeps
              DEF Inv, MainInv, mainVars
    <2>4. CASE requestShutdown
      BY <2>0, <2>4, <2>d, <2>f, EnrollStutters DEF requestShutdown, Inv, MainInv, mainVars
    <2>5. CASE ServerForgets
      BY <2>0, <2>5, <2>d, <2>f, ForgetKeeps DEF ServerForgets, Inv, MainInv, mainVars
    <2>6. CASE UNCHANGED vars
      BY <2>0, <2>6, <2>d, <2>f, EnrollStutters DEF vars, Inv, MainInv, mainVars
    <2> QED BY <2>1, <2>2, <2>3, <2>4, <2>5, <2>6 DEF Next, Exited
  <1> QED BY <1>1, InitInv, PTL DEF Spec

\* Every variable of the worker keeps its type, from start to exit.
THEOREM TypeCorrect == Spec => []TypeOK
  <1>1. Inv => TypeOK
    BY DEF Inv, EnrollInv, DispatchInv, FactoryInv, MainInv, TypeOK
  <1> QED BY <1>1, Invariance, PTL

\* One thread enrolls at a time (node_key_mutex in enroll.cpp), and the stored key is
\* the one the server issued last.
THEOREM EnrollsOnce == Spec => []OneEnrollment
  <1>1. Inv => OneEnrollment
    BY EnrollmentAssumption
    DEF Inv, EnrollInv, OneEnrollment, Enrolling, EnrollmentTypeOK
  <1> QED BY <1>1, Invariance, PTL

\* EventFactory::run never calls run() of a publisher that was torn down.
THEOREM RunsSafely == Spec => []RunsOnlyWhileUp
  <1>1. Inv => RunsOnlyWhileUp
    BY DEF Inv, FactoryInv, FlagsInv
  <1> QED BY <1>1, Invariance, PTL

\* shutdownDatabase is called when every thread of a service and of a publisher has
\* ended, those added while the shutdown began included.
THEOREM DatabaseLast == Spec => []DatabaseOutlivesThreads
  <1>1. Inv => DatabaseOutlivesThreads
    BY DEF Inv, MainInv, DispatchInv, FactoryInv, EndInv, Over, DatabaseOutlivesThreads
  <1> QED BY <1>1, Invariance, PTL

\* Initializer::shutdown leaves no publisher with its resources.
THEOREM TornDown == Spec => []TornDownAtExit
  <1>1. Inv => TornDownAtExit
    BY DEF Inv, FactoryInv, EndInv, TornDownAtExit, MainAt
  <1> QED BY <1>1, Invariance, PTL
==============================================================================
