----------------------------- MODULE Enrollment -----------------------------
(***************************************************************************)
(* The node key and the TLS requests that carry it: getNodeKey and         *)
(* clearNodeKey (enroll.cpp), the enroll plugin (tls_enroll.cpp) and the   *)
(* request helper with its retries (utility.h).  Several threads make      *)
(* requests and share one key in the database.  A request carries the key  *)
(* read before it; an answer may arrive when other threads have replaced   *)
(* that key.  The server is external: it accepts the key that it issued    *)
(* last, until it forgets it.  Keys are numbered as the server issues      *)
(* them.                                                                   *)
(***************************************************************************)
EXTENDS Integers

CONSTANTS
  Clients,         \* threads that make TLS requests
  NoClient,
  Attempts,        \* the attempts of one request
  EnrollAttempts,  \* tls_enroll_max_attempts, 0: without end
  DisableReenrollment,  \* disable_reenrollment
  MaxKeys,         \* bound: keys that the server issues
  MaxForgets       \* bound: times that the server forgets the host

ASSUME EnrollmentAssumption ==
  /\ NoClient \notin Clients
  /\ Attempts \in Nat \ {0}
  /\ {EnrollAttempts, MaxKeys, MaxForgets} \subseteq Nat
  /\ DisableReenrollment \in BOOLEAN

VARIABLES
  requested,  \* a shutdown is requested (core/shutdown.cpp)
  nodeKey,    \* nodeKey in the database, 0: none
  holder,     \* who holds node_key_mutex over more than one step
  call,       \* what each client does
  server      \* the key it accepts (0: none), the keys issued and forgotten

enrollmentVars == <<nodeKey, holder, call, server>>

Places == {"idle", "key", "enroll", "ask", "backoff", "send", "answered",
           "clear", "wait"}

Idle == [at |-> "idle", key |-> 0, attempt |-> 0, try |-> 0, answer |-> "lost"]

Tries == 0..(IF EnrollAttempts = 0 THEN 1 ELSE EnrollAttempts)

Calls == [at : Places, key : 0..MaxKeys, attempt : 0..Attempts, try : Tries,
          answer : {"ok", "invalid", "lost"}]

EnrollmentTypeOK ==
  /\ requested \in BOOLEAN
  /\ nodeKey \in 0..MaxKeys
  /\ holder \in Clients \cup {NoClient}
  /\ call \in [Clients -> Calls]
  /\ server \in [accepted : 0..MaxKeys, issued : 0..MaxKeys, forgets : 0..MaxForgets]

EnrollmentInit ==
  /\ requested = FALSE
  /\ nodeKey = 0 /\ holder = NoClient
  /\ call = [c \in Clients |-> Idle]
  /\ server = [accepted |-> 0, issued |-> 0, forgets |-> 0]

At(c, place) == call[c].at = place

\* node_key_mutex can be taken: the upgrade lock and the write lock exclude each other.
UpgradeLock == holder = NoClient

-----------------------------------------------------------------------------
(* getNodeKey, and the enroll plugin that it calls under the lock *)

\* TLSRequestHelper::go: the first attempt.  makeURI, called once when a plugin is
\* set up or a carve is posted, reads the key in the same way and is left out.
go(c) ==
  /\ At(c, "idle")
  /\ call' = [call EXCEPT ![c] = [Idle EXCEPT !.at = "key", !.attempt = 1]]
  /\ UNCHANGED <<nodeKey, holder, server>>

takeKey(c) ==
  IF nodeKey # 0
  THEN /\ call' = [call EXCEPT ![c].at = "send", ![c].key = nodeKey]
       /\ UNCHANGED holder
  ELSE /\ call' = [call EXCEPT ![c].at = "enroll"]
       /\ holder' = c

\* Mutant: the key is read without the lock.
getNodeKeyUnlocked(c) ==
  At(c, "key") /\ takeKey(c) /\ UNCHANGED <<nodeKey, server>>

getNodeKey(c) ==
  /\ At(c, "key") /\ UpgradeLock
  /\ takeKey(c)
  /\ UNCHANGED <<nodeKey, server>>

\* getNodeKey returns, with a key or with the empty string.
returnKey(c, k) ==
  /\ call' = [call EXCEPT ![c] = [@ EXCEPT !.at = "send", !.key = k, !.try = 0]]
  /\ holder' = NoClient

enroll(c) ==
  /\ At(c, "enroll")
  /\ \/ requested /\ returnKey(c, 0)
     \/ /\ ~requested
        /\ call' = [call EXCEPT ![c].at = "ask", ![c].try = 1]
        /\ UNCHANGED holder
  /\ UNCHANGED <<nodeKey, server>>

\* The server enrolls the host.
issues ==
  /\ server.issued < MaxKeys
  /\ server' = [server EXCEPT !.issued = @ + 1, !.accepted = server.issued + 1]

\* The last try ends the enrollment without a key.
tryAgain(c) ==
  IF call[c].try = EnrollAttempts
  THEN returnKey(c, 0)
  ELSE /\ call' = [call EXCEPT ![c].at = "backoff",
                               ![c].try = IF EnrollAttempts > 0 THEN @ + 1 ELSE @]
       /\ UNCHANGED holder

\* The key arrives and is stored; or it is issued and the answer lost; or the
\* request fails.
requestKey(c) ==
  /\ At(c, "ask")
  /\ \/ /\ issues
        /\ nodeKey' = server.issued + 1
        /\ returnKey(c, server.issued + 1)
     \/ issues /\ tryAgain(c) /\ UNCHANGED nodeKey
     \/ tryAgain(c) /\ UNCHANGED <<nodeKey, server>>

\* Mutant: the wait's result is ignored.
backoffToTheEnd(c) ==
  /\ At(c, "backoff")
  /\ call' = [call EXCEPT ![c].at = "ask"]
  /\ UNCHANGED <<nodeKey, holder, server>>

\* waitTimeoutOrShutdown between two tries
backoff(c) ==
  /\ At(c, "backoff")
  /\ \/ requested /\ returnKey(c, 0)
     \/ /\ ~requested
        /\ call' = [call EXCEPT ![c].at = "ask"]
        /\ UNCHANGED holder
  /\ UNCHANGED <<nodeKey, server>>

-----------------------------------------------------------------------------
(* The request with the key *)

verdict(k) == IF k # 0 /\ k = server.accepted THEN "ok" ELSE "invalid"

\* The server answers with what it knows now; the answer may be lost.
answer(c) ==
  /\ At(c, "send")
  /\ \E a \in {verdict(call[c].key), "lost"} :
       call' = [call EXCEPT ![c] = [@ EXCEPT !.at = "answered", !.answer = a,
                                             !.key = 0]]
  /\ UNCHANGED <<nodeKey, holder, server>>

\* An attempt failed: end, or wait before the next one.
failed(c) ==
  call' = [call EXCEPT ![c] =
             IF @.attempt = Attempts THEN Idle
             ELSE [Idle EXCEPT !.at = "wait", !.attempt = call[c].attempt]]

receive(c) ==
  /\ At(c, "answered")
  /\ CASE call[c].answer = "ok" -> call' = [call EXCEPT ![c] = Idle]
       [] call[c].answer = "invalid" /\ ~DisableReenrollment ->
            call' = [call EXCEPT ![c].at = "clear"]
       [] OTHER -> failed(c)
  /\ UNCHANGED <<nodeKey, holder, server>>

\* The answer was node_invalid.
clearNodeKey(c) ==
  /\ At(c, "clear") /\ UpgradeLock
  /\ nodeKey' = 0
  /\ failed(c)
  /\ UNCHANGED <<holder, server>>

\* waitTimeoutOrShutdown between two attempts
retry(c) ==
  /\ At(c, "wait")
  /\ call' = [call EXCEPT ![c] =
                IF requested THEN Idle
                ELSE [Idle EXCEPT !.at = "key", !.attempt = call[c].attempt + 1]]
  /\ UNCHANGED <<nodeKey, holder, server>>

ClientStep(c) ==
  \/ getNodeKey(c) \/ enroll(c) \/ requestKey(c) \/ backoff(c)
  \/ answer(c) \/ receive(c) \/ clearNodeKey(c) \/ retry(c)

\* The server forgets the host.
forget ==
  /\ server.forgets < MaxForgets /\ server.accepted # 0
  /\ server' = [server EXCEPT !.forgets = @ + 1, !.accepted = 0]
  /\ UNCHANGED <<nodeKey, holder, call>>

-----------------------------------------------------------------------------

\* "multiple threads cannot initiate re-enrollment at the same time" (enroll.cpp):
\* one thread enrolls at a time and only while no key is stored, so the stored
\* key is the one the server issued last, and a request sent with it is refused
\* only if the server forgot the host.  That holds for a server which answers an
\* enrollment before its request times out, or not at all.
OneEnrollment ==
  /\ \A c, d \in Clients :
       {call[c].at, call[d].at} \subseteq {"enroll", "ask", "backoff"} => c = d
  /\ nodeKey # 0 => /\ nodeKey = server.issued
                    /\ server.accepted \in {0, nodeKey}
=============================================================================
