------------------------ MODULE ConfigRefreshProofs ------------------------
(***************************************************************************)
(* Proofs about ConfigRefresh, for any sources, contents, answers, updates *)
(* and crashes.                                                            *)
(*                                                                         *)
(* The properties speak of the time when no thread is at a source; the     *)
(* invariant says what holds while one is: the hash is already that of the *)
(* new content, and the packs are the old ones, then none, then those that *)
(* are not given by reference (UpdateInv).  What a refresh may do follows  *)
(* from who holds config_refresh_mutex_ (MutexInv), and from the fact that *)
(* the time of the backup ends inside the refresh that has the first       *)
(* answer (FirstInv).                                                      *)
(***************************************************************************)
EXTENDS ConfigRefresh, TLAPS

Inside == {"restore", "source", "remove", "parse", "genPack", "backup",
           "return"}

\* config_refresh_mutex_ is held from the answer to the end of the refresh.
MutexInv == \A t \in Refreshers : th[t].pc \in Inside <=> refreshMutex = t

\* A process that has applied an answer does not restore its backup: is_first_time
\* is still set then only while the refresh with the answer holds the mutex.
FirstInv ==
  /\ valid /\ first => \E t \in Refreshers : refreshMutex = t /\ th[t].ok
  /\ \A t \in Refreshers : At(t, "restore") => ~valid

\* A thread is at a source between the new hash and the last of the new packs.
AtSource == {"remove", "parse", "genPack"}

Between(s, t) ==
  /\ hash[s] = th[t].conf[s]
  /\ th[t].pc = "parse" => packs[s] = None
  /\ th[t].pc = "genPack" => hash[s] \in Referring /\ packs[s] = hash[s]
  /\ th[t].pc # "remove" => referred[s] = None /\ s \notin unresolved
  /\ \A u \in Threads : th[u].at = s => u = t

UpdateInv ==
  /\ \A t \in Threads : th[t].pc \in AtSource <=> th[t].at # None
  /\ \A s \in Sources \ raced, t \in Threads : th[t].at = s => Between(s, t)
  /\ HashedIsInForce

\* What HashedIsInForce says of one source.
HashedOK(s) ==
  /\ packs[s] = IF hash[s] \in Valid THEN hash[s] ELSE None
  /\ referred[s] = IF hash[s] \in Referring /\ s \notin unresolved THEN hash[s] ELSE None

Inv == TypeOK /\ MutexInv /\ FirstInv /\ UpdateInv

Thread == [pc : Places, ok : BOOLEAN, conf : Configs, todo : SUBSET Sources,
           at : Sources \cup {None}]

-----------------------------------------------------------------------------
(* Types *)

\* No configuration is a configuration, and a thread that is ready has none.
LEMMA ReadyType == NoConfig \in Configs /\ Ready \in Thread
  BY DEF NoConfig, Configs, Ready, Thread, Places

\* A process starts with no thread at work.
LEMMA InitInv == Init => Inv
  <1> SUFFICES ASSUME Init PROVE Inv OBVIOUS
  <1>1. th \in [Threads -> Thread] /\ \A t \in Threads : th[t] = Ready
    BY ReadyType DEF Init
  <1>2. served \in Configs
    BY AnswersAssumption DEF Init, Configs
  <1>3. packs \in [Sources -> Valid \cup {None}] /\ referred \in Configs
    BY ReadyType DEF Init, NoConfig
  <1>4. first \in BOOLEAN /\ valid \in BOOLEAN
    BY DEF Init
  <1>5. TypeOK
    BY <1>1, <1>2, <1>3, <1>4, ReadyType DEF TypeOK, Thread, Init
  <1>6. MutexInv /\ FirstInv
    BY <1>1, NoneAssumption DEF MutexInv, FirstInv, Inside, Ready, At, Init, Refreshers, Threads
  <1>7. UpdateInv
    BY <1>1, ContentsAssumption, NoneAssumption
    DEF UpdateInv, AtSource, HashedIsInForce, Ready, Init, NoConfig, InUpdate
  <1> QED BY <1>5, <1>6, <1>7 DEF Inv

-----------------------------------------------------------------------------
(* Steps *)

\* Every step keeps the types.
LEMMA StepType == Inv /\ [Next]_vars => TypeOK'
  <1> SUFFICES ASSUME TypeOK, UpdateInv, [Next]_vars PROVE TypeOK'
    BY DEF Inv
  <1>t. /\ th \in [Threads -> Thread] /\ served \in Configs /\ hash \in Configs
        /\ backup \in Configs /\ packs \in [Sources -> Valid \cup {None}]
        /\ referred \in Configs /\ unresolved \subseteq Sources
        /\ first \in BOOLEAN /\ valid \in BOOLEAN /\ raced \subseteq Sources
        /\ changes \in Nat /\ updates \in Nat /\ crashes \in Nat
        /\ refreshMutex \in Refreshers \cup {None} /\ backupMutex \in Threads \cup {None}
    BY DEF TypeOK, Thread
  <1>e. \A t \in Threads : Ended(t) \in Thread
    BY ReadyType DEF Ended, Thread, Places
  <1>c. \A conf \in Configs : Has(conf) \subseteq Sources
    BY DEF Has
  <1>r. Refreshers \subseteq Threads /\ "plugin" \in Threads
    BY DEF Threads
  \* The rest of a step that moves t to r and is typed otherwise.
  <1>m. ASSUME NEW t \in Threads, NEW r \in Thread, th' = [th EXCEPT ![t] = r]
        PROVE  th' \in [Threads -> Thread]
    BY <1>t, <1>m
  <1>b. ASSUME NEW t \in Threads, NEW conf \in Configs, BeginUpdate(t, conf)
        PROVE  th' \in [Threads -> Thread]
    <2> DEFINE r == [th[t] EXCEPT !.pc = "source", !.conf = conf, !.todo = Has(conf)]
    <2>1. r \in Thread
      BY <1>t, <1>c DEF Thread, Places
    <2>2. th' = [th EXCEPT ![t] = r]
      BY <1>b DEF BeginUpdate
    <2> QED BY <1>m, <2>1, <2>2
  <1>1. ASSUME NEW t \in Refreshers, NEW ok \in BOOLEAN, genConfig(t, ok) PROVE TypeOK'
    <2> DEFINE r == [th[t] EXCEPT !.pc = "lock", !.ok = ok,
                                  !.conf = IF ok THEN served ELSE NoConfig]
    <2>1. r \in Thread
      BY <1>t, <1>r, ReadyType DEF Thread, Places
    <2>2. th' = [th EXCEPT ![t] = r]
      BY <1>1 DEF genConfig
    <2>3. th' \in [Threads -> Thread]
      BY <1>m, <1>r, <2>1, <2>2
    <2> QED BY <1>1, <1>t, <2>3 DEF genConfig, TypeOK, Thread, memory, schedule, mutexes, bounds
  <1>2. ASSUME NEW t \in Refreshers, refreshFailed(t) PROVE TypeOK'
    <2>1. [th[t] EXCEPT !.pc = "restore"] \in Thread
      BY <1>t, <1>r DEF Thread, Places
    <2>2. th' \in [Threads -> Thread]
      BY <1>2, <1>m, <1>e, <1>r, <2>1 DEF refreshFailed
    <2>3. refreshMutex' \in Refreshers \cup {None} /\ first' \in BOOLEAN
      BY <1>2, <1>t DEF refreshFailed
    <2> QED BY <1>2, <1>t, <2>2, <2>3 DEF refreshFailed, TypeOK, Thread, schedule, bounds
  <1>3. ASSUME NEW t \in Refreshers, refreshed(t) PROVE TypeOK'
    <2>1. th' \in [Threads -> Thread]
      BY <1>3, <1>b, <1>t, <1>r DEF refreshed, Thread
    <2>2. valid' \in BOOLEAN
      BY <1>3 DEF refreshed
    <2> QED BY <1>3, <1>t, <2>1, <2>2 DEF refreshed, TypeOK, Thread, schedule, bounds
  <1>4. ASSUME NEW t \in Refreshers, restoreConfigBackup(t) PROVE TypeOK'
    <2>1. th' \in [Threads -> Thread]
      BY <1>4, <1>b, <1>t, <1>r DEF restoreConfigBackup
    <2> QED BY <1>4, <1>t, <2>1
            DEF restoreConfigBackup, TypeOK, Thread, memory, schedule, mutexes, bounds
  <1>4a. ASSUME NEW t \in Refreshers, restoreFails(t) PROVE TypeOK'
    <2>1. [th[t] EXCEPT !.pc = "return"] \in Thread
      BY <1>t, <1>r DEF Thread, Places
    <2>2. th' \in [Threads -> Thread]
      BY <1>4a, <1>m, <1>r, <2>1 DEF restoreFails
    <2> QED BY <1>4a, <1>t, <2>2
            DEF restoreFails, TypeOK, Thread, memory, schedule, mutexes, bounds
  <1>5. ASSUME NEW t \in Refreshers, endRefresh(t) PROVE TypeOK'
    <2>1. th' \in [Threads -> Thread]
      BY <1>5, <1>m, <1>e, <1>r DEF endRefresh
    <2>2. first' \in BOOLEAN
      BY <1>5, <1>t DEF endRefresh, firstAfter
    <2> QED BY <1>5, <1>t, <2>1, <2>2 DEF endRefresh, TypeOK, Thread, schedule, bounds
  <1>6. ASSUME NEW t \in Threads, Update(t) PROVE TypeOK'
    <2>1. ASSUME NEW s \in Sources, updateSource(t, s) PROVE TypeOK'
      <3> DEFINE q == [th[t] EXCEPT !.pc = "source", !.todo = @ \ {s}]
                 r == [th[t] EXCEPT !.pc = "remove", !.at = s, !.todo = @ \ {s}]
      <3>1. q \in Thread /\ r \in Thread
        BY <1>t DEF Thread, Places
      <3>a. th' = [th EXCEPT ![t] = q] \/ th' = [th EXCEPT ![t] = r]
        BY <2>1 DEF updateSource, afterUnchanged
      <3>2. th' \in [Threads -> Thread]
        BY <1>m, <3>1, <3>a
      <3>3. hash' \in Configs /\ raced' \subseteq Sources
        <4>1. th[t].conf[s] \in Contents \cup {None}
          BY <1>t DEF Thread, Configs
        <4> QED BY <2>1, <1>t, <4>1 DEF updateSource, hashSource, Configs
      <3> QED BY <2>1, <1>t, <3>2, <3>3 DEF updateSource, TypeOK, Thread, schedule, mutexes, bounds
    <2>2. CASE removeAll(t)
      <3>1. [th[t] EXCEPT !.pc = "parse"] \in Thread
        BY <1>t DEF Thread, Places
      <3>2. th' \in [Threads -> Thread] /\ packs' \in [Sources -> Valid \cup {None}]
        BY <2>2, <1>m, <1>t, <3>1 DEF removeAll
      <3>3. referred' \in Configs /\ unresolved' \subseteq Sources
        BY <2>2, <1>t DEF removeAll, Configs
      <3> QED BY <3>3, <2>2, <1>t, <3>2 DEF removeAll, TypeOK, Thread, mutexes, bounds
    <2>3. CASE parse(t)
      <3> DEFINE q == [th[t] EXCEPT !.pc = "source", !.at = None]
                 g == [th[t] EXCEPT !.pc = "genPack", !.at = th[t].at]
                 r == [th[t] EXCEPT !.pc = "return", !.at = None]
      <3>1. q \in Thread /\ g \in Thread /\ r \in Thread
        BY <1>t DEF Thread, Places
      <3>a. \/ th' = [th EXCEPT ![t] = q]
            \/ th' = [th EXCEPT ![t] = g]
            \/ th' = [th EXCEPT ![t] = r]
        BY <2>3 DEF parse
      <3>2. th' \in [Threads -> Thread]
        BY <1>m, <3>1, <3>a
      <3>3. packs' \in [Sources -> Valid \cup {None}]
        BY <2>3, <1>t DEF parse
      <3> QED BY <2>3, <1>t, <3>2, <3>3 DEF parse, TypeOK, Thread, mutexes, bounds
    <2>3a. ASSUME NEW ok \in BOOLEAN, genPack(t, ok) PROVE TypeOK'
      <3> DEFINE q == [th[t] EXCEPT !.pc = "source", !.at = None]
      <3>1. q \in Thread
        BY <1>t DEF Thread, Places
      <3>a. th' = [th EXCEPT ![t] = q]
        BY <2>3a DEF genPack
      <3>2. th' \in [Threads -> Thread]
        BY <1>m, <3>1, <3>a
      <3>3. th[t].at \in Sources
        BY <1>t, <2>3a DEF genPack, At, UpdateInv, AtSource, Thread
      <3>4. th[t].conf[th[t].at] \in Contents \cup {None}
        BY <1>t, <3>3 DEF Thread, Configs
      <3>5. referred' \in Configs /\ unresolved' \subseteq Sources
        BY <2>3a, <1>t, <3>3, <3>4 DEF genPack, Configs
      <3> QED BY <2>3a, <1>t, <3>2, <3>5 DEF genPack, TypeOK, Thread, mutexes, bounds
    <2>4. CASE backupConfig(t)
      <3> DEFINE q == [th[t] EXCEPT !.pc = "return"]
                 r == [th[t] EXCEPT !.pc = "backup", !.todo = Sources]
      <3>1. q \in Thread /\ r \in Thread
        BY <1>t DEF Thread, Places
      <3>a. th' = [th EXCEPT ![t] = q] \/ th' = [th EXCEPT ![t] = r]
        BY <2>4 DEF backupConfig
      <3>2. th' \in [Threads -> Thread]
        BY <1>m, <3>1, <3>a
      <3> QED BY <2>4, <1>t, <3>2 DEF backupConfig, TypeOK, Thread, memory, schedule, bounds
    <2>5. ASSUME NEW s \in Sources, backupKey(t, s) PROVE TypeOK'
      <3>1. [th[t] EXCEPT !.todo = @ \ {s}] \in Thread
        BY <1>t DEF Thread
      <3>2. th' \in [Threads -> Thread]
        BY <2>5, <1>m, <3>1 DEF backupKey
      <3>3. backup' \in Configs
        BY <2>5, <1>t DEF backupKey, Configs, Thread
      <3> QED BY <2>5, <1>t, <3>2, <3>3 DEF backupKey, TypeOK, Thread, memory, schedule, mutexes, bounds
    <2>6. CASE endBackup(t)
      <3>1. [th[t] EXCEPT !.pc = "return"] \in Thread
        BY <1>t DEF Thread, Places
      <3>2. th' \in [Threads -> Thread]
        BY <2>6, <1>m, <3>1 DEF endBackup
      <3> QED BY <2>6, <1>t, <3>2 DEF endBackup, TypeOK, Thread, memory, schedule, bounds
    <2> QED BY <1>6, <2>1, <2>2, <2>3, <2>3a, <2>4, <2>5, <2>6 DEF Update
  <1>7. CASE endUpdate
    <2>1. th' \in [Threads -> Thread]
      BY <1>7, <1>t, <1>r, ReadyType DEF endUpdate
    <2> QED BY <1>7, <1>t, <2>1 DEF endUpdate, TypeOK, Thread, memory, schedule, mutexes, bounds
  <1>8. ASSUME NEW push \in Pushes, updateFromExtension(push[1], push[2]) PROVE TypeOK'
    <2>1. [NoConfig EXCEPT ![push[1]] = push[2]] \in Configs
      BY AnswersAssumption, ReadyType DEF Configs
    <2>2. th' \in [Threads -> Thread] /\ updates' \in Nat
      BY <1>8, <1>b, <1>t, <1>r, <2>1 DEF updateFromExtension
    <2> QED BY <1>8, <1>t, <2>2 DEF updateFromExtension, TypeOK, Thread, memory, schedule, mutexes
  <1>9. ASSUME NEW conf \in Answers, serve(conf) PROVE TypeOK'
    <2>1. served' \in Configs /\ changes' \in Nat
      BY <1>9, <1>t, AnswersAssumption DEF serve, Configs
    <2> QED BY <1>9, <1>t, <2>1 DEF serve, TypeOK, Thread, memory, schedule, mutexes
  <1>10. CASE Restart
    <2>1. /\ th' \in [Threads -> Thread] /\ hash' \in Configs /\ crashes' \in Nat
          /\ packs' \in [Sources -> Valid \cup {None}] /\ referred' \in Configs
      BY <1>10, <1>t, ReadyType DEF Restart, NoConfig
    <2>2. first' \in BOOLEAN /\ valid' \in BOOLEAN
      BY <1>10 DEF Restart
    <2> QED BY <1>10, <1>t, <2>1, <2>2 DEF Restart, TypeOK, Thread
  <1>11. CASE UNCHANGED vars
    BY <1>11 DEF vars, memory, schedule, mutexes, bounds, TypeOK
  <1> QED BY <1>r, <1>1, <1>2, <1>3, <1>4, <1>4a, <1>5, <1>6, <1>7, <1>8, <1>9, <1>10, <1>11
          DEF Next, Refresh, Plugin

\* What a step of t changes in th: the place of t, whether it has an answer, the
\* source it is at; conf only where no source is.
Moves(t, pc, at) ==
  /\ th'[t].pc = pc /\ th'[t].at = at /\ th'[t].ok = th[t].ok
  /\ \A u \in Threads \ {t} : th'[u] = th[u]

\* The steps of update move the thread inside the mutex.
LEMMA UpdateMoves ==
  ASSUME TypeOK, NEW t \in Threads
  PROVE  /\ \A s \in Sources : updateSource(t, s) =>
              /\ th'[t].conf = th[t].conf
              /\ \/ Moves(t, "source", th[t].at) /\ hash[s] = th[t].conf[s]
                 \/ Moves(t, "remove", s) /\ hash[s] # th[t].conf[s]
         /\ removeAll(t) => Moves(t, "parse", th[t].at) /\ th'[t].conf = th[t].conf
         /\ parse(t) => \/ Moves(t, "genPack", th[t].at) /\ th'[t].conf = th[t].conf
                        \/ Moves(t, "source", None)
                        \/ Moves(t, "return", None)
         /\ \A ok \in BOOLEAN : genPack(t, ok) => Moves(t, "source", None)
         /\ backupConfig(t) => Moves(t, "backup", th[t].at) \/ Moves(t, "return", th[t].at)
         /\ \A s \in Sources : backupKey(t, s) => Moves(t, "backup", th[t].at)
         /\ endBackup(t) => Moves(t, "return", th[t].at)
  <1>t. th \in [Threads -> Thread]
    BY DEF TypeOK, Thread
  <1>1. ASSUME NEW s \in Sources, updateSource(t, s)
        PROVE  /\ th'[t].conf = th[t].conf
               /\ \/ Moves(t, "source", th[t].at) /\ hash[s] = th[t].conf[s]
                  \/ Moves(t, "remove", s) /\ hash[s] # th[t].conf[s]
    BY <1>t, <1>1 DEF updateSource, Moves, Thread, afterUnchanged
  <1>2. removeAll(t) => Moves(t, "parse", th[t].at) /\ th'[t].conf = th[t].conf
    BY <1>t DEF removeAll, Moves, Thread
  <1>3. parse(t) => \/ Moves(t, "genPack", th[t].at) /\ th'[t].conf = th[t].conf
                    \/ Moves(t, "source", None)
                    \/ Moves(t, "return", None)
    BY <1>t DEF parse, Moves, Thread
  <1>3a. ASSUME NEW ok \in BOOLEAN, genPack(t, ok) PROVE Moves(t, "source", None)
    BY <1>t, <1>3a DEF genPack, Moves, Thread
  <1>4. backupConfig(t) => Moves(t, "backup", th[t].at) \/ Moves(t, "return", th[t].at)
    BY <1>t DEF backupConfig, Moves, Thread
  <1>5. ASSUME NEW s \in Sources, backupKey(t, s) PROVE Moves(t, "backup", th[t].at)
    BY <1>t, <1>5 DEF backupKey, Moves, Thread, At
  <1>6. endBackup(t) => Moves(t, "return", th[t].at)
    BY <1>t DEF endBackup, Moves, Thread
  <1> QED BY <1>1, <1>2, <1>3, <1>3a, <1>4, <1>5, <1>6

\* Who holds config_refresh_mutex_, and until when a backup may be restored.
LEMMA StepMutex == Inv /\ [Next]_vars => MutexInv' /\ FirstInv'
  <1> SUFFICES ASSUME Inv, [Next]_vars PROVE MutexInv' /\ FirstInv' OBVIOUS
  <1>t. /\ th \in [Threads -> Thread] /\ TypeOK /\ MutexInv /\ FirstInv
        /\ Refreshers \subseteq Threads /\ None \notin Refreshers
        /\ refreshMutex \in Refreshers \cup {None}
    BY NoneAssumption DEF Inv, TypeOK, Thread, Threads
  \* A step of t inside the mutex, or outside of it.
  <1>m. ASSUME NEW t \in Threads, th'[t].ok = th[t].ok,
               \A u \in Threads \ {t} : th'[u] = th[u],
               th'[t].pc \in Inside <=> th[t].pc \in Inside,
               th'[t].pc # "restore", UNCHANGED <<refreshMutex, first, valid>>
        PROVE  MutexInv' /\ FirstInv'
    BY <1>t, <1>m DEF MutexInv, FirstInv, At
  <1>1. ASSUME NEW t \in Refreshers, NEW ok \in BOOLEAN, genConfig(t, ok)
        PROVE  MutexInv' /\ FirstInv'
    <2>1. /\ th'[t].pc = "lock" /\ th[t].pc = "ready"
          /\ \A u \in Threads \ {t} : th'[u] = th[u]
          /\ UNCHANGED <<refreshMutex, first, valid>>
      BY <1>t, <1>1 DEF genConfig, At, Thread, memory, schedule, mutexes
    <2>2. refreshMutex # t
      BY <1>t, <2>1 DEF MutexInv, Inside
    <2> QED BY <1>t, <2>1, <2>2 DEF MutexInv, FirstInv, At, Inside
  <1>2. ASSUME NEW t \in Refreshers, refreshFailed(t) PROVE MutexInv' /\ FirstInv'
    <2>0. /\ refreshMutex = None /\ valid' = valid
          /\ \A u \in Threads \ {t} : th'[u] = th[u]
          /\ \A u \in Refreshers : th[u].pc \notin Inside
      BY <1>t, <1>2 DEF refreshFailed, MutexInv
    <2>1. CASE EnableBackup /\ first
      <3>1. th'[t].pc = "restore" /\ refreshMutex' = t /\ first' = FALSE
        BY <1>t, <1>2, <2>1 DEF refreshFailed, Thread
      <3>2. ~valid
        BY <1>t, <2>0, <2>1 DEF FirstInv
      <3> QED BY <1>t, <2>0, <3>1, <3>2 DEF MutexInv, FirstInv, At, Inside
    <2>2. CASE ~(EnableBackup /\ first)
      <3>1. th'[t] = Ended(t) /\ refreshMutex' = None /\ first' = first
        BY <1>t, <1>2, <2>0, <2>2 DEF refreshFailed
      <3>2. th'[t].pc \in {"ready", "done"}
        BY <3>1 DEF Ended, Ready
      <3> QED BY <1>t, <2>0, <3>1, <3>2 DEF MutexInv, FirstInv, At, Inside
    <2> QED BY <2>1, <2>2
  <1>3. ASSUME NEW t \in Refreshers, refreshed(t) PROVE MutexInv' /\ FirstInv'
    <2>1. /\ refreshMutex = None /\ refreshMutex' = t /\ th[t].ok /\ th'[t].ok
          /\ th'[t].pc = "source" /\ \A u \in Threads \ {t} : th'[u] = th[u]
      BY <1>t, <1>3 DEF refreshed, BeginUpdate, Thread
    <2>2. \A u \in Refreshers : th[u].pc \notin Inside
      BY <1>t, <2>1 DEF MutexInv
    <2> QED BY <1>t, <2>1, <2>2 DEF MutexInv, FirstInv, At, Inside
  <1>4. ASSUME NEW t \in Refreshers, restoreConfigBackup(t) PROVE MutexInv' /\ FirstInv'
    <2>1. /\ th[t].pc = "restore" /\ th'[t].ok = th[t].ok
          /\ th'[t].pc = "source" /\ \A u \in Threads \ {t} : th'[u] = th[u]
          /\ UNCHANGED <<refreshMutex, first, valid>>
      BY <1>t, <1>4 DEF restoreConfigBackup, BeginUpdate, At, Thread, memory, schedule, mutexes
    <2> QED BY <1>t, <1>m, <2>1 DEF Inside
  <1>4a. ASSUME NEW t \in Refreshers, restoreFails(t) PROVE MutexInv' /\ FirstInv'
    <2>1. /\ th[t].pc = "restore" /\ th'[t].ok = th[t].ok
          /\ th'[t].pc = "return" /\ \A u \in Threads \ {t} : th'[u] = th[u]
          /\ UNCHANGED <<refreshMutex, first, valid>>
      BY <1>t, <1>4a DEF restoreFails, At, Thread, memory, mutexes
    <2> QED BY <1>t, <1>m, <2>1 DEF Inside
  <1>5. ASSUME NEW t \in Refreshers, endRefresh(t) PROVE MutexInv' /\ FirstInv'
    <2>1. /\ th[t].pc = "return" /\ refreshMutex = t /\ refreshMutex' = None
          /\ th'[t].pc \in {"ready", "done"} /\ \A u \in Threads \ {t} : th'[u] = th[u]
          /\ valid' = valid /\ first' = IF th[t].ok THEN FALSE ELSE first
      BY <1>t, <1>5 DEF endRefresh, At, Ended, Ready, MutexInv, Inside, firstAfter
    <2>2. \A u \in Refreshers \ {t} : th[u].pc \notin Inside
      BY <1>t, <2>1 DEF MutexInv
    <2>3. MutexInv'
      BY <1>t, <2>1, <2>2 DEF MutexInv, Inside
    <2>4. ~(valid' /\ first')
      BY <1>t, <2>1 DEF FirstInv
    <2> QED BY <1>t, <2>1, <2>2, <2>3, <2>4 DEF FirstInv, At, Inside
  <1>6. ASSUME NEW t \in Threads, Update(t) PROVE MutexInv' /\ FirstInv'
    <2>1. /\ UNCHANGED <<refreshMutex, first, valid>> /\ th[t].pc \in Inside
      BY <1>6 DEF Update, updateSource, removeAll, parse, genPack, backupConfig, backupKey,
                  endBackup, At, Inside, memory, mutexes
    <2>2. \E pc \in Inside \ {"restore"} : \E at : Moves(t, pc, at)
      BY <1>6, <1>t, UpdateMoves DEF Update, Inside
    <2> QED BY <1>m, <2>1, <2>2 DEF Moves
  <1>7. CASE endUpdate
    <2>1. /\ \A u \in Refreshers : th'[u] = th[u]
          /\ UNCHANGED <<refreshMutex, first, valid>>
      BY <1>7, <1>t DEF endUpdate, memory, mutexes, Refreshers
    <2> QED BY <1>t, <2>1 DEF MutexInv, FirstInv, At
  <1>8. ASSUME NEW push \in Pushes, updateFromExtension(push[1], push[2])
        PROVE  MutexInv' /\ FirstInv'
    <2>1. /\ \A u \in Refreshers : th'[u] = th[u]
          /\ UNCHANGED <<refreshMutex, first, valid>>
      BY <1>8, <1>t DEF updateFromExtension, BeginUpdate, memory, mutexes, Refreshers
    <2> QED BY <1>t, <2>1 DEF MutexInv, FirstInv, At
  <1>9. ASSUME NEW conf \in Answers, serve(conf) PROVE MutexInv' /\ FirstInv'
    BY <1>t, <1>9 DEF serve, memory, schedule, mutexes, MutexInv, FirstInv, At
  <1>10. CASE Restart
    BY <1>t, <1>10 DEF Restart, MutexInv, FirstInv, At, Ready, Inside
  <1>11. CASE UNCHANGED vars
    BY <1>t, <1>11 DEF vars, memory, schedule, mutexes, MutexInv, FirstInv, At
  <1> QED BY <1>t, <1>1, <1>2, <1>3, <1>4, <1>4a, <1>5, <1>6, <1>7, <1>8, <1>9, <1>10, <1>11
          DEF Next, Refresh, Plugin, Threads

\* A step that moves t away from no source, or between sources' updates, and leaves
\* hashes and packs alone.
LEMMA UpdateStutters ==
  ASSUME Inv, NEW t \in Threads, th[t].at = None, th'[t].at = None,
         th'[t].pc \notin AtSource,
         \A u \in Threads \ {t} : th'[u] = th[u],
         UNCHANGED <<hash, schedule, raced>>
  PROVE  UpdateInv'
  BY NoneAssumption DEF Inv, UpdateInv, Between, AtSource, HashedIsInForce, InUpdate, schedule

\* The hash, the packs and the thread between them.
LEMMA StepUpdate == Inv /\ [Next]_vars => UpdateInv'
  <1> SUFFICES ASSUME Inv, [Next]_vars PROVE UpdateInv' OBVIOUS
  <1>t. /\ th \in [Threads -> Thread] /\ TypeOK /\ UpdateInv
        /\ Refreshers \subseteq Threads /\ "plugin" \in Threads
        /\ None \notin Sources /\ None \notin Valid
        /\ hash \in Configs /\ packs \in [Sources -> Valid \cup {None}]
        /\ referred \in Configs /\ unresolved \subseteq Sources
        /\ raced \subseteq Sources /\ Referring \subseteq Valid
    BY NoneAssumption, ContentsAssumption DEF Inv, TypeOK, Thread, Threads
  <1>n. \A t \in Threads : th[t].pc \notin AtSource => th[t].at = None
    BY <1>t DEF UpdateInv
  <1>1. ASSUME NEW t \in Refreshers, NEW ok \in BOOLEAN, genConfig(t, ok)
        PROVE  UpdateInv'
    <2>1. /\ th[t].pc = "ready" /\ th'[t].pc = "lock" /\ th'[t].at = th[t].at
          /\ \A u \in Threads \ {t} : th'[u] = th[u]
          /\ UNCHANGED <<hash, schedule, raced>>
      BY <1>t, <1>1 DEF genConfig, At, Thread, memory, schedule
    <2> QED BY <1>t, <1>n, <2>1, UpdateStutters DEF AtSource
  <1>2. ASSUME NEW t \in Refreshers, refreshFailed(t) PROVE UpdateInv'
    <2>1. /\ th[t].pc = "lock" /\ \A u \in Threads \ {t} : th'[u] = th[u]
          /\ UNCHANGED <<hash, schedule, raced>>
          /\ th'[t] = [th[t] EXCEPT !.pc = "restore"] \/ th'[t] = Ended(t)
      BY <1>t, <1>2 DEF refreshFailed, At
    <2>2. th'[t].at \in {th[t].at, None} /\ th'[t].pc \in {"restore", "ready", "done"}
      BY <1>t, <2>1 DEF Ended, Ready, Thread
    <2> QED BY <1>t, <1>n, <2>1, <2>2, UpdateStutters DEF AtSource
  <1>3. ASSUME NEW t \in Refreshers, refreshed(t) PROVE UpdateInv'
    <2>1. /\ th[t].pc = "lock" /\ th'[t].pc = "source" /\ th'[t].at = th[t].at
          /\ \A u \in Threads \ {t} : th'[u] = th[u]
          /\ UNCHANGED <<hash, schedule, raced>>
      BY <1>t, <1>3 DEF refreshed, BeginUpdate, At, Thread
    <2> QED BY <1>t, <1>n, <2>1, UpdateStutters DEF AtSource
  <1>4. ASSUME NEW t \in Refreshers, restoreConfigBackup(t) PROVE UpdateInv'
    <2>1. /\ th[t].pc = "restore" /\ th'[t].pc = "source" /\ th'[t].at = th[t].at
          /\ \A u \in Threads \ {t} : th'[u] = th[u]
          /\ UNCHANGED <<hash, schedule, raced>>
      BY <1>t, <1>4 DEF restoreConfigBackup, BeginUpdate, At, Thread, memory, schedule
    <2> QED BY <1>t, <1>n, <2>1, UpdateStutters DEF AtSource
  <1>4a. ASSUME NEW t \in Refreshers, restoreFails(t) PROVE UpdateInv'
    <2>1. /\ th[t].pc = "restore" /\ th'[t].pc = "return" /\ th'[t].at = th[t].at
          /\ \A u \in Threads \ {t} : th'[u] = th[u]
          /\ UNCHANGED <<hash, schedule, raced>>
      BY <1>t, <1>4a DEF restoreFails, At, Thread, memory
    <2> QED BY <1>t, <1>n, <2>1, UpdateStutters DEF AtSource
  <1>5. ASSUME NEW t \in Refreshers, endRefresh(t) PROVE UpdateInv'
    <2>1. /\ th[t].pc = "return" /\ th'[t].pc \in {"ready", "done"} /\ th'[t].at = None
          /\ \A u \in Threads \ {t} : th'[u] = th[u]
          /\ UNCHANGED <<hash, schedule, raced>>
      BY <1>t, <1>5 DEF endRefresh, At, Ended, Ready
    <2> QED BY <1>t, <1>n, <2>1, UpdateStutters DEF AtSource
  <1>6. ASSUME NEW t \in Threads, NEW s \in Sources, updateSource(t, s) PROVE UpdateInv'
    <2>0. /\ th[t].pc = "source" /\ th[t].at = None /\ th'[t].conf = th[t].conf
          /\ UNCHANGED schedule
      BY <1>t, <1>n, <1>6, UpdateMoves DEF updateSource, At, AtSource, schedule
    <2>1. CASE hash[s] = th[t].conf[s]
      <3>1. Moves(t, "source", None) /\ UNCHANGED <<hash, schedule, raced>>
        BY <1>t, <1>6, <2>0, <2>1, UpdateMoves DEF updateSource
      <3> QED BY <2>0, <3>1, UpdateStutters DEF Moves, AtSource
    <2>2. CASE hash[s] # th[t].conf[s]
      <3>1. /\ Moves(t, "remove", s) /\ hash' = [hash EXCEPT ![s] = th[t].conf[s]]
            /\ raced' = IF \E u \in Threads \ {t} : th[u].at = s
                          THEN raced \cup {s} ELSE raced
        BY <1>t, <1>6, <2>0, <2>2, UpdateMoves DEF updateSource, hashSource
      <3>2. /\ hash'[s] = th'[t].conf[s]
            /\ \A r \in Sources \ {s} : hash'[r] = hash[r]
        BY <1>t, <2>0, <3>1 DEF Configs
      <3>3. /\ th'[t].at = s /\ th'[t].pc = "remove"
            /\ \A u \in Threads \ {t} : th'[u] = th[u]
        BY <3>1 DEF Moves
      <3>4. /\ raced \subseteq raced'
            /\ s \notin raced' => \A u \in Threads \ {t} : th[u].at # s
        BY <3>1
      <3>5. \A r \in Sources \ raced', v \in Threads : th'[v].at = r => Between(r, v)'
        <4> SUFFICES ASSUME NEW r \in Sources \ raced', NEW v \in Threads, th'[v].at = r
                     PROVE  Between(r, v)'
          OBVIOUS
        <4>1. CASE v = t
          BY <3>2, <3>3, <3>4, <4>1 DEF Between
        <4>2. CASE v # t
          <5>1. th'[v] = th[v] /\ r # s /\ r \notin raced
            BY <3>3, <3>4, <4>2
          <5>2. Between(r, v)
            BY <1>t, <5>1 DEF UpdateInv
          <5> QED BY <2>0, <3>2, <3>3, <5>1, <5>2 DEF Between, schedule
        <4> QED BY <4>1, <4>2
      <3>6. HashedIsInForce'
        <4> SUFFICES ASSUME NEW r \in Sources \ raced', ~InUpdate(r)'
                     PROVE  HashedOK(r)'
          BY DEF HashedIsInForce, HashedOK
        <4>1. r # s /\ r \notin raced
          BY <3>3, <3>4 DEF InUpdate
        <4>2. ~InUpdate(r)
          BY <1>t, <2>0, <3>3 DEF InUpdate
        <4> QED BY <1>t, <2>0, <3>2, <4>1, <4>2
                DEF UpdateInv, HashedIsInForce, HashedOK, schedule
      <3> QED BY <1>t, <3>3, <3>5, <3>6 DEF UpdateInv, AtSource
    <2> QED BY <2>1, <2>2
  \* A step of t at s, with the hash stored: only the packs of s change.
  <1>p. ASSUME NEW t \in Threads, NEW s \in Sources, th[t].at = s,
               th'[t].at \in {s, None}, th'[t].pc \in AtSource <=> th'[t].at = s,
               \A u \in Threads \ {t} : th'[u] = th[u], UNCHANGED <<hash, raced>>,
               \A r \in Sources \ {s} :
                 /\ packs'[r] = packs[r] /\ referred'[r] = referred[r]
                 /\ r \in unresolved' <=> r \in unresolved,
               s \notin raced /\ th'[t].at = s => Between(s, t)',
               s \notin raced /\ th'[t].at = None => HashedOK(s)'
        PROVE  UpdateInv'
    <2>1. \A v \in Threads : th'[v].pc \in AtSource <=> th'[v].at # None
      BY <1>t, <1>p DEF UpdateInv
    <2>2. s \notin raced => \A u \in Threads : th[u].at = s => u = t
      BY <1>t, <1>p DEF UpdateInv, Between
    <2>3. ASSUME NEW r \in Sources \ raced', NEW v \in Threads, th'[v].at = r
          PROVE  Between(r, v)'
      <3>1. CASE v = t
        BY <1>t, <1>p, <2>3, <3>1
      <3>2. CASE v # t
        <4>1. th'[v] = th[v] /\ r # s /\ r \notin raced
          BY <1>t, <1>p, <2>2, <2>3, <3>2
        <4>2. Between(r, v)
          BY <1>t, <2>3, <4>1 DEF UpdateInv
        <4> QED BY <1>t, <1>p, <2>3, <4>1, <4>2 DEF Between
      <3> QED BY <3>1, <3>2
    <2>4. ASSUME NEW r \in Sources \ raced', ~InUpdate(r)' PROVE HashedOK(r)'
      <3>1. CASE r = s
        BY <1>t, <1>p, <2>4, <3>1 DEF InUpdate
      <3>2. CASE r # s
        <4>1. ~InUpdate(r)
          BY <1>t, <1>p, <2>4, <3>2 DEF InUpdate
        <4>2. HashedOK(r)
          BY <1>t, <1>p, <2>4, <4>1 DEF UpdateInv, HashedIsInForce, HashedOK
        <4> QED BY <1>t, <1>p, <3>2, <4>2 DEF HashedOK
      <3> QED BY <3>1, <3>2
    <2> QED BY <2>1, <2>3, <2>4 DEF UpdateInv, HashedIsInForce, HashedOK
  <1>s. \A t \in Threads : th[t].pc \in AtSource =>
          /\ th[t].at \in Sources
          /\ th[t].at \notin raced => Between(th[t].at, t)
    BY <1>t DEF UpdateInv, Thread
  <1>7. ASSUME NEW t \in Threads, removeAll(t) PROVE UpdateInv'
    <2>0. PICK s \in Sources : th[t].at = s /\ (s \notin raced => Between(s, t))
      BY <1>s, <1>7 DEF AtSource, removeAll, At
    <2>1. /\ th[t].pc = "remove" /\ th'[t].pc = "parse" /\ th'[t].at = s
          /\ th'[t].conf = th[t].conf
          /\ \A u \in Threads \ {t} : th'[u] = th[u]
          /\ packs' = [packs EXCEPT ![s] = None]
          /\ referred' = [referred EXCEPT ![s] = None]
          /\ unresolved' = unresolved \ {s} /\ UNCHANGED <<hash, raced>>
      BY <1>t, <1>7, <2>0, UpdateMoves DEF removeAll, At, Moves
    <2>3. /\ packs'[s] = None /\ referred'[s] = None /\ s \notin unresolved'
          /\ \A r \in Sources \ {s} :
               /\ packs'[r] = packs[r] /\ referred'[r] = referred[r]
               /\ r \in unresolved' <=> r \in unresolved
      BY <1>t, <2>1, <2>0 DEF Configs
    <2>4. s \notin raced => Between(s, t)'
      BY <2>1, <2>0, <2>3 DEF Between
    <2>5. th[t].at = s /\ s # None /\ th'[t].pc \in AtSource
      BY <1>t, <2>1, <2>0 DEF AtSource
    <2> QED BY <1>p, <2>1, <2>0, <2>3, <2>4, <2>5
  <1>8. ASSUME NEW t \in Threads, parse(t) PROVE UpdateInv'
    <2>0. PICK s \in Sources : th[t].at = s /\ (s \notin raced => Between(s, t))
      BY <1>s, <1>8 DEF AtSource, parse, At
    <2> DEFINE c == th[t].conf[s]
    <2>1. /\ th[t].pc = "parse"
          /\ \A u \in Threads \ {t} : th'[u] = th[u]
          /\ packs' = IF c \in Valid THEN [packs EXCEPT ![s] = c] ELSE packs
          /\ UNCHANGED <<hash, raced, referred, unresolved>>
      BY <1>t, <1>8, <2>0, UpdateMoves DEF parse, At, Moves
    <2>m. /\ c \in Referring => /\ th'[t].pc = "genPack" /\ th'[t].at = s
                                /\ th'[t].conf = th[t].conf
          /\ c \notin Referring => th'[t].pc \in {"source", "return"} /\ th'[t].at = None
      BY <1>t, <1>8, <2>0 DEF parse, Thread
    <2>3. /\ packs'[s] = IF c \in Valid THEN c ELSE packs[s]
          /\ \A r \in Sources \ {s} : packs'[r] = packs[r]
      BY <1>t, <2>1, <2>0
    <2>4. s \notin raced /\ c \in Referring => Between(s, t)'
      BY <1>t, <2>1, <2>0, <2>3, <2>m DEF Between
    <2>5. s \notin raced /\ c \notin Referring => HashedOK(s)'
      BY <1>t, <2>1, <2>0, <2>3 DEF Between, HashedOK
    <2>6. /\ th[t].at = s /\ s # None /\ th'[t].at \in {s, None}
          /\ th'[t].pc \in AtSource <=> th'[t].at = s
          /\ th'[t].at = s => c \in Referring
          /\ th'[t].at = None => c \notin Referring
      BY <1>t, <2>0, <2>m DEF AtSource
    <2> HIDE DEF c
    <2> QED BY <1>p, <2>1, <2>0, <2>3, <2>4, <2>5, <2>6
  <1>8a. ASSUME NEW t \in Threads, NEW ok \in BOOLEAN, genPack(t, ok) PROVE UpdateInv'
    <2>0. PICK s \in Sources : th[t].at = s /\ (s \notin raced => Between(s, t))
      BY <1>s, <1>8a DEF AtSource, genPack, At
    <2>1. /\ th[t].pc = "genPack" /\ th'[t].pc = "source" /\ th'[t].at = None
          /\ \A u \in Threads \ {t} : th'[u] = th[u]
          /\ referred' = IF ok THEN [referred EXCEPT ![s] = th[t].conf[s]] ELSE referred
          /\ unresolved' = IF ok THEN unresolved ELSE unresolved \cup {s}
          /\ UNCHANGED <<hash, raced, packs>>
      BY <1>t, <1>8a, <2>0, UpdateMoves DEF genPack, At, Moves
    <2>3. /\ referred'[s] = IF ok THEN th[t].conf[s] ELSE referred[s]
          /\ \A r \in Sources \ {s} :
               referred'[r] = referred[r] /\ (r \in unresolved' <=> r \in unresolved)
      BY <1>t, <2>1, <2>0 DEF Configs
    <2>4. s \notin raced => HashedOK(s)'
      BY <1>t, <2>1, <2>0, <2>3 DEF Between, HashedOK
    <2>5. th[t].at = s /\ s # None /\ th'[t].pc \notin AtSource
      BY <1>t, <2>1, <2>0 DEF AtSource
    <2> QED BY <1>p, <2>1, <2>0, <2>3, <2>4, <2>5
  <1>9. ASSUME NEW t \in Threads,
               \/ backupConfig(t)
               \/ \E s \in Sources : backupKey(t, s)
               \/ endBackup(t)
        PROVE  UpdateInv'
    <2>1. /\ th[t].pc \in {"source", "backup"} /\ UNCHANGED <<hash, schedule, raced>>
      BY <1>9 DEF backupConfig, backupKey, endBackup, At, memory, schedule
    <2>2. \E pc \in {"backup", "return"} : Moves(t, pc, th[t].at)
      BY <1>t, <1>9, UpdateMoves
    <2> QED BY <1>n, <2>1, <2>2, UpdateStutters DEF Moves, AtSource
  <1>10. CASE endUpdate
    <2>1. /\ th["plugin"].pc = "return" /\ th'["plugin"] = Ready
          /\ \A u \in Threads \ {"plugin"} : th'[u] = th[u]
          /\ UNCHANGED <<hash, schedule, raced>>
      BY <1>10, <1>t DEF endUpdate, memory, At
    <2> QED BY <1>t, <1>n, <2>1, UpdateStutters DEF Ready, AtSource
  <1>11. ASSUME NEW push \in Pushes, updateFromExtension(push[1], push[2])
         PROVE  UpdateInv'
    <2>1. /\ th["plugin"].pc = "ready" /\ th'["plugin"].pc = "source"
          /\ th'["plugin"].at = th["plugin"].at
          /\ \A u \in Threads \ {"plugin"} : th'[u] = th[u]
          /\ UNCHANGED <<hash, schedule, raced>>
      BY <1>11, <1>t DEF updateFromExtension, BeginUpdate, memory, At, Thread
    <2> QED BY <1>t, <1>n, <2>1, UpdateStutters DEF AtSource
  <1>12. ASSUME NEW conf \in Answers, serve(conf) PROVE UpdateInv'
    BY <1>t, <1>12 DEF serve, memory, schedule, UpdateInv, Between, HashedIsInForce, InUpdate
  <1>13. CASE Restart
    BY <1>t, <1>13 DEF Restart, UpdateInv, AtSource, HashedIsInForce, InUpdate, Ready, NoConfig
  <1>14. CASE UNCHANGED vars
    BY <1>t, <1>14 DEF vars, memory, schedule, UpdateInv, Between, HashedIsInForce, InUpdate
  <1> QED BY <1>t, <1>1, <1>2, <1>3, <1>4, <1>4a, <1>5, <1>6, <1>7, <1>8, <1>8a, <1>9, <1>10, <1>11,
             <1>12, <1>13, <1>14
          DEF Next, Refresh, Plugin, Update

-----------------------------------------------------------------------------

\* Init and every step keep the invariant.
LEMMA Invariance == Spec => []Inv
  <1>1. Inv /\ [Next]_vars => Inv'
    BY StepType, StepMutex, StepUpdate DEF Inv
  <1> QED BY <1>1, InitInv, PTL DEF Spec

\* Every variable keeps its type, whatever is served and whatever does not parse.
THEOREM TypeCorrect == Spec => []TypeOK
  <1>1. Inv => TypeOK
    BY DEF Inv
  <1> QED BY <1>1, Invariance, PTL

\* hashSource never makes updateSource skip content that is not in force.
THEOREM HashedCorrect == Spec => []HashedIsInForce
  <1>1. Inv => HashedIsInForce
    BY DEF Inv, UpdateInv
  <1> QED BY <1>1, Invariance, PTL

\* restoreConfigBackup is not called once an answer has been applied, by any thread.
THEOREM RestoreCorrect == Spec => RestoreOnlyBeforeAnswer
  <1>1. Inv => \A t \in Refreshers : At(t, "restore") /\ th'[t].pc = "source" => ~valid
    BY DEF Inv, FirstInv
  <1> QED BY <1>1, Invariance, PTL DEF RestoreOnlyBeforeAnswer
=============================================================================
