---------------------------- MODULE ConfigRefresh ----------------------------
(***************************************************************************)
(* The configuration's refresh (Config in config.cpp): what a config       *)
(* plugin answers is hashed, parsed and put in force source by source, and *)
(* backed up in the database; the backup is restored when the first        *)
(* refresh of a process fails.                                             *)
(*                                                                         *)
(* Three threads: main loads the configuration once, the refresh runner    *)
(* refreshes it again and again, and a call of the "update" plugin from an *)
(* extension updates one source.  A refresh asks the plugin before it      *)
(* takes config_refresh_mutex_; an update from an extension does not take  *)
(* that mutex at all.  A configuration maps sources to contents, None for  *)
(* a source it does not have.  Valid contents are those that parse, and    *)
(* Referring ones have packs that are only named there and are asked of    *)
(* the plugin (genPack), which may fail.  The packs of a source are its    *)
(* content, the ones inside it and the ones it refers to; that the         *)
(* schedule's lock is released between two packs of one source is left     *)
(* out, and so are the delay between two refreshes and loaded_, which      *)
(* decides whether plugins are told of an update.  Config::purge, at the   *)
(* start of an update, is in DifferentialQuery.                            *)
(***************************************************************************)
EXTENDS Integers, FiniteSets

CONSTANTS
  Sources, Contents,
  Valid,        \* contents that are JSON within the limits
  Referring,    \* those of them that refer to a pack
  EnableBackup, \* config_enable_backup
  None,
  Answers,      \* configurations the remote may serve
  Pushes,       \* sources and contents an extension may send
  MaxChanges,   \* bound: changes of what is served
  MaxUpdates,   \* bound: updates from an extension
  MaxCrash      \* bound: crashes

ASSUME ContentsAssumption == /\ Valid \subseteq Contents /\ Referring \subseteq Valid
                             /\ None \notin Contents
ASSUME FlagAssumption     == EnableBackup \in BOOLEAN
ASSUME AnswersAssumption  == /\ Answers \subseteq [Sources -> Contents \cup {None}]
                             /\ Pushes \subseteq Sources \X Contents
ASSUME BoundsAssumption   == MaxChanges \in Nat /\ MaxUpdates \in Nat /\ MaxCrash \in Nat

Refreshers == {"main", "runner"}
Threads == Refreshers \cup {"plugin"}

ASSUME NoneAssumption == None \notin Threads \cup Sources

VARIABLES
  served,    \* what the remote serves
  hash,      \* hash_: the content last seen for each source
  packs,     \* schedule_: the content in force for each source
  referred,  \* schedule_: the content whose packs by reference are in force
  backup,    \* "config_persistence." keys in the database
  refreshMutex, backupMutex,
  first,     \* is_first_time_refresh
  valid,     \* valid_
  th,        \* the threads
  changes, updates, crashes,
  raced,     \* history: sources that two threads have updated at once
  unresolved \* history: sources whose packs by reference could not be had

schedule == <<packs, referred, unresolved>>
memory  == <<hash, schedule, first, valid>>
mutexes == <<refreshMutex, backupMutex>>
bounds  == <<changes, updates, crashes>>
vars == <<served, memory, backup, mutexes, th, bounds, raced>>

NoConfig == [s \in Sources |-> None]
Has(conf) == {s \in Sources : conf[s] # None}

\* Its place, whether genConfig succeeded, the configuration, the sources left to
\* update or to back up, and the source it is at.
Ready == [pc |-> "ready", ok |-> FALSE, conf |-> NoConfig, todo |-> {}, at |-> None]

Init ==
  /\ served \in Answers
  /\ hash = NoConfig /\ packs = NoConfig /\ referred = NoConfig
  /\ backup = NoConfig
  /\ refreshMutex = None /\ backupMutex = None
  /\ first = TRUE /\ valid = FALSE
  /\ th = [t \in Threads |-> Ready]
  /\ changes = 0 /\ updates = 0 /\ crashes = 0
  /\ raced = {} /\ unresolved = {}

At(t, pc) == th[t].pc = pc

-----------------------------------------------------------------------------
(* refresh *)

\* The plugin answers, or fails; no mutex is held.
genConfig(t, ok) ==
  /\ At(t, "ready")
  /\ th' = [th EXCEPT ![t].pc = "lock", ![t].ok = ok,
                      ![t].conf = IF ok THEN served ELSE NoConfig]
  /\ UNCHANGED <<served, memory, backup, mutexes, bounds, raced>>

\* Main returns from load; the runner pauses and goes on.
Ended(t) == [Ready EXCEPT !.pc = IF t = "main" THEN "done" ELSE "ready"]

BeginUpdate(t, conf) ==
  th' = [th EXCEPT ![t].pc = "source", ![t].conf = conf, ![t].todo = Has(conf)]

\* With config_refresh_mutex_: a failure restores the backup, in the first refresh
\* only; after a success the answer is applied.
refreshFailed(t) ==
  /\ At(t, "lock") /\ ~th[t].ok /\ refreshMutex = None
  /\ IF EnableBackup /\ first
       THEN /\ th' = [th EXCEPT ![t].pc = "restore"]
            /\ refreshMutex' = t
            /\ first' = FALSE
       ELSE /\ th' = [th EXCEPT ![t] = Ended(t)]
            /\ UNCHANGED <<refreshMutex, first>>
  /\ UNCHANGED <<served, hash, schedule, valid, backup, backupMutex, bounds, raced>>

refreshed(t) ==
  /\ At(t, "lock") /\ th[t].ok /\ refreshMutex = None
  /\ refreshMutex' = t
  /\ valid' = TRUE
  /\ BeginUpdate(t, th[t].conf)
  /\ UNCHANGED <<served, hash, schedule, first, backup, backupMutex, bounds,
                 raced>>

restoreConfigBackup(t) ==
  /\ At(t, "restore") /\ backupMutex = None
  /\ BeginUpdate(t, backup)
  /\ UNCHANGED <<served, memory, backup, mutexes, bounds, raced>>

\* A key that cannot be read: nothing is restored, and not tried again.
restoreFails(t) ==
  /\ At(t, "restore") /\ backupMutex = None
  /\ th' = [th EXCEPT ![t].pc = "return"]
  /\ UNCHANGED <<served, memory, backup, mutexes, bounds, raced>>

\* Mutant: a success does not end the time of the backup.
firstAfterKept(t) == first

firstAfter(t) == IF th[t].ok THEN FALSE ELSE first

endRefresh(t) ==
  /\ At(t, "return")
  /\ first' = firstAfter(t)
  /\ refreshMutex' = None
  /\ th' = [th EXCEPT ![t] = Ended(t)]
  /\ UNCHANGED <<served, hash, schedule, valid, backup, backupMutex, bounds,
                 raced>>

-----------------------------------------------------------------------------
(* update *)

\* ConfigPlugin::call "update", from an extension: one source, on its own thread
updateFromExtension(s, c) ==
  /\ At("plugin", "ready") /\ updates < MaxUpdates
  /\ updates' = updates + 1
  /\ BeginUpdate("plugin", [NoConfig EXCEPT ![s] = c])
  /\ UNCHANGED <<served, memory, backup, mutexes, changes, crashes, raced>>

\* Mutant: the hash is not stored.
hashNotStored(s, c) == hash

hashSource(s, c) == [hash EXCEPT ![s] = c]

\* Mutant: status 2 is taken for a failure.
afterUnchangedEnds(t) == "return"

\* Where update goes after a source whose content has not changed (status 2).
afterUnchanged(t) == "source"

\* updateSource, first step: unchanged content is skipped; the new hash is stored
\* before the content is parsed.
updateSource(t, s) ==
  LET c == th[t].conf[s] IN
  /\ At(t, "source") /\ s \in th[t].todo
  /\ IF hash[s] = c
       THEN /\ th' = [th EXCEPT ![t].pc = afterUnchanged(t), ![t].todo = @ \ {s}]
            /\ UNCHANGED <<hash, raced>>
       ELSE /\ hash' = hashSource(s, c)
            /\ th' = [th EXCEPT ![t].pc = "remove", ![t].at = s, ![t].todo = @ \ {s}]
            /\ raced' = IF \E u \in Threads \ {t} : th[u].at = s
                          THEN raced \cup {s} ELSE raced
  /\ UNCHANGED <<served, schedule, first, valid, backup, mutexes, bounds>>

removeAll(t) ==
  /\ At(t, "remove")
  /\ packs' = [packs EXCEPT ![th[t].at] = None]
  /\ referred' = [referred EXCEPT ![th[t].at] = None]
  /\ unresolved' = unresolved \ {th[t].at}
  /\ th' = [th EXCEPT ![t].pc = "parse"]
  /\ UNCHANGED <<served, hash, first, valid, backup, mutexes, bounds,
                 raced>>

\* Content that does not parse ends the update, without a backup.  Other content is
\* put in force, except the packs it only refers to.
parse(t) ==
  LET s == th[t].at
      c == th[t].conf[s]
  IN  /\ At(t, "parse")
      /\ IF c \in Valid
           THEN /\ packs' = [packs EXCEPT ![s] = c]
                /\ th' = [th EXCEPT
                     ![t].pc = IF c \in Referring THEN "genPack" ELSE "source",
                     ![t].at = IF c \in Referring THEN s ELSE None]
           ELSE /\ th' = [th EXCEPT ![t].pc = "return", ![t].at = None]
                /\ UNCHANGED packs
      /\ UNCHANGED <<served, hash, referred, unresolved, first, valid, backup,
                     mutexes, bounds, raced>>

\* The plugin is asked for the packs that the content refers to.  That it fails, or
\* that its answer does not parse, is not told to updateSource, and the hash stays.
genPack(t, ok) ==
  LET s == th[t].at IN
  /\ At(t, "genPack")
  /\ referred' = IF ok THEN [referred EXCEPT ![s] = th[t].conf[s]] ELSE referred
  /\ unresolved' = IF ok THEN unresolved ELSE unresolved \cup {s}
  /\ th' = [th EXCEPT ![t].pc = "source", ![t].at = None]
  /\ UNCHANGED <<served, hash, packs, first, valid, backup, mutexes, bounds, raced>>

\* backupConfig deletes what the configuration does not have, then writes the rest,
\* key by key with config_backup_mutex_ held.
backupConfig(t) ==
  /\ At(t, "source") /\ th[t].todo = {}
  /\ IF EnableBackup
       THEN /\ backupMutex = None /\ backupMutex' = t
            /\ th' = [th EXCEPT ![t].pc = "backup", ![t].todo = Sources]
       ELSE /\ th' = [th EXCEPT ![t].pc = "return"]
            /\ UNCHANGED backupMutex
  /\ UNCHANGED <<served, memory, backup, refreshMutex, bounds, raced>>

backupKey(t, s) ==
  /\ At(t, "backup") /\ s \in th[t].todo
  /\ th[t].conf[s] # None => \A r \in th[t].todo : th[t].conf[r] # None
  /\ backup' = [backup EXCEPT ![s] = th[t].conf[s]]
  /\ th' = [th EXCEPT ![t].todo = @ \ {s}]
  /\ UNCHANGED <<served, memory, mutexes, bounds, raced>>

endBackup(t) ==
  /\ At(t, "backup") /\ th[t].todo = {}
  /\ backupMutex' = None
  /\ th' = [th EXCEPT ![t].pc = "return"]
  /\ UNCHANGED <<served, memory, backup, refreshMutex, bounds, raced>>

\* The extension's call returns.
endUpdate ==
  /\ At("plugin", "return")
  /\ th' = [th EXCEPT !["plugin"] = Ready]
  /\ UNCHANGED <<served, memory, backup, mutexes, bounds, raced>>

-----------------------------------------------------------------------------
(* The environment *)

serve(conf) ==
  /\ changes < MaxChanges /\ conf # served
  /\ changes' = changes + 1
  /\ served' = conf
  /\ UNCHANGED <<memory, backup, mutexes, th, updates, crashes, raced>>

\* The worker dies; the next one starts with the database only.
Restart ==
  /\ crashes < MaxCrash
  /\ crashes' = crashes + 1
  /\ hash' = NoConfig /\ packs' = NoConfig /\ referred' = NoConfig
  /\ first' = TRUE /\ valid' = FALSE
  /\ refreshMutex' = None /\ backupMutex' = None
  /\ th' = [t \in Threads |-> Ready]
  /\ raced' = {} /\ unresolved' = {}
  /\ UNCHANGED <<served, backup, changes, updates>>

Update(t) ==
  \/ \E s \in Sources : updateSource(t, s)
  \/ removeAll(t)
  \/ parse(t)
  \/ \E ok \in BOOLEAN : genPack(t, ok)
  \/ backupConfig(t)
  \/ \E s \in Sources : backupKey(t, s)
  \/ endBackup(t)

Refresh(t) ==
  \/ \E ok \in BOOLEAN : genConfig(t, ok)
  \/ refreshFailed(t)
  \/ refreshed(t)
  \/ restoreConfigBackup(t)
  \/ restoreFails(t)
  \/ endRefresh(t)
  \/ Update(t)

Plugin == Update("plugin") \/ endUpdate

Next ==
  \/ \E t \in Refreshers : Refresh(t)
  \/ Plugin
  \/ \E push \in Pushes : updateFromExtension(push[1], push[2])
  \/ \E conf \in Answers : serve(conf)
  \/ Restart

\* The threads run, and a remote that is asked again and again answers the runner.
Fairness ==
  /\ \A t \in Refreshers : WF_vars(Refresh(t))
  /\ WF_vars(Plugin)
  /\ SF_vars(genConfig("runner", TRUE))

Spec == Init /\ [][Next]_vars /\ Fairness

-----------------------------------------------------------------------------
(* Properties *)

Places == {"ready", "lock", "restore", "source", "remove", "parse", "genPack",
           "backup", "return", "done"}

Configs == [Sources -> Contents \cup {None}]

\* Every variable stays in its set, and a mutex is held by a thread inside it.
TypeOK ==
  /\ served \in Configs /\ hash \in Configs /\ backup \in Configs
  /\ packs \in [Sources -> Valid \cup {None}] /\ referred \in Configs
  /\ refreshMutex \in Refreshers \cup {None}
  /\ backupMutex \in Threads \cup {None}
  /\ first \in BOOLEAN /\ valid \in BOOLEAN
  /\ th \in [Threads -> [pc : Places, ok : BOOLEAN, conf : Configs,
                         todo : SUBSET Sources, at : Sources \cup {None}]]
  /\ changes \in Nat /\ updates \in Nat /\ crashes \in Nat
  /\ raced \subseteq Sources /\ unresolved \subseteq Sources

InUpdate(s) == \E t \in Threads : th[t].at = s

\* What updateSource will skip as unchanged is in force, as long as no two threads
\* have updated the source at once: the packs of a source are those of the hashed
\* content, or none if that does not parse, and so are the packs it refers to.  The
\* latter may be missing, and are then missing as long as the hash is kept, only if
\* genPack failed when that hash was stored.
HashedIsInForce ==
  \A s \in Sources \ raced :
    ~InUpdate(s) =>
      /\ packs[s] = IF hash[s] \in Valid THEN hash[s] ELSE None
      /\ referred[s] = IF hash[s] \in Referring /\ s \notin unresolved THEN hash[s]
                                                                        ELSE None

\* A refresh that fails restores the backup only if the process has not applied an
\* answer of the plugin yet, on whichever thread: the backup never replaces an
\* answer.  (A source that an extension has sent before is replaced.)
RestoreOnlyBeforeAnswer ==
  [][\A t \in Refreshers : At(t, "restore") /\ th'[t].pc = "source" => ~valid]_vars

InForce(s, c) ==
  /\ packs[s] = c
  /\ c \in Referring => referred[s] = c \/ s \in unresolved

\* What is served is put in force in the end: a failing genConfig, restarts, restored
\* backups, older answers that were applied late and another source that does not
\* parse only delay it.  Packs by reference whose genPack failed are excepted: with
\* the hash stored they are not asked for again.
ServedIsInForce ==
  \A s \in Sources :
    <>[](served[s] \in Valid => InForce(s, served[s]) \/ s \in raced)
=============================================================================
