----------------------------- MODULE Extensions -----------------------------
(***************************************************************************)
(* Extensions and the registry's routes to them (extensions.cpp,           *)
(* interface.cpp, registry_factory.cpp, registry_interface.cpp).           *)
(*                                                                         *)
(* An extension process registers with the manager in the core: it gets a  *)
(* uuid, its items (tables, loggers...) become routes to it, and it is     *)
(* listed.  Then it opens a socket of its own and asks for the list again  *)
(* and again; if it is not listed it exits.  The manager's watcher pings   *)
(* every uuid of the registry and removes the routes of those that do not  *)
(* answer.                                                                 *)
(*                                                                         *)
(* The manager is a threaded server: every call has a thread, and each     *)
(* section under extensions_mutex_, uuid_mutex_ or a registry's mutex is   *)
(* one step.  An extension makes one call at a time, and starts again only *)
(* when its last call has ended.  A process that dies does not stop the    *)
(* call it has made.  Uuids are numbered in the order UuidGenerator gives  *)
(* them: that rand() gives a released uuid (or 0, the core's) again is     *)
(* left out, and so are refusals for the SDK's version.                    *)
(***************************************************************************)
EXTENDS Integers, FiniteSets

CONSTANTS
  Extensions,  \* extension processes
  Name,        \* ExtensionInfo::name of each
  Items,       \* registry items
  Broadcasts,  \* the sets of items an extension may offer
  Unknown,     \* items of a registry the core does not have
  None,
  MaxStarts,   \* bound: processes started
  MaxSlow      \* bound: uuids whose socket comes after extensions_timeout or whose
               \* ping fails while the process is there

ASSUME NamesAssumption ==
  /\ Unknown \subseteq Items /\ None \notin Extensions \cup Items
  /\ Broadcasts \subseteq SUBSET Items /\ {} \notin Broadcasts
ASSUME BoundsAssumption == MaxStarts \in Nat /\ MaxSlow \in Nat

NoUuid == 0
Uuids == 1..MaxStarts

VARIABLES
  given,     \* the number of uuids getUuid has given
  exts,      \* RegistryFactory::extensions_, what routeUUIDs returns
  listed,    \* ExtensionManagerInterface::extensions_: uuid -> extension
  external,  \* external_: item -> uuid
  routes,    \* routes_: the items with route info
  failures,  \* failures_ of the manager's watcher
  watch,     \* the watcher's thread
  call,      \* the thread of each extension's call
  proc,      \* each extension's process
  id,        \* the uuid it was given
  offer,     \* the items it offers
  starts,
  slow,      \* history: uuids whose process was there and failed the check
  partial,   \* history: uuids refused because of an unknown registry
  raced      \* history: items added while another thread was at them

registry == <<exts, external, routes>>
manager  == <<given, listed>>
process  == <<proc, id, offer, starts>>
observed  == <<partial, raced>>
extensionVars == <<registry, manager, process, observed, failures, watch, call, slow>>

\* The operation, its place, the uuid it is about, the items left to check, to add
\* or to erase, the item it is at, what routeUUIDs returned, and whether the
\* broadcast was added.
Idle == [op |-> "none", pc |-> "idle", uuid |-> NoUuid, todo |-> {}, item |-> None,
         seen |-> {}, ok |-> TRUE]

Resting == [pc |-> "check", todo |-> {}, uuid |-> NoUuid, items |-> {}]

ExtensionInit ==
  /\ given = 0 /\ exts = {} /\ routes = {}
  /\ listed = [u \in Uuids |-> None]
  /\ external = [x \in Items |-> NoUuid]
  /\ failures = [u \in Uuids |-> 0]
  /\ watch = Resting
  /\ call = [p \in Extensions |-> Idle]
  /\ proc = [p \in Extensions |-> "off"]
  /\ id = [p \in Extensions |-> NoUuid]
  /\ offer = [p \in Extensions |-> {}]
  /\ starts = 0
  /\ slow = {} /\ partial = {} /\ raced = {}

At(p, pc) == call[p].pc = pc

GoTo(p, pc) == call' = [call EXCEPT ![p].pc = pc]

-----------------------------------------------------------------------------
(* The registry *)

\* removeExternal, first section: the items that lead to the uuid
itemsOf(u) == {x \in Items : external[x] = u}

\* Mutant: the route info goes and the route stays.
eraseRoutesOnly(S) ==
  /\ routes' = routes \ S
  /\ UNCHANGED external

\* second section: they are erased by their names
erase(S) ==
  /\ external' = [x \in Items |-> IF x \in S THEN NoUuid ELSE external[x]]
  /\ routes' = routes \ S

\* Mutant: only local items count.
existsLocal(x) == FALSE

\* existsUnsafe; the core has no item of its own among these
existsUnsafe(x) == external[x] # NoUuid \/ x \in routes

-----------------------------------------------------------------------------
(* Calls of the manager *)

\* refresh asks the registry for its uuids, and only then takes extensions_mutex_
\* and drops what is not among them.
refresh(p, op) ==
  call' = [call EXCEPT ![p] = [Idle EXCEPT !.op = op, !.pc = "prune",
                                           !.uuid = id[p], !.seen = exts]]

prune(p) ==
  /\ At(p, "prune")
  /\ listed' = [u \in Uuids |-> IF u \in call[p].seen THEN listed[u] ELSE None]
  /\ call' = [call EXCEPT ![p].seen = {},
                          ![p].pc = IF call[p].op = "register" THEN "exists"
                                                               ELSE "reply"]
  /\ UNCHANGED <<registry, given, process, observed, failures, watch, slow>>

\* A process that was waiting for the call learns its result; one that has died
\* does not.
Return(p, state, u) ==
  LET up == proc[p] # "off" /\ state # "off" IN
  /\ call' = [call EXCEPT ![p] = Idle]
  /\ proc' = [proc EXCEPT ![p] = IF up THEN state ELSE "off"]
  /\ id' = [id EXCEPT ![p] = IF up THEN u ELSE NoUuid]
  /\ offer' = [offer EXCEPT ![p] = IF up THEN @ ELSE {}]

\* registerExtension: a name that is listed is refused
exists(p) ==
  /\ At(p, "exists")
  /\ IF \E u \in Uuids : listed[u] # None /\ Name[listed[u]] = Name[p]
       THEN Return(p, "off", NoUuid)
       ELSE GoTo(p, "uuid") /\ UNCHANGED <<proc, id, offer>>
  /\ UNCHANGED <<registry, manager, starts, observed, failures, watch, slow>>

\* A new uuid; that addBroadcast does not know it yet needs no check here.
getUuid(p) ==
  /\ At(p, "uuid")
  /\ given' = given + 1
  /\ call' = [call EXCEPT ![p].pc = "conflicts", ![p].uuid = given + 1,
                          ![p].todo = offer[p]]
  /\ UNCHANGED <<registry, listed, process, observed, failures, watch, slow>>

\* addBroadcast: every item must be new, each looked up under the lock
conflicts(p) ==
  /\ At(p, "conflicts")
  /\ \E x \in call[p].todo :
       LET last == call[p].todo = {x} IN
       IF x \notin Unknown /\ existsUnsafe(x)
         THEN Return(p, "off", NoUuid)
         ELSE /\ call' = [call EXCEPT ![p].pc = IF last THEN "route" ELSE "conflicts",
                                      ![p].todo = IF last THEN offer[p] ELSE @ \ {x}]
              /\ UNCHANGED <<proc, id, offer>>
  /\ UNCHANGED <<registry, manager, starts, observed, failures, watch, slow>>

\* Threads that may add or erase x next.
Busy(x) ==
  {q \in Extensions : \/ /\ call[q].op = "register" /\ x \in offer[q]
                         /\ call[q].pc \in {"conflicts", "route", "attach"}
                      \/ call[q].pc = "erase" /\ x \in call[q].todo}

\* addExternal, item by item: the route info first.  An unknown registry ends
\* addBroadcast at once, and what has been added stays.
route(p) ==
  /\ At(p, "route")
  /\ \E x \in call[p].todo :
       IF x \in Unknown
         THEN /\ Return(p, "off", NoUuid)
              /\ partial' = partial \cup {call[p].uuid}
              /\ UNCHANGED <<routes, raced>>
         ELSE /\ routes' = routes \cup {x}
              /\ call' = [call EXCEPT ![p].pc = "attach", ![p].item = x]
              /\ raced' = IF Busy(x) # {p} \/ x \in watch.items
                            THEN raced \cup {x} ELSE raced
              /\ UNCHANGED <<partial, proc, id, offer>>
  /\ UNCHANGED <<exts, external, manager, starts, failures, watch, slow>>

\* addExternalPlugin attaches a table, unless its columns are missing or SQLite
\* refuses; then external_ has the item, or the broadcast is taken back.
attach(p, ok) ==
  LET x == call[p].item IN
  /\ At(p, "attach")
  /\ IF ok
       THEN /\ external' = [external EXCEPT ![x] = call[p].uuid]
            /\ call' = [call EXCEPT
                          ![p].pc = IF call[p].todo = {x} THEN "insert" ELSE "route",
                          ![p].todo = @ \ {x}, ![p].item = None]
       ELSE /\ call' = [call EXCEPT ![p].pc = "collect", ![p].ok = FALSE,
                                    ![p].item = None]
            /\ UNCHANGED external
  /\ UNCHANGED <<exts, routes, manager, process, observed, failures, watch, slow>>

\* The uuid is inserted after a failure as well, unless taking back the broadcast
\* met an unknown registry, which is an exception.
insert(p) ==
  /\ At(p, "insert")
  /\ exts' = IF call[p].ok \/ offer[p] \cap Unknown = {} THEN exts \cup {call[p].uuid}
                                                         ELSE exts
  /\ IF call[p].ok THEN GoTo(p, "list") /\ UNCHANGED <<proc, id, offer>>
                    ELSE Return(p, "off", NoUuid)
  /\ UNCHANGED <<external, routes, manager, starts, observed, failures, watch, slow>>

list(p) ==
  /\ At(p, "list")
  /\ listed' = [listed EXCEPT ![call[p].uuid] = p]
  /\ Return(p, "registered", call[p].uuid)
  /\ UNCHANGED <<registry, given, starts, observed, failures, watch, slow>>

\* extensions(), for the extension's own watcher: it exits when it is not listed.
reply(p) ==
  /\ At(p, "reply")
  /\ IF listed[call[p].uuid] = None THEN Return(p, "off", NoUuid)
                                     ELSE Return(p, proc[p], id[p])
  /\ UNCHANGED <<registry, manager, starts, observed, failures, watch, slow>>

\* removeExternal, as the end of a failed registration or in removeBroadcast
collect(p) ==
  /\ At(p, "collect")
  /\ call' = [call EXCEPT ![p].pc = "erase", ![p].todo = itemsOf(call[p].uuid)]
  /\ UNCHANGED <<registry, manager, process, observed, failures, watch, slow>>

eraseItems(p) ==
  /\ At(p, "erase")
  /\ erase(call[p].todo)
  /\ call' = [call EXCEPT ![p].todo = {},
                          ![p].pc = IF call[p].op = "register" THEN "insert"
                                                               ELSE "unregister"]
  /\ UNCHANGED <<exts, manager, process, observed, failures, watch, slow>>

unregister(p) ==
  /\ At(p, "unregister")
  /\ exts' = exts \ {call[p].uuid}
  /\ GoTo(p, "forget")
  /\ UNCHANGED <<external, routes, manager, process, observed, failures, watch, slow>>

forget(p) ==
  /\ At(p, "forget")
  /\ listed' = [listed EXCEPT ![call[p].uuid] = None]
  /\ Return(p, "off", NoUuid)
  /\ UNCHANGED <<registry, given, starts, observed, failures, watch, slow>>

Handle(p) ==
  \/ prune(p) \/ exists(p) \/ getUuid(p) \/ conflicts(p)
  \/ route(p) \/ (\E ok \in BOOLEAN : attach(p, ok)) \/ insert(p) \/ list(p)
  \/ reply(p)
  \/ collect(p) \/ eraseItems(p) \/ unregister(p) \/ forget(p)

-----------------------------------------------------------------------------
(* Extension processes *)

\* startExtension, up to the answer of registerExtension
Start(p, items) ==
  /\ proc[p] = "off" /\ At(p, "idle") /\ starts < MaxStarts
  /\ starts' = starts + 1
  /\ proc' = [proc EXCEPT ![p] = "joining"]
  /\ offer' = [offer EXCEPT ![p] = items]
  /\ refresh(p, "register")
  /\ UNCHANGED <<registry, manager, id, observed, failures, watch, slow>>

\* ExtensionRunner serves the extension's socket
OpenSocket(p) ==
  /\ proc[p] = "registered"
  /\ proc' = [proc EXCEPT ![p] = "serving"]
  /\ UNCHANGED <<registry, manager, id, offer, starts, observed, failures, watch, call,
                 slow>>

\* ExtensionWatcher::watch
Poll(p) ==
  /\ proc[p] \in {"registered", "serving"} /\ At(p, "idle")
  /\ refresh(p, "extensions")
  /\ UNCHANGED <<registry, manager, process, observed, failures, watch, slow>>

\* "When an Extension process is graceful killed it should deregister":
\* deregisterExtension, for a uuid that is listed, and known to the registry
Deregister(p) ==
  /\ proc[p] = "serving" /\ At(p, "idle")
  /\ IF listed[id[p]] = None THEN Return(p, "off", NoUuid)
     ELSE /\ proc' = [proc EXCEPT ![p] = "leaving"]
          /\ call' = [call EXCEPT ![p] =
                        [Idle EXCEPT !.op = "deregister", !.uuid = id[p],
                           !.pc = IF id[p] \in exts THEN "collect" ELSE "forget"]]
          /\ UNCHANGED <<id, offer>>
  /\ UNCHANGED <<registry, manager, starts, observed, failures, watch, slow>>

Die(p) ==
  /\ proc[p] # "off"
  /\ proc' = [proc EXCEPT ![p] = "off"]
  /\ id' = [id EXCEPT ![p] = NoUuid]
  /\ offer' = [offer EXCEPT ![p] = IF call[p].op = "register" THEN @ ELSE {}]
  /\ UNCHANGED <<registry, manager, starts, observed, failures, watch, call, slow>>

-----------------------------------------------------------------------------
(* ExtensionManagerWatcher::watch *)

answers(u) == \E p \in Extensions : id[p] = u /\ proc[p] \in {"serving", "leaving"}

\* A process that has still to open the socket of u.
Coming(u) ==
  \E p \in Extensions : \/ id[p] = u /\ proc[p] = "registered"
                        \/ call[p].uuid = u /\ proc[p] = "joining"

\* The first check of a uuid waits for its socket, up to extensions_timeout.
latent(u) == failures[u] = 0 /\ Coming(u)

\* One uuid: its socket answers, or it does not and has failed.  A process that is
\* there fails as well, when its socket comes too late or its ping fails or throws.
check(u) ==
  /\ watch.pc = "check" /\ u \in watch.todo
  /\ \/ /\ answers(u)
        /\ failures' = [failures EXCEPT ![u] = 1]
        /\ UNCHANGED slow
     \/ /\ ~answers(u) /\ ~latent(u)
        /\ failures' = [failures EXCEPT ![u] = 2]
        /\ UNCHANGED slow
     \/ /\ answers(u) \/ latent(u)
        /\ Cardinality(slow \cup {u}) <= MaxSlow
        /\ failures' = [failures EXCEPT ![u] = 2]
        /\ slow' = slow \cup {u}
  /\ watch' = [watch EXCEPT !.todo = @ \ {u}]
  /\ UNCHANGED <<registry, manager, process, observed, call>>

\* Mutant: one failure is not enough, and there is never a second.
hasFailedTwice(u) == failures[u] > 2

hasFailed(u) == failures[u] > 1

\* removeBroadcast for every uuid that has failed, if the registry knows it
sweep(u) ==
  /\ watch.pc = "check" /\ watch.todo = {} /\ hasFailed(u)
  /\ IF u \in exts
       THEN /\ watch' = [watch EXCEPT !.pc = "collect", !.uuid = u]
            /\ UNCHANGED failures
       ELSE /\ failures' = [failures EXCEPT ![u] = 1]
            /\ UNCHANGED watch
  /\ UNCHANGED <<registry, manager, process, observed, call, slow>>

sweepCollect ==
  /\ watch.pc = "collect"
  /\ watch' = [watch EXCEPT !.pc = "erase", !.items = itemsOf(watch.uuid)]
  /\ UNCHANGED <<registry, manager, process, observed, failures, call, slow>>

sweepErase ==
  /\ watch.pc = "erase"
  /\ erase(watch.items)
  /\ watch' = [watch EXCEPT !.pc = "unregister", !.items = {}]
  /\ UNCHANGED <<exts, manager, process, observed, failures, call, slow>>

sweepUnregister ==
  /\ watch.pc = "unregister"
  /\ exts' = exts \ {watch.uuid}
  /\ failures' = [failures EXCEPT ![watch.uuid] = 1]
  /\ watch' = [watch EXCEPT !.pc = "check", !.uuid = NoUuid]
  /\ UNCHANGED <<external, routes, manager, process, observed, call, slow>>

\* A round is over, and after the pause the next one asks for the uuids.
round ==
  /\ watch.pc = "check" /\ watch.todo = {}
  /\ \A u \in Uuids : ~hasFailed(u)
  /\ watch' = [watch EXCEPT !.todo = exts]
  /\ UNCHANGED <<registry, manager, process, observed, failures, call, slow>>

Watch ==
  \/ round
  \/ \E u \in Uuids : check(u) \/ sweep(u)
  \/ sweepCollect \/ sweepErase \/ sweepUnregister

ExtensionNext ==
  \/ \E p \in Extensions : \/ Handle(p)
                           \/ \E items \in Broadcasts : Start(p, items)
                           \/ OpenSocket(p) \/ Poll(p)
                           \/ Deregister(p) \/ Die(p)
  \/ Watch

\* The watcher and the handlers are threads that nothing stops, and an extension
\* that was registered opens its socket unless it dies.
Fairness ==
  /\ WF_extensionVars(Watch)
  /\ \A p \in Extensions : WF_extensionVars(Handle(p)) /\ WF_extensionVars(OpenSocket(p))

ExtensionSpec == ExtensionInit /\ [][ExtensionNext]_extensionVars /\ Fairness

-----------------------------------------------------------------------------
(* Properties *)

Places ==
  {"idle", "prune", "exists", "uuid", "conflicts", "route", "attach",
   "insert", "list", "reply", "collect", "erase", "unregister", "forget"}

Calls == [op : {"none", "register", "extensions", "deregister"}, pc : Places,
          uuid : 0..MaxStarts, todo : SUBSET Items, item : Items \cup {None},
          seen : SUBSET Uuids, ok : BOOLEAN]

Watches == [pc : {"check", "collect", "erase", "unregister"}, todo : SUBSET Uuids,
            uuid : 0..MaxStarts, items : SUBSET Items]

States == {"off", "joining", "registered", "serving", "leaving"}

ExtensionTypeOK ==
  /\ given \in 0..starts /\ exts \subseteq Uuids
  /\ listed \in [Uuids -> Extensions \cup {None}]
  /\ external \in [Items -> 0..MaxStarts] /\ routes \subseteq Items
  /\ failures \in [Uuids -> 0..2]
  /\ watch \in Watches
  /\ call \in [Extensions -> Calls] /\ proc \in [Extensions -> States]
  /\ id \in [Extensions -> 0..MaxStarts] /\ offer \in [Extensions -> SUBSET Items]
  /\ starts \in 0..MaxStarts
  /\ slow \subseteq Uuids /\ partial \subseteq Uuids /\ raced \subseteq Items

\* The call of p has started to add items for its uuid and has not inserted it.
Adding(p) == call[p].op = "register"
             /\ call[p].pc \in {"route", "attach", "collect", "erase", "insert"}

\* A route never leads to a uuid that the watcher cannot see: whoever owns an item
\* is in RegistryFactory::extensions_ or is just being registered, whatever dies,
\* fails or is removed by two threads at once.  The only exception is a broadcast
\* refused because of an unknown registry.
RoutesHaveOwner ==
  \A x \in Items :
    external[x] # NoUuid =>
      \/ external[x] \in exts \cup partial
      \/ \E p \in Extensions : Adding(p) /\ call[p].uuid = external[x]

Live(p) == proc[p] \in {"registered", "serving"} /\ id[p] \notin slow

\* An extension that runs, opens its socket in time and answers every ping is never
\* taken out of the registry: not before its first ping, nor for another's failure,
\* nor because of what failures_ remembers.  It has the routes of all its items, as
\* long as no two threads are at the same item: registrations of others that are
\* refused or removed, and older ones of its own, do not take them.
LiveIsKept ==
  \A p \in Extensions :
    Live(p) => /\ id[p] \in exts
               /\ \A x \in offer[p] \ raced : external[x] = id[p]

\* A uuid without a process does not stay in the registry.
HasProcess(u) ==
  \E p \in Extensions : proc[p] # "off" /\ u \in {id[p], call[p].uuid}

GoneIsRemoved ==
  \A u \in Uuids : (u \in exts /\ ~HasProcess(u)) ~> (u \notin exts)
=============================================================================
