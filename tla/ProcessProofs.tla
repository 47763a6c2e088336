--------------------------- MODULE ProcessProofs ---------------------------
(***************************************************************************)
(* Proofs about the processes osquery looks after: its extensions (the     *)
(* registry's routes to them and the manager's watcher), its worker (the   *)
(* denylist of scheduled queries) and the watchdog that starts and stops   *)
(* the worker.                                                             *)
(*                                                                         *)
(* The extensions' invariant has six parts besides the types.  GivenInv    *)
(* and UuidInv: a uuid is given once, belongs to one process and its call, *)
(* and is known to the registry and to its watcher only when its           *)
(* registration is over.  CallInv: which call a process makes in which of  *)
(* its states.  RouteInv: whoever is about to take a uuid out of the       *)
(* registry has erased its routes, and nobody adds any again, because      *)
(* routes are added for a uuid only while its registration is open.        *)
(* WatchInv: failures_ says of a uuid that is not slow only what is true   *)
(* of its process for good.  ItemInv: an item that no two threads were at  *)
(* is checked, attached and held by one registration, and whoever collects *)
(* the items to erase cannot collect that one.                             *)
(***************************************************************************)
EXTENDS Watcher, Extensions, FiniteSetTheorems, TLAPS

-----------------------------------------------------------------------------
(* Extensions: the invariant *)

\* A registration that has a uuid which is not in the registry yet.
Open(p) ==
  /\ call[p].op = "register"
  /\ call[p].pc \in {"conflicts", "route", "attach", "collect", "erase", "insert"}

\* The uuids given by getUuid whose registration is over, one way or another.
Closed == {u \in 1..given : \A p \in Extensions : Open(p) => call[p].uuid # u}

\* The uuids a process and its call know.
Mine(p) == {id[p], call[p].uuid} \ {NoUuid}

\* Registrations that have still to be given a uuid: no more than were started.
Unnamed == {p \in Extensions : call[p].op = "register"
                               /\ call[p].pc \in {"prune", "exists", "uuid"}}

GivenInv == IsFiniteSet(Unnamed) /\ given + Cardinality(Unnamed) <= starts

\* Which call a process makes, and where the call may be.
CallOK(p) ==
  /\ call[p].op = "none" <=> call[p].pc = "idle"
  /\ call[p].op = "register" =>
       /\ call[p].pc \in {"prune", "exists", "uuid", "list"} \/ Open(p)
       /\ proc[p] \in {"off", "joining"}
  /\ call[p].op = "extensions" => call[p].pc \in {"prune", "reply"}
  /\ call[p].op = "deregister" =>
       /\ call[p].pc \in {"collect", "erase", "unregister", "forget"}
       /\ proc[p] \in {"off", "leaving"}
  /\ call[p].uuid = NoUuid <=> call[p].op = "none" \/ p \in Unnamed
  /\ id[p] = NoUuid <=> proc[p] \in {"off", "joining"}
  /\ call[p].op \in {"extensions", "deregister"} => id[p] \in {NoUuid, call[p].uuid}
  /\ proc[p] = "joining" => call[p].op = "register"
  /\ call[p].pc \in {"conflicts", "route", "attach"} =>
       call[p].todo \subseteq offer[p] /\ call[p].ok
  /\ call[p].pc = "attach" => call[p].item \in call[p].todo \ Unknown
  /\ p \in Unnamed => call[p].ok
  /\ call[p].op = "register" /\ call[p].pc \in {"collect", "erase"} => ~call[p].ok

CallInv == \A p \in Extensions : CallOK(p)

\* No two processes have a uuid in common, and a uuid that somebody else than its
\* own registration knows is one that is closed.
UuidInv ==
  /\ \A p, q \in Extensions : p # q => Mine(p) \cap Mine(q) = {}
  /\ \A p \in Extensions : Mine(p) \subseteq 1..given
  /\ exts \cup slow \cup watch.todo \subseteq Closed
  /\ watch.pc # "check" => watch.uuid \in Closed
  /\ \A u \in Uuids : failures[u] # 0 => u \in Closed
  /\ \A x \in Items : external[x] <= given

\* Whoever is about to take a uuid out of the registry has erased its routes.
ErasesAll(p) ==
  /\ call[p].pc = "erase" => itemsOf(call[p].uuid) \subseteq call[p].todo
  /\ call[p].pc = "insert" /\ ~call[p].ok => itemsOf(call[p].uuid) = {}
  /\ call[p].pc = "unregister" => itemsOf(call[p].uuid) = {}

SweepsAll ==
  /\ watch.pc = "erase" => itemsOf(watch.uuid) \subseteq watch.items
  /\ watch.pc = "unregister" => itemsOf(watch.uuid) = {}

RouteInv == RoutesHaveOwner /\ (\A p \in Extensions : ErasesAll(p)) /\ SweepsAll

\* The registration of p is complete except for the manager's list, and its process
\* waits for the answer.
Ready(p) == /\ call[p].op = "register" /\ call[p].pc = "list"
            /\ proc[p] = "joining" /\ call[p].uuid \notin slow

\* The watcher fails only uuids that have no process any more, or a slow one.
WatchInv ==
  /\ watch.pc # "check" => failures[watch.uuid] = 2
  /\ \A u \in Uuids \ slow :
       /\ failures[u] # 0 => ~Coming(u)
       /\ failures[u] = 2 => \A p \in Extensions : id[p] = u => proc[p] # "serving"
  /\ \A p \in Extensions : Ready(p) => call[p].uuid \in exts
  /\ \A p \in Extensions : Live(p) => id[p] \in exts

\* p has looked up x and found no route, and has not added it yet.
Checked(p, x) ==
  /\ call[p].op = "register" /\ x \in offer[p]
  /\ \/ call[p].pc = "conflicts" /\ x \notin call[p].todo
     \/ call[p].pc \in {"route", "attach"} /\ x \in call[p].todo

\* p has added x and has not been told to give it up.
Holds(p, x) ==
  /\ x \in offer[p]
  /\ \/ /\ call[p].op = "register"
        /\ \/ call[p].pc \in {"route", "attach"} /\ x \notin call[p].todo
           \/ call[p].pc = "insert" /\ call[p].ok
     \/ Ready(p)
     \/ Live(p)

Own(p) == IF call[p].op = "register" THEN call[p].uuid ELSE id[p]

Attaching(p, x) == call[p].pc = "attach" /\ call[p].item = x

\* Somebody has collected x and is going to erase it.
Erasing(x) ==
  \/ x \in watch.items
  \/ \E p \in Extensions : call[p].pc = "erase" /\ x \in call[p].todo

\* Items on which no two threads were at work at once have one owner.
ItemOK(p, x) ==
  /\ Checked(p, x) => external[x] = NoUuid /\ (x \in routes => Attaching(p, x))
  /\ Attaching(p, x) => /\ x \in routes /\ ~Erasing(x)
                        /\ \A q \in Extensions \ {p} : ~Checked(q, x)
  /\ Holds(p, x) => external[x] = Own(p) /\ ~Erasing(x)

ItemInv ==
  /\ \A x \in Unknown : external[x] = NoUuid /\ x \notin routes
  /\ watch.pc # "erase" => watch.items = {}
  /\ \A x \in Items \ raced : \A p \in Extensions : ItemOK(p, x)

ExtensionInv ==
  /\ ExtensionTypeOK /\ GivenInv /\ CallInv /\ UuidInv /\ RouteInv /\ WatchInv /\ ItemInv

\* The tuples of the specification.
USE DEF registry, manager, process, observed, extensionVars, NoUuid, At, GoTo

\* The invariant holds before the first extension starts.
LEMMA ExtensionInitInv == ExtensionInit => ExtensionInv
<1> SUFFICES ASSUME ExtensionInit PROVE ExtensionInv
  OBVIOUS
<1> USE NamesAssumption, BoundsAssumption
<1>1. ExtensionTypeOK
  BY DEF ExtensionInit, ExtensionTypeOK, Calls, Places, Idle, Resting, Watches, States, Uuids
<1>2. /\ \A p \in Extensions : call[p] = Idle /\ proc[p] = "off" /\ id[p] = 0
      /\ \A x \in Items : external[x] = 0
      /\ \A u \in Uuids : failures[u] = 0
      /\ watch = Resting /\ exts = {} /\ slow = {} /\ routes = {} /\ given = 0
      /\ starts = 0
  BY DEF ExtensionInit
<1>3. Unnamed = {}
  BY <1>2 DEF Unnamed, Idle
<1>4. GivenInv
  BY <1>2, <1>3, FS_EmptySet DEF GivenInv
<1>5. CallInv
  BY <1>2, <1>3 DEF CallInv, CallOK, Idle, Open
<1>6. UuidInv
  BY <1>2 DEF UuidInv, Mine, Idle, Resting
<1>7. RouteInv
  BY <1>2 DEF RouteInv, RoutesHaveOwner, ErasesAll, SweepsAll, Idle, Resting
<1>8. WatchInv
  BY <1>2 DEF WatchInv, Ready, Live, Coming, Idle, Resting
<1>9. ItemInv
  BY <1>2 DEF ItemInv, ItemOK, Checked, Holds, Ready, Live, Attaching, Idle, Resting
<1> QED
  BY <1>1, <1>4, <1>5, <1>6, <1>7, <1>8, <1>9 DEF ExtensionInv

-----------------------------------------------------------------------------
(* What a step of a call changes *)

\* The calls of the others.
Others(p) ==
  \A q \in Extensions \ {p} :
    call'[q] = call[q] /\ proc'[q] = proc[q] /\ id'[q] = id[q] /\ offer'[q] = offer[q]

\* A call's record and its fields.
LEMMA CallFields ==
  ASSUME ExtensionTypeOK, NEW p \in Extensions
  PROVE  /\ call[p] \in Calls /\ proc[p] \in States
         /\ id[p] \in 0..MaxStarts /\ offer[p] \in SUBSET Items
         /\ call[p].op \in {"none", "register", "extensions", "deregister"}
         /\ call[p].pc \in Places /\ call[p].uuid \in 0..MaxStarts
         /\ call[p].todo \in SUBSET Items /\ call[p].item \in Items \cup {None}
         /\ call[p].seen \in SUBSET Uuids /\ call[p].ok \in BOOLEAN
BY DEF ExtensionTypeOK, Calls

\* An update of one call.
LEMMA OneCall ==
  ASSUME ExtensionTypeOK, NEW p \in Extensions, NEW c,
         call' = [call EXCEPT ![p] = c]
  PROVE  /\ call'[p] = c /\ \A q \in Extensions \ {p} : call'[q] = call[q]
         /\ c \in Calls => call' \in [Extensions -> Calls]
BY DEF ExtensionTypeOK

\* The end of a call: the process learns the result or is off.
LEMMA Returned ==
  ASSUME ExtensionTypeOK, NEW p \in Extensions, NEW u \in 0..MaxStarts,
         NEW state \in States, Return(p, state, u)
  PROVE  /\ call' \in [Extensions -> Calls] /\ proc' \in [Extensions -> States]
         /\ id' \in [Extensions -> 0..MaxStarts] /\ offer' \in [Extensions -> SUBSET Items]
         /\ Others(p) /\ call'[p] = Idle
         /\ IF proc[p] # "off" /\ state # "off"
              THEN proc'[p] = state /\ id'[p] = u /\ offer'[p] = offer[p]
              ELSE proc'[p] = "off" /\ id'[p] = NoUuid /\ offer'[p] = {}
<1>1. Idle \in Calls
  BY NamesAssumption, BoundsAssumption DEF Idle, Calls, Places
<1>2. "off" \in States /\ NoUuid \in 0..MaxStarts
  BY BoundsAssumption DEF States
<1>3. proc \in [Extensions -> States] /\ id \in [Extensions -> 0..MaxStarts]
      /\ offer \in [Extensions -> SUBSET Items]
  BY DEF ExtensionTypeOK
<1>4. call' \in [Extensions -> Calls] /\ call'[p] = Idle
      /\ \A q \in Extensions \ {p} : call'[q] = call[q]
  BY <1>1, OneCall DEF Return
<1>5. proc' \in [Extensions -> States] /\ id' \in [Extensions -> 0..MaxStarts]
  BY <1>2, <1>3 DEF Return
<1>6. offer' \in [Extensions -> SUBSET Items]
  BY <1>3 DEF Return
<1>7. \A q \in Extensions \ {p} : proc'[q] = proc[q] /\ id'[q] = id[q] /\ offer'[q] = offer[q]
  BY <1>3 DEF Return
<1>8. IF proc[p] # "off" /\ state # "off"
        THEN proc'[p] = state /\ id'[p] = u /\ offer'[p] = offer[p]
        ELSE proc'[p] = "off" /\ id'[p] = NoUuid /\ offer'[p] = {}
  BY <1>3 DEF Return
<1> QED
  BY <1>4, <1>5, <1>6, <1>7, <1>8 DEF Others

Moved(p, place, u, T, x, fine) ==
  /\ UNCHANGED <<proc, id, offer>> /\ Others(p) /\ call' \in [Extensions -> Calls]
  /\ call'[p].op = call[p].op /\ call'[p].pc = place /\ call'[p].uuid = u
  /\ call'[p].todo = T /\ call'[p].item = x /\ call'[p].ok = fine

\* Every field of a call may be set to a value of its type.
LEMMA SetField ==
  ASSUME NEW f \in [Extensions -> Calls], NEW p \in Extensions
  PROVE  /\ \A place \in Places : [f EXCEPT ![p].pc = place] \in [Extensions -> Calls]
         /\ \A u \in 0..MaxStarts : [f EXCEPT ![p].uuid = u] \in [Extensions -> Calls]
         /\ \A T \in SUBSET Items : [f EXCEPT ![p].todo = T] \in [Extensions -> Calls]
         /\ \A x \in Items \cup {None} : [f EXCEPT ![p].item = x] \in [Extensions -> Calls]
         /\ \A S \in SUBSET Uuids : [f EXCEPT ![p].seen = S] \in [Extensions -> Calls]
         /\ \A fine \in BOOLEAN : [f EXCEPT ![p].ok = fine] \in [Extensions -> Calls]
<1>1. \A place \in Places : [f EXCEPT ![p].pc = place] \in [Extensions -> Calls]
  BY DEF Calls
<1>2. \A u \in 0..MaxStarts : [f EXCEPT ![p].uuid = u] \in [Extensions -> Calls]
  BY DEF Calls
<1>3. \A T \in SUBSET Items : [f EXCEPT ![p].todo = T] \in [Extensions -> Calls]
  BY DEF Calls
<1>4. \A x \in Items \cup {None} : [f EXCEPT ![p].item = x] \in [Extensions -> Calls]
  BY DEF Calls
<1>5. \A S \in SUBSET Uuids : [f EXCEPT ![p].seen = S] \in [Extensions -> Calls]
  BY DEF Calls
<1>6. \A fine \in BOOLEAN : [f EXCEPT ![p].ok = fine] \in [Extensions -> Calls]
  BY DEF Calls
<1> QED
  BY <1>1, <1>2, <1>3, <1>4, <1>5, <1>6

\* prune goes on to the check of the name, or to the reply.
LEMMA PruneMoves ==
  ASSUME ExtensionTypeOK, NEW p \in Extensions, prune(p)
  PROVE  Moved(p, IF call[p].op = "register" THEN "exists" ELSE "reply",
               call[p].uuid, call[p].todo, call[p].item, call[p].ok)
<1>0. call \in [Extensions -> Calls] /\ UNCHANGED <<proc, id, offer>>
  BY DEF ExtensionTypeOK, prune
<1>1. PICK place \in Places, S \in SUBSET Uuids :
        place = (IF call[p].op = "register" THEN "exists" ELSE "reply") /\ S = {}
  BY DEF Places
<1>2. call' = [call EXCEPT ![p].seen = S,
                           ![p].pc = place]
  BY <1>1 DEF prune
<1>3a. PICK f \in [Extensions -> Calls] : f = [call EXCEPT ![p].seen = S]
  BY <1>0, <1>1, SetField
<1>4. call' = [f EXCEPT ![p].pc = place]
  BY <1>2, <1>3a
<1>5. call' \in [Extensions -> Calls]
  BY <1>0, <1>1, <1>4, SetField
<1>6. /\ \A q \in Extensions \ {p} : call'[q] = call[q]
      /\ call'[p].op = call[p].op /\ call'[p].pc = place /\ call'[p].uuid = call[p].uuid
      /\ call'[p].todo = call[p].todo /\ call'[p].item = call[p].item /\ call'[p].ok = call[p].ok
  BY <1>0, <1>2 DEF Calls
<1> QED
  BY <1>0, <1>1, <1>5, <1>6 DEF Moved, Others

\* A step to another place of the same call.
LEMMA GoesTo ==
  ASSUME ExtensionTypeOK, NEW p \in Extensions, NEW place \in Places, GoTo(p, place),
         UNCHANGED <<proc, id, offer>>
  PROVE  Moved(p, place, call[p].uuid, call[p].todo, call[p].item, call[p].ok)
<1>0. call \in [Extensions -> Calls]
  BY DEF ExtensionTypeOK
<1>1. call' \in [Extensions -> Calls]
  BY <1>0, SetField
<1>2. /\ \A q \in Extensions \ {p} : call'[q] = call[q]
      /\ call'[p].op = call[p].op /\ call'[p].pc = place /\ call'[p].uuid = call[p].uuid
      /\ call'[p].todo = call[p].todo /\ call'[p].item = call[p].item
      /\ call'[p].ok = call[p].ok
  BY <1>0 DEF Calls
<1> QED
  BY <1>1, <1>2 DEF Moved, Others

\* getUuid gives the call its uuid and the items to check.
LEMMA UuidMoves ==
  ASSUME ExtensionTypeOK, NEW p \in Extensions, getUuid(p), given + 1 \in 0..MaxStarts
  PROVE  Moved(p, "conflicts", given + 1, offer[p], call[p].item, call[p].ok)
<1>0. call \in [Extensions -> Calls] /\ UNCHANGED <<proc, id, offer>>
  BY DEF ExtensionTypeOK, getUuid
<1>1. PICK place \in Places, u \in 0..MaxStarts, T \in SUBSET Items :
        place = "conflicts" /\ u = given + 1 /\ T = offer[p]
  BY CallFields DEF Places
<1>2. call' = [call EXCEPT ![p].pc = place,
                           ![p].uuid = u,
                           ![p].todo = T]
  BY <1>1 DEF getUuid
<1>3a. PICK f \in [Extensions -> Calls] : f = [call EXCEPT ![p].pc = place]
  BY <1>0, <1>1, SetField
<1>3b. PICK g \in [Extensions -> Calls] : g = [f EXCEPT ![p].uuid = u]
  BY <1>0, <1>1, SetField
<1>4. call' = [g EXCEPT ![p].todo = T]
  BY <1>2, <1>3a, <1>3b
<1>5. call' \in [Extensions -> Calls]
  BY <1>0, <1>1, <1>4, SetField
<1>6. /\ \A q \in Extensions \ {p} : call'[q] = call[q]
      /\ call'[p].op = call[p].op /\ call'[p].pc = place /\ call'[p].uuid = u
      /\ call'[p].todo = T /\ call'[p].item = call[p].item /\ call'[p].ok = call[p].ok
  BY <1>0, <1>2 DEF Calls
<1> QED
  BY <1>0, <1>1, <1>5, <1>6 DEF Moved, Others

\* conflicts refuses the registration or takes one item off the list.
LEMMA ConflictsMoves ==
  ASSUME ExtensionTypeOK, NEW p \in Extensions, conflicts(p)
  PROVE  \/ Return(p, "off", NoUuid)
         \/ \E x \in call[p].todo :
              /\ x \in Unknown \/ ~existsUnsafe(x)
              /\ Moved(p, IF call[p].todo = {x} THEN "route" ELSE "conflicts", call[p].uuid,
                       IF call[p].todo = {x} THEN offer[p] ELSE call[p].todo \ {x},
                       call[p].item, call[p].ok)
<1>1. CASE Return(p, "off", NoUuid)
  BY <1>1
<1>2. CASE ~Return(p, "off", NoUuid)
  <2>0. call \in [Extensions -> Calls]
    BY DEF ExtensionTypeOK
  <2>7. PICK x \in call[p].todo :
          /\ x \in Unknown \/ ~existsUnsafe(x)
          /\ call' = [call EXCEPT
                        ![p].pc = IF call[p].todo = {x} THEN "route" ELSE "conflicts",
                        ![p].todo = IF call[p].todo = {x} THEN offer[p] ELSE @ \ {x}]
          /\ UNCHANGED <<proc, id, offer>>
    BY <1>2 DEF conflicts
  <2>1. PICK place \in Places, T \in SUBSET Items :
          /\ place = IF call[p].todo = {x} THEN "route" ELSE "conflicts"
          /\ T = IF call[p].todo = {x} THEN offer[p] ELSE call[p].todo \ {x}
    BY CallFields DEF Places
  <2>2. call' = [call EXCEPT ![p].pc = place, ![p].todo = T]
    BY <2>0, <2>1, <2>7
  <2>3a. PICK f \in [Extensions -> Calls] : f = [call EXCEPT ![p].pc = place]
    BY <2>0, <2>1, SetField
  <2>4. call' = [f EXCEPT ![p].todo = T]
    BY <2>2, <2>3a
  <2>5. call' \in [Extensions -> Calls]
    BY <2>0, <2>1, <2>4, SetField
  <2>6. /\ \A q \in Extensions \ {p} : call'[q] = call[q]
        /\ call'[p].op = call[p].op /\ call'[p].pc = place /\ call'[p].uuid = call[p].uuid
        /\ call'[p].todo = T /\ call'[p].item = call[p].item /\ call'[p].ok = call[p].ok
    BY <2>0, <2>2 DEF Calls
  <2> QED
    BY <2>1, <2>5, <2>6, <2>7 DEF Moved, Others
<1> QED
  BY <1>1, <1>2

\* route ends a broadcast at an unknown registry, or adds route info.
LEMMA RouteMoves ==
  ASSUME ExtensionTypeOK, NEW p \in Extensions, route(p)
  PROVE  \/ /\ Return(p, "off", NoUuid) /\ partial' = partial \cup {call[p].uuid}
            /\ UNCHANGED <<routes, raced>>
         \/ \E x \in call[p].todo \ Unknown :
              /\ Moved(p, "attach", call[p].uuid, call[p].todo, x, call[p].ok)
              /\ routes' = routes \cup {x} /\ partial' = partial
              /\ raced' = IF Busy(x) # {p} \/ x \in watch.items
                            THEN raced \cup {x} ELSE raced
<1>1. PICK x \in call[p].todo :
        IF x \in Unknown
         THEN /\ Return(p, "off", NoUuid)
              /\ partial' = partial \cup {call[p].uuid}
              /\ UNCHANGED <<routes, raced>>
         ELSE /\ routes' = routes \cup {x}
              /\ call' = [call EXCEPT ![p].pc = "attach", ![p].item = x]
              /\ raced' = IF Busy(x) # {p} \/ x \in watch.items
                            THEN raced \cup {x} ELSE raced
              /\ UNCHANGED <<partial, proc, id, offer>>
  BY DEF route
<1>2. CASE x \in Unknown
  BY <1>1, <1>2
<1>3. CASE x \notin Unknown
  <2>0. call \in [Extensions -> Calls]
    BY DEF ExtensionTypeOK
  <2>1. "attach" \in Places /\ x \in Items \cup {None}
    BY CallFields DEF Places
  <2>2. call' = [call EXCEPT ![p].pc = "attach", ![p].item = x]
    BY <1>1, <1>3
  <2>3a. PICK f \in [Extensions -> Calls] : f = [call EXCEPT ![p].pc = "attach"]
    BY <2>0, <2>1, SetField
  <2>4. call' = [f EXCEPT ![p].item = x]
    BY <2>2, <2>3a
  <2>5. call' \in [Extensions -> Calls]
    BY <2>0, <2>1, <2>4, SetField
  <2>6. /\ \A q \in Extensions \ {p} : call'[q] = call[q]
        /\ call'[p].op = call[p].op /\ call'[p].pc = "attach" /\ call'[p].uuid = call[p].uuid
        /\ call'[p].todo = call[p].todo /\ call'[p].item = x /\ call'[p].ok = call[p].ok
    BY <2>0, <2>2 DEF Calls
  <2>7. Moved(p, "attach", call[p].uuid, call[p].todo, x, call[p].ok)
    BY <1>1, <1>3, <2>5, <2>6 DEF Moved, Others
  <2> QED
    BY <1>1, <1>3, <2>7
<1> QED
  BY <1>2, <1>3

\* The item is attached, or it is not and the broadcast is taken back.
Attached(p, x) ==
  /\ external' = [external EXCEPT ![x] = call[p].uuid]
  /\ Moved(p, IF call[p].todo = {x} THEN "insert" ELSE "route", call[p].uuid,
           call[p].todo \ {x}, None, call[p].ok)

NotAttached(p) ==
  /\ external' = external
  /\ Moved(p, "collect", call[p].uuid, call[p].todo, None, FALSE)

\* attach does one or the other.
LEMMA AttachMoves ==
  ASSUME ExtensionTypeOK, NEW p \in Extensions, NEW fine \in BOOLEAN, attach(p, fine)
  PROVE  Attached(p, call[p].item) \/ NotAttached(p)
<1>0. call \in [Extensions -> Calls] /\ UNCHANGED <<proc, id, offer>>
  BY DEF ExtensionTypeOK, attach
<1>1. CASE fine
  <2>0. call \in [Extensions -> Calls]
    BY <1>0
  <2>1. PICK place \in Places, T \in SUBSET Items, x \in Items \cup {None} :
          /\ place = IF call[p].todo = {call[p].item} THEN "insert" ELSE "route"
          /\ T = call[p].todo \ {call[p].item} /\ x = None
    BY CallFields DEF Places
  <2>2. call' = [call EXCEPT ![p].pc = place,
                             ![p].todo = T,
                             ![p].item = x]
    BY <1>1, <2>0, <2>1 DEF attach
  <2>3a. PICK f \in [Extensions -> Calls] : f = [call EXCEPT ![p].pc = place]
    BY <2>0, <2>1, SetField
  <2>3b. PICK g \in [Extensions -> Calls] : g = [f EXCEPT ![p].todo = T]
    BY <2>0, <2>1, SetField
  <2>4. call' = [g EXCEPT ![p].item = x]
    BY <2>2, <2>3a, <2>3b
  <2>5. call' \in [Extensions -> Calls]
    BY <2>0, <2>1, <2>4, SetField
  <2>6. /\ \A q \in Extensions \ {p} : call'[q] = call[q]
        /\ call'[p].op = call[p].op /\ call'[p].pc = place /\ call'[p].uuid = call[p].uuid
        /\ call'[p].todo = T /\ call'[p].item = x /\ call'[p].ok = call[p].ok
    BY <2>0, <2>2 DEF Calls
  <2>7. external' = [external EXCEPT ![call[p].item] = call[p].uuid]
    BY <1>1 DEF attach
  <2> QED
    BY <1>0, <2>1, <2>5, <2>6, <2>7 DEF Moved, Others, Attached
<1>2. CASE ~fine
  <2>0. call \in [Extensions -> Calls]
    BY <1>0
  <2>1. PICK place \in Places, no \in BOOLEAN, x \in Items \cup {None} :
          place = "collect" /\ no = FALSE /\ x = None
    BY DEF Places
  <2>2. call' = [call EXCEPT ![p].pc = place,
                             ![p].ok = no,
                             ![p].item = x]
    BY <1>2, <2>1 DEF attach
  <2>3a. PICK f \in [Extensions -> Calls] : f = [call EXCEPT ![p].pc = place]
    BY <2>0, <2>1, SetField
  <2>3b. PICK g \in [Extensions -> Calls] : g = [f EXCEPT ![p].ok = no]
    BY <2>0, <2>1, SetField
  <2>4. call' = [g EXCEPT ![p].item = x]
    BY <2>2, <2>3a, <2>3b
  <2>5. call' \in [Extensions -> Calls]
    BY <2>0, <2>1, <2>4, SetField
  <2>6. /\ \A q \in Extensions \ {p} : call'[q] = call[q]
        /\ call'[p].op = call[p].op /\ call'[p].pc = place /\ call'[p].uuid = call[p].uuid
        /\ call'[p].todo = call[p].todo /\ call'[p].item = x /\ call'[p].ok = no
    BY <2>0, <2>2 DEF Calls
  <2>7. external' = external
    BY <1>2 DEF attach
  <2> QED
    BY <1>0, <2>1, <2>5, <2>6, <2>7 DEF Moved, Others, NotAttached
<1> QED
  BY <1>1, <1>2

\* collect notes the items of the uuid.
LEMMA CollectMoves ==
  ASSUME ExtensionTypeOK, NEW p \in Extensions, collect(p)
  PROVE  Moved(p, "erase", call[p].uuid, itemsOf(call[p].uuid), call[p].item, call[p].ok)
<1>0. call \in [Extensions -> Calls] /\ UNCHANGED <<proc, id, offer>>
  BY DEF ExtensionTypeOK, collect
<1>1. PICK place \in Places, T \in SUBSET Items : place = "erase" /\ T = itemsOf(call[p].uuid)
  BY DEF Places, itemsOf
<1>2. call' = [call EXCEPT ![p].pc = place,
                           ![p].todo = T]
  BY <1>1 DEF collect
<1>3a. PICK f \in [Extensions -> Calls] : f = [call EXCEPT ![p].pc = place]
  BY <1>0, <1>1, SetField
<1>4. call' = [f EXCEPT ![p].todo = T]
  BY <1>2, <1>3a
<1>5. call' \in [Extensions -> Calls]
  BY <1>0, <1>1, <1>4, SetField
<1>6. /\ \A q \in Extensions \ {p} : call'[q] = call[q]
      /\ call'[p].op = call[p].op /\ call'[p].pc = place /\ call'[p].uuid = call[p].uuid
      /\ call'[p].todo = T /\ call'[p].item = call[p].item /\ call'[p].ok = call[p].ok
  BY <1>0, <1>2 DEF Calls
<1> QED
  BY <1>0, <1>1, <1>5, <1>6 DEF Moved, Others

\* eraseItems leaves nothing to erase.
LEMMA EraseMoves ==
  ASSUME ExtensionTypeOK, NEW p \in Extensions, eraseItems(p)
  PROVE  Moved(p, IF call[p].op = "register" THEN "insert" ELSE "unregister",
               call[p].uuid, {}, call[p].item, call[p].ok)
<1>0. call \in [Extensions -> Calls] /\ UNCHANGED <<proc, id, offer>>
  BY DEF ExtensionTypeOK, eraseItems
<1>a. {} \in SUBSET Items /\ "insert" \in Places /\ "unregister" \in Places
  BY DEF Places
<1>1. PICK place \in Places, T \in SUBSET Items :
        T = {} /\ place = IF call[p].op = "register" THEN "insert" ELSE "unregister"
  BY <1>a
<1>2. call' = [call EXCEPT ![p].todo = T,
                           ![p].pc = place]
  BY <1>1 DEF eraseItems
<1>3a. PICK f \in [Extensions -> Calls] : f = [call EXCEPT ![p].todo = T]
  BY <1>0, <1>1, SetField
<1>4. call' = [f EXCEPT ![p].pc = place]
  BY <1>2, <1>3a
<1>5. call' \in [Extensions -> Calls]
  BY <1>0, <1>1, <1>4, SetField
<1>6. /\ \A q \in Extensions \ {p} : call'[q] = call[q]
      /\ call'[p].op = call[p].op /\ call'[p].pc = place /\ call'[p].uuid = call[p].uuid
      /\ call'[p].todo = T /\ call'[p].item = call[p].item /\ call'[p].ok = call[p].ok
  BY <1>0, <1>2 DEF Calls
<1> QED
  BY <1>0, <1>1, <1>5, <1>6 DEF Moved, Others

\* A call that begins: of a process that starts, that polls or that leaves.
Begun(p, op, place, u) ==
  /\ call' \in [Extensions -> Calls]
  /\ \A q \in Extensions \ {p} : call'[q] = call[q]
  /\ call'[p].op = op /\ call'[p].pc = place /\ call'[p].uuid = u
  /\ call'[p].todo = {} /\ call'[p].item = None /\ call'[p].ok = TRUE

\* refresh and deregisterExtension begin a call with the uuid of the process.
LEMMA Begins ==
  ASSUME ExtensionTypeOK, NEW p \in Extensions,
         NEW op \in {"register", "extensions", "deregister"}, NEW place \in Places,
         NEW S \in SUBSET Uuids,
         \/ call' = [call EXCEPT ![p] = [Idle EXCEPT !.op = op, !.pc = place, !.uuid = id[p],
                                                     !.seen = S]]
         \/ call' = [call EXCEPT ![p] = [Idle EXCEPT !.op = op, !.uuid = id[p], !.pc = place]]
  PROVE  Begun(p, op, place, id[p])
<1>1. PICK c : /\ call' = [call EXCEPT ![p] = c]
               /\ \/ c = [Idle EXCEPT !.op = op, !.pc = place, !.uuid = id[p], !.seen = S]
                  \/ c = [Idle EXCEPT !.op = op, !.uuid = id[p], !.pc = place]
  OBVIOUS
<1>2. id[p] \in 0..MaxStarts
  BY CallFields
<1>3. c.op = op /\ c.pc = place /\ c.uuid = id[p] /\ c.todo = {} /\ c.item = None /\ c.ok = TRUE
  BY <1>1 DEF Idle
<1>4. c \in Calls
  BY <1>1, <1>2 DEF Calls, Idle
<1>5. call'[p] = c /\ call' \in [Extensions -> Calls]
      /\ \A q \in Extensions \ {p} : call'[q] = call[q]
  BY <1>1, <1>4, OneCall
<1> QED
  BY <1>3, <1>5 DEF Begun

\* A process that starts calls registerExtension.
LEMMA StartMoves ==
  ASSUME ExtensionTypeOK, NEW p \in Extensions, NEW items \in Broadcasts, Start(p, items)
  PROVE  /\ Begun(p, "register", "prune", id[p])
         /\ proc' \in [Extensions -> States] /\ offer' \in [Extensions -> SUBSET Items]
         /\ proc'[p] = "joining" /\ offer'[p] = items /\ id' = id
         /\ \A q \in Extensions \ {p} : proc'[q] = proc[q] /\ offer'[q] = offer[q]
<1>1. Begun(p, "register", "prune", id[p])
  <2>1. call' = [call EXCEPT ![p] = [Idle EXCEPT !.op = "register", !.pc = "prune",
                                                 !.uuid = id[p], !.seen = exts]]
    BY DEF Start, refresh
  <2>2. "prune" \in Places /\ exts \in SUBSET Uuids
    BY DEF ExtensionTypeOK, Places
  <2> QED
    BY <2>1, <2>2, Begins
<1>2. proc' \in [Extensions -> States] /\ proc'[p] = "joining" /\ id' = id
      /\ \A q \in Extensions \ {p} : proc'[q] = proc[q]
  BY DEF Start, ExtensionTypeOK, States
<1>3. offer' \in [Extensions -> SUBSET Items] /\ offer'[p] = items
      /\ \A q \in Extensions \ {p} : offer'[q] = offer[q]
  BY NamesAssumption DEF Start, ExtensionTypeOK
<1> QED
  BY <1>1, <1>2, <1>3

\* A process that polls calls extensions.
LEMMA PollMoves ==
  ASSUME ExtensionTypeOK, NEW p \in Extensions, Poll(p)
  PROVE  Begun(p, "extensions", "prune", id[p]) /\ UNCHANGED <<proc, id, offer>>
<1>1. call' = [call EXCEPT ![p] = [Idle EXCEPT !.op = "extensions", !.pc = "prune",
                                               !.uuid = id[p], !.seen = exts]]
  BY DEF Poll, refresh
<1>2. "prune" \in Places /\ exts \in SUBSET Uuids
  BY DEF ExtensionTypeOK, Places
<1> QED
  BY <1>1, <1>2, Begins DEF Poll

\* A process that leaves is off at once, or calls deregisterExtension.
LEMMA DeregisterMoves ==
  ASSUME ExtensionTypeOK, NEW p \in Extensions, Deregister(p)
  PROVE  \/ Return(p, "off", NoUuid)
         \/ /\ Begun(p, "deregister", IF id[p] \in exts THEN "collect" ELSE "forget", id[p])
            /\ proc' \in [Extensions -> States] /\ proc'[p] = "leaving"
            /\ \A q \in Extensions \ {p} : proc'[q] = proc[q]
            /\ UNCHANGED <<id, offer>>
<1> DEFINE place == IF id[p] \in exts THEN "collect" ELSE "forget"
<1> SUFFICES ASSUME ~Return(p, "off", NoUuid)
             PROVE  /\ Begun(p, "deregister", place, id[p])
                    /\ proc' \in [Extensions -> States] /\ proc'[p] = "leaving"
                    /\ \A q \in Extensions \ {p} : proc'[q] = proc[q]
                    /\ UNCHANGED <<id, offer>>
  OBVIOUS
<1>1. call' = [call EXCEPT ![p] = [Idle EXCEPT !.op = "deregister", !.uuid = id[p], !.pc = place]]
      /\ proc' = [proc EXCEPT ![p] = "leaving"] /\ UNCHANGED <<id, offer>>
  BY DEF Deregister
<1>2. place \in Places /\ {} \in SUBSET Uuids
  BY DEF Places
<1> HIDE DEF place
<1>4. Begun(p, "deregister", place, id[p])
  BY <1>1, <1>2, Begins
<1>5. proc' \in [Extensions -> States] /\ proc'[p] = "leaving"
      /\ \A q \in Extensions \ {p} : proc'[q] = proc[q]
  BY <1>1 DEF ExtensionTypeOK, States
<1> QED
  BY <1>1, <1>4, <1>5

\* A process that dies leaves its call behind.
LEMMA DieMoves ==
  ASSUME ExtensionTypeOK, NEW p \in Extensions, Die(p)
  PROVE  /\ proc' \in [Extensions -> States] /\ id' \in [Extensions -> 0..MaxStarts]
         /\ offer' \in [Extensions -> SUBSET Items] /\ Others(p) /\ call' = call
         /\ proc'[p] = "off" /\ id'[p] = NoUuid
         /\ offer'[p] = IF call[p].op = "register" THEN offer[p] ELSE {}
<1>1. proc' \in [Extensions -> States] /\ proc'[p] = "off" /\ call' = call
      /\ \A q \in Extensions \ {p} : proc'[q] = proc[q]
  BY DEF Die, ExtensionTypeOK, States
<1>2. id' \in [Extensions -> 0..MaxStarts] /\ id'[p] = NoUuid
      /\ \A q \in Extensions \ {p} : id'[q] = id[q]
  BY BoundsAssumption DEF Die, ExtensionTypeOK
<1>3. offer' \in [Extensions -> SUBSET Items]
      /\ offer'[p] = (IF call[p].op = "register" THEN offer[p] ELSE {})
      /\ \A q \in Extensions \ {p} : offer'[q] = offer[q]
  BY DEF Die, ExtensionTypeOK
<1> QED
  BY <1>1, <1>2, <1>3 DEF Others

-----------------------------------------------------------------------------
(* The types *)

\* A registration that asks for a uuid was started, so there is one left.
LEMMA OneMoreUuid ==
  ASSUME ExtensionInv, NEW p \in Extensions, getUuid(p)
  PROVE  given + 1 \in 0..starts /\ given + 1 \in 0..MaxStarts /\ given \in Nat
<1>0. given \in Nat /\ starts \in Nat /\ starts <= MaxStarts /\ MaxStarts \in Nat
  BY BoundsAssumption DEF ExtensionInv, ExtensionTypeOK
<1>1. p \in Unnamed
  BY CallFields DEF getUuid, ExtensionInv, CallInv, CallOK, Open, Unnamed
<1>2. Cardinality(Unnamed) \in Nat /\ Cardinality(Unnamed) # 0
  BY <1>1, FS_CardinalityType, FS_EmptySet DEF ExtensionInv, GivenInv
<1> QED
  BY <1>0, <1>2 DEF ExtensionInv, GivenInv

\* The uuid of a call that has one.
LEMMA UuidOfCall ==
  ASSUME ExtensionInv, NEW p \in Extensions,
         call[p].pc \notin {"idle", "prune", "exists", "uuid"}
  PROVE  call[p].uuid \in Uuids /\ call[p].uuid \in 1..given
<1>0. given \in Nat /\ given <= MaxStarts /\ MaxStarts \in Nat
  BY BoundsAssumption DEF ExtensionInv, ExtensionTypeOK
<1>1. call[p].uuid # NoUuid
  BY DEF ExtensionInv, CallInv, CallOK, Unnamed
<1>2. call[p].uuid \in 1..given
  BY <1>1 DEF ExtensionInv, UuidInv, Mine
<1> QED
  BY <1>0, <1>2 DEF Uuids

\* Every field of the watcher's thread may be set to a value of its type.
LEMMA SetWatch ==
  ASSUME NEW w \in Watches
  PROVE  /\ \A T \in SUBSET Uuids : [w EXCEPT !.todo = T] \in Watches
         /\ \A u \in 0..MaxStarts : [w EXCEPT !.uuid = u] \in Watches
         /\ \A X \in SUBSET Items : [w EXCEPT !.items = X] \in Watches
         /\ \A place \in {"check", "collect", "erase", "unregister"} :
              [w EXCEPT !.pc = place] \in Watches
<1>1. \A T \in SUBSET Uuids : [w EXCEPT !.todo = T] \in Watches
  BY DEF Watches
<1>2. \A u \in 0..MaxStarts : [w EXCEPT !.uuid = u] \in Watches
  BY DEF Watches
<1>3. \A X \in SUBSET Items : [w EXCEPT !.items = X] \in Watches
  BY DEF Watches
<1>4. \A place \in {"check", "collect", "erase", "unregister"} : [w EXCEPT !.pc = place] \in Watches
  BY DEF Watches
<1> QED
  BY <1>1, <1>2, <1>3, <1>4

\* Every step of a call, of a process and of the watcher keeps the types.
LEMMA StepExtensionType ==
  ASSUME ExtensionInv, [ExtensionNext]_extensionVars
  PROVE  ExtensionTypeOK'
<1>0. ExtensionTypeOK
  BY DEF ExtensionInv
<1> USE NamesAssumption, BoundsAssumption
<1>1. ASSUME NEW p \in Extensions, prune(p) PROVE ExtensionTypeOK'
  <2>1. listed' \in [Uuids -> Extensions \cup {None}]
    BY <1>0, <1>1 DEF prune, ExtensionTypeOK
  <2> QED
    BY <1>0, <1>1, <2>1, PruneMoves DEF prune, Moved, ExtensionTypeOK
<1>2. ASSUME NEW p \in Extensions, exists(p) PROVE ExtensionTypeOK'
  <2>1. CASE Return(p, "off", NoUuid)
    <3>1. "off" \in States /\ NoUuid \in 0..MaxStarts
      BY DEF States
    <3> QED
      BY <1>0, <1>2, <2>1, <3>1, Returned DEF exists, ExtensionTypeOK
  <2>2. CASE GoTo(p, "uuid") /\ UNCHANGED <<proc, id, offer>>
    <3>1. "uuid" \in Places
      BY DEF Places
    <3>2. call' \in [Extensions -> Calls]
      BY <1>0, <2>2, <3>1, GoesTo DEF Moved
    <3> QED
      BY <1>0, <1>2, <2>2, <3>2 DEF exists, ExtensionTypeOK
  <2> QED
    BY <1>2, <2>1, <2>2 DEF exists
<1>3. ASSUME NEW p \in Extensions, getUuid(p) PROVE ExtensionTypeOK'
  <2>1. given + 1 \in 0..starts /\ given + 1 \in 0..MaxStarts
    BY <1>3, OneMoreUuid
  <2>2. call' \in [Extensions -> Calls]
    BY <1>0, <1>3, <2>1, UuidMoves DEF Moved
  <2> QED
    BY <1>0, <1>3, <2>1, <2>2 DEF getUuid, ExtensionTypeOK
<1>4. ASSUME NEW p \in Extensions, conflicts(p) PROVE ExtensionTypeOK'
  <2>1. CASE Return(p, "off", NoUuid)
    <3>1. "off" \in States /\ NoUuid \in 0..MaxStarts
      BY DEF States
    <3> QED
      BY <1>0, <1>4, <2>1, <3>1, Returned DEF conflicts, ExtensionTypeOK
  <2>2. CASE ~Return(p, "off", NoUuid)
    <3>1. call' \in [Extensions -> Calls] /\ UNCHANGED <<proc, id, offer>>
      BY <1>0, <1>4, <2>2, ConflictsMoves DEF Moved
    <3> QED
      BY <1>0, <1>4, <3>1 DEF conflicts, ExtensionTypeOK
  <2> QED
    BY <2>1, <2>2
<1>5. ASSUME NEW p \in Extensions, route(p) PROVE ExtensionTypeOK'
  <2>1. CASE Return(p, "off", NoUuid) /\ partial' = partial \cup {call[p].uuid}
             /\ UNCHANGED <<routes, raced>>
    <3>1. "off" \in States /\ NoUuid \in 0..MaxStarts
      BY DEF States
    <3>2. call[p].uuid \in Uuids
      BY <1>5, UuidOfCall DEF route
    <3> QED
      BY <1>0, <1>5, <2>1, <3>1, <3>2, Returned DEF route, ExtensionTypeOK
  <2>2. ASSUME NEW x \in call[p].todo \ Unknown,
               Moved(p, "attach", call[p].uuid, call[p].todo, x, call[p].ok),
               routes' = routes \cup {x}, partial' = partial,
               raced' = raced \cup {x} \/ raced' = raced
        PROVE  ExtensionTypeOK'
    <3>1. x \in Items
      BY <1>0, CallFields
    <3>2. routes' \subseteq Items /\ raced' \subseteq Items
      BY <1>0, <2>2, <3>1 DEF ExtensionTypeOK
    <3> QED
      BY <1>0, <1>5, <2>2, <3>2 DEF route, Moved, ExtensionTypeOK
  <2> QED
    BY <1>0, <1>5, <2>1, <2>2, RouteMoves
<1>6. ASSUME NEW p \in Extensions, NEW fine \in BOOLEAN, attach(p, fine) PROVE ExtensionTypeOK'
  <2>0. Attached(p, call[p].item) \/ NotAttached(p)
    BY <1>0, <1>6, AttachMoves
  <2>1. external' \in [Items -> 0..MaxStarts]
    BY <1>0, <2>0, CallFields DEF ExtensionTypeOK, Attached, NotAttached
  <2>2. call' \in [Extensions -> Calls]
    BY <2>0 DEF Moved, Attached, NotAttached
  <2> QED
    BY <1>0, <1>6, <2>1, <2>2 DEF attach, ExtensionTypeOK
<1>7. ASSUME NEW p \in Extensions, insert(p) PROVE ExtensionTypeOK'
  <2>0. call[p].uuid \in Uuids
    BY <1>7, UuidOfCall DEF insert
  <2>1. exts' \subseteq Uuids
    BY <1>0, <1>7, <2>0 DEF insert, ExtensionTypeOK
  <2>2. CASE Return(p, "off", NoUuid)
    <3>1. "off" \in States /\ NoUuid \in 0..MaxStarts
      BY DEF States
    <3> QED
      BY <1>0, <1>7, <2>1, <2>2, <3>1, Returned DEF insert, ExtensionTypeOK
  <2>3. CASE GoTo(p, "list") /\ UNCHANGED <<proc, id, offer>>
    <3>1. "list" \in Places
      BY DEF Places
    <3>2. call' \in [Extensions -> Calls]
      BY <1>0, <2>3, <3>1, GoesTo DEF Moved
    <3> QED
      BY <1>0, <1>7, <2>1, <2>3, <3>2 DEF insert, ExtensionTypeOK
  <2> QED
    BY <1>7, <2>2, <2>3 DEF insert
<1>8. ASSUME NEW p \in Extensions, list(p) PROVE ExtensionTypeOK'
  <2>0. call[p].uuid \in 0..MaxStarts /\ "registered" \in States
    BY <1>0, CallFields DEF States
  <2>1. Return(p, "registered", call[p].uuid)
    BY <1>8 DEF list
  <2>2. listed' \in [Uuids -> Extensions \cup {None}]
    BY <1>0, <1>8 DEF list, ExtensionTypeOK
  <2> QED
    BY <1>0, <1>8, <2>0, <2>1, <2>2, Returned DEF list, ExtensionTypeOK
<1>9. ASSUME NEW p \in Extensions, reply(p) PROVE ExtensionTypeOK'
  <2>1. PICK state \in States, u \in 0..MaxStarts : Return(p, state, u)
    <3>1. "off" \in States /\ NoUuid \in 0..MaxStarts
      BY DEF States
    <3> QED
      BY <1>0, <1>9, <3>1, CallFields DEF reply
  <2> QED
    BY <1>0, <1>9, <2>1, Returned DEF reply, ExtensionTypeOK
<1>10. ASSUME NEW p \in Extensions, collect(p) PROVE ExtensionTypeOK'
  BY <1>0, <1>10, CollectMoves DEF collect, Moved, ExtensionTypeOK
<1>11. ASSUME NEW p \in Extensions, eraseItems(p) PROVE ExtensionTypeOK'
  <2>1. external' \in [Items -> 0..MaxStarts] /\ routes' \subseteq Items
    BY <1>0, <1>11 DEF eraseItems, erase, ExtensionTypeOK
  <2> QED
    BY <1>0, <1>11, <2>1, EraseMoves DEF eraseItems, Moved, ExtensionTypeOK
<1>12. ASSUME NEW p \in Extensions, unregister(p) PROVE ExtensionTypeOK'
  <2>1. "forget" \in Places
    BY DEF Places
  <2>2. call' \in [Extensions -> Calls]
    BY <1>0, <1>12, <2>1, GoesTo DEF Moved, unregister
  <2> QED
    BY <1>0, <1>12, <2>2 DEF unregister, ExtensionTypeOK
<1>13. ASSUME NEW p \in Extensions, forget(p) PROVE ExtensionTypeOK'
  <2>0. "off" \in States /\ NoUuid \in 0..MaxStarts
    BY DEF States
  <2>1. Return(p, "off", NoUuid)
    BY <1>13 DEF forget
  <2>2. listed' \in [Uuids -> Extensions \cup {None}]
    BY <1>0, <1>13 DEF forget, ExtensionTypeOK
  <2> QED
    BY <1>0, <1>13, <2>0, <2>1, <2>2, Returned DEF forget, ExtensionTypeOK
<1>14. ASSUME NEW p \in Extensions, NEW items \in Broadcasts, Start(p, items)
       PROVE  ExtensionTypeOK'
  <2>1. starts' \in 0..MaxStarts /\ given' \in 0..starts'
    BY <1>0, <1>14 DEF Start, ExtensionTypeOK
  <2> QED
    BY <1>0, <1>14, <2>1, StartMoves DEF Start, Begun, ExtensionTypeOK
<1>15. ASSUME NEW p \in Extensions, OpenSocket(p) PROVE ExtensionTypeOK'
  <2>1. proc' \in [Extensions -> States]
    BY <1>0, <1>15 DEF OpenSocket, States, ExtensionTypeOK
  <2> QED
    BY <1>0, <1>15, <2>1 DEF OpenSocket, ExtensionTypeOK
<1>16. ASSUME NEW p \in Extensions, Die(p) PROVE ExtensionTypeOK'
  BY <1>0, <1>16, DieMoves DEF Die, ExtensionTypeOK
<1>17. ASSUME NEW p \in Extensions, Poll(p) PROVE ExtensionTypeOK'
  BY <1>0, <1>17, PollMoves DEF Poll, Begun, ExtensionTypeOK
<1>18. ASSUME NEW p \in Extensions, Deregister(p) PROVE ExtensionTypeOK'
  <2>1. CASE Return(p, "off", NoUuid)
    <3>1. "off" \in States /\ NoUuid \in 0..MaxStarts
      BY DEF States
    <3> QED
      BY <1>0, <1>18, <2>1, <3>1, Returned DEF Deregister, ExtensionTypeOK
  <2>2. CASE ~Return(p, "off", NoUuid)
    BY <1>0, <1>18, <2>2, DeregisterMoves DEF Deregister, Begun, ExtensionTypeOK
  <2> QED
    BY <2>1, <2>2
<1>19. ASSUME NEW u \in Uuids, check(u) PROVE ExtensionTypeOK'
  <2>1. failures' \in [Uuids -> 0..2] /\ slow' \subseteq Uuids
    BY <1>0, <1>19 DEF check, ExtensionTypeOK
  <2>2. watch' \in Watches
    BY <1>0, <1>19 DEF check, ExtensionTypeOK, Watches
  <2> QED
    BY <1>0, <1>19, <2>1, <2>2 DEF check, ExtensionTypeOK
<1>20. ASSUME NEW u \in Uuids, sweep(u) PROVE ExtensionTypeOK'
  <2>0. u \in 0..MaxStarts
    BY DEF Uuids
  <2>1. failures' \in [Uuids -> 0..2]
    BY <1>0, <1>20 DEF sweep, ExtensionTypeOK
  <2>2. watch' \in Watches
    <3>1. PICK w \in Watches : w = [watch EXCEPT !.pc = "collect"]
      BY <1>0, SetWatch DEF ExtensionTypeOK
    <3>2. [w EXCEPT !.uuid = u] \in Watches
      BY <2>0, SetWatch
    <3> QED
      BY <1>0, <1>20, <3>1, <3>2 DEF sweep, ExtensionTypeOK
  <2> QED
    BY <1>0, <1>20, <2>1, <2>2 DEF sweep, ExtensionTypeOK
<1>21. CASE sweepCollect
  <2>1. itemsOf(watch.uuid) \in SUBSET Items
    BY DEF itemsOf
  <2>2. watch' \in Watches
    BY <1>0, <1>21, <2>1 DEF sweepCollect, ExtensionTypeOK, Watches
  <2> QED
    BY <1>0, <1>21, <2>2 DEF sweepCollect, ExtensionTypeOK
<1>22. CASE sweepErase
  <2>1. external' \in [Items -> 0..MaxStarts] /\ routes' \subseteq Items
    BY <1>0, <1>22 DEF sweepErase, erase, ExtensionTypeOK
  <2>2. watch' \in Watches
    BY <1>0, <1>22 DEF sweepErase, ExtensionTypeOK, Watches
  <2> QED
    BY <1>0, <1>22, <2>1, <2>2 DEF sweepErase, ExtensionTypeOK
<1>23. CASE sweepUnregister
  <2>1. failures' \in [Uuids -> 0..2]
    <3>1. failures \in [Uuids -> 0..2] /\ failures' = [failures EXCEPT ![watch.uuid] = 1]
      BY <1>0, <1>23 DEF sweepUnregister, ExtensionTypeOK
    <3>2. 1 \in 0..2
      OBVIOUS
    <3> QED
      BY <3>1, <3>2
  <2>3. exts' \subseteq Uuids
    BY <1>0, <1>23 DEF sweepUnregister, ExtensionTypeOK
  <2>2. watch' \in Watches
    <3>1. PICK w \in Watches : w = [watch EXCEPT !.pc = "check"]
      BY <1>0, SetWatch DEF ExtensionTypeOK
    <3>a. 0 \in 0..MaxStarts
      OBVIOUS
    <3>2. [w EXCEPT !.uuid = NoUuid] \in Watches
      BY <3>a, SetWatch
    <3> QED
      BY <1>23, <3>1, <3>2 DEF sweepUnregister
  <2> QED
    BY <1>0, <1>23, <2>1, <2>2, <2>3 DEF sweepUnregister, ExtensionTypeOK
<1>24. CASE round
  <2>2. watch' \in Watches
    BY <1>0, <1>24 DEF round, ExtensionTypeOK, Watches
  <2> QED
    BY <1>0, <1>24, <2>2 DEF round, ExtensionTypeOK
<1>25. CASE UNCHANGED extensionVars
  BY <1>0, <1>25 DEF ExtensionTypeOK
<1>26. ASSUME NEW p \in Extensions, Handle(p) PROVE ExtensionTypeOK'
  <2>1. CASE \E fine \in BOOLEAN : attach(p, fine)
    BY <1>6, <2>1
  <2> QED
    BY <1>1, <1>2, <1>3, <1>4, <1>5, <1>7, <1>8, <1>9, <1>10, <1>11, <1>12, <1>13, <1>26, <2>1
    DEF Handle
<1>27. CASE Watch
  BY <1>19, <1>20, <1>21, <1>22, <1>23, <1>24, <1>27 DEF Watch
<1> QED
  BY <1>14, <1>15, <1>16, <1>17, <1>18, <1>25, <1>26, <1>27 DEF ExtensionNext

-----------------------------------------------------------------------------
(* The calls *)

\* The calls of the others stay as they are.
LEMMA OthersOK ==
  ASSUME CallInv, NEW p \in Extensions, Others(p), CallOK(p)'
  PROVE  CallInv'
<1> SUFFICES ASSUME NEW q \in Extensions, q # p PROVE CallOK(q)'
  BY DEF CallInv
<1>1. call'[q] = call[q] /\ proc'[q] = proc[q] /\ id'[q] = id[q] /\ offer'[q] = offer[q]
  BY DEF Others
<1>2. CallOK(q)
  BY DEF CallInv
<1> QED
  BY <1>1, <1>2 DEF CallOK, Open, Unnamed

\* The end of a call.
LEMMA ReturnOK ==
  ASSUME ExtensionInv, NEW p \in Extensions, NEW state \in States, NEW u \in 0..MaxStarts,
         Return(p, state, u), state \notin {"off", "joining", "leaving"} => u # NoUuid,
         state \notin {"joining", "leaving"} \/ proc[p] = "off"
  PROVE  CallInv'
<1>0. ExtensionTypeOK /\ CallInv
  BY DEF ExtensionInv
<1>1. /\ Others(p) /\ call'[p] = Idle
      /\ IF proc[p] # "off" /\ state # "off"
           THEN proc'[p] = state /\ id'[p] = u /\ offer'[p] = offer[p]
           ELSE proc'[p] = "off" /\ id'[p] = NoUuid /\ offer'[p] = {}
  BY <1>0, Returned
<1>2. CallOK(p)'
  BY <1>1 DEF CallOK, Open, Unnamed, Idle, States
<1> QED
  BY <1>0, <1>1, <1>2, OthersOK

\* Every step keeps calls and processes in step.
LEMMA StepCall ==
  ASSUME ExtensionInv, [ExtensionNext]_extensionVars
  PROVE  CallInv'
<1>0. ExtensionTypeOK /\ CallInv
  BY DEF ExtensionInv
<1>a. "off" \in States /\ "registered" \in States /\ NoUuid \in 0..MaxStarts
  BY BoundsAssumption DEF States
<1>b. ASSUME NEW p \in Extensions, Return(p, "off", NoUuid) PROVE CallInv'
  BY <1>a, <1>b, ReturnOK
<1>1. ASSUME NEW p \in Extensions, prune(p) PROVE CallInv'
  <2>1. Moved(p, IF call[p].op = "register" THEN "exists" ELSE "reply",
               call[p].uuid, call[p].todo, call[p].item, call[p].ok)
    BY <1>0, <1>1, PruneMoves
  <2>2. CallOK(p) /\ call[p].pc = "prune"
    BY <1>0, <1>1 DEF CallInv, prune
  <2>3. CallOK(p)'
    BY <2>1, <2>2 DEF Moved, CallOK, Open, Unnamed
  <2> QED
    BY <1>0, <2>1, <2>3, OthersOK DEF Moved
<1>2. ASSUME NEW p \in Extensions, exists(p) PROVE CallInv'
  <2>1. CASE GoTo(p, "uuid") /\ UNCHANGED <<proc, id, offer>>
    <3>1. "uuid" \in Places
      BY DEF Places
    <3>2. Moved(p, "uuid", call[p].uuid, call[p].todo, call[p].item, call[p].ok)
      BY <1>0, <2>1, <3>1, GoesTo
    <3>3. CallOK(p) /\ call[p].pc = "exists"
      BY <1>0, <1>2 DEF CallInv, exists
    <3>4. CallOK(p)'
      BY <1>0, <3>2, <3>3, CallFields DEF Moved, CallOK, Open, Unnamed
    <3> QED
      BY <1>0, <3>2, <3>4, OthersOK DEF Moved
  <2> QED
    BY <1>2, <1>b, <2>1 DEF exists
<1>3. ASSUME NEW p \in Extensions, getUuid(p) PROVE CallInv'
  <2>0. given + 1 \in 0..MaxStarts /\ given \in Nat
    BY <1>3, OneMoreUuid
  <2>1. Moved(p, "conflicts", given + 1, offer[p], call[p].item, call[p].ok)
    BY <1>0, <1>3, <2>0, UuidMoves
  <2>2. CallOK(p) /\ call[p].pc = "uuid" /\ call[p].op = "register"
    BY <1>0, <1>3, CallFields DEF CallInv, CallOK, getUuid, Open
  <2>3. given + 1 # 0 /\ call[p].ok
    BY <2>0, <2>2 DEF CallOK, Unnamed
  <2>4. CallOK(p)'
    BY <2>1, <2>2, <2>3 DEF Moved, CallOK, Open, Unnamed
  <2> QED
    BY <1>0, <2>1, <2>4, OthersOK DEF Moved
<1>4. ASSUME NEW p \in Extensions, conflicts(p) PROVE CallInv'
  <2>1. ASSUME NEW x \in call[p].todo,
               Moved(p, IF call[p].todo = {x} THEN "route" ELSE "conflicts", call[p].uuid,
                     IF call[p].todo = {x} THEN offer[p] ELSE call[p].todo \ {x},
                     call[p].item, call[p].ok)
        PROVE  CallInv'
    <3>1. CallOK(p) /\ call[p].pc = "conflicts" /\ call[p].op = "register"
      BY <1>0, <1>4, CallFields DEF CallInv, CallOK, conflicts, Open
    <3>2. CallOK(p)'
      BY <2>1, <3>1 DEF Moved, CallOK, Open, Unnamed
    <3> QED
      BY <1>0, <2>1, <3>2, OthersOK DEF Moved
  <2> QED
    BY <1>0, <1>4, <1>b, <2>1, ConflictsMoves
<1>5. ASSUME NEW p \in Extensions, route(p) PROVE CallInv'
  <2>1. ASSUME NEW x \in call[p].todo \ Unknown,
               Moved(p, "attach", call[p].uuid, call[p].todo, x, call[p].ok)
        PROVE  CallInv'
    <3>1. CallOK(p) /\ call[p].pc = "route" /\ call[p].op = "register"
      BY <1>0, <1>5, CallFields DEF CallInv, CallOK, route, Open
    <3>2. CallOK(p)'
      BY <2>1, <3>1 DEF Moved, CallOK, Open, Unnamed
    <3> QED
      BY <1>0, <2>1, <3>2, OthersOK DEF Moved
  <2> QED
    BY <1>0, <1>5, <1>b, <2>1, RouteMoves
<1>6. ASSUME NEW p \in Extensions, NEW fine \in BOOLEAN, attach(p, fine) PROVE CallInv'
  <2>0. Attached(p, call[p].item) \/ NotAttached(p)
    BY <1>0, <1>6, AttachMoves
  <2>1. CallOK(p) /\ call[p].pc = "attach" /\ call[p].op = "register"
    BY <1>0, <1>6, CallFields DEF CallInv, CallOK, attach, Open
  <2>2. CallOK(p)' /\ Others(p)
    BY <2>0, <2>1 DEF Attached, NotAttached, Moved, CallOK, Open, Unnamed
  <2> QED
    BY <1>0, <2>2, OthersOK
<1>7. ASSUME NEW p \in Extensions, insert(p) PROVE CallInv'
  <2>1. CASE GoTo(p, "list") /\ UNCHANGED <<proc, id, offer>>
    <3>1. "list" \in Places
      BY DEF Places
    <3>2. Moved(p, "list", call[p].uuid, call[p].todo, call[p].item, call[p].ok)
      BY <1>0, <2>1, <3>1, GoesTo
    <3>3. CallOK(p) /\ call[p].pc = "insert" /\ call[p].op = "register"
      BY <1>0, <1>7, CallFields DEF CallInv, CallOK, insert, Open
    <3>4. CallOK(p)'
      BY <3>2, <3>3 DEF Moved, CallOK, Open, Unnamed
    <3> QED
      BY <1>0, <3>2, <3>4, OthersOK DEF Moved
  <2> QED
    BY <1>7, <1>b, <2>1 DEF insert
<1>8. ASSUME NEW p \in Extensions, list(p) PROVE CallInv'
  <2>1. Return(p, "registered", call[p].uuid) /\ call[p].pc = "list"
    BY <1>8 DEF list
  <2>2. call[p].uuid # NoUuid /\ call[p].uuid \in 0..MaxStarts
    BY <1>0, <2>1, UuidOfCall, CallFields
  <2> QED
    BY <1>a, <2>1, <2>2, ReturnOK
<1>9. ASSUME NEW p \in Extensions, reply(p) PROVE CallInv'
  <2>1. CASE Return(p, proc[p], id[p])
    <3>1. proc[p] \in States /\ id[p] \in 0..MaxStarts
      BY <1>0, CallFields
    <3>2. CallOK(p) /\ call[p].pc = "reply" /\ call[p].op = "extensions"
      BY <1>0, <1>9, CallFields DEF CallInv, CallOK, reply, Open
    <3>3. /\ Others(p) /\ call'[p] = Idle
          /\ IF proc[p] # "off"
               THEN proc'[p] = proc[p] /\ id'[p] = id[p] /\ offer'[p] = offer[p]
               ELSE proc'[p] = "off" /\ id'[p] = NoUuid /\ offer'[p] = {}
      BY <1>0, <2>1, <3>1, Returned
    <3>4. CallOK(p)'
      BY <3>2, <3>3 DEF CallOK, Open, Unnamed, Idle
    <3> QED
      BY <1>0, <3>3, <3>4, OthersOK
  <2> QED
    BY <1>9, <1>b, <2>1 DEF reply
<1>10. ASSUME NEW p \in Extensions, collect(p) PROVE CallInv'
  <2>1. Moved(p, "erase", call[p].uuid, itemsOf(call[p].uuid), call[p].item, call[p].ok)
    BY <1>0, <1>10, CollectMoves
  <2>2. CallOK(p) /\ call[p].pc = "collect" /\ call[p].op \in {"register", "deregister"}
    BY <1>0, <1>10, CallFields DEF CallInv, CallOK, collect, Open
  <2>3. CallOK(p)'
    BY <2>1, <2>2 DEF Moved, CallOK, Open, Unnamed
  <2> QED
    BY <1>0, <2>1, <2>3, OthersOK DEF Moved
<1>11. ASSUME NEW p \in Extensions, eraseItems(p) PROVE CallInv'
  <2>1. Moved(p, IF call[p].op = "register" THEN "insert" ELSE "unregister",
              call[p].uuid, {}, call[p].item, call[p].ok)
    BY <1>0, <1>11, EraseMoves
  <2>2. CallOK(p) /\ call[p].pc = "erase" /\ call[p].op \in {"register", "deregister"}
    BY <1>0, <1>11, CallFields DEF CallInv, CallOK, eraseItems, Open
  <2>3. CallOK(p)'
    BY <2>1, <2>2 DEF Moved, CallOK, Open, Unnamed
  <2> QED
    BY <1>0, <2>1, <2>3, OthersOK DEF Moved
<1>12. ASSUME NEW p \in Extensions, unregister(p) PROVE CallInv'
  <2>1. "forget" \in Places
    BY DEF Places
  <2>2. Moved(p, "forget", call[p].uuid, call[p].todo, call[p].item, call[p].ok)
    BY <1>0, <1>12, <2>1, GoesTo DEF unregister
  <2>3. CallOK(p) /\ call[p].pc = "unregister" /\ call[p].op = "deregister"
    BY <1>0, <1>12, CallFields DEF CallInv, CallOK, unregister, Open
  <2>4. CallOK(p)'
    BY <2>2, <2>3 DEF Moved, CallOK, Open, Unnamed
  <2> QED
    BY <1>0, <2>2, <2>4, OthersOK DEF Moved
<1>13. ASSUME NEW p \in Extensions, forget(p) PROVE CallInv'
  BY <1>13, <1>b DEF forget
<1>14. ASSUME NEW p \in Extensions, NEW items \in Broadcasts, Start(p, items)
       PROVE  CallInv'
  <2>1. /\ Begun(p, "register", "prune", id[p])
        /\ proc'[p] = "joining" /\ offer'[p] = items /\ id' = id
        /\ \A q \in Extensions \ {p} : proc'[q] = proc[q] /\ offer'[q] = offer[q]
    BY <1>0, <1>14, StartMoves
  <2>2. CallOK(p) /\ proc[p] = "off"
    BY <1>0, <1>14 DEF CallInv, Start
  <2>3. CallOK(p)' /\ Others(p)
    BY <2>1, <2>2 DEF Begun, CallOK, Open, Unnamed, Others
  <2> QED
    BY <1>0, <2>3, OthersOK
<1>15. ASSUME NEW p \in Extensions, OpenSocket(p) PROVE CallInv'
  <2>1. /\ UNCHANGED <<call, id, offer>> /\ proc[p] = "registered" /\ proc'[p] = "serving"
        /\ \A q \in Extensions \ {p} : proc'[q] = proc[q]
    BY <1>0, <1>15 DEF OpenSocket, ExtensionTypeOK
  <2>2. CallOK(p)
    BY <1>0 DEF CallInv
  <2>3. CallOK(p)' /\ Others(p)
    BY <2>1, <2>2 DEF CallOK, Open, Unnamed, Others
  <2> QED
    BY <1>0, <2>3, OthersOK
<1>16. ASSUME NEW p \in Extensions, Die(p) PROVE CallInv'
  <2>1. /\ Others(p) /\ call' = call /\ proc'[p] = "off" /\ id'[p] = NoUuid
        /\ offer'[p] = IF call[p].op = "register" THEN offer[p] ELSE {}
    BY <1>0, <1>16, DieMoves
  <2>2. CallOK(p)
    BY <1>0 DEF CallInv
  <2>3. CallOK(p)'
    BY <1>0, <2>1, <2>2, CallFields DEF CallOK, Open, Unnamed
  <2> QED
    BY <1>0, <2>1, <2>3, OthersOK
<1>17. ASSUME NEW p \in Extensions, Poll(p) PROVE CallInv'
  <2>1. Begun(p, "extensions", "prune", id[p]) /\ UNCHANGED <<proc, id, offer>>
    BY <1>0, <1>17, PollMoves
  <2>2. CallOK(p) /\ proc[p] \in {"registered", "serving"}
    BY <1>0, <1>17 DEF CallInv, Poll
  <2>3. CallOK(p)' /\ Others(p)
    BY <2>1, <2>2 DEF Begun, CallOK, Open, Unnamed, Others
  <2> QED
    BY <1>0, <2>3, OthersOK
<1>18. ASSUME NEW p \in Extensions, Deregister(p) PROVE CallInv'
  <2>1. CASE ~Return(p, "off", NoUuid)
    <3>1. /\ Begun(p, "deregister", IF id[p] \in exts THEN "collect" ELSE "forget", id[p])
          /\ proc'[p] = "leaving" /\ UNCHANGED <<id, offer>>
          /\ \A q \in Extensions \ {p} : proc'[q] = proc[q]
      BY <1>0, <1>18, <2>1, DeregisterMoves
    <3>2. CallOK(p) /\ proc[p] = "serving"
      BY <1>0, <1>18 DEF CallInv, Deregister
    <3>3. CallOK(p)' /\ Others(p)
      BY <3>1, <3>2 DEF Begun, CallOK, Open, Unnamed, Others
    <3> QED
      BY <1>0, <3>3, OthersOK
  <2> QED
    BY <1>b, <2>1
<1>19. ASSUME UNCHANGED <<call, proc, id, offer>> PROVE CallInv'
  BY <1>0, <1>19 DEF CallInv, CallOK, Open, Unnamed
<1>20. ASSUME NEW p \in Extensions, Handle(p) PROVE CallInv'
  <2>1. CASE \E fine \in BOOLEAN : attach(p, fine)
    BY <1>6, <2>1
  <2> QED
    BY <1>1, <1>2, <1>3, <1>4, <1>5, <1>7, <1>8, <1>9, <1>10, <1>11, <1>12, <1>13, <1>20, <2>1
    DEF Handle
<1>21. CASE Watch \/ UNCHANGED extensionVars
  BY <1>19, <1>21 DEF Watch, round, check, sweep, sweepCollect, sweepErase, sweepUnregister
<1> QED
  BY <1>14, <1>15, <1>16, <1>17, <1>18, <1>20, <1>21 DEF ExtensionNext

-----------------------------------------------------------------------------
(* The kinds of steps *)

\* A step of p that the registry and its watcher do not see.  It names no uuid, and
\* a process that joins, is registered or serves has done so before, or has just
\* learned the result of its registration.
Quiet(p) ==
  /\ UNCHANGED <<registry, given, raced, failures, watch, slow>>
  /\ partial \subseteq partial' /\ Others(p)
  /\ \/ starts' = starts /\ (p \in Unnamed' => p \in Unnamed)
     \/ starts' = starts + 1 /\ p \notin Unnamed
  /\ Mine(p)' \subseteq Mine(p)
  /\ Open(p)' => call'[p] = call[p] /\ offer'[p] = offer[p]
  /\ Adding(p) => call'[p] = call[p] \/ call[p].uuid \in partial'
  /\ call'[p].pc \in {"conflicts", "route", "attach", "erase", "insert", "unregister"}
       => call'[p] = call[p]
  /\ call'[p].op = "register" /\ call'[p].pc = "list" /\ proc'[p] = "joining"
       => call'[p] = call[p] /\ proc[p] = "joining" /\ offer'[p] = offer[p]
  /\ proc'[p] = "joining" => \/ call'[p].uuid = NoUuid
                             \/ proc[p] = "joining" /\ call'[p].uuid = call[p].uuid
  /\ proc'[p] = "registered" =>
       /\ offer'[p] = offer[p]
       /\ \/ proc[p] = "registered" /\ id'[p] = id[p]
          \/ /\ proc[p] = "joining" /\ call[p].pc = "list" /\ call[p].op = "register"
             /\ id'[p] = call[p].uuid
  /\ proc'[p] = "serving" => /\ proc[p] \in {"registered", "serving"}
                             /\ id'[p] = id[p] /\ offer'[p] = offer[p]

\* What the other steps leave alone, except where they say so.
Same == UNCHANGED <<given, starts, failures, watch, slow, partial>>

Named(p) ==
  /\ call[p].op = "register" /\ call[p].pc = "uuid"
  /\ Moved(p, "conflicts", given + 1, offer[p], call[p].item, call[p].ok)
  /\ given' = given + 1
  /\ UNCHANGED <<registry, raced, starts, failures, watch, slow, partial>>

Looked(p, x) ==
  /\ call[p].op = "register" /\ call[p].pc = "conflicts" /\ x \in call[p].todo
  /\ x \in Unknown \/ ~existsUnsafe(x)
  /\ Moved(p, IF call[p].todo = {x} THEN "route" ELSE "conflicts", call[p].uuid,
           IF call[p].todo = {x} THEN offer[p] ELSE call[p].todo \ {x},
           call[p].item, call[p].ok)
  /\ Same /\ UNCHANGED <<registry, raced>>

Routed(p, x) ==
  /\ call[p].op = "register" /\ call[p].pc = "route" /\ x \in call[p].todo \ Unknown
  /\ Moved(p, "attach", call[p].uuid, call[p].todo, x, call[p].ok)
  /\ routes' = routes \cup {x}
  /\ raced' = IF Busy(x) # {p} \/ x \in watch.items THEN raced \cup {x} ELSE raced
  /\ Same /\ UNCHANGED <<exts, external>>

Tried(p) ==
  /\ call[p].op = "register" /\ call[p].pc = "attach"
  /\ Attached(p, call[p].item) \/ NotAttached(p)
  /\ Same /\ UNCHANGED <<exts, routes, raced>>

Inserted(p) ==
  /\ call[p].op = "register" /\ call[p].pc = "insert" /\ call[p].ok
  /\ Moved(p, "list", call[p].uuid, call[p].todo, call[p].item, call[p].ok)
  /\ exts' = exts \cup {call[p].uuid}
  /\ Same /\ UNCHANGED <<external, routes, raced>>

Refused(p) ==
  /\ call[p].op = "register" /\ call[p].pc = "insert" /\ ~call[p].ok
  /\ exts' = exts \/ exts' = exts \cup {call[p].uuid}
  /\ Others(p) /\ call'[p] = Idle
  /\ proc'[p] = "off" /\ id'[p] = NoUuid /\ offer'[p] = {}
  /\ Same /\ UNCHANGED <<external, routes, raced>>

Collected(p) ==
  /\ call[p].op \in {"register", "deregister"} /\ call[p].pc = "collect"
  /\ Moved(p, "erase", call[p].uuid, itemsOf(call[p].uuid), call[p].item, call[p].ok)
  /\ Same /\ UNCHANGED <<registry, raced>>

Erased(p) ==
  /\ call[p].op \in {"register", "deregister"} /\ call[p].pc = "erase"
  /\ Moved(p, IF call[p].op = "register" THEN "insert" ELSE "unregister",
           call[p].uuid, {}, call[p].item, call[p].ok)
  /\ erase(call[p].todo)
  /\ Same /\ UNCHANGED <<exts, raced>>

Unregistered(p) ==
  /\ call[p].op = "deregister" /\ call[p].pc = "unregister"
  /\ Moved(p, "forget", call[p].uuid, call[p].todo, call[p].item, call[p].ok)
  /\ exts' = exts \ {call[p].uuid}
  /\ Same /\ UNCHANGED <<external, routes, raced>>

\* A step that ends a call with the process off is quiet, if no item was added.
LEMMA QuitsQuietly ==
  ASSUME ExtensionInv, NEW p \in Extensions, Return(p, "off", NoUuid),
         UNCHANGED <<registry, given, raced, starts, failures, watch, slow>>,
         partial \subseteq partial', Adding(p) => call[p].uuid \in partial'
  PROVE  Quiet(p)
<1>1. /\ Others(p) /\ call'[p] = Idle
      /\ proc'[p] = "off" /\ id'[p] = NoUuid /\ offer'[p] = {}
  <2>1. "off" \in States /\ NoUuid \in 0..MaxStarts /\ ExtensionTypeOK
    BY BoundsAssumption DEF States, ExtensionInv
  <2> QED
    BY <2>1, Returned
<1>2. p \notin Unnamed' /\ Mine(p)' = {}
  BY <1>1 DEF Unnamed, Mine, Idle
<1> QED
  BY <1>1, <1>2 DEF Quiet, Idle, Open

\* The steps that are quiet whenever they are taken.
LEMMA QuietSteps ==
  ASSUME ExtensionInv, NEW p \in Extensions,
         \/ prune(p) \/ exists(p) \/ list(p) \/ reply(p) \/ forget(p)
         \/ \E items \in Broadcasts : Start(p, items)
         \/ OpenSocket(p) \/ Poll(p) \/ Deregister(p) \/ Die(p)
  PROVE  Quiet(p)
<1>0. ExtensionTypeOK /\ CallOK(p)
  BY DEF ExtensionInv, CallInv
<1>a. "off" \in States /\ "registered" \in States /\ NoUuid \in 0..MaxStarts
  BY BoundsAssumption DEF States
<1>b. proc[p] \in States /\ call[p].op \in {"none", "register", "extensions", "deregister"}
      /\ id[p] \in 0..MaxStarts /\ call[p].uuid \in 0..MaxStarts
  BY <1>0, CallFields
<1>1. CASE prune(p)
  <2>1. Moved(p, IF call[p].op = "register" THEN "exists" ELSE "reply",
               call[p].uuid, call[p].todo, call[p].item, call[p].ok)
    BY <1>0, <1>1, PruneMoves
  <2>2. UNCHANGED <<registry, given, raced, partial, starts, failures, watch, slow>>
        /\ call[p].pc = "prune"
    BY <1>1 DEF prune
  <2> QED
    BY <1>0, <1>b, <2>1, <2>2 DEF Moved, Quiet, CallOK, Open, Unnamed, Mine, Adding
<1>2. CASE exists(p)
  <2>1. CASE GoTo(p, "uuid") /\ UNCHANGED <<proc, id, offer>>
    <3>1. "uuid" \in Places
      BY DEF Places
    <3>2. Moved(p, "uuid", call[p].uuid, call[p].todo, call[p].item, call[p].ok)
      BY <1>0, <2>1, <3>1, GoesTo
    <3>3. UNCHANGED <<registry, given, raced, partial, starts, failures, watch, slow>>
          /\ call[p].pc = "exists"
      BY <1>2 DEF exists
    <3> QED
      BY <1>0, <1>b, <3>2, <3>3 DEF Moved, Quiet, CallOK, Open, Unnamed, Mine, Adding
  <2> QED
    BY <1>2, <2>1, QuitsQuietly DEF exists, Adding
<1>3. CASE list(p)
  <2>1. Return(p, "registered", call[p].uuid) /\ call[p].pc = "list"
        /\ UNCHANGED <<registry, given, raced, partial, starts, failures, watch, slow>>
    BY <1>3 DEF list
  <2>2. /\ Others(p) /\ call'[p] = Idle
        /\ IF proc[p] # "off"
             THEN proc'[p] = "registered" /\ id'[p] = call[p].uuid /\ offer'[p] = offer[p]
             ELSE proc'[p] = "off" /\ id'[p] = NoUuid /\ offer'[p] = {}
    BY <1>0, <1>a, <1>b, <2>1, Returned
  <2>3. call[p].op = "register" /\ proc[p] \in {"off", "joining"}
    BY <1>0, <1>b, <2>1 DEF CallOK
  <2>4. p \notin Unnamed' /\ Mine(p)' \subseteq Mine(p)
    BY <2>2 DEF Unnamed, Mine, Idle
  <2> QED
    BY <2>1, <2>2, <2>3, <2>4 DEF Quiet, Open, Adding, Idle
<1>4. CASE reply(p)
  <2>1. CASE Return(p, proc[p], id[p])
    <3>1. UNCHANGED <<registry, given, raced, partial, starts, failures, watch, slow>>
          /\ call[p].pc = "reply"
      BY <1>4 DEF reply
    <3>2. /\ Others(p) /\ call'[p] = Idle
          /\ IF proc[p] # "off"
               THEN proc'[p] = proc[p] /\ id'[p] = id[p] /\ offer'[p] = offer[p]
               ELSE proc'[p] = "off" /\ id'[p] = NoUuid /\ offer'[p] = {}
      BY <1>0, <1>b, <2>1, Returned
    <3>3. p \notin Unnamed' /\ Mine(p)' \subseteq Mine(p)
      BY <3>2 DEF Unnamed, Mine, Idle
    <3> QED
      BY <3>1, <3>2, <3>3 DEF Quiet, Open, Adding, Idle
  <2> QED
    BY <1>4, <2>1, QuitsQuietly DEF reply, Adding
<1>5. CASE forget(p)
  BY <1>5, QuitsQuietly DEF forget, Adding
<1>6. CASE \E items \in Broadcasts : Start(p, items)
  <2>0. PICK items \in Broadcasts : Start(p, items)
    BY <1>6
  <2>1. /\ Begun(p, "register", "prune", id[p])
        /\ proc'[p] = "joining" /\ offer'[p] = items /\ id' = id
        /\ \A q \in Extensions \ {p} : proc'[q] = proc[q] /\ offer'[q] = offer[q]
    BY <1>0, <2>0, StartMoves
  <2>2. UNCHANGED <<registry, given, raced, partial, failures, watch, slow>>
        /\ call[p].pc = "idle" /\ proc[p] = "off" /\ starts' = starts + 1
    BY <2>0 DEF Start
  <2>3. Others(p) /\ id[p] = NoUuid /\ p \notin Unnamed
    BY <1>0, <2>1, <2>2 DEF Begun, Others, CallOK, Unnamed
  <2> QED
    BY <2>1, <2>2, <2>3 DEF Begun, Quiet, Open, Adding, Mine
<1>7. CASE OpenSocket(p)
  <2>1. /\ UNCHANGED <<registry, given, raced, partial, starts, failures, watch, slow>>
        /\ UNCHANGED <<call, id, offer>> /\ proc[p] = "registered" /\ proc'[p] = "serving"
        /\ \A q \in Extensions \ {p} : proc'[q] = proc[q]
    BY <1>0, <1>7 DEF OpenSocket, ExtensionTypeOK
  <2> QED
    BY <2>1 DEF Quiet, Open, Adding, Mine, Others, Unnamed
<1>8. CASE Poll(p)
  <2>1. Begun(p, "extensions", "prune", id[p]) /\ UNCHANGED <<proc, id, offer>>
    BY <1>0, <1>8, PollMoves
  <2>2. UNCHANGED <<registry, given, raced, partial, starts, failures, watch, slow>>
        /\ call[p].pc = "idle" /\ proc[p] \in {"registered", "serving"}
    BY <1>8 DEF Poll
  <2> QED
    BY <2>1, <2>2 DEF Begun, Quiet, Open, Adding, Mine, Others, Unnamed
<1>9. CASE Deregister(p)
  <2>1. UNCHANGED <<registry, given, raced, partial, starts, failures, watch, slow>>
        /\ call[p].pc = "idle" /\ proc[p] = "serving"
    BY <1>9 DEF Deregister
  <2>2. CASE Return(p, "off", NoUuid)
    BY <2>1, <2>2, QuitsQuietly DEF Adding
  <2>3. CASE ~Return(p, "off", NoUuid)
    <3>1. /\ Begun(p, "deregister", IF id[p] \in exts THEN "collect" ELSE "forget", id[p])
          /\ proc'[p] = "leaving" /\ UNCHANGED <<id, offer>>
          /\ \A q \in Extensions \ {p} : proc'[q] = proc[q]
      BY <1>0, <1>9, <2>3, DeregisterMoves
    <3> QED
      BY <2>1, <3>1 DEF Begun, Quiet, Open, Adding, Mine, Others, Unnamed
  <2> QED
    BY <2>2, <2>3
<1>10. CASE Die(p)
  <2>1. /\ Others(p) /\ call' = call /\ proc'[p] = "off" /\ id'[p] = NoUuid
        /\ offer'[p] = IF call[p].op = "register" THEN offer[p] ELSE {}
        /\ UNCHANGED <<registry, given, raced, partial, starts, failures, watch, slow>>
    BY <1>0, <1>10, DieMoves DEF Die
  <2> QED
    BY <2>1 DEF Quiet, Open, Adding, Mine, Unnamed
<1> QED
  BY <1>1, <1>2, <1>3, <1>4, <1>5, <1>6, <1>7, <1>8, <1>9, <1>10

\* What a step of p may be.
Kind(p) ==
  \/ Quiet(p) \/ Named(p) \/ (\E x \in Items : Looked(p, x) \/ Routed(p, x))
  \/ Tried(p) \/ Inserted(p) \/ Refused(p)
  \/ Collected(p) \/ Erased(p) \/ Unregistered(p)

\* Every step of a call or of a process is of one of these kinds.
LEMMA Kinds ==
  ASSUME ExtensionInv, ExtensionNext, ~Watch
  PROVE  \E p \in Extensions : Kind(p)
<1>0. PICK p \in Extensions : \/ Handle(p)
                              \/ \E items \in Broadcasts : Start(p, items)
                              \/ OpenSocket(p) \/ Poll(p) \/ Deregister(p) \/ Die(p)
  BY DEF ExtensionNext
<1>a. ExtensionTypeOK /\ CallOK(p)
      /\ call[p].op \in {"none", "register", "extensions", "deregister"}
      /\ call[p].todo \subseteq Items
  BY CallFields DEF ExtensionInv, CallInv
<1>1. CASE getUuid(p)
  <2>1. given + 1 \in 0..MaxStarts
    BY <1>1, OneMoreUuid
  <2>2. Moved(p, "conflicts", given + 1, offer[p], call[p].item, call[p].ok)
    BY <1>a, <1>1, <2>1, UuidMoves
  <2> QED
    BY <1>a, <1>1, <2>2 DEF getUuid, Kind, Named, CallOK, Open
<1>2. CASE conflicts(p)
  <2>0. UNCHANGED <<registry, given, raced, partial, starts, failures, watch, slow>>
        /\ call[p].pc = "conflicts" /\ call[p].op = "register"
    BY <1>a, <1>2 DEF conflicts, CallOK, Open
  <2>1. CASE Return(p, "off", NoUuid)
    BY <2>0, <2>1, QuitsQuietly DEF Adding, Kind
  <2>2. CASE ~Return(p, "off", NoUuid)
    <3>1. \E x \in call[p].todo : Looked(p, x)
      BY <1>a, <1>2, <2>0, <2>2, ConflictsMoves DEF Looked, Same
    <3> QED
      BY <1>a, <3>1 DEF Kind
  <2> QED
    BY <2>1, <2>2
<1>3. CASE route(p)
  <2>0. UNCHANGED <<exts, external, given, starts, failures, watch, slow>>
        /\ call[p].pc = "route" /\ call[p].op = "register"
    BY <1>a, <1>3 DEF route, CallOK, Open
  <2>1. CASE /\ Return(p, "off", NoUuid) /\ partial' = partial \cup {call[p].uuid}
             /\ UNCHANGED <<routes, raced>>
    BY <2>0, <2>1, QuitsQuietly DEF Adding, Kind
  <2>2. CASE \E x \in call[p].todo \ Unknown :
              /\ Moved(p, "attach", call[p].uuid, call[p].todo, x, call[p].ok)
              /\ routes' = routes \cup {x} /\ partial' = partial
              /\ raced' = IF Busy(x) # {p} \/ x \in watch.items
                            THEN raced \cup {x} ELSE raced
    <3>1. \E x \in call[p].todo : Routed(p, x)
      BY <2>0, <2>2 DEF Routed, Same
    <3> QED
      BY <1>a, <3>1 DEF Kind
  <2> QED
    BY <1>a, <1>3, <2>1, <2>2, RouteMoves
<1>4. ASSUME NEW fine \in BOOLEAN, attach(p, fine) PROVE Kind(p)
  <2>1. UNCHANGED <<exts, routes, given, starts, failures, watch, slow, partial, raced>>
        /\ call[p].pc = "attach" /\ call[p].op = "register"
    BY <1>a, <1>4 DEF attach, CallOK, Open
  <2> QED
    BY <1>a, <1>4, <2>1, AttachMoves DEF Kind, Tried, Same
<1>5. CASE insert(p)
  <2>0. UNCHANGED <<external, routes, given, starts, failures, watch, slow, partial, raced>>
        /\ call[p].pc = "insert" /\ call[p].op = "register"
    BY <1>a, <1>5 DEF insert, CallOK, Open
  <2>1. CASE call[p].ok
    <3>1. "list" \in Places
      BY DEF Places
    <3>2. Moved(p, "list", call[p].uuid, call[p].todo, call[p].item, call[p].ok)
      BY <1>a, <1>5, <2>1, <3>1, GoesTo DEF insert
    <3> QED
      BY <1>5, <2>0, <2>1, <3>2 DEF insert, Kind, Inserted, Same
  <2>2. CASE ~call[p].ok
    <3>1. "off" \in States /\ NoUuid \in 0..MaxStarts
      BY BoundsAssumption DEF States
    <3>2. /\ Others(p) /\ call'[p] = Idle
          /\ proc'[p] = "off" /\ id'[p] = NoUuid /\ offer'[p] = {}
      BY <1>a, <1>5, <2>2, <3>1, Returned DEF insert
    <3> QED
      BY <1>5, <2>0, <2>2, <3>2 DEF insert, Kind, Refused, Same
  <2> QED
    BY <2>1, <2>2
<1>6. CASE collect(p)
  <2>1. UNCHANGED <<registry, given, starts, failures, watch, slow, partial, raced>>
        /\ call[p].pc = "collect" /\ call[p].op \in {"register", "deregister"}
    BY <1>a, <1>6 DEF collect, CallOK, Open
  <2> QED
    BY <1>a, <1>6, <2>1, CollectMoves DEF Kind, Collected, Same
<1>7. CASE eraseItems(p)
  <2>1. UNCHANGED <<exts, given, starts, failures, watch, slow, partial, raced>>
        /\ call[p].pc = "erase" /\ call[p].op \in {"register", "deregister"}
        /\ erase(call[p].todo)
    BY <1>a, <1>7 DEF eraseItems, CallOK, Open
  <2> QED
    BY <1>a, <1>7, <2>1, EraseMoves DEF Kind, Erased, Same
<1>8. CASE unregister(p)
  <2>1. UNCHANGED <<external, routes, given, starts, failures, watch, slow, partial, raced>>
        /\ call[p].pc = "unregister" /\ call[p].op = "deregister"
        /\ exts' = exts \ {call[p].uuid}
    BY <1>a, <1>8 DEF unregister, CallOK, Open
  <2>2. "forget" \in Places
    BY DEF Places
  <2>3. Moved(p, "forget", call[p].uuid, call[p].todo, call[p].item, call[p].ok)
    BY <1>a, <1>8, <2>2, GoesTo DEF unregister
  <2> QED
    BY <2>1, <2>3 DEF Kind, Unregistered, Same
<1>9. CASE \/ prune(p) \/ exists(p) \/ list(p) \/ reply(p) \/ forget(p)
           \/ \E items \in Broadcasts : Start(p, items)
           \/ OpenSocket(p) \/ Poll(p) \/ Deregister(p) \/ Die(p)
  BY <1>9, QuietSteps DEF Kind
<1>10. CASE \E fine \in BOOLEAN : attach(p, fine)
  BY <1>4, <1>10
<1> QED
  BY <1>0, <1>1, <1>2, <1>3, <1>5, <1>6, <1>7, <1>8, <1>9, <1>10 DEF Handle

\* What the steps that are neither quiet nor give a uuid have in common.
Later(p) ==
  /\ Others(p) /\ Same /\ p \notin Unnamed' /\ Mine(p)' \subseteq Mine(p)
  /\ Open(p)' => Open(p) /\ call'[p].uuid = call[p].uuid
  /\ \/ exts' \subseteq exts
     \/ Open(p) /\ ~Open(p)' /\ exts' = exts \cup {call[p].uuid}

\* It holds of each of them.
LEMMA LaterSteps ==
  ASSUME NEW p \in Extensions, Kind(p), ~Quiet(p), ~Named(p)
  PROVE  Later(p)
<1>1. CASE \E x \in Items : Looked(p, x)
  BY <1>1 DEF Looked, Later, Moved, Same, Unnamed, Mine, Open
<1>2. CASE \E x \in Items : Routed(p, x)
  BY <1>2 DEF Routed, Later, Moved, Same, Unnamed, Mine, Open
<1>3. CASE Tried(p)
  BY <1>3 DEF Tried, Attached, NotAttached, Later, Moved, Same, Unnamed, Mine, Open
<1>4. CASE Inserted(p)
  BY <1>4 DEF Inserted, Later, Moved, Same, Unnamed, Mine, Open
<1>5. CASE Refused(p)
  BY <1>5 DEF Refused, Later, Same, Unnamed, Mine, Open, Idle
<1>6. CASE Collected(p)
  BY <1>6 DEF Collected, Later, Moved, Same, Unnamed, Mine, Open
<1>7. CASE Erased(p)
  BY <1>7 DEF Erased, Later, Moved, Same, Unnamed, Mine, Open
<1>8. CASE Unregistered(p)
  BY <1>8 DEF Unregistered, Later, Moved, Same, Unnamed, Mine, Open
<1> QED
  BY <1>1, <1>2, <1>3, <1>4, <1>5, <1>6, <1>7, <1>8 DEF Kind

-----------------------------------------------------------------------------
(* The uuids *)

\* No more uuids are given than processes were started.
LEMMA StepGiven ==
  ASSUME ExtensionInv, [ExtensionNext]_extensionVars
  PROVE  GivenInv'
<1>0. given \in Nat /\ starts \in Nat /\ IsFiniteSet(Unnamed)
      /\ Cardinality(Unnamed) \in Nat /\ given + Cardinality(Unnamed) <= starts
  BY FS_CardinalityType, BoundsAssumption DEF ExtensionInv, ExtensionTypeOK, GivenInv
<1>1. ASSUME Unnamed' \subseteq Unnamed, given' = given, starts' = starts
      PROVE  GivenInv'
  <2>1. IsFiniteSet(Unnamed') /\ Cardinality(Unnamed') <= Cardinality(Unnamed)
        /\ Cardinality(Unnamed') \in Nat
    BY <1>0, <1>1, FS_Subset, FS_CardinalityType
  <2> QED
    BY <1>0, <1>1, <2>1 DEF GivenInv
<1>2. ASSUME NEW p \in Extensions, Others(p)
      PROVE  \A q \in Extensions \ {p} : q \in Unnamed' <=> q \in Unnamed
  BY <1>2 DEF Others, Unnamed
<1>3. ASSUME NEW p \in Extensions, Quiet(p) PROVE GivenInv'
  <2>1. CASE starts' = starts /\ (p \in Unnamed' => p \in Unnamed)
    <3>1. Unnamed' \subseteq Unnamed
      BY <1>2, <1>3, <2>1 DEF Quiet, Unnamed
    <3> QED
      BY <1>1, <1>3, <2>1, <3>1 DEF Quiet
  <2>2. CASE starts' = starts + 1 /\ p \notin Unnamed
    <3>1. Unnamed' \subseteq Unnamed \cup {p}
      BY <1>2, <1>3 DEF Quiet, Unnamed
    <3>2. IsFiniteSet(Unnamed \cup {p})
          /\ Cardinality(Unnamed \cup {p}) = Cardinality(Unnamed) + 1
      BY <1>0, <2>2, FS_AddElement
    <3>3. IsFiniteSet(Unnamed') /\ Cardinality(Unnamed') <= Cardinality(Unnamed \cup {p})
          /\ Cardinality(Unnamed') \in Nat
      BY <3>1, <3>2, FS_Subset, FS_CardinalityType
    <3>4. given' = given
      BY <1>3 DEF Quiet
    <3> QED
      BY <1>0, <2>2, <3>2, <3>3, <3>4 DEF GivenInv
  <2> QED
    BY <1>3, <2>1, <2>2 DEF Quiet
<1>4. ASSUME NEW p \in Extensions, Named(p) PROVE GivenInv'
  <2>1. p \in Unnamed /\ p \notin Unnamed' /\ Others(p)
    BY <1>4 DEF Named, Moved, Unnamed
  <2>2. Unnamed' = Unnamed \ {p}
    BY <1>2, <2>1 DEF Unnamed
  <2>3. IsFiniteSet(Unnamed \ {p}) /\ Cardinality(Unnamed \ {p}) = Cardinality(Unnamed) - 1
    BY <1>0, <2>1, FS_RemoveElement
  <2>4. given' = given + 1 /\ starts' = starts
    BY <1>4 DEF Named
  <2> QED
    BY <1>0, <2>2, <2>3, <2>4 DEF GivenInv
<1>5. ASSUME NEW p \in Extensions, Kind(p), ~Quiet(p), ~Named(p) PROVE GivenInv'
  <2>1. Others(p) /\ given' = given /\ starts' = starts /\ p \notin Unnamed'
    BY <1>5, LaterSteps DEF Later, Same
  <2>2. Unnamed' \subseteq Unnamed
    BY <1>2, <2>1 DEF Unnamed
  <2> QED
    BY <1>1, <2>1, <2>2
<1>6. CASE Watch \/ UNCHANGED extensionVars
  <2>1. UNCHANGED <<given, starts, call>>
    BY <1>6 DEF Watch, round, check, sweep, sweepCollect, sweepErase, sweepUnregister
  <2>2. Unnamed' = Unnamed
    BY <2>1 DEF Unnamed
  <2> QED
    BY <1>1, <2>1, <2>2
<1> QED
  BY <1>3, <1>4, <1>5, <1>6, Kinds

\* A registration's uuid is its own.
LEMMA OwnUuid ==
  ASSUME ExtensionInv, NEW p \in Extensions, NEW q \in Extensions, p # q, Open(q)
  PROVE  call[q].uuid \notin Mine(p) /\ call[q].uuid \in Mine(q)
<1>1. call[q].uuid \in Uuids
  BY UuidOfCall DEF Open
<1>2. call[q].uuid \in Mine(q)
  BY <1>1, BoundsAssumption DEF Mine, Uuids
<1> QED
  BY <1>2 DEF ExtensionInv, UuidInv

\* A step that gives no uuid and opens no registration.
LEMMA UuidsKept ==
  ASSUME ExtensionInv, NEW p \in Extensions, Others(p), Mine(p)' \subseteq Mine(p),
         Open(p)' => Open(p) /\ call'[p].uuid = call[p].uuid,
         UNCHANGED <<given, slow, failures, watch>>,
         exts' \subseteq exts \/ (Open(p) /\ ~Open(p)' /\ exts' \subseteq exts \cup {call[p].uuid}),
         \A x \in Items : external'[x] <= given
  PROVE  UuidInv'
<1>0. UuidInv
  BY DEF ExtensionInv
<1>1. \A q \in Extensions \ {p} : Mine(q)' = Mine(q) /\ (Open(q)' <=> Open(q))
                                  /\ call'[q].uuid = call[q].uuid
  BY DEF Others, Mine, Open
<1>2. Closed \subseteq Closed'
  BY <1>1 DEF Closed
<1>3. exts' \subseteq Closed'
  <2>1. CASE Open(p) /\ ~Open(p)'
    <3>1. call[p].uuid \in Mine(p) /\ call[p].uuid \in 1..given
      BY <2>1, UuidOfCall, BoundsAssumption DEF Open, Mine, Uuids
    <3>2. \A q \in Extensions \ {p} : Open(q) => call[q].uuid # call[p].uuid
      BY <3>1, OwnUuid
    <3>3. call[p].uuid \in Closed'
      BY <1>1, <2>1, <3>1, <3>2 DEF Closed
    <3> QED
      BY <1>0, <1>2, <3>3 DEF UuidInv
  <2> QED
    BY <1>0, <1>2, <2>1 DEF UuidInv
<1>4. \A q, r \in Extensions : q # r => Mine(q)' \cap Mine(r)' = {}
  <2> SUFFICES ASSUME NEW q \in Extensions, NEW r \in Extensions, q # r
               PROVE  Mine(q)' \cap Mine(r)' = {}
    OBVIOUS
  <2>1. Mine(q)' \subseteq Mine(q) /\ Mine(r)' \subseteq Mine(r)
    BY <1>1
  <2> QED
    BY <1>0, <2>1 DEF UuidInv
<1>5. \A q \in Extensions : Mine(q)' \subseteq 1..given
  BY <1>0, <1>1 DEF UuidInv
<1> QED
  BY <1>0, <1>2, <1>3, <1>4, <1>5 DEF UuidInv

\* Every step keeps uuids apart.
LEMMA StepUuid ==
  ASSUME ExtensionInv, [ExtensionNext]_extensionVars
  PROVE  UuidInv'
<1>0. ExtensionTypeOK /\ UuidInv /\ CallInv
  BY DEF ExtensionInv
<1>a. \A x \in Items : external[x] <= given
  BY <1>0 DEF UuidInv
<1>1. ASSUME NEW p \in Extensions, Quiet(p) PROVE UuidInv'
  <2>1. Open(p)' => Open(p) /\ call'[p].uuid = call[p].uuid
    BY <1>1 DEF Quiet, Open
  <2> QED
    BY <1>1, <1>a, <2>1, UuidsKept DEF Quiet
<1>2. ASSUME NEW p \in Extensions, Named(p) PROVE UuidInv'
  <2>0. given \in Nat /\ given' = given + 1 /\ given + 1 \in Uuids
    <3>1. p \in Unnamed
      BY <1>2 DEF Named, Unnamed
    <3>2. Cardinality(Unnamed) \in Nat /\ Cardinality(Unnamed) # 0
      BY <3>1, FS_CardinalityType, FS_EmptySet DEF ExtensionInv, GivenInv
    <3> QED
      BY <1>2, <3>2, BoundsAssumption
      DEF ExtensionInv, GivenInv, ExtensionTypeOK, Named, Uuids
  <2>1. /\ \A q \in Extensions \ {p} : Mine(q)' = Mine(q) /\ (Open(q)' <=> Open(q))
                                       /\ call'[q].uuid = call[q].uuid
        /\ call'[p].uuid = given + 1 /\ Open(p)'
        /\ Mine(p)' = (Mine(p) \ {call[p].uuid}) \cup {given + 1}
        /\ UNCHANGED <<exts, external, slow, failures, watch>>
    <3>1. call[p].uuid = 0 /\ given + 1 # 0
      BY <1>0, <1>2, <2>0 DEF Named, CallInv, CallOK, Unnamed
    <3> QED
      BY <1>2, <3>1 DEF Named, Moved, Others, Mine, Open
  <2>2. Closed \subseteq Closed'
    <3> SUFFICES ASSUME NEW u \in Closed PROVE u \in Closed'
      OBVIOUS
    <3>1. u \in 1..given /\ u # given + 1 /\ u \in 1..(given + 1)
      BY <2>0 DEF Closed
    <3> QED
      BY <2>0, <2>1, <3>1 DEF Closed
  <2>3. \A q \in Extensions : given + 1 \notin Mine(q)
    BY <1>0, <2>0 DEF UuidInv
  <2>4. \A q, r \in Extensions : q # r => Mine(q)' \cap Mine(r)' = {}
    <3> SUFFICES ASSUME NEW q \in Extensions, NEW r \in Extensions, q # r
                 PROVE  Mine(q)' \cap Mine(r)' = {}
      OBVIOUS
    <3>1. Mine(q) \cap Mine(r) = {}
      BY <1>0 DEF UuidInv
    <3>2. CASE q = p
      BY <2>1, <2>3, <3>1, <3>2
    <3>3. CASE r = p
      BY <2>1, <2>3, <3>1, <3>3
    <3> QED
      BY <2>1, <3>1, <3>2, <3>3
  <2>5. \A q \in Extensions : Mine(q)' \subseteq 1..given'
    <3>1. 1..given \subseteq 1..given' /\ given + 1 \in 1..given'
      BY <2>0
    <3>2. \A q \in Extensions : Mine(q) \subseteq 1..given
      BY <1>0 DEF UuidInv
    <3> QED
      BY <2>1, <3>1, <3>2
  <2>6. \A x \in Items : external'[x] <= given'
    BY <1>0, <1>a, <2>0, <2>1, BoundsAssumption DEF ExtensionTypeOK
  <2> QED
    BY <1>0, <2>1, <2>2, <2>4, <2>5, <2>6 DEF UuidInv
<1>3. ASSUME NEW p \in Extensions, Kind(p), ~Quiet(p), ~Named(p) PROVE UuidInv'
  <2>1. Later(p)
    BY <1>3, LaterSteps
  <2>3. \A x \in Items : external'[x] <= given
    <3>1. CASE Tried(p) /\ Attached(p, call[p].item)
      <4>1. call[p].uuid \in 1..given
        BY <3>1, UuidOfCall DEF Tried
      <4> QED
        BY <1>0, <1>a, <3>1, <4>1, BoundsAssumption DEF Attached, ExtensionTypeOK
    <3>2. CASE Erased(p)
      BY <1>0, <1>a, <3>2, BoundsAssumption DEF Erased, erase, ExtensionTypeOK
    <3>3. CASE UNCHANGED external
      BY <1>a, <3>3
    <3> QED
      BY <1>3, <3>1, <3>2, <3>3 DEF Kind, Looked, Routed, Tried, NotAttached, Inserted,
                                    Refused, Collected, Unregistered
  <2> QED
    BY <2>1, <2>3, UuidsKept DEF Later, Same
<1>4. CASE Watch \/ UNCHANGED extensionVars
  <2>1. UNCHANGED <<given, call, id>>
    BY <1>4 DEF Watch, round, check, sweep, sweepCollect, sweepErase, sweepUnregister
  <2>2. Closed' = Closed /\ \A q \in Extensions : Mine(q)' = Mine(q)
    BY <2>1 DEF Closed, Mine, Open
  <2> DEFINE Seen == /\ exts' \cup slow' \cup watch'.todo \subseteq Closed
                     /\ watch'.pc # "check" => watch'.uuid \in Closed
                     /\ \A u \in Uuids : failures'[u] # 0 => u \in Closed
  <2>3. Seen
    <3>0. watch \in Watches /\ failures \in [Uuids -> 0..2]
      BY <1>0 DEF ExtensionTypeOK
    <3>1. ASSUME NEW u \in Uuids, check(u) PROVE Seen
      BY <1>0, <3>0, <3>1 DEF check, UuidInv, Watches
    <3>2. ASSUME NEW u \in Uuids, sweep(u) PROVE Seen
      <4>1. failures[u] # 0
        BY <3>0, <3>2 DEF sweep, hasFailed
      <4>2. u \in Closed
        BY <1>0, <4>1 DEF UuidInv
      <4>3. CASE u \in exts
        BY <1>0, <3>0, <3>2, <4>2, <4>3 DEF sweep, UuidInv, Watches
      <4>4. CASE u \notin exts
        BY <1>0, <3>0, <3>2, <4>2, <4>4 DEF sweep, UuidInv
      <4> QED
        BY <4>3, <4>4
    <3>3. CASE sweepCollect
      BY <1>0, <3>0, <3>3 DEF sweepCollect, UuidInv, Watches
    <3>4. CASE sweepErase
      BY <1>0, <3>0, <3>4 DEF sweepErase, UuidInv, Watches
    <3>5. CASE sweepUnregister
      BY <1>0, <3>0, <3>5 DEF sweepUnregister, UuidInv, Watches
    <3>6. CASE round
      BY <1>0, <3>0, <3>6 DEF round, UuidInv, Watches
    <3>7. CASE UNCHANGED extensionVars
      BY <1>0, <3>7 DEF UuidInv
    <3> QED
      BY <1>4, <3>1, <3>2, <3>3, <3>4, <3>5, <3>6, <3>7 DEF Watch
  <2>4. \A x \in Items : external'[x] <= given
    <3>1. CASE sweepErase
      BY <1>0, <1>a, <3>1, BoundsAssumption DEF sweepErase, erase, ExtensionTypeOK
    <3>2. CASE UNCHANGED external
      BY <1>a, <3>2
    <3> QED
      BY <1>4, <3>1, <3>2 DEF Watch, round, check, sweep, sweepCollect, sweepUnregister
  <2> QED
    BY <1>0, <2>1, <2>2, <2>3, <2>4 DEF UuidInv
<1> QED
  BY <1>1, <1>2, <1>3, <1>4, Kinds

-----------------------------------------------------------------------------
(* The routes *)

\* What a step of p may do to the items: take them from their owners, or give them
\* to the uuid that p registers.
GivesOnly(p) ==
  \A x \in Items : \/ external'[x] \in {external[x], NoUuid}
                   \/ Open(p) /\ external'[x] = call[p].uuid

\* Whoever has collected the items of a uuid has still collected all of them.
LEMMA ErasersKept ==
  ASSUME ExtensionInv, NEW p \in Extensions, Others(p), watch' = watch,
         GivesOnly(p), ErasesAll(p)'
  PROVE  (\A q \in Extensions : ErasesAll(q)') /\ SweepsAll'
<1>0. RouteInv /\ UuidInv
  BY DEF ExtensionInv
<1>1. ASSUME NEW q \in Extensions, q # p PROVE ErasesAll(q)'
  <2>1. call'[q] = call[q] /\ ErasesAll(q)
    BY <1>0, <1>1 DEF Others, RouteInv
  <2>2. CASE call[q].pc \in {"erase", "insert", "unregister"}
    <3>1. call[q].uuid # NoUuid /\ call[q].uuid \in Mine(q)
      BY <2>2, UuidOfCall, BoundsAssumption DEF Mine, Uuids
    <3>2. Open(p) => call[p].uuid # call[q].uuid
      BY <1>1, <3>1, OwnUuid
    <3>3. itemsOf(call[q].uuid)' \subseteq itemsOf(call[q].uuid)
      BY <2>1, <3>1, <3>2 DEF itemsOf, GivesOnly
    <3> QED
      BY <2>1, <3>3 DEF ErasesAll
  <2> QED
    BY <2>1, <2>2 DEF ErasesAll
<1>2. SweepsAll'
  <2>1. CASE watch.pc \in {"erase", "unregister"}
    <3>1. watch.uuid \in Closed
      BY <1>0, <2>1 DEF UuidInv
    <3>2. watch.uuid # NoUuid /\ (Open(p) => call[p].uuid # watch.uuid)
      BY <3>1 DEF Closed
    <3>3. itemsOf(watch.uuid)' \subseteq itemsOf(watch.uuid)
      BY <3>2 DEF itemsOf, GivesOnly
    <3> QED
      BY <1>0, <3>3 DEF SweepsAll, RouteInv
  <2> QED
    BY <2>1 DEF SweepsAll
<1> QED
  BY <1>1, <1>2

\* Items are given to a uuid that is being added, a uuid that is removed has none,
\* and one that is no longer being added is known or has none.
LeavesOwners(p) ==
  /\ partial \subseteq partial' /\ Others(p)
  /\ \A x \in Items : \/ external'[x] \in {external[x], NoUuid}
                      \/ Adding(p)' /\ external'[x] = call'[p].uuid
  /\ \A u \in exts : u \in exts' \/ itemsOf(u) = {}
  /\ Adding(p) => \/ Adding(p)' /\ call'[p].uuid = call[p].uuid
                  \/ call[p].uuid \in exts' \cup partial'
                  \/ itemsOf(call[p].uuid) = {}

\* Then every route still has an owner.
LEMMA OwnersKept ==
  ASSUME ExtensionInv, NEW p \in Extensions, LeavesOwners(p)
  PROVE  RoutesHaveOwner'
<1>0. RoutesHaveOwner
  BY DEF ExtensionInv, RouteInv
<1> SUFFICES ASSUME NEW x \in Items, external'[x] # NoUuid,
                    external'[x] \notin exts' \cup partial'
             PROVE  \E q \in Extensions : Adding(q)' /\ call'[q].uuid = external'[x]
  BY DEF RoutesHaveOwner
<1>1. CASE Adding(p)' /\ external'[x] = call'[p].uuid
  BY <1>1
<1>2. CASE external'[x] = external[x]
  <2>1. x \in itemsOf(external[x])
    BY DEF itemsOf
  <2>2. external[x] \notin exts \cup partial
    BY <1>2, <2>1 DEF LeavesOwners
  <2>3. PICK q \in Extensions : Adding(q) /\ call[q].uuid = external[x]
    BY <1>0, <1>2, <2>2 DEF RoutesHaveOwner
  <2>4. CASE q = p
    BY <1>2, <2>1, <2>3, <2>4 DEF LeavesOwners
  <2>5. CASE q # p
    BY <1>2, <2>3, <2>5 DEF LeavesOwners, Others, Adding
  <2> QED
    BY <2>4, <2>5
<1> QED
  BY <1>1, <1>2 DEF LeavesOwners

\* Every step keeps the routes owned.
LEMMA StepRoute ==
  ASSUME ExtensionInv, [ExtensionNext]_extensionVars
  PROVE  RouteInv'
<1>0. ExtensionTypeOK /\ UuidInv /\ CallInv /\ RouteInv
  BY DEF ExtensionInv
<1>a. ASSUME NEW p \in Extensions, Others(p), watch' = watch,
             UNCHANGED external, RoutesHaveOwner', ErasesAll(p)'
      PROVE  RouteInv'
  BY <1>a, ErasersKept DEF RouteInv, GivesOnly
<1>1. ASSUME NEW p \in Extensions, Quiet(p) PROVE RouteInv'
  <2>1. ErasesAll(p)'
    BY <1>0, <1>1 DEF Quiet, ErasesAll, RouteInv, itemsOf
  <2>2. Adding(p) => \/ Adding(p)' /\ call'[p].uuid = call[p].uuid
                     \/ call[p].uuid \in exts' \cup partial'
    BY <1>1 DEF Quiet, Adding
  <2>3. RoutesHaveOwner'
    <3>1. LeavesOwners(p)
      BY <1>1, <2>2 DEF Quiet, LeavesOwners
    <3> QED
      BY <3>1, OwnersKept
  <2> QED
    BY <1>1, <1>a, <2>1, <2>3 DEF Quiet
<1>2. ASSUME NEW p \in Extensions, Named(p) PROVE RouteInv'
  <2>1. ErasesAll(p)' /\ ~Adding(p)
    BY <1>2 DEF Named, Moved, ErasesAll, Adding
  <2>2. RoutesHaveOwner'
    <3>1. LeavesOwners(p)
      BY <1>2, <2>1 DEF Named, Moved, LeavesOwners
    <3> QED
      BY <3>1, OwnersKept
  <2> QED
    BY <1>2, <1>a, <2>1, <2>2 DEF Named, Moved
<1>3. ASSUME NEW p \in Extensions, NEW x \in Items, Looked(p, x) PROVE RouteInv'
  <2>1. ErasesAll(p)' /\ ~Adding(p)
    BY <1>3 DEF Looked, Moved, ErasesAll, Adding
  <2>2. RoutesHaveOwner'
    <3>1. LeavesOwners(p)
      BY <1>3, <2>1 DEF Looked, Moved, Same, LeavesOwners
    <3> QED
      BY <3>1, OwnersKept
  <2> QED
    BY <1>3, <1>a, <2>1, <2>2 DEF Looked, Moved, Same
<1>4. ASSUME NEW p \in Extensions, NEW x \in Items, Routed(p, x) PROVE RouteInv'
  <2>1. ErasesAll(p)' /\ Adding(p)' /\ call'[p].uuid = call[p].uuid
    BY <1>4 DEF Routed, Moved, ErasesAll, Adding
  <2>2. RoutesHaveOwner'
    <3>1. LeavesOwners(p)
      BY <1>4, <2>1 DEF Routed, Moved, Same, LeavesOwners
    <3> QED
      BY <3>1, OwnersKept
  <2> QED
    BY <1>4, <1>a, <2>1, <2>2 DEF Routed, Moved, Same
<1>5. ASSUME NEW p \in Extensions, Tried(p) PROVE RouteInv'
  <2>1. Adding(p)' /\ call'[p].uuid = call[p].uuid /\ Others(p) /\ Open(p)
        /\ UNCHANGED <<watch, partial, exts>>
    BY <1>5 DEF Tried, Attached, NotAttached, Moved, Adding, Same, Open
  <2>2. ErasesAll(p)'
    <3>1. call[p].ok
      BY <1>0, <1>5 DEF CallInv, CallOK, Tried
    <3> QED
      BY <1>5, <3>1 DEF Tried, Attached, NotAttached, Moved, ErasesAll
  <2>3. \A x \in Items : external'[x] \in {external[x], NoUuid} \/ external'[x] = call[p].uuid
    BY <1>0, <1>5 DEF Tried, Attached, NotAttached, ExtensionTypeOK
  <2>4. RoutesHaveOwner'
    <3>1. LeavesOwners(p)
      BY <2>1, <2>3 DEF LeavesOwners
    <3> QED
      BY <3>1, OwnersKept
  <2> QED
    BY <2>1, <2>2, <2>3, <2>4, ErasersKept DEF RouteInv, GivesOnly
<1>6. ASSUME NEW p \in Extensions, Inserted(p) PROVE RouteInv'
  <2>1. ErasesAll(p)' /\ call[p].uuid \in exts'
    BY <1>6 DEF Inserted, Moved, ErasesAll
  <2>2. RoutesHaveOwner'
    <3>1. LeavesOwners(p)
      BY <1>6, <2>1 DEF Inserted, Moved, Same, LeavesOwners
    <3> QED
      BY <3>1, OwnersKept
  <2> QED
    BY <1>6, <1>a, <2>1, <2>2 DEF Inserted, Moved, Same
<1>7. ASSUME NEW p \in Extensions, Refused(p) PROVE RouteInv'
  <2>1. ErasesAll(p)'
    BY <1>7 DEF Refused, ErasesAll, Idle
  <2>2. itemsOf(call[p].uuid) = {} /\ exts \subseteq exts'
    BY <1>0, <1>7 DEF Refused, RouteInv, ErasesAll
  <2>3. RoutesHaveOwner'
    <3>1. LeavesOwners(p)
      BY <1>7, <2>2 DEF Refused, Same, LeavesOwners
    <3> QED
      BY <3>1, OwnersKept
  <2> QED
    BY <1>7, <1>a, <2>1, <2>3 DEF Refused, Same
<1>8. ASSUME NEW p \in Extensions, Collected(p) PROVE RouteInv'
  <2>1. ErasesAll(p)' /\ (Adding(p) => Adding(p)' /\ call'[p].uuid = call[p].uuid)
    BY <1>8 DEF Collected, Moved, ErasesAll, Adding, itemsOf
  <2>2. RoutesHaveOwner'
    <3>1. LeavesOwners(p)
      BY <1>8, <2>1 DEF Collected, Moved, Same, LeavesOwners
    <3> QED
      BY <3>1, OwnersKept
  <2> QED
    BY <1>8, <1>a, <2>1, <2>2 DEF Collected, Moved, Same
<1>9. ASSUME NEW p \in Extensions, Erased(p) PROVE RouteInv'
  <2>1. /\ Adding(p) => Adding(p)' /\ call'[p].uuid = call[p].uuid
        /\ Others(p) /\ UNCHANGED <<watch, partial, exts>>
        /\ call'[p].uuid = call[p].uuid /\ call'[p].pc # "erase"
    BY <1>9 DEF Erased, Moved, Adding, Same
  <2>2. \A x \in Items : external'[x] = IF x \in call[p].todo THEN NoUuid ELSE external[x]
    BY <1>9 DEF Erased, erase
  <2>3. ErasesAll(p)'
    <3>1. call[p].uuid # NoUuid /\ itemsOf(call[p].uuid) \subseteq call[p].todo
      <4>1. call[p].uuid \in Uuids /\ call[p].pc = "erase"
        BY <1>9, UuidOfCall DEF Erased
      <4> QED
        BY <1>0, <4>1, BoundsAssumption DEF Uuids, RouteInv, ErasesAll
    <3>2. itemsOf(call[p].uuid)' = {}
      BY <2>1, <2>2, <3>1 DEF itemsOf
    <3> QED
      BY <2>1, <3>2 DEF ErasesAll
  <2>4. RoutesHaveOwner'
    <3>1. LeavesOwners(p)
      BY <2>1, <2>2 DEF LeavesOwners
    <3> QED
      BY <3>1, OwnersKept
  <2> QED
    BY <2>1, <2>2, <2>3, <2>4, ErasersKept DEF RouteInv, GivesOnly
<1>10. ASSUME NEW p \in Extensions, Unregistered(p) PROVE RouteInv'
  <2>1. ErasesAll(p)' /\ ~Adding(p)
    BY <1>10 DEF Unregistered, Moved, ErasesAll, Adding
  <2>2. itemsOf(call[p].uuid) = {}
    BY <1>0, <1>10 DEF Unregistered, RouteInv, ErasesAll
  <2>3. RoutesHaveOwner'
    <3>1. LeavesOwners(p)
      BY <1>10, <2>1, <2>2 DEF Unregistered, Moved, Same, LeavesOwners
    <3> QED
      BY <3>1, OwnersKept
  <2> QED
    BY <1>10, <1>a, <2>1, <2>3 DEF Unregistered, Moved, Same
<1>11. CASE Watch \/ UNCHANGED extensionVars
  <2>0. UNCHANGED <<call, partial>> /\ watch \in Watches
    BY <1>0, <1>11 DEF Watch, round, check, sweep, sweepCollect, sweepErase, sweepUnregister,
                       ExtensionTypeOK
  <2>1. CASE sweepErase
    <3>1. /\ \A x \in Items : external'[x] = IF x \in watch.items THEN NoUuid ELSE external[x]
          /\ UNCHANGED exts /\ watch'.pc = "unregister" /\ watch'.uuid = watch.uuid
      BY <2>0, <2>1 DEF sweepErase, erase, Watches
    <3>2. watch.uuid # NoUuid /\ itemsOf(watch.uuid) \subseteq watch.items
      BY <1>0, <2>1 DEF UuidInv, RouteInv, SweepsAll, sweepErase, Closed
    <3>3. SweepsAll'
      BY <3>1, <3>2 DEF SweepsAll, itemsOf
    <3>4. ASSUME NEW q \in Extensions PROVE ErasesAll(q)'
      <4>1. ErasesAll(q) /\ call'[q] = call[q]
        BY <1>0, <2>0 DEF RouteInv
      <4>2. CASE call[q].pc \in {"erase", "insert", "unregister"}
        <5>1. call[q].uuid # NoUuid
          BY <4>2, UuidOfCall, BoundsAssumption DEF Uuids
        <5>2. itemsOf(call[q].uuid)' \subseteq itemsOf(call[q].uuid)
          BY <3>1, <4>1, <5>1 DEF itemsOf
        <5> QED
          BY <4>1, <5>2 DEF ErasesAll
      <4> QED
        BY <4>1, <4>2 DEF ErasesAll
    <3>5. RoutesHaveOwner'
      BY <1>0, <2>0, <3>1 DEF RouteInv, RoutesHaveOwner, Adding
    <3> QED
      BY <3>3, <3>4, <3>5 DEF RouteInv
  <2>2. CASE ~sweepErase
    <3>1. UNCHANGED external
      BY <1>11, <2>2 DEF Watch, round, check, sweep, sweepCollect, sweepUnregister
    <3>2. \A q \in Extensions : ErasesAll(q)'
      BY <1>0, <2>0, <3>1 DEF RouteInv, ErasesAll, itemsOf
    <3>3. SweepsAll'
      <4>1. CASE sweepCollect
        BY <2>0, <3>1, <4>1 DEF sweepCollect, SweepsAll, itemsOf, Watches
      <4>2. CASE sweepUnregister
        BY <2>0, <4>2 DEF sweepUnregister, SweepsAll, Watches
      <4>3. CASE round
        BY <2>0, <4>3 DEF round, SweepsAll, Watches
      <4>4. ASSUME NEW u \in Uuids, check(u) PROVE SweepsAll'
        BY <2>0, <4>4 DEF check, SweepsAll, Watches
      <4>5. ASSUME NEW u \in Uuids, sweep(u) PROVE SweepsAll'
        BY <2>0, <4>5 DEF sweep, SweepsAll, Watches
      <4>6. CASE UNCHANGED extensionVars
        BY <1>0, <4>6 DEF RouteInv, SweepsAll, itemsOf
      <4> QED
        BY <1>11, <2>2, <4>1, <4>2, <4>3, <4>4, <4>5, <4>6 DEF Watch
    <3>4. RoutesHaveOwner'
      <4>1. \A u \in exts : u \in exts' \/ itemsOf(u) = {}
        BY <1>0, <1>11, <2>2 DEF Watch, round, check, sweep, sweepCollect, sweepUnregister,
                                 RouteInv, SweepsAll
      <4>2. \A x \in Items : external[x] \in exts => external[x] \in exts'
        BY <4>1 DEF itemsOf
      <4> QED
        BY <1>0, <2>0, <3>1, <4>2 DEF RouteInv, RoutesHaveOwner, Adding
    <3> QED
      BY <3>2, <3>3, <3>4 DEF RouteInv
  <2> QED
    BY <2>1, <2>2
<1> QED
  BY <1>1, <1>2, <1>3, <1>4, <1>5, <1>6, <1>7, <1>8, <1>9, <1>10, <1>11, Kinds DEF Kind

-----------------------------------------------------------------------------
(* The watcher *)

\* What the watcher may have noted of a uuid.
Fair(u) ==
  /\ failures[u] # 0 => ~Coming(u)
  /\ failures[u] = 2 => \A p \in Extensions : id[p] = u => proc[p] # "serving"

\* A step of p that lets nobody come or serve anew, with the watcher's notes as they
\* were.
LEMMA NotesKept ==
  ASSUME ExtensionInv, UNCHANGED <<failures, watch, slow>>,
         \A u \in Uuids \ slow : failures[u] # 0 => ~Coming(u)',
         \A u \in Uuids \ slow : failures[u] = 2 =>
           \A p \in Extensions : id'[p] = u => proc'[p] # "serving",
         \A p \in Extensions : Ready(p)' => call'[p].uuid \in exts',
         \A p \in Extensions : Live(p)' => id'[p] \in exts'
  PROVE  WatchInv'
BY DEF ExtensionInv, WatchInv

\* A step of a call that goes on: only its place is new.
LEMMA PlaceMoves ==
  ASSUME ExtensionInv, NEW p \in Extensions, Others(p),
         UNCHANGED <<proc, id, failures, watch, slow>>,
         call'[p].op = call[p].op, call'[p].uuid = call[p].uuid,
         call'[p].pc = "list" => call[p].uuid \in exts',
         \A u \in exts : u \in exts' \/ (u \in Mine(p) /\ call[p].op = "deregister")
  PROVE  WatchInv'
<1>0. WatchInv /\ UuidInv /\ CallInv /\ ExtensionTypeOK
  BY DEF ExtensionInv
<1>1. \A q \in Extensions : call'[q].uuid = call[q].uuid /\ call'[q].op = call[q].op
                            /\ (q # p => call'[q].pc = call[q].pc)
  BY DEF Others
<1>2. \A u \in Uuids : Coming(u)' => Coming(u)
  BY <1>1 DEF Coming
<1>3. ASSUME NEW q \in Extensions, Ready(q)' PROVE call'[q].uuid \in exts'
  <2>1. CASE q = p
    BY <1>3, <2>1 DEF Ready
  <2>2. CASE q # p
    <3>1. Ready(q) /\ call[q].uuid \in exts
      BY <1>0, <1>1, <1>3, <2>2 DEF Ready, WatchInv
    <3>2. call[q].uuid \in Mine(q)
      BY <1>0, <3>1, BoundsAssumption DEF Mine, ExtensionTypeOK, Uuids
    <3>3. call[q].uuid \notin Mine(p)
      BY <1>0, <2>2, <3>2 DEF UuidInv
    <3> QED
      BY <1>1, <3>1, <3>3
  <2> QED
    BY <2>1, <2>2
<1>4. ASSUME NEW q \in Extensions, Live(q)' PROVE id'[q] \in exts'
  <2>1. Live(q) /\ id[q] \in exts
    BY <1>0, <1>4 DEF Live, WatchInv
  <2>2. CASE q = p
    <3>1. call[p].op # "deregister"
      BY <1>0, <2>1, <2>2 DEF CallInv, CallOK, Live
    <3> QED
      BY <2>1, <2>2, <3>1
  <2>3. CASE q # p
    <3>2. id[q] \in Mine(q)
      BY <1>0, <2>1, BoundsAssumption DEF Mine, ExtensionTypeOK, Uuids
    <3>3. id[q] \notin Mine(p)
      BY <1>0, <2>3, <3>2 DEF UuidInv
    <3> QED
      BY <2>1, <3>3
  <2> QED
    BY <2>2, <2>3
<1>5. /\ \A u \in Uuids \ slow : failures[u] # 0 => ~Coming(u)'
      /\ \A u \in Uuids \ slow : failures[u] = 2 =>
           \A q \in Extensions : id'[q] = u => proc'[q] # "serving"
  BY <1>0, <1>2 DEF WatchInv
<1> QED
  BY <1>3, <1>4, <1>5, NotesKept

\* Every step keeps the watcher's notes true.
LEMMA StepWatch ==
  ASSUME ExtensionInv, [ExtensionNext]_extensionVars
  PROVE  WatchInv'
<1>0. ExtensionTypeOK /\ UuidInv /\ CallInv /\ WatchInv
  BY DEF ExtensionInv
<1>a. \A u \in Uuids : u # NoUuid
  BY BoundsAssumption DEF Uuids
<1>1. ASSUME NEW p \in Extensions, Quiet(p) PROVE WatchInv'
  <2>0. UNCHANGED <<failures, watch, slow, exts>> /\ Others(p)
    BY <1>1 DEF Quiet
  <2>1. ASSUME NEW u \in Uuids, Coming(u)' PROVE Coming(u)
    <3>1. PICK q \in Extensions : \/ id'[q] = u /\ proc'[q] = "registered"
                                  \/ call'[q].uuid = u /\ proc'[q] = "joining"
      BY <2>1 DEF Coming
    <3>2. CASE q # p
      BY <2>0, <3>1, <3>2 DEF Others, Coming
    <3>3. CASE q = p
      BY <1>1, <1>a, <3>1, <3>3 DEF Quiet, Coming
    <3> QED
      BY <3>2, <3>3
  <2>2. ASSUME NEW u \in Uuids \ slow, failures[u] = 2, NEW q \in Extensions, id'[q] = u
        PROVE  proc'[q] # "serving"
    <3>1. ~Coming(u) /\ (id[q] = u => proc[q] # "serving")
      BY <1>0, <2>2 DEF WatchInv
    <3>2. CASE q # p
      BY <2>0, <2>2, <3>1, <3>2 DEF Others
    <3>3. CASE q = p
      BY <1>1, <2>2, <3>1, <3>3 DEF Quiet, Coming
    <3> QED
      BY <3>2, <3>3
  <2>3. ASSUME NEW q \in Extensions, Ready(q)' PROVE call'[q].uuid \in exts'
    <3>1. call'[q] = call[q] /\ Ready(q)
      BY <1>1, <2>0, <2>3 DEF Quiet, Others, Ready
    <3> QED
      BY <1>0, <2>0, <3>1 DEF WatchInv
  <2>4. ASSUME NEW q \in Extensions, Live(q)' PROVE id'[q] \in exts'
    <3>1. \/ Live(q) /\ id'[q] = id[q]
          \/ Ready(q) /\ id'[q] = call[q].uuid
      BY <1>1, <2>0, <2>4 DEF Quiet, Others, Ready, Live
    <3> QED
      BY <1>0, <2>0, <3>1 DEF WatchInv
  <2>5. /\ \A u \in Uuids \ slow : failures[u] # 0 => ~Coming(u)'
        /\ \A u \in Uuids \ slow : failures[u] = 2 =>
             \A q \in Extensions : id'[q] = u => proc'[q] # "serving"
    BY <1>0, <2>1, <2>2 DEF WatchInv
  <2> QED
    BY <2>0, <2>3, <2>4, <2>5, NotesKept
<1>2. ASSUME NEW p \in Extensions, Named(p) PROVE WatchInv'
  <2>0. UNCHANGED <<failures, watch, slow, exts, id, proc>> /\ Others(p)
        /\ call'[p].uuid = given + 1 /\ call'[p].pc = "conflicts" /\ given \in Nat
    BY <1>0, <1>2, BoundsAssumption DEF Named, Moved, ExtensionTypeOK
  <2>1. ASSUME NEW u \in Uuids \ slow, failures[u] # 0 PROVE ~Coming(u)'
    <3>1. u # given + 1 /\ ~Coming(u)
      BY <1>0, <2>0, <2>1 DEF UuidInv, Closed, WatchInv
    <3> QED
      BY <2>0, <3>1 DEF Coming, Others
  <2>2. \A q \in Extensions : Ready(q)' => call'[q].uuid \in exts'
    BY <1>0, <2>0 DEF Ready, Others, WatchInv
  <2>3. \A q \in Extensions : Live(q)' => id'[q] \in exts'
    BY <1>0, <2>0 DEF Live, WatchInv
  <2>4. \A u \in Uuids \ slow : failures[u] = 2 =>
             \A q \in Extensions : id'[q] = u => proc'[q] # "serving"
    BY <1>0, <2>0 DEF WatchInv
  <2> QED
    BY <2>0, <2>1, <2>2, <2>3, <2>4, NotesKept
<1>3. ASSUME NEW p \in Extensions, NEW x \in Items, Looked(p, x) PROVE WatchInv'
  BY <1>3, PlaceMoves DEF Looked, Moved, Same
<1>4. ASSUME NEW p \in Extensions, NEW x \in Items, Routed(p, x) PROVE WatchInv'
  BY <1>4, PlaceMoves DEF Routed, Moved, Same
<1>5. ASSUME NEW p \in Extensions, Tried(p) PROVE WatchInv'
  <2>1. /\ Others(p) /\ UNCHANGED <<proc, id, failures, watch, slow, exts>>
        /\ call'[p].op = call[p].op /\ call'[p].uuid = call[p].uuid /\ call'[p].pc # "list"
    BY <1>5 DEF Tried, Attached, NotAttached, Moved, Same
  <2> QED
    BY <2>1, PlaceMoves
<1>6. ASSUME NEW p \in Extensions, Inserted(p) PROVE WatchInv'
  BY <1>6, PlaceMoves DEF Inserted, Moved, Same
<1>7. ASSUME NEW p \in Extensions, Refused(p) PROVE WatchInv'
  <2>0. UNCHANGED <<failures, watch, slow>> /\ Others(p) /\ exts \subseteq exts'
        /\ proc'[p] = "off"
    BY <1>7 DEF Refused, Same
  <2>1. \A u \in Uuids : Coming(u)' => Coming(u)
    BY <2>0 DEF Others, Coming
  <2>2. \A q \in Extensions : Ready(q)' => call'[q].uuid \in exts'
    BY <1>0, <2>0 DEF Ready, Others, WatchInv
  <2>3. \A q \in Extensions : Live(q)' => id'[q] \in exts'
    BY <1>0, <2>0 DEF Live, Others, WatchInv
  <2>4. /\ \A u \in Uuids \ slow : failures[u] # 0 => ~Coming(u)'
        /\ \A u \in Uuids \ slow : failures[u] = 2 =>
             \A q \in Extensions : id'[q] = u => proc'[q] # "serving"
    BY <1>0, <2>0, <2>1 DEF WatchInv, Others
  <2> QED
    BY <2>0, <2>2, <2>3, <2>4, NotesKept
<1>8. ASSUME NEW p \in Extensions, Collected(p) PROVE WatchInv'
  BY <1>8, PlaceMoves DEF Collected, Moved, Same
<1>9. ASSUME NEW p \in Extensions, Erased(p) PROVE WatchInv'
  <2>1. /\ Others(p) /\ UNCHANGED <<proc, id, failures, watch, slow, exts>>
        /\ call'[p].op = call[p].op /\ call'[p].uuid = call[p].uuid /\ call'[p].pc # "list"
    BY <1>9 DEF Erased, Moved, Same
  <2> QED
    BY <2>1, PlaceMoves
<1>10. ASSUME NEW p \in Extensions, Unregistered(p) PROVE WatchInv'
  <2>1. call[p].uuid \in Mine(p)
    BY <1>10, <1>a, UuidOfCall DEF Unregistered, Mine
  <2>2. \A u \in exts : u \in exts' \/ (u \in Mine(p) /\ call[p].op = "deregister")
    BY <1>10, <2>1 DEF Unregistered
  <2> QED
    BY <1>10, <2>2, PlaceMoves DEF Unregistered, Moved, Same
<1>11. CASE Watch
  <2>0. UNCHANGED <<call, proc, id>> /\ watch \in Watches /\ failures \in [Uuids -> 0..2]
        /\ slow \subseteq slow'
    BY <1>0, <1>11 DEF Watch, round, check, sweep, sweepCollect, sweepErase, sweepUnregister,
                       ExtensionTypeOK
  <2>a. \A u \in Uuids : (Coming(u)' <=> Coming(u))
    BY <2>0 DEF Coming
  <2>b. \A p \in Extensions : (Ready(p)' => Ready(p)) /\ (Live(p)' => Live(p))
    BY <2>0 DEF Ready, Live
  <2>c. ASSUME exts' = exts,
               \A u \in Uuids \ slow' : Fair(u)',
               watch'.pc # "check" => failures'[watch'.uuid] = 2
        PROVE  WatchInv'
    BY <1>0, <2>0, <2>b, <2>c DEF WatchInv, Fair
  <2>d. \A u \in Uuids \ slow : Fair(u)
    BY <1>0 DEF WatchInv, Fair
  <2>1. ASSUME NEW u \in Uuids, check(u) PROVE WatchInv'
    <3>0. watch'.pc = "check" /\ exts' = exts
          /\ \A v \in Uuids \ {u} : failures'[v] = failures[v]
      BY <2>0, <2>1 DEF check, Watches
    <3>1. \A v \in Uuids \ slow' : v # u => Fair(v)'
      BY <2>0, <2>a, <2>d, <3>0 DEF Fair
    <3>2. ASSUME u \notin slow' PROVE Fair(u)'
      <4>0. u \notin slow /\ Fair(u)
        BY <2>0, <2>d, <3>2
      <4>1. CASE answers(u)
        <5>1. failures'[u] = 1
          BY <2>0, <2>1, <3>2, <4>1 DEF check
        <5>2. ~Coming(u)
          <6>1. PICK p \in Extensions : id[p] = u /\ proc[p] \in {"serving", "leaving"}
            BY <4>1 DEF answers
          <6>2. SUFFICES ASSUME NEW q \in Extensions, u \in {id[q], call[q].uuid},
                                proc[q] \in {"registered", "joining"}
                         PROVE  FALSE
            BY DEF Coming
          <6>3. u \in Mine(p) /\ u \in Mine(q)
            BY <1>a, <6>1, <6>2 DEF Mine
          <6>4. p = q
            BY <1>0, <6>3 DEF UuidInv
          <6> QED
            BY <6>1, <6>2, <6>4
        <5> QED
          BY <2>a, <5>1, <5>2 DEF Fair
      <4>2. CASE ~answers(u)
        <5>1. ~latent(u) /\ failures'[u] = 2
          BY <2>0, <2>1, <3>2, <4>2 DEF check
        <5>2. ~Coming(u)
          BY <4>0, <5>1 DEF latent, Fair
        <5>3. \A p \in Extensions : id[p] = u => proc[p] # "serving"
          BY <4>2 DEF answers
        <5> QED
          BY <2>0, <2>a, <5>2, <5>3 DEF Fair
      <4> QED
        BY <4>1, <4>2
    <3> QED
      BY <2>c, <3>0, <3>1, <3>2
  <2>2. ASSUME NEW u \in Uuids, sweep(u) PROVE WatchInv'
    <3>0. failures[u] = 2 /\ exts' = exts /\ slow' = slow /\ watch.pc = "check"
      BY <2>0, <2>2 DEF sweep, hasFailed
    <3>1. CASE u \in exts
      <4>1. failures' = failures /\ watch'.uuid = u
        BY <2>0, <2>2, <3>1 DEF sweep, Watches
      <4>2. \A v \in Uuids \ slow' : Fair(v)'
        BY <2>0, <2>a, <2>d, <3>0, <4>1 DEF Fair
      <4> QED
        BY <2>c, <3>0, <4>1, <4>2
    <3>2. CASE u \notin exts
      <4>1. failures' = [failures EXCEPT ![u] = 1] /\ watch' = watch
        BY <2>2, <3>2 DEF sweep
      <4>2. \A v \in Uuids \ slow' : Fair(v)'
        <5> SUFFICES ASSUME NEW v \in Uuids \ slow PROVE Fair(v)'
          BY <3>0
        <5>1. CASE v = u
          <6>1. failures'[v] = 1 /\ ~Coming(v)
            BY <2>0, <2>d, <3>0, <4>1, <5>1 DEF Fair
          <6> QED
            BY <2>a, <6>1 DEF Fair
        <5>2. CASE v # u
          BY <2>0, <2>a, <2>d, <4>1, <5>2 DEF Fair
        <5> QED
          BY <5>1, <5>2
      <4> QED
        BY <2>c, <3>0, <4>1, <4>2
    <3> QED
      BY <3>1, <3>2
  <2>3. CASE sweepCollect \/ sweepErase
    <3>1. UNCHANGED <<exts, failures, slow>> /\ watch'.uuid = watch.uuid /\ watch.pc # "check"
      BY <2>0, <2>3 DEF sweepCollect, sweepErase, Watches
    <3>2. \A v \in Uuids \ slow' : Fair(v)'
      BY <2>0, <2>a, <2>d, <3>1 DEF Fair
    <3> QED
      BY <1>0, <2>c, <3>1, <3>2 DEF WatchInv
  <2>4. CASE round
    <3>1. UNCHANGED <<exts, failures, slow>> /\ watch'.pc = "check"
      BY <2>0, <2>4 DEF round, Watches
    <3>2. \A v \in Uuids \ slow' : Fair(v)'
      BY <2>0, <2>a, <2>d, <3>1 DEF Fair
    <3> QED
      BY <2>c, <3>1, <3>2
  <2>5. CASE sweepUnregister
    <3>0. /\ exts' = exts \ {watch.uuid} /\ slow' = slow /\ watch'.pc = "check"
          /\ failures' = [failures EXCEPT ![watch.uuid] = 1]
      BY <2>0, <2>5 DEF sweepUnregister, Watches
    <3>1. failures[watch.uuid] = 2 /\ watch.uuid \in Uuids
      <4>1. watch.pc # "check" /\ watch.uuid \in Closed
        BY <1>0, <2>5 DEF sweepUnregister, UuidInv
      <4>2. Closed \subseteq Uuids
        BY <1>0, BoundsAssumption DEF Closed, Uuids, ExtensionTypeOK
      <4> QED
        BY <1>0, <4>1, <4>2 DEF WatchInv
    <3>2. \A v \in Uuids \ slow' : Fair(v)'
      <4> SUFFICES ASSUME NEW v \in Uuids \ slow PROVE Fair(v)'
        BY <3>0
      <4>1. CASE v = watch.uuid
        <5>1. failures'[v] = 1 /\ ~Coming(v)
          BY <2>0, <2>d, <3>0, <3>1, <4>1 DEF Fair
        <5> QED
          BY <2>a, <5>1 DEF Fair
      <4>2. CASE v # watch.uuid
        BY <2>0, <2>a, <2>d, <3>0, <4>2 DEF Fair
      <4> QED
        BY <4>1, <4>2
    <3>3. ASSUME NEW p \in Extensions, Ready(p)' PROVE call'[p].uuid \in exts'
      <4>1. Ready(p) /\ call[p].uuid \in exts /\ call[p].uuid \notin slow
        BY <1>0, <2>b, <3>3 DEF WatchInv, Ready
      <4>2. Coming(call[p].uuid)
        BY <4>1 DEF Coming, Ready
      <4>3. call[p].uuid # watch.uuid
        BY <2>d, <3>1, <4>1, <4>2 DEF Fair
      <4> QED
        BY <2>0, <3>0, <4>1, <4>3
    <3>4. ASSUME NEW p \in Extensions, Live(p)' PROVE id'[p] \in exts'
      <4>1. Live(p) /\ id[p] \in exts /\ id[p] \notin slow
        BY <1>0, <2>b, <3>4 DEF WatchInv, Live
      <4>2. id[p] # watch.uuid
        BY <2>d, <3>1, <4>1 DEF Fair, Live, Coming
      <4> QED
        BY <2>0, <3>0, <4>1, <4>2
    <3> QED
      BY <3>0, <3>2, <3>3, <3>4 DEF WatchInv, Fair
  <2> QED
    BY <1>11, <2>1, <2>2, <2>3, <2>4, <2>5 DEF Watch
<1>12. CASE UNCHANGED extensionVars
  BY <1>0, <1>12 DEF WatchInv, Coming, Ready, Live
<1> QED
  BY <1>1, <1>2, <1>3, <1>4, <1>5, <1>6, <1>7, <1>8, <1>9, <1>10, <1>11, <1>12, Kinds DEF Kind

-----------------------------------------------------------------------------
(* The items *)

\* A step that does not disturb what q has to do with x, or x itself.
Undisturbed(q, x) ==
  /\ Checked(q, x)' => Checked(q, x) /\ (Attaching(q, x) => Attaching(q, x)')
  /\ Attaching(q, x)' => Attaching(q, x)
  /\ Holds(q, x)' => Holds(q, x) /\ Own(q)' = Own(q)

Untouched(x) ==
  external'[x] = external[x] /\ (x \in routes' <=> x \in routes) /\ (Erasing(x)' => Erasing(x))

\* Then x is as it should be after the step as well.
LEMMA ItemKept ==
  ASSUME ExtensionInv, NEW x \in Items \ raced, Untouched(x),
         \A q \in Extensions : Undisturbed(q, x)
  PROVE  \A q \in Extensions : ItemOK(q, x)'
<1> SUFFICES ASSUME NEW q \in Extensions PROVE ItemOK(q, x)'
  OBVIOUS
<1>1. ItemOK(q, x)
  BY DEF ExtensionInv, ItemInv
<1> QED
  BY <1>1 DEF ItemOK, Untouched, Undisturbed

\* A step of p disturbs nobody else directly.
LEMMA OthersUndisturbed ==
  ASSUME NEW p \in Extensions, Others(p), slow' = slow, NEW q \in Extensions \ {p}, NEW x
  PROVE  Undisturbed(q, x)
BY DEF Others, Undisturbed, Checked, Attaching, Holds, Ready, Live, Own

\* Whoever attaches an item has checked it.
LEMMA AttachingChecked ==
  ASSUME ExtensionInv, NEW p \in Extensions, NEW x, Attaching(p, x)
  PROVE  Checked(p, x) /\ x \notin Unknown /\ call[p].op = "register"
<1>1. CallOK(p) /\ call[p].pc = "attach"
      /\ call[p].op \in {"none", "register", "extensions", "deregister"}
  BY CallFields DEF ExtensionInv, CallInv, Attaching
<1> QED
  BY <1>1 DEF CallOK, Open, Checked, Attaching

\* Whoever holds an item has a uuid for it.
LEMMA HolderOwns ==
  ASSUME ExtensionInv, NEW p \in Extensions, NEW x, Holds(p, x)
  PROVE  /\ Own(p) # NoUuid /\ Own(p) \in Mine(p)
         /\ Open(p) \/ Ready(p) \/ (Live(p) /\ Own(p) = id[p])
<1>1. CallOK(p)
  BY DEF ExtensionInv, CallInv
<1>2. CASE call[p].op = "register"
  BY <1>1, <1>2 DEF Holds, CallOK, Unnamed, Own, Mine, Live, Open, Ready
<1>3. CASE call[p].op # "register"
  BY <1>1, <1>3 DEF Holds, CallOK, Own, Mine, Live, Ready
<1> QED
  BY <1>2, <1>3

\* Items that a thread has collected and erases.
LEMMA ErasingKeeps ==
  ASSUME ExtensionInv, NEW S, erase(S), \A x \in S : Erasing(x),
         NEW x \in Items \ raced, Erasing(x)' => Erasing(x),
         \A q \in Extensions : Undisturbed(q, x)
  PROVE  \A q \in Extensions : ItemOK(q, x)'
<1>1. CASE x \notin S
  <2>1. Untouched(x)
    BY <1>1 DEF Untouched, erase
  <2> QED
    BY <2>1, ItemKept
<1>2. CASE x \in S
  <2>1. external'[x] = NoUuid /\ x \notin routes' /\ Erasing(x)
    BY <1>2 DEF erase
  <2>2. ASSUME NEW q \in Extensions PROVE ItemOK(q, x)'
    <3>1. ItemOK(q, x) /\ Undisturbed(q, x)
      BY DEF ExtensionInv, ItemInv
    <3>2. ~Attaching(q, x)' /\ ~Holds(q, x)'
      BY <2>1, <3>1 DEF ItemOK, Undisturbed
    <3> QED
      BY <2>1, <3>2 DEF ItemOK
  <2> QED
    BY <2>2
<1> QED
  BY <1>1, <1>2

\* A step of p to a place where it neither checks nor holds an item.
LEMMA LeavesItems ==
  ASSUME ExtensionInv, NEW p \in Extensions, Others(p), slow' = slow,
         UNCHANGED <<external, routes, raced, watch>>,
         \A x \in Items : ~Checked(p, x)' /\ ~Attaching(p, x)' /\ ~Holds(p, x)',
         call'[p].pc # "erase"
  PROVE  ItemInv'
<1>0. ItemInv
  BY DEF ExtensionInv
<1>1. ASSUME NEW x \in Items \ raced PROVE \A q \in Extensions : ItemOK(q, x)'
  <2>1. \A q \in Extensions : Undisturbed(q, x)
    BY OthersUndisturbed DEF Undisturbed
  <2>2. Untouched(x)
    BY DEF Untouched, Erasing, Others
  <2> QED
    BY <2>1, <2>2, ItemKept
<1> QED
  BY <1>0, <1>1 DEF ItemInv

\* Every step keeps the items with their owners.
LEMMA StepItem ==
  ASSUME ExtensionInv, CallInv', [ExtensionNext]_extensionVars
  PROVE  ItemInv'
<1>0. ExtensionTypeOK /\ UuidInv /\ CallInv /\ ItemInv
  BY DEF ExtensionInv
<1>a. ASSUME NEW p \in Extensions, call'[p].op = "register" PROVE ~Live(p)'
  BY <1>a DEF CallInv, CallOK, Live
<1>1. ASSUME NEW p \in Extensions, Quiet(p) PROVE ItemInv'
  <2>0. UNCHANGED <<external, routes, raced, watch, slow>> /\ Others(p)
    BY <1>1 DEF Quiet
  <2>1. ASSUME NEW x \in Items \ raced PROVE \A q \in Extensions : ItemOK(q, x)'
    <3>1. Undisturbed(p, x)
      <4>1. Checked(p, x)' => Checked(p, x) /\ (Attaching(p, x) => Attaching(p, x)')
        BY <1>1 DEF Quiet, Checked, Attaching, Open
      <4>2. Attaching(p, x)' => Attaching(p, x)
        BY <1>1 DEF Quiet, Attaching
      <4>3. Holds(p, x)' => Holds(p, x) /\ Own(p)' = Own(p)
        <5>1. CASE call'[p].op = "register"
          <6>1. Holds(p, x)' => call'[p] = call[p] /\ offer'[p] = offer[p]
                                /\ (Ready(p)' => Ready(p))
            BY <1>1, <1>a, <2>0, <5>1 DEF Quiet, Holds, Ready, Open
          <6> QED
            BY <1>a, <5>1, <6>1 DEF Holds, Own
        <5>2. CASE call'[p].op # "register"
          <6>1. Holds(p, x)' => Live(p)' /\ x \in offer'[p]
            BY <5>2 DEF Holds, Ready
          <6>2. Live(p)' => /\ offer'[p] = offer[p]
                            /\ \/ Live(p) /\ id'[p] = id[p]
                               \/ Ready(p) /\ id'[p] = call[p].uuid
            BY <1>1, <2>0 DEF Quiet, Live, Ready
          <6>3. Live(p) => call[p].op # "register"
            BY <1>0 DEF CallInv, CallOK, Live
          <6> QED
            BY <5>2, <6>1, <6>2, <6>3 DEF Holds, Own, Ready
        <5> QED
          BY <5>1, <5>2
      <4> QED
        BY <4>1, <4>2, <4>3 DEF Undisturbed
    <3>2. \A q \in Extensions : Undisturbed(q, x)
      BY <2>0, <3>1, OthersUndisturbed
    <3>3. Untouched(x)
      BY <1>1, <2>0 DEF Untouched, Erasing, Others, Quiet
    <3> QED
      BY <3>2, <3>3, ItemKept
  <2> QED
    BY <1>0, <2>0, <2>1 DEF ItemInv
<1>2. ASSUME NEW p \in Extensions, Named(p) PROVE ItemInv'
  <2>1. \A x \in Items : ~Checked(p, x)' /\ ~Attaching(p, x)' /\ ~Holds(p, x)'
    BY <1>2, <1>a DEF Named, Moved, Checked, Attaching, Holds, Ready
  <2> QED
    BY <1>2, <2>1, LeavesItems DEF Named, Moved
<1>3. ASSUME NEW p \in Extensions, NEW x \in Items, Looked(p, x) PROVE ItemInv'
  <2>0. UNCHANGED <<external, routes, raced, watch, slow>> /\ Others(p)
        /\ call'[p].pc \in {"route", "conflicts"} /\ call[p].pc = "conflicts"
        /\ call'[p].op = "register" /\ call[p].op = "register" /\ offer' = offer
    BY <1>3 DEF Looked, Moved, Same
  <2>1. external[x] = NoUuid /\ x \notin routes
    BY <1>0, <1>3 DEF Looked, existsUnsafe, ItemInv
  <2>2. ASSUME NEW y \in Items \ raced PROVE \A q \in Extensions : ItemOK(q, y)'
    <3>0. ~Attaching(p, y)' /\ ~Attaching(p, y) /\ ~Holds(p, y)'
      BY <1>3, <1>a, <2>0 DEF Attaching, Holds, Ready, Looked, Moved
    <3>1. Checked(p, y)' => y = x \/ Checked(p, y)
      BY <1>3, <2>0 DEF Looked, Moved, Checked
    <3>2. Untouched(y)
      BY <2>0 DEF Untouched, Erasing, Others
    <3>3. CASE y # x
      <4>1. Undisturbed(p, y)
        BY <3>0, <3>1, <3>3 DEF Undisturbed
      <4>2. \A q \in Extensions : Undisturbed(q, y)
        BY <2>0, <4>1, OthersUndisturbed
      <4> QED
        BY <3>2, <4>2, ItemKept
    <3>4. CASE y = x
      <4>1. ItemOK(p, y)'
        BY <2>0, <2>1, <3>0, <3>4 DEF ItemOK
      <4>2. ASSUME NEW q \in Extensions, q # p PROVE ItemOK(q, y)'
        <5>1. ItemOK(q, y) /\ Undisturbed(q, y)
          BY <1>0, <2>0, <4>2, OthersUndisturbed DEF ItemInv
        <5>2. ~Attaching(q, y)
          BY <2>1, <3>4, <5>1 DEF ItemOK
        <5> QED
          BY <3>2, <5>1, <5>2 DEF ItemOK, Undisturbed, Untouched
      <4> QED
        BY <4>1, <4>2
    <3> QED
      BY <3>3, <3>4
  <2> QED
    BY <1>0, <2>0, <2>2 DEF ItemInv
<1>4. ASSUME NEW p \in Extensions, NEW x \in Items, Routed(p, x) PROVE ItemInv'
  <2>0. UNCHANGED <<external, watch, slow>> /\ Others(p) /\ routes' = routes \cup {x}
        /\ call'[p].pc = "attach" /\ call[p].pc = "route" /\ x \notin Unknown
        /\ call'[p].op = "register" /\ call[p].op = "register" /\ offer' = offer
        /\ call'[p].todo = call[p].todo /\ call'[p].item = x /\ x \in call[p].todo
        /\ call'[p].uuid = call[p].uuid
        /\ raced \subseteq raced'
    BY <1>4 DEF Routed, Moved, Same
  <2>1. \A y \in Items : /\ Checked(p, y)' <=> Checked(p, y)
                         /\ Holds(p, y)' => Holds(p, y) /\ Own(p)' = Own(p)
                         /\ Attaching(p, y)' <=> y = x
                         /\ ~Attaching(p, y)
                         /\ Erasing(y)' => Erasing(y)
    <3>1. ~Live(p)' /\ ~Ready(p)'
      BY <1>a, <2>0 DEF Ready
    <3> QED
      BY <2>0, <3>1 DEF Checked, Holds, Own, Attaching, Erasing, Others
  <2>2. ASSUME NEW y \in Items \ raced', y # x PROVE \A q \in Extensions : ItemOK(q, y)'
    <3>1. Undisturbed(p, y)
      BY <2>1, <2>2 DEF Undisturbed
    <3>2. \A q \in Extensions : Undisturbed(q, y)
      BY <2>0, <3>1, OthersUndisturbed
    <3>3. Untouched(y)
      BY <2>0, <2>1, <2>2 DEF Untouched
    <3>4. y \in Items \ raced
      BY <2>0, <2>2
    <3> QED
      BY <3>2, <3>3, <3>4, ItemKept
  <2>3. ASSUME x \notin raced' PROVE \A q \in Extensions : ItemOK(q, x)'
    <3>0. Busy(x) = {p} /\ x \notin watch.items /\ x \notin raced
      BY <1>4, <2>3 DEF Routed
    <3>1. \A q \in Extensions \ {p} :
            ~Checked(q, x) /\ ~(call[q].pc = "erase" /\ x \in call[q].todo)
      BY <3>0 DEF Busy, Checked
    <3>2. ~Erasing(x)'
      BY <2>0, <3>0, <3>1 DEF Erasing, Others
    <3>3. \A q \in Extensions \ {p} : ~Checked(q, x)'
      BY <2>0, <3>1, OthersUndisturbed DEF Undisturbed
    <3>4. Checked(p, x)
      BY <1>0, <2>0 DEF Checked, CallInv, CallOK
    <3>5. ItemOK(p, x)'
      <4>1. ItemOK(p, x)
        BY <1>0, <3>0 DEF ItemInv
      <4> QED
        BY <2>0, <2>1, <3>2, <3>3, <3>4, <4>1 DEF ItemOK
    <3>6. ASSUME NEW q \in Extensions, q # p PROVE ItemOK(q, x)'
      <4>1. ItemOK(q, x) /\ Undisturbed(q, x)
        BY <1>0, <2>0, <3>0, <3>6, OthersUndisturbed DEF ItemInv
      <4>2. ~Attaching(q, x)
        BY <3>1, <3>6, AttachingChecked
      <4> QED
        BY <2>0, <3>2, <3>3, <3>6, <4>1, <4>2 DEF ItemOK, Undisturbed
    <3> QED
      BY <3>5, <3>6
  <2>4. \A y \in Unknown : external'[y] = NoUuid /\ y \notin routes'
    BY <1>0, <2>0 DEF ItemInv
  <2>5. watch'.pc # "erase" => watch'.items = {}
    BY <1>0, <2>0 DEF ItemInv
  <2> QED
    BY <2>2, <2>3, <2>4, <2>5 DEF ItemInv
<1>5. ASSUME NEW p \in Extensions, Tried(p), NotAttached(p) PROVE ItemInv'
  <2>1. \A x \in Items : ~Checked(p, x)' /\ ~Attaching(p, x)' /\ ~Holds(p, x)'
    BY <1>5, <1>a DEF Tried, NotAttached, Moved, Checked, Attaching, Holds, Ready
  <2> QED
    BY <1>5, <2>1, LeavesItems DEF Tried, NotAttached, Moved, Same
<1>6. ASSUME NEW p \in Extensions, Tried(p), Attached(p, call[p].item) PROVE ItemInv'
  <2>d. PICK x : x = call[p].item
    OBVIOUS
  <2>0. /\ UNCHANGED <<routes, raced, watch, slow>> /\ Others(p)
        /\ call'[p].pc = (IF call[p].todo = {x} THEN "insert" ELSE "route")
        /\ call[p].pc = "attach"
        /\ call'[p].op = "register" /\ call[p].op = "register" /\ offer' = offer
        /\ call'[p].todo = call[p].todo \ {x} /\ call'[p].uuid = call[p].uuid
        /\ external' = [external EXCEPT ![x] = call[p].uuid]
        /\ call'[p].ok = call[p].ok
    BY <1>6, <2>d DEF Tried, Attached, Moved, Same
  <2>a. Attaching(p, x) /\ Checked(p, x) /\ x \in Items \ Unknown
        /\ x \in offer[p] /\ x \in call[p].todo
    <3>1. Attaching(p, x)
      BY <2>0, <2>d DEF Attaching
    <3>2. CallOK(p) /\ offer[p] \subseteq Items
      BY <1>0, CallFields DEF CallInv
    <3> QED
      BY <2>0, <2>d, <3>1, <3>2, AttachingChecked DEF CallOK
  <2>b. /\ external'[x] = call[p].uuid
        /\ \A y \in Items \ {x} : external'[y] = external[y]
    BY <1>0, <2>0, <2>a DEF ExtensionTypeOK
  <2>c. ~Live(p)' /\ ~Ready(p)' /\ \A y \in Items : (Erasing(y)' => Erasing(y))
    BY <1>a, <2>0 DEF Ready, Erasing, Others
  <2>1. ASSUME NEW y \in Items \ raced, y # x PROVE \A q \in Extensions : ItemOK(q, y)'
    <3>1. Undisturbed(p, y)
      <4>1. ~Attaching(p, y) /\ ~Attaching(p, y)'
        BY <2>0, <2>1, <2>d DEF Attaching
      <4>2. Checked(p, y)' => Checked(p, y)
        BY <2>0, <2>1 DEF Checked
      <4>3. Holds(p, y)' => Holds(p, y) /\ Own(p)' = Own(p)
        BY <2>0, <2>1, <2>c DEF Holds, Own
      <4> QED
        BY <4>1, <4>2, <4>3 DEF Undisturbed
    <3>2. \A q \in Extensions : Undisturbed(q, y)
      BY <2>0, <3>1, OthersUndisturbed
    <3>3. Untouched(y)
      BY <2>0, <2>1, <2>b, <2>c DEF Untouched
    <3> QED
      BY <2>1, <3>2, <3>3, ItemKept
  <2>2. ASSUME x \notin raced PROVE \A q \in Extensions : ItemOK(q, x)'
    <3>0. ItemOK(p, x)
      BY <1>0, <2>2, <2>a DEF ItemInv
    <3>1. external[x] = NoUuid /\ ~Erasing(x) /\ \A q \in Extensions \ {p} : ~Checked(q, x)
      BY <2>a, <3>0 DEF ItemOK
    <3>2. ItemOK(p, x)'
      <4>1. ~Checked(p, x)' /\ ~Attaching(p, x)'
        BY <2>0 DEF Checked, Attaching
      <4>2. Own(p)' = external'[x] /\ ~Erasing(x)'
        BY <2>0, <2>a, <2>b, <2>c, <3>1 DEF Own
      <4> QED
        BY <4>1, <4>2 DEF ItemOK
    <3>3. ASSUME NEW q \in Extensions, q # p PROVE ItemOK(q, x)'
      <4>1. ItemOK(q, x) /\ Undisturbed(q, x)
        BY <1>0, <2>0, <2>2, <2>a, <3>3, OthersUndisturbed DEF ItemInv
      <4>2. ~Checked(q, x) /\ ~Attaching(q, x)
        BY <3>1, <3>3, AttachingChecked
      <4>3. ~Holds(q, x)
        BY <3>1, <4>1, HolderOwns DEF ItemOK
      <4> QED
        BY <4>1, <4>2, <4>3 DEF ItemOK, Undisturbed
    <3> QED
      BY <3>2, <3>3
  <2>3. \A y \in Unknown : external'[y] = NoUuid /\ y \notin routes'
    BY <1>0, <2>0, <2>a, <2>b, NamesAssumption DEF ItemInv
  <2> QED
    BY <1>0, <2>0, <2>1, <2>2, <2>3 DEF ItemInv
<1>7. ASSUME NEW p \in Extensions, Inserted(p) PROVE ItemInv'
  <2>0. UNCHANGED <<external, routes, raced, watch, slow>> /\ Others(p) /\ proc' = proc
        /\ call'[p].pc = "list" /\ call[p].pc = "insert" /\ call[p].ok
        /\ call'[p].op = "register" /\ call[p].op = "register" /\ offer' = offer
        /\ call'[p].uuid = call[p].uuid
    BY <1>7 DEF Inserted, Moved, Same
  <2>1. ASSUME NEW x \in Items \ raced PROVE \A q \in Extensions : ItemOK(q, x)'
    <3>1. Undisturbed(p, x)
      BY <1>a, <2>0 DEF Undisturbed, Checked, Attaching, Holds, Own
    <3>2. \A q \in Extensions : Undisturbed(q, x)
      BY <2>0, <3>1, OthersUndisturbed
    <3>3. Untouched(x)
      BY <2>0 DEF Untouched, Erasing, Others
    <3> QED
      BY <3>2, <3>3, ItemKept
  <2> QED
    BY <1>0, <2>0, <2>1 DEF ItemInv
<1>8. ASSUME NEW p \in Extensions, Refused(p) PROVE ItemInv'
  <2>1. \A x \in Items : ~Checked(p, x)' /\ ~Attaching(p, x)' /\ ~Holds(p, x)'
    BY <1>8 DEF Refused, Checked, Attaching, Holds, Ready, Live, Idle
  <2>2. call'[p].pc # "erase"
    BY <1>8 DEF Refused, Idle
  <2> QED
    BY <1>8, <2>1, <2>2, LeavesItems DEF Refused, Same
<1>9. ASSUME NEW p \in Extensions, Collected(p) PROVE ItemInv'
  <2>0. UNCHANGED <<external, routes, raced, watch, slow, proc>> /\ Others(p)
        /\ call'[p].pc = "erase" /\ call[p].op \in {"register", "deregister"}
        /\ call'[p].op = call[p].op /\ call'[p].todo = itemsOf(call[p].uuid)
    BY <1>9 DEF Collected, Moved, Same
  <2>1. ~Live(p)'
    BY <2>0 DEF CallInv, CallOK, Live
  <2>2. call[p].uuid # NoUuid /\ call[p].uuid \in Mine(p)
    BY <1>9, UuidOfCall, BoundsAssumption DEF Collected, Mine, Uuids
  <2>3. ASSUME NEW x \in Items \ raced PROVE \A q \in Extensions : ItemOK(q, x)'
    <3>1. ItemOK(p, x)'
      BY <2>0, <2>1 DEF ItemOK, Checked, Attaching, Holds, Ready
    <3>2. ASSUME NEW q \in Extensions, q # p PROVE ItemOK(q, x)'
      <4>1. ItemOK(q, x) /\ Undisturbed(q, x)
        BY <1>0, <2>0, <3>2, OthersUndisturbed DEF ItemInv
      <4>2. \A r \in Extensions \ {q} : Checked(r, x)' => Checked(r, x)
        BY <2>0, OthersUndisturbed DEF Checked, Undisturbed
      <4>3. Holds(q, x) \/ Attaching(q, x) => x \notin itemsOf(call[p].uuid)
        <5>1. Holds(q, x) => Own(q) # call[p].uuid
          BY <1>0, <2>2, <3>2, HolderOwns DEF UuidInv
        <5>2. Attaching(q, x) => external[x] = NoUuid
          BY <4>1, AttachingChecked DEF ItemOK
        <5> QED
          BY <2>2, <4>1, <5>1, <5>2 DEF ItemOK, itemsOf
      <4>4. Holds(q, x) \/ Attaching(q, x) => ~Erasing(x)'
        <5>1. Holds(q, x) \/ Attaching(q, x) => ~Erasing(x)
          BY <4>1 DEF ItemOK
        <5> QED
          BY <2>0, <4>3, <5>1 DEF Erasing, Others
      <4> QED
        BY <2>0, <4>1, <4>2, <4>4 DEF ItemOK, Undisturbed
    <3> QED
      BY <3>1, <3>2
  <2> QED
    BY <1>0, <2>0, <2>3 DEF ItemInv
<1>10. ASSUME NEW p \in Extensions, Erased(p) PROVE ItemInv'
  <2>0. UNCHANGED <<raced, watch, slow, proc>> /\ Others(p) /\ erase(call[p].todo)
        /\ call[p].pc = "erase" /\ call[p].op \in {"register", "deregister"}
        /\ call'[p].op = call[p].op /\ call'[p].ok = call[p].ok
        /\ call'[p].pc = (IF call[p].op = "register" THEN "insert" ELSE "unregister")
    BY <1>10 DEF Erased, Moved, Same
  <2>1. ~Live(p)' /\ (call[p].op = "register" => ~call[p].ok)
    BY <1>0, <2>0 DEF CallInv, CallOK, Live
  <2>2. \A x \in call[p].todo : Erasing(x)
    BY <2>0 DEF Erasing
  <2>3. ASSUME NEW x \in Items \ raced PROVE \A q \in Extensions : ItemOK(q, x)'
    <3>1. Undisturbed(p, x)
      BY <2>0, <2>1 DEF Undisturbed, Checked, Attaching, Holds, Ready
    <3>2. \A q \in Extensions : Undisturbed(q, x)
      BY <2>0, <3>1, OthersUndisturbed
    <3>3. Erasing(x)' => Erasing(x)
      BY <2>0 DEF Erasing, Others
    <3> QED
      BY <2>0, <2>2, <3>2, <3>3, ErasingKeeps
  <2>4. \A x \in Unknown : external'[x] = NoUuid /\ x \notin routes'
    BY <1>0, <2>0, NamesAssumption DEF ItemInv, erase
  <2> QED
    BY <1>0, <2>0, <2>3, <2>4 DEF ItemInv
<1>11. ASSUME NEW p \in Extensions, Unregistered(p) PROVE ItemInv'
  <2>1. ~Live(p)'
    <3>1. call'[p].op = "deregister"
      BY <1>11 DEF Unregistered, Moved
    <3> QED
      BY <3>1 DEF CallInv, CallOK, Live
  <2>2. \A x \in Items : ~Checked(p, x)' /\ ~Attaching(p, x)' /\ ~Holds(p, x)'
    BY <1>11, <2>1 DEF Unregistered, Moved, Checked, Attaching, Holds, Ready
  <2> QED
    BY <1>11, <2>2, LeavesItems DEF Unregistered, Moved, Same
<1>12. CASE Watch \/ UNCHANGED extensionVars
  <2>0. UNCHANGED <<call, proc, id, offer, raced>> /\ watch \in Watches /\ slow \subseteq slow'
    BY <1>0, <1>12 DEF Watch, round, check, sweep, sweepCollect, sweepErase, sweepUnregister,
                       ExtensionTypeOK
  <2>1. \A q \in Extensions : \A x \in Items : Undisturbed(q, x)
    <3>1. \A q \in Extensions : (Ready(q)' => Ready(q)) /\ (Live(q)' => Live(q))
      BY <2>0 DEF Ready, Live
    <3> QED
      BY <2>0, <3>1 DEF Undisturbed, Checked, Attaching, Holds, Own
  <2>2. CASE sweepErase
    <3>0. erase(watch.items) /\ watch'.items = {} /\ watch'.pc = "unregister"
      BY <2>0, <2>2 DEF sweepErase, Watches
    <3>1. \A x \in watch.items : Erasing(x)
      BY DEF Erasing
    <3>2. ASSUME NEW x \in Items \ raced PROVE \A q \in Extensions : ItemOK(q, x)'
      <4>1. Erasing(x)' => Erasing(x)
        BY <2>0, <3>0 DEF Erasing
      <4> QED
        BY <2>1, <3>0, <3>1, <4>1, ErasingKeeps
    <3>3. \A x \in Unknown : external'[x] = NoUuid /\ x \notin routes'
      BY <1>0, <3>0, NamesAssumption DEF ItemInv, erase
    <3> QED
      BY <2>0, <3>0, <3>2, <3>3 DEF ItemInv
  <2>3. CASE sweepCollect
    <3>0. /\ UNCHANGED <<external, routes>> /\ watch.pc = "collect" /\ watch'.pc = "erase"
          /\ watch'.items = itemsOf(watch.uuid)
      BY <2>0, <2>3 DEF sweepCollect, Watches
    <3>1. watch.uuid \in Closed /\ failures[watch.uuid] = 2 /\ watch.uuid # NoUuid
          /\ watch.uuid \in Uuids
      <4>1. watch.uuid \in Closed /\ failures[watch.uuid] = 2
        BY <1>0, <3>0 DEF UuidInv, ExtensionInv, WatchInv
      <4> QED
        BY <1>0, <4>1, BoundsAssumption DEF Closed, Uuids, ExtensionTypeOK
    <3>2. ASSUME NEW x \in Items, NEW q \in Extensions, Holds(q, x), Own(q) = watch.uuid
          PROVE  FALSE
      <4>1. Open(q) => call[q].uuid # watch.uuid /\ Own(q) = call[q].uuid
        BY <3>1 DEF Closed, Open, Own
      <4>2. Ready(q) => Coming(Own(q)) /\ Own(q) \notin slow
        BY DEF Ready, Coming, Own
      <4>3. Live(q) /\ Own(q) = id[q] =>
              Own(q) \notin slow /\ (Coming(Own(q)) \/ proc[q] = "serving")
        BY DEF Live, Coming
      <4>4. watch.uuid \notin slow => /\ ~Coming(watch.uuid)
                                      /\ id[q] = watch.uuid => proc[q] # "serving"
        BY <3>1 DEF ExtensionInv, WatchInv
      <4> QED
        BY <3>2, <4>1, <4>2, <4>3, <4>4, HolderOwns
    <3>3. ASSUME NEW x \in Items \ raced, NEW q \in Extensions PROVE ItemOK(q, x)'
      <4>1. ItemOK(q, x) /\ Undisturbed(q, x)
        BY <1>0, <2>1 DEF ItemInv
      <4>2. Holds(q, x) \/ Attaching(q, x) => x \notin itemsOf(watch.uuid)
        <5>1. Attaching(q, x) => external[x] = NoUuid
          BY <4>1, AttachingChecked DEF ItemOK
        <5> QED
          BY <3>1, <3>2, <4>1, <5>1 DEF ItemOK, itemsOf
      <4>3. Holds(q, x) \/ Attaching(q, x) => ~Erasing(x)'
        <5>1. Holds(q, x) \/ Attaching(q, x) => ~Erasing(x)
          BY <4>1 DEF ItemOK
        <5> QED
          BY <2>0, <3>0, <4>2, <5>1 DEF Erasing
      <4>4. \A r \in Extensions : Checked(r, x)' => Checked(r, x)
        BY <2>1 DEF Undisturbed
      <4> QED
        BY <3>0, <4>1, <4>3, <4>4 DEF ItemOK, Undisturbed
    <3> QED
      BY <1>0, <2>0, <3>0, <3>3 DEF ItemInv
  <2>4. CASE ~sweepErase /\ ~sweepCollect
    <3> DEFINE Keeps == watch'.items = watch.items /\ (watch.pc = "erase" <=> watch'.pc = "erase")
    <3>1. UNCHANGED <<external, routes>> /\ Keeps
      <4>1. ASSUME NEW u \in Uuids, check(u) PROVE Keeps
        BY <2>0, <4>1 DEF check, Watches
      <4>2. ASSUME NEW u \in Uuids, sweep(u) PROVE Keeps
        BY <2>0, <4>2 DEF sweep, Watches
      <4>3. ASSUME round \/ sweepUnregister PROVE Keeps
        BY <2>0, <4>3 DEF round, sweepUnregister, Watches
      <4>4. UNCHANGED <<external, routes>>
        BY <1>12, <2>4 DEF Watch, round, check, sweep, sweepUnregister
      <4> QED
        BY <1>12, <2>4, <4>1, <4>2, <4>3, <4>4 DEF Watch
    <3>2. ASSUME NEW x \in Items \ raced PROVE \A q \in Extensions : ItemOK(q, x)'
      <4>1. Untouched(x)
        BY <2>0, <3>1 DEF Untouched, Erasing
      <4> QED
        BY <2>1, <4>1, ItemKept
    <3> QED
      BY <1>0, <2>0, <3>1, <3>2 DEF ItemInv
  <2> QED
    BY <2>2, <2>3, <2>4
<1>13. ASSUME NEW p \in Extensions, Tried(p) PROVE ItemInv'
  BY <1>5, <1>6, <1>13 DEF Tried
<1> QED
  BY <1>1, <1>2, <1>3, <1>4, <1>7, <1>8, <1>9, <1>10, <1>11, <1>12, <1>13, Kinds DEF Kind

-----------------------------------------------------------------------------
(* The theorems *)

\* The invariant holds in every reachable state.
LEMMA ExtensionInvariance == ExtensionSpec => []ExtensionInv
<1>1. ExtensionInv /\ [ExtensionNext]_extensionVars => ExtensionInv'
  <2> SUFFICES ASSUME ExtensionInv, [ExtensionNext]_extensionVars PROVE ExtensionInv'
    OBVIOUS
  <2>1. CallInv'
    BY StepCall
  <2> QED
    BY <2>1, StepExtensionType, StepGiven, StepUuid, StepRoute, StepWatch, StepItem
    DEF ExtensionInv
<1> QED
  BY <1>1, ExtensionInitInv, PTL DEF ExtensionSpec

\* The state of the manager, the registry and the watcher, of the calls and of the
\* processes has its type in every reachable state; getUuid never gives more uuids
\* than there are.
THEOREM ExtensionTypeCorrect == ExtensionSpec => []ExtensionTypeOK
<1>1. ExtensionInv => ExtensionTypeOK
  BY DEF ExtensionInv
<1> QED
  BY <1>1, ExtensionInvariance, PTL

\* A route leads to a uuid that the registry knows or that is just being registered,
\* for any number of extensions, items and registrations.
THEOREM RoutesOwned == ExtensionSpec => []RoutesHaveOwner
<1>1. ExtensionInv => RoutesHaveOwner
  BY DEF ExtensionInv, RouteInv
<1> QED
  BY <1>1, ExtensionInvariance, PTL

\* An extension that runs, whose socket came in time and which answered its pings, is
\* in the registry and has the routes of its items, except those two threads were at.
THEOREM LiveKept == ExtensionSpec => []LiveIsKept
<1>1. ExtensionInv => LiveIsKept
  <2> SUFFICES ASSUME ExtensionInv, NEW p \in Extensions, Live(p)
               PROVE  /\ id[p] \in exts
                      /\ \A x \in offer[p] \ raced : external[x] = id[p]
    BY DEF LiveIsKept
  <2>1. id[p] \in exts
    BY DEF ExtensionInv, WatchInv
  <2>2. call[p].op # "register"
    BY DEF ExtensionInv, CallInv, CallOK, Live
  <2>3. ASSUME NEW x \in offer[p] \ raced PROVE external[x] = id[p]
    <3>1. x \in Items /\ ItemOK(p, x)
      BY CallFields DEF ExtensionInv, ItemInv
    <3> QED
      BY <2>2, <3>1 DEF ItemOK, Holds, Own
  <2> QED
    BY <2>1, <2>3
<1> QED
  BY <1>1, ExtensionInvariance, PTL

-----------------------------------------------------------------------------
(* The worker's denylist *)

Loaded == worker \in {"pass", "query"}

\* A query that must not run is on its way onto the denylist, or on it: named
\* as executing, as the suspect, or listed long enough where it is looked up.
Guarded(q) ==
  barred[q] > now =>
    /\ ~Up \/ worker = "boot" => executing = q \/ failed[q] >= barred[q]
    /\ worker = "blame" => \/ suspect = q
                           \/ failed[q] >= barred[q] /\ denylist[q] >= barred[q]
    /\ Loaded => failed[q] >= barred[q] /\ denylist[q] >= barred[q]

\* Where the worker is, and which name executing_query holds there.
WorkerPlaces ==
  /\ worker = "query" => run = executing /\ run \in Queries
  /\ worker # "query" => run = NoQuery
  /\ worker = "blame" => executing = NoQuery /\ suspect \in Queries

\* A name left in executing_query is of a query that did not end as it should.
Excused == /\ executing # NoQuery => worker = "query" \/ executing \in unfinished
           /\ worker = "blame" => suspect \in unfinished

WorkerInv ==
  /\ WorkerTypeOK
  /\ WorkerPlaces
  /\ Excused
  /\ \A q \in Queries : barred[q] <= now + DenyTime
  /\ \A q \in Queries \ Exempt : Guarded(q)

USE QueriesAssumption, TimeAssumption

\* The worker's invariant holds when the database is empty.
LEMMA WorkerInitInv == WorkerInit => WorkerInv
<1> SUFFICES ASSUME WorkerInit PROVE WorkerInv
  OBVIOUS
<1>1. WorkerTypeOK
  <2>1. Nobody \in [Queries -> Nat]
    BY DEF Nobody
  <2>2. limitHit \in BOOLEAN /\ leaving \in BOOLEAN
    BY Zenon DEF WorkerInit
  <2> QED
    BY <2>1, <2>2 DEF WorkerInit, WorkerTypeOK
<1>2. WorkerPlaces /\ Excused
  BY DEF WorkerInit, WorkerPlaces, Excused
<1>3. \A q \in Queries : barred[q] = 0 /\ now \in Nat
  BY DEF WorkerInit, Nobody
<1> QED
  BY <1>1, <1>2, <1>3 DEF WorkerInv, Guarded

\* Every step of the worker, and everything done to it, keeps the invariant.
LEMMA WorkerNextInv == WorkerInv /\ [WorkerNext]_workerVars => WorkerInv'
<1> SUFFICES ASSUME WorkerInv, [WorkerNext]_workerVars PROVE WorkerInv'
  OBVIOUS
<1> USE DEF WorkerInv, WorkerTypeOK, WorkerPlaces, Excused, Guarded, Loaded, Up,
            stored, schedule, flags, clock, history
<1>1. CASE restore
  BY <1>1 DEF restore, Restored
<1>2. CASE blame
  BY <1>2 DEF blame
<1>3. CASE startPass
  BY <1>3 DEF startPass
<1>4. ASSUME NEW q \in Queries, skipDenied(q) PROVE WorkerInv'
  BY <1>4 DEF skipDenied, Reached
<1>5. ASSUME NEW q \in Queries, notDue(q) PROVE WorkerInv'
  <2>1. Left(q) \subseteq Queries
    BY DEF Left
  <2> QED
    BY <1>5, <2>1 DEF notDue, Cleared, Reached, denylistExpired
<1>6. ASSUME NEW q \in Queries, recordQueryStart(q) PROVE WorkerInv'
  BY <1>6 DEF recordQueryStart, Cleared, Reached, denylistExpired
<1>7. CASE recordQueryPerformance
  <2>1. Left(run) \subseteq Queries
    BY DEF Left
  <2> QED
    BY <1>7, <2>1 DEF recordQueryPerformance
<1>8. ASSUME Gone, deaths' \in 0..MaxDeaths PROVE WorkerInv'
  <2>1. barred' = [q \in Queries |->
                     IF worker = "blame" /\ q = suspect THEN 0
                     ELSE IF q = executing THEN now + DenyTime ELSE barred[q]]
    BY <1>8 DEF Gone
  <2>2. /\ barred' \in [Queries -> Nat]
        /\ \A q \in Queries : barred'[q] <= now' + DenyTime
    BY <1>8, <2>1 DEF Gone
  <2>3. /\ worker' = "down" /\ run' = NoQuery /\ now' = now
        /\ executing' = executing /\ failed' = failed
    BY <1>8 DEF Gone
  <2>4. /\ denylist' \in [Queries -> Nat] /\ suspect' = NoQuery /\ todo' = {}
    BY <1>8 DEF Gone, Nobody
  <2>5. limitHit' \in BOOLEAN /\ leaving' \in BOOLEAN
    BY <1>8, Zenon DEF Gone
  <2>6. unfinished' \subseteq Queries /\ Excused'
    BY <1>8, <2>3 DEF Gone
  <2>7. ASSUME NEW q \in Queries \ Exempt PROVE Guarded(q)'
    BY <2>1, <2>3
  <2> QED
    BY <1>8, <2>2, <2>3, <2>4, <2>5, <2>6, <2>7
<1>9. CASE leave
  BY <1>8, <1>9 DEF leave
<1>10. CASE launch
  BY <1>10 DEF launch
<1>11. CASE die
  BY <1>8, <1>11 DEF die
<1>12. CASE kill
  BY <1>8, <1>12 DEF kill
<1>13. CASE Tick
  BY <1>13 DEF Tick
<1>14. CASE signalLimit
  BY <1>14 DEF signalLimit
<1>15. CASE signalTerm
  BY <1>15 DEF signalTerm
<1>16. CASE UNCHANGED workerVars
  BY <1>16 DEF workerVars
<1> QED
  BY <1>1, <1>2, <1>3, <1>4, <1>5, <1>6, <1>7, <1>9, <1>10, <1>11, <1>12, <1>13, <1>14,
     <1>15, <1>16 DEF WorkerNext, Schedule

\* A worker under any watchdog keeps its invariant.
LEMMA WorkerInvariance == WorkerSpec => []WorkerInv
BY WorkerInitInv, WorkerNextInv, PTL DEF WorkerSpec

\* A step that starts a query finds it neither executing nor listed.
LEMMA StartAllowed ==
  ASSUME WorkerInv, [WorkerNext]_workerVars, NEW q \in Queries \ Exempt,
         run # q, run' = q
  PROVE  now >= barred[q]
<1> USE DEF WorkerInv, WorkerTypeOK, WorkerPlaces, Guarded, Loaded, Up, stored, schedule, flags,
            clock, history
<1>1. \E p \in Queries : recordQueryStart(p)
  BY DEF WorkerNext, Schedule, restore, blame, startPass, skipDenied, notDue,
         recordQueryPerformance, leave, Gone, launch, die, kill, Tick, signalLimit,
         signalTerm, workerVars
<1>2. PICK p \in Queries : recordQueryStart(p)
  BY <1>1
<1> QED
  BY <1>2 DEF recordQueryStart, Cleared, Reached, denylistExpired

-----------------------------------------------------------------------------
(* The watchdog *)

\* Every step of the watchdog is a step of the worker, or leaves it alone.
THEOREM WatcherDrivesWorker == Spec => WorkerSpec
<1>1. Init => WorkerInit
  BY DEF Init
<1>2. [Next]_vars => [WorkerNext]_workerVars
  <2> SUFFICES ASSUME [Next]_vars PROVE [WorkerNext]_workerVars
    OBVIOUS
  <2>1. CASE Runner
    BY <2>1 DEF Runner, watchBound, watchNone, watchSane, watchInsane, watchExited, stopChild,
       respawn, createWorker, delay, delayEnds, launchWorker, launchFails, launchMissing,
       healthy, unhealthy, pause, WorkerNext
  <2>2. CASE Main \/ requestShutdown \/ alarm
    BY <2>2 DEF Main, requestShutdown, bindFates, interrupt, stop, stopped, join, alarm, WorkerNext
  <2>3. CASE workerDies \/ workerRuns \/ workerFollows \/ TickAll
    BY <2>3 DEF workerDies, workerRuns, workerFollows, TickAll, WorkerNext
  <2>4. CASE Ended \/ UNCHANGED vars
    BY <2>4 DEF Ended, vars
  <2> QED
    BY <2>1, <2>2, <2>3, <2>4 DEF Next
<1> QED
  BY <1>1, <1>2, PTL DEF Spec, WorkerSpec

\* A query that was executing when its worker ended is not executed for DenyTime
\* after that, whatever the watchdog does (Schedule::Schedule,
\* restoreScheduleDenylist, denylistExpired).
THEOREM KilledOut == Spec => KilledStaysOut
<1>1. WorkerInv /\ [WorkerNext]_workerVars
        => [\A q \in Queries \ Exempt : run # q /\ run' = q => now >= barred[q]]_workerVars
  BY StartAllowed
<1> QED
  BY <1>1, WorkerInvariance, WatcherDrivesWorker, PTL DEF WorkerSpec, KilledStaysOut

\* Only a query that did not end, or was over the limit when it ended, is barred
\* (recordQueryPerformance, Schedule::Schedule).
THEOREM BlameJustified == Spec => []OnlyUnfinishedBlamed
<1>1. WorkerInv => OnlyUnfinishedBlamed
  BY DEF WorkerInv, Excused, OnlyUnfinishedBlamed
<1> QED
  BY <1>1, WorkerInvariance, WatcherDrivesWorker, PTL

Locked == pc \in {"delay", "waiting", "launch"}

\* Who holds the mutex, and what follows once stop has had it.
Inv ==
  /\ TypeOK
  /\ Up => valid
  /\ main \in {"stop", "stopChild"} => interrupted
  /\ main \in {"wait", "shutdown"} => ~interrupted
  /\ main = "stopChild" => ~Locked
  /\ main \in {"join", "exited"} /\ interrupted => ~Up /\ ~Locked
  /\ pc = "create" => restarts < RespawnLimit

USE LimitsAssumption

\* The watchdog's invariant holds before the first worker.
LEMMA InitInv == Init => Inv
<1> SUFFICES ASSUME Init PROVE Inv
  OBVIOUS
<1>1. WorkerTypeOK
  BY WorkerInitInv DEF Init, WorkerInv
<1>2. /\ valid \in BOOLEAN /\ requested \in BOOLEAN /\ bound \in BOOLEAN
      /\ interrupted \in BOOLEAN /\ missing \in BOOLEAN
  BY Zenon DEF Init
<1> QED
  BY <1>1, <1>2 DEF Init, Inv, TypeOK, Locked, WorkerInit, Up

\* The schedule's own steps do not make a process.
LEMMA ScheduleInWorker == Schedule => Up
BY DEF Schedule, restore, blame, startPass, skipDenied, notDue, recordQueryStart, Cleared,
       Reached, recordQueryPerformance, leave, Up

\* Every step of either thread and of the worker keeps the watchdog's invariant.
LEMMA NextInv == Inv /\ WorkerTypeOK' /\ [Next]_vars => Inv'
<1> SUFFICES ASSUME Inv, WorkerTypeOK', [Next]_vars PROVE Inv'
  OBVIOUS
<1> USE DEF Inv, TypeOK, Up, Locked, counters, ending, EXIT_SUCCESS, EXIT_FAILURE,
            EXIT_CATASTROPHIC
<1>w. UNCHANGED workerVars => worker' = worker /\ now' = now
  BY DEF workerVars, clock
<1>n. now \in Nat
  BY DEF WorkerTypeOK
<1>1. CASE watchBound
  BY <1>1, <1>w DEF watchBound
<1>2. CASE watchNone
  BY <1>2, <1>w DEF watchNone
<1>3. CASE watchSane
  BY <1>3, <1>w DEF watchSane, SustainedLatency
<1>4. CASE watchInsane
  BY <1>4, <1>w DEF watchInsane, SustainedLatency, signalLimit
<1>5. CASE watchExited
  BY <1>5, <1>w DEF watchExited
<1>6. CASE stopChild
  BY <1>6, <1>w DEF stopChild, kill, Gone
<1>7. CASE respawn
  BY <1>7, <1>w DEF respawn, GiveUp
<1>8. CASE createWorker
  BY <1>8, <1>w, <1>n DEF createWorker, Unlocked
<1>9. CASE delay
  BY <1>9, <1>w DEF delay
<1>10. CASE delayEnds
  BY <1>10, <1>w DEF delayEnds
<1>11. CASE launchWorker
  BY <1>11, <1>w, <1>n DEF launchWorker, launch
<1>12. CASE launchFails
  BY <1>12, <1>w DEF launchFails
<1>13. CASE launchMissing
  BY <1>13, <1>w DEF launchMissing
<1>14. CASE healthy
  BY <1>14, <1>w DEF healthy
<1>15. CASE unhealthy
  BY <1>15, <1>w DEF unhealthy
<1>16. CASE pause
  BY <1>16, <1>w DEF pause
<1>17. CASE requestShutdown
  BY <1>17, <1>w DEF requestShutdown
<1>18. CASE bindFates
  BY <1>18, <1>w DEF bindFates
<1>19. CASE interrupt
  <2>1. CASE interrupted' = TRUE /\ main' = "stop"
    BY <1>19, <2>1, <1>w, <1>n DEF interrupt
  <2>2. CASE pc = "done" /\ main' = "join" /\ interrupted' = interrupted
    BY <1>19, <2>2, <1>w, <1>n DEF interrupt
  <2> QED
    BY <1>19, <2>1, <2>2 DEF interrupt
<1>20. CASE stop
  BY <1>20, <1>w DEF stop, Unlocked, signalTerm
<1>21. CASE stopped
  BY <1>21, <1>w DEF stopped, kill, Gone
<1>22. CASE join
  BY <1>22, <1>w DEF join
<1>23. CASE alarm
  BY <1>23, <1>w DEF alarm
<1>24. CASE workerDies
  BY <1>24, <1>w DEF workerDies, die, Gone, Frame
<1>25. CASE workerFollows
  BY <1>25, <1>w DEF workerFollows, kill, Gone, Frame
<1>26. CASE TickAll
  BY <1>26, <1>w DEF TickAll, Tick, Frame
<1>27. CASE workerRuns
  BY <1>27, ScheduleInWorker DEF workerRuns, Frame
<1>28. CASE UNCHANGED vars
  BY <1>28, <1>w DEF vars
<1> QED
  BY <1>1, <1>2, <1>3, <1>4, <1>5, <1>6, <1>7, <1>8, <1>9, <1>10, <1>11, <1>12, <1>13, <1>14,
     <1>15, <1>16, <1>17, <1>18, <1>19, <1>20, <1>21, <1>22, <1>23, <1>24, <1>25, <1>26, <1>27, <1>28
  DEF Next, Runner, Main, Ended

\* The watchdog's invariant, with the worker's for the types of its variables.
LEMMA Invariance == Spec => []Inv
<1>1. WorkerInv => WorkerTypeOK
  BY DEF WorkerInv
<1> QED
  BY <1>1, InitInv, NextInv, WorkerInvariance, WatcherDrivesWorker, PTL DEF Spec

\* The variables of both processes keep their types; no more than RESPAWN_LIMIT
\* quick respawns are ever counted (WatcherRunner::start).
THEOREM TypeCorrect == Spec => []TypeOK
<1>1. Inv => TypeOK
  BY DEF Inv
<1> QED
  BY <1>1, Invariance, PTL

\* Once WatcherRunner::stop has had the mutex no worker runs and none is created,
\* in every interleaving with createWorker.
THEOREM StoppedCorrect == Spec => []StoppedForGood
<1>1. Inv => StoppedForGood
  BY DEF Inv, StoppedForGood
<1> QED
  BY <1>1, Invariance, PTL
=============================================================================
