------------------------- MODULE BufferedLogProofs -------------------------
(***************************************************************************)
(* Proofs about BufferedLog, for every limit, period and number of lines.  *)
(*                                                                         *)
(* The inductive invariant adds to the checked ones what the forwarder     *)
(* knows between its database calls: what it deletes after a send has been *)
(* taken (SentIsTaken), and the keys it is going to delete are still in    *)
(* the database, each once (KeysKept), although the threads that log may   *)
(* have put other lines there.  That purge takes the oldest lines first    *)
(* rests on the keys: they are ordered strictly, a scan with a limit finds *)
(* that many keys unless there are fewer, none that it leaves out is       *)
(* older, and between two rounds nothing is left to delete (NoneDoomed).   *)
(***************************************************************************)
EXTENDS BufferedLog, FiniteSetTheorems, TLAPS

\* What check deletes, the remote logger has taken.
SentIsTaken == pc \in {"del_r", "del_s"} => doomed \subseteq taken

Stored(l) == \E m \in db : SameKey(m, l)

OnePerKey(L) == \A k, l \in L : SameKey(k, l) => k = l

\* The keys the forwarder has scanned and not deleted are still in the database.
KeysKept ==
  /\ OnePerKey(doomed) /\ OnePerKey(batch)
  /\ \A l \in doomed : Stored(l)
  /\ pc = "r" => \A l \in batch : Stored(l)
  /\ pc \in {"del_r", "s"} => \A l \in Of("s", batch) : Stored(l)
  /\ pc = "del_r" => doomed \subseteq Of("r", batch)

\* What keeps every line.
Inv == TypeOK /\ IsFiniteSet(db) /\ NothingDropped /\ SentIsTaken

\* The whole invariant.
CountInv == Inv /\ KeysKept /\ CountCoversBuffer

\* The empty buffer satisfies the invariant.
LEMMA InitInv == Init => Inv
  BY FlagsAssumption, BoundsAssumption, FS_EmptySet
  DEF Init, Inv, TypeOK, NothingDropped, SentIsTaken, Kinds, Line, SameKey

\* A deletion after a send or by purge keeps NothingDropped.
LEMMA DeletedKeeps ==
  ASSUME Inv, NEW l \in doomed, Deleted(l), l \in taken' \cup purged',
         taken \subseteq taken', purged \subseteq purged', writes' = writes
  PROVE  NothingDropped'
  <1> SUFFICES ASSUME NEW u \in 0..writes - 1
               PROVE  \E m \in db' \cup taken' \cup purged' \cup reused' : m.uid = u
    BY DEF NothingDropped
  <1>1. PICK m \in db \cup taken \cup purged \cup reused : m.uid = u
    BY DEF Inv, NothingDropped
  <1>2. m \in db' \cup taken' \cup purged' \cup reused'
    BY <1>1 DEF Deleted
  <1> QED BY <1>1, <1>2

\* Every step of check, purge, the backoff and the logging threads keeps the types.
LEMMA StepType == Inv /\ [Next]_vars => TypeOK'
  <1> SUFFICES ASSUME Inv, [Next]_vars PROVE TypeOK' OBVIOUS
  <1> USE FlagsAssumption, BoundsAssumption DEF Inv, Kinds
  <1>1. CASE scan
    BY <1>1 DEF scan, scanDatabaseKeys, TypeOK, clock
  <1>2. ASSUME NEW kind \in Kinds, skip(kind) PROVE TypeOK'
    BY <1>2 DEF skip, After, TypeOK, clock
  <1>3. ASSUME NEW kind \in Kinds, send(kind) PROVE TypeOK'
    BY <1>3 DEF send, Sending, Deleting, Of, TypeOK, clock
  <1>4. ASSUME NEW kind \in Kinds, NEW received \in BOOLEAN, sendFails(kind, received)
        PROVE  TypeOK'
    <2>1. /\ backedOff(backoff[kind]).n \in Nat
          /\ backedOff(backoff[kind]).p \in Int
          /\ backedOff(backoff[kind]).p <= MaxBackoff
          /\ LogPeriod * backedOff(backoff[kind]).n * backedOff(backoff[kind]).n
               <= MaxBackoff
      BY DEF backedOff, TypeOK
    <2>2. /\ backoff' \in [Kinds -> Nat] /\ period' \in [Kinds -> Int]
          /\ \A k \in Kinds : /\ period'[k] <= MaxBackoff
                              /\ LogPeriod * backoff'[k] * backoff'[k] <= MaxBackoff
      BY <1>4, <2>1 DEF sendFails, TypeOK
    <2> QED BY <1>4, <2>2 DEF sendFails, Sending, After, Of, TypeOK, clock
  <1>5. ASSUME NEW kind \in Kinds, deleteSent(kind) PROVE TypeOK'
    BY <1>5 DEF deleteSent, Deleted, TypeOK, clock
  <1>6. ASSUME NEW kind \in Kinds, deletedSent(kind) PROVE TypeOK'
    BY <1>6 DEF deletedSent, After, TypeOK, clock
  <1>7. CASE purge
    <2>1. \A n : \A L \in oldest(n) : L \subseteq db
      BY DEF oldest, kSubset, scanDatabaseKeys, Of
    <2>2. doomed' \subseteq Line
      BY <1>7, <2>1 DEF purge, TypeOK
    <2> QED BY <1>7, <2>2 DEF purge, TypeOK, clock
  <1>8. CASE purgeLine
    BY <1>8 DEF purgeLine, Deleted, TypeOK, clock
  <1>9. CASE purgeEnds
    BY <1>9 DEF purgeEnds, TypeOK, clock
  <1>10. CASE pause
    <2>1. /\ period' \in [Kinds -> Int] /\ backoff' \in [Kinds -> Nat]
          /\ \A k \in Kinds : /\ period'[k] <= MaxBackoff
                              /\ LogPeriod * backoff'[k] * backoff'[k] <= MaxBackoff
      <3>1. CASE MaxBackoff <= LogPeriod
        <4>1. \A k \in Kinds : period'[k] = 0 /\ backoff'[k] = 0
          BY <1>10, <3>1 DEF pause, backoffTick
        <4>2. LogPeriod * 0 * 0 <= MaxBackoff /\ 0 <= MaxBackoff
          OBVIOUS
        <4> QED BY <1>10, <3>1, <4>1, <4>2 DEF pause, backoffTick
      <3>2. CASE ~(MaxBackoff <= LogPeriod)
        <4>1. /\ period' = [k \in Kinds |-> IF period[k] > 0 THEN period[k] - LogPeriod
                                                            ELSE period[k]]
              /\ backoff' = backoff
          BY <1>10, <3>2 DEF pause, backoffTick
        <4>2. \A k \in Kinds : period[k] \in Int /\ period[k] <= MaxBackoff
          BY DEF TypeOK
        <4>3. \A k \in Kinds : period'[k] \in Int /\ period'[k] <= MaxBackoff
          BY <4>1, <4>2
        <4> QED BY <4>1, <4>3 DEF TypeOK
      <3> QED BY <3>1, <3>2
    <2> QED BY <1>10, <2>1 DEF pause, TypeOK, clock
  <1>11. ASSUME NEW k \in drawn, addValue(k)
         PROVE  TypeOK'
    <2> DEFINE l == [kind |-> k.kind, time |-> k.time, idx |-> k.idx, uid |-> writes]
               o == {m \in db : SameKey(m, l)}
    <2>1. k \in Key
      BY DEF TypeOK
    <2>2. l \in Line
      BY <2>1 DEF TypeOK, Key, Line
    <2>3. db' = (db \ o) \cup {l} /\ reused' = reused \cup o
      BY <1>11 DEF addValue
    <2>4. db' \subseteq Line /\ reused' \subseteq Line
      BY <2>2, <2>3 DEF TypeOK
    <2>5. \A a, b \in db' : SameKey(a, b) => a = b
      BY <2>3 DEF TypeOK, SameKey
    <2> QED BY <1>11, <2>4, <2>5 DEF addValue, TypeOK, clock, forwarder
  <1>12. CASE countLine
    BY <1>12 DEF countLine, TypeOK, clock, forwarder
  <1>16. ASSUME NEW kind \in Kinds, NEW time \in {now - 1, now}, genIndex(kind, time)
         PROVE  TypeOK'
    <2>1. [kind |-> kind, time |-> time, idx |-> logIndex + 1] \in Key
      BY DEF TypeOK, Key
    <2>2. drawn' \subseteq Key /\ logIndex' \in Nat
      BY <1>16, <2>1 DEF genIndex, TypeOK
    <2> QED BY <1>16, <2>2 DEF genIndex, TypeOK, clock, forwarder
  <1>13. CASE Restart
    <2>1. count' \in Nat
      BY <1>13, FS_CardinalityType DEF Restart, setUp
    <2> QED BY <1>13, <2>1 DEF Restart, TypeOK
  <1>14. CASE Tick
    BY <1>14 DEF Tick, TypeOK, forwarder
  <1>15. CASE UNCHANGED vars
    BY <1>15 DEF vars, TypeOK, forwarder, clock
  <1> QED
    BY <1>1, <1>2, <1>3, <1>4, <1>5, <1>6, <1>7, <1>8, <1>9, <1>10, <1>11, <1>12,
       <1>13, <1>14, <1>15, <1>16 DEF Next, Forward, Log

\* The buffer stays finite.
LEMMA StepFinite == Inv /\ [Next]_vars => IsFiniteSet(db')
  <1> SUFFICES ASSUME Inv, [Next]_vars PROVE IsFiniteSet(db') OBVIOUS
  <1> USE DEF Inv
  <1>1. ASSUME NEW k \in drawn, addValue(k)
        PROVE  IsFiniteSet(db')
    <2> DEFINE l == [kind |-> k.kind, time |-> k.time, idx |-> k.idx, uid |-> writes]
               o == {m \in db : SameKey(m, l)}
    <2>1. db' = (db \ o) \cup {l}
      BY <1>1 DEF addValue
    <2>2. IsFiniteSet(db \ o)
      BY FS_Subset
    <2> QED BY <2>1, <2>2, FS_AddElement
  <1>2. db' \subseteq db \/ \E k \in drawn : addValue(k)
    BY DEF Next, Forward, Log, scan, skip, send, sendFails, deleteSent, deletedSent,
           Deleted, purge, purgeLine, purgeEnds, pause, genIndex, countLine, Restart, Tick,
           vars
  <1> QED BY <1>1, <1>2, FS_Subset

\* Only what send has handed over is on its way to deletion after a send.
LEMMA StepSent == Inv /\ [Next]_vars => SentIsTaken'
  <1> SUFFICES ASSUME Inv, [Next]_vars PROVE SentIsTaken' OBVIOUS
  <1> USE DEF Inv, SentIsTaken, forwarder
  <1>1. CASE Forward
    BY <1>1 DEF Forward, Kinds, scan, skip, send, sendFails, deleteSent, deletedSent, After,
                Deleting, Deleted, Of, purge, purgeLine, purgeEnds, pause
  <1>2. CASE Log
    BY <1>2 DEF Log, genIndex, addValue, countLine
  <1>3. CASE Restart \/ Tick \/ UNCHANGED vars
    BY <1>3 DEF Restart, Tick, vars
  <1> QED BY <1>1, <1>2, <1>3 DEF Next

\* No step drops a line: deletions follow a send, a purge or a reused key.
LEMMA StepKeeps == Inv /\ [Next]_vars => NothingDropped'
  <1> SUFFICES ASSUME Inv, [Next]_vars PROVE NothingDropped' OBVIOUS
  <1> USE DEF Inv
  <1>1. ASSUME NEW kind \in Kinds, deleteSent(kind) PROVE NothingDropped'
    <2>1. PICK l \in doomed : Deleted(l)
      BY <1>1 DEF deleteSent
    <2>2. l \in taken
      BY <1>1 DEF deleteSent, Deleting, Kinds, SentIsTaken
    <2> QED BY <1>1, <2>1, <2>2, DeletedKeeps DEF deleteSent
  <1>2. CASE purgeLine
    <2>1. PICK l \in doomed : Deleted(l) /\ purged' = purged \cup {l}
      BY <1>2 DEF purgeLine
    <2> QED BY <1>2, <2>1, DeletedKeeps DEF purgeLine
  <1>3. ASSUME NEW k \in drawn, addValue(k)
        PROVE  NothingDropped'
    <2> DEFINE l == [kind |-> k.kind, time |-> k.time, idx |-> k.idx, uid |-> writes]
               o == {m \in db : SameKey(m, l)}
    <2>1. /\ db' = (db \ o) \cup {l} /\ reused' = reused \cup o
          /\ writes' = writes + 1 /\ taken' = taken /\ purged' = purged
      BY <1>3 DEF addValue
    <2>2. SUFFICES ASSUME NEW u \in 0..writes' - 1
                   PROVE  \E m \in db' \cup taken' \cup purged' \cup reused' : m.uid = u
      BY DEF NothingDropped
    <2>3. CASE u = writes
      <3>1. l \in db' /\ l.uid = u
        BY <2>1, <2>3
      <3> QED BY <3>1
    <2>4. CASE u # writes
      <3>1. u \in 0..writes - 1
        BY <2>1, <2>4 DEF TypeOK
      <3>2. PICK m \in db \cup taken \cup purged \cup reused : m.uid = u
        BY <3>1 DEF NothingDropped
      <3>3. m \in db' \cup taken' \cup purged' \cup reused'
        BY <2>1
      <3> QED BY <3>2, <3>3
    <2> QED BY <2>3, <2>4
  <1>4. \/ \E kind \in Kinds : deleteSent(kind)
        \/ purgeLine
        \/ \E k \in drawn : addValue(k)
        \/ /\ db' = db /\ purged' = purged /\ reused' = reused /\ writes' = writes
           /\ taken \subseteq taken'
    BY DEF Next, Forward, Log, scan, skip, send, sendFails, deletedSent, purge, purgeEnds,
           pause, genIndex, countLine, Restart, Tick, vars
  <1>5. ASSUME db' = db, purged' = purged, reused' = reused, writes' = writes,
               taken \subseteq taken'
        PROVE  NothingDropped'
    BY <1>5 DEF NothingDropped
  <1> QED BY <1>1, <1>2, <1>3, <1>4, <1>5

\* The part of the invariant that does not need the keys holds in every state.
THEOREM Invariance == Spec => []Inv
  <1>1. Inv /\ [Next]_vars => Inv'
    BY StepType, StepFinite, StepSent, StepKeeps DEF Inv
  <1> QED BY InitInv, <1>1, PTL DEF Spec

\* The forwarder's variables keep their types, no two stored lines share a key, and
\* the backoff of either kind stays within max_backoff_period_.
THEOREM TypeCorrect == Spec => []TypeOK
  BY Invariance, PTL DEF Inv

\* Nothing leaves the buffer except what was taken, purged, or hit by a reused key,
\* for any number of lines, failed sends and restarts.
THEOREM LinesKept == Spec => []NothingDropped
  BY Invariance, PTL DEF Inv

\* What the threads that log write never removes a key that check has scanned.
LEMMA StepKeys == CountInv /\ [Next]_vars => KeysKept'
  <1> SUFFICES ASSUME CountInv, [Next]_vars PROVE KeysKept' OBVIOUS
  <1> USE DEF CountInv
  <1>0. OnePerKey(db)
    BY DEF Inv, TypeOK, OnePerKey
  <1>1. CASE scan
    BY <1>0, <1>1 DEF scan, scanDatabaseKeys, KeysKept, OnePerKey, Stored, SameKey, Of
  <1>2. ASSUME NEW kind \in Kinds, skip(kind) \/ deletedSent(kind) PROVE KeysKept'
    BY <1>2 DEF skip, deletedSent, After, Deleting, Kinds, KeysKept, OnePerKey, Stored, Of
  <1>3. ASSUME NEW kind \in Kinds, send(kind) PROVE KeysKept'
    BY <1>3 DEF send, Sending, Deleting, Kinds, KeysKept, OnePerKey, Stored, Of
  <1>4. ASSUME NEW kind \in Kinds, NEW received \in BOOLEAN, sendFails(kind, received)
        PROVE  KeysKept'
    BY <1>4 DEF sendFails, Sending, After, Kinds, KeysKept, OnePerKey, Stored, Of
  <1>5. ASSUME NEW kind \in Kinds, deleteSent(kind) PROVE KeysKept'
    <2>1. PICK l \in doomed : Deleted(l)
      BY <1>5 DEF deleteSent
    <2>2. \A k : Stored(k) /\ ~SameKey(k, l) => Stored(k)'
      BY <2>1 DEF Deleted, Stored, SameKey
    <2>3. \A k \in doomed' : k \in doomed /\ ~SameKey(k, l)
      BY <2>1 DEF Deleted, KeysKept, OnePerKey
    <2>4. pc = "del_r" => \A k \in Of("s", batch) : ~SameKey(k, l)
      BY DEF KeysKept, Of, SameKey
    <2> QED BY <1>5, <2>1, <2>2, <2>3, <2>4
            DEF deleteSent, Deleting, Kinds, KeysKept, OnePerKey, Of
  <1>6. CASE purge
    <2>1. \A n : \A L \in oldest(n) : L \subseteq db
      BY DEF oldest, kSubset, scanDatabaseKeys, Of
    <2>2. CASE UNCHANGED doomed
      BY <1>6, <2>2 DEF purge, KeysKept, OnePerKey, Stored
    <2>3. CASE doomed' \subseteq db
      BY <1>0, <1>6, <2>3 DEF purge, KeysKept, OnePerKey, Stored, SameKey
    <2> QED BY <1>6, <2>1, <2>2, <2>3 DEF purge
  <1>7. CASE purgeLine
    <2>1. PICK l \in doomed : Deleted(l)
      BY <1>7 DEF purgeLine
    <2>2. \A k : Stored(k) /\ ~SameKey(k, l) => Stored(k)'
      BY <2>1 DEF Deleted, Stored, SameKey
    <2>3. \A k \in doomed' : k \in doomed /\ ~SameKey(k, l)
      BY <2>1 DEF Deleted, KeysKept, OnePerKey
    <2> QED BY <1>7, <2>2, <2>3 DEF purgeLine, KeysKept, OnePerKey
  <1>8. CASE purgeEnds \/ pause
    BY <1>8 DEF purgeEnds, pause, KeysKept, OnePerKey, Stored
  <1>9. ASSUME NEW k \in drawn, addValue(k)
        PROVE  KeysKept'
    <2> DEFINE l == [kind |-> k.kind, time |-> k.time, idx |-> k.idx, uid |-> writes]
               o == {m \in db : SameKey(m, l)}
    <2>1. db' = (db \ o) \cup {l} /\ UNCHANGED forwarder
      BY <1>9 DEF addValue
    <2>2. \A m : Stored(m) => Stored(m)'
      BY <2>1 DEF Stored, SameKey
    <2> QED BY <2>1, <2>2 DEF forwarder, KeysKept, OnePerKey, Of
  <1>12. ASSUME NEW kind \in Kinds, NEW time \in {now - 1, now}, genIndex(kind, time)
         PROVE  KeysKept'
    BY <1>12 DEF genIndex, forwarder, KeysKept, OnePerKey, Stored, Of
  <1>10. CASE countLine \/ Tick \/ UNCHANGED vars
    BY <1>10 DEF countLine, Tick, vars, forwarder, KeysKept, OnePerKey, Stored, Of
  <1>11. CASE Restart
    BY <1>11 DEF Restart, KeysKept, OnePerKey, Of
  <1> QED
    BY <1>1, <1>2, <1>3, <1>4, <1>5, <1>6, <1>7, <1>8, <1>9, <1>10, <1>11,
       <1>12 DEF Next, Forward, Log

\* Every step of addValueWithCount and deleteValueWithCount keeps the count covering
\* the buffer.
LEMMA StepCount == CountInv /\ [Next]_vars => CountCoversBuffer'
  <1> SUFFICES ASSUME CountInv, [Next]_vars PROVE CountCoversBuffer' OBVIOUS
  <1> USE DEF CountInv, Inv
  <1>0. Cardinality(db) \in Nat /\ count \in Nat /\ uncounted \in Nat
    BY FS_CardinalityType DEF TypeOK
  <1>1. ASSUME NEW l \in doomed, Deleted(l), uncounted' = uncounted
        PROVE  CountCoversBuffer'
    <2>1. PICK m \in db : SameKey(m, l)
      BY DEF KeysKept, Stored
    <2>2. db' = db \ {m}
      BY <1>1, <2>1 DEF Deleted, TypeOK, SameKey
    <2>3. Cardinality(db') = Cardinality(db) - 1
      BY <2>1, <2>2, FS_RemoveElement
    <2> QED BY <1>0, <1>1, <2>3 DEF Deleted, CountCoversBuffer
  <1>2. ASSUME NEW k \in drawn, addValue(k)
        PROVE  CountCoversBuffer'
    <2> DEFINE l == [kind |-> k.kind, time |-> k.time, idx |-> k.idx, uid |-> writes]
               rest == db \ {m \in db : SameKey(m, l)}
    <2>1. db' = rest \cup {l} /\ uncounted' = uncounted + 1 /\ count' = count
      BY <1>2 DEF addValue
    <2>2. IsFiniteSet(rest) /\ Cardinality(rest) \in Nat
          /\ Cardinality(rest) <= Cardinality(db)
      BY FS_Subset, FS_CardinalityType
    <2>3. Cardinality(db') <= Cardinality(rest) + 1
      <3> HIDE DEF rest, l
      <3>1. Cardinality(rest \cup {l}) \in {Cardinality(rest), Cardinality(rest) + 1}
        BY <2>2, FS_AddElement
      <3> QED BY <2>1, <2>2, <3>1
    <2>4. Cardinality(db') \in Nat
      BY StepFinite, FS_CardinalityType
    <2> QED BY <1>0, <2>1, <2>2, <2>3, <2>4 DEF CountCoversBuffer
  <1>3. CASE countLine
    BY <1>0, <1>3 DEF countLine, CountCoversBuffer
  <1>4. CASE Restart
    BY <1>0, <1>4 DEF Restart, setUp, CountCoversBuffer
  <1>5. ASSUME db' = db, count' = count, uncounted' = uncounted PROVE CountCoversBuffer'
    BY <1>5 DEF CountCoversBuffer
  <1>6. \/ \E l \in doomed : Deleted(l) /\ uncounted' = uncounted
        \/ \E k \in drawn : addValue(k)
        \/ countLine \/ Restart
        \/ db' = db /\ count' = count /\ uncounted' = uncounted
    BY DEF Next, Forward, Log, scan, skip, send, sendFails, deleteSent, deletedSent, purge,
           purgeLine, purgeEnds, pause, genIndex, Tick, vars
  <1> QED BY <1>1, <1>2, <1>3, <1>4, <1>5, <1>6

\* buffer_count_ and the threads still to count cover the buffer, whatever the
\* threads that log do while the forwarder sends, deletes and purges.
THEOREM CountCovers == Spec => []CountCoversBuffer
  <1>1. Init => CountInv
    BY InitInv, FS_EmptySet
    DEF Init, CountInv, KeysKept, OnePerKey, Of, CountCoversBuffer
  <1>2. CountInv /\ [Next]_vars => CountInv'
    BY StepType, StepFinite, StepSent, StepKeeps, StepKeys, StepCount DEF CountInv, Inv
  <1>3. CountInv => CountCoversBuffer
    BY DEF CountInv
  <1> QED BY <1>1, <1>2, <1>3, PTL DEF Spec

-----------------------------------------------------------------------------
(* The buffer implements Delivery *)

Known == db \cup taken \cup purged \cup reused

\* What the forwarder holds was logged, and a new line is not yet known.
LinesKnown ==
  /\ batch \subseteq Known /\ doomed \subseteq Known
  /\ \A l \in Known : l.uid < writes

\* Lines have numbers.
LEMMA UidsAreNumbers == TypeOK => \A l \in Known : l.uid \in Nat
  BY DEF TypeOK, Known, Line

\* A step of the forwarder or of a logging thread accepts a line, forwards and drops
\* lines, or leaves all of them alone.
Changes ==
  \/ \E k \in drawn : addValue(k)
  \/ \E kind \in Kinds : deleteSent(kind)
  \/ purgeLine
  \/ /\ UNCHANGED <<db, purged, reused, writes>>
     /\ taken \subseteq taken' /\ taken' \subseteq taken \cup batch

\* Every step is one of these.
LEMMA StepChanges == [Next]_vars => Changes
  BY DEF Changes, Next, Forward, Log, scan, skip, send, sendFails, deletedSent, purge,
         purgeEnds, pause, genIndex, countLine, Restart, Tick, vars, Of

\* A key that is deleted after a send or by purge, with the line stored under it.
LEMMA DeletedForwards ==
  ASSUME LinesKnown, NEW l \in doomed, Deleted(l), l \in taken' \cup purged',
         taken' = taken, purged \subseteq purged', purged' \subseteq purged \cup {l}
  PROVE  Promise!Forward /\ Known' \subseteq Known /\ Known \subseteq Known'
  BY DEF Deleted, LinesKnown, Known, Promise!Forward, Promise!Known

\* Every step of the forwarder, the logging threads and a restart is a step of
\* Delivery or changes nothing there.
LEMMA StepDelivers ==
  ASSUME Inv, LinesKnown, [Next]_vars
  PROVE  /\ [Promise!Next]_<<db, taken, purged \cup reused>>
         /\ Known \subseteq Known'
         /\ \A l \in Known' : l.uid < writes'
  <1>0. writes \in Nat
    BY DEF Inv, TypeOK
  <1>1. ASSUME NEW k \in drawn, addValue(k)
        PROVE  /\ Promise!Accept /\ Known \subseteq Known'
               /\ \A l \in Known' : l.uid < writes'
    <2> DEFINE l == [kind |-> k.kind, time |-> k.time, idx |-> k.idx, uid |-> writes]
               o == {m \in db : SameKey(m, l)}
    <2>1. /\ db' = (db \ o) \cup {l} /\ reused' = reused \cup o
          /\ writes' = writes + 1 /\ taken' = taken /\ purged' = purged
      BY <1>1 DEF addValue
    <2>2. l \notin Known /\ l.uid = writes
      BY <1>0 DEF LinesKnown
    <2>3. l \in db' \ Known /\ db' \ {l} \subseteq db /\ db \ db' = o
      BY <2>1, <2>2 DEF Known
    <2>4. Promise!Accept
      BY <2>1, <2>3 DEF Promise!Accept, Promise!Known, Known
    <2>5. Known' = Known \cup {l}
      BY <2>1 DEF Known
    <2>6. \A m \in Known' : m.uid < writes'
      <3>1. \A m \in Known : m.uid < writes + 1
        BY <1>0, UidsAreNumbers DEF LinesKnown, Inv
      <3> QED BY <1>0, <2>1, <2>2, <2>5, <3>1
    <2> QED BY <2>4, <2>5, <2>6
  <1>2. ASSUME NEW kind \in Kinds, deleteSent(kind)
        PROVE  Promise!Forward /\ Known' = Known /\ writes' = writes
    <2>1. PICK l \in doomed : Deleted(l)
      BY <1>2 DEF deleteSent
    <2>2. l \in taken /\ taken' = taken /\ purged' = purged /\ writes' = writes
      BY <1>2 DEF deleteSent, Deleting, Kinds, Inv, SentIsTaken
    <2> QED BY <2>1, <2>2, DeletedForwards
  <1>3. CASE purgeLine
    <2>1. PICK l \in doomed : Deleted(l) /\ purged' = purged \cup {l}
      BY <1>3 DEF purgeLine
    <2>2. taken' = taken /\ writes' = writes
      BY <1>3 DEF purgeLine
    <2>3. Promise!Forward /\ Known' = Known
      BY <2>1, <2>2, DeletedForwards
    <2> QED BY <2>2, <2>3 DEF Promise!Next, LinesKnown
  <1>4. ASSUME UNCHANGED <<db, purged, reused, writes>>,
               taken \subseteq taken', taken' \subseteq taken \cup batch
        PROVE  Promise!Forward /\ Known' = Known /\ writes' = writes
    BY <1>4 DEF LinesKnown, Known, Promise!Forward, Promise!Known
  <1>5. Changes
    BY StepChanges
  <1> QED BY <1>1, <1>2, <1>3, <1>4, <1>5 DEF Changes, Promise!Next, LinesKnown

\* What the forwarder holds stays known.
LEMMA StepKnown ==
  ASSUME Inv, LinesKnown, [Next]_vars
  PROVE  LinesKnown'
  <1>1. /\ batch' \subseteq batch \cup db
        /\ doomed' \subseteq doomed \cup batch \cup db
    <2>1. \A n : \A L \in oldest(n) : L \subseteq db
      BY DEF oldest, kSubset, scanDatabaseKeys, Of
    <2> QED
      BY <2>1 DEF Next, Forward, Log, scan, scanDatabaseKeys, skip, send, sendFails,
                  deleteSent, deletedSent, Deleted, purge, purgeLine, purgeEnds, pause,
                  genIndex, addValue, countLine, Restart, Tick, vars, forwarder, Of
  <1> QED BY <1>1, StepDelivers DEF LinesKnown, Known

\* BufferedLog implements Delivery: with kept as the database, taken as what the
\* remote logger has, and dropped as what was purged or displaced by a reused key.
THEOREM Delivers == Spec => KeepsPromise
  <1>1. Init => Promise!Init /\ LinesKnown
    BY DEF Init, Promise!Init, LinesKnown, Known
  <1>2. Inv /\ LinesKnown /\ [Next]_vars => LinesKnown'
    BY StepKnown
  <1>3. Inv /\ LinesKnown /\ [Next]_vars
          => [Promise!Next]_<<db, taken, purged \cup reused>>
    BY StepDelivers
  <1> QED BY <1>1, <1>2, <1>3, Invariance, PTL DEF Spec, KeepsPromise, Promise!Spec

-----------------------------------------------------------------------------
(* Purge picks the oldest lines *)

\* What the text of two numbers below 100 compares, one digit or two.
LEMMA TextOrder ==
  ASSUME NEW a \in Nat, NEW b \in Nat
  PROVE  TextBefore(a, b) <=>
           IF a < 10 THEN IF b < 10 THEN a < b ELSE a <= b \div 10
                     ELSE IF b < 10 THEN a \div 10 < b ELSE a < b
  <1> DEFINE x == Digits(a)
             y == Digits(b)
             d == {i \in 1..Min({Len(x), Len(y)}) : x[i] # y[i]}
  <1>0. TextBefore(a, b) <=> IF d = {} THEN Len(x) < Len(y) ELSE x[Min(d)] < y[Min(d)]
    BY DEF TextBefore
  <1>1. \A s : s # {} /\ (s = {} \/ s = {1} \/ s = {2} \/ s = {1, 2})
               => IF 1 \in s THEN Min(s) = 1 ELSE Min(s) = 2
    BY DEF Min
  <1>2. Min({1, 1}) = 1 /\ Min({1, 2}) = 1 /\ Min({2, 1}) = 1 /\ Min({2, 2}) = 2
    BY DEF Min
  <1>3. /\ a < 10 => Len(x) = 1 /\ x[1] = a
        /\ ~(a < 10) => Len(x) = 2 /\ x[1] = a \div 10 /\ x[2] = a % 10
    BY DEF Digits
  <1>4. /\ b < 10 => Len(y) = 1 /\ y[1] = b
        /\ ~(b < 10) => Len(y) = 2 /\ y[1] = b \div 10 /\ y[2] = b % 10
    BY DEF Digits
  <1> HIDE DEF x, y
  <1>5. CASE a < 10 \/ b < 10
    <2>1. Min({Len(x), Len(y)}) = 1
      BY <1>2, <1>3, <1>4, <1>5
    <2>2. d \subseteq {1} /\ (1 \in d <=> x[1] # y[1])
      BY <2>1
    <2>3. d = {} <=> x[1] = y[1]
      <3> HIDE DEF d
      <3> QED BY <2>2
    <2>4. d # {} => Min(d) = 1
      <3>1. d # {} => d = {1}
        <4> HIDE DEF d
        <4> QED BY <2>2
      <3> QED BY <1>1, <3>1
    <2> HIDE DEF d
    <2>5. TextBefore(a, b) <=> IF x[1] = y[1] THEN Len(x) < Len(y) ELSE x[1] < y[1]
      BY <1>0, <2>3, <2>4
    <2>6. CASE a < 10 /\ b < 10
      BY <1>3, <1>4, <2>5, <2>6
    <2>7. CASE a < 10 /\ ~(b < 10)
      BY <1>3, <1>4, <2>5, <2>7
    <2>8. CASE ~(a < 10) /\ b < 10
      BY <1>3, <1>4, <2>5, <2>8
    <2> QED BY <1>5, <2>6, <2>7, <2>8
  <1>6. CASE ~(a < 10) /\ ~(b < 10)
    <2>1. Min({Len(x), Len(y)}) = 2
      BY <1>2, <1>3, <1>4, <1>6
    <2>2. d \subseteq {1, 2} /\ (1 \in d <=> x[1] # y[1]) /\ (2 \in d <=> x[2] # y[2])
      BY <2>1
    <2>3. d # {} => IF 1 \in d THEN Min(d) = 1 ELSE Min(d) = 2
      <3>1. d = {} \/ d = {1} \/ d = {2} \/ d = {1, 2}
        BY <2>2
      <3> QED BY <1>1, <3>1
    <2> HIDE DEF d
    <2>4. d = {} <=> x[1] = y[1] /\ x[2] = y[2]
      BY <2>2
    <2>5. TextBefore(a, b) <=> x[1] < y[1] \/ (x[1] = y[1] /\ x[2] < y[2])
      BY <1>0, <1>3, <1>4, <1>6, <2>2, <2>3, <2>4
    <2>6. a = 10 * (a \div 10) + (a % 10) /\ b = 10 * (b \div 10) + (b % 10)
          /\ a % 10 \in 0..9 /\ b % 10 \in 0..9
      OBVIOUS
    <2> QED BY <1>3, <1>4, <1>6, <2>5, <2>6
  <1> QED BY <1>5, <1>6

\* The keys of the database are in a strict order.
LEMMA KeysOrdered ==
  /\ \A a \in Line : ~KeyBefore(a, a)
  /\ \A a, b, c \in Line : KeyBefore(a, b) /\ KeyBefore(b, c) => KeyBefore(a, c)
  <1>1. \A a \in Nat : ~TextBefore(a, a)
    BY TextOrder
  <1>2. \A a, b, c \in Nat : TextBefore(a, b) /\ TextBefore(b, c) => TextBefore(a, c)
    <2> SUFFICES ASSUME NEW a \in Nat, NEW b \in Nat, NEW c \in Nat,
                        TextBefore(a, b), TextBefore(b, c)
                 PROVE  TextBefore(a, c)
      OBVIOUS
    <2>1. /\ a \div 10 \in Nat /\ b \div 10 \in Nat /\ c \div 10 \in Nat
          /\ a < b => a \div 10 <= b \div 10
          /\ b < c => b \div 10 <= c \div 10
      OBVIOUS
    <2>2. /\ IF a < 10 THEN IF b < 10 THEN a < b ELSE a <= b \div 10
                       ELSE IF b < 10 THEN a \div 10 < b ELSE a < b
          /\ IF b < 10 THEN IF c < 10 THEN b < c ELSE b <= c \div 10
                       ELSE IF c < 10 THEN b \div 10 < c ELSE b < c
      BY TextOrder
    <2>3. IF a < 10 THEN IF c < 10 THEN a < c ELSE a <= c \div 10
                    ELSE IF c < 10 THEN a \div 10 < c ELSE a < c
      BY <2>1, <2>2
    <2> QED BY <2>3, TextOrder
  <1>3. \A a \in Line : a.kind \in Kinds /\ a.time \in Nat /\ a.idx \in Nat
    BY DEF Line
  <1> QED BY <1>1, <1>2, <1>3 DEF KeyBefore, Older, Kinds

\* scanDatabaseKeys with a limit finds that many keys, unless it finds all of them.
LEMMA ScanFills ==
  ASSUME NEW L, L \subseteq Line, IsFiniteSet(L), NEW n \in Nat,
         scanDatabaseKeys(L, n) # L
  PROVE  Cardinality(scanDatabaseKeys(L, n)) >= n
  <1> DEFINE below(a) == {b \in L : KeyBefore(b, a)}
             S == scanDatabaseKeys(L, n)
             T == {below(a) : a \in L \ S}
  <1>1. S \subseteq L /\ S # L /\ \A a \in L : a \in S <=> Cardinality(below(a)) < n
    BY DEF scanDatabaseKeys
  <1>2. \A a \in L : below(a) \in FiniteSubsetsOf(L)
    BY FS_Subset DEF FiniteSubsetsOf
  <1>3. T # {} /\ T \subseteq FiniteSubsetsOf(L)
    BY <1>1, <1>2
  <1>4. PICK t \in T : \A u \in T : ~(<<u, t>> \in StrictSubsetOrdering(L))
    <2> HIDE DEF T
    <2> QED BY <1>3, FS_StrictSubsetOrderingWellFounded, WFMin
  <1>5. PICK a \in L \ S : t = below(a)
    BY <1>4
  <1>6. below(a) \subseteq S
    <2> SUFFICES ASSUME NEW b \in L, KeyBefore(b, a), b \notin S PROVE FALSE
      OBVIOUS
    <2>1. below(b) \subseteq below(a) /\ b \in below(a) /\ b \notin below(b)
      BY KeysOrdered
    <2>2. <<below(b), below(a)>> \in StrictSubsetOrdering(L)
      BY <2>1 DEF StrictSubsetOrdering
    <2>3. below(b) \in T
      OBVIOUS
    <2> QED BY <1>4, <1>5, <2>2, <2>3
  <1>7. IsFiniteSet(S) /\ Cardinality(S) \in Nat
    BY <1>1, FS_Subset, FS_CardinalityType
  <1>8. Cardinality(below(a)) \in Nat /\ Cardinality(below(a)) <= Cardinality(S)
    <2> HIDE DEF S, below
    <2> QED BY <1>6, <1>7, FS_Subset, FS_CardinalityType
  <1>9. ~(Cardinality(below(a)) < n)
    BY <1>1
  <1> HIDE DEF S, below
  <1>10. Cardinality(S) >= n
    BY <1>7, <1>8, <1>9
  <1> QED BY <1>10 DEF S

\* A key that the scan of purge has not reached is not older than one it has.
LEMMA ScanOldest ==
  ASSUME NEW L, L \subseteq Line, IsFiniteSet(L), NEW n \in Nat,
         NEW kind \in Kinds, \A a \in L : a.kind = kind,
         NEW b \in scanDatabaseKeys(L, n), NEW m \in L \ scanDatabaseKeys(L, n)
  PROVE  b.time <= m.time
  <1> DEFINE below(a) == {c \in L : KeyBefore(c, a)}
  <1>0. b \in L /\ \A a \in L : a.time \in Nat
    BY DEF scanDatabaseKeys, Line
  <1> SUFFICES ASSUME m.time < b.time PROVE FALSE
    BY <1>0
  <1>1. below(m) \subseteq below(b)
    BY <1>0 DEF KeyBefore, Older, Kinds
  <1>2. Cardinality(below(b)) < n /\ ~(Cardinality(below(m)) < n)
    BY DEF scanDatabaseKeys
  <1>3. IsFiniteSet(below(b)) /\ IsFiniteSet(below(m))
    BY FS_Subset
  <1> HIDE DEF below
  <1>4. Cardinality(below(m)) <= Cardinality(below(b))
        /\ Cardinality(below(b)) \in Nat /\ Cardinality(below(m)) \in Nat
    BY <1>1, <1>3, FS_Subset, FS_CardinalityType
  <1> QED BY <1>2, <1>4

\* nth_element over the keys that purge has scanned picks the oldest of all.
LEMMA OldestOfAll ==
  ASSUME Inv, NEW n \in Nat, NEW L \in oldest(n), NEW l \in L, NEW m \in db \ L
  PROVE  l.time <= m.time
  <1> DEFINE S(k) == scanDatabaseKeys(Of(k, db), n)
             found == UNION {S(k) : k \in Kinds}
  <1>0. /\ L \subseteq found /\ Cardinality(L) = n
        /\ \A x \in L, y \in found \ L : ~Older(y, x)
    BY DEF oldest, kSubset
  <1>1. found \subseteq db /\ \A x \in db : x.time \in Nat /\ x.kind \in Kinds
    BY DEF scanDatabaseKeys, Of, Inv, TypeOK, Line
  <1>2. \A y \in found \ L : l.time <= y.time
    BY <1>0, <1>1 DEF Older
  <1>3. CASE m \in found
    BY <1>2, <1>3
  <1>4. CASE m \notin found
    <2>1. PICK k \in Kinds : m \in Of(k, db)
      BY <1>1 DEF Of
    <2>2. m \notin S(k) /\ S(k) \subseteq found
      BY <1>4
    <2>3. /\ Of(k, db) \subseteq Line /\ IsFiniteSet(Of(k, db))
          /\ \A a \in Of(k, db) : a.kind = k
      BY FS_Subset DEF Of, Inv, TypeOK
    <2>4. \A b \in S(k) : b.time <= m.time
      BY <2>1, <2>2, <2>3, ScanOldest
    <2>5. Cardinality(S(k)) >= n
      BY <2>1, <2>2, <2>3, ScanFills
    <2>6. CASE S(k) \subseteq L
      <3>1. IsFiniteSet(L)
        BY <1>0, <1>1, FS_Subset DEF Inv
      <3> HIDE DEF S
      <3>2. Cardinality(S(k)) \in Nat /\ Cardinality(S(k)) <= Cardinality(L)
            /\ (Cardinality(L) = Cardinality(S(k)) => L = S(k))
        BY <2>6, <3>1, FS_Subset, FS_CardinalityType
      <3>3. L = S(k)
        BY <1>0, <2>5, <3>2
      <3> QED BY <2>4, <3>3
    <2>7. CASE ~(S(k) \subseteq L)
      <3>1. PICK b \in S(k) : b \notin L
        BY <2>7
      <3>2. b \in found /\ l.time <= b.time /\ b.time <= m.time
        BY <1>2, <2>2, <2>4, <3>1
      <3>3. l.time \in Nat /\ b.time \in Nat /\ m.time \in Nat
        BY <1>0, <1>1, <3>2
      <3> QED BY <3>2, <3>3
    <2> QED BY <2>6, <2>7
  <1> QED BY <1>3, <1>4

\* Between two rounds of deletions there is nothing to delete.
NoneDoomed == pc \notin {"del_r", "del_s", "purging"} => doomed = {}

\* Every step of the forwarder and of the threads keeps it so.
LEMMA StepDoomed == Inv /\ NoneDoomed /\ [Next]_vars => NoneDoomed'
  <1> SUFFICES ASSUME Inv, NoneDoomed, [Next]_vars PROVE NoneDoomed' OBVIOUS
  <1> USE DEF NoneDoomed, forwarder
  <1>1. CASE Forward
    BY <1>1 DEF Forward, Kinds, scan, skip, send, sendFails, Sending, deleteSent,
                deletedSent, After, Deleting, Deleted, purge, purgeLine, purgeEnds, pause
  <1>2. CASE Log
    BY <1>2 DEF Log, genIndex, addValue, countLine
  <1>3. CASE Restart \/ Tick \/ UNCHANGED vars
    BY <1>3 DEF Restart, Tick, vars
  <1> QED BY <1>1, <1>2, <1>3 DEF Next

\* purge never picks a line while one with an older timestamp, of either kind, stays:
\* although it scans only as many keys of each kind as it is going to delete.
THEOREM PurgeOrder == Spec => PurgesOldest
  <1>1. Init => NoneDoomed
    BY DEF Init, NoneDoomed
  <1>2. ASSUME Inv, NoneDoomed, [Next]_vars, pc = "purge",
               NEW l \in doomed', NEW m \in db \ doomed'
        PROVE  l.time <= m.time
    <2>1. CASE purge /\ pc' = "purging"
      <3>1. count - LogMax > 0 /\ doomed' \in oldest(count - LogMax)
        BY <2>1 DEF purge
      <3>2. count - LogMax \in Nat
        BY <1>2, <3>1, FlagsAssumption DEF Inv, TypeOK
      <3> QED BY <1>2, <3>1, <3>2, OldestOfAll
    <2>2. CASE ~(purge /\ pc' = "purging")
      <3>1. doomed' = {}
        BY <1>2, <2>2 DEF NoneDoomed, forwarder, Next, Forward, Kinds, scan, skip, send,
             sendFails, Sending, deleteSent, deletedSent, Deleting, purge, purgeLine,
             purgeEnds, pause, Log, genIndex, addValue, countLine, Restart, Tick, vars
      <3> QED BY <3>1
    <2> QED BY <2>1, <2>2
  <1>3. Inv /\ NoneDoomed /\ [Next]_vars
          => [pc = "purge" => \A l \in doomed' : \A m \in db \ doomed' : l.time <= m.time]_vars
    BY <1>2
  <1> QED BY <1>1, <1>3, StepDoomed, Invariance, PTL DEF Spec, PurgesOldest
=============================================================================
