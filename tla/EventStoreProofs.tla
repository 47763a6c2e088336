-------------------------- MODULE EventStoreProofs --------------------------
(***************************************************************************)
(* Proofs about EventStore, for any subscribers, queries, limits and       *)
(* bounds.                                                                 *)
(*                                                                         *)
(* The argument rests on the last event of the newest batch: neither limit *)
(* evicts it, so a restart finds it, and it never goes back (Inv and       *)
(* StepInv, which need no hypothesis).  With one event table to a query    *)
(* the query's pointers never pass it (PointerInv); with events added      *)
(* within a second of their time, what is not read stays ahead of the      *)
(* pointers (UnreadInv); with events added at their own time, what is      *)
(* logged stays behind them (OnceInv).  A query on several tables has one  *)
(* pair of pointers for all of them, and neither holds.                    *)
(***************************************************************************)
EXTENDS EventStore, FiniteSetTheorems, NaturalsInduction, WellFoundedInduction, TLAPS

\* Every query reads one event table.
OneTable == \A q \in Queries : \A s, u \in Tables[q] : s = u

-----------------------------------------------------------------------------
(* The store *)

\* e is the last event of the newest batch, in the database as in the index; what
\* the index does not list is older.
Top(s, e) ==
  /\ e \in index[s]
  /\ \A f \in db[s] : \/ f.time < e.time
                      \/ f \in index[s] /\ f.time = e.time /\ f.id <= e.id

\* The buffer of a subscriber: its ids are behind lastId, its times behind the
\* clock, and its newest batch is in the index.
BufferInv(s) ==
  /\ lastId[s] >= 1
  /\ \A e \in db[s] : 1 < e.id /\ e.id <= lastId[s] /\ e.time <= now
  /\ db[s] # {} => \E e \in index[s] : Top(s, e)
  /\ doomed[s] \cap index[s] = {}

StoreInv ==
  /\ now >= Expiry + 2
  /\ \A s \in Subscribers : BufferInv(s)
  /\ \A s \in Subscribers : cleanup[s] = "overflow" => doomed[s] = {}

AtTable == {"fetch", "time", "eid", "check", "bound", "expire", "delete"}

\* Where the scheduler's thread is; what it has erased from the index is not the
\* publisher's to delete.
ThreadInv ==
  /\ th.pc = "idle" <=> th.q = NoQuery
  /\ th.pc # "idle" => th.todo \subseteq Tables[th.q]
  /\ th.pc \in AtTable => th.s \in Tables[th.q]
  /\ th.pc # "fetch" => th.got = {}
  /\ th.pc # "delete" => th.doomed = {}
  /\ th.pc = "delete" => th.doomed \subseteq db[th.s] \ (index[th.s] \cup doomed[th.s])
  /\ th.pc \in {"idle", "table", "fetch"} /\ OneTable => th.rows = {}
  /\ th.pc \in AtTable /\ OneTable => th.todo = {}

Inv == TypeOK /\ StoreInv /\ ThreadInv

-----------------------------------------------------------------------------
(* The pointers of the queries *)

\* The time t and the id i are not past the last event of s.
Reached(s, t, i) ==
  /\ db[s] = {} => t = 0 /\ i = 0
  /\ \A e \in index[s] : Top(s, e) => t <= e.time /\ i <= e.id

Saving == {"fetch", "time", "eid"}

PointerInv ==
  /\ \A q \in Queries : \A s \in Tables[q] : Reached(s, optTime[q], optEid[q])
  /\ th.pc \in Saving => Reached(th.s, th.last.time, th.last.id)
  /\ th.pc \in Saving /\ th.last.id # 0 =>
       optTime[th.q] <= th.last.time /\ optEid[th.q] <= th.last.id

-----------------------------------------------------------------------------
(* What the queries have read *)

Unread(q, s) == db[s] \ (evicted[s] \cup Read(q))

\* The event e is within the pointers of q, and within the ones that q is about to
\* save.
Ahead(q, e) ==
  /\ Visible(q, e)
  /\ th.q = q /\ th.pc \in Saving => e.time + 1 >= th.last.time /\ e.id > th.last.id

\* What a query has not read is in the index and ahead of it; what it has collected
\* but not saved the pointers for is still within them; and no start time that the
\* expiry may use is past the query's.
UnreadInv ==
  /\ \A q \in Queries : \A s \in Tables[q] : \A e \in Unread(q, s) :
       e \in index[s] /\ Ahead(q, e)
  /\ \A q \in Queries : th.q = q => \A e \in th.got : Visible(q, e)
  /\ th.pc \in {"time", "eid"} => th.last.id # 0
  /\ \A s \in Subscribers, q \in Queries :
       queries[s][q] # -1 => s \in Tables[q] /\ queries[s][q] <= start(q)

\* When all queries are recorded, they still are, or all have been forgotten; and the
\* time up to which the end of a query expires is not past the start of any query,
\* unless it is the clock's.
ExpireInv ==
  /\ th.pc = "bound" => recorded(th.s) = {} \/ recorded(th.s) = readers(th.s)
  /\ th.pc = "expire" /\ ~th.byClock => \A q \in readers(th.s) : th.until <= start(q)

-----------------------------------------------------------------------------
(* What the queries have logged *)

\* The last event of the newest batch has the largest id.
LargestIsLast(s) == \A e \in index[s] : Top(s, e) => \A f \in db[s] : f.id <= e.id

\* What a query has logged is behind its pointer, and what it is about to log is
\* behind the pointer it saves.
OnceInv ==
  /\ \A s \in Subscribers : LargestIsLast(s)
  /\ \A q \in Queries : \A e \in logged[q] : e.id <= optEid[q]
  /\ th.pc \in Saving =>
       \A e \in th.got \cup th.rows : e.id <= th.last.id /\ e \notin logged[th.q]
  /\ th.pc \in {"check", "bound", "expire", "delete", "log"} =>
       \A e \in th.rows : e.id <= optEid[th.q]
  /\ LoggedOnce

-----------------------------------------------------------------------------
(* The size of the index *)

\* Since the last checkpoint the index has gained at most one batch per event.
Bounded(s) ==
  MaxBatches > 0 /\ cleanup[s] # "overflow"
    => Cardinality(Times(index[s])) <= MaxBatches + (count[s] % Checkpoint)

BoundInv == \A s \in Subscribers : Bounded(s)

-----------------------------------------------------------------------------
(* Numbers *)

\* A set of naturals has a least element, and a greatest one if it has a bound.
LEMMA Least ==
  ASSUME NEW T, T \subseteq Nat, T # {}
  PROVE  Min(T) \in T /\ \A y \in T : Min(T) <= y
  <1> DEFINE R == OpToRel(<, Nat)
  <1>1. IsWellFoundedOn(R, Nat)
    BY NatLessThanWellFounded
  <1>2. \A x, y \in Nat : y < x => <<y, x>> \in R
    BY DEF OpToRel
  <1> HIDE DEF R
  <1>3. PICK x \in T : \A y \in T : ~(<<y, x>> \in R)
    BY <1>1, WFMin
  <1>4. \A y \in T : ~(y < x)
    BY <1>2, <1>3
  <1>5. \A y \in T : x <= y
    BY <1>4
  <1> QED BY <1>5 DEF Min

\* A bounded set of numbers has a largest element, which Max gives.
LEMMA Greatest ==
  ASSUME NEW T, T \subseteq Nat, T # {}, NEW n \in Nat, \A x \in T : x <= n
  PROVE  Max(T) \in T /\ \A y \in T : y <= Max(T)
  <1> DEFINE U == {n - x : x \in T}
  <1>0. \A x \in T : n - x \in Nat
    OBVIOUS
  <1>1. U \subseteq Nat /\ U # {}
    BY <1>0
  <1>2. Min(U) \in U /\ \A y \in U : Min(U) <= y
    <2> HIDE DEF U
    <2> QED BY <1>1, Least
  <1>3. PICK x \in T : Min(U) = n - x
    BY <1>2
  <1>4. \A y \in T : n - x <= n - y
    BY <1>2, <1>3
  <1>5. \A y \in T : x >= y
    BY <1>4
  <1>6. Max(T) \in T /\ \A y \in T : Max(T) >= y
    BY <1>3, <1>5 DEF Max
  <1> QED BY <1>6

\* The greatest time of a set of events, when one of them is known to have it.
LEMMA MaxTimes ==
  ASSUME NEW E, E \subseteq Event, NEW e \in E, \A f \in E : f.time <= e.time
  PROVE  Max(Times(E)) = e.time
  <1>1. \A t \in Times(E) : t \in Nat /\ e.time >= t
    BY DEF Times, Event
  <1>2. e.time \in Times(E)
    BY DEF Times
  <1>3. Max(Times(E)) \in Times(E) /\ \A t \in Times(E) : Max(Times(E)) >= t
    BY <1>1, <1>2 DEF Max
  <1> QED BY <1>1, <1>2, <1>3

-----------------------------------------------------------------------------
(* What an eviction takes *)

\* Neither eviction takes an event of the newest batch.
LEMMA ExpiredIsOld ==
  ASSUME NEW E, E \subseteq Event, NEW c
  PROVE  /\ expired(E, c) \subseteq E
         /\ \A f \in expired(E, c) : f.time <= c - Expiry
         /\ \A e \in E : (\A f \in E : f.time <= e.time) =>
              \A f \in expired(E, c) : f.time < e.time
  <1>1. /\ expired(E, c) \subseteq E
        /\ \A f \in expired(E, c) : f.time <= c - Expiry /\ f.time # Max(Times(E))
    BY DEF expired
  <1>2. ASSUME NEW e \in E, \A f \in E : f.time <= e.time, NEW f \in expired(E, c)
        PROVE  f.time < e.time
    <2>1. f.time # e.time /\ f.time <= e.time
      BY <1>1, <1>2, MaxTimes
    <2>2. f.time \in Nat /\ e.time \in Nat
      BY <1>1 DEF Event
    <2> QED BY <2>1, <2>2
  <1> QED BY <1>1, <1>2

\* removeOverflowingEventBatches takes only batches older than the newest one.
LEMMA OverflowIsOld ==
  ASSUME NEW E, E \subseteq Event
  PROVE  /\ overflowing(E) \subseteq E
         /\ \A e \in E : (\A f \in E : f.time <= e.time) =>
              \A f \in overflowing(E) : f.time < e.time
  <1>1. overflowing(E) \subseteq E
    BY DEF overflowing
  <1>2. ASSUME NEW e \in E, \A f \in E : f.time <= e.time, NEW f \in overflowing(E)
        PROVE  f.time < e.time
    <2>1. f.time \in Nat /\ e.time \in Nat /\ f.time <= e.time
      BY <1>1, <1>2 DEF Event
    <2>2. ASSUME f.time = e.time PROVE FALSE
      <3>1. {t \in Times(E) : t >= f.time} = {e.time}
        BY <1>2, <2>2 DEF Times, Event
      <3>2. Cardinality({t \in Times(E) : t >= f.time}) = 1
        BY <3>1, FS_Singleton
      <3>3. MaxBatches # 0 /\ Cardinality({t \in Times(E) : t >= f.time}) > MaxBatches
        BY <1>2 DEF overflowing
      <3> QED BY <3>2, <3>3, FlagsAssumption
    <2> QED BY <2>1, <2>2
  <1> QED BY <1>1, <1>2

-----------------------------------------------------------------------------
(* The last event of a buffer *)

\* The last event of a subscriber never goes back.
Grows(s) ==
  \A e \in index[s] : Top(s, e) =>
    \E f \in index'[s] : Top(s, f)' /\ e.time <= f.time /\ e.id <= f.id

\* What the types say of an event of the buffer.
LEMMA EventTypes ==
  ASSUME TypeOK, NEW s \in Subscribers
  PROVE  /\ db[s] \subseteq Event /\ index[s] \subseteq db[s] /\ doomed[s] \subseteq db[s]
         /\ \A e \in db[s] : e.id \in Nat /\ e.time \in Nat
         /\ now \in Nat /\ lastId[s] \in Nat
  BY DEF TypeOK, Buffers, Event

\* There is one newest event.
LEMMA TopIsOne ==
  ASSUME TypeOK, NEW s \in Subscribers, NEW e \in index[s], NEW f \in index[s],
         Top(s, e), Top(s, f)
  PROVE  e.time = f.time /\ e.id = f.id
  <1>1. /\ e \in db[s] /\ f \in db[s]
        /\ e.time \in Nat /\ f.time \in Nat /\ e.id \in Nat /\ f.id \in Nat
    BY EventTypes
  <1>2. f.time < e.time \/ (f.time = e.time /\ f.id <= e.id)
    BY <1>1 DEF Top
  <1>3. e.time < f.time \/ (e.time = f.time /\ e.id <= f.id)
    BY <1>1 DEF Top
  <1> QED BY <1>1, <1>2, <1>3

\* A buffer loses events, but none of the newest batch: its last event stays.
LEMMA TopStays ==
  ASSUME TypeOK, NEW s \in Subscribers, NEW e \in index[s], Top(s, e),
         db'[s] \subseteq db[s],
         e \in index'[s],
         \A f \in db'[s] : f.time = e.time /\ f \in index[s] => f \in index'[s]
  PROVE  Top(s, e)'
  BY DEF Top

\* A buffer whose evicted events are all older than its last one.
LEMMA BufferErases ==
  ASSUME TypeOK, NEW s \in Subscribers, BufferInv(s),
         NEW E, NEW D,
         index'[s] = index[s] \ E, db'[s] = db[s] \ D, D \cap index'[s] = {},
         \A e \in index[s] : Top(s, e) => \A f \in E : f.time < e.time,
         lastId'[s] = lastId[s], now' = now,
         doomed'[s] \cap index'[s] = {}
  PROVE  BufferInv(s)' /\ Grows(s)
  <1>1. ASSUME NEW e \in index[s], Top(s, e) PROVE e \in index'[s] /\ Top(s, e)'
    <2>1. e.time \in Nat /\ ~(e.time < e.time)
      BY EventTypes
    <2>2. e \in index'[s]
      BY <1>1, <2>1
    <2>3. \A f \in db'[s] : f.time = e.time /\ f \in index[s] => f \in index'[s]
      BY <1>1, <2>1
    <2>4. db'[s] \subseteq db[s]
      OBVIOUS
    <2> QED BY <1>1, <2>2, <2>3, <2>4, TopStays
  <1>2. Grows(s)
    <2>1. \A e \in index[s] : e.time \in Nat /\ e.id \in Nat
      BY EventTypes
    <2> QED BY <1>1, <2>1 DEF Grows
  <1>3. db'[s] # {} => \E e \in index'[s] : Top(s, e)'
    BY <1>1 DEF BufferInv
  <1>4. (\A e \in db[s] : 1 < e.id /\ e.id <= lastId[s] /\ e.time <= now)'
    BY DEF BufferInv
  <1>5. lastId'[s] >= 1
    BY DEF BufferInv
  <1> QED BY <1>2, <1>3, <1>4, <1>5 DEF BufferInv

\* A buffer that no step has touched.
LEMMA BufferSame ==
  ASSUME TypeOK, NEW s \in Subscribers, BufferInv(s),
         index'[s] = index[s], db'[s] = db[s], lastId'[s] = lastId[s],
         doomed'[s] = doomed[s], now' \in Nat, now' >= now
  PROVE  BufferInv(s)' /\ Grows(s)
  <1>1. \A e \in index[s] : Top(s, e) => Top(s, e)'
    BY DEF Top
  <1>2. Grows(s)
    <2>1. \A e \in index[s] : e.time \in Nat /\ e.id \in Nat
      BY EventTypes
    <2> QED BY <1>1, <2>1 DEF Grows
  <1>3. \A e \in db[s] : e.time \in Nat /\ now \in Nat
    BY EventTypes
  <1>4. (\A e \in db[s] : 1 < e.id /\ e.id <= lastId[s] /\ e.time <= now)'
    BY <1>3 DEF BufferInv
  <1>5. db'[s] # {} => \E e \in index'[s] : Top(s, e)'
    BY <1>1 DEF BufferInv
  <1> QED BY <1>2, <1>4, <1>5 DEF BufferInv

\* The rows of a batch have new ids and are of one time: they are the newest batch,
\* belong to it, or are older.
LEMMA BufferAdds ==
  ASSUME TypeOK, NEW s \in Subscribers, BufferInv(s),
         NEW n \in Nat \ {0}, NEW t \in Nat, t <= now,
         NEW rows, rows = {[id |-> lastId[s] + i, time |-> t] : i \in 1..n},
         db'[s] = db[s] \cup rows, index'[s] = index[s] \cup rows,
         lastId'[s] = lastId[s] + n, doomed'[s] = doomed[s], now' = now
  PROVE  /\ BufferInv(s)' /\ Grows(s)
         /\ rows \subseteq Event /\ rows \cap db[s] = {}
  <1>1. /\ now \in Nat /\ lastId[s] \in Nat /\ index[s] \subseteq db[s]
        /\ doomed[s] \subseteq db[s]
        /\ \A e \in db[s] : e.id \in Nat /\ e.time \in Nat
    BY EventTypes
  <1>2. /\ \A i \in 1..n : lastId[s] + i \in Nat
        /\ n \in 1..n
    BY <1>1
  <1>3. rows \subseteq Event
    BY <1>2 DEF Event
  <1>4. \A r \in rows : /\ r.time = t /\ lastId[s] < r.id /\ r.id <= lastId[s] + n
                        /\ r.id \in Nat
    BY <1>1
  <1>5. \A e \in db[s] : e.id <= lastId[s] /\ e.time <= now /\ 1 < e.id
    BY DEF BufferInv
  <1>6. rows \cap db[s] = {}
    BY <1>1, <1>4, <1>5
  <1>7. PICK new \in rows : new.id = lastId[s] + n /\ new.time = t
    <2>1. [id |-> lastId[s] + n, time |-> t] \in rows
      BY <1>2
    <2> QED BY <2>1
  <1>8. ASSUME \A e \in db[s] : e.time <= t PROVE Top(s, new)'
    <2>1. ASSUME NEW f \in db'[s]
          PROVE  f.time < new.time \/ (f \in index'[s] /\ f.time = new.time /\ f.id <= new.id)
      <3>1. CASE f \in rows
        BY <3>1, <1>4, <1>7
      <3>2. CASE f \in db[s] /\ f.time < t
        BY <3>2, <1>7
      <3>3. CASE f \in db[s] /\ f.time = t
        <4>1. PICK e \in index[s] : Top(s, e)
          BY <3>3 DEF BufferInv
        <4>2. e.time <= t /\ e.time \in Nat
          BY <1>1, <1>8
        <4>3. f \in index[s]
          BY <3>3, <4>1, <4>2 DEF Top
        <4>4. f.id <= new.id
          BY <1>1, <1>5, <1>7, <3>3
        <4> QED BY <3>3, <4>3, <4>4, <1>7
      <3> QED BY <2>1, <1>1, <1>8, <3>1, <3>2, <3>3
    <2> QED BY <2>1, <1>7 DEF Top
  <1>9. ASSUME NEW e \in index[s], Top(s, e)
        PROVE  \E f \in index'[s] : Top(s, f)' /\ e.time <= f.time /\ e.id <= f.id
    <2>0. e \in db[s] /\ e.time \in Nat /\ e.id \in Nat /\ e.id <= lastId[s] + n
      BY <1>1, <1>5
    <2>1. CASE e.time <= t
      <3>1. \A f \in db[s] : f.time <= e.time
        BY <1>9, <1>1 DEF Top
      <3>2. \A f \in db[s] : f.time <= t
        BY <3>1, <2>0, <2>1, <1>1
      <3> QED BY <3>2, <1>8, <1>7, <2>0, <2>1
    <2>2. CASE e.time > t
      <3>1. Top(s, e)'
        BY <1>9, <2>2, <1>4 DEF Top
      <3> QED BY <3>1, <2>0
    <2> QED BY <2>0, <2>1, <2>2
  <1>10. \E f \in index'[s] : Top(s, f)'
    <2>1. CASE db[s] = {}
      BY <2>1, <1>7, <1>8
    <2>2. CASE db[s] # {}
      BY <2>2, <1>9 DEF BufferInv
    <2> QED BY <2>1, <2>2
  <1>11. (\A e \in db[s] : 1 < e.id /\ e.id <= lastId[s] /\ e.time <= now)'
    <2>1. 1 <= lastId[s]
      BY <1>1 DEF BufferInv
    <2> QED BY <1>1, <1>4, <1>5, <2>1
  <1>12. doomed'[s] \cap index'[s] = {}
    BY <1>1, <1>6 DEF BufferInv
  <1>13. lastId'[s] >= 1
    BY <1>1 DEF BufferInv
  <1> QED BY <1>3, <1>6, <1>9, <1>10, <1>11, <1>12, <1>13 DEF BufferInv, Grows

-----------------------------------------------------------------------------
(* Steps of the publisher's thread *)

Grow == \A s \in Subscribers : Grows(s)

\* The thread of the scheduler at rest.
LEMMA IdleType ==
  /\ Idle \in Threads /\ Idle.pc = "idle" /\ Idle.q = NoQuery /\ Idle.got = {}
  /\ Idle.rows = {} /\ Idle.doomed = {} /\ Idle.todo = {}
  /\ Idle.last \in Event /\ Idle.last.id = 0 /\ Idle.last.time = 0
  <1>1. [id |-> 0, time |-> 0] \in Event
    BY DEF Event
  <1> HIDE DEF Event
  <1> QED BY <1>1 DEF Idle, Threads, Places

\* Nothing is buffered and no query runs.
LEMMA InitInv == Init => Inv
  <1> SUFFICES ASSUME Init PROVE Inv OBVIOUS
  <1>1. /\ db \in Buffers /\ index \in Buffers /\ doomed \in Buffers /\ evicted \in Buffers
        /\ \A s \in Subscribers : db[s] = {} /\ index[s] = {} /\ doomed[s] = {}
    BY DEF Init, Buffers
  <1>2. queries \in [Subscribers -> [Queries -> Nat \cup {-1}]]
    BY DEF Init
  <1>3. cleanup \in [Subscribers -> {"no", "overflow", "expire"}]
    BY DEF Init
  <1>4. now \in Nat /\ now >= Expiry + 2
    BY FlagsAssumption DEF Init
  <1>5. /\ lastId \in [Subscribers -> Nat] /\ count \in [Subscribers -> Nat]
        /\ optTime \in [Queries -> Nat] /\ optEid \in [Queries -> Nat] /\ crashes \in Nat
        /\ \A s \in Subscribers : lastId[s] = 1
    BY DEF Init
  <1>6. logged \in [Queries -> SUBSET Event] /\ lost \in [Queries -> SUBSET Event]
    BY DEF Init
  <1>7. th \in Threads
    BY IdleType DEF Init
  <1>8. TypeOK
    BY <1>1, <1>2, <1>3, <1>4, <1>5, <1>6, <1>7 DEF TypeOK
  <1>9. StoreInv
    BY <1>1, <1>4, <1>5 DEF StoreInv, BufferInv, Init
  <1>10. th = Idle
    BY DEF Init
  <1>11. ThreadInv
    BY <1>10, IdleType DEF ThreadInv, AtTable
  <1> QED BY <1>8, <1>9, <1>11 DEF Inv

\* A step of the publisher's thread: what is left to show is about its subscriber.
LEMMA PublisherMoves ==
  ASSUME Inv, NEW s \in Subscribers,
         NEW D, NEW I, NEW X, D \in SUBSET Event, I \subseteq D, X \subseteq D,
         db' = [db EXCEPT ![s] = D], index' = [index EXCEPT ![s] = I],
         doomed' = [doomed EXCEPT ![s] = X],
         evicted' \in Buffers, lastId' \in [Subscribers -> Nat],
         \A u \in Subscribers \ {s} : lastId'[u] = lastId[u],
         count' \in [Subscribers -> Nat],
         cleanup' \in [Subscribers -> {"no", "overflow", "expire"}],
         cleanup'[s] = "overflow" => X = {},
         \A u \in Subscribers \ {s} : cleanup'[u] = cleanup[u],
         UNCHANGED <<queries, ptrs, th, clock, logged, lost>>,
         BufferInv(s)' /\ Grows(s),
         \A e \in db[s] \ (index[s] \cup doomed[s]) : e \in D \ (I \cup X)
  PROVE  Inv' /\ Grow
  <1>t. TypeOK /\ StoreInv /\ ThreadInv
    BY DEF Inv
  <1>0. /\ db \in Buffers /\ index \in Buffers /\ doomed \in Buffers
        /\ now \in Nat
    BY <1>t DEF TypeOK
  <1>1. /\ db' \in Buffers /\ index' \in Buffers /\ doomed' \in Buffers
        /\ db'[s] = D /\ index'[s] = I /\ doomed'[s] = X
        /\ \A u \in Subscribers \ {s} :
             db'[u] = db[u] /\ index'[u] = index[u] /\ doomed'[u] = doomed[u]
    BY <1>0 DEF Buffers
  <1>2. TypeOK'
    BY <1>1, <1>t DEF TypeOK, ptrs, clock
  <1>3. now' = now /\ th' = th
    BY DEF clock
  <1>4. \A u \in Subscribers \ {s} : BufferInv(u)' /\ Grows(u)
    BY <1>0, <1>1, <1>3, <1>t, BufferSame DEF StoreInv
  <1>5. StoreInv' /\ Grow
    BY <1>1, <1>3, <1>4, <1>t DEF StoreInv, Grow
  <1>6. th.pc = "delete" => th.s \in Subscribers
    BY <1>t, NamesAssumption DEF ThreadInv, AtTable, TypeOK, Threads, Places
  <1>7. th.pc = "delete" => th.doomed \subseteq db'[th.s] \ (index'[th.s] \cup doomed'[th.s])
    <2>1. CASE th.s = s
      BY <2>1, <1>1, <1>t DEF ThreadInv
    <2>2. CASE th.s # s
      BY <2>2, <1>1, <1>6, <1>t DEF ThreadInv
    <2> QED BY <2>1, <2>2
  <1>8. ThreadInv'
    BY <1>3, <1>7, <1>t DEF ThreadInv
  <1> QED BY <1>2, <1>5, <1>8 DEF Inv

\* An eviction: everything that leaves the index is older than the last event.
LEMMA EvictKeeps ==
  ASSUME Inv, NEW s \in Subscribers, NEW E, E \subseteq index[s], Evict(s, E),
         doomed[s] = {},
         NEW place \in {"no", "expire"}, cleanup' = [cleanup EXCEPT ![s] = place],
         \A e \in index[s] : Top(s, e) => \A f \in E : f.time < e.time
  PROVE  Inv' /\ Grow
  <1>t. TypeOK /\ BufferInv(s)
    BY DEF Inv, StoreInv
  <1>0. /\ db \in Buffers /\ index \in Buffers /\ doomed \in Buffers /\ evicted \in Buffers
        /\ index[s] \subseteq db[s] /\ db[s] \subseteq Event
    BY <1>t DEF TypeOK, Buffers
  <1> DEFINE D == db[s]
             I == index[s] \ E
  <1>1. /\ db' = [db EXCEPT ![s] = D] /\ index' = [index EXCEPT ![s] = I]
        /\ doomed' = [doomed EXCEPT ![s] = E]
        /\ lastId' = lastId /\ count' = count /\ now' = now
        /\ evicted' \in Buffers
        /\ UNCHANGED <<queries, ptrs, th, clock, logged, lost>>
    BY <1>0 DEF Evict, Buffers, clock
  <1>2. db'[s] = db[s] \ {} /\ index'[s] = index[s] \ E /\ doomed'[s] = E
    BY <1>0, <1>1 DEF Buffers
  <1>3. BufferInv(s)' /\ Grows(s)
    BY <1>1, <1>2, <1>t, BufferErases
  <1>4. lastId' \in [Subscribers -> Nat] /\ count' \in [Subscribers -> Nat]
    BY <1>1, <1>t DEF TypeOK
  <1>5. D \in SUBSET Event /\ I \subseteq D /\ E \subseteq D
    BY <1>0
  <1>6. \A e \in db[s] \ (index[s] \cup doomed[s]) : e \in D \ (I \cup E)
    OBVIOUS
  <1>7. /\ cleanup' \in [Subscribers -> {"no", "overflow", "expire"}]
        /\ cleanup'[s] # "overflow"
        /\ \A u \in Subscribers \ {s} : cleanup'[u] = cleanup[u]
    BY <1>t DEF TypeOK
  <1> HIDE DEF D, I
  <1> QED BY <1>1, <1>3, <1>4, <1>5, <1>6, <1>7, PublisherMoves

\* The last event of the index is one of its newest.
LEMMA TopIsNewest ==
  ASSUME TypeOK, NEW s \in Subscribers, NEW e \in index[s], Top(s, e)
  PROVE  \A f \in db[s] : f.time <= e.time
  BY EventTypes DEF Top

\* Adding and both evictions keep the invariant.
LEMMA PublishKeeps ==
  ASSUME Inv, NEW s \in Subscribers, Publish(s)
  PROVE  Inv' /\ Grow
  <1>t. TypeOK /\ StoreInv /\ ThreadInv /\ BufferInv(s)
    BY DEF Inv, StoreInv
  <1>0. /\ db \in Buffers /\ index \in Buffers /\ doomed \in Buffers /\ evicted \in Buffers
        /\ index[s] \subseteq db[s] /\ doomed[s] \subseteq db[s] /\ db[s] \subseteq Event
        /\ lastId \in [Subscribers -> Nat] /\ count \in [Subscribers -> Nat]
        /\ cleanup \in [Subscribers -> {"no", "overflow", "expire"}]
        /\ now \in Nat
    BY <1>t DEF TypeOK, Buffers
  <1>1. ASSUME NEW n \in 1..MaxRows, NEW delay \in Delays, addBatch(s, n, delay)
        PROVE  Inv' /\ Grow
    <2> DEFINE t == now - delay
               rows == {[id |-> lastId[s] + i, time |-> t] : i \in 1..n}
               D == db[s] \cup rows
               I == index[s] \cup rows
               X == {}
    <2>1. t \in Nat /\ t <= now /\ n \in Nat \ {0}
      BY <1>0, <1>t, FlagsAssumption, BoundsAssumption DEF StoreInv
    <2>2. /\ db' = [db EXCEPT ![s] = D] /\ index' = [index EXCEPT ![s] = I]
          /\ doomed[s] = X /\ doomed' = doomed
          /\ lastId' = [lastId EXCEPT ![s] = @ + n] /\ now' = now
          /\ count' = [count EXCEPT ![s] = @ + n] /\ evicted' = evicted
          /\ UNCHANGED <<queries, ptrs, th, clock, logged, lost>>
      BY <1>1 DEF addBatch, history, clock
    <2>c. /\ cleanup' \in [Subscribers -> {"no", "overflow", "expire"}]
          /\ \A u \in Subscribers \ {s} : cleanup'[u] = cleanup[u]
      <3>1. \E place \in {"no", "overflow"} : cleanup' = [cleanup EXCEPT ![s] = place]
        BY <1>1 DEF addBatch
      <3> QED BY <3>1, <1>0
    <2> HIDE DEF t
    <2>3. /\ db'[s] = db[s] \cup rows /\ index'[s] = index[s] \cup rows
          /\ lastId'[s] = lastId[s] + n /\ doomed'[s] = doomed[s]
          /\ doomed' = [doomed EXCEPT ![s] = X]
      BY <2>2, <1>0 DEF Buffers
    <2> HIDE DEF X
    <2>d. rows = {[id |-> lastId[s] + i, time |-> t] : i \in 1..n}
      OBVIOUS
    <2> HIDE DEF rows
    <2>4. BufferInv(s)' /\ Grows(s) /\ rows \subseteq Event /\ rows \cap db[s] = {}
      <3>1. TypeOK /\ BufferInv(s) /\ now' = now
        BY <1>t, <2>2
      <3> QED BY <2>1, <2>3, <2>d, <3>1, BufferAdds
    <2>5. D \in SUBSET Event /\ I \subseteq D /\ X \subseteq D
      BY <2>2, <2>4, <1>0
    <2>6. \A e \in db[s] \ (index[s] \cup doomed[s]) : e \in D \ (I \cup X)
      BY <2>2, <2>4
    <2>7. /\ lastId' \in [Subscribers -> Nat] /\ count' \in [Subscribers -> Nat]
          /\ \A u \in Subscribers \ {s} : lastId'[u] = lastId[u]
      BY <2>1, <2>2, <1>0
    <2>8. evicted' \in Buffers /\ X = {}
      BY <2>2, <1>0 DEF X
    <2> HIDE DEF D, I
    <2> QED BY <2>2, <2>c, <2>3, <2>4, <2>5, <2>6, <2>7, <2>8, PublisherMoves
  <1>2. CASE removeOverflowingEventBatches(s)
    <2> DEFINE E == overflowing(index[s])
    <2>1. E \subseteq index[s] /\ \A e \in index[s] : Top(s, e) => \A f \in E : f.time < e.time
      BY <1>0, <1>t, OverflowIsOld, TopIsNewest
    <2>2. doomed[s] = {} /\ Evict(s, E) /\ cleanup' = [cleanup EXCEPT ![s] = "expire"]
      BY <1>2, <1>t DEF removeOverflowingEventBatches, StoreInv
    <2> HIDE DEF E
    <2> QED BY <2>1, <2>2, EvictKeeps
  <1>3. CASE expireEventBatches(s)
    <2> DEFINE E == expired(index[s], now)
    <2>1. E \subseteq index[s] /\ \A e \in index[s] : Top(s, e) => \A f \in E : f.time < e.time
      BY <1>0, <1>t, ExpiredIsOld, TopIsNewest
    <2>2. doomed[s] = {} /\ Evict(s, E) /\ cleanup' = [cleanup EXCEPT ![s] = "no"]
      BY <1>3 DEF expireEventBatches
    <2> HIDE DEF E
    <2> QED BY <2>1, <2>2, EvictKeeps
  <1>4. CASE deleteDoomed(s)
    <2>1. PICK e \in doomed[s] : /\ db' = [db EXCEPT ![s] = @ \ {e}]
                                 /\ doomed' = [doomed EXCEPT ![s] = @ \ {e}]
      BY <1>4 DEF deleteDoomed
    <2> DEFINE D == db[s] \ {e}
               I == index[s]
               X == doomed[s] \ {e}
    <2>2. /\ db' = [db EXCEPT ![s] = D] /\ index' = [index EXCEPT ![s] = I]
          /\ doomed' = [doomed EXCEPT ![s] = X] /\ evicted' = evicted
          /\ lastId' = lastId /\ count' = count /\ cleanup' = cleanup /\ now' = now
          /\ UNCHANGED <<queries, ptrs, th, clock, logged, lost>>
      BY <1>4, <2>1, <1>0 DEF deleteDoomed, history, clock, Buffers
    <2>3. /\ db'[s] = db[s] \ {e} /\ index'[s] = index[s] \ {}
          /\ doomed'[s] = doomed[s] \ {e}
      BY <2>2, <1>0 DEF Buffers
    <2>4. e \notin index[s] /\ doomed[s] \cap index[s] = {}
      BY <1>t DEF BufferInv
    <2>5. BufferInv(s)' /\ Grows(s)
      <3> DEFINE E == {}
                 F == {e}
      <3>1. /\ db'[s] = db[s] \ F /\ index'[s] = index[s] \ E /\ F \cap index'[s] = {}
            /\ \A g \in index[s] : Top(s, g) => \A f \in E : f.time < g.time
            /\ doomed'[s] \cap index'[s] = {}
        BY <2>3, <2>4
      <3>2. lastId'[s] = lastId[s] /\ now' = now
        BY <2>2
      <3> HIDE DEF E, F
      <3> QED BY <1>t, <3>1, <3>2, BufferErases
    <2>6. D \in SUBSET Event /\ I \subseteq D /\ X \subseteq D
      BY <1>0, <2>4
    <2>7. \A f \in db[s] \ (index[s] \cup doomed[s]) : f \in D \ (I \cup X)
      OBVIOUS
    <2>8. cleanup'[s] = "overflow" => X = {}
      BY <2>2, <1>t DEF StoreInv
    <2> HIDE DEF D, I, X
    <2> QED BY <1>0, <2>2, <2>5, <2>6, <2>7, <2>8, PublisherMoves
  <1> QED BY <1>1, <1>2, <1>3, <1>4 DEF Publish

-----------------------------------------------------------------------------
(* Steps of the scheduler's thread *)

\* A step that leaves the buffers alone.
LEMMA StoreSame ==
  ASSUME Inv, UNCHANGED <<store, adding, evicted, crashes>>, now' \in Nat, now' >= now,
         queries' \in [Subscribers -> [Queries -> Nat \cup {-1}]],
         optTime' \in [Queries -> Nat], optEid' \in [Queries -> Nat],
         logged' \in [Queries -> SUBSET Event], lost' \in [Queries -> SUBSET Event],
         th' \in Threads, ThreadInv'
  PROVE  Inv' /\ Grow
  <1>t. TypeOK /\ StoreInv
    BY DEF Inv
  <1>1. TypeOK'
    BY <1>t DEF TypeOK, store, adding
  <1>2. \A s \in Subscribers : BufferInv(s)' /\ Grows(s)
    BY <1>t, BufferSame DEF StoreInv, store, adding
  <1>3. now' >= Expiry + 2
    BY <1>t, FlagsAssumption DEF StoreInv, TypeOK
  <1>4. StoreInv'
    BY <1>t, <1>2, <1>3 DEF StoreInv, adding
  <1> QED BY <1>1, <1>2, <1>4 DEF Inv, Grow

\* What the invariant says of the thread.
LEMMA ThreadTypes ==
  ASSUME Inv
  PROVE  /\ th \in Threads
         /\ th.pc # "idle" => /\ th.q \in Queries /\ Tables[th.q] \subseteq Subscribers
                              /\ th.todo \subseteq Tables[th.q]
         /\ th.pc \in AtTable => th.s \in Tables[th.q] /\ th.s \in Subscribers
  BY NamesAssumption DEF Inv, TypeOK, Threads, ThreadInv, AtTable

\* What collect has read becomes the rows and the pointers: the newest batch that
\* is in the index from the start time on, and its last id.
scanned(s) == {e \in index[s] : e.time >= start(th.q)}

\* What the scan of one table sets.
LEMMA CollectReads ==
  ASSUME Inv, NEW s \in Subscribers, collect(s)
  PROVE  /\ th.pc = "table" /\ s \in th.todo
         /\ th' = [th EXCEPT !.pc = "fetch", !.s = s, !.todo = @ \ {s},
                             !.got = {e \in scanned(s) : e.id > optEid[th.q]},
                             !.last = th'.last]
         /\ scanned(s) = {} => th'.last = Idle.last
         /\ \A e \in scanned(s) : Top(s, e) => th'.last \in index[s] /\ Top(s, th'.last)
         /\ queries' = [queries EXCEPT ![s][th.q] = start(th.q)]
         /\ UNCHANGED <<store, adding, ptrs, clock, history>>
  <1> DEFINE scan == scanned(s)
             back == {e \in scan : e.time = Max(Times(scan))}
             l == IF scan = {} THEN Idle.last ELSE CHOOSE e \in back : \A f \in back : f.id <= e.id
  <1>t. th \in Threads /\ TypeOK
    BY ThreadTypes DEF Inv
  <1>1. /\ th.pc = "table" /\ s \in th.todo
        /\ th' = [th EXCEPT !.pc = "fetch", !.s = s, !.todo = @ \ {s},
                            !.got = {e \in scan : e.id > optEid[th.q]}, !.last = l]
        /\ queries' = [queries EXCEPT ![s][th.q] = start(th.q)]
        /\ UNCHANGED <<store, adding, ptrs, clock, history>>
    BY DEF collect, pointers, scanned
  <1>2. ASSUME NEW e \in scan, Top(s, e)
        PROVE  l \in index[s] /\ Top(s, l)
    <2>1. /\ scan \subseteq index[s] /\ index[s] \subseteq db[s] /\ db[s] \subseteq Event
          /\ \A f \in db[s] : f.time \in Nat /\ f.id \in Nat
      BY <1>t, EventTypes DEF scanned
    <2>2. Max(Times(scan)) = e.time
      <3>1. \A f \in scan : f.time <= e.time
        BY <1>2, <1>t, <2>1, TopIsNewest
      <3> HIDE DEF scan
      <3> QED BY <2>1, <3>1, <1>2, MaxTimes
    <2>3. e \in back /\ \A f \in back : f.id <= e.id /\ f.time = e.time
      BY <1>2, <2>1, <2>2 DEF Top
    <2>4. l \in back /\ \A f \in back : f.id <= l.id
      <3>1. l = CHOOSE f \in back : \A g \in back : g.id <= f.id
        BY <1>2
      <3> HIDE DEF back, l
      <3> QED BY <2>3, <3>1
    <2>5. l \in index[s] /\ l.time = e.time /\ l.id = e.id
      BY <2>1, <2>3, <2>4
    <2> HIDE DEF l
    <2> QED BY <2>5, <1>2 DEF Top
  <1>3. th'.last = l
    BY <1>1, <1>t DEF Threads
  <1>4. scan = {} => l = Idle.last
    OBVIOUS
  <1> HIDE DEF l
  <1> QED BY <1>1, <1>2, <1>3, <1>4

\* What a scan that is not empty ends with is the last event of the index.
LEMMA ScanEnds ==
  ASSUME Inv, NEW s \in Subscribers, th.q \in Queries, scanned(s) # {}
  PROVE  \E e \in scanned(s) : Top(s, e)
  <1>1. TypeOK /\ BufferInv(s) /\ optTime \in [Queries -> Nat]
    BY DEF Inv, StoreInv, TypeOK
  <1>2. PICK f \in index[s] : f.time >= start(th.q)
    BY DEF scanned
  <1>3. f \in db[s] /\ f.time \in Nat
    BY <1>1, EventTypes
  <1>4. PICK e \in index[s] : Top(s, e)
    BY <1>1, <1>3 DEF BufferInv
  <1>5. e.time \in Nat /\ f.time <= e.time
    BY <1>1, <1>3, <1>4, EventTypes, TopIsNewest
  <1>6. start(th.q) \in Int
    BY <1>1 DEF start
  <1> QED BY <1>2, <1>3, <1>4, <1>5, <1>6 DEF scanned

\* The start times that have been recorded are times.
LEMMA ExpireTimeType ==
  ASSUME TypeOK, NEW s \in Subscribers
  PROVE  /\ getExpireTime(s) \in Nat
         /\ readers(s) # {} => \A q \in recorded(s) : getExpireTime(s) <= queries[s][q]
  <1> DEFINE T == {queries[s][p] : p \in recorded(s)}
  <1>1. T \subseteq Nat /\ now \in Nat
    BY DEF TypeOK, recorded
  <1>2. getExpireTime(s) = IF readers(s) = {} \/ recorded(s) = {} THEN now ELSE Min(T)
    BY DEF getExpireTime
  <1>3. \A q \in recorded(s) : queries[s][q] \in T
    OBVIOUS
  <1> HIDE DEF T
  <1>4. \A x \in T : Min(T) \in Nat /\ Min(T) <= x
    BY <1>1, Least
  <1> QED BY <1>1, <1>2, <1>3, <1>4

\* The steps that decide whether, and up to which time, the end of a query expires.
CheckMoves ==
  /\ UNCHANGED <<store, adding, queries, ptrs, clock, history>>
  /\ \/ /\ th.pc = "check" /\ executedAllQueries(th.s)
        /\ th' = [th EXCEPT !.pc = "bound", !.until = th.until, !.byClock = th.byClock]
     \/ /\ th.pc = "check"
        /\ th' = [th EXCEPT !.pc = "delete", !.until = th.until, !.byClock = th.byClock]
     \/ /\ th.pc = "bound"
        /\ th' = [th EXCEPT !.pc = "expire", !.until = getExpireTime(th.s),
                            !.byClock = (recorded(th.s) = {})]
  /\ \E p \in {"bound", "expire", "delete"}, n \in Nat, b \in BOOLEAN :
       th' = [th EXCEPT !.pc = p, !.until = n, !.byClock = b]

\* They are the steps executedAllQueries and getExpireTime.
LEMMA CheckSteps ==
  ASSUME TypeOK, ThreadInv, checkExecuted \/ boundRead
  PROVE  CheckMoves
  <1>t. /\ th \in Threads /\ th.until \in Nat /\ th.byClock \in BOOLEAN
        /\ th.pc \in AtTable => th.s \in Subscribers
    BY NamesAssumption DEF TypeOK, Threads, ThreadInv, AtTable
  <1>1. CASE checkExecuted
    <2>1. th = [th EXCEPT !.until = th.until, !.byClock = th.byClock]
      BY <1>t DEF Threads
    <2>2. PICK p \in {"bound", "delete"} :
            /\ th' = [th EXCEPT !.pc = p] /\ (p = "bound" => executedAllQueries(th.s))
      BY <1>1 DEF checkExecuted
    <2>3. th' = [th EXCEPT !.pc = p, !.until = th.until, !.byClock = th.byClock]
      BY <1>t, <2>1, <2>2 DEF Threads
    <2>4. th.pc = "check" /\ UNCHANGED <<store, adding, queries, ptrs, clock, history>>
      BY <1>1 DEF checkExecuted
    <2> QED BY <1>t, <2>2, <2>3, <2>4 DEF CheckMoves
  <1>2. CASE boundRead
    <2> DEFINE n == getExpireTime(th.s)
               b == recorded(th.s) = {}
    <2>1. /\ th.pc = "bound" /\ th' = [th EXCEPT !.pc = "expire", !.until = n, !.byClock = b]
          /\ UNCHANGED <<store, adding, queries, ptrs, clock, history>>
      BY <1>2 DEF boundRead
    <2>2. n \in Nat /\ b \in BOOLEAN
      BY <1>t, <2>1, ExpireTimeType DEF AtTable
    <2> QED BY <2>1, <2>2 DEF CheckMoves
  <1> QED BY <1>1, <1>2

\* The steps of a query that only read the buffers.
LEMMA ReadKeeps ==
  ASSUME Inv,
         \/ \E q \in Queries : StartQuery(q)
         \/ \E s \in Subscribers : collect(s)
         \/ fetch \/ setOptimizeTime \/ setOptimizeEid \/ checkExecuted \/ boundRead
         \/ nextTable
         \/ \E ok \in BOOLEAN : LogQuery(ok)
  PROVE  Inv' /\ Grow
  <1>t. /\ TypeOK /\ StoreInv /\ ThreadInv /\ th \in Threads
        /\ th.pc # "idle" => /\ th.q \in Queries /\ Tables[th.q] \subseteq Subscribers
                             /\ th.todo \subseteq Tables[th.q]
        /\ th.pc \in AtTable => th.s \in Tables[th.q] /\ th.s \in Subscribers
    BY ThreadTypes DEF Inv
  <1>0. /\ queries \in [Subscribers -> [Queries -> Nat \cup {-1}]]
        /\ optTime \in [Queries -> Nat] /\ optEid \in [Queries -> Nat]
        /\ logged \in [Queries -> SUBSET Event] /\ lost \in [Queries -> SUBSET Event]
        /\ now \in Nat
        /\ \A s \in Subscribers : index[s] \subseteq Event /\ db[s] \subseteq Event
    BY <1>t DEF TypeOK, Buffers
  <1>1. ASSUME NEW q \in Queries, StartQuery(q) PROVE Inv' /\ Grow
    <2>1. /\ th' = [Idle EXCEPT !.pc = "table", !.q = q, !.todo = Tables[q]]
          /\ UNCHANGED <<store, adding, evicted, queries, ptrs, clock, logged, lost>>
      BY <1>1 DEF StartQuery, history
    <2>2. Tables[q] \subseteq Subscribers
      BY NamesAssumption
    <2>3. th' \in Threads
      <3> HIDE DEF Event, Idle
      <3> QED BY <2>1, <2>2, IdleType DEF Threads, Places
    <2>4. /\ th'.pc = "table" /\ th'.q = q /\ th'.todo = Tables[q] /\ th'.got = {}
          /\ th'.doomed = {} /\ th'.rows = {}
      BY <2>1 DEF Idle
    <2>5. ThreadInv'
      BY <2>4, NamesAssumption DEF ThreadInv, AtTable
    <2> QED BY <2>1, <2>3, <2>5, <1>0, StoreSame DEF ptrs, clock
  <1>2. ASSUME NEW s \in Subscribers, collect(s) PROVE Inv' /\ Grow
    <2>1. /\ th.pc = "table" /\ s \in th.todo
          /\ th' = [th EXCEPT !.pc = "fetch", !.s = s, !.todo = @ \ {s},
                              !.got = {e \in scanned(s) : e.id > optEid[th.q]},
                              !.last = th'.last]
          /\ queries' = [queries EXCEPT ![s][th.q] = start(th.q)]
          /\ UNCHANGED <<store, adding, ptrs, clock, history>>
      BY <1>2, CollectReads
    <2>2. th'.last \in Event
      <3>1. CASE scanned(s) = {}
        BY <1>2, <3>1, CollectReads, IdleType
      <3>2. CASE scanned(s) # {}
        BY <1>0, <1>2, <1>t, <2>1, <3>2, CollectReads, ScanEnds
      <3> QED BY <3>1, <3>2
    <2>3. {e \in scanned(s) : e.id > optEid[th.q]} \subseteq Event
      BY <1>0 DEF scanned
    <2>4. th' \in Threads
      <3> DEFINE l == th'.last
                 g == {e \in scanned(s) : e.id > optEid[th.q]}
      <3>1. /\ th' = [th EXCEPT !.pc = "fetch", !.s = s, !.todo = @ \ {s}, !.got = g,
                                !.last = l]
            /\ l \in Event /\ g \in SUBSET Event
        BY <2>1, <2>2, <2>3
      <3> HIDE DEF l, g, Event
      <3> QED BY <3>1, <1>t DEF Threads, Places
    <2>5. /\ th'.pc = "fetch" /\ th'.s = s /\ th'.todo = th.todo \ {s} /\ th'.q = th.q
          /\ th'.rows = th.rows /\ th'.doomed = th.doomed
      BY <2>1, <1>t DEF Threads
    <2>6. OneTable => th'.todo = {}
      BY <1>t, <2>1, <2>5 DEF OneTable
    <2>7. ThreadInv'
      BY <1>t, <2>1, <2>5, <2>6 DEF ThreadInv, AtTable
    <2>8. start(th.q) \in Nat
      BY <1>0, <1>t, <2>1 DEF start
    <2>9. queries' \in [Subscribers -> [Queries -> Nat \cup {-1}]]
      <3> DEFINE p == start(th.q)
      <3>1. p \in Nat \cup {-1} /\ queries' = [queries EXCEPT ![s][th.q] = p]
        BY <2>1, <2>8
      <3> HIDE DEF p
      <3> QED BY <1>0, <1>t, <2>1, <3>1
    <2> QED BY <2>1, <2>4, <2>7, <2>9, <1>0, StoreSame DEF ptrs, clock, history
  <1>3. CASE fetch
    <2> DEFINE g == th.rows \cup (th.got \cap db[th.s])
               p == IF th.last.id = 0 THEN "check" ELSE "time"
    <2>1. /\ th' = [th EXCEPT !.rows = g, !.got = {}, !.pc = p] /\ th.pc = "fetch"
          /\ UNCHANGED <<store, adding, evicted, queries, ptrs, clock, logged, lost>>
      BY <1>3 DEF fetch, history
    <2>2. g \in SUBSET Event /\ p \in {"check", "time"}
      BY <1>t DEF Threads
    <2> HIDE DEF g, p
    <2>3. th' \in Threads
      <3> HIDE DEF Event
      <3> QED BY <2>1, <2>2, <1>t DEF Threads, Places
    <2>4. /\ th'.pc \in {"check", "time"} /\ th'.q = th.q /\ th'.s = th.s
          /\ th'.todo = th.todo /\ th'.got = {} /\ th'.doomed = th.doomed
      BY <2>1, <2>2, <1>t DEF Threads
    <2>5. ThreadInv'
      BY <1>t, <2>1, <2>4 DEF ThreadInv, AtTable
    <2> QED BY <2>1, <2>3, <2>5, <1>0, StoreSame DEF ptrs, clock
  <1>4. CASE setOptimizeTime \/ setOptimizeEid
    <2>1. PICK p \in {"eid", "check"} : th' = [th EXCEPT !.pc = p]
      BY <1>4 DEF setOptimizeTime, setOptimizeEid
    <2>2. /\ th.pc \in {"time", "eid"}
          /\ UNCHANGED <<store, adding, evicted, queries, clock, logged, lost>>
      BY <1>4 DEF setOptimizeTime, setOptimizeEid, history
    <2>3. th.last.time \in Nat /\ th.last.id \in Nat
      BY <1>t DEF Threads, Event
    <2>4. optTime' \in [Queries -> Nat] /\ optEid' \in [Queries -> Nat]
      BY <1>0, <1>4, <2>3 DEF setOptimizeTime, setOptimizeEid
    <2>5. th' \in Threads
      <3> HIDE DEF Event
      <3> QED BY <2>1, <1>t DEF Threads, Places
    <2>6. /\ th'.pc \in {"eid", "check"} /\ th'.q = th.q /\ th'.s = th.s
          /\ th'.todo = th.todo /\ th'.got = th.got /\ th'.doomed = th.doomed
      BY <2>1, <1>t DEF Threads
    <2>7. ThreadInv'
      BY <1>t, <2>2, <2>6 DEF ThreadInv, AtTable
    <2> QED BY <2>2, <2>4, <2>5, <2>7, <1>0, StoreSame DEF clock
  <1>5. CASE nextTable
    <2> DEFINE p == IF th.todo # {} THEN "table" ELSE "log"
    <2>1. /\ th' = [th EXCEPT !.pc = p] /\ th.pc = "delete" /\ th.doomed = {}
          /\ UNCHANGED <<store, adding, evicted, queries, ptrs, clock, logged, lost>>
      BY <1>5 DEF nextTable, history
    <2>2. p \in {"table", "log"} /\ (OneTable => p = "log")
      BY <1>t, <2>1 DEF ThreadInv, AtTable
    <2> HIDE DEF p
    <2>3. th' \in Threads
      <3> HIDE DEF Event
      <3> QED BY <2>1, <2>2, <1>t DEF Threads, Places
    <2>4. /\ th'.pc = p /\ th'.q = th.q /\ th'.s = th.s
          /\ th'.todo = th.todo /\ th'.got = th.got /\ th'.doomed = {}
      BY <2>1, <1>t DEF Threads
    <2>5. ThreadInv'
      BY <1>t, <2>1, <2>2, <2>4 DEF ThreadInv, AtTable
    <2> QED BY <2>1, <2>3, <2>5, <1>0, StoreSame DEF ptrs, clock
  <1>5a. CASE checkExecuted \/ boundRead
    <2>0. CheckMoves
      BY <1>5a, CheckSteps DEF Inv
    <2>1. PICK p \in {"bound", "expire", "delete"}, n \in Nat, b \in BOOLEAN :
            th' = [th EXCEPT !.pc = p, !.until = n, !.byClock = b]
      BY <2>0 DEF CheckMoves
    <2>2. /\ th.pc \in {"check", "bound"}
          /\ UNCHANGED <<store, adding, evicted, queries, ptrs, clock, logged, lost>>
      BY <2>0 DEF CheckMoves, history
    <2>3. th' \in Threads
      <3> HIDE DEF Event
      <3> QED BY <2>1, <1>t DEF Threads, Places
    <2>4. /\ th'.pc \in {"bound", "expire", "delete"} /\ th'.q = th.q /\ th'.s = th.s
          /\ th'.todo = th.todo /\ th'.got = th.got /\ th'.doomed = th.doomed
      BY <2>1, <1>t DEF Threads
    <2>5. th.doomed = {} /\ th.got = {}
      BY <1>t, <2>2 DEF ThreadInv
    <2>6. ThreadInv'
      BY <1>t, <2>2, <2>4, <2>5 DEF ThreadInv, AtTable
    <2> QED BY <2>2, <2>3, <2>6, <1>0, StoreSame DEF ptrs, clock
  <1>6. ASSUME NEW ok \in BOOLEAN, LogQuery(ok) PROVE Inv' /\ Grow
    <2>1. /\ th.pc = "log" /\ th' = Idle
          /\ UNCHANGED <<store, adding, evicted, queries, ptrs, clock>>
      BY <1>6 DEF LogQuery
    <2>2. th.rows \in SUBSET Event
      BY <1>t DEF Threads
    <2>3. logged' \in [Queries -> SUBSET Event] /\ lost' \in [Queries -> SUBSET Event]
      <3> HIDE DEF Event
      <3> QED BY <1>0, <1>6, <2>2 DEF LogQuery
    <2>4. ThreadInv'
      BY <2>1, IdleType DEF ThreadInv, AtTable
    <2> QED BY <2>1, <2>3, <2>4, <1>0, IdleType, StoreSame DEF ptrs, clock
  <1> QED BY <1>1, <1>2, <1>3, <1>4, <1>5, <1>5a, <1>6

\* What the end of a query erases from the index.
readExpired(s) == expired(index[s], th.until)

\* expireEventBatches at the end of a query spares the newest events.
LEMMA ReadExpiredIsOld ==
  ASSUME TypeOK, NEW s \in Subscribers
  PROVE  /\ readExpired(s) \subseteq index[s]
         /\ \A e \in index[s] : Top(s, e) => \A f \in readExpired(s) : f.time < e.time
  <1>1. index[s] \subseteq Event /\ index[s] \subseteq db[s]
    BY EventTypes
  <1> QED BY <1>1, ExpiredIsOld, TopIsNewest DEF readExpired

\* The steps of a query that drop events which have been read.
LEMMA DropKeeps ==
  ASSUME Inv, expireRead \/ deleteRead
  PROVE  Inv' /\ Grow
  <1>t. /\ TypeOK /\ StoreInv /\ ThreadInv /\ th \in Threads
        /\ th.pc # "idle" => /\ th.q \in Queries /\ Tables[th.q] \subseteq Subscribers
                             /\ th.todo \subseteq Tables[th.q]
        /\ th.pc \in AtTable => th.s \in Tables[th.q] /\ th.s \in Subscribers
    BY ThreadTypes DEF Inv
  <1>s. PICK s : s = th.s
    OBVIOUS
  <1>0. /\ db \in Buffers /\ index \in Buffers /\ doomed \in Buffers
        /\ th.pc \in {"expire", "delete"} /\ s \in Subscribers /\ BufferInv(s)
        /\ index[s] \subseteq db[s] /\ doomed[s] \subseteq db[s] /\ db[s] \subseteq Event
    BY <1>s, <1>t DEF TypeOK, StoreInv, expireRead, deleteRead, AtTable, Buffers
  <1>a. ASSUME NEW D, NEW I, NEW X, D \subseteq db[s], I \subseteq D, X \in SUBSET Event,
               db' = [db EXCEPT ![s] = D], index' = [index EXCEPT ![s] = I],
               NEW n \in Nat, NEW b \in BOOLEAN,
               th' = [th EXCEPT !.pc = "delete", !.doomed = X, !.until = n, !.byClock = b],
               X \subseteq D \ (I \cup doomed[s]), doomed[s] \subseteq D,
               evicted' \in Buffers,
               UNCHANGED <<lastId, adding, queries, ptrs, clock, logged, lost>>,
               BufferInv(s)' /\ Grows(s)
        PROVE  Inv' /\ Grow
    <2>1. /\ db' \in Buffers /\ index' \in Buffers /\ doomed' = doomed
          /\ db'[s] = D /\ index'[s] = I
          /\ \A u \in Subscribers \ {s} : db'[u] = db[u] /\ index'[u] = index[u]
      BY <1>0, <1>a DEF Buffers, adding
    <2>2. th' \in Threads
      <3> HIDE DEF Event
      <3> QED BY <1>a, <1>t DEF Threads, Places
    <2>3. TypeOK'
      BY <1>a, <1>0, <1>t, <2>1, <2>2 DEF TypeOK, adding, ptrs, clock
    <2>4. \A u \in Subscribers \ {s} : BufferInv(u)' /\ Grows(u)
      BY <1>a, <1>t, <2>1, BufferSame DEF StoreInv, TypeOK, clock
    <2>5. StoreInv' /\ Grow
      BY <1>a, <1>t, <2>4 DEF StoreInv, Grow, adding, clock
    <2>6. /\ th'.pc = "delete" /\ th'.doomed = X /\ th'.s = s /\ th'.q = th.q
          /\ th'.todo = th.todo /\ th'.got = th.got
      BY <1>a, <1>s, <1>t DEF Threads
    <2>7. ThreadInv'
      BY <1>0, <1>a, <1>s, <1>t, <2>1, <2>6 DEF ThreadInv, AtTable
    <2> QED BY <2>3, <2>5, <2>7 DEF Inv
  <1>1. CASE expireRead
    <2> DEFINE E == readExpired(s)
               D == db[s]
               I == index[s] \ E
    <2>1. /\ index' = [index EXCEPT ![s] = I] /\ db' = [db EXCEPT ![s] = D]
          /\ th' = [th EXCEPT !.pc = "delete", !.doomed = E, !.until = 0,
                              !.byClock = FALSE]
          /\ evicted' = [evicted EXCEPT ![s] = IF th.byClock THEN @ \cup E ELSE @]
          /\ now' = now /\ db' = db
          /\ UNCHANGED <<lastId, adding, queries, ptrs, clock, logged, lost>>
      BY <1>0, <1>1, <1>s DEF expireRead, readExpired, Buffers, clock
    <2>2. /\ E \subseteq index[s]
          /\ \A e \in index[s] : Top(s, e) => \A f \in E : f.time < e.time
      BY <1>0, <1>t, ReadExpiredIsOld
    <2>3. doomed[s] \cap index[s] = {}
      BY <1>0 DEF BufferInv
    <2>4. BufferInv(s)' /\ Grows(s)
      <3> DEFINE N == {}
      <3>1. /\ db'[s] = db[s] \ N /\ index'[s] = index[s] \ E /\ N \cap index'[s] = {}
            /\ doomed'[s] \cap index'[s] = {} /\ lastId'[s] = lastId[s]
        BY <1>0, <2>1, <2>3 DEF Buffers, adding
      <3> HIDE DEF E, N
      <3> QED BY <1>0, <1>t, <2>1, <2>2, <3>1, BufferErases
    <2>5. D \subseteq db[s] /\ I \subseteq D /\ E \in SUBSET Event
          /\ E \subseteq D \ (I \cup doomed[s]) /\ doomed[s] \subseteq D
      BY <1>0, <2>2, <2>3
    <2>6. evicted' \in Buffers
      BY <1>t, <1>0, <2>1, <2>5 DEF TypeOK, Buffers
    <2> HIDE DEF D, I, E
    <2> QED BY <2>1, <2>4, <2>5, <2>6, <1>a
  <1>2. CASE deleteRead
    <2>1. PICK e \in th.doomed : /\ db' = [db EXCEPT ![s] = @ \ {e}]
                                 /\ th' = [th EXCEPT !.doomed = @ \ {e}]
      BY <1>2, <1>s DEF deleteRead
    <2> DEFINE D == db[s] \ {e}
               I == index[s]
               X == th.doomed \ {e}
    <2>2. /\ th.pc = "delete" /\ now' = now /\ index' = index
          /\ UNCHANGED <<lastId, adding, queries, ptrs, clock, logged, lost>>
          /\ evicted' \in Buffers
      BY <1>2, <1>t DEF deleteRead, clock, history, TypeOK
    <2>3. /\ db' = [db EXCEPT ![s] = D] /\ index' = [index EXCEPT ![s] = I]
      BY <1>0, <2>1, <2>2 DEF Buffers
    <2>4. PICK n \in Nat, b \in BOOLEAN :
            th' = [th EXCEPT !.pc = "delete", !.doomed = X, !.until = n, !.byClock = b]
      <3>1. th' = [th EXCEPT !.pc = "delete", !.doomed = X, !.until = th.until,
                             !.byClock = th.byClock]
        BY <1>t, <2>1, <2>2 DEF Threads
      <3>2. th.until \in Nat /\ th.byClock \in BOOLEAN
        BY <1>t DEF Threads
      <3> QED BY <3>1, <3>2
    <2>5. th.doomed \subseteq db[s] \ (index[s] \cup doomed[s]) /\ doomed[s] \cap index[s] = {}
      BY <1>t, <1>0, <1>s, <2>2 DEF ThreadInv, BufferInv
    <2>6. BufferInv(s)' /\ Grows(s)
      <3> DEFINE N == {}
                 F == {e}
      <3>1. /\ db'[s] = db[s] \ F /\ index'[s] = index[s] \ N /\ F \cap index'[s] = {}
            /\ doomed'[s] \cap index'[s] = {} /\ lastId'[s] = lastId[s]
            /\ \A g \in index[s] : Top(s, g) => \A f \in N : f.time < g.time
        BY <1>0, <2>1, <2>2, <2>3, <2>5 DEF Buffers, adding
      <3> HIDE DEF F, N
      <3> QED BY <1>0, <1>t, <2>2, <3>1, BufferErases
    <2>7. /\ D \subseteq db[s] /\ I \subseteq D /\ X \in SUBSET Event
          /\ X \subseteq D \ (I \cup doomed[s]) /\ doomed[s] \subseteq D
      BY <1>0, <2>5
    <2> HIDE DEF D, I, X
    <2> QED BY <2>2, <2>3, <2>4, <2>6, <2>7, <1>a
  <1> QED BY <1>1, <1>2

-----------------------------------------------------------------------------
(* A restart, and every step *)

\* What the setUp of a subscriber keeps of its rows.
young(s) == db[s] \ expired(db[s], now)
kept(s) == young(s) \ overflowing(young(s))

\* The newest batch survives a restart, and so does its last id.
LEMMA KeptHasTop ==
  ASSUME TypeOK, NEW s \in Subscribers
  PROVE  /\ kept(s) \subseteq db[s]
         /\ \A e \in index[s] : Top(s, e) =>
              e \in kept(s) /\ \A f \in db[s] : f.time = e.time => f \in kept(s)
  <1>1. db[s] \subseteq Event /\ \A e \in db[s] : e.time \in Nat
    BY EventTypes
  <1>2. young(s) \subseteq db[s] /\ kept(s) \subseteq young(s)
    BY DEF young, kept
  <1>3. ASSUME NEW e \in index[s], Top(s, e), NEW f \in db[s], f.time = e.time
        PROVE  f \in kept(s)
    <2>1. e \in db[s] /\ \A g \in db[s] : g.time <= e.time
      BY <1>3, EventTypes, TopIsNewest
    <2>2. e \in young(s) /\ f \in young(s)
      BY <1>1, <1>3, <2>1, ExpiredIsOld DEF young
    <2>3. \A g \in overflowing(young(s)) : g.time < e.time
      BY <1>1, <1>2, <2>1, <2>2, OverflowIsOld
    <2> QED BY <1>1, <1>3, <2>2, <2>3 DEF kept
  <1>4. index[s] \subseteq db[s]
    BY EventTypes
  <1> QED BY <1>2, <1>3, <1>4

\* setUp finds an id that no stored event exceeds.
LEMMA LargestId ==
  ASSUME TypeOK, NEW s \in Subscribers, BufferInv(s)
  PROVE  /\ largestId(db[s]) \in Nat /\ largestId(db[s]) >= 1
         /\ \A e \in db[s] : e.id <= largestId(db[s])
  <1> DEFINE T == {1} \cup {e.id : e \in db[s]}
  <1>1. lastId[s] \in Nat /\ \A e \in db[s] : e.id \in Nat
    BY EventTypes
  <1>2. T \subseteq Nat /\ T # {} /\ \A x \in T : x <= lastId[s]
    BY <1>1 DEF BufferInv
  <1>3. 1 \in T /\ \A e \in db[s] : e.id \in T
    OBVIOUS
  <1>4. largestId(db[s]) = Max(T)
    BY DEF largestId
  <1> HIDE DEF T
  <1>5. Max(T) \in T /\ \A x \in T : x <= Max(T)
    BY <1>1, <1>2, Greatest
  <1>6. largestId(db[s]) \in Nat /\ 1 <= largestId(db[s])
    BY <1>2, <1>3, <1>4, <1>5
  <1> QED BY <1>3, <1>4, <1>5, <1>6

\* A restart keeps the invariant: the index is rebuilt from the database.
LEMMA RestartKeeps ==
  ASSUME Inv, Restart
  PROVE  Inv' /\ Grow
  <1>t. TypeOK /\ StoreInv
    BY DEF Inv
  <1>0. /\ db \in Buffers /\ evicted \in Buffers
        /\ lost \in [Queries -> SUBSET Event] /\ th.rows \in SUBSET Event
        /\ now \in Nat /\ crashes \in Nat
    BY <1>t DEF TypeOK, Threads
  <1>1. /\ db' = [s \in Subscribers |-> kept(s)] /\ index' = [s \in Subscribers |-> kept(s)]
        /\ lastId' = [s \in Subscribers |-> largestId(db[s])]
        /\ evicted' = [s \in Subscribers |-> evicted[s] \cup (db[s] \ kept(s))]
        /\ doomed' = [s \in Subscribers |-> {}] /\ th' = Idle
        /\ count' = [s \in Subscribers |-> 0] /\ cleanup' = [s \in Subscribers |-> "no"]
        /\ queries' = [s \in Subscribers |-> [q \in Queries |-> -1]]
        /\ lost' = [q \in Queries |-> IF th.q = q THEN lost[q] \cup th.rows ELSE lost[q]]
        /\ UNCHANGED <<optTime, optEid, now, logged>> /\ crashes' = crashes + 1
    BY DEF Restart, kept, young
  <1>2. \A s \in Subscribers : db[s] \subseteq Event /\ kept(s) \subseteq db[s]
    BY <1>0, <1>t, KeptHasTop DEF Buffers
  <1>3. \A s \in Subscribers : /\ db'[s] = kept(s) /\ index'[s] = kept(s) /\ doomed'[s] = {}
                               /\ lastId'[s] = largestId(db[s]) /\ cleanup'[s] = "no"
    BY <1>1
  <1>4. /\ db' \in Buffers /\ index' \in Buffers /\ doomed' \in Buffers
        /\ evicted' \in Buffers
    BY <1>0, <1>1, <1>2 DEF Buffers
  <1>5. /\ lastId' \in [Subscribers -> Nat] /\ count' \in [Subscribers -> Nat]
        /\ cleanup' \in [Subscribers -> {"no", "overflow", "expire"}]
    BY <1>1, <1>t, LargestId DEF StoreInv
  <1>6. lost' \in [Queries -> SUBSET Event]
    BY <1>0, <1>1
  <1>7. queries' \in [Subscribers -> [Queries -> Nat \cup {-1}]]
    BY <1>1
  <1>8. TypeOK'
    <2>1. /\ optTime' \in [Queries -> Nat] /\ optEid' \in [Queries -> Nat]
          /\ now' \in Nat /\ crashes' \in Nat /\ th' \in Threads
          /\ logged' \in [Queries -> SUBSET Event]
      BY <1>0, <1>1, <1>t, IdleType DEF TypeOK
    <2> QED BY <1>3, <1>4, <1>5, <1>6, <1>7, <2>1 DEF TypeOK
  <1>9. ASSUME NEW s \in Subscribers PROVE BufferInv(s)' /\ Grows(s)
    <2>0. BufferInv(s) /\ \A e \in db[s] : e.time \in Nat /\ e.id \in Nat
      BY <1>t, EventTypes DEF StoreInv
    <2>1. ASSUME NEW e \in index[s], Top(s, e) PROVE e \in index'[s] /\ Top(s, e)'
      <3>1. e \in kept(s) /\ \A f \in db[s] : f.time = e.time => f \in kept(s)
        BY <1>t, <2>1, KeptHasTop
      <3> QED BY <1>2, <1>3, <1>t, <2>1, <3>1, TopStays
    <2>2. Grows(s)
      <3>1. \A e \in index[s] : e \in db[s]
        BY <1>t, EventTypes
      <3> QED BY <2>0, <2>1, <3>1 DEF Grows
    <2>3. db'[s] # {} => \E e \in index'[s] : Top(s, e)'
      BY <1>2, <1>3, <2>0, <2>1 DEF BufferInv
    <2>4. /\ lastId'[s] >= 1
          /\ (\A e \in db[s] : 1 < e.id /\ e.id <= lastId[s] /\ e.time <= now)'
      BY <1>1, <1>2, <1>3, <1>t, <2>0, LargestId DEF BufferInv
    <2> QED BY <1>3, <2>2, <2>3, <2>4 DEF BufferInv
  <1>10. StoreInv' /\ Grow
    BY <1>1, <1>3, <1>9, <1>t DEF StoreInv, Grow
  <1>11. ThreadInv'
    BY <1>1, IdleType DEF ThreadInv, AtTable
  <1> QED BY <1>8, <1>10, <1>11 DEF Inv

\* Every step keeps the invariant, and the last event of a buffer never goes back.
LEMMA StepInv ==
  ASSUME Inv, [Next]_vars
  PROVE  Inv' /\ Grow
  <1>0. TypeOK /\ ThreadInv /\ now \in Nat /\ th \in Threads
    BY DEF Inv, TypeOK
  <1>1. CASE \E s \in Subscribers : Publish(s)
    BY <1>1, PublishKeeps
  <1>2. CASE Query
    BY <1>2, ReadKeeps, DropKeeps DEF Query
  <1>3. CASE resetQueryCount
    <2>1. queries' \in [Subscribers -> [Queries -> Nat \cup {-1}]]
      BY <1>0, <1>3 DEF resetQueryCount, TypeOK
    <2>2. ThreadInv'
      BY <1>0, <1>3 DEF resetQueryCount, ThreadInv, store, adding
    <2> QED BY <1>0, <1>3, <2>1, <2>2, StoreSame
            DEF resetQueryCount, TypeOK, ptrs, clock, history
  <1>4. CASE Restart
    BY <1>4, RestartKeeps
  <1>5. CASE Tick
    <2>1. ThreadInv'
      BY <1>0, <1>5 DEF Tick, ThreadInv, store, adding
    <2> QED BY <1>0, <1>5, <2>1, StoreSame DEF Tick, TypeOK, ptrs, history
  <1>6. CASE UNCHANGED vars
    <2>1. ThreadInv'
      BY <1>0, <1>6 DEF vars, ThreadInv, store, adding
    <2> QED BY <1>0, <1>6, <2>1, StoreSame DEF vars, TypeOK, ptrs, clock, history
  <1> QED BY <1>1, <1>2, <1>3, <1>4, <1>5, <1>6 DEF Next

\* The invariant holds in every behaviour.
THEOREM Invariance == Spec => []Inv
  <1>1. Inv /\ [Next]_vars => Inv'
    BY StepInv
  <1> QED BY <1>1, InitInv, PTL DEF Spec

\* Every variable stays in its set; what the index lists and what has yet to be
\* deleted is stored, whichever thread deletes it.
THEOREM TypeCorrect == Spec => []TypeOK
  <1>1. Inv => TypeOK
    BY DEF Inv
  <1> QED BY <1>1, Invariance, PTL

-----------------------------------------------------------------------------
(* The pointers stay behind the ids *)

\* The steps that concern the pointers.
PointerChanges ==
  \/ UNCHANGED <<ptrs, th>>
  \/ UNCHANGED ptrs /\ th'.pc \notin Saving
  \/ \E s \in Subscribers : collect(s)
  \/ /\ fetch /\ th'.pc = "time" /\ th'.s = th.s /\ th'.last = th.last /\ th'.q = th.q
     /\ UNCHANGED ptrs
  \/ setOptimizeTime /\ th'.s = th.s /\ th'.last = th.last /\ th'.q = th.q /\ th'.pc = "eid"
  \/ setOptimizeEid /\ th'.pc = "check"

\* Only the end of a query moves its pointers, each in a write of its own.
LEMMA StepPointers ==
  ASSUME Inv, [Next]_vars
  PROVE  PointerChanges
  <1>0. th \in Threads
    BY DEF Inv, TypeOK
  <1> USE DEF PointerChanges
  <1>1. CASE \E s \in Subscribers : Publish(s)
    BY <1>1 DEF Publish, addBatch, removeOverflowingEventBatches, expireEventBatches, Evict,
                deleteDoomed
  <1>2. CASE Query
    <2>1. CASE \E q \in Queries : StartQuery(q)
      BY <2>1 DEF StartQuery, Idle, Saving
    <2>2. CASE \E s \in Subscribers : collect(s)
      BY <2>2
    <2>3. CASE fetch
      BY <2>3, <1>0 DEF fetch, Threads, Saving
    <2>4. CASE setOptimizeTime
      BY <2>4, <1>0 DEF setOptimizeTime, Threads
    <2>5. CASE setOptimizeEid
      BY <2>5, <1>0 DEF setOptimizeEid, Threads
    <2>5a. CASE checkExecuted
      BY <2>5a, <1>0 DEF checkExecuted, Threads, Saving
    <2>5b. CASE boundRead
      BY <2>5b, <1>0 DEF boundRead, Threads, Saving
    <2>6. CASE expireRead
      BY <2>6, <1>0 DEF expireRead, Threads, Saving
    <2>7. CASE deleteRead
      BY <2>7, <1>0 DEF deleteRead, Threads, Saving
    <2>8. CASE nextTable
      BY <2>8, <1>0 DEF nextTable, Threads, Saving
    <2>9. CASE \E ok \in BOOLEAN : LogQuery(ok)
      BY <2>9 DEF LogQuery, Idle, Saving
    <2> QED BY <1>2, <2>1, <2>2, <2>3, <2>4, <2>5, <2>5a, <2>5b, <2>6, <2>7, <2>8, <2>9
            DEF Query
  <1>3. CASE resetQueryCount
    BY <1>3 DEF resetQueryCount
  <1>4. CASE Restart
    BY <1>4 DEF Restart, Idle, Saving, ptrs
  <1>5. CASE Tick
    BY <1>5 DEF Tick
  <1>6. CASE UNCHANGED vars
    BY <1>6 DEF vars
  <1> QED BY <1>1, <1>2, <1>3, <1>4, <1>5, <1>6 DEF Next

\* What Reached says of the next state.
ReachedNext(s, t, i) ==
  /\ db'[s] = {} => t = 0 /\ i = 0
  /\ \A e \in index'[s] : Top(s, e)' => t <= e.time /\ i <= e.id

\* The last event never goes back: what it has reached, it has reached for good.
LEMMA ReachedStays ==
  ASSUME Inv, Inv', Grow, NEW s \in Subscribers, NEW t \in Nat, NEW i \in Nat,
         Reached(s, t, i)
  PROVE  ReachedNext(s, t, i)
  <1>1. TypeOK /\ TypeOK' /\ BufferInv(s) /\ Grows(s)
    BY DEF Inv, StoreInv, Grow
  <1>2. /\ \A e \in db[s] : e.time \in Nat /\ e.id \in Nat
        /\ \A e \in index[s] : e \in db[s]
    BY <1>1, EventTypes
  <1>3. /\ \A e \in db'[s] : e.time \in Nat /\ e.id \in Nat
        /\ \A e \in index'[s] : e \in db'[s]
    BY <1>1 DEF TypeOK, Buffers, Event
  <1>4. CASE db[s] = {}
    <2>1. t = 0 /\ i = 0
      BY <1>4 DEF Reached
    <2> QED BY <2>1, <1>3 DEF ReachedNext
  <1>5. CASE db[s] # {}
    <2>1. PICK e \in index[s] : Top(s, e)
      BY <1>1, <1>5 DEF BufferInv
    <2>2. t <= e.time /\ i <= e.id
      BY <2>1 DEF Reached
    <2>3. PICK f \in index'[s] : Top(s, f)' /\ e.time <= f.time /\ e.id <= f.id
      BY <1>1, <2>1 DEF Grows
    <2>4. t <= f.time /\ i <= f.id
      BY <1>2, <1>3, <2>2, <2>3
    <2>5. \A g \in index'[s] : Top(s, g)' => g.time = f.time /\ g.id = f.id
      BY <1>3, <2>3 DEF Top
    <2> QED BY <1>3, <2>3, <2>4, <2>5 DEF ReachedNext
  <1> QED BY <1>4, <1>5

\* No pointer is set before the first query.
LEMMA PointerInit == Init => PointerInv
  <1> SUFFICES ASSUME Init PROVE PointerInv OBVIOUS
  <1>1. /\ \A s \in Subscribers : db[s] = {} /\ index[s] = {}
        /\ \A q \in Queries : optTime[q] = 0 /\ optEid[q] = 0 /\ Tables[q] \subseteq Subscribers
        /\ th.pc = "idle"
    BY NamesAssumption DEF Init, Idle
  <1> QED BY <1>1 DEF PointerInv, Reached, Saving

\* With one table to a query, the pointers that a query saves are about the table
\* whose ids they are compared with.
LEMMA PointerStep ==
  ASSUME OneTable, Inv, PointerInv, [Next]_vars
  PROVE  PointerInv'
  <1>0. Inv' /\ Grow /\ PointerChanges
    BY StepInv, StepPointers
  <1>t. /\ TypeOK /\ th \in Threads
        /\ optTime \in [Queries -> Nat] /\ optEid \in [Queries -> Nat]
        /\ \A q \in Queries : Tables[q] \subseteq Subscribers
        /\ th.pc # "idle" => th.q \in Queries /\ th.todo \subseteq Tables[th.q]
        /\ th.pc \in AtTable => th.s \in Tables[th.q] /\ th.s \in Subscribers
    BY ThreadTypes, NamesAssumption DEF Inv, TypeOK
  <1>l. th.last.time \in Nat /\ th.last.id \in Nat
    BY <1>t DEF Threads, Event
  <1>1. \A q \in Queries : \A s \in Tables[q] : ReachedNext(s, optTime[q], optEid[q])
    BY <1>0, <1>t, ReachedStays DEF PointerInv
  <1>2. th.pc \in Saving =>
          \A s \in Subscribers : s = th.s => ReachedNext(s, th.last.time, th.last.id)
    BY <1>0, <1>t, <1>l, ReachedStays DEF PointerInv, AtTable, Saving
  <1>k. th.pc \in Saving => \E s \in Subscribers :
          s = th.s /\ s \in Tables[th.q] /\ ReachedNext(s, th.last.time, th.last.id)
    BY <1>t, <1>2 DEF AtTable, Saving
  <1>g. ASSUME \A q \in Queries : \A s \in Tables[q] : ReachedNext(s, optTime'[q], optEid'[q]),
               th'.pc \in Saving =>
                 /\ \E s \in Subscribers :
                      s = th'.s /\ ReachedNext(s, th'.last.time, th'.last.id)
                 /\ th'.last.id # 0 => /\ optTime'[th'.q] <= th'.last.time
                                       /\ optEid'[th'.q] <= th'.last.id
        PROVE  PointerInv'
    <2>1. (\A q \in Queries : \A s \in Tables[q] : Reached(s, optTime[q], optEid[q]))'
      BY <1>g DEF Reached, ReachedNext
    <2>2. (th.pc \in Saving => Reached(th.s, th.last.time, th.last.id))'
      BY <1>g DEF Reached, ReachedNext, Top
    <2> QED BY <1>g, <2>1, <2>2 DEF PointerInv
  <1>3. CASE UNCHANGED <<ptrs, th>>
    <2>1. th.pc \in Saving => \E s \in Subscribers :
            s = th'.s /\ ReachedNext(s, th'.last.time, th'.last.id)
      BY <1>k, <1>3
    <2> QED BY <1>1, <1>3, <1>g, <2>1 DEF ptrs, PointerInv
  <1>4. CASE UNCHANGED ptrs /\ th'.pc \notin Saving
    BY <1>1, <1>4, <1>g DEF ptrs
  <1>5. ASSUME NEW s \in Subscribers, collect(s) PROVE PointerInv'
    <2>1. /\ th.pc = "table" /\ s \in th.todo /\ UNCHANGED <<store, adding, ptrs>>
          /\ th' = [th EXCEPT !.pc = "fetch", !.s = s, !.todo = @ \ {s},
                              !.got = {e \in scanned(s) : e.id > optEid[th.q]},
                              !.last = th'.last]
      BY <1>0, <1>5, CollectReads
    <2>2. th'.s = s /\ th'.q = th.q /\ th.q \in Queries /\ s \in Tables[th.q]
      BY <1>t, <2>1 DEF Threads
    <2>3. CASE scanned(s) = {}
      <3>1. th'.last.id = 0 /\ th'.last.time = 0
        BY <1>5, <2>3, CollectReads, IdleType
      <3>2. \A e \in index'[s] : e.time \in Nat /\ e.id \in Nat
        BY <1>0 DEF Inv, TypeOK, Buffers, Event
      <3>3. ReachedNext(s, 0, 0)
        BY <3>2 DEF ReachedNext
      <3> QED BY <1>1, <1>g, <2>1, <2>2, <3>1, <3>3 DEF ptrs
    <2>4. CASE scanned(s) # {}
      <3>1. PICK l \in index[s] : l = th'.last /\ Top(s, l)
        BY <1>5, <2>2, <2>4, CollectReads, ScanEnds
      <3>2. l \in db[s] /\ l.time \in Nat /\ l.id \in Nat
        BY <1>t, <3>1, EventTypes
      <3>3. \A e \in index[s] : Top(s, e) => e.time = l.time /\ e.id = l.id
        BY <1>t, <3>1, TopIsOne
      <3>4. Reached(s, l.time, l.id)
        BY <3>2, <3>3 DEF Reached
      <3>5. ReachedNext(s, l.time, l.id)
        BY <1>0, <3>2, <3>4, ReachedStays
      <3>6. optTime[th.q] <= l.time /\ optEid[th.q] <= l.id
        BY <2>2, <3>1 DEF PointerInv, Reached
      <3> QED BY <1>1, <1>g, <2>1, <2>2, <3>1, <3>5, <3>6 DEF ptrs
    <2> QED BY <2>3, <2>4
  <1>6. CASE /\ fetch /\ th'.pc = "time" /\ th'.s = th.s /\ th'.last = th.last /\ th'.q = th.q
             /\ UNCHANGED ptrs
    <2>1. th.pc \in Saving
      BY <1>6 DEF fetch, Saving
    <2>2. \E s \in Subscribers : s = th'.s /\ ReachedNext(s, th'.last.time, th'.last.id)
      BY <1>k, <1>6, <2>1
    <2> QED BY <1>1, <1>6, <1>g, <2>1, <2>2 DEF ptrs, PointerInv
  <1>7. CASE setOptimizeTime /\ th'.s = th.s /\ th'.last = th.last /\ th'.q = th.q
             /\ th'.pc = "eid"
    <2>1. /\ th.pc = "time" /\ optTime' = [optTime EXCEPT ![th.q] = th.last.time]
          /\ optEid' = optEid
      BY <1>7 DEF setOptimizeTime
    <2>2. th.q \in Queries /\ \A s \in Tables[th.q] : s = th.s
      BY <1>t, <2>1 DEF OneTable, AtTable
    <2>3. /\ optTime'[th.q] = th.last.time
          /\ \A q \in Queries \ {th.q} : optTime'[q] = optTime[q]
      BY <1>t, <2>1, <2>2
    <2>4. ASSUME NEW q \in Queries, NEW s \in Tables[q]
          PROVE  ReachedNext(s, optTime'[q], optEid'[q])
      <3>1. CASE q # th.q
        BY <1>1, <2>1, <2>3, <3>1
      <3>2. CASE q = th.q
        <4>1. ReachedNext(s, th.last.time, th.last.id) /\ ReachedNext(s, optTime[q], optEid[q])
          BY <1>1, <1>k, <2>1, <2>2, <3>2 DEF Saving
        <4> QED BY <2>1, <2>3, <3>2, <4>1 DEF ReachedNext
      <3> QED BY <3>1, <3>2
    <2>5. th.last.id # 0 => optEid[th.q] <= th.last.id
      BY <2>1 DEF PointerInv, Saving
    <2>6. \E s \in Subscribers : s = th'.s /\ ReachedNext(s, th'.last.time, th'.last.id)
      BY <1>k, <1>7, <2>1 DEF Saving
    <2> QED BY <1>7, <1>g, <1>l, <2>1, <2>3, <2>4, <2>5, <2>6
  <1>8. CASE setOptimizeEid /\ th'.pc = "check"
    <2>1. /\ th.pc = "eid" /\ optEid' = [optEid EXCEPT ![th.q] = th.last.id]
          /\ optTime' = optTime
      BY <1>8 DEF setOptimizeEid
    <2>2. th.q \in Queries /\ \A s \in Tables[th.q] : s = th.s
      BY <1>t, <2>1 DEF OneTable, AtTable
    <2>3. /\ optEid'[th.q] = th.last.id
          /\ \A q \in Queries \ {th.q} : optEid'[q] = optEid[q]
      BY <1>t, <2>1, <2>2
    <2>4. ASSUME NEW q \in Queries, NEW s \in Tables[q]
          PROVE  ReachedNext(s, optTime'[q], optEid'[q])
      <3>1. CASE q # th.q
        BY <1>1, <2>1, <2>3, <3>1
      <3>2. CASE q = th.q
        <4>1. ReachedNext(s, th.last.time, th.last.id) /\ ReachedNext(s, optTime[q], optEid[q])
          BY <1>1, <1>k, <2>1, <2>2, <3>2 DEF Saving
        <4> QED BY <2>1, <2>3, <3>2, <4>1 DEF ReachedNext
      <3> QED BY <3>1, <3>2
    <2> QED BY <1>8, <1>g, <2>4 DEF Saving
  <1> QED BY <1>0, <1>3, <1>4, <1>5, <1>6, <1>7, <1>8 DEF PointerChanges

\* An event id is never handed out again once a query has read past it: neither
\* eviction nor a restart takes the newest batch, whose last id the index is rebuilt
\* from (expireEventBatches, removeOverflowingEventBatches, generateEventDataIndex).
\* This is so for queries that read one event table.
THEOREM IdsStayNew == ASSUME OneTable PROVE Spec => []PointersBehindIds
  <1>1. Inv /\ PointerInv => PointersBehindIds
    <2> SUFFICES ASSUME Inv, PointerInv, NEW q \in Queries, NEW s \in Tables[q]
                 PROVE  optEid[q] <= lastId[s]
      BY DEF PointersBehindIds
    <2>1. s \in Subscribers /\ optEid[q] \in Nat /\ BufferInv(s) /\ Reached(s, optTime[q], optEid[q])
      BY NamesAssumption DEF Inv, TypeOK, StoreInv, PointerInv
    <2>2. lastId[s] \in Nat /\ \A e \in db[s] : e.id \in Nat
      BY <2>1, EventTypes DEF Inv
    <2>3. CASE db[s] = {}
      BY <2>1, <2>2, <2>3 DEF Reached, BufferInv
    <2>4. CASE db[s] # {}
      <3>1. PICK e \in index[s] : Top(s, e)
        BY <2>1, <2>4 DEF BufferInv
      <3>2. e \in db[s] /\ optEid[q] <= e.id /\ e.id <= lastId[s]
        BY <2>1, <3>1, EventTypes DEF Inv, Reached, BufferInv
      <3> QED BY <2>1, <2>2, <3>2
    <2> QED BY <2>3, <2>4
  <1>2. Inv /\ PointerInv /\ [Next]_vars => PointerInv'
    BY PointerStep
  <1> QED BY <1>1, <1>2, PointerInit, Invariance, PTL DEF Spec

-----------------------------------------------------------------------------
(* What is not read stays visible *)

\* Nothing is buffered and nothing read at the start.
LEMMA UnreadInit == Init => UnreadInv
  <1> SUFFICES ASSUME Init PROVE UnreadInv OBVIOUS
  <1>1. /\ \A s \in Subscribers : db[s] = {} /\ \A q \in Queries : queries[s][q] = -1
        /\ \A q \in Queries : Tables[q] \subseteq Subscribers
        /\ th.pc = "idle" /\ th.got = {}
    BY NamesAssumption DEF Init, Idle
  <1> QED BY <1>1 DEF UnreadInv, Unread

\* A step that leaves the pointers alone and after which nothing is newly unread.
LEMMA UnreadStays ==
  ASSUME UnreadInv, UNCHANGED ptrs,
         \A q \in Queries : \A s \in Tables[q] : \A e \in Unread(q, s)' :
           e \in Unread(q, s) /\ e \in index'[s],
         th'.pc \in Saving =>
           th.pc \in Saving /\ th'.q = th.q /\ th'.last = th.last,
         th'.got # {} => th'.got = th.got /\ th'.q = th.q,
         th'.pc \in {"time", "eid"} => th'.last.id # 0,
         \A s \in Subscribers, q \in Queries : queries'[s][q] \in {queries[s][q], -1}
  PROVE  UnreadInv'
  <1>1. \A q : start(q)' = start(q) /\ \A e : Visible(q, e)' <=> Visible(q, e)
    BY DEF start, Visible, ptrs
  <1>2. ASSUME NEW q \in Queries, NEW s \in Tables[q], NEW e \in Unread(q, s)'
        PROVE  e \in index'[s] /\ Ahead(q, e)'
    <2>1. e \in index'[s] /\ Ahead(q, e)
      BY <1>2 DEF UnreadInv
    <2> QED BY <1>1, <2>1 DEF Ahead
  <1>3. \A q \in Queries : th'.q = q => \A e \in th'.got : Visible(q, e)'
    BY <1>1 DEF UnreadInv
  <1>4. \A s \in Subscribers, q \in Queries :
          queries'[s][q] # -1 => s \in Tables[q] /\ queries'[s][q] <= start(q)'
    BY <1>1 DEF UnreadInv
  <1> QED BY <1>2, <1>3, <1>4 DEF UnreadInv

\* When a table has as many queries recorded as it has readers, these are its readers.
LEMMA AllRecorded ==
  ASSUME Inv, UnreadInv, NEW s \in Subscribers
  PROVE  /\ recorded(s) \subseteq readers(s)
         /\ executedAllQueries(s) => recorded(s) = readers(s)
  <1>1. recorded(s) \subseteq readers(s)
    BY DEF UnreadInv, recorded, readers
  <1>2. IsFiniteSet(readers(s))
    BY NamesAssumption, FS_Subset DEF readers
  <1>3. /\ Cardinality(recorded(s)) <= Cardinality(readers(s))
        /\ Cardinality(recorded(s)) = Cardinality(readers(s)) => recorded(s) = readers(s)
        /\ IsFiniteSet(recorded(s))
    BY <1>1, <1>2, FS_Subset
  <1>4. Cardinality(recorded(s)) \in Nat /\ Cardinality(readers(s)) \in Nat
    BY <1>2, <1>3, FS_CardinalityType
  <1> QED BY <1>1, <1>3, <1>4 DEF executedAllQueries

\* No query is recorded at the start.
LEMMA ExpireInit == Init => ExpireInv
  BY DEF Init, Idle, ExpireInv

\* The bound of the expiry stays behind the start of every query: configUpdate may
\* fall between any two of the steps, and no pointer moves in between.
LEMMA ExpireStep ==
  ASSUME Inv, UnreadInv, ExpireInv, [Next]_vars
  PROVE  ExpireInv'
  <1>t. /\ TypeOK /\ ThreadInv /\ th \in Threads /\ optTime \in [Queries -> Nat]
        /\ queries \in [Subscribers -> [Queries -> Nat \cup {-1}]]
        /\ th.pc \in AtTable => th.s \in Tables[th.q] /\ th.s \in Subscribers
        /\ th.pc \in AtTable => th.q \in Queries
    BY ThreadTypes DEF Inv, TypeOK, AtTable
  <1>1. CASE th'.pc \notin {"bound", "expire"}
    BY <1>1 DEF ExpireInv
  <1>2. CASE UNCHANGED <<th, optTime, queries>>
    BY <1>2 DEF ExpireInv, start, recorded
  <1>3. CASE resetQueryCount
    <2>1. th' = th /\ optTime' = optTime
      BY <1>3 DEF resetQueryCount, ptrs
    <2>2. ASSUME th.pc = "bound" PROVE recorded(th.s)' \in {{}, recorded(th.s)}
      <3>1. /\ th.s \in Subscribers /\ queries' = [s \in Subscribers |->
                 IF readers(s) = {} THEN queries[s] ELSE [q \in Queries |-> -1]]
        BY <1>3, <1>t, <2>2 DEF resetQueryCount, AtTable
      <3> QED BY <2>1, <3>1 DEF recorded
    <2> QED BY <2>1, <2>2 DEF ExpireInv, start
  <1>4. CASE checkExecuted \/ boundRead
    <2>0. CheckMoves
      BY <1>4, <1>t, CheckSteps
    <2>1. optTime' = optTime /\ queries' = queries
      BY <2>0 DEF CheckMoves, ptrs
    <2>2. CASE th.pc = "check" /\ executedAllQueries(th.s) /\ th'.pc = "bound"
      <3>1. th'.s = th.s /\ th.s \in Subscribers
        BY <1>t, <2>0, <2>2 DEF CheckMoves, Threads, AtTable
      <3>2. recorded(th.s) = readers(th.s)
        BY <2>2, <3>1, AllRecorded
      <3> QED BY <2>1, <2>2, <3>1, <3>2 DEF ExpireInv, recorded
    <2>3. CASE th.pc = "bound" /\ th'.pc = "expire"
      <3>1. /\ th'.s = th.s /\ th.s \in Subscribers /\ th'.until = getExpireTime(th.s)
            /\ th'.byClock = (recorded(th.s) = {}) /\ th.q \in readers(th.s)
        BY <1>t, <2>0, <2>3 DEF CheckMoves, Threads, AtTable, readers
      <3>2. ASSUME ~th'.byClock, NEW q \in readers(th.s) PROVE th'.until <= start(q)
        <4>1. q \in recorded(th.s) /\ q \in Queries
          BY <2>3, <3>1, <3>2 DEF ExpireInv, readers
        <4>2. getExpireTime(th.s) \in Nat /\ getExpireTime(th.s) <= queries[th.s][q]
          BY <1>t, <3>1, <3>2, <4>1, ExpireTimeType
        <4>3. queries[th.s][q] \in Nat /\ queries[th.s][q] <= start(q)
          BY <1>t, <3>1, <4>1 DEF UnreadInv, recorded
        <4>4. start(q) \in Nat
          BY <1>t, <4>1 DEF start
        <4> QED BY <3>1, <4>2, <4>3, <4>4
      <3> QED BY <2>1, <2>3, <3>1, <3>2 DEF ExpireInv, start
    <2>4. \/ th'.pc = "delete"
          \/ th.pc = "check" /\ executedAllQueries(th.s) /\ th'.pc = "bound"
          \/ th.pc = "bound" /\ th'.pc = "expire"
      BY <1>t, <2>0 DEF CheckMoves, Threads
    <2> QED BY <1>1, <2>2, <2>3, <2>4
  <1>5. CASE Query /\ ~checkExecuted /\ ~boundRead
    <2>1. CASE \E q \in Queries : StartQuery(q)
      BY <1>1, <2>1 DEF StartQuery, Idle
    <2>2. CASE \E s \in Subscribers : collect(s)
      BY <1>1, <1>t, <2>2 DEF collect, Threads
    <2>3. CASE fetch \/ setOptimizeTime \/ setOptimizeEid
      BY <1>1, <1>t, <2>3 DEF fetch, setOptimizeTime, setOptimizeEid, Threads
    <2>4. CASE expireRead \/ deleteRead \/ nextTable
      BY <1>1, <1>t, <2>4 DEF expireRead, deleteRead, nextTable, Threads
    <2>5. CASE \E ok \in BOOLEAN : LogQuery(ok)
      BY <1>1, <2>5 DEF LogQuery, Idle
    <2> QED BY <1>5, <2>1, <2>2, <2>3, <2>4, <2>5 DEF Query
  <1>6. CASE Restart
    BY <1>1, <1>6 DEF Restart, Idle
  <1>7. CASE (\E s \in Subscribers : Publish(s)) \/ Tick \/ UNCHANGED vars
    BY <1>2, <1>7 DEF Publish, addBatch, removeOverflowingEventBatches, expireEventBatches,
                      Evict, deleteDoomed, Tick, vars, ptrs
  <1> QED BY <1>3, <1>4, <1>5, <1>6, <1>7 DEF Next

\* The end of a query erases only what every scheduled query on that table has read,
\* unless it goes by the clock: what is older than the start of all of them is
\* visible to none.
LEMMA ReadExpiredIsRead ==
  ASSUME Inv, UnreadInv, ExpireInv, th.pc = "expire", ~th.byClock, NEW q \in readers(th.s)
  PROVE  readExpired(th.s) \subseteq Read(q) \cup evicted[th.s]
  <1> SUFFICES ASSUME NEW e \in readExpired(th.s), e \notin Read(q) \cup evicted[th.s]
               PROVE  FALSE
    OBVIOUS
  <1>s. PICK s \in Subscribers : s = th.s
    BY ThreadTypes DEF AtTable
  <1>1. /\ TypeOK /\ index[s] \subseteq Event /\ index[s] \subseteq db[s]
        /\ q \in Queries /\ s \in Tables[q]
        /\ optTime \in [Queries -> Nat] /\ th.until \in Nat
    BY <1>s, EventTypes, ThreadTypes DEF Inv, TypeOK, readers, Threads
  <1>2. e \in index[s] /\ e.time <= th.until - Expiry
    BY <1>s, <1>1, ExpiredIsOld DEF readExpired
  <1>3. th.until <= start(q) /\ start(q) \in Nat
    BY <1>1 DEF ExpireInv, start
  <1>4. e.time >= start(q) /\ e.time \in Nat
    BY <1>s, <1>1, <1>2 DEF UnreadInv, Unread, Ahead, Visible, Event
  <1> QED BY <1>1, <1>2, <1>3, <1>4, FlagsAssumption

\* A new event is ahead of every query: its id is new, and its time is at most a
\* second behind the clock, which no pointer has passed.
LEMMA NewIsAhead ==
  ASSUME Inv, PointerInv, NEW q \in Queries, NEW s \in Tables[q],
         th.pc \in Saving => th.q # q \/ th.s = s,
         NEW e \in Event, e.id > lastId[s], e.time + 1 >= now
  PROVE  Ahead(q, e)
  <1>1. /\ TypeOK /\ s \in Subscribers /\ BufferInv(s) /\ lastId[s] \in Nat /\ now \in Nat
        /\ optTime[q] \in Nat /\ optEid[q] \in Nat /\ e.id \in Nat /\ e.time \in Nat
        /\ th.last.time \in Nat /\ th.last.id \in Nat
    BY NamesAssumption DEF Inv, StoreInv, TypeOK, Event, Threads
  <1>2. ASSUME NEW t \in Nat, NEW i \in Nat, Reached(s, t, i)
        PROVE  t <= now /\ i <= lastId[s]
    <2>1. CASE db[s] = {}
      BY <1>1, <1>2, <2>1 DEF Reached
    <2>2. CASE db[s] # {}
      <3>1. PICK f \in index[s] : Top(s, f)
        BY <1>1, <2>2 DEF BufferInv
      <3>2. f \in db[s] /\ f.time \in Nat /\ f.id \in Nat
        BY <1>1, EventTypes
      <3>3. t <= f.time /\ i <= f.id /\ f.time <= now /\ f.id <= lastId[s]
        BY <1>1, <1>2, <3>1, <3>2 DEF Reached, BufferInv
      <3> QED BY <1>1, <3>2, <3>3
    <2> QED BY <2>1, <2>2
  <1>3. optTime[q] <= now /\ optEid[q] <= lastId[s]
    BY <1>1, <1>2 DEF PointerInv
  <1>4. th.q = q /\ th.pc \in Saving => th.last.time <= now /\ th.last.id <= lastId[s]
    BY <1>1, <1>2 DEF PointerInv
  <1>5. Visible(q, e)
    BY <1>1, <1>3 DEF Visible, start
  <1> QED BY <1>1, <1>4, <1>5 DEF Ahead

\* What is added is ahead of every pointer, and an eviction hides nothing but what it
\* drops.
LEMMA UnreadPublish ==
  ASSUME OneTable, Delays \subseteq {0, 1}, Inv, PointerInv, UnreadInv,
         NEW s \in Subscribers, Publish(s)
  PROVE  UnreadInv'
  <1>t. /\ TypeOK /\ db \in Buffers /\ index \in Buffers /\ evicted \in Buffers
        /\ now \in Nat /\ lastId[s] \in Nat
        /\ \A q \in Queries : Tables[q] \subseteq Subscribers
    BY NamesAssumption DEF Inv, TypeOK
  <1>0. UNCHANGED <<queries, ptrs, th, logged, lost>>
    BY DEF Publish, addBatch, removeOverflowingEventBatches, expireEventBatches, Evict,
           deleteDoomed, history
  <1>r. \A q : Read(q)' = Read(q)
    BY <1>0 DEF Read
  <1>1. ASSUME NEW n \in 1..MaxRows, NEW delay \in Delays, addBatch(s, n, delay)
        PROVE  UnreadInv'
    <2> DEFINE rows == {[id |-> lastId[s] + i, time |-> now - delay] : i \in 1..n}
    <2>1. /\ db' = [db EXCEPT ![s] = @ \cup rows] /\ index' = [index EXCEPT ![s] = @ \cup rows]
          /\ evicted' = evicted
      BY <1>1 DEF addBatch, history
    <2>2. delay \in {0, 1} /\ now - delay \in Nat /\ n \in Nat
      <3>1. now >= Expiry + 2
        BY DEF Inv, StoreInv
      <3>2. Expiry \in Nat /\ MaxRows \in Nat
        BY FlagsAssumption, BoundsAssumption
      <3>3. delay \in {0, 1} /\ n \in Nat
        BY <3>2
      <3> QED
        BY <1>t, <3>1, <3>2, <3>3
    <2>3. ASSUME NEW r \in rows PROVE r \in Event /\ r.id > lastId[s] /\ r.time + 1 >= now
      <3>1. PICK i \in 1..n : r = [id |-> lastId[s] + i, time |-> now - delay]
        OBVIOUS
      <3>2. lastId[s] + i \in Nat /\ lastId[s] + i > lastId[s]
        BY <1>t, <2>2
      <3>3. now - delay + 1 >= now
        BY <1>t, <2>2
      <3> QED BY <2>2, <3>1, <3>2, <3>3 DEF Event
    <2> HIDE DEF rows
    <2>4. ASSUME NEW q \in Queries, NEW u \in Tables[q], NEW e \in Unread(q, u)'
          PROVE  e \in index'[u] /\ Ahead(q, e)
      <3>1. u \in Subscribers /\ e \in db'[u] /\ e \notin evicted[u] \cup Read(q)
        BY <1>r, <1>t, <2>1, <2>4 DEF Unread
      <3>2. CASE e \in db[u]
        <4>1. e \in index[u] /\ Ahead(q, e)
          BY <3>1, <3>2 DEF UnreadInv, Unread
        <4>2. index[u] \subseteq index'[u]
          BY <1>t, <2>1, <3>1 DEF Buffers
        <4> QED BY <4>1, <4>2
      <3>3. CASE e \notin db[u]
        <4>1. u = s /\ e \in rows /\ e \in index'[s]
          BY <1>t, <2>1, <3>1, <3>3 DEF Buffers
        <4>2. th.pc \in Saving => th.q # q \/ th.s = s
          BY <4>1, ThreadTypes DEF OneTable, Saving, AtTable
        <4> QED BY <2>3, <4>1, <4>2, NewIsAhead
      <3> QED BY <3>2, <3>3
    <2>5. \A q : start(q)' = start(q) /\ \A e : Visible(q, e)' <=> Visible(q, e)
      BY <1>0 DEF start, Visible, ptrs
    <2>6. ASSUME NEW q, NEW e, Ahead(q, e) PROVE Ahead(q, e)'
      BY <1>0, <2>5, <2>6 DEF Ahead
    <2> QED BY <1>0, <2>4, <2>5, <2>6 DEF UnreadInv
  <1>2. ASSUME \A u \in Subscribers : \A e \in db'[u] \ evicted'[u] :
                 /\ e \in db[u] \ evicted[u]
                 /\ e \in index[u] => e \in index'[u]
        PROVE  UnreadInv'
    <2>1. ASSUME NEW q \in Queries, NEW u \in Tables[q], NEW e \in Unread(q, u)'
          PROVE  e \in Unread(q, u) /\ e \in index'[u]
      <3>1. u \in Subscribers /\ e \in Unread(q, u)
        BY <1>r, <1>t, <1>2, <2>1 DEF Unread
      <3> QED BY <1>2, <2>1, <3>1 DEF UnreadInv, Unread
    <2>2. /\ th'.pc \in {"time", "eid"} => th'.last.id # 0
          /\ \A u \in Subscribers, q \in Queries : queries'[u][q] \in {queries[u][q], -1}
      BY <1>0 DEF UnreadInv
    <2> QED BY <1>0, <2>1, <2>2, UnreadStays
  <1>3. ASSUME NEW E, Evict(s, E) PROVE UnreadInv'
    BY <1>t, <1>2, <1>3 DEF Evict, Buffers
  <1>4. CASE deleteDoomed(s)
    BY <1>t, <1>2, <1>4 DEF deleteDoomed, Buffers, history
  <1> QED BY <1>1, <1>3, <1>4 DEF Publish, removeOverflowingEventBatches, expireEventBatches

\* A step of a query that neither reads the index nor saves a pointer.
LEMMA UnreadMoves ==
  ASSUME OneTable, Inv, UnreadInv, ExpireInv,
         \/ \E q \in Queries : StartQuery(q)
         \/ fetch \/ checkExecuted \/ boundRead \/ expireRead \/ deleteRead \/ nextTable
         \/ \E ok \in BOOLEAN : LogQuery(ok)
  PROVE  UnreadInv'
  <1>t. /\ TypeOK /\ ThreadInv /\ th \in Threads
        /\ db \in Buffers /\ index \in Buffers
        /\ logged \in [Queries -> SUBSET Event] /\ lost \in [Queries -> SUBSET Event]
        /\ \A q \in Queries : Tables[q] \subseteq Subscribers
        /\ th.pc # "idle" => th.q \in Queries
        /\ th.pc \in AtTable => th.s \in Tables[th.q] /\ th.s \in Subscribers
    BY ThreadTypes, NamesAssumption DEF Inv, TypeOK
  <1>0. /\ UNCHANGED <<ptrs, queries>> /\ evicted \in Buffers
        /\ \A u \in Subscribers : evicted[u] \subseteq evicted'[u]
    <2>1. UNCHANGED <<ptrs, queries>>
      BY DEF StartQuery, fetch, checkExecuted, boundRead, expireRead, deleteRead, nextTable,
             LogQuery
    <2>2. evicted \in Buffers
      BY <1>t DEF TypeOK
    <2>3. CASE expireRead
      BY <2>2, <2>3 DEF expireRead, Buffers
    <2>4. expireRead \/ evicted' = evicted
      BY DEF StartQuery, fetch, checkExecuted, boundRead, deleteRead, nextTable, LogQuery, history
    <2> QED BY <2>1, <2>2, <2>3, <2>4
  <1>1. \A s \in Subscribers, q \in Queries : queries'[s][q] \in {queries[s][q], -1}
    BY <1>0
  \* What is left to show: the events of the query's own table, and what is read.
  <1>2. ASSUME \A u \in Subscribers : db'[u] \subseteq db[u],
               \A q \in Queries : \A u \in Tables[q] :
                 /\ Read(q) \cap db'[u] \subseteq Read(q)'
                 /\ \A e \in Unread(q, u) :
                      e \in index[u] => e \in index'[u] \cup evicted'[u],
               th'.pc \in Saving => th'.pc = "time" /\ th'.last.id # 0 /\ th.pc = "fetch"
                                    /\ th'.q = th.q /\ th'.last = th.last,
               th'.got = {}
        PROVE  UnreadInv'
    <2>1. ASSUME NEW q \in Queries, NEW u \in Tables[q], NEW e \in Unread(q, u)'
          PROVE  e \in Unread(q, u) /\ e \in index'[u]
      <3>1. u \in Subscribers /\ e \in Unread(q, u)
        BY <1>0, <1>t, <1>2, <2>1 DEF Unread
      <3>2. e \notin evicted'[u]
        BY <2>1 DEF Unread
      <3> QED BY <1>2, <2>1, <3>1, <3>2 DEF UnreadInv
    <2> QED BY <1>0, <1>1, <1>2, <2>1, UnreadStays DEF Saving
  <1>3. ASSUME NEW q \in Queries, StartQuery(q) PROVE UnreadInv'
    <2>1. /\ th.q = NoQuery /\ UNCHANGED <<db, index, logged, lost>>
          /\ th'.pc = "table" /\ th'.got = {}
      BY <1>3, <1>t DEF StartQuery, Idle, ThreadInv, store, history
    <2>2. \A p \in Queries : Read(p) \subseteq Read(p)'
      BY <2>1, NamesAssumption DEF Read
    <2> QED BY <1>2, <2>1, <2>2 DEF Saving
  <1>4. CASE fetch
    <2>1. /\ th' = [th EXCEPT !.rows = @ \cup (th.got \cap db[th.s]), !.got = {},
                              !.pc = IF th.last.id = 0 THEN "check" ELSE "time"]
          /\ th.pc = "fetch" /\ UNCHANGED <<db, index, logged, lost>>
      BY <1>4 DEF fetch, store, history
    <2>2. /\ th'.got = {} /\ th'.rows = th.rows \cup (th.got \cap db[th.s])
          /\ th'.q = th.q /\ th'.last = th.last /\ th'.s = th.s
          /\ th'.pc = IF th.last.id = 0 THEN "check" ELSE "time"
      BY <1>t, <2>1 DEF Threads
    <2>3. \A p \in Queries : \A u \in Tables[p] : Read(p) \cap db[u] \subseteq Read(p)'
      BY <1>t, <2>1, <2>2 DEF Read, OneTable, AtTable
    <2> QED BY <1>2, <2>1, <2>2, <2>3 DEF Saving
  <1>4a. CASE checkExecuted \/ boundRead
    <2>0. CheckMoves
      BY <1>4a, <1>t, CheckSteps
    <2>1. /\ UNCHANGED <<db, index, logged, lost>> /\ th.pc \in {"check", "bound"}
          /\ th'.got = th.got /\ th'.rows = th.rows /\ th'.q = th.q
          /\ th'.pc \in {"bound", "expire", "delete"}
      BY <1>t, <2>0 DEF CheckMoves, Threads, store, history
    <2>2. th'.got = {}
      BY <1>t, <2>1 DEF ThreadInv
    <2>3. \A p \in Queries : Read(p) \subseteq Read(p)'
      BY <2>1, <2>2 DEF Read
    <2> QED BY <1>2, <2>1, <2>2, <2>3 DEF Saving
  <1>5. CASE expireRead
    <2>s. PICK s : s = th.s
      OBVIOUS
    <2>1. /\ index' = [index EXCEPT ![s] = @ \ readExpired(s)] /\ th.pc = "expire"
          /\ th' = [th EXCEPT !.pc = "delete", !.doomed = readExpired(s), !.until = 0,
                              !.byClock = FALSE]
          /\ evicted' = [evicted EXCEPT ![s] = IF th.byClock THEN @ \cup readExpired(s)
                                                             ELSE @]
          /\ UNCHANGED <<db, logged, lost>>
      BY <1>5, <2>s DEF expireRead, readExpired
    <2>2. /\ th'.got = {} /\ th'.rows = th.rows /\ th'.q = th.q /\ th'.pc = "delete"
          /\ th.got = {}
      BY <1>t, <2>1 DEF Threads, ThreadInv
    <2>3. \A p \in Queries : Read(p) \subseteq Read(p)'
      BY <2>1, <2>2 DEF Read
    <2>4. ASSUME NEW q \in Queries, NEW u \in Tables[q], NEW e \in Unread(q, u), e \in index[u]
          PROVE  e \in index'[u] \cup evicted'[u]
      <3>1. u \in Subscribers /\ q \in readers(u) /\ e \notin Read(q) \cup evicted[u]
        BY <1>t, <2>4 DEF readers, Unread
      <3>2. CASE u # s \/ e \notin readExpired(s)
        BY <1>t, <2>1, <2>4, <3>1, <3>2 DEF Buffers
      <3>3. CASE u = s /\ e \in readExpired(s)
        <4>1. th.byClock
          BY <2>s, <2>1, <3>1, <3>3, ReadExpiredIsRead
        <4> QED BY <1>0, <2>1, <3>1, <3>3, <4>1 DEF Buffers
      <3> QED BY <3>2, <3>3
    <2> QED BY <1>2, <2>1, <2>2, <2>3, <2>4 DEF Saving
  <1>6. CASE deleteRead
    <2>1. PICK e \in th.doomed : /\ db' = [db EXCEPT ![th.s] = @ \ {e}]
                                 /\ th' = [th EXCEPT !.doomed = @ \ {e}]
      BY <1>6 DEF deleteRead
    <2>2. /\ th.pc = "delete" /\ UNCHANGED <<index, logged, lost>> /\ th.got = {}
      BY <1>6, <1>t DEF deleteRead, history, ThreadInv
    <2>3. th'.got = {} /\ th'.rows = th.rows /\ th'.q = th.q /\ th'.pc = "delete"
      BY <1>t, <2>1, <2>2 DEF Threads
    <2>4. \A p \in Queries : Read(p) \subseteq Read(p)'
      BY <2>2, <2>3 DEF Read
    <2>5. \A u \in Subscribers : db'[u] \subseteq db[u]
      BY <1>t, <2>1 DEF Buffers
    <2> QED BY <1>2, <2>2, <2>3, <2>4, <2>5 DEF Saving
  <1>7. CASE nextTable
    <2>1. /\ th.pc = "delete" /\ UNCHANGED <<db, index, logged, lost>> /\ th.got = {}
          /\ th' = [th EXCEPT !.pc = IF th.todo # {} THEN "table" ELSE "log"]
      BY <1>7, <1>t DEF nextTable, store, history, ThreadInv
    <2>2. /\ th'.got = {} /\ th'.rows = th.rows /\ th'.q = th.q
          /\ th'.pc \in {"table", "log"}
      BY <1>t, <2>1 DEF Threads
    <2>3. \A p \in Queries : Read(p) \subseteq Read(p)'
      BY <2>1, <2>2 DEF Read
    <2> QED BY <1>2, <2>1, <2>2, <2>3 DEF Saving
  <1>8. ASSUME NEW ok \in BOOLEAN, LogQuery(ok) PROVE UnreadInv'
    <2>1. /\ th.pc = "log" /\ UNCHANGED <<db, index>> /\ th.got = {} /\ th.q \in Queries
          /\ th'.q = NoQuery /\ th'.got = {} /\ th'.pc = "idle"
      BY <1>8, <1>t, IdleType DEF LogQuery, store, ThreadInv
    <2>2. \A p \in Queries : /\ logged[p] \subseteq logged'[p] /\ lost[p] \subseteq lost'[p]
                             /\ p = th.q => th.rows \subseteq logged'[p] \cup lost'[p]
      BY <1>8, <1>t, <2>1 DEF LogQuery
    <2>3. \A p \in Queries : Read(p) \subseteq Read(p)'
      BY <2>1, <2>2 DEF Read
    <2> QED BY <1>2, <2>1, <2>3 DEF Saving
  <1> QED BY <1>3, <1>4, <1>4a, <1>5, <1>6, <1>7, <1>8

\* The scan collects all that its query has not read of its table.
LEMMA UnreadCollect ==
  ASSUME OneTable, Inv, UnreadInv, NEW s \in Subscribers, collect(s)
  PROVE  UnreadInv'
  <1>t. /\ ThreadInv /\ th \in Threads /\ optTime \in [Queries -> Nat]
        /\ queries \in [Subscribers -> [Queries -> Nat \cup {-1}]]
        /\ \A q \in Queries : Tables[q] \subseteq Subscribers
    BY NamesAssumption DEF Inv, TypeOK
  <1>1. /\ th.pc = "table" /\ s \in th.todo
        /\ th' = [th EXCEPT !.pc = "fetch", !.s = s, !.todo = @ \ {s},
                            !.got = {e \in scanned(s) : e.id > optEid[th.q]},
                            !.last = th'.last]
        /\ queries' = [queries EXCEPT ![s][th.q] = start(th.q)]
        /\ UNCHANGED <<db, index, ptrs, logged, lost, evicted>>
    BY CollectReads DEF store, history
  <1>2. /\ th.q \in Queries /\ s \in Tables[th.q] /\ \A u \in Tables[th.q] : u = s
        /\ th'.q = th.q /\ th'.pc = "fetch" /\ th'.rows = th.rows /\ th.got = {}
        /\ th'.got = {e \in scanned(s) : e.id > optEid[th.q]}
    <2>1. /\ th'.q = th.q /\ th'.pc = "fetch" /\ th'.rows = th.rows
          /\ th'.got = {e \in scanned(s) : e.id > optEid[th.q]}
      BY <1>1, <1>t DEF Threads
    <2>2. th.q \in Queries /\ th.todo \subseteq Tables[th.q] /\ th.got = {}
      BY <1>1, <1>t, ThreadTypes DEF ThreadInv
    <2> QED BY <1>1, <2>1, <2>2 DEF OneTable
  <1>3. \A q : start(q)' = start(q) /\ \A e : Visible(q, e)' <=> Visible(q, e)
    BY <1>1 DEF start, Visible, ptrs
  <1>4. \A e \in th'.got : Visible(th.q, e)
    BY <1>2 DEF scanned, Visible
  <1>5. ASSUME NEW q \in Queries, NEW u \in Tables[q], NEW e \in Unread(q, u)'
        PROVE  e \in index'[u] /\ Ahead(q, e)'
    <2>1. e \in Unread(q, u)
      BY <1>1, <1>2, <1>5 DEF Unread, Read
    <2>2. e \in index[u] /\ Visible(q, e)
      BY <2>1 DEF UnreadInv, Ahead
    <2>3. CASE q = th.q
      <3>1. u = s /\ e \in th'.got
        BY <1>2, <2>2, <2>3 DEF scanned, Visible
      <3> QED BY <1>2, <1>5, <2>3, <3>1 DEF Unread, Read
    <2>4. CASE q # th.q
      BY <1>1, <1>2, <1>3, <2>2, <2>4 DEF Ahead
    <2> QED BY <2>3, <2>4
  <1>6. ASSUME NEW u \in Subscribers, NEW q \in Queries, queries'[u][q] # -1
        PROVE  u \in Tables[q] /\ queries'[u][q] <= start(q)
    <2>0. PICK p : p = start(th.q)
      OBVIOUS
    <2>1. p \in Nat /\ queries' = [queries EXCEPT ![s][th.q] = p]
      BY <1>1, <1>2, <1>t, <2>0 DEF start
    <2>2. CASE u = s /\ q = th.q
      BY <1>2, <1>t, <2>0, <2>1, <2>2
    <2>3. CASE u # s \/ q # th.q
      <3>1. queries'[u][q] = queries[u][q]
        BY <1>t, <2>1, <2>3
      <3> QED BY <1>6, <3>1 DEF UnreadInv
    <2> QED BY <2>2, <2>3
  <1> QED BY <1>2, <1>3, <1>4, <1>5, <1>6 DEF UnreadInv

\* The pointers that are saved are not past what the query has not read.
LEMMA UnreadSave ==
  ASSUME Inv, PointerInv, UnreadInv, setOptimizeTime \/ setOptimizeEid
  PROVE  UnreadInv'
  <1>t. /\ TypeOK /\ ThreadInv /\ th \in Threads
        /\ optTime \in [Queries -> Nat] /\ optEid \in [Queries -> Nat]
        /\ queries \in [Subscribers -> [Queries -> Nat \cup {-1}]]
        /\ \A q \in Queries : Tables[q] \subseteq Subscribers
        /\ th.last.time \in Nat /\ th.last.id \in Nat
    BY NamesAssumption DEF Inv, TypeOK, Threads, Event
  <1>0. PICK pc \in {"eid", "check"} : th' = [th EXCEPT !.pc = pc]
    BY DEF setOptimizeTime, setOptimizeEid
  <1>1. /\ th.pc \in {"time", "eid"} /\ UNCHANGED <<db, index, queries, logged, lost, evicted>>
        /\ \/ optTime' = [optTime EXCEPT ![th.q] = th.last.time] /\ optEid' = optEid
           \/ optEid' = [optEid EXCEPT ![th.q] = th.last.id] /\ optTime' = optTime
    BY DEF setOptimizeTime, setOptimizeEid, store, history
  <1>2. /\ th'.q = th.q /\ th'.last = th.last /\ th'.rows = th.rows /\ th'.got = {} /\ th.got = {}
        /\ th.q \in Queries
    BY <1>0, <1>1, <1>t, ThreadTypes DEF Threads, ThreadInv
  <1>3. \A q \in Queries : Read(q)' = Read(q)
    BY <1>1, <1>2 DEF Read
  <1>4. \A q \in Queries : q # th.q =>
          /\ start(q)' = start(q) /\ optEid'[q] = optEid[q]
    BY <1>1, <1>t DEF start
  <1>5. ASSUME NEW q \in Queries, NEW u \in Tables[q], NEW e \in Unread(q, u)'
        PROVE  e \in index'[u] /\ Ahead(q, e)'
    <2>1. e \in Unread(q, u)
      BY <1>1, <1>3, <1>5 DEF Unread
    <2>2. /\ e \in index[u] /\ e.time >= start(q) /\ e.id > optEid[q]
          /\ th.q = q => e.time + 1 >= th.last.time /\ e.id > th.last.id
      BY <1>1, <2>1 DEF UnreadInv, Ahead, Visible, Saving
    <2>3. e.time \in Nat /\ e.id \in Nat
      BY <1>t, <2>2, EventTypes
    <2>4. e.time >= start(q)' /\ e.id > optEid'[q]
      <3>1. CASE q # th.q
        BY <1>4, <2>2, <3>1
      <3>2. CASE q = th.q
        BY <1>1, <1>t, <2>2, <2>3, <3>2 DEF start
      <3> QED BY <3>1, <3>2
    <2> QED BY <1>1, <1>2, <2>2, <2>4 DEF Ahead, Visible
  <1>6. ASSUME NEW q \in Queries
        PROVE  start(q) <= start(q)' /\ start(q) \in Nat /\ start(q)' \in Nat
    <2>1. th.last.id # 0 /\ optTime[th.q] <= th.last.time
      BY <1>1 DEF UnreadInv, PointerInv, Saving
    <2>2. CASE q # th.q
      <3>1. start(q) \in Nat
        BY <1>t DEF start
      <3> QED BY <1>4, <2>2, <3>1
    <2>3. CASE q = th.q
      BY <1>1, <1>2, <1>t, <2>1, <2>3 DEF start
    <2> QED BY <2>2, <2>3
  <1>7. ASSUME NEW u \in Subscribers, NEW q \in Queries, queries'[u][q] # -1
        PROVE  u \in Tables[q] /\ queries'[u][q] <= start(q)'
    <2>1. u \in Tables[q] /\ queries[u][q] <= start(q) /\ queries[u][q] \in Nat
      BY <1>1, <1>7, <1>t DEF UnreadInv
    <2> QED BY <1>1, <1>6, <2>1
  <1>8. th'.last.id # 0
    BY <1>1, <1>2 DEF UnreadInv
  <1> QED BY <1>2, <1>5, <1>7, <1>8 DEF UnreadInv

\* A restart forgets what was collected and not saved: it is still visible.
LEMMA UnreadRestart ==
  ASSUME Inv, UnreadInv, Restart
  PROVE  UnreadInv'
  <1>t. TypeOK /\ \A q \in Queries : Tables[q] \subseteq Subscribers
    BY NamesAssumption DEF Inv
  <1>1. /\ db' = [s \in Subscribers |-> kept(s)] /\ index' = [s \in Subscribers |-> kept(s)]
        /\ evicted' = [s \in Subscribers |-> evicted[s] \cup (db[s] \ kept(s))]
        /\ queries' = [s \in Subscribers |-> [q \in Queries |-> -1]] /\ th' = Idle
        /\ lost' = [q \in Queries |-> IF th.q = q THEN lost[q] \cup th.rows ELSE lost[q]]
        /\ UNCHANGED <<ptrs, logged>>
    BY DEF Restart, kept, young, ptrs
  <1>2. \A q : start(q)' = start(q) /\ \A e : Visible(q, e)' <=> Visible(q, e)
    BY <1>1 DEF start, Visible, ptrs
  <1>3. ASSUME NEW q \in Queries, NEW u \in Tables[q], NEW e \in Unread(q, u)'
        PROVE  e \in index'[u] /\ Visible(q, e)
    <2>1. u \in Subscribers /\ kept(u) \subseteq db[u]
      BY <1>t, KeptHasTop
    <2>2. e \in kept(u) /\ e \notin evicted[u] /\ e \in db[u]
      BY <1>1, <1>3, <2>1 DEF Unread
    <2>3. e \notin logged[q] \cup lost[q] \cup (IF th.q = q THEN th.rows ELSE {})
      BY <1>1, <1>3 DEF Unread, Read
    <2>4. CASE th.q = q /\ e \in th.got
      BY <1>1, <2>1, <2>2, <2>4 DEF UnreadInv
    <2>5. CASE ~(th.q = q /\ e \in th.got)
      <3>1. e \in Unread(q, u)
        BY <2>2, <2>3, <2>5 DEF Unread, Read
      <3> QED BY <1>1, <2>1, <2>2, <3>1 DEF UnreadInv, Ahead
    <2> QED BY <2>4, <2>5
  <1>4. th'.pc = "idle" /\ th'.got = {}
    BY <1>1, IdleType
  <1> QED BY <1>1, <1>2, <1>3, <1>4 DEF UnreadInv, Ahead, Saving

\* Every step keeps what is unread visible.
LEMMA UnreadStep ==
  ASSUME OneTable, Delays \subseteq {0, 1}, Inv, PointerInv, UnreadInv, ExpireInv,
         [Next]_vars
  PROVE  UnreadInv'
  <1>1. CASE \E s \in Subscribers : Publish(s)
    BY <1>1, UnreadPublish
  <1>2. CASE Query
    BY <1>2, UnreadMoves, UnreadCollect, UnreadSave DEF Query
  <1>3. ASSUME UNCHANGED <<db, index, ptrs, th, logged, lost, evicted>>,
               \A s \in Subscribers, q \in Queries : queries'[s][q] \in {queries[s][q], -1}
        PROVE  UnreadInv'
    <2>1. \A q : \A s : Unread(q, s)' = Unread(q, s)
      BY <1>3 DEF Unread, Read
    <2> QED BY <1>3, <2>1, UnreadStays DEF UnreadInv
  <1>4. CASE resetQueryCount
    <2>1. \A s \in Subscribers, q \in Queries : queries'[s][q] \in {queries[s][q], -1}
      BY <1>4 DEF resetQueryCount
    <2> QED BY <1>3, <1>4, <2>1 DEF resetQueryCount, store, history
  <1>5. CASE Restart
    BY <1>5, UnreadRestart
  <1>6. CASE Tick \/ UNCHANGED vars
    BY <1>3, <1>6 DEF Tick, vars, store, history
  <1> QED BY <1>1, <1>2, <1>4, <1>5, <1>6 DEF Next

\* Whatever the order of adding, evicting, saving the two pointers and restarting, an
\* event that is buffered and that a query has not read is within the query's
\* pointers (generateRows, setOptimizeData, expireEventBatches, setUp).  This is so
\* for queries that read one event table, and for events that are added within a
\* second of their own time: the second that start goes back.
THEOREM Unhidden ==
  ASSUME OneTable, Delays \subseteq {0, 1}
  PROVE  Spec => []UnreadStaysVisible
  <1>1. Inv /\ UnreadInv => UnreadStaysVisible
    <2> SUFFICES ASSUME Inv, UnreadInv, NEW q \in Queries, NEW s \in Subscribers,
                        s \in Tables[q], NEW e \in index[s] \ (evicted[s] \cup Read(q))
                 PROVE  Visible(q, e)
      BY DEF UnreadStaysVisible
    <2>1. e \in Unread(q, s)
      BY EventTypes DEF Inv, Unread
    <2> QED BY <2>1 DEF UnreadInv, Ahead
  <1>2. Inv /\ PointerInv /\ [Next]_vars => PointerInv'
    BY PointerStep
  <1>3. Inv /\ PointerInv /\ UnreadInv /\ ExpireInv /\ [Next]_vars => UnreadInv' /\ ExpireInv'
    BY UnreadStep, ExpireStep
  <1> QED BY <1>1, <1>2, <1>3, PointerInit, UnreadInit, ExpireInit, Invariance, PTL DEF Spec

\* The expiry at the end of a query drops what every scheduled query on that table
\* has read, or what the limits have dropped already (executedAllQueries,
\* getExpireTime, expireEventBatches in generateRows).  The exception is the bound
\* that getExpireTime takes from the clock when configUpdate has cleared queries_ since
\* executedAllQueries.
THEOREM ExpiresRead ==
  ASSUME OneTable, Delays \subseteq {0, 1}
  PROVE  Spec => QueryExpiryOnlyDropsRead
  <1> DEFINE Drops == \A s \in Subscribers : \A q \in readers(s) :
                        crashes' = crashes /\ th' # th /\ ~th.byClock
                          => index[s] \ index'[s] \subseteq Read(q) \cup evicted[s]
  <1>1. Inv /\ UnreadInv /\ ExpireInv /\ [Next]_vars => [Drops]_vars
    <2> SUFFICES ASSUME Inv, UnreadInv, ExpireInv, Next, NEW s \in Subscribers,
                        NEW q \in readers(s), crashes' = crashes, th' # th, ~th.byClock
                 PROVE  index[s] \ index'[s] \subseteq Read(q) \cup evicted[s]
      OBVIOUS
    <2>1. \/ index' = index
          \/ th.pc = "expire" /\ index' = [index EXCEPT ![th.s] = @ \ readExpired(th.s)]
      <3>1. ~Restart
        BY DEF Restart, Inv, TypeOK
      <3>2. ~(\E u \in Subscribers : Publish(u)) /\ ~resetQueryCount /\ ~Tick
        BY DEF Publish, addBatch, removeOverflowingEventBatches, expireEventBatches, Evict,
               deleteDoomed, resetQueryCount, Tick
      <3>3. Query
        BY <3>1, <3>2 DEF Next
      <3> QED BY <3>3 DEF Query, StartQuery, collect, fetch, setOptimizeTime, setOptimizeEid,
                          checkExecuted, boundRead, expireRead, readExpired, deleteRead,
                          nextTable, LogQuery, store
    <2>2. index \in [Subscribers -> SUBSET Event]
      BY DEF Inv, TypeOK, Buffers
    <2>3. CASE index' = index
      BY <2>3
    <2>4. CASE th.pc = "expire" /\ index' = [index EXCEPT ![th.s] = @ \ readExpired(th.s)]
      <3>1. CASE s # th.s
        BY <2>2, <2>4, <3>1
      <3>2. CASE s = th.s
        <4>1. index[s] \ index'[s] \subseteq readExpired(s)
          BY <2>2, <2>4, <3>2
        <4> QED BY <2>4, <3>2, <4>1, ReadExpiredIsRead
      <3> QED BY <3>1, <3>2
    <2> QED BY <2>1, <2>3, <2>4
  <1>2. Inv /\ PointerInv /\ [Next]_vars => PointerInv'
    BY PointerStep
  <1>3. Inv /\ PointerInv /\ UnreadInv /\ ExpireInv /\ [Next]_vars => UnreadInv' /\ ExpireInv'
    BY UnreadStep, ExpireStep
  <1>4. Spec => [][Drops]_vars
    <2> HIDE DEF Drops
    <2> QED BY <1>1, <1>2, <1>3, PointerInit, UnreadInit, ExpireInit, Invariance, PTL DEF Spec
  <1> QED BY <1>4 DEF QueryExpiryOnlyDropsRead

-----------------------------------------------------------------------------
(* What is logged is not read again *)

\* Nothing has been logged at the start.
LEMMA OnceInit == Init => OnceInv
  <1> SUFFICES ASSUME Init PROVE OnceInv OBVIOUS
  <1>1. /\ \A s \in Subscribers : db[s] = {}
        /\ \A q \in Queries : logged[q] = {}
        /\ th.pc = "idle"
    BY DEF Init, Idle
  <1> QED BY <1>1 DEF OnceInv, LargestIsLast, LoggedOnce, Saving

\* Events that are added at their own time come in the order of their ids.
LEMMA LargestStays ==
  ASSUME Delays \subseteq {0}, Inv, \A s \in Subscribers : LargestIsLast(s), [Next]_vars
  PROVE  \A s \in Subscribers : LargestIsLast(s)'
  <1>t. /\ TypeOK /\ db \in Buffers /\ index \in Buffers /\ now \in Nat
        /\ lastId \in [Subscribers -> Nat]
    BY DEF Inv, TypeOK
  <1>0. Inv' /\ Grow
    BY StepInv
  <1>n. TypeOK' /\ \A s \in Subscribers :
          /\ \A e \in db'[s] : e.time \in Nat /\ e.id \in Nat
          /\ index'[s] \subseteq db'[s] /\ lastId'[s] \in Nat
    BY <1>0 DEF Inv, TypeOK, Buffers, Event
  <1>1. ASSUME NEW s \in Subscribers, db'[s] \subseteq db[s] PROVE LargestIsLast(s)'
    <2> SUFFICES ASSUME NEW e \in index'[s], Top(s, e)', NEW f \in db'[s] PROVE f.id <= e.id
      BY DEF LargestIsLast
    <2>1. f \in db[s] /\ BufferInv(s) /\ Grows(s)
      BY <1>0, <1>1 DEF Inv, StoreInv, Grow
    <2>2. PICK g \in index[s] : Top(s, g)
      BY <2>1 DEF BufferInv
    <2>3. PICK h \in index'[s] : Top(s, h)' /\ g.id <= h.id
      BY <2>1, <2>2 DEF Grows
    <2>4. h.id <= e.id
      BY <1>n, <2>3 DEF Top
    <2>5. f.id <= g.id
      BY <2>1, <2>2 DEF LargestIsLast
    <2>6. g.id \in Nat
      BY <1>t, EventTypes
    <2> QED BY <1>n, <2>3, <2>4, <2>5, <2>6
  <1>2. ASSUME NEW s \in Subscribers, NEW n \in 1..MaxRows, NEW delay \in Delays,
               addBatch(s, n, delay)
        PROVE  LargestIsLast(s)' /\ \A u \in Subscribers \ {s} : db'[u] = db[u]
    <2>1. PICK new \in db'[s] : new.id = lastId'[s] /\ new.time = now
      <3>1. delay = 0 /\ now - delay = now /\ n \in 1..n
        BY <1>t, BoundsAssumption
      <3>2. [id |-> lastId[s] + n, time |-> now] \in db'[s] /\ lastId'[s] = lastId[s] + n
        BY <1>2, <1>t, <3>1 DEF addBatch, Buffers
      <3> QED BY <3>2
    <2>2. \A f \in db'[s] : f.id <= lastId'[s] /\ f.time <= now
      BY <1>0, <1>2 DEF Inv, StoreInv, BufferInv, addBatch, clock
    <2>3. LargestIsLast(s)'
      <3> SUFFICES ASSUME NEW e \in index'[s], Top(s, e)', NEW f \in db'[s] PROVE f.id <= e.id
        BY DEF LargestIsLast
      <3>1. new.time < e.time \/ new.id <= e.id
        BY DEF Top
      <3> QED BY <1>n, <1>t, <2>1, <2>2, <3>1
    <2> QED BY <1>2, <1>t, <2>3 DEF addBatch, Buffers
  <1>3. CASE \E s \in Subscribers : \E n \in 1..MaxRows, delay \in Delays : addBatch(s, n, delay)
    BY <1>1, <1>2, <1>3
  <1>4. CASE ~(\E s \in Subscribers : \E n \in 1..MaxRows, delay \in Delays : addBatch(s, n, delay))
    <2>1. CASE Restart
      <3>1. \A s \in Subscribers : db'[s] = kept(s)
        BY <2>1 DEF Restart, kept, young
      <3> QED BY <1>1, <1>t, <3>1, KeptHasTop
    <2>2. CASE ~Restart
      <3>1. \/ db' = db
            \/ \E s \in Subscribers, e \in Event : db' = [db EXCEPT ![s] = @ \ {e}]
        <4>1. CASE \E s \in Subscribers : deleteDoomed(s)
          <5>1. PICK s \in Subscribers : deleteDoomed(s)
            BY <4>1
          <5>2. PICK e \in doomed[s] : db' = [db EXCEPT ![s] = @ \ {e}]
            BY <5>1 DEF deleteDoomed
          <5>3. e \in Event
            BY <1>t, EventTypes
          <5> QED BY <5>2, <5>3
        <4>2. CASE deleteRead
          <5>1. PICK e \in th.doomed : db' = [db EXCEPT ![th.s] = @ \ {e}]
            BY <4>2 DEF deleteRead
          <5>2. th.s \in Subscribers /\ e \in Event
            BY <4>2, ThreadTypes DEF deleteRead, AtTable, Threads
          <5> QED BY <5>1, <5>2
        <4>3. CASE ~deleteRead /\ ~(\E s \in Subscribers : deleteDoomed(s))
          BY <1>4, <2>2, <4>3
             DEF Next, Publish, removeOverflowingEventBatches, expireEventBatches, Evict, Query,
                 StartQuery, collect, fetch, setOptimizeTime, setOptimizeEid, checkExecuted,
                 boundRead, expireRead, nextTable, LogQuery, resetQueryCount, Tick, vars, store
        <4> QED BY <4>1, <4>2, <4>3
      <3>2. \A s \in Subscribers : db'[s] \subseteq db[s]
        BY <1>t, <3>1 DEF Buffers
      <3> QED BY <1>1, <3>2
    <2> QED BY <2>1, <2>2
  <1> QED BY <1>3, <1>4

\* Every step keeps what is to be logged apart from what was logged.
LEMMA OnceStep ==
  ASSUME OneTable, Delays \subseteq {0}, Inv, PointerInv, UnreadInv, OnceInv, [Next]_vars
  PROVE  OnceInv'
  <1>t. /\ TypeOK /\ ThreadInv /\ th \in Threads
        /\ logged \in [Queries -> SUBSET Event]
        /\ optEid \in [Queries -> Nat]
        /\ th.pc # "idle" => th.q \in Queries
        /\ th.last.id \in Nat
    BY ThreadTypes DEF Inv, TypeOK, Threads, Event
  <1>e. /\ \A q \in Queries : \A e \in logged[q] : e.id \in Nat
        /\ \A e \in th.got \cup th.rows : e.id \in Nat
    BY <1>t DEF Threads, Event
  <1>0. \A s \in Subscribers : LargestIsLast(s)'
    BY LargestStays DEF OnceInv
  \* Nothing is logged and no pointer is saved.
  <1>1. ASSUME UNCHANGED <<logged, optEid>>,
               \/ /\ th'.q = th.q /\ th'.rows = th.rows /\ th'.got = th.got
                  /\ th'.last = th.last
                  /\ \/ th'.pc = th.pc
                     \/ th.pc \in Saving /\ th'.pc \in Saving
                     \/ /\ th.pc \in {"check", "bound", "expire", "delete"}
                        /\ th'.pc \in {"bound", "expire", "delete", "log"}
               \/ th'.pc = "idle"
               \/ th'.pc = "table" /\ th'.rows = {}
        PROVE  OnceInv'
    BY <1>0, <1>1 DEF OnceInv, LoggedOnce, Saving
  <1>2. CASE UNCHANGED <<th, logged, optEid>>
    BY <1>1, <1>2
  <1>3. CASE Restart
    BY <1>1, <1>3, IdleType DEF Restart
  <1>4. ASSUME NEW q \in Queries, StartQuery(q) PROVE OnceInv'
    BY <1>1, <1>4 DEF StartQuery, Idle, ptrs, history
  <1>5. ASSUME NEW s \in Subscribers, collect(s) PROVE OnceInv'
    <2>1. /\ th.pc = "table" /\ s \in th.todo
          /\ th' = [th EXCEPT !.pc = "fetch", !.s = s, !.todo = @ \ {s},
                              !.got = {e \in scanned(s) : e.id > optEid[th.q]},
                              !.last = th'.last]
          /\ UNCHANGED <<optEid, logged>>
      BY <1>5, CollectReads DEF ptrs, history
    <2>2. /\ th'.pc = "fetch" /\ th'.q = th.q /\ th'.rows = {} /\ th.q \in Queries
          /\ th'.got = {e \in scanned(s) : e.id > optEid[th.q]}
      BY <1>t, <2>1 DEF Threads, ThreadInv
    <2>3. ASSUME NEW e \in th'.got PROVE e.id <= th'.last.id /\ e \notin logged[th.q]
      <3>1. e \in scanned(s) /\ e \in index[s] /\ e.id > optEid[th.q]
        BY <2>2 DEF scanned
      <3>2. th'.last \in index[s] /\ Top(s, th'.last)
        BY <1>5, <2>2, <3>1, CollectReads, ScanEnds
      <3>3. e \in db[s] /\ e.id \in Nat
        BY <1>t, <3>1, EventTypes
      <3>4. e.id <= th'.last.id
        BY <3>2, <3>3 DEF OnceInv, LargestIsLast
      <3>5. e \notin logged[th.q]
        BY <1>t, <2>2, <3>1, <3>3 DEF OnceInv
      <3> QED BY <3>4, <3>5
    <2>4. \A e \in th'.got \cup th'.rows : e.id <= th'.last.id /\ e \notin logged'[th'.q]
      BY <2>1, <2>2, <2>3
    <2> QED BY <1>0, <2>1, <2>2, <2>4 DEF OnceInv, LoggedOnce
  <1>6. CASE fetch
    <2>1. /\ th' = [th EXCEPT !.rows = @ \cup (th.got \cap db[th.s]), !.got = {},
                              !.pc = IF th.last.id = 0 THEN "check" ELSE "time"]
          /\ th.pc = "fetch" /\ UNCHANGED <<optEid, logged>>
      BY <1>6 DEF fetch, ptrs, history
    <2>2. /\ th'.got = {} /\ th'.rows \subseteq th.rows \cup th.got /\ th'.q = th.q
          /\ th'.last = th.last /\ th'.pc = IF th.last.id = 0 THEN "check" ELSE "time"
      BY <1>t, <2>1 DEF Threads
    <2>3. \A e \in th'.rows : e.id \in Nat /\ e.id <= th.last.id /\ e \notin logged[th.q]
      BY <1>e, <2>1, <2>2 DEF OnceInv, Saving
    <2>4. th.last.id = 0 => \A e \in th'.rows : e.id <= optEid[th.q]
      BY <1>t, <2>1, <2>3
    <2> QED BY <1>0, <2>1, <2>2, <2>3, <2>4 DEF OnceInv, LoggedOnce
  <1>7. CASE setOptimizeTime
    <2>1. th.pc = "time" /\ th' = [th EXCEPT !.pc = "eid"] /\ UNCHANGED <<optEid, logged>>
      BY <1>7 DEF setOptimizeTime, history
    <2>2. /\ th'.q = th.q /\ th'.rows = th.rows /\ th'.got = th.got /\ th'.last = th.last
          /\ th'.pc = "eid"
      BY <1>t, <2>1 DEF Threads
    <2> QED BY <1>1, <2>1, <2>2 DEF Saving
  <1>8. CASE setOptimizeEid
    <2>1. /\ th.pc = "eid" /\ th' = [th EXCEPT !.pc = "check"]
          /\ optEid' = [optEid EXCEPT ![th.q] = th.last.id] /\ logged' = logged
      BY <1>8 DEF setOptimizeEid, history
    <2>2. th'.q = th.q /\ th'.rows = th.rows /\ th'.pc = "check" /\ th.q \in Queries
      BY <1>t, <2>1 DEF Threads
    <2>3. optEid[th.q] <= th.last.id
      BY <2>1 DEF UnreadInv, PointerInv, Saving
    <2>4. \A e \in th.rows : e.id <= th.last.id /\ e \notin logged[th.q]
      BY <2>1 DEF OnceInv, Saving
    <2>5. /\ optEid'[th.q] = th.last.id
          /\ \A q \in Queries \ {th.q} : optEid'[q] = optEid[q]
      BY <1>t, <2>1, <2>2
    <2>6. \A q \in Queries : \A e \in logged[q] : e.id <= optEid'[q]
      BY <1>e, <1>t, <2>2, <2>3, <2>5 DEF OnceInv
    <2> QED BY <1>0, <2>1, <2>2, <2>4, <2>5, <2>6 DEF OnceInv, LoggedOnce, Saving
  <1>9. CASE expireRead \/ deleteRead \/ nextTable
    <2>1. /\ th.pc \in {"expire", "delete"} /\ UNCHANGED <<optEid, logged>>
          /\ th'.q = th.q /\ th'.rows = th.rows /\ th'.got = th.got /\ th'.last = th.last
          /\ th'.pc = IF nextTable THEN IF th.todo # {} THEN "table" ELSE "log" ELSE "delete"
      BY <1>9, <1>t DEF expireRead, deleteRead, nextTable, ptrs, history, Threads
    <2>2. th.todo = {}
      BY <1>t, <2>1 DEF ThreadInv, AtTable
    <2> QED BY <1>1, <2>1, <2>2
  <1>9a. CASE checkExecuted \/ boundRead
    <2>0. CheckMoves
      BY <1>9a, <1>t, CheckSteps
    <2>1. /\ th.pc \in {"check", "bound"} /\ UNCHANGED <<optEid, logged>>
          /\ th'.q = th.q /\ th'.rows = th.rows /\ th'.got = th.got /\ th'.last = th.last
          /\ th'.pc \in {"bound", "expire", "delete"}
      BY <1>t, <2>0 DEF CheckMoves, ptrs, history, Threads
    <2> QED BY <1>1, <2>1
  <1>10. ASSUME NEW ok \in BOOLEAN, LogQuery(ok) PROVE OnceInv'
    <2>1. /\ th.pc = "log" /\ th'.pc = "idle" /\ optEid' = optEid
          /\ logged' = logged \/ logged' = [logged EXCEPT ![th.q] = @ \cup th.rows]
      BY <1>10, IdleType DEF LogQuery, ptrs
    <2>2. \A q \in Queries : \A e \in logged'[q] : e.id <= optEid[q]
      BY <1>t, <2>1 DEF OnceInv
    <2> QED BY <1>0, <2>1, <2>2 DEF OnceInv, LoggedOnce, Saving
  <1>11. CASE (\E s \in Subscribers : Publish(s)) \/ resetQueryCount \/ Tick \/ UNCHANGED vars
    BY <1>2, <1>11 DEF Publish, addBatch, removeOverflowingEventBatches, expireEventBatches,
                       Evict, deleteDoomed, resetQueryCount, Tick, vars, ptrs, history
  <1> QED BY <1>3, <1>4, <1>5, <1>6, <1>7, <1>8, <1>9, <1>9a, <1>10, <1>11 DEF Next, Query

\* A query never logs an event twice, whatever crashes between reading it, saving the
\* two pointers and logging it (generateRows, setOptimizeData, launchQuery).  This is
\* so for queries that read one event table, and for events that are added at their
\* own time: a later one may come after a scan of its second.
THEOREM LogsOnce ==
  ASSUME OneTable, Delays \subseteq {0}
  PROVE  Spec => []LoggedOnce
  <1>1. OnceInv => LoggedOnce
    BY DEF OnceInv
  <1>2. Inv /\ PointerInv /\ [Next]_vars => PointerInv'
    BY PointerStep
  <1>3. Inv /\ PointerInv /\ UnreadInv /\ ExpireInv /\ [Next]_vars => UnreadInv' /\ ExpireInv'
    BY UnreadStep, ExpireStep
  <1>4. Inv /\ PointerInv /\ UnreadInv /\ OnceInv /\ [Next]_vars => OnceInv'
    BY OnceStep
  <1> QED BY <1>1, <1>2, <1>3, <1>4, PointerInit, UnreadInit, ExpireInit, OnceInit,
             Invariance, PTL DEF Spec

-----------------------------------------------------------------------------
(* The index has a bound *)

\* Numbers modulo the checkpoint.
LEMMA Remainder ==
  ASSUME NEW a \in Nat, NEW c \in Nat \ {0}
  PROVE  a = c * (a \div c) + (a % c) /\ a \div c \in Int /\ a % c \in 0..c-1
  OBVIOUS

\* A number has one remainder.
LEMMA OneRemainder ==
  ASSUME NEW c \in Nat \ {0}, NEW p \in Int, NEW q \in Int,
         NEW r \in 0..c-1, NEW t \in 0..c-1, c * p + r = c * q + t
  PROVE  r = t
  <1>1. c * (p - q) = t - r
    OBVIOUS
  <1>2. CASE p - q >= 1
    <2>1. c * (p - q) >= c
      BY <1>2
    <2> QED BY <1>1, <2>1
  <1>3. CASE p - q <= -1
    <2>1. c * (p - q) <= -c
      BY <1>3
    <2> QED BY <1>1, <2>1
  <1>4. CASE p = q
    BY <1>1, <1>4
  <1> QED BY <1>2, <1>3, <1>4

\* Below the checkpoint the remainder grows with the count.
LEMMA RemainderGrows ==
  ASSUME NEW a \in Nat, NEW n \in Nat, NEW c \in Nat \ {0}, (a % c) + n < c
  PROVE  (a + n) % c = (a % c) + n
  <1> DEFINE p == a \div c
             q == (a + n) \div c
             r == a % c
             t == (a + n) % c
  <1>1. a = c * p + r /\ p \in Int /\ r \in 0..c-1
    BY Remainder
  <1>2. a + n = c * q + t /\ q \in Int /\ t \in 0..c-1
    <2>1. a + n \in Nat
      OBVIOUS
    <2> QED BY <2>1, Remainder
  <1>3. r + n < c
    OBVIOUS
  <1> HIDE DEF p, q, r, t
  <1>4. c * p + (r + n) = c * q + t /\ r + n \in 0..c-1
    BY <1>1, <1>2, <1>3
  <1>5. r + n = t
    BY <1>1, <1>2, <1>4, OneRemainder
  <1> QED BY <1>5 DEF r, t

\* The removal of the overflowing batches leaves at most events_max of them.
LEMMA OverflowLeaves ==
  ASSUME NEW E, E \subseteq Event, NEW n \in Nat, \A e \in E : e.time <= n, MaxBatches > 0
  PROVE  Cardinality(Times(E \ overflowing(E))) <= MaxBatches
  <1> DEFINE T == Times(E \ overflowing(E))
  <1>1. T \subseteq Times(E) /\ Times(E) \subseteq Nat
    BY DEF Times, Event
  <1>2. IsFiniteSet(Times(E))
    <2>1. \A t \in Times(E) : t <= n
      BY DEF Times
    <2> QED BY <1>1, <2>1, FS_BoundedSetOfNaturals
  <1>3. CASE T = {}
    <2>1. Cardinality(T) = 0
      BY <1>3, FS_EmptySet
    <2> QED BY <2>1, FlagsAssumption
  <1>4. CASE T # {}
    <2>1. Min(T) \in T /\ \A t \in T : Min(T) <= t
      <3> HIDE DEF T
      <3> QED BY <1>1, <1>4, Least
    <2>2. PICK e \in E \ overflowing(E) : e.time = Min(T)
      BY <2>1 DEF Times
    <2> DEFINE U == {t \in Times(E) : t >= e.time}
    <2>3. ~(Cardinality(U) > MaxBatches)
      <3>1. MaxBatches # 0
        BY FlagsAssumption
      <3>2. overflowing(E) =
              {f \in E : Cardinality({t \in Times(E) : t >= f.time}) > MaxBatches}
        BY <3>1 DEF overflowing
      <3> QED BY <2>2, <3>2, Zenon
    <2>4. U \subseteq Times(E) /\ T \subseteq U
      BY <1>1, <2>1, <2>2
    <2> HIDE DEF T, U
    <2>5. /\ IsFiniteSet(U) /\ IsFiniteSet(T) /\ Cardinality(T) <= Cardinality(U)
      BY <1>2, <2>4, FS_Subset
    <2>6. Cardinality(T) \in Nat /\ Cardinality(U) \in Nat
      BY <2>5, FS_CardinalityType
    <2>7. Cardinality(T) <= MaxBatches
      BY <2>3, <2>5, <2>6, FlagsAssumption
    <2> QED BY <2>7 DEF T
  <1> QED BY <1>3, <1>4

\* The times of a buffer are finitely many, and so are those of any part of it.
LEMMA TimesFinite ==
  ASSUME Inv, NEW s \in Subscribers, NEW I, I \subseteq index[s]
  PROVE  /\ IsFiniteSet(Times(I)) /\ Cardinality(Times(I)) \in Nat
         /\ IsFiniteSet(Times(index[s])) /\ Cardinality(Times(index[s])) \in Nat
         /\ Cardinality(Times(I)) <= Cardinality(Times(index[s]))
  <1>1. TypeOK /\ BufferInv(s)
    BY DEF Inv, StoreInv
  <1>2. Times(index[s]) \subseteq Nat /\ now \in Nat /\ \A t \in Times(index[s]) : t <= now
    BY <1>1, EventTypes DEF BufferInv, Times
  <1>3. IsFiniteSet(Times(index[s]))
    BY <1>2, FS_BoundedSetOfNaturals
  <1>4. Times(I) \subseteq Times(index[s])
    BY DEF Times
  <1>5. IsFiniteSet(Times(I)) /\ Cardinality(Times(I)) <= Cardinality(Times(index[s]))
    BY <1>3, <1>4, FS_Subset
  <1> QED BY <1>3, <1>5, FS_CardinalityType

\* The buffers are empty at the start.
LEMMA BoundInit == Init => BoundInv
  <1> SUFFICES ASSUME Init, NEW s \in Subscribers PROVE Bounded(s)
    BY DEF BoundInv
  <1>1. index[s] = {} /\ count[s] = 0
    BY DEF Init
  <1>2. Times(index[s]) = {}
    BY <1>1 DEF Times
  <1>3. Cardinality(Times(index[s])) = 0
    BY <1>2, FS_EmptySet
  <1> QED BY <1>1, <1>3, FlagsAssumption DEF Bounded

\* Every step keeps the buffers within the bound.
LEMMA BoundStep ==
  ASSUME Inv, BoundInv, [Next]_vars
  PROVE  BoundInv'
  <1>t. /\ TypeOK /\ StoreInv /\ db \in Buffers /\ index \in Buffers /\ now \in Nat
        /\ count \in [Subscribers -> Nat]
        /\ cleanup \in [Subscribers -> {"no", "overflow", "expire"}]
        /\ lastId \in [Subscribers -> Nat]
        /\ \A s \in Subscribers : BufferInv(s) /\ index[s] \subseteq db[s] /\ db[s] \subseteq Event
    BY EventTypes DEF Inv, StoreInv, TypeOK
  <1>m. \A s \in Subscribers : count[s] % Checkpoint \in 0..Checkpoint-1
    BY <1>t, FlagsAssumption, Remainder
  \* The index loses batches, or nothing happens to it.
  <1>1. ASSUME NEW s \in Subscribers, index'[s] \subseteq index[s], count'[s] = count[s],
               cleanup[s] = "overflow" => cleanup'[s] = "overflow"
        PROVE  Bounded(s)'
    <2>1. PICK I : I = index'[s]
      OBVIOUS
    <2>2. /\ Cardinality(Times(I)) \in Nat /\ Cardinality(Times(index[s])) \in Nat
          /\ Cardinality(Times(I)) <= Cardinality(Times(index[s]))
      BY <1>1, <2>1, TimesFinite
    <2>3. Bounded(s)
      BY DEF BoundInv
    <2>4. Times(index[s])' = Times(I)
      BY <2>1 DEF Times
    <2> QED BY <1>1, <1>m, <2>2, <2>3, <2>4, FlagsAssumption DEF Bounded
  <1>2. ASSUME NEW s \in Subscribers, NEW n \in 1..MaxRows, NEW delay \in Delays,
               addBatch(s, n, delay)
        PROVE  Bounded(s)'
    <2>1. CASE checkpointReached(s, n)
      BY <1>2, <1>t, <2>1 DEF addBatch, Bounded
    <2>2. CASE ~checkpointReached(s, n)
      <3>1. n \in Nat \ {0} /\ (count[s] % Checkpoint) + n < Checkpoint
        BY <1>m, <2>2, BoundsAssumption, FlagsAssumption DEF checkpointReached
      <3>2. count'[s] % Checkpoint = (count[s] % Checkpoint) + n
        <4>1. count'[s] = count[s] + n
          BY <1>2, <1>t DEF addBatch
        <4> QED BY <1>t, <3>1, <4>1, FlagsAssumption, RemainderGrows
      <3> DEFINE rows == {[id |-> lastId[s] + i, time |-> now - delay] : i \in 1..n}
                 t == now - delay
      <3>3. index'[s] = index[s] \cup rows
        BY <1>2, <1>t DEF addBatch, Buffers
      <3>4. Times(index[s])' = Times(index[s]) \cup {t}
        <4>1. \A r \in rows : r.time = t
          OBVIOUS
        <4>2. rows # {}
          <5>1. 1 \in 1..n
            BY <3>1
          <5> QED BY <5>1
        <4> HIDE DEF rows, t
        <4> QED BY <3>3, <4>1, <4>2 DEF Times
      <3> HIDE DEF rows, t
      <3>5. IsFiniteSet(Times(index[s])) /\ Cardinality(Times(index[s])) \in Nat
        BY TimesFinite
      <3>6. Cardinality(Times(index[s])') <= Cardinality(Times(index[s])) + 1
            /\ Cardinality(Times(index[s])') \in Nat
        <4>1. PICK T, v : T = Times(index[s]) /\ v = t
          OBVIOUS
        <4>2. Cardinality(T \cup {v}) = IF v \in T THEN Cardinality(T) ELSE Cardinality(T) + 1
          BY <3>5, <4>1, FS_AddElement
        <4>3. Cardinality(T \cup {v}) <= Cardinality(T) + 1 /\ Cardinality(T \cup {v}) \in Nat
          BY <3>5, <4>1, <4>2
        <4>4. Times(index[s])' = T \cup {v}
          BY <3>4, <4>1
        <4> QED BY <4>1, <4>3, <4>4
      <3>7. cleanup[s] = "no"
        BY <1>2 DEF addBatch
      <3>8. MaxBatches > 0 =>
              Cardinality(Times(index[s])) <= MaxBatches + (count[s] % Checkpoint)
        BY <3>7 DEF BoundInv, Bounded
      <3> QED BY <1>m, <3>1, <3>2, <3>5, <3>6, <3>8, FlagsAssumption DEF Bounded
    <2> QED BY <2>1, <2>2
  <1>3. ASSUME NEW s \in Subscribers, removeOverflowingEventBatches(s) PROVE Bounded(s)'
    <2>1. index'[s] = index[s] \ overflowing(index[s]) /\ count'[s] = count[s]
      BY <1>3, <1>t DEF removeOverflowingEventBatches, Evict, Buffers
    <2>2. MaxBatches > 0 => Cardinality(Times(index[s] \ overflowing(index[s]))) <= MaxBatches
      BY <1>t, OverflowLeaves DEF BufferInv
    <2>3. Times(index[s])' = Times(index[s] \ overflowing(index[s]))
      BY <2>1 DEF Times
    <2>4. Cardinality(Times(index[s] \ overflowing(index[s]))) \in Nat
      <3>1. PICK I : I = index[s] \ overflowing(index[s])
        OBVIOUS
      <3> QED BY <3>1, TimesFinite
    <2> QED BY <1>m, <2>1, <2>2, <2>3, <2>4, FlagsAssumption DEF Bounded
  <1>4. ASSUME Restart, NEW s \in Subscribers PROVE Bounded(s)'
    <2>1. index'[s] = young(s) \ overflowing(young(s)) /\ count'[s] = 0
      BY <1>4 DEF Restart, young
    <2>2. young(s) \subseteq Event /\ \A e \in young(s) : e.time <= now
      BY <1>t DEF young, BufferInv
    <2>3. MaxBatches > 0 => Cardinality(Times(young(s) \ overflowing(young(s)))) <= MaxBatches
      BY <1>t, <2>2, OverflowLeaves
    <2>4. Times(index[s])' = Times(young(s) \ overflowing(young(s)))
      BY <2>1 DEF Times
    <2>5. 0 % Checkpoint = 0
      BY FlagsAssumption
    <2> QED BY <2>1, <2>3, <2>4, <2>5, FlagsAssumption DEF Bounded
  <1>5. ASSUME NEW s \in Subscribers, Publish(s) PROVE BoundInv'
    <2>1. ASSUME NEW u \in Subscribers \ {s} PROVE Bounded(u)'
      <3>1. index'[u] = index[u] /\ count'[u] = count[u] /\ cleanup'[u] = cleanup[u]
        BY <1>5, <1>t DEF Publish, addBatch, removeOverflowingEventBatches, expireEventBatches,
                          Evict, deleteDoomed, Buffers
      <3> QED BY <1>1, <3>1
    <2>2. CASE expireEventBatches(s)
      <3>1. index'[s] \subseteq index[s] /\ count'[s] = count[s] /\ cleanup[s] # "overflow"
        BY <1>t, <2>2 DEF expireEventBatches, Evict, Buffers
      <3> QED BY <1>1, <2>1, <3>1 DEF BoundInv
    <2>3. CASE deleteDoomed(s)
      BY <1>1, <2>1, <2>3 DEF deleteDoomed, BoundInv
    <2> QED BY <1>2, <1>3, <1>5, <2>1, <2>2, <2>3 DEF Publish, BoundInv
  <1>6. CASE Query \/ resetQueryCount \/ Tick \/ UNCHANGED vars
    <2>1. count' = count /\ cleanup' = cleanup
      BY <1>6 DEF Query, StartQuery, collect, fetch, setOptimizeTime, setOptimizeEid,
                  checkExecuted, boundRead, expireRead, deleteRead, nextTable, LogQuery, resetQueryCount, Tick, vars, adding
    <2>2. \/ index' = index
          \/ index' = [index EXCEPT ![th.s] = @ \ readExpired(th.s)]
      BY <1>6 DEF Query, StartQuery, collect, fetch, setOptimizeTime, setOptimizeEid,
                  checkExecuted, boundRead, expireRead, deleteRead, nextTable, LogQuery, resetQueryCount, Tick, vars, store, readExpired
    <2>3. \A s \in Subscribers : index'[s] \subseteq index[s]
      BY <1>t, <2>2 DEF Buffers
    <2> QED BY <1>1, <2>1, <2>3 DEF BoundInv
  <1> QED BY <1>4, <1>5, <1>6 DEF Next, BoundInv

\* Between two checkpoints the index exceeds events_max by less than a checkpoint,
\* for any sizes of the batches and any tables (addBatch, kEventsCheckpoint,
\* removeOverflowingEventBatches).
THEOREM SizeBounded == Spec => []BufferBounded
  <1>1. Inv /\ BoundInv => BufferBounded
    <2> SUFFICES ASSUME Inv, BoundInv, NEW s \in Subscribers,
                        MaxBatches > 0, cleanup[s] # "overflow"
                 PROVE  Cardinality(Times(index[s])) < MaxBatches + Checkpoint
      BY DEF BufferBounded
    <2>1. Cardinality(Times(index[s])) <= MaxBatches + (count[s] % Checkpoint)
      BY DEF BoundInv, Bounded
    <2>2. Cardinality(Times(index[s])) \in Nat
      BY TimesFinite
    <2>3. count[s] % Checkpoint \in 0..Checkpoint-1
      BY FlagsAssumption, Remainder DEF Inv, TypeOK
    <2> QED BY <2>1, <2>2, <2>3, FlagsAssumption
  <1>2. Inv /\ BoundInv /\ [Next]_vars => BoundInv'
    BY BoundStep
  <1> QED BY <1>1, <1>2, BoundInit, Invariance, PTL DEF Spec
=============================================================================
