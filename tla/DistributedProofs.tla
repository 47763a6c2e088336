------------------------- MODULE DistributedProofs -------------------------
(***************************************************************************)
(* Proofs about Distributed for any requests, SQL texts, duration and      *)
(* bounds.                                                                 *)
(***************************************************************************)
EXTENDS Distributed, TLAPS

\* The clock has started, and an execution began in the past.
ClockInv == now # 0 /\ (pc = "execute" => started # 0 /\ started <= now)

\* A mark belongs to the current execution, to one that was killed, or to one that
\* ended and could not delete it.
MarkInv ==
  \A s \in Sqls : running[s] # 0 => Executing(s) \/ killed[s] # 0 \/ s \in left

\* The mark of a killed execution stays until the duration is over.
KilledInv ==
  \A s \in Sqls : killed[s] # 0 /\ s \notin unmarked =>
    /\ running[s] = killed[s] \/ now > killed[s] + Duration
    /\ Executing(s) => started > killed[s] + Duration

IInv == /\ TypeOK /\ ClockInv /\ MarkInv /\ KilledInv
        /\ DeniedOnlyAfterKill /\ NoRequestForgotten

USE RequestsAssumption, BoundsAssumption

\* The initial state satisfies the invariant.
LEMMA InitInv == Init => IInv
BY DEF Init, IInv, TypeOK, ClockInv, MarkInv, KilledInv, DeniedOnlyAfterKill,
       NoRequestForgotten, None, Outcomes, Executing, sql

\* Every step preserves the types and the clock.
LEMMA TypeStep == TypeOK /\ ClockInv /\ [Next]_vars => TypeOK' /\ ClockInv'
<1> SUFFICES ASSUME TypeOK, ClockInv, [Next]_vars PROVE TypeOK' /\ ClockInv'
  OBVIOUS
<1> USE DEF TypeOK, ClockInv, agent, clock, history, Write, Outcomes, sql, None
<1>1. ASSUME NEW stored \in SUBSET Ids, acceptWork(stored)
      PROVE  TypeOK' /\ ClockInv'
  BY <1>1 DEF acceptWork
<1>2. CASE getPendingQueries
  BY <1>2 DEF getPendingQueries
<1>3. ASSUME NEW id \in Ids, NEW deleted \in BOOLEAN, popRequest(id, deleted)
      PROVE  TypeOK' /\ ClockInv'
  BY <1>3 DEF popRequest
<1>4. CASE Denylisted
  BY <1>4 DEF Denylisted
<1>5. ASSUME NEW marked \in BOOLEAN, Begin(marked)
      PROVE  TypeOK' /\ ClockInv'
  BY <1>5 DEF Begin
<1>6. ASSUME NEW status \in {"ok", "error"}, NEW deleted \in BOOLEAN,
             Finish(status, deleted)
      PROVE  TypeOK' /\ ClockInv'
  BY <1>6 DEF Finish
<1>7. CASE flushCompleted
  BY <1>7 DEF flushCompleted, Deliver
<1>8. ASSUME NEW delivered \in BOOLEAN, flushFails(delivered)
      PROVE  TypeOK' /\ ClockInv'
  BY <1>8 DEF flushFails, Deliver
<1>9. ASSUME NEW kept \in SUBSET Sqls, cleanupExpiredRunningQueries(kept)
      PROVE  TypeOK' /\ ClockInv'
  BY <1>9 DEF cleanupExpiredRunningQueries
<1>10. CASE pause
  BY <1>10 DEF pause
<1>11. CASE Crash
  <2>1. lost' \subseteq Ids
    BY <1>11 DEF Crash, Completed
  <2>2. killed' \in [Sqls -> 0..now] /\ unmarked' \subseteq Sqls
    BY <1>11 DEF Crash
  <2> QED
    BY <1>11, <2>1, <2>2 DEF Crash
<1>12. CASE Tick
  BY <1>12 DEF Tick
<1>13. CASE UNCHANGED vars
  BY <1>13 DEF vars
<1> QED
  BY <1>1, <1>2, <1>3, <1>4, <1>5, <1>6, <1>7, <1>8, <1>9, <1>10, <1>11, <1>12,
     <1>13 DEF Next, Step

\* A step of the runner that only moves requests between the database, the
\* snapshot and the results leaves the marks alone.
LEMMA MarkFrame ==
  ASSUME IInv, UNCHANGED <<running, killed, unmarked, left>>, now' >= now,
         now' \in Nat,
         pc' # "execute" \/ UNCHANGED <<pc, cur, started>>,
         pc # "execute" \/ UNCHANGED <<pc, cur, started>>
  PROVE  MarkInv' /\ KilledInv'
BY DEF IInv, TypeOK, MarkInv, KilledInv, Executing, sql

\* Every step preserves what is known of the marks.
LEMMA MarkStep == IInv /\ [Next]_vars => MarkInv' /\ KilledInv'
<1> SUFFICES ASSUME IInv, [Next]_vars PROVE MarkInv' /\ KilledInv'
  OBVIOUS
<1> USE DEF agent, clock, history, Write
<1>0. now \in Nat /\ now >= now
  BY DEF IInv, TypeOK
<1>1. ASSUME NEW stored \in SUBSET Ids, acceptWork(stored)
      PROVE  MarkInv' /\ KilledInv'
  BY <1>0, <1>1, MarkFrame DEF acceptWork
<1>2. CASE getPendingQueries
  BY <1>0, <1>2, MarkFrame DEF getPendingQueries
<1>3. ASSUME NEW id \in Ids, NEW deleted \in BOOLEAN, popRequest(id, deleted)
      PROVE  MarkInv' /\ KilledInv'
  BY <1>0, <1>3, MarkFrame DEF popRequest
<1>4. CASE Denylisted
  BY <1>0, <1>4, MarkFrame DEF Denylisted
<1>5. ASSUME NEW marked \in BOOLEAN, Begin(marked)
      PROVE  MarkInv' /\ KilledInv'
  <2>1. /\ running' = [running EXCEPT ![sql] = IF @ = 0 /\ marked THEN now ELSE @]
        /\ started' = now /\ pc = "check" /\ pc' = "execute"
        /\ UNCHANGED <<now, cur, killed, unmarked, left>>
        /\ running[sql] = 0 \/ now > running[sql] + Duration
    BY <1>5 DEF Begin, denylistedQueryTimestampExpired
  <2>2. sql \in Sqls
    BY DEF IInv, TypeOK, sql
  <2>3. MarkInv'
    BY <2>1, <2>2 DEF IInv, TypeOK, MarkInv, Executing, sql
  <2>4. KilledInv'
    BY <2>1, <2>2 DEF IInv, TypeOK, KilledInv, Executing, sql
  <2> QED
    BY <2>3, <2>4
<1>6. ASSUME NEW status \in {"ok", "error"}, NEW deleted \in BOOLEAN,
             Finish(status, deleted)
      PROVE  MarkInv' /\ KilledInv'
  <2>1. /\ running' = IF deleted THEN [running EXCEPT ![sql] = 0] ELSE running
        /\ left' = IF deleted THEN left ELSE left \cup {sql}
        /\ pc = "execute" /\ pc' = "next"
        /\ UNCHANGED <<now, cur, started, killed, unmarked>>
    BY <1>6 DEF Finish
  <2>2. sql \in Sqls
    BY DEF IInv, TypeOK, sql
  <2>3. MarkInv'
    BY <2>1, <2>2 DEF IInv, TypeOK, MarkInv, Executing
  <2>4. KilledInv'
    BY <2>1, <2>2 DEF IInv, TypeOK, ClockInv, KilledInv, Executing
  <2> QED
    BY <2>3, <2>4
<1>7. CASE flushCompleted
  BY <1>0, <1>7, MarkFrame DEF flushCompleted
<1>8. ASSUME NEW delivered \in BOOLEAN, flushFails(delivered)
      PROVE  MarkInv' /\ KilledInv'
  BY <1>0, <1>8, MarkFrame DEF flushFails
<1>9. ASSUME NEW kept \in SUBSET Sqls, cleanupExpiredRunningQueries(kept)
      PROVE  MarkInv' /\ KilledInv'
  <2>1. /\ \A s \in Sqls :
             \/ running'[s] = running[s]
             \/ running'[s] = 0 /\ now > running[s] + Duration
        /\ pc = "cleanup" /\ pc' = "pause"
        /\ UNCHANGED <<now, cur, started, killed, unmarked, left>>
    BY <1>9 DEF cleanupExpiredRunningQueries, Expired, denylistedQueryTimestampExpired
  <2> QED
    BY <2>1 DEF IInv, TypeOK, MarkInv, KilledInv, Executing
<1>10. CASE pause
  BY <1>0, <1>10, MarkFrame DEF pause
<1>11. CASE Crash
  <2>1. /\ UNCHANGED <<running, now, left>> /\ pc' = "pull"
        /\ sql \in Sqls
    BY <1>11 DEF Crash, IInv, TypeOK, sql
  <2>2. CASE pc = "execute"
    <3>1. /\ killed' = [killed EXCEPT ![sql] = started]
          /\ unmarked' = IF running[sql] = started THEN unmarked \ {sql}
                                                   ELSE unmarked \cup {sql}
      BY <1>11, <2>2 DEF Crash
    <3>2. MarkInv'
      BY <2>1, <2>2, <3>1 DEF IInv, TypeOK, ClockInv, MarkInv, Executing
    <3>3. KilledInv'
      BY <2>1, <2>2, <3>1 DEF IInv, TypeOK, ClockInv, KilledInv, Executing
    <3> QED
      BY <3>2, <3>3
  <2>3. CASE pc # "execute"
    BY <1>0, <1>11, <2>1, <2>3, MarkFrame DEF Crash
  <2> QED
    BY <2>2, <2>3
<1>12. CASE Tick
  BY <1>0, <1>12, MarkFrame DEF Tick
<1>13. CASE UNCHANGED vars
  BY <1>0, <1>13, MarkFrame DEF vars
<1> QED
  BY <1>1, <1>2, <1>3, <1>4, <1>5, <1>6, <1>7, <1>8, <1>9, <1>10, <1>11, <1>12,
     <1>13 DEF Next, Step

\* Every step preserves what is known of the requests and their answers.
LEMMA RequestStep ==
  IInv /\ [Next]_vars => DeniedOnlyAfterKill' /\ NoRequestForgotten'
<1> SUFFICES ASSUME IInv, [Next]_vars
             PROVE  DeniedOnlyAfterKill' /\ NoRequestForgotten'
  OBVIOUS
<1> USE DEF agent, clock, history, Write, IInv, TypeOK, DeniedOnlyAfterKill,
            NoRequestForgotten, Completed, Unanswered
<1>1. ASSUME NEW stored \in SUBSET Ids, acceptWork(stored)
      PROVE  DeniedOnlyAfterKill' /\ NoRequestForgotten'
  BY <1>1 DEF acceptWork
<1>2. CASE getPendingQueries
  BY <1>2 DEF getPendingQueries
<1>3. ASSUME NEW id \in Ids, NEW deleted \in BOOLEAN, popRequest(id, deleted)
      PROVE  DeniedOnlyAfterKill' /\ NoRequestForgotten'
  BY <1>3 DEF popRequest
<1>4. CASE Denylisted
  <2>1. killed[sql] # 0 \/ sql \in left
    BY <1>4 DEF Denylisted, MarkInv, Executing, sql
  <2> QED
    BY <1>4, <2>1 DEF Denylisted, sql
<1>5. ASSUME NEW marked \in BOOLEAN, Begin(marked)
      PROVE  DeniedOnlyAfterKill' /\ NoRequestForgotten'
  BY <1>5 DEF Begin
<1>6. ASSUME NEW status \in {"ok", "error"}, NEW deleted \in BOOLEAN,
             Finish(status, deleted)
      PROVE  DeniedOnlyAfterKill' /\ NoRequestForgotten'
  BY <1>6 DEF Finish
<1>7. CASE flushCompleted
  BY <1>7 DEF flushCompleted, Deliver, None
<1>8. ASSUME NEW delivered \in BOOLEAN, flushFails(delivered)
      PROVE  DeniedOnlyAfterKill' /\ NoRequestForgotten'
  BY <1>8 DEF flushFails, Deliver
<1>9. ASSUME NEW kept \in SUBSET Sqls, cleanupExpiredRunningQueries(kept)
      PROVE  DeniedOnlyAfterKill' /\ NoRequestForgotten'
  BY <1>9 DEF cleanupExpiredRunningQueries
<1>10. CASE pause
  BY <1>10 DEF pause
<1>11. CASE Crash
  <2>1. \A s \in Sqls : killed[s] # 0 => killed'[s] # 0
    BY <1>11 DEF Crash, ClockInv
  <2>2. /\ results' = None /\ UNCHANGED <<answer, accepted, pending>>
        /\ left' = left
        /\ lost' = lost \cup
             ((Completed \cup (IF pc \in {"check", "execute"} THEN {cur} ELSE {}))
                \ pending)
    BY <1>11 DEF Crash
  <2> QED
    BY <2>1, <2>2 DEF None
<1>12. CASE Tick
  BY <1>12 DEF Tick
<1>13. CASE UNCHANGED vars
  BY <1>13 DEF vars
<1> QED
  BY <1>1, <1>2, <1>3, <1>4, <1>5, <1>6, <1>7, <1>8, <1>9, <1>10, <1>11, <1>12,
     <1>13 DEF Next, Step

\* The inductive invariant holds in every reachable state.
THEOREM Invariance == Spec => []IInv
<1>1. IInv /\ [Next]_vars => IInv'
  BY TypeStep, MarkStep, RequestStep DEF IInv
<1> QED
  BY <1>1, InitInv, PTL DEF Spec

\* The runner's variables keep their types, and marks are never in the future.
THEOREM TypeCorrect == Spec => []TypeOK
BY Invariance, PTL DEF IInv

\* No stored request is forgotten without a crash after popRequest.
THEOREM RequestsKept == Spec => []NoRequestForgotten
BY Invariance, PTL DEF IInv

\* Only SQL whose execution was killed, or whose mark could not be deleted, is ever
\* refused as denylisted.
THEOREM DenialsJustified == Spec => []DeniedOnlyAfterKill
BY Invariance, PTL DEF IInv

\* SQL whose marked execution was killed is not executed again too early.
THEOREM KilledBlocked == Spec => []KilledIsNotReexecuted
<1>1. IInv => KilledIsNotReexecuted
  BY DEF IInv, KilledInv, KilledIsNotReexecuted
<1> QED
  BY <1>1, Invariance, PTL
=============================================================================
