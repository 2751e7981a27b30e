----------------------- MODULE FargateSessions_proofs -----------------------
(* Machine-checked proofs about FargateSessions, for every number of       *)
(* callers, sessions and tasks and all durations that keep the margins.    *)
EXTENDS FargateSessions, TLAPS

-----------------------------------------------------------------------------
(* Type correctness.                                                       *)

LEMMA InitType == Init => TypeOK
BY Sentinels, Durations DEF Init, TypeOK, CallerStep, Settled, Phase

(* Moving a caller keeps its program counter and its timer in their types. *)
LEMMA GotoType ==
  ASSUME TypeOK, NEW c \in Caller, NEW step \in CallerStep, NEW time \in Nat,
         Goto(c, step, time)
  PROVE  pc' \in [Caller -> CallerStep] /\ left' \in [Caller -> Nat]
BY DEF TypeOK, Goto

LEMMA ProceedType ==
  ASSUME TypeOK, NEW c \in Caller, NEW k \in Task \cup {None}, Proceed(c, k)
  PROVE  /\ pc' \in [Caller -> CallerStep] /\ left' \in [Caller -> Nat]
         /\ target' \in [Caller -> Task \cup {None}]
         /\ attempt' \in [Caller -> 0..Attempts]
<1>0. op[c] \in {"run", "submit", "warmUp"}
  BY Sentinels DEF TypeOK
<1> USE Durations, Sentinels DEF CallerStep, Settled, Spawning, Registering
<1>1. CASE op[c] = "warmUp"
  BY <1>1 DEF Proceed, Finish, Goto, Aim, TypeOK
<1>2. CASE op[c] = "submit"
  BY <1>2 DEF Proceed, Call, Goto, Aim, TypeOK
<1>3. CASE op[c] = "run"
  BY <1>3 DEF Proceed, Goto, Aim, TypeOK
<1> QED BY <1>0, <1>1, <1>2, <1>3

(* The actions of callers that touch nothing but the callers.              *)
LEMMA StoreType ==
  ASSUME TypeOK, NEW s \in Session, NEW k \in Task \cup {None},
         NEW ttl \in 0..SessionTtl, Store(s, k, ttl)
  PROVE  /\ record' \in [Session -> Task \cup {None}]
         /\ recordTtl' \in [Session -> 0..SessionTtl]
         /\ lock' \in [Session -> Task \cup {None, Pending}]
         /\ lockTtl' \in [Session -> 0..LockTtl]
BY DEF TypeOK, Store

LEMMA MarkType ==
  ASSUME TypeOK, NEW s \in Session, NEW v \in Task \cup {None, Pending},
         NEW ttl \in 0..LockTtl, Mark(s, v, ttl)
  PROVE  /\ record' \in [Session -> Task \cup {None}]
         /\ recordTtl' \in [Session -> 0..SessionTtl]
         /\ lock' \in [Session -> Task \cup {None, Pending}]
         /\ lockTtl' \in [Session -> 0..LockTtl]
BY DEF TypeOK, Mark

(* A request's own call keeps every variable in its type.                  *)
LEMMA CallerType ==
  ASSUME TypeOK, NEW c \in Caller,
         Start(c) \/ Progress(c) \/ CallThrows(c) \/ Crash(c)
  PROVE  TypeOK'
<1> USE Durations, Sentinels DEF TypeOK, redisVars, ecsVars, cleanupVars,
        CallerStep, Settled, Spawning, Registering, Call, Goto, Aim, Finish
<1>1. CASE Start(c) BY <1>1 DEF Start
<1>2. CASE LookUp(c) BY <1>2 DEF LookUp, GetSession
<1>3. CASE HealthOk(c)
  BY <1>3, ProceedType DEF HealthOk
<1>4. CASE HealthFails(c) BY <1>4 DEF HealthFails
<1>5. CASE DeleteStale(c) BY <1>5, StoreType DEF DeleteStale, DeleteSession
<1>6. CASE TryMarkSpawning(c) BY <1>6, MarkType DEF TryMarkSpawning
<1>7. CASE LoseSpawnRace(c) BY <1>7 DEF LoseSpawnRace
<1>8. ASSUME NEW k \in Task, RunTask(c, k) PROVE TypeOK' BY <1>8 DEF RunTask
<1>9. CASE NoCapacity(c) BY <1>9 DEF NoCapacity
<1>10. CASE UpdateArn(c) BY <1>10, MarkType DEF UpdateArn, UpdateSpawningArn
<1>11. CASE SeeRunning(c) BY <1>11 DEF SeeRunning
<1>12. CASE GiveUpSpawn(c) BY <1>12 DEF GiveUpSpawn
<1>13. CASE Register(c)
  <2>1. Store(sid[c], target[c], SessionTtl) /\ UNCHANGED <<op, sid, target, attempt>>
        /\ UNCHANGED <<ecsVars, cleanupVars>> /\ Call(c, "unlock")
    BY <1>13 DEF Register, SetSession
  <2>2. /\ record' \in [Session -> Task \cup {None}]
        /\ recordTtl' \in [Session -> 0..SessionTtl]
        /\ lock' \in [Session -> Task \cup {None, Pending}]
        /\ lockTtl' \in [Session -> 0..LockTtl]
    BY <2>1, StoreType
  <2>3. pc' \in [Caller -> CallerStep] /\ left' \in [Caller -> Nat]
    BY <2>1
  <2> QED BY <2>1, <2>2, <2>3
<1>14. CASE Unlock(c)
  <2>1. Mark(sid[c], None, 0) BY <1>14 DEF Unlock, ClearSpawning
  <2>2. /\ record' \in [Session -> Task \cup {None}]
        /\ recordTtl' \in [Session -> 0..SessionTtl]
        /\ lock' \in [Session -> Task \cup {None, Pending}]
        /\ lockTtl' \in [Session -> 0..LockTtl]
    BY <2>1, MarkType
  <2>3. CASE target[c] = None BY <1>14, <2>2, <2>3 DEF Unlock
  <2>4. CASE target[c] # None
    BY <1>14, <2>2, <2>4, ProceedType DEF Unlock
  <2> QED BY <2>3, <2>4
<1>15. CASE AwaitSeesSession(c)
  BY <1>15, ProceedType DEF AwaitSeesSession, GetSession
<1>16. CASE AwaitTimesOut(c) BY <1>16 DEF AwaitTimesOut
<1>17. CASE FetchHiddenTest(c) BY <1>17 DEF FetchHiddenTest
<1>18. CASE SandboxAnswers(c) BY <1>18 DEF SandboxAnswers
<1>19. CASE SandboxUnreachable(c) BY <1>19 DEF SandboxUnreachable
<1>20. CASE Evict(c) BY <1>20, StoreType DEF Evict, DeleteSession
<1>21. CASE Refresh(c) BY <1>21, StoreType DEF Refresh, RefreshTtl
<1>22. CASE CallThrows(c) BY <1>22 DEF CallThrows
<1>23. CASE Crash(c) BY <1>23 DEF Crash
<1> QED
  BY <1>1, <1>2, <1>3, <1>4, <1>5, <1>6, <1>7, <1>8, <1>9, <1>10, <1>11, <1>12,
     <1>13, <1>14, <1>15, <1>16, <1>17, <1>18, <1>19, <1>20, <1>21, <1>22, <1>23
     DEF Progress

(* So does every step of the clean-up, of ECS and of time.                 *)
LEMMA OtherType ==
  ASSUME TypeOK,
         \/ CleanupStep \/ CleanupThrows \/ CleanupRestarts \/ \E k \in Task : StopTask(k) \/ StopFails(k)
         \/ Ecs \/ Tick
  PROVE  TypeOK'
<1> USE Durations, Sentinels DEF TypeOK, callerVars, redisVars, ecsVars, cleanupVars,
        Phase, NextPhase, EndCleanup
<1>1. CASE SessionKeys BY <1>1 DEF SessionKeys
<1>2. CASE GetRecords BY <1>2 DEF GetRecords
<1>12. CASE SpawningKeys BY <1>12 DEF SpawningKeys
<1>13. CASE GetLocks BY <1>13 DEF GetLocks
<1>3. CASE ListTasks BY <1>3 DEF ListTasks, Live
<1>4. CASE DescribeTasks BY <1>4 DEF DescribeTasks
<1>5. CASE CleanupDone BY <1>5 DEF CleanupDone
<1>6. CASE CleanupThrows \/ CleanupRestarts BY <1>6 DEF CleanupThrows, CleanupRestarts
<1>7. ASSUME NEW k \in Task, StopTask(k) PROVE TypeOK' BY <1>7 DEF StopTask
<1>8. ASSUME NEW k \in Task, StopFails(k) PROVE TypeOK' BY <1>8 DEF StopFails
<1>9. ASSUME NEW k \in Task, TaskUp(k) PROVE TypeOK' BY <1>9 DEF TaskUp, FreeIps
<1>10. ASSUME NEW k \in Task, TaskStops(k) PROVE TypeOK' BY <1>10 DEF TaskStops
<1>11. CASE Tick
  <2>1. left' \in [Caller -> Nat]
    <3>1. \A c \in Caller : Dec(left[c]) \in Nat BY DEF Dec
    <3> QED BY <1>11, <3>1 DEF Tick
  <2>7. phaseLeft' \in Nat
    BY <1>11 DEF Tick, Dec
  <2>2. record' \in [Session -> Task \cup {None}]
    BY <1>11 DEF Tick
  <2>8. recordTtl' \in [Session -> 0..SessionTtl]
    <3>1. \A s \in Session : Dec(recordTtl[s]) \in 0..SessionTtl
      BY DEF Dec
    <3> QED BY <1>11, <3>1 DEF Tick
  <2>3. lock' \in [Session -> Task \cup {None, Pending}]
    BY <1>11 DEF Tick
  <2>6. lockTtl' \in [Session -> 0..LockTtl]
    <3>1. \A s \in Session : Dec(lockTtl[s]) \in 0..LockTtl
      BY DEF Dec
    <3> QED BY <1>11, <3>1 DEF Tick
  <2>4. age' \in [Task -> 0..MinTaskAge]
    BY <1>11 DEF Tick
  <2>5. UNCHANGED <<pc, op, sid, target, attempt, status, owner, ip, phase, keys, batch>>
    BY <1>11 DEF Tick
  <2> QED BY <2>1, <2>2, <2>3, <2>4, <2>5, <2>6, <2>7, <2>8
<1> QED
  BY <1>1, <1>2, <1>3, <1>4, <1>5, <1>6, <1>7, <1>8, <1>9, <1>10, <1>11, <1>12, <1>13
     DEF CleanupStep, Ecs

LEMMA TypeStep == TypeOK /\ [Next]_vars => TypeOK'
<1>1. TypeOK /\ Next => TypeOK'
  BY CallerType, OtherType DEF Next
<1>2. TypeOK /\ UNCHANGED vars => TypeOK'
  BY DEF vars, callerVars, redisVars, ecsVars, cleanupVars, TypeOK
<1> QED BY <1>1, <1>2

(* Every variable of the execution service keeps its type.                 *)
THEOREM TypeCorrect == Spec => []TypeOK
BY InitType, TypeStep, PTL DEF Spec
-----------------------------------------------------------------------------
(* Mutual exclusion of the spawners of a session.                          *)

LockInv == SpawnMutex /\ LockOutlivesSpawn

(* A call that leaves the spawn locks alone keeps the lock invariant, if   *)
(* its caller was spawning whenever it is spawning afterwards, and needs   *)
(* its lock no longer than it did.                                         *)
LEMMA LockUntouched ==
  ASSUME TypeOK, TypeOK', LockInv, NEW c \in Caller, UNCHANGED <<sid, lock, lockTtl>>,
         \A d \in Caller \ {c} : pc'[d] = pc[d] /\ left'[d] = left[d],
         pc'[c] \in Spawning => pc[c] \in Spawning /\ LockNeed(c)' <= LockNeed(c)
  PROVE  LockInv'
<1>1. SpawnMutex'
  BY DEF LockInv, SpawnMutex
<1>2. ASSUME NEW d \in Caller, pc'[d] \in Spawning
      PROVE  lock'[sid'[d]] # None /\ lockTtl'[sid'[d]] > LockNeed(d)'
  <2>1. pc[d] \in Spawning /\ LockNeed(d)' <= LockNeed(d)
    <3>1. CASE d = c BY <3>1, <1>2
    <3>2. CASE d # c
      <4>1. LockNeed(d)' = LockNeed(d) BY <3>2 DEF LockNeed
      <4>2. LockNeed(d) \in Int BY Durations DEF LockNeed, TypeOK
      <4> QED BY <3>2, <4>1, <4>2, <1>2
    <3> QED BY <3>1, <3>2
  <2>2. lock[sid[d]] # None /\ lockTtl[sid[d]] > LockNeed(d)
    BY <2>1 DEF LockInv, LockOutlivesSpawn
  <2>3. LockNeed(d) \in Int /\ LockNeed(d)' \in Int /\ lockTtl[sid[d]] \in Int
    BY Durations DEF LockNeed, TypeOK
  <2> QED BY <2>1, <2>2, <2>3
<1> QED BY <1>1, <1>2 DEF LockInv, LockOutlivesSpawn

LEMMA CallerKeepsLock ==
  ASSUME TypeOK, TypeOK', LockInv, Underway, NEW c \in Caller,
         Start(c) \/ Progress(c) \/ CallThrows(c) \/ Crash(c)
  PROVE  LockInv'
<1> DEFINE Calm == /\ UNCHANGED <<sid, lock, lockTtl>>
                   /\ \A d \in Caller \ {c} : pc'[d] = pc[d] /\ left'[d] = left[d]
                   /\ pc'[c] \in Spawning => pc[c] \in Spawning /\ LockNeed(c)' <= LockNeed(c)
<1>0. Calm => LockInv'
  BY LockUntouched
<1> USE Durations DEF redisVars, Call, Goto, Finish, Settled, Spawning, Registering
<1>1. CASE Start(c) \/ LookUp(c) \/ HealthFails(c) \/ LoseSpawnRace(c) \/ AwaitTimesOut(c)
  BY <1>1, <1>0 DEF Start, LookUp, HealthFails, LoseSpawnRace, AwaitTimesOut, TypeOK
<1>2. CASE HealthOk(c) \/ AwaitSeesSession(c)
  BY <1>2, <1>0 DEF HealthOk, AwaitSeesSession, Proceed, TypeOK
<1>3. CASE DeleteStale(c) \/ Evict(c) \/ Refresh(c)
  BY <1>3, <1>0 DEF DeleteStale, Evict, Refresh, DeleteSession, RefreshTtl, Store, TypeOK
<1>4. CASE FetchHiddenTest(c) \/ SandboxAnswers(c) \/ SandboxUnreachable(c)
  BY <1>4, <1>0 DEF FetchHiddenTest, SandboxAnswers, SandboxUnreachable, TypeOK
<1>5. CASE (\E k \in Task : RunTask(c, k)) \/ NoCapacity(c) \/ SeeRunning(c) \/ GiveUpSpawn(c)
  BY <1>5, <1>0 DEF RunTask, NoCapacity, SeeRunning, GiveUpSpawn, LockNeed, TypeOK
<1>6. CASE Register(c)
  BY <1>6, <1>0 DEF Register, SetSession, Store, LockNeed, TypeOK
<1>7. CASE CallThrows(c)
  <2>1. CASE pc[c] \in Spawning \ {"unlock"}
    BY <1>7, <2>1, <1>0 DEF CallThrows, LockNeed, TypeOK
  <2>2. CASE pc[c] \notin Spawning \ {"unlock"}
    BY <1>7, <2>2, <1>0 DEF CallThrows, TypeOK
  <2> QED BY <2>1, <2>2
<1>8. CASE Crash(c)
  BY <1>8, <1>0 DEF Crash, TypeOK
<1>9. CASE TryMarkSpawning(c)
  <2>1. \A d \in Caller : pc[d] \in Spawning => sid[d] # sid[c]
    BY <1>9 DEF TryMarkSpawning, LockInv, LockOutlivesSpawn
  <2>2. SpawnMutex'
    BY <1>9, <2>1 DEF TryMarkSpawning, LockInv, SpawnMutex, TypeOK
  <2>3. ASSUME NEW d \in Caller, pc'[d] \in Spawning
        PROVE  lock'[sid'[d]] # None /\ lockTtl'[sid'[d]] > LockNeed(d)'
    <3>1. CASE d = c
      BY <1>9, <3>1, LockMargin, Sentinels DEF TryMarkSpawning, Mark, LockNeed, TypeOK
    <3>2. CASE d # c
      <4>1. pc[d] \in Spawning /\ sid[d] # sid[c] /\ sid'[d] = sid[d] /\ LockNeed(d)' = LockNeed(d)
        BY <1>9, <2>1, <2>3, <3>2 DEF TryMarkSpawning, LockNeed, TypeOK
      <4>2. lock'[sid[d]] = lock[sid[d]] /\ lockTtl'[sid[d]] = lockTtl[sid[d]]
        BY <1>9, <4>1 DEF TryMarkSpawning, Mark, TypeOK
      <4> QED BY <4>1, <4>2 DEF LockInv, LockOutlivesSpawn
    <3> QED BY <3>1, <3>2
  <2> QED BY <2>2, <2>3 DEF LockInv, LockOutlivesSpawn
<1>10. CASE UpdateArn(c)
  <2>1. \A d \in Caller \ {c} : pc[d] \in Spawning => sid[d] # sid[c]
    BY <1>10 DEF UpdateArn, LockInv, SpawnMutex
  <2>2. SpawnMutex'
    BY <1>10, <2>1 DEF UpdateArn, LockInv, SpawnMutex, TypeOK
  <2>3. ASSUME NEW d \in Caller, pc'[d] \in Spawning
        PROVE  lock'[sid'[d]] # None /\ lockTtl'[sid'[d]] > LockNeed(d)'
    <3>1. CASE d = c
      BY <1>10, <3>1, LockMargin, Sentinels
         DEF UpdateArn, UpdateSpawningArn, Mark, LockNeed, TypeOK, Underway
    <3>2. CASE d # c
      <4>1. pc[d] \in Spawning /\ sid[d] # sid[c] /\ sid'[d] = sid[d] /\ LockNeed(d)' = LockNeed(d)
        BY <1>10, <2>1, <2>3, <3>2 DEF UpdateArn, LockNeed, TypeOK
      <4>2. lock'[sid[d]] = lock[sid[d]] /\ lockTtl'[sid[d]] = lockTtl[sid[d]]
        BY <1>10, <4>1 DEF UpdateArn, UpdateSpawningArn, Mark, TypeOK
      <4> QED BY <4>1, <4>2 DEF LockInv, LockOutlivesSpawn
    <3> QED BY <3>1, <3>2
  <2> QED BY <2>2, <2>3 DEF LockInv, LockOutlivesSpawn
<1>11. CASE Unlock(c)
  <2>1. pc[c] = "unlock" /\ pc'[c] \notin Spawning /\ sid' = sid
        /\ \A d \in Caller \ {c} : pc'[d] = pc[d] /\ left'[d] = left[d]
    BY <1>11 DEF Unlock, Proceed, TypeOK
  <2>2. SpawnMutex'
    BY <2>1 DEF LockInv, SpawnMutex
  <2>3. ASSUME NEW d \in Caller, pc'[d] \in Spawning
        PROVE  lock'[sid'[d]] # None /\ lockTtl'[sid'[d]] > LockNeed(d)'
    <3>1. d # c /\ pc[d] \in Spawning /\ sid[d] # sid[c] /\ LockNeed(d)' = LockNeed(d)
      BY <2>1, <2>3 DEF LockInv, SpawnMutex, LockNeed
    <3>2. lock'[sid[d]] = lock[sid[d]] /\ lockTtl'[sid[d]] = lockTtl[sid[d]]
      BY <1>11, <3>1 DEF Unlock, ClearSpawning, Mark, TypeOK
    <3> QED BY <2>1, <3>1, <3>2 DEF LockInv, LockOutlivesSpawn
  <2> QED BY <2>2, <2>3 DEF LockInv, LockOutlivesSpawn
<1> QED
  BY <1>1, <1>2, <1>3, <1>4, <1>5, <1>6, <1>7, <1>8, <1>9, <1>10, <1>11 DEF Progress
(* The clean-up and ECS leave callers and locks alone; time takes no more  *)
(* from a lock than from the need of its holder.                           *)
LEMMA OthersKeepLock ==
  ASSUME TypeOK, TypeOK', LockInv,
         \/ CleanupStep \/ CleanupThrows \/ CleanupRestarts \/ \E k \in Task : StopTask(k) \/ StopFails(k)
         \/ Ecs \/ Tick
  PROVE  LockInv'
<1>1. ASSUME UNCHANGED <<callerVars, redisVars>> PROVE LockInv'
  BY <1>1 DEF callerVars, redisVars, LockInv, SpawnMutex, LockOutlivesSpawn, LockNeed
<1>2. CASE CleanupStep \/ CleanupThrows \/ CleanupRestarts
  BY <1>1, <1>2 DEF CleanupStep, CleanupThrows, CleanupRestarts, SessionKeys, GetRecords,
                    SpawningKeys, GetLocks, ListTasks, DescribeTasks, CleanupDone
<1>3. CASE \E k \in Task : StopTask(k) \/ StopFails(k)
  BY <1>1, <1>3 DEF StopTask, StopFails
<1>4. CASE Ecs
  BY <1>1, <1>4 DEF Ecs, TaskUp, TaskStops
<1>5. CASE Tick
  <2>1. SpawnMutex'
    BY <1>5 DEF Tick, LockInv, SpawnMutex
  <2>2. ASSUME NEW c \in Caller, pc'[c] \in Spawning
        PROVE  lock'[sid'[c]] # None /\ lockTtl'[sid'[c]] > LockNeed(c)'
    <3>1. /\ pc[c] \in Spawning /\ left[c] \in Nat /\ left[c] > 0
          /\ left'[c] = left[c] - 1 /\ sid[c] \in Session /\ sid' = sid
      BY <1>5, <2>2 DEF Tick, Dec, TypeOK, Spawning, Registering, Settled
    <3>2. LockNeed(c) \in Int /\ LockNeed(c)' = LockNeed(c) - 1 /\ LockNeed(c) >= left[c]
      BY <1>5, <3>1, Durations DEF Tick, LockNeed
    <3>3. lock[sid[c]] # None /\ lockTtl[sid[c]] > LockNeed(c)
      BY <3>1 DEF LockInv, LockOutlivesSpawn
    <3>4. lockTtl[sid[c]] \in Nat /\ lockTtl[sid[c]] > 1
      BY <3>1, <3>2, <3>3, Durations DEF TypeOK
    <3>5. lockTtl'[sid[c]] = lockTtl[sid[c]] - 1 /\ lock'[sid[c]] = lock[sid[c]]
      BY <1>5, <3>1, <3>4 DEF Tick, Dec
    <3> QED BY <3>1, <3>2, <3>3, <3>4, <3>5
  <2> QED BY <2>1, <2>2 DEF LockInv, LockOutlivesSpawn
<1> QED BY <1>2, <1>3, <1>4, <1>5
-----------------------------------------------------------------------------
(* The clean-up and the tasks of live sessions.                            *)

AgeInv == Underway /\ UnusedIsBlank /\ KeysMissOnlyYoung /\ SnapshotMissesOnlyYoung

LEMMA AgeTypes ==
  ASSUME TypeOK
  PROVE  /\ \A k \in Task : age[k] \in Nat
         /\ \A c \in Caller : left[c] \in Nat /\ AgeLimit(pc[c]) \in Nat
         /\ \A n \in Nat : MissedAge(n) = 2 * StepDelay + SpawnTimeout + n * StepDelay - phaseLeft
         /\ phaseLeft \in Nat
BY Durations DEF TypeOK, AgeLimit, MissedAge

(* A request's call that starts no task keeps the age invariant, if no     *)
(* task comes into use and the caller keeps to the age limit of its step.  *)
LEMMA AgeUntouched ==
  ASSUME TypeOK, TypeOK', AgeInv, NEW c \in Caller, UNCHANGED <<ecsVars, cleanupVars>>,
         \A d \in Caller \ {c} : pc'[d] = pc[d] /\ left'[d] = left[d] /\ target'[d] = target[d],
         pc'[c] \in Registering =>
           /\ pc[c] \in Registering /\ target'[c] = target[c]
           /\ age[target[c]] + left'[c] <= AgeLimit(pc'[c]),
         \A s \in Session : record'[s] \in {record[s], None}
           \/ age[record'[s]] <= 2 * StepDelay + SpawnTimeout,
         \A k \in Task : InUse(k)' => InUse(k)
  PROVE  AgeInv'
<1>4. KeysMissOnlyYoung'
  <2> SUFFICES ASSUME phase = "getRecords", NEW s \in Session \ keys, record'[s] # None
               PROVE  age[record'[s]] <= MissedAge(1)
    BY DEF KeysMissOnlyYoung, MissedAge, ecsVars, cleanupVars
  <2>1. CASE record'[s] = record[s]
    BY <2>1 DEF AgeInv, KeysMissOnlyYoung
  <2>2. CASE age[record'[s]] <= 2 * StepDelay + SpawnTimeout
    <3>1. phaseLeft <= StepDelay BY DEF AgeInv, SnapshotMissesOnlyYoung
    <3>2. age[record'[s]] \in Nat BY AgeTypes DEF TypeOK
    <3> QED BY <2>2, <3>1, <3>2, AgeTypes, Durations
  <2> QED BY <2>1, <2>2
<1>1. Underway'
  BY DEF AgeInv, Underway, ecsVars
<1>2. UnusedIsBlank'
  BY DEF AgeInv, UnusedIsBlank, ecsVars
<1>3. SnapshotMissesOnlyYoung'
  BY DEF AgeInv, SnapshotMissesOnlyYoung, MissedAge, OldEnough, ecsVars, cleanupVars, TypeOK
<1> QED BY <1>1, <1>2, <1>3, <1>4 DEF AgeInv

LEMMA CallerKeepsAge ==
  ASSUME TypeOK, TypeOK', AgeInv, NEW c \in Caller,
         Start(c) \/ Progress(c) \/ CallThrows(c) \/ Crash(c)
  PROVE  AgeInv'
<1> DEFINE Others == \A d \in Caller \ {c} :
              pc'[d] = pc[d] /\ left'[d] = left[d] /\ target'[d] = target[d]
           Young == pc'[c] \in Registering =>
              /\ pc[c] \in Registering /\ target'[c] = target[c]
              /\ age[target[c]] + left'[c] <= AgeLimit(pc'[c])
           Fresh == \A s \in Session : record'[s] \in {record[s], None}
              \/ age[record'[s]] <= 2 * StepDelay + SpawnTimeout
           Shrinks == \A k \in Task : InUse(k)' => InUse(k)
<1>a. UNCHANGED <<ecsVars, cleanupVars>> /\ Others /\ Young /\ Fresh /\ Shrinks => AgeInv'
  BY AgeUntouched
<1>b. /\ UNCHANGED <<ecsVars, cleanupVars>> /\ Others
      /\ pc'[c] \notin Registering
      /\ \A s \in Session : record'[s] \in {record[s], None}
      => AgeInv'
  BY <1>a DEF InUse, Recorded
<1> USE Durations DEF redisVars, Call, Goto, Aim, Finish, Settled, Spawning, Registering
<1>1. CASE Start(c) \/ LookUp(c) \/ HealthFails(c) \/ LoseSpawnRace(c) \/ AwaitTimesOut(c)
           \/ NoCapacity(c) \/ GiveUpSpawn(c) \/ Crash(c)
  BY <1>1, <1>b DEF Start, LookUp, HealthFails, LoseSpawnRace, AwaitTimesOut,
                    NoCapacity, GiveUpSpawn, Crash, TypeOK
<1>2. CASE HealthOk(c) \/ AwaitSeesSession(c)
  BY <1>2, <1>b DEF HealthOk, AwaitSeesSession, Proceed, TypeOK
<1>3. CASE DeleteStale(c) \/ Evict(c) \/ Refresh(c)
  BY <1>3, <1>b DEF DeleteStale, Evict, Refresh, DeleteSession, RefreshTtl, Store, TypeOK
<1>4. CASE FetchHiddenTest(c) \/ SandboxAnswers(c) \/ SandboxUnreachable(c)
  BY <1>4, <1>b DEF FetchHiddenTest, SandboxAnswers, SandboxUnreachable, TypeOK
<1>5. CASE CallThrows(c)
  <2>1. CASE pc[c] \in Spawning \ {"unlock"}
    BY <1>5, <2>1, <1>b DEF CallThrows, TypeOK
  <2>2. CASE pc[c] \notin Spawning \ {"unlock"}
    BY <1>5, <2>2, <1>b DEF CallThrows, TypeOK
  <2> QED BY <2>1, <2>2
<1>6. CASE TryMarkSpawning(c)
  BY <1>6, <1>b DEF TryMarkSpawning, Mark, TypeOK
<1>7. CASE Unlock(c)
  <2>1. pc'[c] \notin Registering /\ Others
    BY <1>7 DEF Unlock, Proceed, TypeOK
  <2> QED BY <1>7, <2>1, <1>b DEF Unlock, ClearSpawning, Mark
<1>8. CASE UpdateArn(c) \/ SeeRunning(c)
  <2>1. UNCHANGED <<ecsVars, cleanupVars, target, record>> /\ Others
    BY <1>8 DEF UpdateArn, UpdateSpawningArn, Mark, SeeRunning, TypeOK
  <2>2. Shrinks
    BY <1>8, <2>1 DEF UpdateArn, SeeRunning, InUse, Recorded, TypeOK
  <2>3. Young
    <3>1. /\ pc[c] \in Registering /\ target[c] \in Task /\ target'[c] = target[c]
          /\ age[target[c]] + left[c] <= AgeLimit(pc[c])
          /\ age[target[c]] \in Nat /\ left[c] \in Nat
      BY <1>8, <2>1, AgeTypes DEF UpdateArn, SeeRunning, AgeInv, Underway
    <3>2. CASE UpdateArn(c)
      BY <3>1, <3>2 DEF UpdateArn, AgeLimit, TypeOK
    <3>3. CASE SeeRunning(c)
      BY <3>1, <3>3 DEF SeeRunning, AgeLimit, TypeOK
    <3> QED BY <1>8, <3>2, <3>3
  <2>4. Fresh BY <2>1
  <2> QED BY <2>1, <2>2, <2>3, <2>4, <1>a
<1>9. CASE Register(c)
  <2>1. /\ UNCHANGED <<ecsVars, cleanupVars, target>> /\ Others /\ pc'[c] = "unlock"
        /\ \A s \in Session : record'[s] \in {record[s], target[c]}
    BY <1>9 DEF Register, SetSession, Store, TypeOK
  <2>2. InUse(target[c])
    BY <1>9 DEF Register, InUse
  <2>3. Shrinks
    BY <2>1, <2>2 DEF InUse, Recorded
  <2>4. Fresh
    <3>1. age[target[c]] <= 2 * StepDelay + SpawnTimeout
      <4>1. target[c] \in Task /\ age[target[c]] + left[c] <= AgeLimit("setSession")
        BY <1>9 DEF Register, AgeInv, Underway
      <4> QED BY <4>1, AgeTypes DEF AgeLimit
    <3> QED BY <2>1, <3>1
  <2> QED BY <2>1, <2>3, <2>4, <1>a
<1>10. ASSUME NEW k \in Task, RunTask(c, k) PROVE AgeInv'
  <2>1. /\ status[k] = "unused" /\ age[k] = 0 /\ age' = age /\ ip' = ip
        /\ UNCHANGED <<record, cleanupVars>> /\ Others
        /\ pc'[c] = "updateArn" /\ target'[c] = k /\ left'[c] = StepDelay
        /\ status' = [status EXCEPT ![k] = "pending"]
    BY <1>10 DEF RunTask, AgeInv, UnusedIsBlank, TypeOK
  <2>2. Underway'
    <3>1. ASSUME NEW d \in Caller, pc'[d] \in Registering
          PROVE  /\ target'[d] \in Task /\ status'[target'[d]] # "unused"
                 /\ age'[target'[d]] + left'[d] <= AgeLimit(pc'[d])
      <4>1. CASE d = c BY <2>1, <4>1 DEF AgeLimit, TypeOK
      <4>2. CASE d # c BY <2>1, <3>1, <4>2 DEF AgeInv, Underway, TypeOK
      <4> QED BY <4>1, <4>2
    <3> QED BY <3>1 DEF Underway
  <2>3. UnusedIsBlank'
    BY <2>1 DEF AgeInv, UnusedIsBlank, TypeOK
  <2>4. \A l \in Task : InUse(l)' => l = k \/ InUse(l)
    BY <2>1 DEF InUse, Recorded
  <2>5. SnapshotMissesOnlyYoung'
    <3>1. phase # "idle" => phaseLeft <= StepDelay
      BY DEF AgeInv, SnapshotMissesOnlyYoung
    <3>2. phase \in {"describe", "stop"} => k \notin batch \ Undated
      BY <2>1, AgeMargin DEF AgeInv, SnapshotMissesOnlyYoung, OldEnough
    <3>3. phase # "idle" => MissedAge(2) >= 0 /\ MissedAge(3) >= 0 /\ MissedAge(4) >= 0
      BY <3>1, AgeTypes DEF MissedAge
    <3> QED
      BY <2>1, <2>4, <3>1, <3>2, <3>3
         DEF AgeInv, SnapshotMissesOnlyYoung, MissedAge, OldEnough, cleanupVars, Phase, TypeOK
  <2>6. KeysMissOnlyYoung'
    BY <2>1 DEF AgeInv, KeysMissOnlyYoung, MissedAge, cleanupVars
  <2> QED BY <2>2, <2>3, <2>5, <2>6 DEF AgeInv
<1> QED
  BY <1>1, <1>2, <1>3, <1>4, <1>5, <1>6, <1>7, <1>8, <1>9, <1>10 DEF Progress
(* The clean-up's own steps, and those of ECS, keep the age invariant.     *)
LEMMA CleanupKeepsAge ==
  ASSUME TypeOK, TypeOK', AgeInv,
         CleanupStep \/ CleanupThrows \/ CleanupRestarts \/ \E k \in Task : StopTask(k) \/ StopFails(k)
  PROVE  AgeInv'
<1> USE Durations
<1>a. ASSUME UNCHANGED <<callerVars, redisVars, age, ip>>,
             \A k \in Task : status'[k] \in {status[k], "stopped"}
      PROVE  Underway' /\ UnusedIsBlank' /\ \A k \in Task : InUse(k)' <=> InUse(k)
  BY <1>a DEF callerVars, redisVars, AgeInv, Underway, UnusedIsBlank, InUse, Recorded
<1>b. ASSUME UNCHANGED <<callerVars, redisVars, ecsVars>>
      PROVE  Underway' /\ UnusedIsBlank' /\ \A k \in Task : InUse(k)' <=> InUse(k)
  BY <1>a, <1>b DEF ecsVars
<1>1. CASE SessionKeys
  <2>1. KeysMissOnlyYoung'
    BY <1>1 DEF SessionKeys, KeysMissOnlyYoung, redisVars
  <2>2. SnapshotMissesOnlyYoung'
    BY <1>1 DEF SessionKeys, NextPhase, SnapshotMissesOnlyYoung
  <2> QED BY <1>1, <1>b, <2>1, <2>2 DEF SessionKeys, AgeInv
<1>2. CASE GetRecords
  <2>1. KeysMissOnlyYoung'
    BY <1>2 DEF GetRecords, NextPhase, KeysMissOnlyYoung
  <2>2. \A k \in Task \ batch' : InUse(k) => age[k] <= 2 * StepDelay + SpawnTimeout + StepDelay
    <3> SUFFICES ASSUME NEW k \in Task \ batch', InUse(k)
                 PROVE  age[k] <= 2 * StepDelay + SpawnTimeout + StepDelay
      OBVIOUS
    <3>1. CASE k \in Recorded
      <4>1. PICK s \in Session \ keys : record[s] = k /\ k # None
        BY <1>2, <3>1 DEF GetRecords, Recorded
      <4>2. age[k] <= MissedAge(1)
        BY <1>2, <4>1 DEF GetRecords, AgeInv, KeysMissOnlyYoung
      <4>3. k \in Task /\ age[k] \in Nat /\ phaseLeft \in Nat
        BY AgeTypes
      <4> QED BY <4>2, <4>3 DEF MissedAge
    <3>2. CASE \E c \in Caller : pc[c] \in Registering /\ target[c] = k
      <4>1. PICK c \in Caller : pc[c] \in Registering /\ target[c] = k
        BY <3>2
      <4>2. age[k] + left[c] <= AgeLimit(pc[c])
        BY <4>1 DEF AgeInv, Underway
      <4>3. age[k] \in Nat /\ left[c] \in Nat
        BY AgeTypes
      <4>4. AgeLimit(pc[c]) <= 2 * StepDelay + SpawnTimeout /\ AgeLimit(pc[c]) \in Nat
        BY DEF AgeLimit
      <4> QED BY <4>2, <4>3, <4>4
    <3> QED BY <3>1, <3>2 DEF InUse
  <2>3. phaseLeft' = StepDelay /\ phase' = "spawningKeys" /\ UNCHANGED <<callerVars, redisVars, ecsVars>>
    BY <1>2 DEF GetRecords, NextPhase
  <2>4. SnapshotMissesOnlyYoung'
    BY <1>b, <2>2, <2>3 DEF SnapshotMissesOnlyYoung, MissedAge, ecsVars
  <2> QED BY <1>b, <2>1, <2>3, <2>4 DEF AgeInv
<1>3. CASE SpawningKeys
  <2>1. KeysMissOnlyYoung'
    BY <1>3 DEF SpawningKeys, NextPhase, KeysMissOnlyYoung
  <2> QED
    BY <1>3, <1>b, <2>1 DEF SpawningKeys, NextPhase, AgeInv, SnapshotMissesOnlyYoung,
       MissedAge, ecsVars, TypeOK
<1>4. CASE GetLocks
  <2>1. KeysMissOnlyYoung'
    BY <1>4 DEF GetLocks, NextPhase, KeysMissOnlyYoung
  <2> QED
    BY <1>4, <1>b, <2>1 DEF GetLocks, NextPhase, AgeInv, SnapshotMissesOnlyYoung,
       MissedAge, ecsVars, TypeOK
<1>7. CASE ListTasks
  <2>1. KeysMissOnlyYoung'
    BY <1>7 DEF ListTasks, NextPhase, EndCleanup, KeysMissOnlyYoung
  <2>2. \A k \in Task \ (batch \cup Undated) : OldEnough(k) => ~InUse(k)
    BY <1>7, AgeMargin DEF ListTasks, OldEnough, AgeInv, SnapshotMissesOnlyYoung,
       MissedAge, TypeOK
  <2>3. \A k \in Task : OldEnough(k)' <=> OldEnough(k)
    BY <1>7 DEF ListTasks, OldEnough, ecsVars
  <2>4. SnapshotMissesOnlyYoung'
    BY <1>7, <1>b, <2>2, <2>3 DEF ListTasks, NextPhase, EndCleanup, Live,
       SnapshotMissesOnlyYoung
  <2> QED BY <1>7, <1>b, <2>1, <2>4 DEF ListTasks, AgeInv
<1>8. CASE DescribeTasks
  BY <1>8, <1>b DEF DescribeTasks, NextPhase, AgeInv, KeysMissOnlyYoung,
     SnapshotMissesOnlyYoung, OldEnough, ecsVars, TypeOK
<1>5. CASE CleanupDone \/ CleanupThrows \/ CleanupRestarts
  BY <1>5, <1>b DEF CleanupDone, CleanupThrows, CleanupRestarts, EndCleanup, AgeInv,
     KeysMissOnlyYoung, SnapshotMissesOnlyYoung
<1>6. CASE \E k \in Task : StopTask(k) \/ StopFails(k)
  BY <1>6, <1>a DEF StopTask, StopFails, NextPhase, AgeInv, KeysMissOnlyYoung,
     SnapshotMissesOnlyYoung, OldEnough, ecsVars, TypeOK
<1> QED BY <1>1, <1>2, <1>3, <1>4, <1>5, <1>6, <1>7, <1>8 DEF CleanupStep

LEMMA EcsKeepsAge ==
  ASSUME TypeOK, AgeInv, Ecs
  PROVE  AgeInv'
<1>1. PICK k \in Task : TaskUp(k) \/ TaskStops(k)
  BY DEF Ecs
<1>2. /\ UNCHANGED <<callerVars, redisVars, cleanupVars, age>>
      /\ \A l \in Task : /\ status'[l] = "unused" => status[l] = "unused" /\ ip'[l] = ip[l]
                         /\ status[l] # "unused" => status'[l] # "unused"
  BY <1>1 DEF TaskUp, TaskStops, Live, TypeOK
<1>3. Underway'
  <2>1. UNCHANGED <<pc, target, left, age>>
    BY <1>2 DEF callerVars
  <2> QED BY <1>2, <2>1 DEF AgeInv, Underway
<1>6. UnusedIsBlank'
  <2>1. ASSUME NEW l \in Task, status'[l] = "unused"
        PROVE  age'[l] = 0 /\ ip'[l] = None
    <3>1. status[l] = "unused" /\ ip'[l] = ip[l] /\ age' = age
      BY <1>2, <2>1
    <3>2. age[l] = 0 /\ ip[l] = None
      BY <3>1 DEF AgeInv, UnusedIsBlank
    <3> QED BY <3>1, <3>2
  <2> QED BY <2>1 DEF UnusedIsBlank
<1>4. \A l \in Task : (InUse(l)' <=> InUse(l)) /\ (OldEnough(l)' <=> OldEnough(l))
  BY <1>2 DEF InUse, Recorded, OldEnough, callerVars, redisVars
<1>5. SnapshotMissesOnlyYoung'
  BY <1>2, <1>4 DEF AgeInv, SnapshotMissesOnlyYoung, MissedAge, cleanupVars, TypeOK
<1>7. KeysMissOnlyYoung'
  BY <1>2 DEF AgeInv, KeysMissOnlyYoung, MissedAge, redisVars, cleanupVars
<1> QED BY <1>3, <1>5, <1>6, <1>7 DEF AgeInv

LEMMA TickKeepsAge ==
  ASSUME TypeOK, TypeOK', AgeInv, Tick
  PROVE  AgeInv'
<1> USE Durations
<1>1. \A k \in Task : age[k] \in Nat /\ age'[k] \in Nat /\ age'[k] <= age[k] + 1
  BY DEF Tick, TypeOK
<1>6. \A k \in Task : status[k] = "unused" => age'[k] = age[k]
  BY DEF Tick, Live
<1>7. \A k \in Task : age[k] >= MinTaskAge => age'[k] = age[k]
  BY DEF Tick, TypeOK
<1>2. Underway'
  <2>1. ASSUME NEW c \in Caller, pc'[c] \in Registering
        PROVE  /\ target'[c] \in Task /\ status'[target'[c]] # "unused"
               /\ age'[target'[c]] + left'[c] <= AgeLimit(pc'[c])
    <3>1. /\ pc'[c] = pc[c] /\ target'[c] = target[c] /\ status' = status
          /\ left[c] \in Nat /\ left[c] > 0 /\ left'[c] = left[c] - 1
      BY <2>1 DEF Tick, Dec, TypeOK, Registering, Settled
    <3>2. /\ target[c] \in Task /\ status[target[c]] # "unused"
          /\ age[target[c]] + left[c] <= AgeLimit(pc[c])
      BY <2>1, <3>1 DEF AgeInv, Underway
    <3>3. AgeLimit(pc[c]) \in Nat
      BY AgeTypes
    <3>4. /\ age[target[c]] \in Nat /\ age'[target[c]] \in Nat
          /\ age'[target[c]] <= age[target[c]] + 1
      BY <1>1, <3>2
    <3> QED BY <3>1, <3>2, <3>3, <3>4
  <2> QED BY <2>1 DEF Underway
<1>3. UnusedIsBlank'
  <2>1. status' = status /\ ip' = ip BY DEF Tick
  <2>2. ASSUME NEW k \in Task, status'[k] = "unused"
        PROVE  age'[k] = 0 /\ ip'[k] = None
    <3>1. age[k] = 0 /\ ip[k] = None
      BY <2>1, <2>2 DEF AgeInv, UnusedIsBlank
    <3> QED BY <1>6, <2>1, <2>2, <3>1
  <2> QED BY <2>2 DEF UnusedIsBlank
<1>4. \A k \in Task : InUse(k)' => InUse(k)
  BY DEF Tick, InUse, Recorded, TypeOK
<1>5. SnapshotMissesOnlyYoung'
  <2>1. CASE phase = "idle"
    BY <2>1 DEF Tick, SnapshotMissesOnlyYoung
  <2>2. CASE phase # "idle"
    <3>1. phase' = phase /\ batch' = batch /\ phaseLeft \in Nat /\ phaseLeft' = phaseLeft - 1
      BY <2>2 DEF Tick, Dec, TypeOK
    <3>2. \A n \in Nat : MissedAge(n) \in Int /\ MissedAge(n)' = MissedAge(n) + 1
      BY <3>1 DEF MissedAge
    <3>3. phaseLeft <= StepDelay /\ phaseLeft' <= StepDelay
      BY <2>2, <3>1 DEF AgeInv, SnapshotMissesOnlyYoung
    <3>4. batch \subseteq Task
      BY DEF TypeOK
    <3>5. ASSUME NEW n \in Nat, NEW k \in Task, InUse(k) => age[k] <= MissedAge(n)
          PROVE  InUse(k)' => age'[k] <= MissedAge(n)'
      <4>1. ASSUME InUse(k)' PROVE age'[k] <= MissedAge(n)'
        <5>1. age[k] <= MissedAge(n) BY <1>4, <3>5, <4>1
        <5>2. MissedAge(n) \in Int /\ MissedAge(n)' = MissedAge(n) + 1 BY <3>2
        <5> QED BY <1>1, <5>1, <5>2
      <4> QED BY <4>1
    <3>6. \A k \in Task : OldEnough(k) => OldEnough(k)'
      BY <1>7 DEF OldEnough
    <3> QED
      BY <1>4, <3>1, <3>3, <3>4, <3>5, <3>6 DEF AgeInv, SnapshotMissesOnlyYoung
  <2> QED BY <2>1, <2>2
<1>8. KeysMissOnlyYoung'
  <2> SUFFICES ASSUME phase = "getRecords", NEW s \in Session \ keys, record'[s] # None
               PROVE  age'[record'[s]] <= MissedAge(1)'
    BY DEF Tick, KeysMissOnlyYoung
  <2>1. record'[s] = record[s] /\ record[s] # None /\ record[s] \in Task
    BY DEF Tick, TypeOK
  <2>2. age[record[s]] <= MissedAge(1)
    BY <2>1 DEF AgeInv, KeysMissOnlyYoung
  <2>3. phaseLeft' = phaseLeft - 1 /\ phaseLeft \in Nat
    BY DEF Tick, Dec, TypeOK
  <2> QED BY <1>1, <2>1, <2>2, <2>3 DEF MissedAge
<1> QED BY <1>2, <1>3, <1>5, <1>8 DEF AgeInv

-----------------------------------------------------------------------------
(* The two safety theorems about locks and clean-up.                       *)

Inv == TypeOK /\ LockInv /\ AgeInv

LEMMA InitInv == Init => Inv
<1> SUFFICES ASSUME Init PROVE Inv
  OBVIOUS
<1>1. TypeOK
  BY InitType
<1>2. \A c \in Caller : pc[c] = "new" /\ pc[c] \notin Spawning /\ pc[c] \notin Registering
  BY DEF Init, Spawning, Registering
<1>3. LockInv
  BY <1>2 DEF LockInv, SpawnMutex, LockOutlivesSpawn
<1>4. AgeInv
  BY <1>2 DEF Init, AgeInv, Underway, UnusedIsBlank, KeysMissOnlyYoung,
                SnapshotMissesOnlyYoung
<1> QED BY <1>1, <1>3, <1>4 DEF Inv

LEMMA InvStep == Inv /\ [Next]_vars => Inv'
<1>1. ASSUME Inv, Next PROVE Inv'
  <2>1. TypeOK /\ TypeOK' /\ LockInv /\ AgeInv /\ Underway
    BY <1>1, TypeStep DEF Inv, AgeInv
  <2>2. CASE \E c \in Caller : Start(c) \/ Progress(c) \/ CallThrows(c) \/ Crash(c)
    BY <2>1, <2>2, CallerKeepsLock, CallerKeepsAge DEF Inv
  <2>3. CASE CleanupStep \/ CleanupThrows \/ CleanupRestarts \/ \E k \in Task : StopTask(k) \/ StopFails(k)
    BY <2>1, <2>3, OthersKeepLock, CleanupKeepsAge DEF Inv
  <2>4. CASE Ecs
    BY <2>1, <2>4, OthersKeepLock, EcsKeepsAge DEF Inv
  <2>5. CASE Tick
    BY <2>1, <2>5, OthersKeepLock, TickKeepsAge DEF Inv
  <2> QED BY <1>1, <2>2, <2>3, <2>4, <2>5 DEF Next
<1>2. ASSUME Inv, UNCHANGED vars PROVE Inv'
  <2>1. UNCHANGED <<callerVars, redisVars, ecsVars, cleanupVars>>
    BY <1>2 DEF vars
  <2>2. TypeOK'
    BY <1>2, TypeStep DEF Inv
  <2>3. LockInv'
    BY <1>2, <2>1 DEF Inv, LockInv, SpawnMutex, LockOutlivesSpawn, LockNeed,
                      callerVars, redisVars
  <2>4. Underway' /\ UnusedIsBlank'
    BY <1>2, <2>1 DEF Inv, AgeInv, Underway, UnusedIsBlank, callerVars, ecsVars
  <2>5. SnapshotMissesOnlyYoung'
    <3>1. \A k \in Task : (InUse(k)' <=> InUse(k)) /\ (OldEnough(k)' <=> OldEnough(k))
      BY <2>1 DEF InUse, Recorded, OldEnough, callerVars, redisVars, ecsVars
    <3> QED
      BY <1>2, <2>1, <3>1 DEF Inv, AgeInv, SnapshotMissesOnlyYoung, MissedAge, TypeOK,
                              ecsVars, cleanupVars
  <2>6. KeysMissOnlyYoung'
    BY <1>2, <2>1 DEF Inv, AgeInv, KeysMissOnlyYoung, MissedAge, redisVars, ecsVars,
                      cleanupVars
  <2> QED BY <2>2, <2>3, <2>4, <2>5, <2>6 DEF Inv, AgeInv
<1> QED BY <1>1, <1>2

LEMMA InvHolds == Spec => []Inv
BY InitInv, InvStep, PTL DEF Spec

(* Two callers of a session are never both between tryMarkSpawning and     *)
(* clearSpawning.                                                          *)
THEOREM SpawnersExclude == Spec => []SpawnMutex
<1>1. Inv => SpawnMutex
  BY DEF Inv, LockInv
<1> QED BY <1>1, InvHolds, PTL

(* The clean-up never stops a task that ECS dates and that a record names  *)
(* or a caller is about to register.                                       *)
THEOREM CleanupSafe == Spec => []CleanupSparesSessions
<1>1. Inv => CleanupSparesSessions
  BY DEF Inv, AgeInv, SnapshotMissesOnlyYoung, InUse, CleanupSparesSessions, TypeOK
<1> QED BY <1>1, InvHolds, PTL

(* The bounds behind both: a spawner's lock outlives its spawn, and every  *)
(* task the clean-up's snapshot missed is too young for it.                *)
THEOREM BoundsHold == Spec => []SessionInv
<1>1. Inv => SessionInv
  BY DEF Inv, LockInv, AgeInv, SessionInv
<1> QED BY <1>1, InvHolds, PTL

-----------------------------------------------------------------------------
(* Every request is served by a task of its own session.                   *)

(* The last two parts of the invariant, which are about ECS alone.         *)
Addresses ==
  /\ \A l \in Task : /\ status[l] = "running" => ip[l] # None
                     /\ status[l] \in {"unused", "pending"} => ip[l] = None
  /\ \A l, m \in Task : ip[l] = ip[m] /\ ip[l] # None =>
       l = m \/ (IpReuse /\ "stopped" \in {status[l], status[m]})

LEMMA InitOwn == Init => OwnTaskInv
BY Sentinels DEF Init, OwnTaskInv, Settled, Registering

(* A call that leaves ECS and the records alone, or drops a record, keeps  *)
(* the invariant if its caller drops its task, or keeps it and may.        *)
LEMMA OwnUntouched ==
  ASSUME TypeOK, TypeOK', OwnTaskInv, NEW c \in Caller, UNCHANGED <<ecsVars, sid>>,
         \A s \in Session : record'[s] \in {record[s], None},
         \A d \in Caller \ {c} : pc'[d] = pc[d] /\ target'[d] = target[d],
         target'[c] = None => pc'[c] \notin Registering \cup {"health", "fetchTest", "forward"},
         target'[c] # None =>
           /\ owner[target'[c]] = sid[c]
           /\ pc'[c] \in {"updateArn", "waitRunning"} \/ ip[target'[c]] # None
  PROVE  OwnTaskInv'
<1>1. \A s \in Session : record'[s] # None => owner'[record'[s]] = s /\ ip'[record'[s]] # None
  BY DEF OwnTaskInv, ecsVars
<1>2. ASSUME NEW d \in Caller, target'[d] # None
      PROVE  /\ owner'[target'[d]] = sid'[d]
             /\ pc'[d] \in {"updateArn", "waitRunning"} \/ ip'[target'[d]] # None
  <2>1. CASE d = c BY <1>2, <2>1 DEF ecsVars
  <2>2. CASE d # c BY <1>2, <2>2 DEF OwnTaskInv, ecsVars
  <2> QED BY <2>1, <2>2
<1>3. ASSUME NEW d \in Caller, pc'[d] \in Registering \cup {"health", "fetchTest", "forward"}
      PROVE  target'[d] # None
  <2>1. CASE d = c BY <1>3, <2>1
  <2>2. CASE d # c BY <1>3, <2>2 DEF OwnTaskInv
  <2> QED BY <2>1, <2>2
<1>4. Addresses'
  BY DEF OwnTaskInv, Addresses, ecsVars
<1> QED BY <1>1, <1>2, <1>3, <1>4 DEF OwnTaskInv, Addresses

LEMMA CallerKeepsOwn ==
  ASSUME TypeOK, TypeOK', OwnTaskInv, Underway, UnusedIsBlank, NEW c \in Caller,
         Start(c) \/ Progress(c) \/ CallThrows(c) \/ Crash(c)
  PROVE  OwnTaskInv'
<1> DEFINE Quiet ==
       /\ UNCHANGED <<ecsVars, sid>>
       /\ \A s \in Session : record'[s] \in {record[s], None}
       /\ \A d \in Caller \ {c} : pc'[d] = pc[d] /\ target'[d] = target[d]
    Dropped == target'[c] = None =>
       pc'[c] \notin Registering \cup {"health", "fetchTest", "forward"}
    Kept == target'[c] # None =>
       /\ owner[target'[c]] = sid[c]
       /\ pc'[c] \in {"updateArn", "waitRunning"} \/ ip[target'[c]] # None
<1>a. Quiet /\ Dropped /\ Kept => OwnTaskInv'
  BY OwnUntouched
<1>b. /\ Quiet /\ Dropped
      /\ target'[c] = target[c]
      /\ pc'[c] \in {"updateArn", "waitRunning"} \/ pc[c] \notin {"updateArn", "waitRunning"}
      => OwnTaskInv'
  BY <1>a DEF OwnTaskInv
<1> USE DEF redisVars, Call, Goto, Aim, Finish, Settled, Registering
<1>1. CASE Start(c)
  BY <1>1, <1>a DEF Start, OwnTaskInv, TypeOK
<1>2. CASE LookUp(c)
  <2>1. Quiet BY <1>2 DEF LookUp, TypeOK
  <2>2. target'[c] = record[sid[c]] /\ pc'[c] = (IF record[sid[c]] = None THEN "tryLock" ELSE "health")
    BY <1>2 DEF LookUp, GetSession, TypeOK
  <2>3. Dropped BY <2>2
  <2>4. Kept BY <2>2 DEF OwnTaskInv, TypeOK
  <2> QED BY <2>1, <2>3, <2>4, <1>a
<1>3. CASE HealthOk(c)
  <2>1. Quiet BY <1>3 DEF HealthOk, Proceed, TypeOK
  <2>2. pc[c] = "health" /\ target'[c] \in {target[c], None}
        /\ pc'[c] \in {"done", "fetchTest", "forward"} /\ (pc'[c] # "done" => target'[c] = target[c])
    BY <1>3 DEF HealthOk, Proceed, TypeOK
  <2>3. target[c] # None BY <2>2 DEF OwnTaskInv
  <2>4. Dropped BY <2>2, <2>3
  <2>5. Kept BY <2>2, <2>3 DEF OwnTaskInv
  <2> QED BY <2>1, <2>4, <2>5, <1>a
<1>4. CASE AwaitSeesSession(c)
  <2> DEFINE k == record[sid[c]]
  <2>1. Quiet BY <1>4 DEF AwaitSeesSession, Proceed, TypeOK
  <2>2. k # None /\ target'[c] \in {k, None}
        /\ pc'[c] \in {"done", "fetchTest", "forward"} /\ (pc'[c] # "done" => target'[c] = k)
    BY <1>4 DEF AwaitSeesSession, GetSession, Proceed, TypeOK
  <2>3. Dropped BY <2>2
  <2>4. Kept BY <2>2 DEF OwnTaskInv, TypeOK
  <2> QED BY <2>1, <2>3, <2>4, <1>a
<1>5. CASE HealthFails(c) \/ NoCapacity(c) \/ GiveUpSpawn(c) \/ AwaitTimesOut(c) \/ Crash(c)
           \/ Refresh(c)
  <2>1. target'[c] = None /\ pc'[c] \in {"deleteStale", "unlock", "error", "done"}
    BY <1>5 DEF HealthFails, NoCapacity, GiveUpSpawn, AwaitTimesOut, Crash, Refresh, TypeOK
  <2>2. Quiet
    BY <1>5 DEF HealthFails, NoCapacity, GiveUpSpawn, AwaitTimesOut, Crash, Refresh,
                RefreshTtl, Store, TypeOK
  <2> QED BY <2>1, <2>2, <1>a
<1>6. CASE CallThrows(c)
  <2>1. target'[c] = None /\ pc'[c] \in {"unlock", "error"} /\ Quiet
    BY <1>6 DEF CallThrows, TypeOK
  <2> QED BY <2>1, <1>a
<1>7. CASE DeleteStale(c) \/ Evict(c)
  BY <1>7, <1>b DEF DeleteStale, Evict, DeleteSession, Store, TypeOK
<1>8. CASE TryMarkSpawning(c) \/ LoseSpawnRace(c)
  BY <1>8, <1>b DEF TryMarkSpawning, LoseSpawnRace, Mark, TypeOK, Spawning
<1>9. CASE FetchHiddenTest(c) \/ SandboxAnswers(c) \/ SandboxUnreachable(c)
  <2>1. target[c] # None \/ pc[c] \notin {"fetchTest", "forward"} BY DEF OwnTaskInv
  <2> QED BY <1>9, <2>1, <1>b DEF FetchHiddenTest, SandboxAnswers, SandboxUnreachable, TypeOK
<1>10. CASE UpdateArn(c)
  <2>1. target[c] # None BY <1>10 DEF UpdateArn, OwnTaskInv
  <2> QED BY <1>10, <2>1, <1>b DEF UpdateArn, UpdateSpawningArn, Mark, TypeOK
<1>11. CASE SeeRunning(c)
  <2>1. target[c] # None /\ pc[c] = "waitRunning" /\ status[target[c]] = "running"
    BY <1>11 DEF SeeRunning, OwnTaskInv
  <2>2. ip[target[c]] # None /\ owner[target[c]] = sid[c]
    BY <2>1 DEF OwnTaskInv, TypeOK
  <2>3. Quiet /\ target' = target
    BY <1>11 DEF SeeRunning, TypeOK
  <2> QED BY <2>1, <2>2, <2>3, <1>a
<1>12. CASE Unlock(c)
  <2>1. Quiet /\ pc[c] = "unlock"
    BY <1>12 DEF Unlock, ClearSpawning, Mark, Proceed, TypeOK
  <2>2. CASE target[c] = None
    BY <1>12, <2>1, <2>2, <1>a DEF Unlock, TypeOK
  <2>3. CASE target[c] # None
    <3>1. target'[c] \in {target[c], None}
          /\ pc'[c] \in {"done", "fetchTest", "forward"} /\ (pc'[c] # "done" => target'[c] = target[c])
      BY <1>12, <2>3 DEF Unlock, Proceed, TypeOK
    <3>2. Dropped BY <3>1, <2>3
    <3>3. Kept BY <2>1, <2>3, <3>1 DEF OwnTaskInv
    <3> QED BY <2>1, <3>2, <3>3, <1>a
  <2> QED BY <2>2, <2>3
<1>13. CASE Register(c)
  <2>1. /\ pc[c] = "setSession" /\ pc' = [pc EXCEPT ![c] = "unlock"] /\ target' = target
        /\ record' = [record EXCEPT ![sid[c]] = target[c]] /\ UNCHANGED <<ecsVars, sid>>
    BY <1>13 DEF Register, SetSession, Store
  <2>2. owner[target[c]] = sid[c] /\ ip[target[c]] # None
    BY <2>1 DEF OwnTaskInv
  <2> QED BY <2>1, <2>2 DEF OwnTaskInv, ecsVars, TypeOK
<1>14. ASSUME NEW k \in Task, RunTask(c, k) PROVE OwnTaskInv'
  <2>1. /\ status[k] = "unused" /\ ip[k] = None /\ UNCHANGED <<ip, sid, record>>
        /\ pc' = [pc EXCEPT ![c] = "updateArn"] /\ target' = [target EXCEPT ![c] = k]
        /\ owner' = [owner EXCEPT ![k] = sid[c]] /\ status' = [status EXCEPT ![k] = "pending"]
    BY <1>14 DEF RunTask, UnusedIsBlank
  <2>2. \A s \in Session : record[s] # k
    BY <2>1, Sentinels DEF OwnTaskInv
  <2>3. \A d \in Caller : target[d] # k
    BY <2>1, Sentinels DEF OwnTaskInv, Underway
  <2>4. \A s \in Session : record'[s] # None => owner'[record'[s]] = s /\ ip'[record'[s]] # None
    BY <2>1, <2>2 DEF OwnTaskInv, TypeOK
  <2>5. ASSUME NEW d \in Caller, target'[d] # None
        PROVE  /\ owner'[target'[d]] = sid'[d]
               /\ pc'[d] \in {"updateArn", "waitRunning"} \/ ip'[target'[d]] # None
    <3>1. CASE d = c BY <2>1, <3>1 DEF TypeOK
    <3>2. CASE d # c BY <2>1, <2>3, <2>5, <3>2 DEF OwnTaskInv, TypeOK
    <3> QED BY <3>1, <3>2
  <2>6. ASSUME NEW d \in Caller, pc'[d] \in Registering \cup {"health", "fetchTest", "forward"}
        PROVE  target'[d] # None
    BY <2>1, <2>6, Sentinels DEF OwnTaskInv, TypeOK
  <2>7. Addresses'
    BY <2>1 DEF OwnTaskInv, Addresses, TypeOK
  <2> QED BY <2>4, <2>5, <2>6, <2>7 DEF OwnTaskInv, Addresses
<1> QED
  BY <1>1, <1>2, <1>3, <1>4, <1>5, <1>6, <1>7, <1>8, <1>9, <1>10, <1>11, <1>12, <1>13, <1>14
     DEF Progress

LEMMA OthersKeepOwn ==
  ASSUME TypeOK, TypeOK', OwnTaskInv,
         \/ CleanupStep \/ CleanupThrows \/ CleanupRestarts \/ \E k \in Task : StopTask(k) \/ StopFails(k)
         \/ Ecs \/ Tick
  PROVE  OwnTaskInv'
<1>1. ASSUME UNCHANGED <<callerVars, record, owner, ip>>,
             \A k \in Task : status'[k] \in {status[k], "stopped"}
      PROVE  OwnTaskInv'
  <2>1. Addresses'
    BY <1>1 DEF OwnTaskInv, Addresses
  <2> QED BY <1>1, <2>1 DEF OwnTaskInv, Addresses, callerVars
<1>2. CASE CleanupStep \/ CleanupThrows \/ CleanupRestarts
  BY <1>1, <1>2 DEF CleanupStep, CleanupThrows, CleanupRestarts, SessionKeys, GetRecords,
                    SpawningKeys, GetLocks, ListTasks, DescribeTasks, CleanupDone, redisVars, ecsVars
<1>3. CASE \E k \in Task : StopTask(k) \/ StopFails(k) \/ TaskStops(k)
  BY <1>1, <1>3 DEF StopTask, StopFails, TaskStops, redisVars, ecsVars, TypeOK
<1>4. ASSUME NEW k \in Task, TaskUp(k) PROVE OwnTaskInv'
  <2>1. PICK i \in FreeIps : ip' = [ip EXCEPT ![k] = i]
    BY <1>4 DEF TaskUp
  <2>2. i \in Ip /\ i # None /\ \A l \in Task : ip[l] = i => IpReuse /\ status[l] # "running"
    BY <2>1, Sentinels DEF FreeIps
  <2>3. UNCHANGED <<callerVars, record, owner>> /\ status' = [status EXCEPT ![k] = "running"]
    BY <1>4 DEF TaskUp, redisVars
  <2>4. \A l \in Task : ip[l] # None => ip'[l] # None
    BY <2>1, <2>2 DEF TypeOK
  <2>5. \A s \in Session : record'[s] # None => owner'[record'[s]] = s /\ ip'[record'[s]] # None
    BY <2>3, <2>4 DEF OwnTaskInv, TypeOK
  <2>6. \A c \in Caller : target'[c] # None =>
           /\ owner'[target'[c]] = sid'[c]
           /\ pc'[c] \in {"updateArn", "waitRunning"} \/ ip'[target'[c]] # None
    BY <2>3, <2>4 DEF OwnTaskInv, callerVars, TypeOK
  <2>7. \A c \in Caller : pc'[c] \in Registering \cup {"health", "fetchTest", "forward"} =>
           target'[c] # None
    BY <2>3 DEF OwnTaskInv, callerVars
  <2>8. \A l \in Task : /\ status'[l] = "running" => ip'[l] # None
                        /\ status'[l] \in {"unused", "pending"} => ip'[l] = None
    BY <2>1, <2>2, <2>3 DEF OwnTaskInv, TypeOK
  <2>9. \A l \in Task : ip[l] = i => IpReuse /\ status[l] = "stopped"
    BY <2>2 DEF OwnTaskInv, TypeOK
  <2>10. ASSUME NEW l \in Task, NEW m \in Task, ip'[l] = ip'[m], ip'[l] # None, l # m
         PROVE  IpReuse /\ "stopped" \in {status'[l], status'[m]}
    <3>1. CASE l = k \/ m = k
      BY <2>1, <2>3, <2>9, <2>10, <3>1 DEF TypeOK
    <3>2. CASE l # k /\ m # k
      BY <2>1, <2>3, <2>10, <3>2 DEF OwnTaskInv, TypeOK
    <3> QED BY <3>1, <3>2
  <2>11. \A l, m \in Task : ip'[l] = ip'[m] /\ ip'[l] # None =>
            l = m \/ (IpReuse /\ "stopped" \in {status'[l], status'[m]})
    BY <2>10
  <2>12. Addresses'
    BY <2>8, <2>11 DEF Addresses
  <2> QED BY <2>5, <2>6, <2>7, <2>12 DEF OwnTaskInv, Addresses
<1>5. CASE Tick
  <2>1. /\ UNCHANGED <<pc, op, sid, target, owner, ip, status>>
        /\ \A s \in Session : record'[s] \in {record[s], None}
    BY <1>5 DEF Tick
  <2>2. Addresses'
    BY <2>1 DEF OwnTaskInv, Addresses
  <2> QED BY <2>1, <2>2 DEF OwnTaskInv, Addresses
<1> QED BY <1>2, <1>3, <1>4, <1>5 DEF Ecs

(* What a record, or a request, points at is a task of its own session,    *)
(* and alone at its address until it stops.                                *)
THEOREM OwnHolds == Spec => []OwnTaskInv
<1>1. ASSUME Inv, OwnTaskInv, [Next]_vars PROVE OwnTaskInv'
  <2>1. TypeOK /\ TypeOK' /\ Underway /\ UnusedIsBlank
    BY <1>1, TypeStep DEF Inv, AgeInv
  <2>2. CASE Next
    BY <1>1, <2>1, <2>2, CallerKeepsOwn, OthersKeepOwn DEF Next
  <2>3. CASE UNCHANGED vars
    BY <1>1, <2>3 DEF OwnTaskInv, vars, callerVars, redisVars, ecsVars
  <2> QED BY <1>1, <2>2, <2>3
<1> QED BY <1>1, InitOwn, InvHolds, PTL DEF Spec

(* Whether or not ECS hands addresses out again, the code of a request     *)
(* runs in a task started for its own session until that task has stopped. *)
THEOREM OwnTaskServes == Spec => []ServedByOwnTask
<1>1. TypeOK /\ OwnTaskInv => ServedByOwnTask
  <2> SUFFICES ASSUME TypeOK, OwnTaskInv, NEW c \in Caller, pc[c] = "forward",
                      NEW k \in Listening(c)
               PROVE  owner[k] = sid[c] \/ (IpReuse /\ status[target[c]] = "stopped")
    BY DEF ServedByOwnTask
  <2>1. target[c] \in Task /\ owner[target[c]] = sid[c] /\ ip[target[c]] # None
    BY DEF OwnTaskInv, TypeOK
  <2>2. k \in Task /\ ip[k] = ip[target[c]] /\ status[k] = "running"
    BY DEF Listening
  <2>3. k = target[c] \/ (IpReuse /\ status[target[c]] = "stopped")
    BY <2>1, <2>2 DEF OwnTaskInv
  <2> QED BY <2>1, <2>3
<1> QED BY <1>1, OwnHolds, TypeCorrect, PTL
-----------------------------------------------------------------------------
(* The time and the steps a request has left.                              *)

LEMMA PlaceTable ==
  /\ DOMAIN Place = {"unlock", "awaitSpawn", "setSession", "waitRunning", "updateArn", "runTask",
                     "tryLock", "deleteStale", "health", "getSession"}
  /\ Place["unlock"] = 0 /\ Place["awaitSpawn"] = 0 /\ Place["setSession"] = 1
  /\ Place["waitRunning"] = 2 /\ Place["updateArn"] = 3 /\ Place["runTask"] = 4
  /\ Place["tryLock"] = 5 /\ Place["deleteStale"] = 6 /\ Place["health"] = 7
  /\ Place["getSession"] = 8
BY DEF Place

(* From where it has its address on, a request takes at most this long.    *)
Serving == 3 * StepDelay + Attempts * RequestTimeout

LEMMA StepTable ==
  ASSUME NEW n \in 0..Attempts
  PROVE  /\ StepsFrom("refresh", n) = 1 /\ TimeAfter("refresh", n) = 0
         /\ StepsFrom("evict", n) = 2 /\ TimeAfter("evict", n) = StepDelay
         /\ StepsFrom("forward", n) = Attempts - n + 3
         /\ TimeAfter("forward", n) = (Attempts - n) * RequestTimeout + 2 * StepDelay
         /\ StepsFrom("fetchTest", n) = Attempts + 3
         /\ TimeAfter("fetchTest", n) = Serving - StepDelay
         /\ \A step \in Settled : StepsFrom(step, n) = 0 /\ TimeAfter(step, n) = 0
<1> USE Durations, PlaceTable DEF StepsFrom, TimeAfter
<1>1. StepsFrom("refresh", n) = 1 /\ TimeAfter("refresh", n) = 0
  OBVIOUS
<1>2. StepsFrom("evict", n) = 2 /\ TimeAfter("evict", n) = StepDelay
  OBVIOUS
<1>3. /\ StepsFrom("forward", n) = Attempts - n + 3
      /\ TimeAfter("forward", n) = (Attempts - n) * RequestTimeout + 2 * StepDelay
  OBVIOUS
<1>4. StepsFrom("fetchTest", n) = Attempts + 3 /\ TimeAfter("fetchTest", n) = Serving - StepDelay
  BY DEF Serving
<1>5. \A step \in Settled : StepsFrom(step, n) = 0 /\ TimeAfter(step, n) = 0
  BY DEF Settled
<1> QED BY <1>1, <1>2, <1>3, <1>4, <1>5

(* Before that there are calls, and at most one wait.                      *)
LEMMA SearchTable ==
  ASSUME NEW n \in 0..Attempts, NEW step \in DOMAIN Place
  PROVE  /\ StepsFrom(step, n) = Place[step] + Attempts + 4
         /\ Place[step] < 3 => TimeAfter(step, n) = Place[step] * StepDelay + Serving
         /\ Place[step] >= 3 =>
              TimeAfter(step, n) = (Place[step] - 1) * StepDelay + SpawnTimeout + Serving
<1>1. Place[step] \in Nat
  BY PlaceTable
<1>2. TimeAfter(step, n) = (Place[step] + 3) * StepDelay + Attempts * RequestTimeout
        + (IF Place[step] >= 3 THEN SpawnTimeout - StepDelay ELSE 0)
  BY DEF TimeAfter
<1>3. /\ (Place[step] + 3) * StepDelay = Place[step] * StepDelay + 3 * StepDelay
      /\ (Place[step] - 1) * StepDelay = Place[step] * StepDelay - StepDelay
  BY <1>1, Durations
<1>4. Place[step] * StepDelay \in Nat /\ Attempts * RequestTimeout \in Nat
  BY <1>1, Durations
<1> QED BY <1>1, <1>2, <1>3, <1>4, Durations DEF StepsFrom, Serving

Shrinks(c) == /\ TimeLeft(c)' <= TimeLeft(c)
              /\ StepsFrom(pc[c], attempt[c])' < StepsFrom(pc[c], attempt[c])

(* What the caller is typed as, before and after a step of its own.        *)
LEMMA Moved ==
  ASSUME TypeOK, TypeOK', NEW c \in Caller
  PROVE  /\ attempt[c] \in 0..Attempts /\ attempt'[c] \in 0..Attempts
         /\ left[c] \in Nat /\ left'[c] \in Nat /\ pc[c] \in CallerStep /\ pc'[c] \in CallerStep
         /\ op[c] \in {"run", "submit", "warmUp"}
BY Sentinels DEF TypeOK

LEMMA GotoTime ==
  ASSUME TypeOK, NEW c \in Caller, NEW step \in CallerStep, NEW time \in Nat,
         Goto(c, step, time)
  PROVE  /\ pc'[c] = step /\ left'[c] = time
         /\ \A d \in Caller \ {c} : pc'[d] = pc[d] /\ left'[d] = left[d]
BY DEF TypeOK, Goto

(* A place on the way to the address: the next one is nearer.              *)
LEMMA NearerShrinks ==
  ASSUME TypeOK, TypeOK', NEW c \in Caller, pc[c] \in DOMAIN Place, pc'[c] \in DOMAIN Place,
         Place[pc'[c]] < Place[pc[c]],
         \/ left'[c] = StepDelay /\ pc'[c] # "waitRunning"
         \/ left'[c] = SpawnTimeout /\ pc'[c] \in {"waitRunning", "awaitSpawn"}
            /\ pc[c] \in {"updateArn", "tryLock"}
  PROVE  Shrinks(c)
<1> DEFINE p == Place[pc[c]]
           q == Place[pc'[c]]
<1>1. /\ attempt[c] \in 0..Attempts /\ attempt'[c] \in 0..Attempts
      /\ left[c] \in Nat /\ left'[c] \in Nat
  BY Moved
<1>2. p \in 0..8 /\ q \in 0..8 /\ q < p
  BY PlaceTable
<1>3. /\ StepsFrom(pc[c], attempt[c]) = p + Attempts + 4
      /\ p < 3 => TimeAfter(pc[c], attempt[c]) = p * StepDelay + Serving
      /\ p >= 3 => TimeAfter(pc[c], attempt[c]) = (p - 1) * StepDelay + SpawnTimeout + Serving
  BY <1>1, SearchTable
<1>4. /\ StepsFrom(pc'[c], attempt'[c]) = q + Attempts + 4
      /\ q < 3 => TimeAfter(pc'[c], attempt'[c]) = q * StepDelay + Serving
      /\ q >= 3 => TimeAfter(pc'[c], attempt'[c]) = (q - 1) * StepDelay + SpawnTimeout + Serving
  BY <1>1, SearchTable
<1>5. Serving \in Nat /\ StepDelay \in Nat /\ SpawnTimeout \in Nat /\ Attempts \in Nat
  BY Durations DEF Serving
<1> HIDE DEF p, q
<1>6. TimeLeft(c)' <= TimeLeft(c)
  <2>1. TimeLeft(c)' = left'[c] + TimeAfter(pc'[c], attempt'[c])
        /\ TimeLeft(c) = left[c] + TimeAfter(pc[c], attempt[c])
    BY DEF TimeLeft
  <2>2. \A i, j \in 0..8 : i < j => i * StepDelay + StepDelay <= j * StepDelay
    <3> TAKE i, j \in 0..8
    <3>1. CASE i < j
      <4>1. (i + 1) * StepDelay <= j * StepDelay
        BY <3>1, <1>5
      <4> QED BY <4>1, <1>5
    <3> QED BY <3>1
  <2>3. /\ p * StepDelay \in Nat /\ q * StepDelay \in Nat
        /\ (p - 1) * StepDelay = p * StepDelay - StepDelay
        /\ (q - 1) * StepDelay = q * StepDelay - StepDelay
        /\ q * StepDelay + StepDelay <= p * StepDelay
    BY <1>2, <1>5, <2>2
  <2>4. CASE left'[c] = StepDelay /\ pc'[c] # "waitRunning"
    <3>1. CASE q >= 3
      BY <1>1, <1>2, <1>3, <1>4, <1>5, <2>1, <2>3, <2>4, <3>1
    <3>2. CASE q < 3 /\ p < 3
      BY <1>1, <1>2, <1>3, <1>4, <1>5, <2>1, <2>3, <2>4, <3>2
    <3>3. CASE q < 3 /\ p >= 3
      <4>1. q \in {0, 1}
        BY <1>2, <2>4, <3>3, PlaceTable DEF q
      <4>2. p - 1 \in 0..8 /\ q < p - 1
        BY <1>2, <3>3, <4>1
      <4>3. q * StepDelay + StepDelay <= (p - 1) * StepDelay
        BY <1>2, <2>2, <4>2
      <4> QED BY <1>1, <1>2, <1>3, <1>4, <1>5, <2>1, <2>3, <2>4, <3>3, <4>3
    <3> QED BY <1>2, <3>1, <3>2, <3>3
  <2>5. CASE left'[c] = SpawnTimeout /\ pc'[c] \in {"waitRunning", "awaitSpawn"}
             /\ pc[c] \in {"updateArn", "tryLock"}
    <3>1. q \in {0, 2} /\ p \in {3, 5}
      BY <2>5, PlaceTable DEF p, q
    <3>2. q * StepDelay <= (p - 1) * StepDelay
      BY <1>5, <3>1
    <3>3. (p - 1) * StepDelay \in Nat
      BY <1>5, <3>1
    <3> QED BY <1>1, <1>3, <1>4, <1>5, <2>1, <2>3, <2>5, <3>1, <3>2, <3>3
  <2> QED BY <2>4, <2>5
<1> QED BY <1>2, <1>3, <1>4, <1>5, <1>6 DEF Shrinks

(* The time and the steps left are numbers at every step.                  *)
LEMMA TimeLeftParts ==
  ASSUME TypeOK, NEW c \in Caller
  PROVE  /\ attempt[c] \in 0..Attempts /\ left[c] \in Nat
         /\ StepsFrom(pc[c], attempt[c]) \in Nat /\ TimeAfter(pc[c], attempt[c]) \in Nat
         /\ pc[c] \notin Settled => StepsFrom(pc[c], attempt[c]) > 0
<1>1. attempt[c] \in 0..Attempts /\ left[c] \in Nat /\ pc[c] \in CallerStep
  BY DEF TypeOK
<1>2. CASE pc[c] \in DOMAIN Place
  <2>1. Place[pc[c]] \in 0..8
    BY <1>2, PlaceTable
  <2>2. Place[pc[c]] * StepDelay \in Nat /\ Attempts * RequestTimeout \in Nat
    BY <2>1, Durations
  <2>3. Place[pc[c]] >= 3 => (Place[pc[c]] - 1) * StepDelay \in Nat
    BY <2>1, Durations
  <2>4. /\ StepsFrom(pc[c], attempt[c]) = Place[pc[c]] + Attempts + 4
        /\ Place[pc[c]] < 3 => TimeAfter(pc[c], attempt[c]) = Place[pc[c]] * StepDelay + Serving
        /\ Place[pc[c]] >= 3 =>
             TimeAfter(pc[c], attempt[c]) = (Place[pc[c]] - 1) * StepDelay + SpawnTimeout + Serving
    BY <1>1, <1>2, SearchTable
  <2>5. Serving \in Nat /\ SpawnTimeout \in Nat /\ Attempts \in Nat
    BY <2>2, Durations DEF Serving
  <2> QED BY <1>1, <2>1, <2>2, <2>3, <2>4, <2>5
<1>3. CASE pc[c] = "forward"
  <2>1. (Attempts - attempt[c]) * RequestTimeout \in Nat
    BY <1>1, Durations
  <2> QED BY <1>1, <1>3, <2>1, StepTable, Durations
<1>4. CASE pc[c] \in {"fetchTest", "evict", "refresh"}
  <2>1. Attempts * RequestTimeout \in Nat
    BY Durations
  <2> QED BY <1>1, <1>4, <2>1, StepTable, Durations DEF Serving
<1>5. CASE pc[c] \in Settled
  BY <1>1, <1>5, StepTable
<1>6. pc[c] \in DOMAIN Place \cup {"forward", "fetchTest", "evict", "refresh"} \cup Settled
  BY <1>1, PlaceTable DEF CallerStep, Spawning, Registering
<1> QED BY <1>1, <1>2, <1>3, <1>4, <1>5, <1>6

(* A request that is over has nothing left.                                *)
LEMMA FinishShrinks ==
  ASSUME TypeOK, TypeOK', NEW c \in Caller, pc[c] \notin Settled,
         pc'[c] \in {"done", "error"}, left'[c] = 0
  PROVE  Shrinks(c)
<1>1. /\ attempt[c] \in 0..Attempts /\ attempt'[c] \in 0..Attempts
      /\ left[c] \in Nat /\ pc[c] \in CallerStep
  BY Moved
<1>2. StepsFrom(pc'[c], attempt'[c]) = 0 /\ TimeAfter(pc'[c], attempt'[c]) = 0
  BY <1>1, StepTable DEF Settled
<1>3. /\ StepsFrom(pc[c], attempt[c]) > 0 /\ StepsFrom(pc[c], attempt[c]) \in Nat
      /\ TimeAfter(pc[c], attempt[c]) \in Nat
  BY TimeLeftParts
<1> QED BY <1>1, <1>2, <1>3 DEF Shrinks, TimeLeft

(* With its address a request goes on to be served.                        *)
LEMMA ProceedShrinks ==
  ASSUME TypeOK, TypeOK', NEW c \in Caller, NEW k, Proceed(c, k), pc[c] \in DOMAIN Place
  PROVE  Shrinks(c)
<1>1. /\ attempt[c] \in 0..Attempts /\ attempt'[c] \in 0..Attempts
      /\ left[c] \in Nat /\ op[c] \in {"run", "submit", "warmUp"}
      /\ pc[c] \notin Settled
  BY Moved, PlaceTable DEF Settled
<1>2. /\ StepsFrom(pc[c], attempt[c]) >= Attempts + 4
      /\ TimeAfter(pc[c], attempt[c]) >= Serving
      /\ StepsFrom(pc[c], attempt[c]) \in Int /\ TimeAfter(pc[c], attempt[c]) \in Int
  <2>1. Place[pc[c]] \in 0..8
    BY PlaceTable
  <2>2. Place[pc[c]] * StepDelay \in Nat /\ Serving \in Nat
    BY <2>1, Durations DEF Serving
  <2>3. Place[pc[c]] >= 3 => (Place[pc[c]] - 1) * StepDelay \in Nat
    BY <2>1, Durations
  <2>4. /\ StepsFrom(pc[c], attempt[c]) = Place[pc[c]] + Attempts + 4
        /\ Place[pc[c]] < 3 => TimeAfter(pc[c], attempt[c]) = Place[pc[c]] * StepDelay + Serving
        /\ Place[pc[c]] >= 3 =>
             TimeAfter(pc[c], attempt[c]) = (Place[pc[c]] - 1) * StepDelay + SpawnTimeout + Serving
    BY <1>1, SearchTable
  <2> QED BY <2>1, <2>2, <2>3, <2>4, Durations
<1>3. CASE op[c] = "warmUp"
  <2>1. pc'[c] = "done" /\ left'[c] = 0
    BY <1>3, GotoTime DEF Proceed, Finish, CallerStep, Settled
  <2> QED BY <1>1, <2>1, FinishShrinks
<1>4. CASE op[c] = "submit"
  <2>0. Goto(c, "fetchTest", StepDelay) /\ "fetchTest" \in CallerStep /\ StepDelay \in Nat
    BY <1>4, Durations DEF Proceed, Call, CallerStep
  <2>1. pc'[c] = "fetchTest" /\ left'[c] = StepDelay
    BY <2>0, GotoTime
  <2>2. StepsFrom(pc'[c], attempt'[c]) = Attempts + 3
        /\ TimeAfter(pc'[c], attempt'[c]) = Serving - StepDelay
    BY <1>1, <2>1, StepTable
  <2> QED BY <1>1, <1>2, <2>1, <2>2, Durations DEF Shrinks, TimeLeft, Serving
<1>5. CASE op[c] = "run"
  <2>0. /\ Goto(c, "forward", RequestTimeout) /\ "forward" \in CallerStep
        /\ RequestTimeout \in Nat /\ attempt' = [attempt EXCEPT ![c] = 1]
    BY <1>5, Durations DEF Proceed, CallerStep
  <2>1. pc'[c] = "forward" /\ left'[c] = RequestTimeout /\ attempt'[c] = 1
    BY <2>0, GotoTime DEF TypeOK
  <2>2. StepsFrom(pc'[c], attempt'[c]) = Attempts - 1 + 3
        /\ TimeAfter(pc'[c], attempt'[c]) = (Attempts - 1) * RequestTimeout + 2 * StepDelay
    BY <1>1, <2>1, StepTable
  <2>3. (Attempts - 1) * RequestTimeout + RequestTimeout = Attempts * RequestTimeout
        /\ Attempts * RequestTimeout \in Nat
    BY Durations
  <2> QED BY <1>1, <1>2, <2>1, <2>2, <2>3, Durations DEF Shrinks, TimeLeft, Serving
<1> QED BY <1>1, <1>3, <1>4, <1>5

(* At the sandbox: an attempt less, or the address given up.               *)
LEMMA ServingShrinks ==
  ASSUME TypeOK, TypeOK', NEW c \in Caller,
         FetchHiddenTest(c) \/ SandboxAnswers(c) \/ SandboxUnreachable(c) \/ Evict(c)
  PROVE  Shrinks(c)
<1>1. /\ attempt[c] \in 0..Attempts /\ attempt'[c] \in 0..Attempts
      /\ left[c] \in Nat /\ left'[c] \in Nat
  BY Moved
<1>2. /\ Attempts * RequestTimeout \in Nat /\ (Attempts - attempt[c]) * RequestTimeout \in Nat
      /\ (Attempts - 1) * RequestTimeout + RequestTimeout = Attempts * RequestTimeout
      /\ (Attempts - (attempt[c] + 1)) * RequestTimeout + RequestTimeout
           = (Attempts - attempt[c]) * RequestTimeout
  BY <1>1, Durations
<1>3. StepDelay \in Nat /\ RequestTimeout \in Nat /\ Attempts \in Nat \ {0}
  BY Durations
<1>4. {"forward", "refresh", "evict"} \subseteq CallerStep
  BY DEF CallerStep
<1>5. CASE FetchHiddenTest(c)
  <2>1. /\ pc[c] = "fetchTest" /\ pc'[c] = "forward" /\ left'[c] = RequestTimeout
        /\ attempt'[c] = 1
    BY <1>3, <1>4, <1>5, GotoTime DEF FetchHiddenTest, TypeOK
  <2> QED BY <1>1, <1>2, <1>3, <2>1, StepTable DEF Shrinks, TimeLeft, Serving
<1>6. CASE SandboxAnswers(c)
  <2>1. pc[c] = "forward" /\ pc'[c] = "refresh" /\ left'[c] = StepDelay
    BY <1>3, <1>4, <1>6, GotoTime DEF SandboxAnswers, Call
  <2> QED BY <1>1, <1>2, <1>3, <2>1, StepTable DEF Shrinks, TimeLeft
<1>7. CASE SandboxUnreachable(c) /\ attempt[c] < Attempts
  <2>1. /\ pc[c] = "forward" /\ pc'[c] = "forward" /\ left'[c] = RequestTimeout
        /\ attempt'[c] = attempt[c] + 1
    BY <1>3, <1>4, <1>7, GotoTime DEF SandboxUnreachable, TypeOK
  <2>2. attempt[c] + 1 \in 0..Attempts
    BY <1>1, <1>3, <1>7
  <2> QED BY <1>1, <1>2, <1>3, <2>1, <2>2, StepTable DEF Shrinks, TimeLeft
<1>8. CASE SandboxUnreachable(c) /\ ~(attempt[c] < Attempts)
  <2>1. pc[c] = "forward" /\ pc'[c] = "evict" /\ left'[c] = StepDelay
    BY <1>3, <1>4, <1>8, GotoTime DEF SandboxUnreachable, Call
  <2> QED BY <1>1, <1>2, <1>3, <2>1, StepTable DEF Shrinks, TimeLeft
<1>9. CASE Evict(c)
  <2>1. pc[c] = "evict" /\ pc'[c] = "refresh" /\ left'[c] = StepDelay
    BY <1>3, <1>4, <1>9, GotoTime DEF Evict, Call
  <2> QED BY <1>1, <1>3, <2>1, StepTable DEF Shrinks, TimeLeft
<1> QED BY <1>5, <1>6, <1>7, <1>8, <1>9

(* Whatever a request does once it has started, it is nearer its end.      *)
LEMMA OwnStepShrinks ==
  ASSUME TypeOK, TypeOK', NEW c \in Caller, pc[c] \notin Settled,
         Start(c) \/ Progress(c) \/ CallThrows(c) \/ Crash(c)
  PROVE  Shrinks(c)
<1> USE PlaceTable
<1>0. /\ DOMAIN Place \cup {"done", "error"} \subseteq CallerStep
      /\ StepDelay \in Nat /\ SpawnTimeout \in Nat
  BY Durations DEF CallerStep, Settled, Spawning, Registering
<1>1. ASSUME NEW step \in DOMAIN Place \ {"waitRunning"}, pc[c] \in DOMAIN Place,
             Place[step] < Place[pc[c]], Call(c, step)
      PROVE  Shrinks(c)
  <2>1. pc'[c] = step /\ left'[c] = StepDelay
    BY <1>0, <1>1, GotoTime DEF Call
  <2> QED BY <1>1, <2>1, NearerShrinks
<1>2. ASSUME NEW how \in {"done", "error"}, Finish(c, how)
      PROVE  Shrinks(c)
  <2>1. pc'[c] = how /\ left'[c] = 0
    BY <1>0, <1>2, GotoTime DEF Finish
  <2> QED BY <1>2, <2>1, FinishShrinks
<1>3. CASE LookUp(c) BY <1>1, <1>3 DEF LookUp
<1>4. CASE HealthOk(c) BY <1>4, ProceedShrinks DEF HealthOk
<1>5. CASE HealthFails(c) BY <1>1, <1>5 DEF HealthFails
<1>6. CASE DeleteStale(c) BY <1>1, <1>6 DEF DeleteStale
<1>7. CASE TryMarkSpawning(c) BY <1>1, <1>7 DEF TryMarkSpawning
<1>8. CASE LoseSpawnRace(c)
  <2>1. pc[c] = "tryLock" /\ pc'[c] = "awaitSpawn" /\ left'[c] = SpawnTimeout
    BY <1>0, <1>8, GotoTime DEF LoseSpawnRace
  <2> QED BY <2>1, NearerShrinks
<1>9. ASSUME NEW k \in Task, RunTask(c, k) PROVE Shrinks(c) BY <1>1, <1>9 DEF RunTask
<1>10. CASE NoCapacity(c) BY <1>1, <1>10 DEF NoCapacity
<1>11. CASE UpdateArn(c)
  <2>1. pc[c] = "updateArn" /\ pc'[c] = "waitRunning" /\ left'[c] = SpawnTimeout
    BY <1>0, <1>11, GotoTime DEF UpdateArn
  <2> QED BY <2>1, NearerShrinks
<1>12. CASE SeeRunning(c) BY <1>1, <1>12 DEF SeeRunning
<1>13. CASE GiveUpSpawn(c) BY <1>1, <1>13 DEF GiveUpSpawn
<1>14. CASE Register(c) BY <1>1, <1>14 DEF Register
<1>15. CASE Unlock(c) BY <1>2, <1>15, ProceedShrinks DEF Unlock
<1>16. CASE AwaitSeesSession(c) BY <1>16, ProceedShrinks DEF AwaitSeesSession
<1>17. CASE AwaitTimesOut(c) BY <1>2, <1>17 DEF AwaitTimesOut
<1>18. CASE FetchHiddenTest(c) \/ SandboxAnswers(c) \/ SandboxUnreachable(c) \/ Evict(c)
  BY <1>18, ServingShrinks
<1>19. CASE Refresh(c) BY <1>2, <1>19 DEF Refresh
<1>20. CASE CallThrows(c)
  <2>1. CASE pc[c] \in Spawning \ {"unlock"}
    BY <1>1, <1>20, <2>1 DEF CallThrows, Spawning, Registering
  <2>2. CASE pc[c] \notin Spawning \ {"unlock"}
    BY <1>2, <1>20, <2>2 DEF CallThrows
  <2> QED BY <2>1, <2>2
<1>21. CASE Crash(c) BY <1>2, <1>21 DEF Crash
<1>22. ~Start(c) BY DEF Start, Settled
<1> QED
  BY <1>3, <1>4, <1>5, <1>6, <1>7, <1>8, <1>9, <1>10, <1>11, <1>12, <1>13, <1>14, <1>15,
     <1>16, <1>17, <1>18, <1>19, <1>20, <1>21, <1>22 DEF Progress

(* It leaves the steps and the time of the others alone.                   *)
LEMMA OthersKeepTime ==
  ASSUME TypeOK, NEW c \in Caller,
         Start(c) \/ Progress(c) \/ CallThrows(c) \/ Crash(c),
         NEW d \in Caller, d # c
  PROVE  pc'[d] = pc[d] /\ left'[d] = left[d] /\ attempt'[d] = attempt[d]
<1>1. /\ \E step, time : Goto(c, step, time)
      /\ \/ UNCHANGED attempt
         \/ \E n : attempt' = [attempt EXCEPT ![c] = n]
  BY DEF Start, Progress, LookUp, HealthOk, HealthFails, DeleteStale, TryMarkSpawning,
         LoseSpawnRace, RunTask, NoCapacity, UpdateArn, SeeRunning, GiveUpSpawn, Register,
         Unlock, AwaitSeesSession, AwaitTimesOut, FetchHiddenTest, SandboxAnswers,
         SandboxUnreachable, Evict, Refresh, CallThrows, Crash, Proceed, Call, Finish
<1> QED BY <1>1 DEF Goto, TypeOK

(* No step gives a request more time or more steps, and time passing, or a *)
(* step of its own, leaves it with less.                                   *)
THEOREM RequestsEndInTime == Spec => EndsInTime
<1> DEFINE Ends(c) ==
      /\ TimeLeft(c)' <= TimeLeft(c) - (IF Tick THEN 1 ELSE 0)
      /\ \/ pc'[c] = pc[c] /\ attempt'[c] = attempt[c]
         \/ StepsFrom(pc[c], attempt[c])' < StepsFrom(pc[c], attempt[c])
<1>1. ASSUME TypeOK, TypeOK', Next, NEW d \in Caller, pc[d] \notin Settled
      PROVE  Ends(d)
  <2>0. /\ TimeLeft(d) \in Int /\ left[d] \in Nat
        /\ TimeAfter(pc[d], attempt[d]) \in Nat
    BY <1>1, TimeLeftParts DEF TimeLeft
  <2>1. CASE Tick
    <3>1. left[d] > 0 /\ left'[d] = Dec(left[d]) /\ pc'[d] = pc[d] /\ attempt'[d] = attempt[d]
      BY <1>1, <2>1 DEF Tick
    <3>2. left'[d] = left[d] - 1
      BY <2>0, <3>1 DEF Dec
    <3> QED BY <2>0, <2>1, <3>1, <3>2 DEF TimeLeft
  <2>2. ASSUME ~Tick, NEW c \in Caller, Start(c) \/ Progress(c) \/ CallThrows(c) \/ Crash(c)
        PROVE  Ends(d)
    <3>1. CASE c = d
      <4>1. Shrinks(d)
        BY <1>1, <2>2, <3>1, OwnStepShrinks
      <4> QED BY <2>0, <2>2, <4>1 DEF Shrinks
    <3>2. CASE c # d
      <4>1. pc'[d] = pc[d] /\ left'[d] = left[d] /\ attempt'[d] = attempt[d]
        BY <1>1, <2>2, <3>2, OthersKeepTime
      <4> QED BY <2>0, <2>2, <4>1 DEF TimeLeft
    <3> QED BY <3>1, <3>2
  <2>3. CASE ~Tick /\ UNCHANGED callerVars
    BY <2>0, <2>3 DEF callerVars, TimeLeft
  <2>4. CleanupStep \/ CleanupThrows \/ CleanupRestarts \/ Ecs
        \/ (\E k \in Task : StopTask(k) \/ StopFails(k)) => UNCHANGED callerVars
    BY DEF CleanupStep, CleanupThrows, CleanupRestarts, SessionKeys, GetRecords, SpawningKeys,
           GetLocks, ListTasks, DescribeTasks, CleanupDone, StopTask, StopFails, Ecs, TaskUp,
           TaskStops
  <2> QED BY <1>1, <2>1, <2>2, <2>3, <2>4 DEF Next
<1>2. TypeOK /\ TypeOK' /\ [Next]_vars
        => [\A c \in Caller : pc[c] \notin Settled => Ends(c)]_vars
  BY <1>1
<1> QED BY <1>2, TypeCorrect, PTL DEF Spec, EndsInTime

=============================================================================
