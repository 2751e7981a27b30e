-------------------------- MODULE FargateSessions --------------------------
(***************************************************************************)
(* The execution service of platform-backend_service: how a Run, a Submit  *)
(* or a warm-up finds the Fargate task of its user+problem session,        *)
(* starting one when there is none (ExecutionService), the two Redis keys  *)
(* it keeps for a session (SessionRepository), and the scheduled job that  *)
(* stops the tasks no key names (TaskCleanupService).  ECS is external and *)
(* modelled from how that code uses it.                                    *)
(*                                                                         *)
(* A Caller is one request: RunController and SubmitController give each   *)
(* a virtual thread of its own, which issues its Redis, ECS and HTTP calls *)
(* one after the other.  Every such call is one action, so the calls of    *)
(* different callers, of the clean-up and of ECS interleave freely.        *)
(*                                                                         *)
(* Time is a countdown.  left[c] is how long caller c may still stay at    *)
(* the step it is at: StepDelay for a call, the code's own timeout for a   *)
(* wait.  Tick lets one unit pass, ages the tasks and runs the Redis TTLs  *)
(* down; it waits until nobody has used its time up.                       *)
(***************************************************************************)
EXTENDS Integers, FiniteSets

CONSTANTS Caller, Session, Task, Ip,
          Kinds,          \* the kinds of requests the callers make
          None,           \* absent Redis value, session or address
          Pending,        \* the value tryMarkSpawning stores
          Undated         \* the tasks ECS describes without a creation time

CONSTANTS SpawnTimeout,   \* TASK_START_TIMEOUT_MS and the last poll; also the loser's wait
          RequestTimeout, \* timeout of one POST /execute
          Attempts,       \* SANDBOX_REQUEST_ATTEMPTS
          LockTtl,        \* SPAWN_LOCK_TTL_SECONDS
          SessionTtl,     \* app.fargate.session-ttl-seconds
          MinTaskAge,     \* MIN_TASK_AGE_BEFORE_CLEANUP
          CleanupDelay,   \* fixedDelay of stopOrphanedTasks
          StepDelay,      \* the longest one Redis or AWS call takes
          IpReuse         \* whether ECS hands a stopped task's address out again

ASSUME Sentinels == /\ None \notin Task \cup Session \cup Ip
                    /\ Pending \notin Task \cup {None}
                    /\ Kinds \subseteq {"run", "submit", "warmUp"}
                    /\ Undated \subseteq Task

ASSUME Durations == /\ SpawnTimeout \in Nat /\ RequestTimeout \in Nat
                    /\ LockTtl \in Nat /\ SessionTtl \in Nat \ {0}
                    /\ MinTaskAge \in Nat /\ CleanupDelay \in Nat
                    /\ StepDelay \in Nat /\ Attempts \in Nat \ {0}
                    /\ IpReuse \in BOOLEAN

(* 100s lock, 90s wait: the lock is written once more when runTask returns *)
(* and must then outlive the wait, setSession and clearSpawning; should    *)
(* that write throw, the first one must outlive runTask, the write and     *)
(* clearSpawning.                                                          *)
ASSUME LockMargin == /\ LockTtl > SpawnTimeout + 2 * StepDelay
                     /\ LockTtl > 3 * StepDelay

(* 3 minutes against 90s: from runTask to setSession there are two calls   *)
(* and the wait, and from the clean-up's first read to its cutoff four     *)
(* calls.                                                                  *)
ASSUME AgeMargin == MinTaskAge > SpawnTimeout + 6 * StepDelay

VARIABLES
  pc, op, sid, target, attempt, left,          \* the callers
  record, recordTtl, lock, lockTtl,            \* fargate:session:*, fargate:spawning:*
  status, owner, ip, age,                      \* the ECS tasks
  phase, keys, batch, phaseLeft                \* stopOrphanedTasks

callerVars  == <<pc, op, sid, target, attempt, left>>
redisVars   == <<record, recordTtl, lock, lockTtl>>
ecsVars     == <<status, owner, ip, age>>
cleanupVars == <<phase, keys, batch, phaseLeft>>
vars        == <<callerVars, redisVars, ecsVars, cleanupVars>>

(***************************************************************************)
(* The call a caller is about to make.  From "runTask" to "unlock" it is   *)
(* inside the try/finally of spawnAndRegister.                             *)
(***************************************************************************)
Registering  == {"updateArn", "waitRunning", "setSession"}
Spawning     == Registering \cup {"runTask", "unlock"}
Settled      == {"new", "done", "error"}
CallerStep   == Settled \cup Spawning \cup
                {"getSession", "health", "deleteStale", "tryLock", "awaitSpawn",
                 "fetchTest", "forward", "evict", "refresh"}
Phase        == {"idle", "getRecords", "spawningKeys", "getLocks", "list", "describe", "stop"}

TypeOK ==
  /\ pc \in [Caller -> CallerStep]
  /\ op \in [Caller -> Kinds]
  /\ sid \in [Caller -> Session]
  /\ target \in [Caller -> Task \cup {None}]
  /\ attempt \in [Caller -> 0..Attempts]
  /\ left \in [Caller -> Nat]
  /\ record \in [Session -> Task \cup {None}]
  /\ recordTtl \in [Session -> 0..SessionTtl]
  /\ lock \in [Session -> Task \cup {None, Pending}]
  /\ lockTtl \in [Session -> 0..LockTtl]
  /\ status \in [Task -> {"unused", "pending", "running", "stopped"}]
  /\ owner \in [Task -> Session \cup {None}]
  /\ ip \in [Task -> Ip \cup {None}]
  /\ age \in [Task -> 0..MinTaskAge]
  /\ phase \in Phase
  /\ keys \in SUBSET Session
  /\ batch \in SUBSET Task
  /\ phaseLeft \in Nat

Init ==
  /\ pc = [c \in Caller |-> "new"]
  /\ op \in [Caller -> Kinds]
  /\ sid \in [Caller -> Session]
  /\ target = [c \in Caller |-> None]
  /\ attempt = [c \in Caller |-> 0]
  /\ left = [c \in Caller |-> 0]
  /\ record = [s \in Session |-> None]
  /\ recordTtl = [s \in Session |-> 0]
  /\ lock = [s \in Session |-> None]
  /\ lockTtl = [s \in Session |-> 0]
  /\ status = [k \in Task |-> "unused"]
  /\ owner = [k \in Task |-> None]
  /\ ip = [k \in Task |-> None]
  /\ age = [k \in Task |-> 0]
  /\ phase = "idle"
  /\ keys = {}
  /\ batch = {}
  /\ phaseLeft = 0

-----------------------------------------------------------------------------
(* SessionRepository: what each Redis command does to the two keys of a    *)
(* session.  A record is the pair (privateIp, taskArn) of one task, so the *)
(* task stands for it and ip[record[s]] for the address it stores.         *)

Store(s, k, ttl) == /\ record' = [record EXCEPT ![s] = k]
                    /\ recordTtl' = [recordTtl EXCEPT ![s] = ttl]
                    /\ UNCHANGED <<lock, lockTtl>>

Mark(s, v, ttl)  == /\ lock' = [lock EXCEPT ![s] = v]
                    /\ lockTtl' = [lockTtl EXCEPT ![s] = ttl]
                    /\ UNCHANGED <<record, recordTtl>>

(* Definitions named ..._x are mutations: what a slip in the code would     *)
(* make of the definition that follows; the specification never uses them. *)
SetSession_NoTtl(s, k)        == Store(s, k, 0)
UpdateSpawningArn_KeepTtl(s, k) == Mark(s, k, lockTtl[s])
GetSession_OfAnyone(s) ==
  IF \A t \in Session : record[t] = None
  THEN None ELSE record[CHOOSE t \in Session : record[t] # None]

SetSession(s, k)        == Store(s, k, SessionTtl)
DeleteSession(s)        == Store(s, None, 0)
RefreshTtl(s)           == Store(s, record[s], IF record[s] = None THEN 0 ELSE SessionTtl)
UpdateSpawningArn(s, k) == Mark(s, k, LockTtl)
ClearSpawning(s)        == Mark(s, None, 0)
GetSession(s)           == record[s]

-----------------------------------------------------------------------------
(* ExecutionService: one action per call a request makes.                  *)

Goto(c, step, time) == /\ pc' = [pc EXCEPT ![c] = step]
                       /\ left' = [left EXCEPT ![c] = time]

Call(c, step)  == Goto(c, step, StepDelay)
Aim(c, k)      == target' = [target EXCEPT ![c] = k]
Finish(c, how) == Goto(c, how, 0) /\ Aim(c, None)

(* What follows getOrSpawnTask, by entry point.                            *)
Proceed(c, k) ==
  \/ /\ op[c] = "warmUp"
     /\ Finish(c, "done") /\ UNCHANGED attempt
  \/ /\ op[c] = "submit"
     /\ Call(c, "fetchTest") /\ Aim(c, k) /\ UNCHANGED attempt
  \/ /\ op[c] = "run"
     /\ Goto(c, "forward", RequestTimeout) /\ Aim(c, k)
     /\ attempt' = [attempt EXCEPT ![c] = 1]

Start(c) ==
  /\ pc[c] = "new"
  /\ Call(c, "getSession")
  /\ UNCHANGED <<op, sid, target, attempt, redisVars, ecsVars, cleanupVars>>

LookUp(c) ==
  /\ pc[c] = "getSession"
  /\ LET k == GetSession(sid[c])
     IN  Call(c, IF k = None THEN "tryLock" ELSE "health") /\ Aim(c, k)
  /\ UNCHANGED <<op, sid, attempt, redisVars, ecsVars, cleanupVars>>

(* The tasks that answer at the address the caller holds.                  *)
Listening(c) == {k \in Task : status[k] = "running" /\ ip[k] = ip[target[c]]}

HealthOk(c) ==
  /\ pc[c] = "health" /\ Listening(c) # {}
  /\ Proceed(c, target[c])
  /\ UNCHANGED <<op, sid, redisVars, ecsVars, cleanupVars>>

HealthFails(c) ==
  /\ pc[c] = "health"
  /\ Call(c, "deleteStale") /\ Aim(c, None)
  /\ UNCHANGED <<op, sid, attempt, redisVars, ecsVars, cleanupVars>>

DeleteStale(c) ==
  /\ pc[c] = "deleteStale"
  /\ DeleteSession(sid[c])
  /\ Call(c, "tryLock")
  /\ UNCHANGED <<op, sid, target, attempt, ecsVars, cleanupVars>>

TryMarkSpawning_NoTtl(c) ==
  /\ pc[c] = "tryLock" /\ lock[sid[c]] = None
  /\ Mark(sid[c], Pending, 0)
  /\ Call(c, "runTask")
  /\ UNCHANGED <<op, sid, target, attempt, ecsVars, cleanupVars>>

TryMarkSpawning(c) ==
  /\ pc[c] = "tryLock" /\ lock[sid[c]] = None
  /\ Mark(sid[c], Pending, LockTtl)
  /\ Call(c, "runTask")
  /\ UNCHANGED <<op, sid, target, attempt, ecsVars, cleanupVars>>

LoseSpawnRace(c) ==
  /\ pc[c] = "tryLock" /\ lock[sid[c]] # None
  /\ Goto(c, "awaitSpawn", SpawnTimeout)
  /\ UNCHANGED <<op, sid, target, attempt, redisVars, ecsVars, cleanupVars>>

RunTask(c, k) ==
  /\ pc[c] = "runTask" /\ status[k] = "unused"
  /\ status' = [status EXCEPT ![k] = "pending"]
  /\ owner' = [owner EXCEPT ![k] = sid[c]]
  /\ Call(c, "updateArn") /\ Aim(c, k)
  /\ UNCHANGED <<op, sid, attempt, ip, age, redisVars, cleanupVars>>

(* runTask returns no task: ECS has no capacity.                           *)
NoCapacity(c) ==
  /\ pc[c] = "runTask"
  /\ Call(c, "unlock") /\ Aim(c, None)
  /\ UNCHANGED <<op, sid, attempt, redisVars, ecsVars, cleanupVars>>

UpdateArn(c) ==
  /\ pc[c] = "updateArn"
  /\ UpdateSpawningArn(sid[c], target[c])
  /\ Goto(c, "waitRunning", SpawnTimeout)
  /\ UNCHANGED <<op, sid, target, attempt, ecsVars, cleanupVars>>

SeeRunning(c) ==
  /\ pc[c] = "waitRunning" /\ status[target[c]] = "running"
  /\ Call(c, "setSession")
  /\ UNCHANGED <<op, sid, target, attempt, redisVars, ecsVars, cleanupVars>>

(* STOPPED is reported at the next poll, the deadline when the time is up. *)
GiveUpSpawn(c) ==
  /\ pc[c] = "waitRunning"
  /\ left[c] = 0 \/ status[target[c]] = "stopped"
  /\ Call(c, "unlock") /\ Aim(c, None)
  /\ UNCHANGED <<op, sid, attempt, redisVars, ecsVars, cleanupVars>>

Register(c) ==
  /\ pc[c] = "setSession"
  /\ SetSession(sid[c], target[c])
  /\ Call(c, "unlock")
  /\ UNCHANGED <<op, sid, target, attempt, ecsVars, cleanupVars>>

Unlock(c) ==
  /\ pc[c] = "unlock"
  /\ ClearSpawning(sid[c])
  /\ IF target[c] = None THEN Finish(c, "error") /\ UNCHANGED attempt
                         ELSE Proceed(c, target[c])
  /\ UNCHANGED <<op, sid, ecsVars, cleanupVars>>

AwaitSeesSession(c) ==
  /\ pc[c] = "awaitSpawn" /\ GetSession(sid[c]) # None
  /\ Proceed(c, GetSession(sid[c]))
  /\ UNCHANGED <<op, sid, redisVars, ecsVars, cleanupVars>>

AwaitTimesOut_NewDeadline(c) ==
  /\ pc[c] = "awaitSpawn" /\ left[c] = 0
  /\ Goto(c, "awaitSpawn", SpawnTimeout)
  /\ UNCHANGED <<op, sid, target, attempt, redisVars, ecsVars, cleanupVars>>

AwaitTimesOut(c) ==
  /\ pc[c] = "awaitSpawn" /\ left[c] = 0
  /\ Finish(c, "error")
  /\ UNCHANGED <<op, sid, attempt, redisVars, ecsVars, cleanupVars>>

FetchHiddenTest(c) ==
  /\ pc[c] = "fetchTest"
  /\ Goto(c, "forward", RequestTimeout)
  /\ attempt' = [attempt EXCEPT ![c] = 1]
  /\ UNCHANGED <<op, sid, target, redisVars, ecsVars, cleanupVars>>

SandboxAnswers(c) ==
  /\ pc[c] = "forward" /\ Listening(c) # {}
  /\ Call(c, "refresh")
  /\ UNCHANGED <<op, sid, target, attempt, redisVars, ecsVars, cleanupVars>>

SandboxUnreachable_OneMore(c) ==
  /\ pc[c] = "forward"
  /\ IF attempt[c] <= Attempts
     THEN /\ Goto(c, "forward", RequestTimeout)
          /\ attempt' = [attempt EXCEPT ![c] = @ + 1]
     ELSE Call(c, "evict") /\ UNCHANGED attempt
  /\ UNCHANGED <<op, sid, target, redisVars, ecsVars, cleanupVars>>

(* An IOException: refused, reset, no answer within the timeout, or an     *)
(* answer that does not parse.                                             *)
SandboxUnreachable(c) ==
  /\ pc[c] = "forward"
  /\ IF attempt[c] < Attempts
     THEN /\ Goto(c, "forward", RequestTimeout)
          /\ attempt' = [attempt EXCEPT ![c] = @ + 1]
     ELSE Call(c, "evict") /\ UNCHANGED attempt
  /\ UNCHANGED <<op, sid, target, redisVars, ecsVars, cleanupVars>>

Evict(c) ==
  /\ pc[c] = "evict"
  /\ DeleteSession(sid[c])
  /\ Call(c, "refresh")
  /\ UNCHANGED <<op, sid, target, attempt, ecsVars, cleanupVars>>

Refresh(c) ==
  /\ pc[c] = "refresh"
  /\ RefreshTtl(sid[c])
  /\ Finish(c, "done")
  /\ UNCHANGED <<op, sid, attempt, ecsVars, cleanupVars>>

(* A Redis, ECS or S3 call throws.  Inside doSpawn the finally clause      *)
(* still runs; anywhere else, clearSpawning included, the request ends.    *)
(* A task started and not yet registered is left running.  (An answer lost *)
(* after its effect is the call itself, followed by this or by Crash.)     *)
CallThrows(c) ==
  /\ pc[c] \notin Settled \cup {"health", "forward"}
  /\ IF pc[c] \in Spawning \ {"unlock"} THEN Call(c, "unlock") /\ Aim(c, None)
                                        ELSE Finish(c, "error")
  /\ UNCHANGED <<op, sid, attempt, redisVars, ecsVars, cleanupVars>>

(* The backend process dies: nothing more of the request runs.             *)
Crash(c) ==
  /\ pc[c] \notin Settled
  /\ Finish(c, "error")
  /\ UNCHANGED <<op, sid, attempt, redisVars, ecsVars, cleanupVars>>

Progress(c) ==
  \/ LookUp(c) \/ HealthOk(c) \/ HealthFails(c) \/ DeleteStale(c)
  \/ TryMarkSpawning(c) \/ LoseSpawnRace(c) \/ \E k \in Task : RunTask(c, k)
  \/ NoCapacity(c) \/ UpdateArn(c) \/ SeeRunning(c) \/ GiveUpSpawn(c) \/ Register(c) \/ Unlock(c)
  \/ AwaitSeesSession(c) \/ AwaitTimesOut(c) \/ FetchHiddenTest(c)
  \/ SandboxAnswers(c) \/ SandboxUnreachable(c) \/ Evict(c) \/ Refresh(c)

-----------------------------------------------------------------------------
(* TaskCleanupService.stopOrphanedTasks.  getActiveTaskArns asks Redis     *)
(* four times: for the session keys, their values, the spawning keys and   *)
(* their values.  batch is in turn the tasks those values name, the        *)
(* candidates that are old enough, and the tasks still to be stopped.      *)

NextPhase(p)  == phase' = p /\ phaseLeft' = StepDelay
EndCleanup(n) == phase' = "idle" /\ phaseLeft' = n /\ keys' = {} /\ batch' = {}

Recorded == {record[s] : s \in Session} \ {None}
Live     == {k \in Task : status[k] \in {"pending", "running"}}

SessionKeys ==
  /\ phase = "idle" /\ phaseLeft = 0
  /\ keys' = {s \in Session : record[s] # None}
  /\ NextPhase("getRecords")
  /\ UNCHANGED <<batch, callerVars, redisVars, ecsVars>>

GetRecords ==
  /\ phase = "getRecords"
  /\ batch' = {record[s] : s \in keys} \ {None}
  /\ NextPhase("spawningKeys")
  /\ UNCHANGED <<keys, callerVars, redisVars, ecsVars>>

SpawningKeys ==
  /\ phase = "spawningKeys"
  /\ keys' = {s \in Session : lock[s] # None}
  /\ NextPhase("getLocks")
  /\ UNCHANGED <<batch, callerVars, redisVars, ecsVars>>

GetLocks_Replaces ==
  /\ phase = "getLocks"
  /\ batch' = {lock[s] : s \in keys} \ {None, Pending}
  /\ NextPhase("list")
  /\ UNCHANGED <<keys, callerVars, redisVars, ecsVars>>

GetLocks ==
  /\ phase = "getLocks"
  /\ batch' = batch \cup ({lock[s] : s \in keys} \ {None, Pending})
  /\ NextPhase("list")
  /\ UNCHANGED <<keys, callerVars, redisVars, ecsVars>>

OldEnough_AfterSpawn(k) == k \in Undated \/ age[k] > SpawnTimeout

(* Created before the cutoff, or nobody knows when.                        *)
OldEnough(k) == k \in Undated \/ age[k] >= MinTaskAge

(* The cutoff is taken here, before describeTasks tells when the           *)
(* candidates were created.                                                *)
ListTasks ==
  /\ phase = "list"
  /\ \/ /\ Live \subseteq batch
        /\ EndCleanup(CleanupDelay)
     \/ /\ ~(Live \subseteq batch)
        /\ batch' = {k \in Live \ batch : OldEnough(k)}
        /\ NextPhase("describe") /\ UNCHANGED keys
  /\ UNCHANGED <<callerVars, redisVars, ecsVars>>

DescribeTasks ==
  /\ phase = "describe"
  /\ NextPhase("stop")
  /\ UNCHANGED <<keys, batch, callerVars, redisVars, ecsVars>>

StopTask(k) ==
  /\ phase = "stop" /\ k \in batch
  /\ status' = [status EXCEPT ![k] = "stopped"]
  /\ batch' = batch \ {k}
  /\ NextPhase("stop")
  /\ UNCHANGED <<owner, ip, age, keys, callerVars, redisVars>>

StopFails(k) ==
  /\ phase = "stop" /\ k \in batch
  /\ batch' = batch \ {k}
  /\ NextPhase("stop")
  /\ UNCHANGED <<keys, callerVars, redisVars, ecsVars>>

CleanupDone ==
  /\ phase = "stop" /\ batch = {}
  /\ EndCleanup(CleanupDelay)
  /\ UNCHANGED <<callerVars, redisVars, ecsVars>>

(* A read, list or describe call throws: this run of the job is over.      *)
CleanupThrows ==
  /\ phase \notin {"idle", "stop"}
  /\ EndCleanup(CleanupDelay)
  /\ UNCHANGED <<callerVars, redisVars, ecsVars>>

(* The backend is restarted: the job starts over, with no initial delay.   *)
CleanupRestarts ==
  /\ phase # "idle" \/ phaseLeft > 0
  /\ EndCleanup(0)
  /\ UNCHANGED <<callerVars, redisVars, ecsVars>>

-----------------------------------------------------------------------------
(* ECS: a task gets an address when it comes up, and may stop by itself.   *)

FreeIps == {i \in Ip : \A k \in Task : ip[k] = i => IpReuse /\ status[k] # "running"}

TaskUp(k) ==
  /\ status[k] = "pending"
  /\ \E i \in FreeIps : ip' = [ip EXCEPT ![k] = i]
  /\ status' = [status EXCEPT ![k] = "running"]
  /\ UNCHANGED <<owner, age, callerVars, redisVars, cleanupVars>>

TaskStops(k) ==
  /\ k \in Live
  /\ status' = [status EXCEPT ![k] = "stopped"]
  /\ UNCHANGED <<owner, ip, age, callerVars, redisVars, cleanupVars>>

Dec(n) == IF n = 0 THEN 0 ELSE n - 1

Tick ==
  /\ \A c \in Caller : pc[c] \notin Settled => left[c] > 0
  /\ phase # "idle" => phaseLeft > 0
  /\ left' = [c \in Caller |-> Dec(left[c])]
  /\ phaseLeft' = Dec(phaseLeft)
  /\ record' = [s \in Session |-> IF recordTtl[s] = 1 THEN None ELSE record[s]]
  /\ recordTtl' = [s \in Session |-> Dec(recordTtl[s])]
  /\ lock' = [s \in Session |-> IF lockTtl[s] = 1 THEN None ELSE lock[s]]
  /\ lockTtl' = [s \in Session |-> Dec(lockTtl[s])]
  /\ age' = [k \in Task |-> IF k \in Live /\ age[k] < MinTaskAge THEN age[k] + 1 ELSE age[k]]
  /\ UNCHANGED <<pc, op, sid, target, attempt, status, owner, ip, phase, keys, batch>>

CleanupStep == \/ SessionKeys \/ GetRecords \/ SpawningKeys \/ GetLocks
               \/ ListTasks \/ DescribeTasks \/ CleanupDone
Ecs         == \E k \in Task : TaskUp(k) \/ TaskStops(k)

Next ==
  \/ \E c \in Caller : Start(c) \/ Progress(c) \/ CallThrows(c) \/ Crash(c)
  \/ CleanupStep \/ CleanupThrows \/ CleanupRestarts
  \/ \E k \in Task : StopTask(k) \/ StopFails(k)
  \/ Ecs
  \/ Tick

Spec == Init /\ [][Next]_vars

(* Threads are scheduled and every blocking call has a timeout, so a       *)
(* request that can go on does; time passes, whatever the backend does; the *)
(* scheduler runs the job again and again, and no call of it fails for     *)
(* ever, nor is it for ever cut short by a restart.  Nothing is assumed of *)
(* ECS, of the users or of crashed requests.                               *)
Fairness ==
  /\ \A c \in Caller : WF_vars(Progress(c))
  /\ SF_vars(Tick)
  /\ WF_vars(SessionKeys) /\ WF_vars(CleanupDone)
  /\ SF_vars(GetRecords) /\ SF_vars(SpawningKeys) /\ SF_vars(GetLocks)
  /\ SF_vars(ListTasks) /\ SF_vars(DescribeTasks)
  /\ \A k \in Task : SF_vars(StopTask(k))

FairSpec == Spec /\ Fairness

-----------------------------------------------------------------------------
(* Properties.                                                             *)

(* At most one caller of a session is between tryMarkSpawning and          *)
(* clearSpawning: the unconditional SET of updateSpawningArn and DEL of    *)
(* clearSpawning never touch a lock somebody else holds, because the lock  *)
(* outlives the longest spawn (ExecutionService.spawnAndRegister).         *)
SpawnMutex ==
  \A c, d \in Caller :
    pc[c] \in Spawning /\ pc[d] \in Spawning /\ sid[c] = sid[d] => c = d

(* What the clean-up is about to stop is neither a task some session       *)
(* record names nor one a caller is about to register, although its two    *)
(* Redis reads and its listing happen at different moments                 *)
(* (TaskCleanupService.stopOrphanedTasks).  It can tell only of tasks that *)
(* ECS dates: one without createdAt is stopped at any age (line 87).       *)
CleanupSparesSessions ==
  phase = "stop" =>
    \A k \in batch \ Undated :
      /\ k \notin Recorded
      /\ \A c \in Caller : pc[c] \in Registering => target[c] # k

(* The code of a request runs in a task started for its own session,       *)
(* whichever of the three ways it got the address, as long as that task    *)
(* runs: a foreign one can answer only once the request's own has stopped  *)
(* and ECS has handed its address out again (ExecutionService.             *)
(* forwardToSandbox checks no identity; its lines 417-418 on reuse).       *)
ServedByOwnTask ==
  \A c \in Caller : pc[c] = "forward" =>
    \A k \in Listening(c) :
      owner[k] = sid[c] \/ (IpReuse /\ status[target[c]] = "stopped")

(* Every request that starts ends with an answer or an error: nobody waits *)
(* for ever for a spawn that failed or whose owner died.                   *)
EveryRequestEnds ==
  \A c \in Caller : pc[c] = "getSession" ~> pc[c] \in {"done", "error"}

(* A spawn lock is free again in the end, also when its owner dies or      *)
(* clearSpawning fails.                                                    *)
LockEventuallyFree == \A s \in Session : lock[s] # None ~> lock[s] = None

(* Every task that was started is stopped in the end, also one that was    *)
(* never registered, or whose record was overwritten or evicted.           *)
TasksTerminate == \A k \in Task : status[k] \in {"pending", "running"} ~> status[k] = "stopped"

(* The places from a request's lookup to its address, backwards.           *)
Place == [unlock |-> 0, awaitSpawn |-> 0, setSession |-> 1, waitRunning |-> 2, updateArn |-> 3,
          runTask |-> 4, tryLock |-> 5, deleteStale |-> 6, health |-> 7, getSession |-> 8]

(* The most steps of a request from this one on, in its n-th attempt at    *)
(* the sandbox.                                                            *)
StepsFrom(step, n) ==
  IF step \in DOMAIN Place THEN Place[step] + Attempts + 4
  ELSE IF step = "fetchTest" THEN Attempts + 3
  ELSE IF step = "forward" THEN Attempts - n + 3
  ELSE IF step = "evict" THEN 2 ELSE IF step = "refresh" THEN 1 ELSE 0

(* The longest they take after this one: at most one of them is the wait   *)
(* for the task, the others are calls and the attempts.                    *)
TimeAfter(step, n) ==
  IF step \in DOMAIN Place
  THEN (Place[step] + 3) * StepDelay + Attempts * RequestTimeout
       + (IF Place[step] >= 3 THEN SpawnTimeout - StepDelay ELSE 0)
  ELSE IF step = "fetchTest" THEN Attempts * RequestTimeout + 2 * StepDelay
  ELSE IF step = "forward" THEN (Attempts - n) * RequestTimeout + 2 * StepDelay
  ELSE IF step = "evict" THEN StepDelay ELSE 0

TimeLeft(c) == left[c] + TimeAfter(pc[c], attempt[c])

(* A request ends within a time and a number of steps set when it starts:  *)
(* no step of it or of anybody else gives it more, and its share shrinks   *)
(* with every unit of time and with every step it takes.  The losers of a  *)
(* spawn race, the retries and the clean-up of a failed spawn are in it    *)
(* (ExecutionService.getOrSpawnTask, forwardToSandbox).                    *)
EndsInTime ==
  [][\A c \in Caller : pc[c] \notin Settled =>
       /\ TimeLeft(c)' <= TimeLeft(c) - (IF Tick THEN 1 ELSE 0)
       /\ \/ pc'[c] = pc[c] /\ attempt'[c] = attempt[c]
          \/ StepsFrom(pc[c], attempt[c])' < StepsFrom(pc[c], attempt[c])]_vars

(* ExecutionService.java:224: callers racing for a session do not start    *)
(* two tasks: nobody is starting one while the session has a live task.    *)
OneTaskPerSession ==
  \A c \in Caller :
    pc[c] \in Registering /\ record[sid[c]] # None => record[sid[c]] \notin Live

(* ExecutionService.java:205: the health probe catches a dead session.     *)
ProbeCatchesDeadTask ==
  [][\A c \in Caller : HealthOk(c) => status[target[c]] = "running"]_vars

(* README.md:55: a task stays alive for the duration of the session and    *)
(* ends after inactivity: never while a request is running in it.          *)
BusyTaskNotStopped ==
  [][\A c \in Caller : pc[c] = "forward" => ~StopTask(target[c])]_vars

-----------------------------------------------------------------------------
(* The inductive invariant behind the three safety properties.             *)

(* The longest a spawning caller still holds its lock without writing it.  *)
LockNeed(c) ==
  left[c] + (IF pc[c] \in {"runTask", "waitRunning"} THEN 2 * StepDelay
             ELSE IF pc[c] \in {"updateArn", "setSession"} THEN StepDelay
             ELSE 0)

(* The lock of a spawning caller is there and outlives what it is needed   *)
(* for.                                                                    *)
LockOutlivesSpawn ==
  \A c \in Caller :
    pc[c] \in Spawning => lock[sid[c]] # None /\ lockTtl[sid[c]] > LockNeed(c)

(* The oldest a task can be at each step before it is registered.          *)
AgeLimit(step) ==
  (IF step = "setSession" THEN 2 * StepDelay ELSE StepDelay)
  + (IF step = "updateArn" THEN 0 ELSE SpawnTimeout)

(* A task on its way to its record is the caller's own, and young.         *)
Underway ==
  \A c \in Caller :
    pc[c] \in Registering =>
      /\ target[c] \in Task /\ status[target[c]] # "unused"
      /\ age[target[c]] + left[c] <= AgeLimit(pc[c])

InUse(k) == \/ k \in Recorded
            \/ \E c \in Caller : pc[c] \in Registering /\ target[c] = k

(* The oldest a task in use can be when the snapshot does not name it:     *)
(* it was registered after the keys were read, calls ago.                  *)
MissedAge(calls) == 2 * StepDelay + SpawnTimeout + calls * StepDelay - phaseLeft

KeysMissOnlyYoung ==
  phase = "getRecords" =>
    \A s \in Session \ keys : record[s] # None => age[record[s]] <= MissedAge(1)

SnapshotMissesOnlyYoung ==
  /\ phase # "idle" => phaseLeft <= StepDelay
  /\ phase = "spawningKeys" => \A k \in Task \ batch : InUse(k) => age[k] <= MissedAge(2)
  /\ phase = "getLocks" => \A k \in Task \ batch : InUse(k) => age[k] <= MissedAge(3)
  /\ phase = "list" => \A k \in Task \ batch : InUse(k) => age[k] <= MissedAge(4)
  /\ phase \in {"describe", "stop"} =>
       \A k \in batch \ Undated : ~InUse(k) /\ OldEnough(k)

UnusedIsBlank == \A k \in Task : status[k] = "unused" => age[k] = 0 /\ ip[k] = None

SessionInv == /\ LockOutlivesSpawn
              /\ Underway
              /\ UnusedIsBlank
              /\ KeysMissOnlyYoung
              /\ SnapshotMissesOnlyYoung

(* What a record or a caller aims at is a task of that session; tasks get  *)
(* their address when they come up, and of two that had the same one has   *)
(* stopped.                                                                *)
OwnTaskInv ==
  /\ \A s \in Session : record[s] # None =>
       owner[record[s]] = s /\ ip[record[s]] # None
  /\ \A c \in Caller : target[c] # None =>
       /\ owner[target[c]] = sid[c]
       /\ pc[c] \in {"updateArn", "waitRunning"} \/ ip[target[c]] # None
  /\ \A c \in Caller : pc[c] \in Registering \cup {"health", "fetchTest", "forward"} =>
       target[c] # None
  /\ \A k \in Task : /\ status[k] = "running" => ip[k] # None
                     /\ status[k] \in {"unused", "pending"} => ip[k] = None
  /\ \A k, l \in Task : ip[k] = ip[l] /\ ip[k] # None =>
       k = l \/ (IpReuse /\ "stopped" \in {status[k], status[l]})
=============================================================================
