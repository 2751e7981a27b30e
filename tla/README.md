# TLA+ models of the interview platform

The platform lets a candidate open a programming problem, edit it in the
browser, run and submit the code in a container of their own, and answer an
interviewer; an admin has new problems generated by an LLM worker and built
into container images.  This directory holds TLA+ models of the parts whose
correctness depends on the order of events, the TLC runs that check them on
small instances, and TLAPS proofs for all instances.  `PROJECT.json` is the
index: components, runs, mutants, the source lines of every definition,
findings, hazards and theorems.

## 1. Inventory

Paths: PB = `src/platform-backend_service/src/main/java/com/interview/mainservice`,
AB = `src/admin-backend/src/main/java/com/interview/admin`,
CG = `src/platform-codegen`, EV = `src/platform-eval`,
UI = `src/platform-ui/src/features/workspace`.

| Part | State it keeps | Operations | What is hard | What makes it correct |
|---|---|---|---|---|
| **Execution sessions** PB `service/ExecutionService`, `repository/SessionRepository`, `controller/Run`+`SubmitController` | Redis keys `fargate:session:<user_problem>` (address, task ARN; TTL 600 s) and `fargate:spawning:<user_problem>` (`pending` or the ARN; TTL 100 s); ECS tasks | run, submit, warm-up: look up, probe, lock, runTask, wait, register, unlock, forward, evict, refresh | each call interleaves with those of other requests, TTLs run out, tasks die, addresses are reused, the process dies | one spawner per session; code runs in the session's own task; every request ends; no lock stays |
| **Orphan clean-up** PB `scheduler/TaskCleanupService` | none of its own (a snapshot per run) | every 120 s: read Redis (4 calls), list, describe, stop | the snapshot is stale when it is used | stops no task in use; stops every other one in the end |
| **Sandbox runner** `src/admin-backend/src/main/resources/sandbox-runner/main.go` | files and test reports under /app | /health, /execute | requests share /app | a request's reports are its own |
| **Generation jobs** AB `service/GenerationService`, `messaging/*` | table `generation_jobs`; two RabbitMQ queues | preview, refine, approve, cancel, retry, result | read-then-save without a version, results late, twice or lost, save-then-publish | a cancelled job stays cancelled; one problem per job; no job waits for nobody |
| **Problems and image build** AB `service/ProblemManagementService`, `DockerImageService` | table `problems`, S3 scaffold, ECR image | create from job, publish, edit, delete, build with retry and recover | a long asynchronous build against edits | what is published has a pushed image; an unpublished problem has somebody at work on it; only healthy images are pushed |
| **Codegen worker** CG `infrastructure/consumer`, `storage`, `services/scaffold_generator` | Redis checkpoints, S3 uploads, in-process upload tracker | design preview, full generation (steps with checkpoints and a compile loop), rollback, publish | redelivery, overlap of two runs, crash between steps, rollback against checkpoints | what a result names is there; a failed job leaves nothing; what is kept passed what its language checks; every request is answered |
| **Evaluation sessions** EV `services/session_manager`, `eval_core`, `steering`, `api/routes` | the interview session: stage, turns, scores | submit code, answer, get | load - LLM call - save; turn cap; retries | no more questions than the budget, but for what overlapping saves undo; a closed session does not change |
| **Session store** EV `infrastructure/store`, `cache` | Postgres row and Redis copy | save, load | write-through without atomicity, outages | answered turns stay; the cache is never ahead of Postgres |
| **Workspace and drafts** UI `components/Workspace.tsx`, PB `service/DraftService` | editor state, hash of the last save; table `drafts` | autosave, run, submit, reset, continue, start over | requests in flight, out of order, against deletion | what counts as saved is stored; deleted work stays deleted; edits get saved |
| **JUnit reports** PB `testreport/*` | none | parse | formats | status agrees with the report |
| Accounts, catalogue, history, UIs, deployment | rows, tokens | single-row reads and writes | - | - |

Interactions.  The workspace calls the platform backend over REST
(warm-up on open, run, submit, drafts).  The backend talks to Redis, ECS, S3
and, over HTTP, to the sandbox runner inside the task.  The admin backend
sends requests to the codegen worker and gets results over two RabbitMQ
queues, calls ProblemManagementService for a full result, and that starts
DockerImageService asynchronously.  The evaluation service is called over REST
and keeps its sessions in Postgres and Redis.

Where each part can go wrong is in `PROJECT.json` under `hazards`, by line.

## 2. Plan

1. **FargateSessions** (done, with proofs): execution sessions, the spawn lock and the
   orphan clean-up as one specification, since their correctness is in how
   they share Redis and ECS; `FargateSessions_proofs`.
2. **GenerationJobs** (done, with proofs): the job table, the two queues,
   concurrent admin requests and results, retries.  **Codegen** (done, with
   proofs): message handling, the generation pipeline with its retry loops,
   checkpoints, uploads, rollback, redelivery, the HTTP endpoint beside it.
   **WorkerPromise** (done): what GenerationJobs assumes of its worker and
   Codegen implements.
3. **EvalSession** (done, with proofs): the stages, the turn budget and
   concurrent requests around the LLM call, on a store of one value.
   **SessionStore** (done, with proofs): Postgres and Redis under failures.
4. **Drafts** (done, with proofs): the workspace's draft with its requests in
   flight, and DraftService.
5. **Problems** (done, with proofs): problems and their slugs, the image builds
   with retry and rollback, the admins' edits.
6. Left: a liveness property for Codegen on an instance without the HTTP
   thread; the tracker and rollback of Codegen with two consumers; the
   interview on SessionStore instead of one value.

## 3. FargateSessions

### State and actions

| Variables | In the code |
|---|---|
| `pc, op, sid, target, attempt` | where a request's thread is, its kind, its session id, the address it holds, the loop counter of `forwardToSandbox` |
| `left` | how long it may still stay there |
| `record, recordTtl` | `fargate:session:*` and its TTL; a record is a task, its address is `ip[record[s]]` |
| `lock, lockTtl` | `fargate:spawning:*` and its TTL |
| `status, owner, ip, age` | the ECS tasks (external) |
| `phase, keys, batch, phaseLeft` | the run of `stopOrphanedTasks` in progress |

One action is one call to Redis, ECS, S3 or the sandbox, with the local code up
to the next one: `LookUp`, `HealthOk`/`HealthFails`, `DeleteStale`,
`TryMarkSpawning`/`LoseSpawnRace`, `RunTask`/`NoCapacity`, `UpdateArn`,
`SeeRunning`/`GiveUpSpawn`, `Register`, `Unlock`,
`AwaitSeesSession`/`AwaitTimesOut`, `FetchHiddenTest`,
`SandboxAnswers`/`SandboxUnreachable`, `Evict`, `Refresh`.  `CallThrows` is any
of these calls failing (the `finally` of `spawnAndRegister` runs), `Crash` the
process dying.  A call whose effect happened but whose answer was lost is the
call followed by one of those two.  A crash of one caller at a time contains
the crash of all.  The clean-up has one action per call; `CleanupThrows` is a
call failing, `CleanupRestarts` the restart of the process.  `TaskUp` and
`TaskStops` are ECS.

Abstractions: `RunTask` covers `resolveTaskDefinition` and runTask; a poll loop
is enabled whenever what it polls for holds, and ends at its deadline; the pages
of listTasks and the batches of describeTasks are one step; a sandbox answer
other than 200 is an answer (the code refreshes the TTL then too), one that does
not parse is an IOException, so a failed attempt; `Undated` are the tasks ECS
describes without a creation time, which the clean-up stops at any age
(TaskCleanupService:87); warm-up shares the path of a
run, its exception only being logged; what a request computes is left out.

### Time

`Tick` passes one unit.  It waits for everybody whose `left` is 0, so `left` is
an upper bound: a call takes at most `StepDelay`, a spawn wait `SpawnTimeout`
(the 90 s deadline and the last poll), a POST `RequestTimeout`.  The properties
need two relations of the code's constants, stated as assumptions:

* `LockMargin`: the lock's TTL (100 s) exceeds the wait (90 s) by two calls.
  The lock is written again right after runTask, so what it must outlive is
  the wait, setSession and clearSpawning.  A second conjunct covers a failing
  write (three calls).  With real numbers a call has to take less than 5 s.
* `AgeMargin`: the minimum age (3 min) exceeds the wait by six calls: runTask to
  setSession around the wait, and the clean-up's four reads before its cutoff.

Neither is enforced in code (an SDK call may take longer); they say how far the
constants protect.  The proofs found that the 2nd conjunct of `LockMargin` is
needed, and that the clean-up's read of the spawning keys is not needed for
`CleanupSparesSessions`: the minimum age alone covers the spawning tasks.

### Runs

| Run | Instance | Shows |
|---|---|---|
| `fargate_timing` | 2 submits, 1 session, 2 tasks, 1 reused address; call delay 1, wait 1, 2 attempts of 1, lock 4, age 8: both margins as tight as the assumptions allow | type invariant, `SpawnMutex`, `CleanupSparesSessions`, `EndsInTime` |
| `fargate_isolation` | 2 callers, 2 sessions, 2 tasks, one of them undated, 2 addresses that may be handed out again, all kinds of requests | `ServedByOwnTask`: a foreign task answers only after the request's own has stopped; `CleanupSparesSessions` for registered tasks older than the minimum age |
| `fargate_liveness` | 2 callers, 1 session, 2 tasks, calls without delay | `EveryRequestEnds`, `LockEventuallyFree`, `TasksTerminate` |
| `fargate_double_spawn` | expected violation | a second task for a live session |
| `fargate_probe` | expected violation | the probe takes another session's task for a dead one |
| `fargate_busy_task` | expected violation | the clean-up stops a task while it runs a request |

Two callers and two tasks are enough for every race of the hazard list: each
involves one stale actor and one fresh one, or a caller and the clean-up.  Two
tasks allow a stale and a new one; a task is never started twice, so the number
of tasks bounds the spawns.  The liveness run uses warm-ups, which go through
the whole spawn protocol; a run or a submit adds only steps that end by their own
timeouts.  Deadlock checking is on: at the end time still passes.

Symmetry is used in the runs of invariants and of action properties, not for
liveness, and not between tasks where one is undated.

`CleanupSparesSessions` speaks of the tasks ECS dates: of an undated one nothing
tells the clean-up how young it is, and one that is about to be registered may
be stopped.  The liveness run has an undated task too.

`ServedByOwnTask` says how far the missing identity check can go.  ECS hands
addresses out again, so a request may reach a foreign task (finding 2); the
property is that this takes the stop of the request's own task and the reuse of
its address: no lookup, probe, lock or wait leads a request to a foreign task in
any other way.

Fairness.  A request's thread is scheduled and every wait has a timeout, so
`Progress(c)` is weakly fair; so are the two steps that begin and end the job
(`@Scheduled`).  Time passes whatever the backend does: `Tick` is strongly fair,
which rules out infinitely many restarts within one unit of time.  The reads, the list
and describe calls and stopTask of a given task may fail or be cut short by a
restart, but not always: strong fairness.  Nothing is assumed of ECS, nor of
crashed requests; a request's start is not fair.

### Findings

1. `OneTaskPerSession` (ExecutionService:224-226 says two callers do not start
   two tasks for a session): the session is read before the lock is taken and
   not again under it.  A caller that saw nothing, then is overtaken by a whole
   spawn, gets the freed lock and spawns again; `setSession` overwrites the
   first record, and the clean-up stops the first task later.
2. `ProbeCatchesDeadTask` (ExecutionService:205): the probe only asks whether
   anybody answers at the address.  With address reuse, which the comment at
   line 417 describes, another session's task does.
3. `BusyTaskNotStopped` (`src/README.md:55`: the task stays for the session and
   ends after 10 minutes of inactivity): the TTL is refreshed after a request,
   not before it, so it may end during one.

### Proofs

`FargateSessions_proofs` holds seven theorems, for any number of callers,
sessions, tasks and addresses and any durations within the assumptions.

* `TypeCorrect`: `Spec => []TypeOK`.
* `SpawnersExclude`: `Spec => []SpawnMutex`.  `SpawnMutex` is not inductive:
  `UpdateArn` and `Unlock` write the lock without looking.  The invariant is
  `LockOutlivesSpawn`: the lock of a caller in a spawn has more TTL left than
  the longest the caller can go on before its next write or its end
  (`LockNeed`).  As time passes both shrink together, so the lock cannot expire
  under it, and nobody else can take it.
* `CleanupSafe`: `Spec => []CleanupSparesSessions`.  The invariant bounds the
  age of a task on its way to its record (`Underway`), then, for every phase of
  the clean-up, the age of the tasks in use that its snapshot missed
  (`KeysMissOnlyYoung`, `SnapshotMissesOnlyYoung`): they were registered after the
  keys were read.  At the cutoff they are younger than the minimum age, so only
  undated ones are stopped.
* `OwnTaskServes`: `Spec => []ServedByOwnTask`, whether addresses are reused or
  not, from `OwnTaskInv`: records and targets name tasks of their own session,
  and of two tasks at one address one has stopped (`Addresses`).
* `BoundsHold`, `OwnHolds`: the inductive invariants themselves, `SessionInv` and
  `OwnTaskInv`.
* `RequestsEndInTime`: `Spec => EndsInTime`, the counterpart in bounded time of
  `EveryRequestEnds`, which needs no fairness.  `TimeLeft` is the longest a request
  can still take, `StepsFrom` the number of its steps ahead; no step, of the request or of
  anybody else, raises the first, `Tick` lowers it, and each step of the request
  lowers the second.  With the code's constants (wait 90 s, line 72; two
  attempts of 90 s, lines 424 and 440) a request ends 270 s and a dozen calls
  after it starts.  What it does not say is that time passes: that is the
  fairness of the liveness run.

Each is Init / step / conclusion; the step has one lemma per group of actions
(callers, clean-up, ECS, time) and the lemmas `...Keeps...` say which actions
leave a part of the invariant alone.

Only model-checked: the three liveness properties (liveness under fairness and
ENABLED are outside the prover), and the three violations.

## 4. GenerationJobs

### State and actions

| Variables | In the code |
|---|---|
| `rows` | table `generation_jobs`: the status, and whether the row has a design, a result and a problem id |
| `made` | which job each problem was created from (ProblemManagementService) |
| `pc, op, job, copy, attempt` | an admin request: its step, its kind, its job, its copy of the row, the attempt of `@Retryable` |
| `requests, working` | `codegen-request-queue`; whether the worker has answered the message at its head but not acknowledged it |
| `results, handling, result` | `codegen-results-queue`; the step of `updateFromResult` for its head, and the listener's copy of the row |
| `faults, harmed` | not in the code: how many failures have happened (at most `MaxFaults`), and the jobs one of them left without its message |

`Read` is `findById` with the method's own checks and its changes to the copy;
`SaveJob` writes the whole row; `Publish` sends the message.  Between these
steps other requests and the listener run: the entity has no version column, so
the last save wins.  `SaveThrows` is a DataAccessException before or after the
commit, after which `@Retryable` runs the whole method again (a preview then
makes another row).  `PublishRepeats`, `AnswerRepeats`, `CreateRepeats` are calls
whose effect happened but whose answer was lost, so that they run again.
`AdminDies` is the process dying or the last attempt failing.

The worker (CG) is here only as a party to the protocol (section 6 is its own
model, and `WorkerPromise` what the two have in common): `Answer` publishes a
result, good or bad, `Ack` acknowledges, `AckFails` lets the request be delivered
again, `Nack` is the case where no result could be published.  The listener is
`IgnoreResult`, `TakeResult`, `SaveResult`, `CreateProblem`, `CreateFails`, `SaveFinal`;
`ResultLost` is an exception that `onResult` logs, after which the message is
acknowledged, `ListenerDies` a restart, after which it is delivered again.

Abstractions: designs, plans and results are Booleans (there or not); a new row
takes any unused job id; the images and slugs of problems are section 8, and the
deletion of a problem (which sets the job's problem id to null) is left out here.

### Runs

| Run | Instance | Shows |
|---|---|---|
| `generation` | 3 admin requests, 2 jobs, 2 problems, 2 attempts, 1 failure | `NobodyWaitsInVain`, `RowsHold`, `CompletedHasProblem`, `ProblemsOwned`, `CancelIsFinal`, `JobsSettle` |
| `generation_cancel` | 3 requests, 1 job, no failures; expected violation | a result overwrites a cancellation |

Three requests are what a race takes here: one that makes a job and two that
change it at the same time (approve against cancel, retry against retry).  Two
jobs let a retried preview leave its first row behind.  One failure at any
place shows which jobs it may harm.  Deadlock checking is off: each request is
made once and the system may then rest.

Fairness.  An admin request that has read its row goes on, since each of its
calls returns or throws; the worker goes on, since its LLM calls have timeouts
and bounded retries; the listener container delivers.  No admin has to make a
request, and no failure has to happen.

`CancelIsFinal` is stated for a job that nobody holds an earlier copy of; what
happens otherwise is the finding:

4. `CancelledIgnoresResults` (comment at GenerationService:153): the status is
   checked when the result is read, the row is written after createFromJob.  A
   cancel in between is overwritten with COMPLETED.

### Proofs

`GenerationJobs_proofs` proves, for any number of requests, jobs, problems,
attempts and failures, every property of the `generation` run but `JobsSettle`
(liveness).

* `TypeCorrect`, from `InOrder`: types, and a party that is in the middle of
  something has a job, or a message at the head of its queue.
* `RowsAlwaysHold`: `RowsHold` is inductive as it stands, because it speaks of the
  copies of admins and listener and of the requests under way too.
* `CompletedGetProblems`, from `OnTheWay`: an admin's copy is never completed (so
  saving it loses no result that is due), and the listener writes a completed
  row for good only with its problem.
* `NobodyLeftWaiting`: each step that ends one reason to wait begins the next
  (save, publish, answer, result) or takes the row out of progress; it needs
  `CancelsCancel` (what a cancel saves) and `SettlesRow` (what a result leaves).
* `ProblemsAreOwned`: `ProblemsOwned` speaks of the rows and of every copy in memory,
  so that a stale copy saved over a row brings in no other job's problem; with
  `InOrder` it is inductive.
* `CancelledStays`: a step property, from `InOrder` alone.

## 5. EvalSession

### State and actions

| Variables | In the code |
|---|---|
| `stored` | the session in the store (`SessionState`) |
| `pc, op, time` | a request's step, its kind, its `time_remaining_seconds` |
| `copy` | the session object the request works on |
| `asked, stale, lost` | not in the code: the questions put to the candidate, the requests whose session another has saved over, the saves of such a session |

`Check` is the route with its own look at the session; `Load` is `load_or_create`
when it finds one, with the handler's check and the time gate; `Create` the same when
it finds none, saving a new session over whatever is stored by then;
`EvaluateCode` and `EvaluateAnswer` are the LLM's reply worked into the copy;
`Persist` saves it; `Fail` is an exception that becomes a 404, 500 or 503.  The
endpoints are `def`, not `async def`: FastAPI runs them in a pool of threads, so
requests of one session overlap.  The request times are any, in any order, as the
caller sends them.

Abstractions: ratings are counted, so a report is what it covers, not its
weighted score; of the intents only CLOSE changes what happens, the others choose
wording and legal formats; whether a follow-up's format is legal is a free choice;
the store is the memory backend, whose load and save are atomic (section 7 has
the other one).  `MaxTurns`
compares integers where the code compares the ratio.

### Runs

| Run | Instance | Shows |
|---|---|---|
| `eval` | 4 requests, 2 focus areas, 2 turns (EASY), time left at, at twice and above three times the minimum | `TurnBudget`, `SessionsCoherent`, `ReportComplete`, `ClosedIsFinal` |

Four requests reach a submission, two answers and a refused or stale one beside
them, and use up the two turns.  The three times give both budgets of an EASY
problem and the gate.  Deadlock checking is off: each request is made once.
745 thousand states.

Nothing locks a session between load and save.  Two submissions at once evaluate
the same stage, each asks a question, and the save of the second undoes that of
the first, its question's count included: an interview may ask more questions
than its budget.  `TurnBudget` counts the questions the candidate really gets
(`asked`) and says how many: at most the budget as long as no request saves over
what was saved while it was at work, and one more budget for each that does.
Its second part is that no request asks beyond what its own time allows.  What
else is lost so (an open copy saved late takes away the report of a closed
session) is not a property, since the code does not prevent it; the others say
what is left whole.

The documents say that every follow-up passes the guardrail
(`documents/EVAL_ENGINE_DESIGN.md:16` and `:113`).  `handle_conversational_answer` does
not call it, so the model lets the follow-up of an answer be about an area outside
the blueprint (`Other`), and that area is scored.  No run asks for it: it takes one
step, and the code shows it.

### Proofs

`EvalSession_proofs` proves all five properties of the `eval` run for any number
of requests, areas and times and each difficulty.  `Sound` says of one session
that it is typed, within its budget, coherent and reported; one lemma per rule of
the session manager (`ClosedIsSound`, `AskedIsSound`, ...) says that the rule
keeps it.  The invariant `IInv` adds what a request knows while it waits: the copy
at the LLM is open, and an open copy about to be saved is within its time.
`AskedIsSound` is where each copy's budget is used: a question is asked only when
`turns < MaxTurns(t) <= Base`.  For the questions of the interview (`BudgetKept`) the
invariant is `AskedCounted`: all but `Base * lost` of them are counted in the stored
session, because a request nobody saved over holds exactly what is stored, with
its own question counted (`UpToDate`).  `SaveCounts` is the one step that matters: a
save by any other request loses at most the turns that were stored.

## 6. Codegen and WorkerPromise

### State and actions

| Variables | In the code |
|---|---|
| `queue, linked, sent, orders` | `codegen-request-queue`, the connection of the consumer, and what each request asks for |
| `results, dropped` | results published; requests nacked or of an unknown type |
| `tracker` | `StorageClient.tracked_uploads`, one list for the process |
| `store, leaked` | the objects of the two buckets, each with the run that wrote it; objects whose upload no tracker knows of |
| `cache, designs` | the Redis keys `codegen:skeleton`, `:delta`, `:checkpoint`, and the cached design of the HTTP request |
| `run` | for the consumer thread and the HTTP thread: the step of `generate`, the design, language, tier or scenario in hand, the skeletons, the attempt, the keys for the result |
| `faults` | not in the code: failures so far, at most `MaxFaults` |

The consumer: `Receive` (with `reset_tracker`), `Preview`, `Publish`, `Rollback` and
`RolledBack`, `Report`, `Settle` (ack or nack).  The pipeline, by both threads:
`ChooseDesign`, `Language`, `SkipTier`, `ReuseSkeleton`, `AskSkeleton`,
`CompileSkeleton`, `StartDeltas`, `ReuseDelta`, `AskDelta`, `CompileDelta`,
`StartAssembly`, `Assemble`, `CompileGold`, `UploadGold`, `UploadZip`, `Checkpoint`,
`Blueprints`, `Return`.  `ApiStart` is POST /admin/generate-golden-repo, which runs
the pipeline beside the consumer without a reset, a rollback or a result.
`Raise` is any call of `generate` failing.  Failures of the rest: `UploadLost` (S3
has the object, the call raises), `PublishFails`, `ReportFails`, `DeleteFails`,
`HeartbeatLost` (the handler blocks the connection; the message comes again),
`Crash`, `Expire`.

What a validation is worth depends on the language (`Checks`,
`compile_validator.py:31-134`): Java runs the tests or compiles them; Python only
byte-compiles; Node only installs its packages, the errors of tsc being logged
and no more.  `Passing` and `Failing` say which code can pass and which can fail each.
In no language do the hidden tests take part: they join the gold master when it
is uploaded (`storage.py:139`), and the step that puts the deltas together adds no test
files, so the tests of `run_tests=True` are those of the skeleton.  The comment at
`scaffold_generator.py:1719-1722` has "the full hidden test suite" run there.

The repair of Java text without the LLM succeeds or not.  A repaired skeleton or
gold master is kept as it was validated.  A repaired delta is not
(`scaffold_generator.py:1665-1678`): the files it changed in the skeleton go into the
skeleton in hand, and so into the scaffold ZIPs (1831-1844), which nobody
compiles without the delta; the cached skeleton stays as it was, and the delta is kept
without the change to its own file.  `Repaired` is both cases, and the
artifacts are marked as not validated.

Abstractions.  What the LLM writes is a quality: good, failing a test, not
compiling; each attempt picks any.  `Ask` is a call with its retries and its
correction loop: an answer of the right shape, or an exception.  Artifacts are
told apart by design and validity, so two skeletons of one design are the same.
When `generate` returns or raises its locals are gone (`Leave`, `Return`).  Tiers,
scenarios and languages come in a fixed order, and requests are named in the
order they are sent.  A call of the HTTP endpoint counts as a failure, to bound
how often it comes.

### Runs

`codegen`: a Java request for two tiers or a Node one of another design of the
same name, then a Java request for one tier, and an HTTP generation of one tier; one
scenario for each tier, one retry in each of the three loops, one failure
anywhere.  1.7 million states.  Java and Node are the two extremes of what is
checked; Python is between them and left to the proofs.
Two designs of one name are what the keys of the cache must tell apart and the
keys of S3 do not; two tiers let a run stop between two checkpoints; one retry
has the first, a repeated and the last attempt.  With one failure each property
meets each failure; their combinations are left to the proofs, which have no
bound.  Deadlock checking is off: when all is answered the worker rests.  There
is no property under fairness: with the second thread the temporal checking does
not fit the time.  `PipelineAdvances` says as a step property what ends a generation.

* `VerifiedArtifacts`: through three loops that count their attempts differently,
  what is cached or uploaded passed, in the form it has there, what its language
  checks.  It is not that gold masters pass their tests: that holds of Java only,
  and without the hidden ones.  The exception is the repaired Java delta, of
  which a delta in the cache and a scaffold may be left unvalidated, but never a
  cached skeleton, a checkpoint or a gold master.
* `OneDesign`: no run builds on another design's skeletons.
* `NoOrphans`: a request that failed leaves no object, whatever the endpoint did to
  the tracker, but for those no rollback could know of.
* `DoneObjectsSafe`: no step takes an object that another, completed request wrote
  last.
* `PayloadBacked`: what a result names is in the buckets when it is published.
* `PipelineAdvances`: each step of a generation leaves it or has less left to do, in
  an order on what is left of languages, tiers, scenarios and attempts.
* `ImplementsPromise`: the refinement.  `WorkerPromise` has a queue, results and
  given-up requests, and lets a request leave the queue only when a result for
  it is out or when it is given up; `queue` of Codegen is its `requests`.

`PayloadBacked` speaks of the keys the result names.  A retry of a request skips a
tier that has a checkpoint and names nothing for it, though the rollback of the
earlier run has deleted its uploads and only its checkpoint is left: a COMPLETED
result may then lack that tier (hazard at `scaffold_generator.py:1374`).

### Proofs

`Codegen_proofs` proves all eight properties of the run, for any number of
requests, designs, languages, tiers, scenarios, retries and failures, including
the refinement.  Three invariants, one after the other, and a measure:

* `Working`: types; what a thread has in hand at each step (`Fit`); what is in the
  buckets and in the cache passed its validation or is of a repaired delta, and
  is cached under its own design's key (`StoreSound`, `CacheSound`); so for the
  skeletons in hand, as they go into the scaffolds.  It gives `TypesHold`,
  `OnlyVerified`, `RunsKeepToTheirDesign`.
* `Books`: every object of a request belongs to a completed one, is leaked, or is in
  the tracker of the job in hand (`Accounted`); while a job owns the tracker, what
  is in it was written by the job or by the endpoint (`Tracked`); which kinds of
  request are at which step (`Kinds`).  It gives `FailuresLeaveNothing`,
  `RollbacksSpareTheOthers` and, with `Working`, `WorkerKeepsItsPromise`.
* `Named`: what the run has noted for its result is in the buckets, but for the zips
  still to be uploaded of the tier in hand.  The endpoint only ever adds objects
  (`StoreGrows`), and the only rollback is the consumer's own.  It gives
  `ResultsNameWhatIsThere`.

* `GenerationEnds` proves `PipelineAdvances`: the measure is lexicographic (phase,
  languages to do, tiers or scenarios to do, step of the item, attempts), with
  `Fit` from `Working` for what a step has in hand.  The sets of languages, tiers
  and tags are finite, as the requests' lists are, so no generation goes on for ever
  unless a call of it hangs (hazard at `compile_validator.py:70`); the step from
  the measure to termination is not stated as a theorem, as it needs fairness.

The proof of a step is one lemma per action, in the order of the module.

## 7. SessionStore and Drafts

Two stores of a candidate's work.  They share nothing; `MCStores` checks both in
one run, a behaviour being of the one or of the other.

### SessionStore

| Variables | In the code |
|---|---|
| `row`, `hot` | the row of `eval_sessions`, the entry of `eval:session:*` |
| `step, kind, phase, copy` | a request's step within load and save, its endpoint, whether it is in the route's check, the handler's load, the save of a created session or the save of its turn, and the session in its hands |
| `saved, kept, spoilt` | not in the code: every session there was in the row, the turns the candidate got an answer to, and whether one of the three things below happened |

`Get`, `Select`, `Warm` are `load`, `Commit` and `Set` are `save`; `Loaded` is what the route
and `load_or_create` do with what they got.  Every call of Redis and Postgres may
fail, with or without its effect (`Get` without the entry, `Select`'s second
alternative, `Warm` leaving `hot`, `CommitFails`, `SetFails`), without bound; `Expire` is
the TTL or an eviction, `Crash` the process.  A session is the set of turns
worked into it.  The memory backend is EvalSession's store; blueprints are not
modelled.

`AnsweredTurnsKept` holds unless one of three things happened, which the code does
not guard against: requests overlap (nothing locks a session); a write to Redis
fails over an older entry, which loads then prefer; a read of Postgres fails in
`load_or_create`, which takes that for a new interview and saves it.  Everything
else keeps the turns: expiry, every failing read of Redis, failed and half-failed
commits, crashes between any two steps.  `CacheWasSaved` has no exception.

`SessionStore_proofs` proves both and the types, for any number of requests.
`History` (all that a load can return was in the row) is inductive with the types;
`Kept` says that without the exceptions there is one request at a time and that
the row, the entry and the copy in its hands all have the answered turns.
`SoloMove` reduces an action to the move of that one request.

### Drafts

| Variables | In the code |
|---|---|
| `draft` | the row of `drafts` (`DraftService`) |
| `page, files, offer` | what the page shows, its editor, `pendingDraft` |
| `lastSaved, timer` | `lastSavedHashRef` and `saveTimeoutRef` |
| `flights` | PUTs and DELETEs under way, in the order they were sent |
| `since, muddled, behind` | not in the code: the versions sent since the last delete; whether requests crossed; whether a save failed or was left out since the last edit |

Each handler of the page is an action, `Fire` is the debounce, `Checkpoint` the save
of a run or a submit.  `Apply` is the server's transaction, `Saved`, `Deleted` and
`Fail` are the ends of a request for the page; a failed one may have been done, or
may still be.  The transaction's lookup and write are one step: where they
interleave one of two fails, which `Fail` contains.  A version is the content of
the files that are not locked.  The hash a page starts with on the boilerplate
covers locked files too (`finalizeFiles`), so it matches no draft, and the first
debounce saves the boilerplate.  A resumed draft has no locked files.  There is
one page: a second tab on the same problem is not modelled.

`SavedMeansStored` and `DeletedStaysDeleted` hold unless requests crossed in a way
nothing prevents (`muddled`): two applied or answered in another order than
sent, a page opened with an earlier one's request under way, a save done though
it failed for the page, a PUT sent while a DELETE is under way.  The last one is
what `handleReset` invites: it does not stop the debounce, so after an edit and a
reset within two seconds the PUT follows the DELETE and brings the work back.
`WorkIsStored` is liveness: what stays in the editor gets into the draft, unless a
save fails, which is not tried again, or is left out because the version equals
the last saved one while another is under way.

Fairness: a timer fires, and a fetch resolves or rejects (`DraftFairness`); nobody
has to edit.

### Run

`stores`: three requests of one interview; two versions, three requests of the page
in flight.  Two requests suffice for each race with the store and a third sees
what they left.  Two versions are an edit and its undo; three flights are two
saves and a delete.  Deadlock checking is off: every request is made once.

### Proofs of Drafts

`Drafts_proofs` proves the types, `SavedMeansStored`, `DeletedStaysDeleted` and
their invariant `DraftInv` for any number of versions and of requests in flight.
The properties speak of what a request returns with; the invariant has to say
what is under way: `PageAwaits` (the page knows which of its requests are out),
and, while nothing has crossed, `AppliedInOrder` and `DeleteIsLast` (the server
follows the order of sending, and nothing is sent after a DELETE), `SentSince`
(versions under way were sent since the last delete), `LatestStored` (the row is
the last version applied) and `Untouched` (the page that offers a draft has sent
nothing).  There is one lemma per action; three lemmas on the sequence of
flights (taking one out, abandoning them, where one was before) carry most of
them.  `WorkIsStored` is liveness and stays with TLC.

## 8. Problems

### State and actions

| Variables | In the code |
|---|---|
| `rows, used` | table `problems`: slug, link of the scaffold, language (whether there is one that is built), image, published; the ids given |
| `scaffolds` | the ZIPs in the challenges bucket |
| `local, tagged, ecr` | per slug, what the executor tag and the ECR tag name on the build host, and what ECR has: nothing, or an image that answers `/health` or does not |
| `registry` | whether `ECR_REPOSITORY_URI` is set |
| `listener` | `updateFromResult` between the choice of a slug, the insert and the build |
| `step, slug, link, attempt, found, copy` | a call of `buildAndPush`: its next call, arguments, attempt, the row it has read and changed |
| `request, edited, edit` | an admin's `updateProblem` or `setPublished` between its read and its save |
| `byAdmin, touched, hurt, shared` | not in the code: rows an admin published, rows an admin saved, rows that were stored when the backend died or that a failed rollback left, slugs of which two builds overlapped |

A build is `Extract`, `DockerBuild`, `HealthCheck`, `Tag`, `Push`, `FindBySlug`,
`SavePublished`; any call may throw (`BuildThrows`, a save with or without its
effect), after which `@Retryable` starts again and, after the last attempt,
`@Recover` runs: `RecoverFinds`, `RecoverDeletes`, `DeleteFromS3`, or `RecoverThrows`.  The
admins' requests are `CreateProblem`, `DeleteProblem`, `BuildImage`, `UpdateProblem` and
`SetPublished` with `SaveEdit` or `EditFails`.  `Crash` ends the backend and with it
every build, running or queued: `@Async` keeps them in memory.  There is no
transaction around a find and a save, a save writes the whole row, and as the id
is assigned and there is no version, saving a deleted row inserts it again.
The column `slug` is unique (`Write`).

Abstractions: one problem per generation; one language that is built, since a
slug has one; a request of `@Retryable` that is tried again is another request;
the bucket of gold masters, titles and tags are left out; `createProblem`'s check
of the slug is the unique column's.

### Runs

| Run | Instance | Shows |
|---|---|---|
| `problems` | 2 problems, 2 slugs, 2 builds, 1 edit, 1 scaffold, 2 attempts | type invariant, `PublishedIsPushed`, `UnbuiltIsMinded`, `HealthyIfAlone` |

Two problems and slugs let a slug pass from one row to another by deletion or by
renaming while a build knows it; two builds overlap.  A retry is a restart of
the same build, so one suffices.  `RetriesBound` keeps the states to 2 million: one
build retries at a time, and only before the first outage; any two retries, and
retries after an outage, are left to the proofs.  Deadlock checking is off:
builds, ids and requests are used once.

* `PublishedIsPushed`: what no admin published has an image that was pushed, though
  a build publishes whatever row has its slug by then, and edits and builds save
  copies over each other.
* `UnbuiltIsMinded`: a generated, unpublished problem that no admin edited is never
  left alone: the listener is about to build it, or a build or rollback of its
  slug is to come to it.  The exceptions are in `hurt`: the death of the backend and
  a database error in the rollback.
* `HealthyIfAlone`: as long as no two builds of a slug overlap, ECR has no image of
  it that failed.

The exception in `HealthyIfAlone` is one the code does not guard against, though
`src/README.md:109` has the image health-checked before it is pushed: the check,
docker tag and docker push name the image by a tag all builds of the slug
share, and a second docker build moves it in between.  With `shared` left out of
the property TLC finds the first build tagging and pushing the image of the
second, which fails its check.

No liveness is claimed of a build: `runCommand` waits without a timeout.  That a
failed rebuild deletes a published problem is what the code's log says it does
(`DockerImageService:157-160`); it is a hazard without a property.

### Proofs

`Problems_proofs` proves the four invariants and `ProblemInv` for any number of
problems, slugs, builds, requests and attempts.

* `TypesHold`, from `Sound`: types and `Named` (a slug names one row, and a call in
  progress has its arguments), which everything else needs.
* `PublishedHasImage`, from `PushInv`: the copies in memory are as good as the rows,
  and what a build has behind it is where its next call expects it.  Nothing
  takes an image away (`ImagesStay`), so old copies stay good (`PushedStays`).
* `UnbuiltHasBuild`, from `MindInv`: `Expected` says that what the listener will build
  is the row it inserted.  `Named` does the rest: since a slug names one row, a
  build that takes up one row drops no other (`KeepsMinding`).
* `PushedAloneIsHealthy`, from `AloneInv`: running builds of an unshared slug are one,
  so the tag still names what it checked.
* `ProblemsCoherent`: the conjunction of all.

## 9. Only model-checked, and not modelled

TLC alone checks `EveryRequestEnds`, `LockEventuallyFree`, `TasksTerminate`,
`JobsSettle` and `WorkIsStored`: liveness under fairness is outside the prover.  The
runs that expect a violation are counterexamples and need no proof.  Every other
property of a run is a theorem.

Not modelled:

* The sandbox runner's files under /app: what two runs leave there depends on
  Maven's own order of work.
* Interviewer prompts, the LLM client, the repair of generated Java text, JUnit
  report parsing, templates and deployment: text.
* Authentication, accounts, the read-only catalogue and history, the UIs apart
  from draft handling: no state shared between steps of two actors.
