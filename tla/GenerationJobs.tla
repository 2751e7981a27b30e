--------------------------- MODULE GenerationJobs ---------------------------
(***************************************************************************)
(* The life of a problem generation: the rows of generation_jobs, the      *)
(* admin requests that change them (GenerationService), the two RabbitMQ   *)
(* queues (CodegenRequestPublisher, CodegenResultConsumer) and the codegen *)
(* worker at the other end of them (consumer.py, result_publisher.py).     *)
(*                                                                         *)
(* Every service method reads the row, decides, changes its own copy and   *)
(* saves the whole row again; the entity has no version, so the last save  *)
(* wins.  An admin request is in one of these steps while others go on.    *)
(* The listener handles one result at a time, the worker one request; a    *)
(* message leaves its queue when it is acknowledged, so what a crash       *)
(* interrupts is delivered again.                                          *)
(***************************************************************************)
EXTENDS Integers, Sequences

CONSTANTS Admin,      \* admin requests, each one call of a service method
          Job, Problem,
          None,       \* no problem, no job
          Attempts,   \* maxAttempts of @Retryable
          MaxFaults   \* bound: failures of the database, the broker and the processes

ASSUME NoneAssumption == None \notin Problem \cup Job
ASSUME BoundsAssumption == Attempts \in Nat \ {0} /\ MaxFaults \in Nat

VARIABLES
  rows,                             \* generation_jobs
  made,                             \* the job each problem was created from
  pc, op, job, copy, attempt,       \* admin requests
  requests, working,                \* codegen-request-queue; the worker has answered its head
  results, handling, result,        \* codegen-results-queue; the listener's step and its row
  faults, harmed                    \* failures so far, and the jobs one of them cut short

adminVars    == <<pc, op, job, copy, attempt>>
workerVars   == <<requests, working>>
listenerVars == <<results, handling, result>>
faultVars    == <<faults, harmed>>
vars         == <<rows, made, adminVars, workerVars, listenerVars, faultVars>>

Status  == {"absent", "DESIGNING", "AWAITING_APPROVAL", "GENERATING",
            "COMPLETED", "FAILED", "CANCELLED"}
Row     == [status : Status, design : BOOLEAN, result : BOOLEAN, problem : Problem \cup {None}]
Op      == {"preview", "refine", "approve", "cancel", "retry"}
Message == {"DESIGN_PREVIEW", "FULL_GENERATE"}
Request == [type : Message, job : Job, design : BOOLEAN]
Result  == [type : Message, job : Job, ok : BOOLEAN]

Absent     == [status |-> "absent", design |-> FALSE, result |-> FALSE, problem |-> None]
InProgress == {"DESIGNING", "GENERATING"}

TypeOK ==
  /\ rows \in [Job -> Row]
  /\ made \in [Problem -> Job \cup {None}]
  /\ pc \in [Admin -> {"new", "again", "save", "publish", "over"}]
  /\ op \in [Admin -> Op \cup {"none"}]
  /\ job \in [Admin -> Job \cup {None}]
  /\ copy \in [Admin -> Row]
  /\ attempt \in [Admin -> 1..Attempts]
  /\ requests \in Seq(Request)
  /\ working \in {"idle", "answered"}
  /\ results \in Seq(Result)
  /\ handling \in {"idle", "saveResult", "create", "save"}
  /\ result \in Row
  /\ faults \in 0..MaxFaults
  /\ harmed \in SUBSET Job

Init ==
  /\ rows = [j \in Job |-> Absent]
  /\ made = [p \in Problem |-> None]
  /\ pc = [a \in Admin |-> "new"]
  /\ op = [a \in Admin |-> "none"]
  /\ job = [a \in Admin |-> None]
  /\ copy = [a \in Admin |-> Absent]
  /\ attempt = [a \in Admin |-> 1]
  /\ requests = <<>> /\ working = "idle"
  /\ results = <<>> /\ handling = "idle" /\ result = Absent
  /\ faults = 0 /\ harmed = {}

(* A failure happens; hurt is the set of jobs it cuts short.               *)
Fault(hurt) == /\ faults < MaxFaults
               /\ faults' = faults + 1
               /\ harmed' = harmed \cup hurt

-----------------------------------------------------------------------------
(* GenerationService: the admin requests.                                  *)

(* Definitions named ..._x are mutations: what a slip in the code would     *)
(* make of the definition that follows; the specification never uses them. *)
Step(a, step) == pc' = [pc EXCEPT ![a] = step]
Over(a)       == /\ Step(a, "over")
                 /\ op' = [op EXCEPT ![a] = "none"] /\ job' = [job EXCEPT ![a] = None]
                 /\ copy' = [copy EXCEPT ![a] = Absent] /\ attempt' = [attempt EXCEPT ![a] = 1]

Accepts_RetryAnything(o, r) ==
  \/ o = "preview" /\ r = Absent
  \/ o \in {"refine", "approve"} /\ r.status = "AWAITING_APPROVAL"
  \/ o = "cancel" /\ r.status \notin {"absent", "COMPLETED", "FAILED"}
  \/ o = "retry" /\ r.status \notin {"absent", "COMPLETED"}

Accepts(o, r) ==
  \/ o = "preview" /\ r = Absent
  \/ o \in {"refine", "approve"} /\ r.status = "AWAITING_APPROVAL"
  \/ o = "cancel" /\ r.status \notin {"absent", "COMPLETED", "FAILED"}
  \/ o = "retry" /\ r.status \notin {"absent", "COMPLETED", "CANCELLED"}

NextStatus_AlwaysGenerate(o, r) ==
  IF o = "cancel" THEN "CANCELLED"
  ELSE IF o \in {"approve", "retry"} THEN "GENERATING" ELSE "DESIGNING"

NextStatus(o, r) ==
  IF o = "cancel" THEN "CANCELLED"
  ELSE IF o = "approve" \/ (o = "retry" /\ r.design) THEN "GENERATING" ELSE "DESIGNING"

(* A retry with a design forgets the earlier result and its problem.       *)
Applied(o, r) ==
  IF o = "retry" /\ r.design
  THEN [r EXCEPT !.status = NextStatus(o, r), !.result = FALSE, !.problem = None]
  ELSE [r EXCEPT !.status = NextStatus(o, r)]

(* findById and the method's own checks; a preview makes a row of its own. *)
Read(a, o, j) ==
  /\ pc[a] = "new" \/ (pc[a] = "again" /\ o = op[a] /\ (o = "preview" \/ j = job[a]))
  /\ o = "preview" => rows[j] = Absent /\ \A b \in Admin \ {a} : op[b] # o \/ job[b] # j
  /\ IF Accepts(o, rows[j])
     THEN /\ Step(a, "save")
          /\ op' = [op EXCEPT ![a] = o] /\ job' = [job EXCEPT ![a] = j]
          /\ copy' = [copy EXCEPT ![a] = Applied(o, rows[j])] /\ UNCHANGED attempt
     ELSE Over(a)
  /\ UNCHANGED <<rows, made, workerVars, listenerVars, faultVars>>

SaveJob(a) ==
  /\ pc[a] = "save"
  /\ rows' = [rows EXCEPT ![job[a]] = copy[a]]
  /\ IF op[a] = "cancel" THEN Over(a)
     ELSE Step(a, "publish") /\ UNCHANGED <<op, job, copy, attempt>>
  /\ UNCHANGED <<made, workerVars, listenerVars, faultVars>>

(* A DataAccessException, with the row written or not: @Retryable runs the *)
(* whole method again, which for a preview makes another row.              *)
SaveThrows(a) ==
  /\ pc[a] = "save"
  /\ \/ Fault({}) /\ UNCHANGED rows
     \/ Fault({job[a]}) /\ rows' = [rows EXCEPT ![job[a]] = copy[a]]
  /\ IF attempt[a] < Attempts
     THEN /\ Step(a, "again") /\ attempt' = [attempt EXCEPT ![a] = @ + 1]
          /\ UNCHANGED <<op, job, copy>>
     ELSE Over(a)
  /\ UNCHANGED <<made, workerVars, listenerVars>>

(* publishDesignPreview or publishFullGenerate of the saved copy.          *)
RequestOf(a) ==
  [type   |-> IF copy[a].status = "GENERATING" THEN "FULL_GENERATE" ELSE "DESIGN_PREVIEW",
   job    |-> job[a],
   design |-> copy[a].status = "GENERATING" /\ copy[a].design]

Publish(a) ==
  /\ pc[a] = "publish"
  /\ requests' = Append(requests, RequestOf(a))
  /\ Over(a)
  /\ UNCHANGED <<rows, made, working, listenerVars, faultVars>>

(* An AmqpException after the broker took the message: it is sent again.   *)
PublishRepeats(a) ==
  /\ pc[a] = "publish" /\ Fault({})
  /\ requests' = Append(requests, RequestOf(a))
  /\ UNCHANGED <<rows, made, adminVars, working, listenerVars>>

(* The last attempt to publish fails, or the process dies.                 *)
AdminDies(a) ==
  /\ pc[a] \in {"save", "publish"}
  /\ Fault(IF pc[a] = "publish" THEN {job[a]} ELSE {})
  /\ Over(a)
  /\ UNCHANGED <<rows, made, workerVars, listenerVars>>

-----------------------------------------------------------------------------
(* The codegen worker: prefetch 1, the callback runs to its end before the *)
(* next delivery.                                                          *)

ResultOf(m, ok) == [type |-> m.type, job |-> m.job, ok |-> ok]

Answer_SilentOnError ==
  /\ requests # <<>> /\ working = "idle"
  /\ \E ok \in BOOLEAN :
       results' = IF ok THEN Append(results, ResultOf(Head(requests), ok)) ELSE results
  /\ working' = "answered"
  /\ UNCHANGED <<rows, made, adminVars, requests, handling, result, faultVars>>

Answer ==
  /\ requests # <<>> /\ working = "idle"
  /\ \E ok \in BOOLEAN : results' = Append(results, ResultOf(Head(requests), ok))
  /\ working' = "answered"
  /\ UNCHANGED <<rows, made, adminVars, requests, handling, result, faultVars>>

(* The broker took the result but the answer was lost: publish again.      *)
AnswerRepeats ==
  /\ requests # <<>> /\ working = "idle" /\ Fault({})
  /\ \E ok \in BOOLEAN : results' = Append(results, ResultOf(Head(requests), ok))
  /\ UNCHANGED <<rows, made, adminVars, workerVars, handling, result>>

Ack ==
  /\ working = "answered"
  /\ requests' = Tail(requests) /\ working' = "idle"
  /\ UNCHANGED <<rows, made, adminVars, listenerVars, faultVars>>

(* The connection was closed while the callback ran, or the worker died:   *)
(* the request is delivered again.                                         *)
AckFails ==
  /\ working = "answered" /\ Fault({})
  /\ working' = "idle"
  /\ UNCHANGED <<rows, made, adminVars, requests, listenerVars>>

(* No result could be published: nack without requeue.                     *)
Nack ==
  /\ requests # <<>> /\ working = "idle" /\ Fault({Head(requests).job})
  /\ requests' = Tail(requests)
  /\ UNCHANGED <<rows, made, adminVars, working, listenerVars>>

-----------------------------------------------------------------------------
(* CodegenResultConsumer and updateFromResult.                             *)

Current == Head(results)

(* The row with a result applied to it, whatever its status was.           *)
WithResult_ErrorOnly(r, m) ==
  IF ~m.ok THEN r
  ELSE IF m.type = "DESIGN_PREVIEW"
       THEN [r EXCEPT !.design = TRUE, !.status = "AWAITING_APPROVAL"]
       ELSE [r EXCEPT !.result = TRUE, !.status = "COMPLETED"]

WithResult(r, m) ==
  IF ~m.ok THEN [r EXCEPT !.status = "FAILED"]
  ELSE IF m.type = "DESIGN_PREVIEW"
       THEN [r EXCEPT !.design = TRUE, !.status = "AWAITING_APPROVAL"]
       ELSE [r EXCEPT !.result = TRUE, !.status = "COMPLETED"]

Handle(step) == handling' = step
AckResult    == results' = Tail(results) /\ Handle("idle")

IgnoreResult_CompletedToo ==
  /\ results # <<>> /\ handling = "idle"
  /\ rows[Current.job].status \in {"absent", "CANCELLED", "COMPLETED"}
  /\ AckResult
  /\ UNCHANGED <<rows, made, adminVars, workerVars, result, faultVars>>

IgnoreResult ==
  /\ results # <<>> /\ handling = "idle"
  /\ rows[Current.job].status \in {"absent", "CANCELLED"}
  /\ AckResult
  /\ UNCHANGED <<rows, made, adminVars, workerVars, result, faultVars>>

TakeResult ==
  /\ results # <<>> /\ handling = "idle"
  /\ rows[Current.job].status \notin {"absent", "CANCELLED"}
  /\ result' = WithResult(rows[Current.job], Current)
  /\ Handle(IF Current.ok /\ Current.type = "FULL_GENERATE" THEN "saveResult" ELSE "save")
  /\ UNCHANGED <<rows, made, adminVars, workerVars, results, faultVars>>

SaveResult ==
  /\ handling = "saveResult"
  /\ rows' = [rows EXCEPT ![Current.job] = result]
  /\ Handle("create")
  /\ UNCHANGED <<made, adminVars, workerVars, results, result, faultVars>>

CreateProblem_JobId(p) ==
  /\ handling = "create" /\ made[p] = None
  /\ made' = [made EXCEPT ![p] = Current.job]
  /\ result' = [result EXCEPT !.problem = Current.job]
  /\ Handle("save")
  /\ UNCHANGED <<rows, adminVars, workerVars, results, faultVars>>

CreateProblem_LinkFirst(p) ==
  /\ handling = "create" /\ made[p] = None
  /\ \/ made' = [made EXCEPT ![p] = Current.job]
     \/ UNCHANGED made
  /\ result' = [result EXCEPT !.problem = p]
  /\ Handle("save")
  /\ UNCHANGED <<rows, adminVars, workerVars, results, faultVars>>

(* createFromJob, one transaction.                                         *)
CreateProblem(p) ==
  /\ handling = "create" /\ made[p] = None
  /\ made' = [made EXCEPT ![p] = Current.job]
  /\ result' = [result EXCEPT !.problem = p]
  /\ Handle("save")
  /\ UNCHANGED <<rows, adminVars, workerVars, results, faultVars>>

(* The commit succeeds but its answer is lost: @Retryable runs it again.   *)
CreateRepeats(p) ==
  /\ handling = "create" /\ made[p] = None /\ Fault({})
  /\ made' = [made EXCEPT ![p] = Current.job]
  /\ UNCHANGED <<rows, adminVars, workerVars, listenerVars>>

(* createFromJob throws, which is caught, or finds nothing to create.      *)
CreateFails ==
  /\ handling = "create"
  /\ harmed' = harmed \cup {Current.job}
  /\ Handle("save")
  /\ UNCHANGED <<rows, made, adminVars, workerVars, results, result, faults>>

SaveFinal ==
  /\ handling = "save"
  /\ rows' = [rows EXCEPT ![Current.job] = result]
  /\ AckResult
  /\ UNCHANGED <<made, adminVars, workerVars, result, faultVars>>

(* A database error: onResult logs it and the result is acknowledged.      *)
ResultLost ==
  /\ results # <<>> /\ handling # "create" /\ Fault({Current.job})
  /\ AckResult
  /\ UNCHANGED <<rows, made, adminVars, workerVars, result>>

(* The backend dies while it handles a result.                             *)
ListenerDies ==
  /\ handling # "idle" /\ Fault({})
  /\ Handle("idle")
  /\ UNCHANGED <<rows, made, adminVars, workerVars, results, result>>

-----------------------------------------------------------------------------
Progress(a) == SaveJob(a) \/ Publish(a)
Worker      == Answer \/ Ack
Listener    == \/ IgnoreResult \/ TakeResult \/ SaveResult \/ SaveFinal
               \/ CreateFails \/ \E p \in Problem : CreateProblem(p)

Next ==
  \/ \E a \in Admin : \/ \E o \in Op, j \in Job : Read(a, o, j)
                      \/ Progress(a) \/ SaveThrows(a) \/ PublishRepeats(a) \/ AdminDies(a)
  \/ Worker \/ AnswerRepeats \/ AckFails \/ Nack
  \/ Listener \/ ResultLost \/ ListenerDies \/ \E p \in Problem : CreateRepeats(p)

Spec == Init /\ [][Next]_vars

(* A request that has read its row goes on (every call returns or throws), *)
(* the worker answers (its LLM calls have timeouts and bounded retries),   *)
(* and the listener container delivers.  No admin has to do anything.      *)
Fairness == /\ \A a \in Admin : WF_vars(Progress(a))
            /\ WF_vars(Worker) /\ WF_vars(Listener)

FairSpec == Spec /\ Fairness

-----------------------------------------------------------------------------
(* Properties.                                                             *)

Unanswered == {i \in DOMAIN requests : i > 1 \/ working = "idle"}
Awaited(j) ==
  \/ \E a \in Admin : pc[a] = "publish" /\ job[a] = j
  \/ \E i \in Unanswered : requests[i].job = j
  \/ \E i \in DOMAIN results : results[i].job = j

(* A job that shows DESIGNING or GENERATING waits for something: a request *)
(* about to be published, one the worker has not answered or a result not  *)
(* handled yet, however the requests and results overlap.  Only the        *)
(* failures in harmed (a publish that fails after the save, a nack without *)
(* requeue, a result whose handling throws) leave it waiting for nothing   *)
(* (GenerationService, consumer.py, CodegenResultConsumer).                *)
NobodyWaitsInVain ==
  \A j \in Job : rows[j].status \in InProgress => j \in harmed \/ Awaited(j)

Holds(r) == /\ r.status \in {"AWAITING_APPROVAL", "GENERATING"} => r.design
            /\ r.status = "COMPLETED" => r.result

(* Whatever copies of it are saved over each other, a row offered for      *)
(* approval or generating has a design and a completed one a result, and a *)
(* full generation is only ever requested with a design.                   *)
RowsHold ==
  /\ \A j \in Job : Holds(rows[j])
  /\ \A a \in Admin : pc[a] \in {"save", "publish"} => Holds(copy[a])
  /\ handling # "idle" => Holds(result)
  /\ \A i \in DOMAIN requests : requests[i].type = "FULL_GENERATE" => requests[i].design

(* A completed job has its problem, or the result that makes it is still   *)
(* to be handled, also after the listener died between the two saves;      *)
(* unless createFromJob made none or a failure took the result.            *)
CompletedHasProblem ==
  \A j \in Job :
    rows[j].status = "COMPLETED" /\ rows[j].problem = None /\ j \notin harmed =>
      \E i \in DOMAIN results :
        results[i] = [type |-> "FULL_GENERATE", job |-> j, ok |-> TRUE]

(* A row, and every copy of it somebody is about to save over it, names    *)
(* only a problem created from that very job: however stale the copies of  *)
(* admins and listener are, none brings in the problem of another job or   *)
(* one that was never committed, so no problem is shown for two jobs       *)
(* (updateFromResult, createFromJob, the saves of GenerationService).      *)
Owned(r, j) == r.problem # None => made[r.problem] = j

ProblemsOwned ==
  /\ \A j \in Job : Owned(rows[j], j)
  /\ \A a \in Admin : pc[a] \in {"save", "publish"} => Owned(copy[a], job[a])
  /\ handling # "idle" => Owned(result, Current.job)

CancelledForGood(j) ==
  /\ rows[j].status = "CANCELLED"
  /\ \A a \in Admin : job[a] = j /\ pc[a] = "save" => copy[a].status = "CANCELLED"
  /\ handling # "idle" => Current.job # j

(* Once a job is cancelled and nobody holds an earlier copy of its row, it *)
(* stays so: no request accepts it and no late result changes it.          *)
CancelIsFinal == [][\A j \in Job : CancelledForGood(j) => CancelledForGood(j)']_vars

(* Without such a failure a job leaves DESIGNING and GENERATING again.     *)
JobsSettle ==
  \A j \in Job : rows[j].status \in InProgress
                   ~> rows[j].status \notin InProgress \/ j \in harmed

(* GenerationService.java:153: results for cancelled jobs are ignored.     *)
CancelledIgnoresResults ==
  [][\A j \in Job : rows[j].status = "CANCELLED" /\ (SaveResult \/ SaveFinal)
                      => rows'[j].status = "CANCELLED"]_vars
=============================================================================
