------------------------ MODULE GenerationJobs_proofs ------------------------
(* Machine-checked proofs about GenerationJobs, for any number of admin    *)
(* requests, jobs, problems, attempts and failures.                        *)
EXTENDS GenerationJobs, SequenceTheorems, TLAPS

-----------------------------------------------------------------------------
(* Types, and what each step of the parties needs to go on.                *)

Engaged == {"save", "publish"}

InOrder ==
  /\ TypeOK
  /\ \A a \in Admin : pc[a] \in Engaged => job[a] \in Job /\ op[a] \in Op
  /\ handling # "idle" => results # <<>>
  /\ working = "answered" => requests # <<>>

LEMMA AbsentIsRow == Absent \in Row
BY DEF Absent, Row, Status

LEMMA InOrderInit == Init => InOrder
<1>1. 1 \in 1..Attempts /\ 0 \in 0..MaxFaults
  BY BoundsAssumption
<1> QED BY <1>1, AbsentIsRow DEF Init, InOrder, TypeOK, Engaged

LEMMA AppliedType ==
  ASSUME NEW o \in Op, NEW r \in Row
  PROVE  Applied(o, r) \in Row /\ NextStatus(o, r) \in Status
<1>1. NextStatus(o, r) \in Status
  BY DEF NextStatus, Status
<1>2. CASE o = "retry" /\ r.design
  BY <1>1, <1>2 DEF Applied, Row
<1>3. CASE ~(o = "retry" /\ r.design)
  BY <1>1, <1>3 DEF Applied, Row
<1> QED BY <1>1, <1>2, <1>3

LEMMA WithResultType ==
  ASSUME NEW r \in Row, NEW m \in Result
  PROVE  WithResult(r, m) \in Row
BY DEF WithResult, Row, Status, Result

LEMMA MessageTypes ==
  ASSUME InOrder
  PROVE  /\ \A a \in Admin : pc[a] = "publish" => RequestOf(a) \in Request
         /\ requests # <<>> => /\ Head(requests) \in Request /\ Tail(requests) \in Seq(Request)
                               /\ \A ok \in BOOLEAN : ResultOf(Head(requests), ok) \in Result
         /\ results # <<>> => Current \in Result /\ Tail(results) \in Seq(Result)
<1>1. ASSUME NEW a \in Admin, pc[a] = "publish"
      PROVE  RequestOf(a) \in Request
  <2>1. job[a] \in Job /\ copy[a].design \in BOOLEAN
    BY <1>1 DEF InOrder, TypeOK, Engaged, Row
  <2> QED BY <2>1 DEF RequestOf, Request, Message
<1>2. ASSUME requests # <<>>
      PROVE  /\ Head(requests) \in Request /\ Tail(requests) \in Seq(Request)
             /\ \A ok \in BOOLEAN : ResultOf(Head(requests), ok) \in Result
  <2>1. Head(requests) \in Request /\ Tail(requests) \in Seq(Request)
    BY <1>2, HeadTailProperties DEF InOrder, TypeOK
  <2> QED BY <2>1 DEF ResultOf, Request, Result
<1>3. ASSUME results # <<>>
      PROVE  Current \in Result /\ Tail(results) \in Seq(Result)
  BY <1>3, HeadTailProperties DEF InOrder, TypeOK, Current
<1> QED BY <1>1, <1>2, <1>3

(* The requests of the admins.                                             *)
LEMMA OverInOrder ==
  ASSUME InOrder, NEW a \in Admin, Over(a)
  PROVE  /\ pc' \in [Admin -> {"new", "again", "save", "publish", "over"}]
         /\ op' \in [Admin -> Op \cup {"none"}] /\ job' \in [Admin -> Job \cup {None}]
         /\ copy' \in [Admin -> Row] /\ attempt' \in [Admin -> 1..Attempts]
         /\ \A b \in Admin : pc'[b] \in Engaged => job'[b] \in Job /\ op'[b] \in Op
BY AbsentIsRow, BoundsAssumption DEF InOrder, TypeOK, Over, Step, Engaged

LEMMA FaultType ==
  ASSUME InOrder, NEW hurt \in SUBSET Job, Fault(hurt)
  PROVE  faults' \in 0..MaxFaults /\ harmed' \in SUBSET Job
BY BoundsAssumption DEF InOrder, TypeOK, Fault

LEMMA ReadInOrder ==
  ASSUME InOrder, NEW a \in Admin, NEW o \in Op, NEW j \in Job, Read(a, o, j)
  PROVE  InOrder'
<1>1. CASE Accepts(o, rows[j])
  <2>1. Applied(o, rows[j]) \in Row
    BY AppliedType DEF InOrder, TypeOK
  <2> QED BY <1>1, <2>1 DEF Read, Step, InOrder, TypeOK, Engaged, workerVars, listenerVars, faultVars
<1>2. CASE ~Accepts(o, rows[j])
  <2>1. Over(a) /\ UNCHANGED <<rows, made, workerVars, listenerVars, faultVars>>
    BY <1>2 DEF Read
  <2> QED BY <2>1, OverInOrder DEF InOrder, TypeOK, workerVars, listenerVars, faultVars
<1> QED BY <1>1, <1>2

LEMMA SavedRow ==
  ASSUME InOrder, NEW a \in Admin, pc[a] = "save"
  PROVE  /\ [rows EXCEPT ![job[a]] = copy[a]] \in [Job -> Row]
         /\ job[a] \in Job /\ op[a] \in Op
BY DEF InOrder, TypeOK, Engaged

LEMMA SaveInOrder ==
  ASSUME InOrder, NEW a \in Admin, SaveJob(a) \/ SaveThrows(a)
  PROVE  InOrder'
<1>1. /\ rows' \in [Job -> Row] /\ made' = made
      /\ UNCHANGED <<workerVars, listenerVars>>
      /\ faults' \in 0..MaxFaults /\ harmed' \in SUBSET Job
  <2>1. pc[a] = "save" /\ made' = made /\ UNCHANGED <<workerVars, listenerVars>>
        /\ (rows' = rows \/ rows' = [rows EXCEPT ![job[a]] = copy[a]])
    BY DEF SaveJob, SaveThrows
  <2>2. rows' \in [Job -> Row] /\ job[a] \in Job
    BY <2>1, SavedRow DEF InOrder, TypeOK
  <2>3. UNCHANGED faultVars \/ Fault({}) \/ Fault({job[a]})
    BY DEF SaveJob, SaveThrows
  <2>4. faults' \in 0..MaxFaults /\ harmed' \in SUBSET Job
    BY <2>2, <2>3, FaultType DEF InOrder, TypeOK, faultVars
  <2> QED BY <2>1, <2>2, <2>4
<1>2. \/ Over(a)
      \/ Step(a, "publish") /\ UNCHANGED <<op, job, copy, attempt>>
      \/ /\ Step(a, "again") /\ attempt[a] < Attempts /\ attempt' = [attempt EXCEPT ![a] = @ + 1]
         /\ UNCHANGED <<op, job, copy>>
  BY DEF SaveJob, SaveThrows
<1>3. CASE Over(a)
  BY <1>1, <1>3, OverInOrder DEF InOrder, TypeOK, workerVars, listenerVars
<1>4. CASE Step(a, "publish") /\ UNCHANGED <<op, job, copy, attempt>>
  <2>1. job[a] \in Job /\ op[a] \in Op
    BY SavedRow DEF SaveJob, SaveThrows
  <2> QED BY <1>1, <1>4, <2>1 DEF Step, InOrder, TypeOK, Engaged, workerVars, listenerVars
<1>5. CASE /\ Step(a, "again") /\ attempt[a] < Attempts /\ attempt' = [attempt EXCEPT ![a] = @ + 1]
           /\ UNCHANGED <<op, job, copy>>
  <2>1. attempt' \in [Admin -> 1..Attempts]
    BY <1>5, BoundsAssumption DEF InOrder, TypeOK
  <2> QED BY <1>1, <1>5, <2>1 DEF Step, InOrder, TypeOK, Engaged, workerVars, listenerVars
<1> QED BY <1>2, <1>3, <1>4, <1>5

LEMMA PublishInOrder ==
  ASSUME InOrder, NEW a \in Admin, Publish(a) \/ PublishRepeats(a) \/ AdminDies(a)
  PROVE  InOrder'
<1>1. CASE Publish(a) \/ PublishRepeats(a)
  <2>1. requests' \in Seq(Request) /\ requests' # <<>>
    <3>1. requests \in Seq(Request) /\ RequestOf(a) \in Request
      BY <1>1, MessageTypes DEF Publish, PublishRepeats, InOrder, TypeOK
    <3>2. requests' = Append(requests, RequestOf(a))
      BY <1>1 DEF Publish, PublishRepeats
    <3> QED BY <3>1, <3>2, AppendProperties
  <2>2. CASE Publish(a)
    BY <2>1, <2>2, OverInOrder DEF Publish, InOrder, TypeOK, listenerVars, faultVars
  <2>3. CASE PublishRepeats(a)
    <3>1. faults' \in 0..MaxFaults /\ harmed' \in SUBSET Job
      BY <2>3, FaultType DEF PublishRepeats
    <3> QED BY <2>1, <2>3, <3>1 DEF PublishRepeats, InOrder, TypeOK, adminVars, listenerVars
  <2> QED BY <1>1, <2>2, <2>3
<1>2. CASE AdminDies(a)
  <2>1. job[a] \in Job
    BY <1>2 DEF AdminDies, InOrder, Engaged
  <2>2. faults' \in 0..MaxFaults /\ harmed' \in SUBSET Job
    BY <1>2, <2>1, FaultType DEF AdminDies
  <2> QED BY <1>2, <2>2, OverInOrder DEF AdminDies, InOrder, TypeOK, workerVars, listenerVars
<1> QED BY <1>1, <1>2

(* The worker.                                                             *)
LEMMA WorkerInOrder ==
  ASSUME InOrder, Answer \/ AnswerRepeats \/ Ack \/ AckFails \/ Nack
  PROVE  InOrder'
<1>1. CASE Answer \/ AnswerRepeats
  <2>1. PICK ok \in BOOLEAN : results' = Append(results, ResultOf(Head(requests), ok))
    BY <1>1 DEF Answer, AnswerRepeats
  <2>2. ResultOf(Head(requests), ok) \in Result /\ results \in Seq(Result)
    BY <1>1, MessageTypes DEF Answer, AnswerRepeats, InOrder, TypeOK
  <2>3. results' \in Seq(Result) /\ results' # <<>>
    BY <2>1, <2>2, AppendProperties
  <2>4. CASE Answer
    BY <2>3, <2>4 DEF Answer, InOrder, TypeOK, adminVars, faultVars
  <2>5. CASE AnswerRepeats
    <3>1. faults' \in 0..MaxFaults /\ harmed' \in SUBSET Job
      BY <2>5, FaultType DEF AnswerRepeats
    <3> QED BY <2>3, <2>5, <3>1 DEF AnswerRepeats, InOrder, TypeOK, adminVars, workerVars
  <2> QED BY <1>1, <2>4, <2>5
<1>2. CASE Ack
  <2>1. requests' \in Seq(Request)
    BY <1>2, MessageTypes DEF Ack, InOrder
  <2> QED BY <1>2, <2>1 DEF Ack, InOrder, TypeOK, adminVars, listenerVars, faultVars
<1>3. CASE AckFails
  <2>1. faults' \in 0..MaxFaults /\ harmed' \in SUBSET Job
    BY <1>3, FaultType DEF AckFails
  <2> QED BY <1>3, <2>1 DEF AckFails, InOrder, TypeOK, adminVars, listenerVars
<1>4. CASE Nack
  <2>1. requests' \in Seq(Request) /\ {Head(requests).job} \in SUBSET Job
    BY <1>4, MessageTypes DEF Nack, Request
  <2>2. faults' \in 0..MaxFaults /\ harmed' \in SUBSET Job
    BY <1>4, <2>1, FaultType DEF Nack
  <2> QED BY <1>4, <2>1, <2>2 DEF Nack, InOrder, TypeOK, adminVars, listenerVars
<1> QED BY <1>1, <1>2, <1>3, <1>4

(* The listener.                                                           *)
Listens == \/ IgnoreResult \/ TakeResult \/ SaveResult \/ SaveFinal \/ CreateFails
           \/ ResultLost \/ ListenerDies
           \/ \E p \in Problem : CreateProblem(p) \/ CreateRepeats(p)

LEMMA ListenerInOrder ==
  ASSUME InOrder, Listens
  PROVE  InOrder'
<1>0. results # <<>> => Current \in Result /\ Current.job \in Job /\ Tail(results) \in Seq(Result)
  BY MessageTypes DEF Result
<1>1. CASE IgnoreResult
  BY <1>0, <1>1 DEF IgnoreResult, AckResult, Handle, InOrder, TypeOK, adminVars, workerVars, faultVars
<1>2. CASE TakeResult
  <2>1. WithResult(rows[Current.job], Current) \in Row
    BY <1>0, <1>2, WithResultType DEF TakeResult, InOrder, TypeOK
  <2> QED BY <1>2, <2>1 DEF TakeResult, Handle, InOrder, TypeOK, adminVars, workerVars, faultVars
<1>3. CASE SaveResult \/ SaveFinal
  <2>1. [rows EXCEPT ![Current.job] = result] \in [Job -> Row] /\ results # <<>>
    BY <1>0, <1>3 DEF SaveResult, SaveFinal, InOrder, TypeOK
  <2> QED BY <1>0, <1>3, <2>1 DEF SaveResult, SaveFinal, AckResult, Handle, InOrder, TypeOK,
                                  adminVars, workerVars, faultVars
<1>4. CASE CreateFails
  BY <1>0, <1>4 DEF CreateFails, Handle, InOrder, TypeOK, adminVars, workerVars
<1>5. CASE ResultLost
  <2>1. {Current.job} \in SUBSET Job
    BY <1>0, <1>5 DEF ResultLost
  <2>2. faults' \in 0..MaxFaults /\ harmed' \in SUBSET Job
    BY <1>5, <2>1, FaultType DEF ResultLost
  <2> QED BY <1>0, <1>5, <2>2 DEF ResultLost, AckResult, Handle, InOrder, TypeOK, adminVars, workerVars
<1>6. CASE ListenerDies
  <2>1. faults' \in 0..MaxFaults /\ harmed' \in SUBSET Job
    BY <1>6, FaultType DEF ListenerDies
  <2> QED BY <1>6, <2>1 DEF ListenerDies, Handle, InOrder, TypeOK, adminVars, workerVars
<1>7. ASSUME NEW p \in Problem, CreateProblem(p)
      PROVE  InOrder'
  <2>1. [made EXCEPT ![p] = Current.job] \in [Problem -> Job \cup {None}]
    BY <1>0, <1>7 DEF CreateProblem, InOrder, TypeOK
  <2>2. [result EXCEPT !.problem = p] \in Row
    BY DEF InOrder, TypeOK, Row
  <2> QED BY <1>7, <2>1, <2>2 DEF CreateProblem, Handle, InOrder, TypeOK, adminVars, workerVars,
                                  faultVars
<1>8. ASSUME NEW p \in Problem, CreateRepeats(p)
      PROVE  InOrder'
  <2>1. [made EXCEPT ![p] = Current.job] \in [Problem -> Job \cup {None}]
    BY <1>0, <1>8 DEF CreateRepeats, InOrder, TypeOK
  <2>2. faults' \in 0..MaxFaults /\ harmed' \in SUBSET Job
    BY <1>8, FaultType DEF CreateRepeats
  <2> QED BY <1>8, <2>1, <2>2 DEF CreateRepeats, InOrder, TypeOK, adminVars, workerVars, listenerVars
<1> QED BY <1>1, <1>2, <1>3, <1>4, <1>5, <1>6, <1>7, <1>8 DEF Listens

LEMMA InOrderStep == InOrder /\ [Next]_vars => InOrder'
<1> SUFFICES ASSUME InOrder, [Next]_vars PROVE InOrder'
  OBVIOUS
<1>1. CASE UNCHANGED vars
  BY <1>1 DEF vars, InOrder, TypeOK, adminVars, workerVars, listenerVars, faultVars
<1>2. CASE Next
  BY <1>2, ReadInOrder, SaveInOrder, PublishInOrder, WorkerInOrder, ListenerInOrder
     DEF Next, Progress, Worker, Listener, Listens
<1> QED BY <1>1, <1>2

LEMMA InOrderHolds == Spec => []InOrder
<1> QED BY InOrderInit, InOrderStep, PTL DEF Spec

(* Every variable keeps its type.                                          *)
THEOREM TypeCorrect == Spec => []TypeOK
<1>1. InOrder => TypeOK
  BY DEF InOrder
<1> QED BY <1>1, InOrderHolds, PTL

-----------------------------------------------------------------------------
(* How the queues change, message by message.                              *)

LEMMA RequestAppended ==
  ASSUME InOrder, NEW a \in Admin, pc[a] = "publish",
         requests' = Append(requests, RequestOf(a))
  PROVE  /\ DOMAIN requests = 1..Len(requests) /\ Len(requests) \in Nat
         /\ DOMAIN requests' = 1..(Len(requests) + 1)
         /\ \A i \in DOMAIN requests : requests'[i] = requests[i]
         /\ requests'[Len(requests) + 1] = RequestOf(a)
<1>1. requests \in Seq(Request) /\ RequestOf(a) \in Request
  BY MessageTypes DEF InOrder, TypeOK
<1>2. requests' \in Seq(Request)
  BY <1>1, AppendProperties
<1> QED BY <1>1, <1>2, AppendProperties, LenProperties

LEMMA RequestRemoved ==
  ASSUME InOrder, requests # <<>>, requests' = Tail(requests)
  PROVE  /\ DOMAIN requests = 1..Len(requests) /\ Len(requests) \in Nat \ {0}
         /\ DOMAIN requests' = 1..(Len(requests) - 1)
         /\ \A i \in DOMAIN requests' : requests'[i] = requests[i + 1]
         /\ Head(requests) = requests[1]
<1>1. requests \in Seq(Request)
  BY DEF InOrder, TypeOK
<1>2. requests' \in Seq(Request)
  BY <1>1, HeadTailProperties
<1>3. Len(requests) # 0
  BY <1>1, EmptySeq
<1> QED BY <1>1, <1>2, <1>3, HeadTailProperties, LenProperties

LEMMA ResultAppended ==
  ASSUME InOrder, requests # <<>>, NEW ok \in BOOLEAN,
         results' = Append(results, ResultOf(Head(requests), ok))
  PROVE  /\ DOMAIN results = 1..Len(results) /\ Len(results) \in Nat
         /\ DOMAIN results' = 1..(Len(results) + 1)
         /\ \A i \in DOMAIN results : results'[i] = results[i]
         /\ results'[Len(results) + 1] = ResultOf(Head(requests), ok)
         /\ results # <<>> => Current' = Current
<1>1. results \in Seq(Result) /\ ResultOf(Head(requests), ok) \in Result
  BY MessageTypes DEF InOrder, TypeOK
<1>2. results' \in Seq(Result)
  BY <1>1, AppendProperties
<1>3. /\ DOMAIN results = 1..Len(results) /\ Len(results) \in Nat
      /\ DOMAIN results' = 1..(Len(results) + 1)
      /\ \A i \in DOMAIN results : results'[i] = results[i]
      /\ results'[Len(results) + 1] = ResultOf(Head(requests), ok)
  BY <1>1, <1>2, AppendProperties, LenProperties
<1>4. results # <<>> => Current' = Current
  BY <1>1, HeadTailAppend DEF Current
<1> QED BY <1>3, <1>4

LEMMA ResultRemoved ==
  ASSUME InOrder, results # <<>>, results' = Tail(results)
  PROVE  /\ DOMAIN results = 1..Len(results) /\ Len(results) \in Nat \ {0}
         /\ DOMAIN results' = 1..(Len(results) - 1)
         /\ \A i \in DOMAIN results' : results'[i] = results[i + 1]
         /\ Current = results[1]
<1>1. results \in Seq(Result)
  BY DEF InOrder, TypeOK
<1>2. results' \in Seq(Result)
  BY <1>1, HeadTailProperties
<1>3. Len(results) # 0
  BY <1>1, EmptySeq
<1>4. Current = results[1]
  BY <1>1 DEF Current
<1> QED BY <1>1, <1>2, <1>3, <1>4, HeadTailProperties, LenProperties

-----------------------------------------------------------------------------
(* RowsHold: each part of it is kept by the steps that write there.        *)

LEMMA AppliedHolds ==
  ASSUME NEW o \in Op, NEW r \in Row, Holds(r), Accepts(o, r)
  PROVE  Holds(Applied(o, r))
<1>1. CASE o = "retry" /\ r.design
  BY <1>1 DEF Applied, NextStatus, Holds, Row
<1>2. CASE ~(o = "retry" /\ r.design)
  BY <1>2 DEF Applied, NextStatus, Accepts, Holds, Row, Op
<1> QED BY <1>1, <1>2

LEMMA WithResultHolds ==
  ASSUME NEW r \in Row, NEW m \in Result
  PROVE  Holds(WithResult(r, m))
BY DEF WithResult, Holds, Row, Result

LEMMA RowsHoldInit == Init => RowsHold
BY DEF Init, RowsHold, Holds, Absent

RequestsHold == \A i \in DOMAIN requests : requests[i].type = "FULL_GENERATE" => requests[i].design
CopiesHold   == \A a \in Admin : pc[a] \in Engaged => Holds(copy[a])

LEMMA AdminRowsHold ==
  ASSUME InOrder, RowsHold, NEW a \in Admin,
         \/ \E o \in Op, j \in Job : Read(a, o, j)
         \/ Progress(a) \/ SaveThrows(a) \/ PublishRepeats(a) \/ AdminDies(a)
  PROVE  RowsHold'
<1> USE DEF InOrder, TypeOK
<1>1. CopiesHold'
  <2>1. ASSUME NEW o \in Op, NEW j \in Job, Read(a, o, j), Accepts(o, rows[j])
        PROVE  CopiesHold'
    <3>1. Holds(Applied(o, rows[j]))
      BY <2>1, AppliedHolds DEF RowsHold
    <3> QED BY <2>1, <3>1 DEF Read, Step, CopiesHold, RowsHold, Engaged
  <2>2. CASE Over(a)
    BY <2>2 DEF Over, Step, CopiesHold, RowsHold, Engaged
  <2>3. CASE UNCHANGED copy /\ (UNCHANGED pc \/ Step(a, "publish") \/ Step(a, "again"))
             /\ pc[a] \in Engaged
    BY <2>3 DEF Step, CopiesHold, RowsHold, Engaged
  <2> QED BY <2>1, <2>2, <2>3 DEF Read, Progress, SaveJob, SaveThrows, Publish, PublishRepeats,
                                  AdminDies, adminVars, Engaged
<1>2. \A j \in Job : Holds(rows'[j])
  <2>1. rows' = rows \/ (pc[a] = "save" /\ rows' = [rows EXCEPT ![job[a]] = copy[a]])
    BY DEF Read, Progress, SaveJob, SaveThrows, Publish, PublishRepeats, AdminDies
  <2> QED BY <2>1 DEF RowsHold
<1>3. RequestsHold'
  <2>1. CASE requests' = requests
    BY <2>1 DEF RequestsHold, RowsHold
  <2>2. CASE pc[a] = "publish" /\ requests' = Append(requests, RequestOf(a))
    <3>1. RequestOf(a).type = "FULL_GENERATE" => RequestOf(a).design
      BY <2>2 DEF RowsHold, Holds, RequestOf, Row
    <3>2. ASSUME NEW i \in DOMAIN requests'
          PROVE  requests'[i].type = "FULL_GENERATE" => requests'[i].design
      <4>1. i \in DOMAIN requests \/ i = Len(requests) + 1
        BY <2>2, RequestAppended
      <4> QED BY <2>2, <3>1, <4>1, RequestAppended DEF RowsHold
    <3> QED BY <3>2 DEF RequestsHold
  <2> QED BY <2>1, <2>2 DEF Read, Progress, SaveJob, SaveThrows, Publish, PublishRepeats,
                            AdminDies, workerVars
<1>4. UNCHANGED listenerVars
  BY DEF Read, Progress, SaveJob, SaveThrows, Publish, PublishRepeats, AdminDies
<1> QED BY <1>1, <1>2, <1>3, <1>4 DEF RowsHold, CopiesHold, RequestsHold, Engaged, listenerVars

LEMMA WorkerRowsHold ==
  ASSUME InOrder, RowsHold, Answer \/ AnswerRepeats \/ Ack \/ AckFails \/ Nack
  PROVE  RowsHold'
<1>1. UNCHANGED <<rows, adminVars, handling, result>>
  BY DEF Answer, AnswerRepeats, Ack, AckFails, Nack, workerVars, listenerVars
<1>2. RequestsHold'
  <2>1. CASE requests' = requests
    BY <2>1 DEF RequestsHold, RowsHold
  <2>2. CASE requests # <<>> /\ requests' = Tail(requests)
    <3>1. ASSUME NEW i \in DOMAIN requests'
          PROVE  i + 1 \in DOMAIN requests /\ requests'[i] = requests[i + 1]
      BY <2>2, RequestRemoved
    <3> QED BY <3>1 DEF RequestsHold, RowsHold
  <2> QED BY <2>1, <2>2 DEF Answer, AnswerRepeats, Ack, AckFails, Nack, workerVars, InOrder
<1> QED BY <1>1, <1>2 DEF RowsHold, RequestsHold, adminVars

LEMMA ListenerRowsHold ==
  ASSUME InOrder, RowsHold, Listens
  PROVE  RowsHold'
<1>1. UNCHANGED <<adminVars, workerVars>>
  BY DEF Listens, IgnoreResult, TakeResult, SaveResult, SaveFinal, CreateFails, ResultLost,
         ListenerDies, CreateProblem, CreateRepeats
<1>2. \A j \in Job : Holds(rows'[j])
  <2>1. rows' = rows \/ (handling # "idle" /\ rows' = [rows EXCEPT ![Current.job] = result])
    BY DEF Listens, IgnoreResult, TakeResult, SaveResult, SaveFinal, CreateFails, ResultLost,
           ListenerDies, CreateProblem, CreateRepeats
  <2> QED BY <2>1 DEF RowsHold, InOrder, TypeOK
<1>3. handling' # "idle" => Holds(result')
  <2>1. CASE TakeResult
    <3>1. Current \in Result /\ Current.job \in Job
      BY <2>1, MessageTypes DEF TakeResult, Result
    <3> QED BY <2>1, <3>1, WithResultHolds DEF TakeResult, InOrder, TypeOK
  <2>2. ASSUME NEW p \in Problem, CreateProblem(p) PROVE Holds(result')
    BY <2>2 DEF CreateProblem, RowsHold, Holds, InOrder, TypeOK, Row
  <2>3. CASE handling' = "idle"
    BY <2>3
  <2>4. CASE handling # "idle" /\ result' = result
    BY <2>4 DEF RowsHold
  <2> QED BY <2>1, <2>2, <2>3, <2>4
          DEF Listens, IgnoreResult, SaveResult, SaveFinal, CreateFails, ResultLost,
              ListenerDies, CreateRepeats, AckResult, Handle, listenerVars
<1> QED BY <1>1, <1>2, <1>3 DEF RowsHold, adminVars, workerVars

LEMMA RowsHoldStep == InOrder /\ RowsHold /\ [Next]_vars => RowsHold'
<1> SUFFICES ASSUME InOrder, RowsHold, [Next]_vars PROVE RowsHold'
  OBVIOUS
<1>1. CASE UNCHANGED vars
  BY <1>1 DEF vars, RowsHold, adminVars, workerVars, listenerVars, faultVars
<1>2. CASE Next
  BY <1>2, AdminRowsHold, WorkerRowsHold, ListenerRowsHold DEF Next, Worker, Listener, Listens
<1> QED BY <1>1, <1>2

(* Whatever copies are saved over each other, rows have what their status  *)
(* promises and a full generation is requested with a design.              *)
THEOREM RowsAlwaysHold == Spec => []RowsHold
<1> QED BY InOrderHolds, RowsHoldInit, RowsHoldStep, PTL DEF Spec

-----------------------------------------------------------------------------
(* A cancelled job stays cancelled once nobody holds an earlier copy.      *)

LEMMA AdminKeepsCancelled ==
  ASSUME InOrder, NEW j \in Job, CancelledForGood(j), NEW a \in Admin,
         \/ \E o \in Op, k \in Job : Read(a, o, k)
         \/ Progress(a) \/ SaveThrows(a) \/ PublishRepeats(a) \/ AdminDies(a)
  PROVE  CancelledForGood(j)'
<1> USE DEF InOrder, TypeOK
<1>1. UNCHANGED listenerVars
  BY DEF Read, Progress, SaveJob, SaveThrows, Publish, PublishRepeats, AdminDies
<1>2. rows'[j].status = "CANCELLED"
  <2>1. rows' = rows \/ (pc[a] = "save" /\ rows' = [rows EXCEPT ![job[a]] = copy[a]])
    BY DEF Read, Progress, SaveJob, SaveThrows, Publish, PublishRepeats, AdminDies
  <2> QED BY <2>1 DEF CancelledForGood, Engaged
<1>3. \A b \in Admin : job'[b] = j /\ pc'[b] = "save" => copy'[b].status = "CANCELLED"
  <2>1. ASSUME NEW o \in Op, NEW k \in Job, Read(a, o, k), Accepts(o, rows[k])
        PROVE  \A b \in Admin : job'[b] = j /\ pc'[b] = "save" => copy'[b].status = "CANCELLED"
    <3>1. k = j => Applied(o, rows[k]).status = "CANCELLED"
      BY <2>1 DEF CancelledForGood, Accepts, Applied, NextStatus, Absent, Row
    <3> QED BY <2>1, <3>1 DEF Read, Step, CancelledForGood
  <2>2. CASE Over(a)
    BY <2>2 DEF Over, Step, CancelledForGood
  <2>3. CASE UNCHANGED <<job, copy>> /\ (UNCHANGED pc \/ Step(a, "publish") \/ Step(a, "again"))
    BY <2>3 DEF Step, CancelledForGood
  <2> QED BY <2>1, <2>2, <2>3 DEF Read, Progress, SaveJob, SaveThrows, Publish, PublishRepeats,
                                  AdminDies, adminVars
<1> QED BY <1>1, <1>2, <1>3 DEF CancelledForGood, Current, listenerVars

LEMMA WorkerKeepsCancelled ==
  ASSUME InOrder, NEW j \in Job, CancelledForGood(j),
         Answer \/ AnswerRepeats \/ Ack \/ AckFails \/ Nack
  PROVE  CancelledForGood(j)'
<1>1. UNCHANGED <<rows, adminVars, handling>>
  BY DEF Answer, AnswerRepeats, Ack, AckFails, Nack, listenerVars
<1>2. results # <<>> => Current' = Current
  <2>1. CASE results' = results
    BY <2>1 DEF Current
  <2>2. ASSUME requests # <<>>, NEW ok \in BOOLEAN,
               results' = Append(results, ResultOf(Head(requests), ok))
        PROVE  results # <<>> => Current' = Current
    BY <2>2, ResultAppended
  <2> QED BY <2>1, <2>2 DEF Answer, AnswerRepeats, Ack, AckFails, Nack, listenerVars
<1> QED BY <1>1, <1>2 DEF CancelledForGood, InOrder, adminVars

LEMMA ListenerKeepsCancelled ==
  ASSUME InOrder, NEW j \in Job, CancelledForGood(j), Listens
  PROVE  CancelledForGood(j)'
<1>1. UNCHANGED adminVars
  BY DEF Listens, IgnoreResult, TakeResult, SaveResult, SaveFinal, CreateFails, ResultLost,
         ListenerDies, CreateProblem, CreateRepeats
<1>2. rows'[j].status = "CANCELLED"
  <2>1. rows' = rows \/ (handling # "idle" /\ rows' = [rows EXCEPT ![Current.job] = result])
    BY DEF Listens, IgnoreResult, TakeResult, SaveResult, SaveFinal, CreateFails, ResultLost,
           ListenerDies, CreateProblem, CreateRepeats
  <2> QED BY <2>1 DEF CancelledForGood, InOrder, TypeOK
<1>3. handling' # "idle" => Current'.job # j
  <2>1. CASE TakeResult
    BY <2>1 DEF TakeResult, CancelledForGood, Current
  <2>2. CASE handling' = "idle"
    BY <2>2
  <2>3. CASE handling # "idle" /\ results' = results
    BY <2>3 DEF CancelledForGood, Current
  <2> QED BY <2>1, <2>2, <2>3
          DEF Listens, IgnoreResult, SaveResult, SaveFinal, CreateFails, ResultLost,
              ListenerDies, CreateProblem, CreateRepeats, AckResult, Handle, listenerVars
<1> QED BY <1>1, <1>2, <1>3 DEF CancelledForGood, adminVars

(* No request and no late result brings back a cancelled job that nobody   *)
(* holds an earlier copy of.                                               *)
THEOREM CancelledStays == Spec => CancelIsFinal
<1>1. InOrder /\ [Next]_vars =>
        [\A j \in Job : CancelledForGood(j) => CancelledForGood(j)']_vars
  <2> SUFFICES ASSUME InOrder, Next, NEW j \in Job, CancelledForGood(j)
               PROVE  CancelledForGood(j)'
    OBVIOUS
  <2> QED BY AdminKeepsCancelled, WorkerKeepsCancelled, ListenerKeepsCancelled
             DEF Next, Worker, Listener, Listens
<1> QED BY <1>1, InOrderHolds, PTL DEF Spec, CancelIsFinal

-----------------------------------------------------------------------------
(* A completed job has its problem, or the result that makes it is queued. *)

Final(m) == m.type = "FULL_GENERATE" /\ m.ok
Missing(r, j) == r.status = "COMPLETED" /\ r.problem = None /\ j \notin harmed
Queued(j) == \E i \in DOMAIN results : results[i] = [type |-> "FULL_GENERATE", job |-> j, ok |-> TRUE]

(* No admin's copy is completed, and the listener's is only in the course  *)
(* of handling a final result, with its problem before the last save.      *)
OnTheWay ==
  /\ \A a \in Admin : pc[a] \in Engaged => copy[a].status # "COMPLETED"
  /\ handling \in {"saveResult", "create"} => Final(Current)
  /\ handling = "save" => ~Missing(result, Current.job)

LEMMA OnTheWayInit == Init => OnTheWay /\ CompletedHasProblem
BY DEF Init, OnTheWay, CompletedHasProblem, Absent, Engaged

LEMMA AdminOnTheWay ==
  ASSUME InOrder, OnTheWay, CompletedHasProblem, NEW a \in Admin,
         \/ \E o \in Op, k \in Job : Read(a, o, k)
         \/ Progress(a) \/ SaveThrows(a) \/ PublishRepeats(a) \/ AdminDies(a)
  PROVE  OnTheWay' /\ CompletedHasProblem'
<1> USE DEF InOrder, TypeOK
<1>1. UNCHANGED listenerVars
  BY DEF Read, Progress, SaveJob, SaveThrows, Publish, PublishRepeats, AdminDies
<1>2. harmed \subseteq harmed'
  BY DEF Read, Progress, SaveJob, SaveThrows, Publish, PublishRepeats, AdminDies, Fault, faultVars
<1>3. \A b \in Admin : pc'[b] \in Engaged => copy'[b].status # "COMPLETED"
  <2>1. ASSUME NEW o \in Op, NEW k \in Job, Read(a, o, k), Accepts(o, rows[k])
        PROVE  \A b \in Admin : pc'[b] \in Engaged => copy'[b].status # "COMPLETED"
    <3>1. Applied(o, rows[k]).status # "COMPLETED"
      BY DEF Applied, NextStatus, Row
    <3> QED BY <2>1, <3>1 DEF Read, Step, OnTheWay, Engaged
  <2>2. CASE Over(a)
    BY <2>2 DEF Over, Step, OnTheWay, Engaged
  <2>3. CASE UNCHANGED copy /\ (UNCHANGED pc \/ Step(a, "publish") \/ Step(a, "again"))
             /\ pc[a] \in Engaged
    BY <2>3 DEF Step, OnTheWay, Engaged
  <2> QED BY <2>1, <2>2, <2>3 DEF Read, Progress, SaveJob, SaveThrows, Publish, PublishRepeats,
                                  AdminDies, adminVars, Engaged
<1>4. \A j \in Job : rows'[j].status = "COMPLETED" => rows'[j] = rows[j]
  <2>1. rows' = rows \/ (pc[a] = "save" /\ rows' = [rows EXCEPT ![job[a]] = copy[a]])
    BY DEF Read, Progress, SaveJob, SaveThrows, Publish, PublishRepeats, AdminDies
  <2>2. pc[a] = "save" => copy[a].status # "COMPLETED"
    BY DEF OnTheWay, Engaged
  <2> QED BY <2>1, <2>2
<1>5. CompletedHasProblem'
  BY <1>1, <1>2, <1>4 DEF CompletedHasProblem, listenerVars
<1>6. OnTheWay'
  BY <1>1, <1>2, <1>3 DEF OnTheWay, Missing, Final, Current, listenerVars
<1> QED BY <1>5, <1>6

LEMMA WorkerOnTheWay ==
  ASSUME InOrder, OnTheWay, CompletedHasProblem,
         Answer \/ AnswerRepeats \/ Ack \/ AckFails \/ Nack
  PROVE  OnTheWay' /\ CompletedHasProblem'
<1>1. UNCHANGED <<rows, adminVars, handling, result>> /\ harmed \subseteq harmed'
  BY DEF Answer, AnswerRepeats, Ack, AckFails, Nack, listenerVars, faultVars, Fault
<1>2. /\ results # <<>> => Current' = Current
      /\ \A i \in DOMAIN results : i \in DOMAIN results' /\ results'[i] = results[i]
  <2>1. CASE results' = results
    BY <2>1 DEF Current
  <2>2. ASSUME requests # <<>>, NEW ok \in BOOLEAN,
               results' = Append(results, ResultOf(Head(requests), ok))
        PROVE  /\ results # <<>> => Current' = Current
               /\ \A i \in DOMAIN results : i \in DOMAIN results' /\ results'[i] = results[i]
    BY <2>2, ResultAppended
  <2> QED BY <2>1, <2>2 DEF Answer, AnswerRepeats, Ack, AckFails, Nack, listenerVars
<1>3. CompletedHasProblem'
  <2> SUFFICES ASSUME NEW j \in Job, Missing(rows[j], j)' PROVE Queued(j)'
    BY DEF CompletedHasProblem, Missing, Queued
  <2>1. Missing(rows[j], j)
    BY <1>1 DEF Missing
  <2>2. Queued(j)
    BY <2>1 DEF CompletedHasProblem, Missing, Queued
  <2> QED BY <1>2, <2>2 DEF Queued
<1>4. OnTheWay'
  BY <1>1, <1>2 DEF OnTheWay, Missing, Final, InOrder, adminVars
<1> QED BY <1>3, <1>4

LEMMA ListenerOnTheWay ==
  ASSUME InOrder, OnTheWay, CompletedHasProblem, Listens
  PROVE  OnTheWay' /\ CompletedHasProblem'
<1>0. UNCHANGED adminVars /\ harmed \subseteq harmed'
      /\ (results # <<>> => Current \in Result /\ Current.job \in Job)
  BY MessageTypes DEF Listens, IgnoreResult, TakeResult, SaveResult, SaveFinal, CreateFails,
     ResultLost, ListenerDies, CreateProblem, CreateRepeats, Fault, faultVars, Result
<1>a. \A a \in Admin : pc'[a] \in Engaged => copy'[a].status # "COMPLETED"
  BY <1>0 DEF OnTheWay, adminVars
<1>1. CASE TakeResult
  <2>1. Current \in Result /\ rows[Current.job] \in Row
    BY <1>0, <1>1 DEF TakeResult, InOrder, TypeOK
  <2>2. handling' = "saveResult" => Final(Current)
    BY <1>1 DEF TakeResult, Handle, Final
  <2>3. handling' = "save" => result'.status # "COMPLETED"
    BY <1>1, <2>1 DEF TakeResult, Handle, WithResult, Row, Result, Message
  <2>4. handling' \in {"saveResult", "save"} /\ UNCHANGED <<rows, results, harmed>>
    BY <1>1 DEF TakeResult, Handle, faultVars
  <2> QED BY <1>a, <2>2, <2>3, <2>4 DEF OnTheWay, Missing, CompletedHasProblem, Current
<1>2. CASE SaveResult
  <2>1. /\ rows' = [rows EXCEPT ![Current.job] = result] /\ results # <<>>
        /\ handling' = "create" /\ UNCHANGED <<results, harmed>> /\ Final(Current)
    BY <1>2 DEF SaveResult, Handle, InOrder, OnTheWay, faultVars
  <2>2. Current = [type |-> "FULL_GENERATE", job |-> Current.job, ok |-> TRUE]
    BY <1>0, <2>1 DEF Result, Final
  <2>3. 1 \in DOMAIN results /\ results[1] = Current
    BY <2>1, EmptySeq, LenProperties DEF Current, InOrder, TypeOK
  <2>4. CompletedHasProblem'
    BY <1>0, <2>1, <2>2, <2>3 DEF CompletedHasProblem, InOrder, TypeOK
  <2> QED BY <1>a, <2>1, <2>4 DEF OnTheWay, Final, Current
<1>3. ASSUME NEW p \in Problem, CreateProblem(p)
      PROVE  OnTheWay' /\ CompletedHasProblem'
  <2>1. handling' = "save" /\ UNCHANGED <<rows, results, harmed>> /\ result'.problem # None
    BY <1>3, NoneAssumption DEF CreateProblem, Handle, InOrder, TypeOK, Row, faultVars
  <2> QED BY <1>a, <2>1 DEF OnTheWay, Missing, CompletedHasProblem
<1>4. CASE CreateFails
  <2>1. handling' = "save" /\ UNCHANGED <<rows, results>> /\ Current.job \in harmed'
    BY <1>4 DEF CreateFails, Handle
  <2> QED BY <1>0, <1>a, <2>1 DEF OnTheWay, Missing, CompletedHasProblem, Current
<1>5. CASE ListenerDies \/ \E p \in Problem : CreateRepeats(p)
  <2>1. /\ UNCHANGED <<rows, results, result>>
        /\ handling' = "idle" \/ handling' = handling
    BY <1>5 DEF ListenerDies, CreateRepeats, Handle, listenerVars
  <2> QED BY <1>0, <1>a, <2>1 DEF OnTheWay, Missing, Final, CompletedHasProblem, Current
<1>6. CASE IgnoreResult \/ SaveFinal \/ ResultLost
  <2>1. handling' = "idle" /\ results # <<>> /\ results' = Tail(results)
    BY <1>6 DEF IgnoreResult, SaveFinal, ResultLost, AckResult, Handle, InOrder
  <2>2. ASSUME NEW j \in Job, Missing(rows[j], j)'
        PROVE  j # Current.job /\ rows'[j] = rows[j]
    <3>1. CASE IgnoreResult
      BY <2>2, <3>1 DEF IgnoreResult, Missing, faultVars
    <3>2. CASE ResultLost
      BY <2>2, <3>2 DEF ResultLost, Missing, Fault
    <3>3. CASE SaveFinal
      BY <1>0, <2>1, <2>2, <3>3 DEF SaveFinal, Missing, OnTheWay, InOrder, TypeOK, faultVars
    <3> QED BY <1>6, <3>1, <3>2, <3>3
  <2>3. ASSUME NEW j \in Job, Missing(rows[j], j)'
        PROVE  Queued(j)'
    <3>1. j # Current.job /\ Missing(rows[j], j)
      BY <1>0, <2>2, <2>3 DEF Missing
    <3>2. PICK i \in DOMAIN results : results[i] = [type |-> "FULL_GENERATE", job |-> j, ok |-> TRUE]
      BY <3>1 DEF CompletedHasProblem, Missing
    <3>3. i # 1
      BY <2>1, <3>1, <3>2, ResultRemoved
    <3>4. i - 1 \in DOMAIN results' /\ results'[i - 1] = results[i]
      BY <2>1, <3>3, ResultRemoved
    <3> QED BY <3>2, <3>4 DEF Queued
  <2>4. CompletedHasProblem'
    BY <2>3 DEF CompletedHasProblem, Missing, Queued
  <2> QED BY <1>a, <2>1, <2>4 DEF OnTheWay
<1> QED BY <1>1, <1>2, <1>3, <1>4, <1>5, <1>6 DEF Listens

LEMMA OnTheWayStep ==
  InOrder /\ OnTheWay /\ CompletedHasProblem /\ [Next]_vars => (OnTheWay /\ CompletedHasProblem)'
<1> SUFFICES ASSUME InOrder, OnTheWay, CompletedHasProblem, [Next]_vars
             PROVE  (OnTheWay /\ CompletedHasProblem)'
  OBVIOUS
<1>1. CASE UNCHANGED vars
  BY <1>1 DEF vars, OnTheWay, Missing, Final, Current, CompletedHasProblem,
              adminVars, workerVars, listenerVars, faultVars
<1>2. CASE Next
  BY <1>2, AdminOnTheWay, WorkerOnTheWay, ListenerOnTheWay DEF Next, Worker, Listener, Listens
<1> QED BY <1>1, <1>2

(* A completed job that no failure touched has its problem, or the result  *)
(* that makes it is still in the queue.                                    *)
THEOREM CompletedGetProblems == Spec => []CompletedHasProblem
<1> QED BY InOrderHolds, OnTheWayInit, OnTheWayStep, PTL DEF Spec

-----------------------------------------------------------------------------
(* A job in progress waits for something.                                  *)

(* The copy a cancel is about to save is cancelled.                        *)
CancelsCancel ==
  \A a \in Admin : pc[a] = "save" /\ op[a] = "cancel" => copy[a].status = "CANCELLED"

(* The row a result leaves behind is not in progress.                      *)
SettlesRow == handling # "idle" => result.status \notin InProgress

LEMMA WaitsInit == Init => CancelsCancel /\ SettlesRow /\ NobodyWaitsInVain
BY DEF Init, CancelsCancel, SettlesRow, NobodyWaitsInVain, Absent, InProgress

LEMMA CancelsStep == InOrder /\ CancelsCancel /\ [Next]_vars => CancelsCancel'
<1> SUFFICES ASSUME InOrder, CancelsCancel, [Next]_vars PROVE CancelsCancel'
  OBVIOUS
<1> USE DEF InOrder, TypeOK
<1>1. ASSUME NEW a \in Admin, NEW o \in Op, NEW j \in Job, Read(a, o, j)
      PROVE  CancelsCancel'
  <2>1. CASE Accepts(o, rows[j])
    <3>1. o = "cancel" => Applied(o, rows[j]).status = "CANCELLED"
      BY DEF Applied, NextStatus, Row
    <3> QED BY <1>1, <2>1, <3>1 DEF Read, Step, CancelsCancel
  <2>2. CASE ~Accepts(o, rows[j])
    BY <1>1, <2>2 DEF Read, Over, Step, CancelsCancel
  <2> QED BY <2>1, <2>2
<1>2. ASSUME NEW a \in Admin, SaveJob(a) \/ SaveThrows(a) \/ Publish(a) \/ AdminDies(a)
      PROVE  CancelsCancel'
  BY <1>2 DEF SaveJob, SaveThrows, Publish, AdminDies, Over, Step, CancelsCancel
<1>3. CASE UNCHANGED adminVars
  BY <1>3 DEF adminVars, CancelsCancel
<1> QED BY <1>1, <1>2, <1>3
        DEF Next, Progress, PublishRepeats, Worker, Answer, AnswerRepeats, Ack, AckFails, Nack,
            Listener, IgnoreResult, TakeResult, SaveResult, SaveFinal, CreateFails, ResultLost,
            ListenerDies, CreateProblem, CreateRepeats, vars

(* What the others wait for is not touched by an admin's step.             *)
LEMMA AdminWaits ==
  ASSUME InOrder, CancelsCancel, NobodyWaitsInVain, NEW a \in Admin,
         \/ \E o \in Op, k \in Job : Read(a, o, k)
         \/ Progress(a) \/ SaveThrows(a) \/ PublishRepeats(a) \/ AdminDies(a)
  PROVE  NobodyWaitsInVain'
<1> USE DEF InOrder, TypeOK
<1>0. /\ UNCHANGED <<working, results>> /\ harmed \subseteq harmed'
      /\ \A b \in Admin \ {a} : pc'[b] = pc[b] /\ job'[b] = job[b]
      /\ pc' \in [Admin -> {"new", "again", "save", "publish", "over"}]
  <2>1. UNCHANGED <<working, results>> /\ harmed \subseteq harmed'
    BY DEF Read, Progress, SaveJob, SaveThrows, Publish, PublishRepeats, AdminDies, Fault,
           workerVars, listenerVars, faultVars
  <2>2. \A b \in Admin \ {a} : pc'[b] = pc[b] /\ job'[b] = job[b]
    BY DEF Read, Progress, SaveJob, SaveThrows, Publish, PublishRepeats, AdminDies, Over, Step,
           adminVars
  <2>3. InOrder'
    BY ReadInOrder, SaveInOrder, PublishInOrder DEF Progress
  <2> QED BY <2>1, <2>2, <2>3
<1>1. \A i \in Unanswered : i \in Unanswered' /\ requests'[i] = requests[i]
  <2>1. CASE requests' = requests
    BY <1>0, <2>1 DEF Unanswered
  <2>2. CASE pc[a] = "publish" /\ requests' = Append(requests, RequestOf(a))
    BY <1>0, <2>2, RequestAppended DEF Unanswered
  <2> QED BY <2>1, <2>2 DEF Read, Progress, SaveJob, SaveThrows, Publish, PublishRepeats,
                            AdminDies, workerVars
<1>2. ASSUME NEW j \in Job, Awaited(j), ~(pc[a] = "publish" /\ job[a] = j)
      PROVE  Awaited(j)'
  BY <1>0, <1>1, <1>2 DEF Awaited
<1> SUFFICES ASSUME NEW j \in Job, rows'[j].status \in InProgress, j \notin harmed'
             PROVE  Awaited(j)'
  BY DEF NobodyWaitsInVain
<1>3. CASE rows'[j] = rows[j]
  <2>1. Awaited(j)
    BY <1>0, <1>3 DEF NobodyWaitsInVain
  <2>2. CASE ~(pc[a] = "publish" /\ job[a] = j)
    BY <1>2, <2>1, <2>2
  <2>3. CASE pc[a] = "publish" /\ job[a] = j
    <3>1. Publish(a) \/ PublishRepeats(a)
      BY <2>3 DEF Read, Progress, SaveJob, SaveThrows, AdminDies, Fault
    <3>2. requests' = Append(requests, RequestOf(a))
      BY <3>1 DEF Publish, PublishRepeats
    <3>3. /\ Len(requests) \in Nat /\ Len(requests) + 1 \in DOMAIN requests'
          /\ requests'[Len(requests) + 1] = RequestOf(a)
      BY <2>3, <3>2, RequestAppended
    <3>4. working = "answered" => Len(requests) > 0
      BY <3>3, EmptySeq
    <3>5. Len(requests) + 1 \in Unanswered'
      BY <1>0, <3>3, <3>4 DEF Unanswered
    <3> QED BY <2>3, <3>3, <3>5 DEF Awaited, RequestOf
  <2> QED BY <2>2, <2>3
<1>4. CASE rows'[j] # rows[j]
  <2>1. SaveJob(a) \/ SaveThrows(a)
    BY <1>4 DEF Read, Progress, Publish, PublishRepeats, AdminDies
  <2>2. /\ pc[a] = "save" /\ job[a] = j /\ rows'[j] = copy[a]
    BY <1>4, <2>1 DEF SaveJob, SaveThrows
  <2>3. ~SaveThrows(a)
    BY <1>4, <2>2 DEF SaveThrows, Fault
  <2>4. op[a] # "cancel"
    BY <2>2 DEF CancelsCancel, InProgress
  <2>5. pc'[a] = "publish" /\ job'[a] = j
    BY <2>1, <2>2, <2>3, <2>4 DEF SaveJob, Step
  <2> QED BY <2>5 DEF Awaited
<1> QED BY <1>3, <1>4

(* A request leaves the unanswered ones with its result in the other queue.*)
LEMMA WorkerWaits ==
  ASSUME InOrder, NobodyWaitsInVain, Answer \/ AnswerRepeats \/ Ack \/ AckFails \/ Nack
  PROVE  NobodyWaitsInVain'
<1> USE DEF InOrder, TypeOK
<1>0. UNCHANGED <<rows, adminVars>> /\ harmed \subseteq harmed'
  BY DEF Answer, AnswerRepeats, Ack, AckFails, Nack, Fault, faultVars
<1> SUFFICES ASSUME NEW j \in Job, rows'[j].status \in InProgress, j \notin harmed'
             PROVE  Awaited(j)'
  BY DEF NobodyWaitsInVain
<1>1. Awaited(j)
  BY <1>0 DEF NobodyWaitsInVain
<1>2. CASE \E a \in Admin : pc[a] = "publish" /\ job[a] = j
  BY <1>0, <1>2 DEF Awaited, adminVars
<1>3. CASE \E i \in DOMAIN results : results[i].job = j
  <2>1. \A i \in DOMAIN results : i \in DOMAIN results' /\ results'[i] = results[i]
    <3>1. ASSUME requests # <<>>, NEW ok \in BOOLEAN,
                 results' = Append(results, ResultOf(Head(requests), ok))
          PROVE  \A i \in DOMAIN results : i \in DOMAIN results' /\ results'[i] = results[i]
      BY <3>1, ResultAppended
    <3> QED BY <3>1 DEF Answer, AnswerRepeats, Ack, AckFails, Nack, listenerVars
  <2> QED BY <1>3, <2>1 DEF Awaited
<1>4. ASSUME NEW i \in Unanswered, requests[i].job = j
      PROVE  Awaited(j)'
  <2>0. requests # <<>> /\ DOMAIN requests = 1..Len(requests) /\ Len(requests) \in Nat
        /\ Head(requests) = requests[1]
    BY <1>4, LenProperties, EmptySeq DEF Unanswered
  <2>1. CASE Answer \/ AnswerRepeats
    <3>1. UNCHANGED requests
      BY <2>1 DEF Answer, AnswerRepeats, workerVars
    <3>2. CASE i = 1
      <4>1. PICK ok \in BOOLEAN : results' = Append(results, ResultOf(Head(requests), ok))
        BY <2>1 DEF Answer, AnswerRepeats
      <4>2. /\ Len(results) + 1 \in DOMAIN results'
            /\ results'[Len(results) + 1] = ResultOf(Head(requests), ok)
        BY <2>0, <4>1, ResultAppended
      <4>3. results'[Len(results) + 1].job = j
        BY <1>4, <2>0, <3>2, <4>2 DEF ResultOf
      <4> QED BY <4>2, <4>3 DEF Awaited
    <3>3. CASE i # 1
      BY <1>4, <2>0, <3>1, <3>3 DEF Unanswered, Awaited
    <3> QED BY <3>2, <3>3
  <2>2. CASE Ack \/ Nack
    <3>1. requests' = Tail(requests) /\ working' = "idle"
      BY <2>2 DEF Ack, Nack
    <3>2. i # 1
      <4>1. CASE Ack
        BY <1>4, <4>1 DEF Ack, Unanswered
      <4>2. CASE Nack
        BY <1>4, <2>0, <4>2 DEF Nack, Fault
      <4> QED BY <2>2, <4>1, <4>2
    <3>3. i - 1 \in DOMAIN requests' /\ requests'[i - 1] = requests[i]
      BY <1>4, <2>0, <3>1, <3>2, RequestRemoved DEF Unanswered
    <3> QED BY <1>4, <3>1, <3>3 DEF Unanswered, Awaited
  <2>3. CASE AckFails
    BY <1>4, <2>3 DEF AckFails, Unanswered, Awaited
  <2> QED BY <2>1, <2>2, <2>3
<1> QED BY <1>1, <1>2, <1>3, <1>4 DEF Awaited

(* A result leaves its queue with the row out of progress.                 *)
LEMMA ListenerWaits ==
  ASSUME InOrder, NobodyWaitsInVain, SettlesRow, Listens
  PROVE  NobodyWaitsInVain'
<1> USE DEF InOrder, TypeOK
<1>0. UNCHANGED <<adminVars, workerVars>> /\ harmed \subseteq harmed'
  BY DEF Listens, IgnoreResult, TakeResult, SaveResult, SaveFinal, CreateFails, ResultLost,
         ListenerDies, CreateProblem, CreateRepeats, Fault, faultVars
<1> SUFFICES ASSUME NEW j \in Job, rows'[j].status \in InProgress, j \notin harmed'
             PROVE  Awaited(j)'
  BY DEF NobodyWaitsInVain
<1>1. rows' = rows \/ (handling \in {"saveResult", "save"} /\ rows' = [rows EXCEPT ![Current.job] = result])
  BY DEF Listens, IgnoreResult, TakeResult, SaveResult, SaveFinal, CreateFails, ResultLost,
         ListenerDies, CreateProblem, CreateRepeats
<1>2. rows'[j] = rows[j]
  BY <1>1 DEF SettlesRow
<1>3. Awaited(j)
  BY <1>0, <1>2 DEF NobodyWaitsInVain
<1>4. CASE results' = results
  BY <1>0, <1>3, <1>4 DEF Awaited, Unanswered, adminVars, workerVars
<1>5. CASE results # <<>> /\ results' = Tail(results) /\ Current.job # j
  <2>1. ASSUME NEW i \in DOMAIN results, results[i].job = j
        PROVE  i - 1 \in DOMAIN results' /\ results'[i - 1] = results[i]
    <3>1. i # 1
      BY <1>5, <2>1, ResultRemoved
    <3> QED BY <1>5, <2>1, <3>1, ResultRemoved
  <2> QED BY <1>0, <1>3, <2>1 DEF Awaited, Unanswered, adminVars, workerVars
<1>6. results' = results \/ (results # <<>> /\ results' = Tail(results) /\ Current.job # j)
  <2>1. CASE IgnoreResult
    BY <1>2, <2>1 DEF IgnoreResult, AckResult, InProgress
  <2>2. CASE SaveFinal
    <3>1. rows' = [rows EXCEPT ![Current.job] = result] /\ results' = Tail(results)
          /\ handling = "save" /\ results # <<>>
      BY <2>2 DEF SaveFinal, AckResult
    <3> QED BY <3>1 DEF SettlesRow
  <2>3. CASE ResultLost
    BY <2>3 DEF ResultLost, AckResult, Fault
  <2> QED BY <2>1, <2>2, <2>3
          DEF Listens, TakeResult, SaveResult, CreateFails, ListenerDies, CreateProblem,
              CreateRepeats, listenerVars
<1> QED BY <1>4, <1>5, <1>6

LEMMA SettlesStep == InOrder /\ SettlesRow /\ [Next]_vars => SettlesRow'
<1> SUFFICES ASSUME InOrder, SettlesRow, [Next]_vars PROVE SettlesRow'
  OBVIOUS
<1> USE DEF InOrder, TypeOK
<1>1. CASE TakeResult
  <2>1. Current \in Result /\ rows[Current.job] \in Row
    BY <1>1, MessageTypes DEF TakeResult, Result
  <2> QED BY <1>1, <2>1 DEF TakeResult, SettlesRow, WithResult, Row, InProgress
<1>2. ASSUME NEW p \in Problem, CreateProblem(p)
      PROVE  SettlesRow'
  BY <1>2 DEF CreateProblem, SettlesRow, Row
<1>3. CASE handling' = "idle" \/ (handling # "idle" /\ result' = result)
  BY <1>3 DEF SettlesRow
<1>4. CASE UNCHANGED <<handling, result>>
  BY <1>4 DEF SettlesRow
<1> QED BY <1>1, <1>2, <1>3, <1>4
        DEF Next, Progress, Read, SaveJob, SaveThrows, Publish, PublishRepeats, AdminDies,
            Worker, Answer, AnswerRepeats, Ack, AckFails, Nack, Listener, IgnoreResult,
            SaveResult, SaveFinal, CreateFails, ResultLost, ListenerDies, CreateRepeats,
            AckResult, Handle, listenerVars, vars

LEMMA WaitsStep ==
  InOrder /\ CancelsCancel /\ SettlesRow /\ NobodyWaitsInVain /\ [Next]_vars => NobodyWaitsInVain'
<1> SUFFICES ASSUME InOrder, CancelsCancel, SettlesRow, NobodyWaitsInVain, [Next]_vars
             PROVE  NobodyWaitsInVain'
  OBVIOUS
<1>1. CASE UNCHANGED vars
  BY <1>1 DEF vars, NobodyWaitsInVain, Awaited, Unanswered, adminVars, workerVars, listenerVars,
              faultVars
<1>2. CASE Next
  BY <1>2, AdminWaits, WorkerWaits, ListenerWaits DEF Next, Worker, Listener, Listens
<1> QED BY <1>1, <1>2

(* A job in progress has a request or a result under way, unless one of    *)
(* the failures in harmed took it.                                         *)
THEOREM NobodyLeftWaiting == Spec => []NobodyWaitsInVain
<1> QED BY InOrderHolds, WaitsInit, CancelsStep, SettlesStep, WaitsStep, PTL DEF Spec

-----------------------------------------------------------------------------
(* A row names only a problem of its own job.                              *)

LEMMA OwnedInit == Init => ProblemsOwned
BY DEF Init, ProblemsOwned, Owned, Absent

(* A problem once made keeps its job.                                      *)
MadeKept == \A p \in Problem : made[p] # None => made'[p] = made[p]

LEMMA OwnedKept ==
  ASSUME NEW r \in Row, NEW j \in Job, Owned(r, j), MadeKept
  PROVE  r.problem # None => made'[r.problem] = j
BY NoneAssumption DEF Owned, MadeKept, Row

LEMMA AdminOwned ==
  ASSUME InOrder, ProblemsOwned, NEW a \in Admin,
         \/ \E o \in Op, j \in Job : Read(a, o, j)
         \/ Progress(a) \/ SaveThrows(a) \/ PublishRepeats(a) \/ AdminDies(a)
  PROVE  ProblemsOwned'
<1> USE DEF InOrder, TypeOK
<1>1. UNCHANGED <<made, listenerVars>>
  BY DEF Read, Progress, SaveJob, SaveThrows, Publish, PublishRepeats, AdminDies
<1>2. \A j \in Job : Owned(rows'[j], j)
  <2>1. rows' = rows \/ (pc[a] = "save" /\ rows' = [rows EXCEPT ![job[a]] = copy[a]])
    BY DEF Read, Progress, SaveJob, SaveThrows, Publish, PublishRepeats, AdminDies
  <2> QED BY <2>1 DEF ProblemsOwned, Engaged
<1>3. \A b \in Admin : pc'[b] \in Engaged => Owned(copy'[b], job'[b])
  <2>1. ASSUME NEW o \in Op, NEW j \in Job, Read(a, o, j), Accepts(o, rows[j])
        PROVE  \A b \in Admin : pc'[b] \in Engaged => Owned(copy'[b], job'[b])
    <3>1. Owned(Applied(o, rows[j]), j)
      BY DEF Applied, Owned, ProblemsOwned, Row
    <3> QED BY <2>1, <3>1 DEF Read, Step, ProblemsOwned, Engaged
  <2>2. CASE Over(a)
    BY <2>2 DEF Over, Step, ProblemsOwned, Engaged
  <2>3. CASE UNCHANGED <<copy, job>> /\ (UNCHANGED pc \/ Step(a, "publish") \/ Step(a, "again"))
             /\ pc[a] \in Engaged
    BY <2>3 DEF Step, ProblemsOwned, Engaged
  <2> QED BY <2>1, <2>2, <2>3 DEF Read, Progress, SaveJob, SaveThrows, Publish, PublishRepeats,
                                  AdminDies, adminVars, Engaged
<1> QED BY <1>1, <1>2, <1>3 DEF ProblemsOwned, Owned, Engaged, Current, listenerVars

LEMMA WorkerOwned ==
  ASSUME InOrder, ProblemsOwned, Answer \/ AnswerRepeats \/ Ack \/ AckFails \/ Nack
  PROVE  ProblemsOwned'
<1>1. UNCHANGED <<rows, made, adminVars, handling, result>>
  BY DEF Answer, AnswerRepeats, Ack, AckFails, Nack, listenerVars
<1>2. results # <<>> => Current' = Current
  <2>1. CASE results' = results
    BY <2>1 DEF Current
  <2>2. ASSUME requests # <<>>, NEW ok \in BOOLEAN,
               results' = Append(results, ResultOf(Head(requests), ok))
        PROVE  results # <<>> => Current' = Current
    BY <2>2, ResultAppended
  <2> QED BY <2>1, <2>2 DEF Answer, AnswerRepeats, Ack, AckFails, Nack, listenerVars
<1> QED BY <1>1, <1>2 DEF ProblemsOwned, Owned, InOrder, adminVars

(* What the listener puts into its row, and where it saves it.             *)
LEMMA ListenerOwned ==
  ASSUME InOrder, ProblemsOwned, Listens
  PROVE  ProblemsOwned'
<1>0. /\ UNCHANGED adminVars
      /\ results # <<>> => Current \in Result /\ Current.job \in Job
      /\ handling # "idle" => results # <<>>
  BY MessageTypes DEF Listens, IgnoreResult, TakeResult, SaveResult, SaveFinal, CreateFails,
     ResultLost, ListenerDies, CreateProblem, CreateRepeats, Result, InOrder
<1>1. MadeKept
  <2>1. UNCHANGED made \/ \E p \in Problem, j \in Job : made[p] = None /\ made' = [made EXCEPT ![p] = j]
    BY <1>0 DEF Listens, IgnoreResult, TakeResult, SaveResult, SaveFinal, CreateFails,
       ResultLost, ListenerDies, CreateProblem, CreateRepeats
  <2> QED BY <2>1 DEF MadeKept, InOrder, TypeOK
<1>2. \A j \in Job : rows'[j].problem # None => made'[rows'[j].problem] = j
  <2>1. rows' = rows \/ (handling # "idle" /\ rows' = [rows EXCEPT ![Current.job] = result])
    BY DEF Listens, IgnoreResult, TakeResult, SaveResult, SaveFinal, CreateFails, ResultLost,
           ListenerDies, CreateProblem, CreateRepeats
  <2>2. \A j \in Job : Owned(rows'[j], j) /\ rows'[j] \in Row
    BY <1>0, <2>1 DEF ProblemsOwned, InOrder, TypeOK
  <2> QED BY <1>1, <2>2, OwnedKept
<1>3. \A a \in Admin : pc'[a] \in Engaged =>
        (copy'[a].problem # None => made'[copy'[a].problem] = job'[a])
  <2>1. \A a \in Admin : pc[a] \in Engaged =>
          Owned(copy[a], job[a]) /\ copy[a] \in Row /\ job[a] \in Job
    BY DEF ProblemsOwned, InOrder, TypeOK, Engaged
  <2> QED BY <1>0, <1>1, <2>1, OwnedKept DEF adminVars
<1>4. handling' # "idle" => (result'.problem # None => made'[result'.problem] = Current'.job)
  <2>1. CASE TakeResult
    <3>1. Current' = Current /\ UNCHANGED made /\ Current.job \in Job
          /\ result' = WithResult(rows[Current.job], Current)
      BY <1>0, <2>1 DEF TakeResult, Current
    <3>2. result'.problem = rows[Current.job].problem
      BY <1>0, <2>1, <3>1 DEF TakeResult, WithResult, Row, InOrder, TypeOK
    <3> QED BY <3>1, <3>2 DEF ProblemsOwned, Owned
  <2>2. ASSUME NEW p \in Problem, CreateProblem(p)
        PROVE  made'[result'.problem] = Current'.job
    BY <1>0, <2>2 DEF CreateProblem, Current, InOrder, TypeOK, Row
  <2>3. CASE handling' = "idle"
    BY <2>3
  <2>4. CASE handling # "idle" /\ UNCHANGED <<result, results>>
    <3>1. Owned(result, Current.job) /\ result \in Row /\ Current.job \in Job
      BY <1>0, <2>4 DEF ProblemsOwned, InOrder, TypeOK
    <3>2. Current' = Current
      BY <2>4 DEF Current
    <3> QED BY <1>1, <2>4, <3>1, <3>2, OwnedKept
  <2> QED BY <2>1, <2>2, <2>3, <2>4
          DEF Listens, IgnoreResult, SaveResult, SaveFinal, CreateFails, ResultLost,
              ListenerDies, CreateRepeats, AckResult, Handle, listenerVars
<1> QED BY <1>2, <1>3, <1>4 DEF ProblemsOwned, Owned, Engaged

(* However stale the copies saved over it, a row names no problem but one  *)
(* created from its job.                                                   *)
THEOREM ProblemsAreOwned == Spec => []ProblemsOwned
<1>1. InOrder /\ ProblemsOwned /\ [Next]_vars => ProblemsOwned'
  <2> SUFFICES ASSUME InOrder, ProblemsOwned, [Next]_vars PROVE ProblemsOwned'
    OBVIOUS
  <2>1. CASE UNCHANGED vars
    BY <2>1 DEF vars, ProblemsOwned, Owned, Current, adminVars, workerVars, listenerVars, faultVars
  <2>2. CASE Next
    BY <2>2, AdminOwned, WorkerOwned, ListenerOwned DEF Next, Worker, Listener, Listens
  <2> QED BY <2>1, <2>2
<1> QED BY <1>1, InOrderHolds, OwnedInit, PTL DEF Spec
=============================================================================
