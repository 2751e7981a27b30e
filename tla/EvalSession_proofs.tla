------------------------- MODULE EvalSession_proofs -------------------------
(* Machine-checked proofs about EvalSession, for any number of requests,   *)
(* any focus areas and times and every difficulty.                         *)
EXTENDS EvalSession, FiniteSetTheorems, TLAPS

-----------------------------------------------------------------------------
(* What each rule of the session manager makes of one session.             *)

(* compute_max_turns stays between one turn and the difficulty's.          *)
LEMMA MaxTurnsBounds == \A t \in Int : MaxTurns(t) \in 1..Base
BY TimeAssumption, BaseAssumption DEF MaxTurns, AtLeastOne

WithinBudget(s) == s.turns <= Base

Coherent(s) ==
  /\ QuestionFits(s)
  /\ s.active.area # NoArea => s.active.area \in s.probed
  /\ s.scored \subseteq s.probed
  /\ IsFiniteSet(s.probed) /\ Cardinality(s.probed) <= s.turns

Reported(s) ==
  s.report = IF s.closed
             THEN [turns |-> s.turns, answers |-> s.answers, submissions |-> s.submissions]
             ELSE NoReport

Sound(s) == s \in Session /\ WithinBudget(s) /\ Coherent(s) /\ Reported(s)

LEMMA NewIsSound == Sound(NewSession) /\ ~NewSession.closed
<1> USE BaseAssumption
<1>1. NewSession \in Session
  BY DEF NewSession, Session, Stage
<1>2. IsFiniteSet({}) /\ Cardinality({}) = 0
  BY FS_EmptySet
<1> QED BY <1>1, <1>2 DEF Sound, NewSession, WithinBudget, Coherent, QuestionFits,
                          Reported, NoFollowUp

(* Closing an open session writes the report of what it has recorded.      *)
LEMMA ClosedIsSound ==
  ASSUME NEW s, Sound(s), ~s.closed
  PROVE  Sound(Closed(s)) /\ Closed(s).closed
<1>1. Closed(s) \in Session
  BY DEF Sound, Closed, ReportOf, Session, Report
<1> QED BY <1>1 DEF Sound, Closed, ReportOf, WithinBudget, Coherent, QuestionFits,
                    Reported, Session

(* Closing after a submission also puts the stage back.                    *)
LEMMA RestagedIsSound ==
  ASSUME NEW s, Sound(s), s.closed
  PROVE  LET restaged == [s EXCEPT !.stage = "INITIAL_SUBMISSION"]
         IN  Sound(restaged) /\ restaged.closed
<1> DEFINE restaged == [s EXCEPT !.stage = "INITIAL_SUBMISSION"]
<1>1. restaged \in Session
  BY DEF Sound, Session, Stage
<1> QED BY <1>1 DEF Sound, WithinBudget, Coherent, QuestionFits, Reported, Session

(* The guardrail returns a follow-up, or none if there was none.           *)
LEMMA GuardedType ==
  ASSUME NEW s, NEW f \in FollowUp \cup {NoFollowUp}, NEW legal \in BOOLEAN
  PROVE  Guarded(s, f, legal) \subseteq FollowUp \cup {NoFollowUp}
BY DEF Guarded, FallbackAreas, FollowUp

LEMMA AnsweredType ==
  ASSUME NEW s \in Session, NEW n \in Nat, NEW areas \in SUBSET (Area \cup {Other})
  PROVE  [s EXCEPT !.answers = n, !.scored = areas] \in Session
BY DEF Session

LEMMA AskedType ==
  ASSUME NEW s \in Session, NEW f \in FollowUp, NEW n \in Nat,
         NEW areas \in SUBSET (Area \cup {Other}), NEW stage \in Stage
  PROVE  [s EXCEPT !.active = f, !.turns = n, !.probed = areas, !.stage = stage] \in Session
BY DEF Session

(* Counting one more submission, or one more answer with its area scored,  *)
(* leaves an open session sound.                                           *)
LEMMA SubmissionIsSound ==
  ASSUME NEW s, Sound(s), ~s.closed
  PROVE  LET rated == [s EXCEPT !.submissions = @ + 1]
         IN  Sound(rated) /\ ~rated.closed /\ rated.turns = s.turns
<1> DEFINE rated == [s EXCEPT !.submissions = @ + 1]
<1>1. rated \in Session
  BY DEF Sound, Session
<1> QED BY <1>1 DEF Sound, WithinBudget, Coherent, QuestionFits, Reported, Session

LEMMA AnswerIsSound ==
  ASSUME NEW s, Sound(s), ~s.closed
  PROVE  LET rated == [s EXCEPT !.answers = @ + 1,
                                !.scored = @ \cup ({s.active.area} \ {NoArea})]
         IN  Sound(rated) /\ ~rated.closed /\ rated.turns = s.turns
<1> DEFINE rated == [s EXCEPT !.answers = @ + 1,
                              !.scored = @ \cup ({s.active.area} \ {NoArea})]
<1>1. s.active.area \in Area \cup {NoArea, Other}
  BY DEF Sound, Session, FollowUp, NoFollowUp
<1>2. s.scored \cup ({s.active.area} \ {NoArea}) \in SUBSET (Area \cup {Other})
  BY <1>1 DEF Sound, Session
<1>3. rated \in Session
  <2>1. s \in Session /\ s.answers + 1 \in Nat
    BY DEF Sound, Session
  <2> QED BY <1>2, <2>1, AnsweredType
<1> QED BY <1>3 DEF Sound, WithinBudget, Coherent, QuestionFits, Reported, Session

(* A question takes a turn, so an open session with turns to spare stays   *)
(* sound, and the area is probed.                                          *)
LEMMA AskedIsSound ==
  ASSUME NEW s, Sound(s), ~s.closed, s.turns < Base, NEW f \in FollowUp
  PROVE  Sound(Asked(s, f)) /\ ~Asked(s, f).closed /\ Asked(s, f).turns = s.turns + 1
<1> DEFINE q == Asked(s, f)
<1> USE BaseAssumption, AreaAssumption
<1>1. f.area \in Area \cup {NoArea, Other} /\ f.type \in Format /\ f # NoFollowUp
  BY DEF FollowUp, NoFollowUp, Format
<1>2. q \in Session
  <2>1. s.probed \cup ({f.area} \ {NoArea}) \in SUBSET (Area \cup {Other})
    BY <1>1 DEF Sound, Session
  <2>2. s \in Session /\ s.turns + 1 \in Nat
    BY DEF Sound, Session
  <2>3. (IF f.type = "IMPLEMENTATION" THEN "FOLLOWUP_IMPLEMENTATION"
         ELSE "FOLLOWUP_CONVERSATIONAL") \in Stage
    BY DEF Stage
  <2> QED BY <2>1, <2>2, <2>3, AskedType DEF Asked
<1>3. /\ q.turns = s.turns + 1 /\ q.active = f /\ q.closed = s.closed
      /\ q.report = s.report /\ q.scored = s.scored
      /\ q.probed = s.probed \cup ({f.area} \ {NoArea})
      /\ q.stage = IF f.type = "IMPLEMENTATION" THEN "FOLLOWUP_IMPLEMENTATION"
                   ELSE "FOLLOWUP_CONVERSATIONAL"
  BY DEF Sound, Session, Asked
<1> HIDE DEF q
<1>4. s.turns \in Nat /\ IsFiniteSet(s.probed) /\ Cardinality(s.probed) \in Nat
      /\ Cardinality(s.probed) <= s.turns
  BY FS_CardinalityType DEF Sound, Coherent, Session
<1>5. IsFiniteSet(q.probed) /\ Cardinality(q.probed) <= q.turns
  <2>1. CASE f.area = NoArea
    <3>1. q.probed = s.probed
      BY <1>3, <2>1
    <3>2. Cardinality(s.probed) <= q.turns
      BY <1>3, <1>4
    <3> QED BY <1>4, <3>1, <3>2
  <2>2. CASE f.area # NoArea
    <3>1. q.probed = s.probed \cup {f.area}
      BY <1>3, <2>2
    <3>2. /\ IsFiniteSet(s.probed \cup {f.area})
          /\ Cardinality(s.probed \cup {f.area}) \in
               {Cardinality(s.probed), Cardinality(s.probed) + 1}
      BY <1>4, FS_AddElement
    <3>3. /\ q.turns = s.turns + 1
          /\ Cardinality(s.probed \cup {f.area}) <= Cardinality(s.probed) + 1
      BY <1>3, <1>4, <3>2
    <3>4. Cardinality(s.probed \cup {f.area}) \in Nat
      BY <3>2, FS_CardinalityType
    <3>5. Cardinality(s.probed \cup {f.area}) <= q.turns
      BY <1>4, <3>3, <3>4
    <3> QED BY <3>1, <3>2, <3>5
  <2> QED BY <2>1, <2>2
<1>6. QuestionFits(q)
  BY <1>1, <1>3, <1>4 DEF QuestionFits, Format
<1>7. Coherent(q)
  BY <1>1, <1>3, <1>5, <1>6 DEF Sound, Coherent
<1>8. Reported(q) /\ WithinBudget(q)
  BY <1>3, <1>4 DEF Sound, Reported, WithinBudget
<1> QED BY <1>2, <1>3, <1>7, <1>8 DEF Sound, q

(* An evaluation leaves an open session sound, and one that stays open has *)
(* no more turns than the time allowed.                                    *)
LEMMA EvaluatedIsSound ==
  ASSUME NEW s, Sound(s), ~s.closed, NEW t \in Int,
         NEW f \in FollowUp \cup {NoFollowUp}, NEW strong \in BOOLEAN,
         NEW e, e = AfterSubmission(s, f, t) \/ e = AfterAnswer(s, f, strong, t)
  PROVE  Sound(e) /\ (~e.closed => e.turns \in 1..MaxTurns(t))
<1>1. MaxTurns(t) \in 1..Base /\ s.turns \in Nat /\ Base \in Nat
  BY MaxTurnsBounds, BaseAssumption DEF Sound, Session
<1>2. ASSUME NEW rated, Sound(rated), ~rated.closed, rated.turns = s.turns,
             ~IntentClose(s, t), f # NoFollowUp
      PROVE  Sound(Asked(rated, f)) /\ Asked(rated, f).turns \in 1..MaxTurns(t)
  <2>1. s.turns < MaxTurns(t)
    BY <1>1, <1>2 DEF IntentClose
  <2>2. rated.turns < Base
    BY <1>1, <1>2, <2>1
  <2>3. f \in FollowUp
    BY <1>2
  <2>4. Sound(Asked(rated, f)) /\ Asked(rated, f).turns = rated.turns + 1
    BY <1>2, <2>2, <2>3, AskedIsSound
  <2> QED BY <1>1, <1>2, <2>1, <2>4
<1>3. CASE e = AfterSubmission(s, f, t)
  <2> DEFINE rated == [s EXCEPT !.submissions = @ + 1]
  <2>1. Sound(rated) /\ ~rated.closed /\ rated.turns = s.turns
    BY SubmissionIsSound
  <2>2. e = IF IntentClose(s, t) \/ f = NoFollowUp
            THEN [Closed(rated) EXCEPT !.stage = "INITIAL_SUBMISSION"]
            ELSE Asked(rated, f)
    BY <1>3 DEF AfterSubmission
  <2> HIDE DEF rated
  <2>3. Sound(Closed(rated)) /\ Closed(rated).closed
    BY <2>1, ClosedIsSound
  <2>4. Sound([Closed(rated) EXCEPT !.stage = "INITIAL_SUBMISSION"])
        /\ [Closed(rated) EXCEPT !.stage = "INITIAL_SUBMISSION"].closed
    BY <2>3, RestagedIsSound
  <2> QED BY <1>2, <2>1, <2>2, <2>4
<1>4. CASE e = AfterAnswer(s, f, strong, t)
  <2> DEFINE rated == [s EXCEPT !.answers = @ + 1,
                                !.scored = @ \cup ({s.active.area} \ {NoArea})]
  <2>1. Sound(rated) /\ ~rated.closed /\ rated.turns = s.turns
    BY AnswerIsSound
  <2>2. e = IF IntentClose(s, t) \/ strong \/ f = NoFollowUp
            THEN Closed(rated) ELSE Asked(rated, f)
    BY <1>4 DEF AfterAnswer
  <2> HIDE DEF rated
  <2>3. Sound(Closed(rated)) /\ Closed(rated).closed
    BY <2>1, ClosedIsSound
  <2> QED BY <1>2, <2>1, <2>2, <2>3
<1> QED BY <1>3, <1>4

-----------------------------------------------------------------------------
(* The invariant: what is stored and what every request holds is sound; a  *)
(* request that waits for the LLM holds an open session, and one about to  *)
(* save an open session has asked within its time.                         *)

Evaluating(r) == pc[r] = "llm" => ~copy[r].closed
InTime(r)     == pc[r] = "persist" /\ ~copy[r].closed => copy[r].turns \in 1..MaxTurns(time[r])

IInv ==
  /\ TypeOK
  /\ stored # NoSession => Sound(stored)
  /\ \A r \in Request : Sound(copy[r]) /\ Evaluating(r) /\ InTime(r)

HistoryOK == asked \in Nat /\ stale \in SUBSET Request /\ lost \in Nat

LEMMA HistoryKept == HistoryOK /\ [Next]_vars => HistoryOK'
BY DEF HistoryOK, Next, vars, history, Check, Load, Create, EvaluateCode, EvaluateAnswer,
       Fail, Persist, Save

LEMMA IInvInit == Init => IInv
BY NewIsSound DEF Init, IInv, TypeOK, Evaluating, InTime, Sound

(* A request moves and takes a session with it, while the others stay.     *)
LEMMA MoveKeepsIInv ==
  ASSUME IInv, HistoryOK', NEW r \in Request,
         NEW step \in {"new", "checked", "create", "llm", "persist", "over"}, NEW s,
         pc' = [pc EXCEPT ![r] = step], copy' = [copy EXCEPT ![r] = s],
         Sound(s), step = "llm" => ~s.closed,
         NEW o \in {"none", "submit", "answer"}, op' = [op EXCEPT ![r] = o],
         NEW t \in Time \cup {MinTime}, time' = [time EXCEPT ![r] = t],
         step = "persist" /\ ~s.closed => s.turns \in 1..MaxTurns(t),
         stored' \in Session \cup {NoSession}, stored' # NoSession => Sound(stored')
  PROVE  IInv'
<1>1. s \in Session
  BY DEF Sound
<1>2. TypeOK'
  BY <1>1 DEF IInv, TypeOK, HistoryOK
<1>3. ASSUME NEW q \in Request
      PROVE  (Sound(copy[q]) /\ Evaluating(q) /\ InTime(q))'
  <2>1. CASE q = r
    BY <2>1 DEF IInv, TypeOK, Evaluating, InTime
  <2>2. CASE q # r
    <3>1. copy'[q] = copy[q] /\ pc'[q] = pc[q] /\ time'[q] = time[q]
      BY <2>2 DEF IInv, TypeOK
    <3> QED BY <3>1 DEF IInv, Evaluating, InTime
  <2> QED BY <2>1, <2>2
<1> QED BY <1>2, <1>3 DEF IInv

LEMMA OverKeepsIInv ==
  ASSUME IInv, HistoryOK', NEW r \in Request, Over(r),
         stored' \in Session \cup {NoSession}, stored' # NoSession => Sound(stored')
  PROVE  IInv'
BY NewIsSound, MoveKeepsIInv DEF Over, Step

LEMMA ProceedKeepsIInv ==
  ASSUME IInv, HistoryOK', NEW r \in Request, NEW s, Sound(s), ~s.closed, Proceed(r, s),
         stored' \in Session \cup {NoSession}, stored' # NoSession => Sound(stored')
  PROVE  IInv'
<1>1. op' = [op EXCEPT ![r] = op[r]] /\ time' = [time EXCEPT ![r] = time[r]]
      /\ op[r] \in {"none", "submit", "answer"} /\ time[r] \in Time \cup {MinTime}
  BY DEF Proceed, IInv, TypeOK
<1>2. CASE time[r] <= MinTime
  <2>1. Sound(Closed(s)) /\ Closed(s).closed
    BY ClosedIsSound
  <2>2. /\ pc' = [pc EXCEPT ![r] = "persist"] /\ copy' = [copy EXCEPT ![r] = Closed(s)]
    BY <1>2 DEF Proceed, Step
  <2> QED BY <1>1, <2>1, <2>2, MoveKeepsIInv
<1>3. CASE ~(time[r] <= MinTime)
  BY <1>1, <1>3, MoveKeepsIInv DEF Proceed, Step
<1> QED BY <1>2, <1>3

LEMMA IInvStep == IInv /\ [Next]_vars => IInv'
<1> SUFFICES ASSUME IInv, [Next]_vars PROVE IInv'
  OBVIOUS
<1>0. stored \in Session \cup {NoSession} /\ (stored # NoSession => Sound(stored))
      /\ \A r \in Request : Sound(copy[r])
  BY DEF IInv, TypeOK
<1>h. HistoryOK'
  BY HistoryKept DEF IInv, TypeOK, HistoryOK
<1>1. CASE UNCHANGED vars
  <2>1. /\ stored' = stored /\ pc' = pc /\ op' = op /\ time' = time /\ copy' = copy
    BY <1>1 DEF vars
  <2>2. TypeOK'
    BY <1>h, <2>1 DEF IInv, TypeOK, HistoryOK
  <2>3. \A r \in Request : (Sound(copy[r]) /\ Evaluating(r) /\ InTime(r))'
    BY <2>1 DEF IInv, Evaluating, InTime
  <2> QED BY <1>0, <2>1, <2>2, <2>3 DEF IInv
<1>2. ASSUME NEW r \in Request, NEW o \in {"submit", "answer"}, NEW t \in Time, Check(r, o, t)
      PROVE  IInv'
  <2>1. CASE Allowed(o)
    <3>1. copy' = [copy EXCEPT ![r] = copy[r]]
      BY <1>2, <2>1 DEF Check, IInv, TypeOK
    <3> QED BY <1>h, <1>0, <1>2, <2>1, <3>1, MoveKeepsIInv DEF Check, Step
  <2>2. CASE ~Allowed(o)
    BY <1>h, <1>0, <1>2, <2>2, OverKeepsIInv DEF Check
  <2> QED BY <2>1, <2>2
<1>3. ASSUME NEW r \in Request, Load(r)
      PROVE  IInv'
  <2>1. CASE stored = NoSession
    <3>1. /\ copy' = [copy EXCEPT ![r] = copy[r]] /\ op' = [op EXCEPT ![r] = op[r]]
          /\ time' = [time EXCEPT ![r] = time[r]] /\ op[r] \in {"none", "submit", "answer"}
          /\ time[r] \in Time \cup {MinTime}
      BY <1>3, <2>1 DEF Load, IInv, TypeOK
    <3> QED BY <1>h, <1>0, <1>3, <2>1, <3>1, MoveKeepsIInv DEF Load, Step
  <2>2. CASE stored # NoSession /\ stored.closed
    BY <1>h, <1>0, <1>3, <2>2, OverKeepsIInv DEF Load
  <2>3. CASE stored # NoSession /\ ~stored.closed
    BY <1>h, <1>0, <1>3, <2>3, ProceedKeepsIInv DEF Load
  <2> QED BY <2>1, <2>2, <2>3
<1>4. ASSUME NEW r \in Request, Create(r)
      PROVE  IInv'
  <2>1. NewSession \in Session
    BY NewIsSound DEF Sound
  <2>2. Proceed(r, NewSession) /\ stored' = NewSession
    BY <1>4 DEF Create, Save
  <2> QED BY <1>h, <2>1, <2>2, NewIsSound, ProceedKeepsIInv
<1>5. ASSUME NEW r \in Request, NEW f \in FollowUp \cup {NoFollowUp}, NEW b \in BOOLEAN,
             EvaluateCode(r, f, b) \/ EvaluateAnswer(r, f, b)
      PROVE  IInv'
  <2>1. /\ op' = [op EXCEPT ![r] = op[r]] /\ time' = [time EXCEPT ![r] = time[r]]
        /\ op[r] \in {"none", "submit", "answer"} /\ time[r] \in Time \cup {MinTime}
        /\ time[r] \in Int /\ UNCHANGED stored /\ Step(r, "persist")
    <3>1. UNCHANGED <<stored, op, time>> /\ Step(r, "persist")
      BY <1>5 DEF EvaluateCode, EvaluateAnswer
    <3>2. /\ op[r] \in {"none", "submit", "answer"} /\ time[r] \in Time \cup {MinTime}
          /\ op = [op EXCEPT ![r] = op[r]] /\ time = [time EXCEPT ![r] = time[r]]
      BY DEF IInv, TypeOK
    <3> QED BY <3>1, <3>2, TimeAssumption
  <2>2. Sound(copy[r]) /\ ~copy[r].closed
    BY <1>5 DEF EvaluateCode, EvaluateAnswer, IInv, Evaluating
  <2>3. PICK e :
          /\ copy' = [copy EXCEPT ![r] = e]
          /\ \E g \in FollowUp \cup {NoFollowUp} :
               e = AfterSubmission(copy[r], g, time[r]) \/ e = AfterAnswer(copy[r], g, b, time[r])
    <3>1. CASE EvaluateCode(r, f, b)
      <4>1. PICK g \in IF IntentClose(copy[r], time[r]) THEN {f} ELSE Guarded(copy[r], f, b) :
              copy' = [copy EXCEPT ![r] = AfterSubmission(copy[r], g, time[r])]
        BY <3>1 DEF EvaluateCode
      <4>2. g \in FollowUp \cup {NoFollowUp}
        BY <4>1, GuardedType
      <4> QED BY <4>1, <4>2
    <3>2. CASE EvaluateAnswer(r, f, b)
      BY <3>2 DEF EvaluateAnswer
    <3> QED BY <1>5, <3>1, <3>2
  <2>4. Sound(e) /\ (~e.closed => e.turns \in 1..MaxTurns(time[r]))
    BY <2>1, <2>2, <2>3, EvaluatedIsSound
  <2> QED BY <1>h, <1>0, <2>1, <2>3, <2>4, MoveKeepsIInv DEF Step
<1>6. ASSUME NEW r \in Request, Persist(r)
      PROVE  IInv'
  <2>1. stored' \in Session /\ Sound(stored')
    BY <1>0, <1>6 DEF Persist, Save, Sound
  <2> QED BY <1>h, <1>6, <2>1, OverKeepsIInv DEF Persist
<1>7. ASSUME NEW r \in Request, Fail(r)
      PROVE  IInv'
  BY <1>h, <1>0, <1>7, OverKeepsIInv DEF Fail
<1> QED BY <1>1, <1>2, <1>3, <1>4, <1>5, <1>6, <1>7 DEF Next

LEMMA IInvHolds == Spec => []IInv
<1> QED BY IInvInit, IInvStep, PTL DEF Spec

-----------------------------------------------------------------------------
(* The count of the questions: the stored session has counted all of them  *)
(* but those that saves over other saves have lost.  A request whose       *)
(* session nobody has saved over holds what is stored, with the question   *)
(* it is about to ask counted.                                             *)

Counted(s) == IF s = NoSession THEN 0 ELSE s.turns
Losses(n)  == Base * n
OneIfOpen(s) == IF s.closed THEN 0 ELSE 1

UpToDate(r) ==
  r \notin stale =>
    /\ pc[r] = "create"  => stored = NoSession
    /\ pc[r] = "llm"     => copy[r].turns = Counted(stored)
    /\ pc[r] = "persist" => copy[r].turns = Counted(stored) + OneIfOpen(copy[r])

AskedCounted ==
  /\ asked <= Counted(stored) + Losses(lost)
  /\ \A r \in Request : UpToDate(r)

LEMMA LossesAdd ==
  ASSUME NEW n \in Nat
  PROVE  /\ Losses(n) \in Nat /\ Base * (1 + n) = Base + Losses(n)
         /\ Losses(n + 1) = Base + Losses(n)
<1>1. CASE Base = 2
  BY <1>1 DEF Losses
<1>2. CASE Base = 3
  BY <1>2 DEF Losses
<1>3. CASE Base = 4
  BY <1>3 DEF Losses
<1> QED BY <1>1, <1>2, <1>3, BaseAssumption

LEMMA CountedBounds == IInv => Counted(stored) \in 0..Base
BY BaseAssumption DEF IInv, Sound, WithinBudget, Session, Counted

(* An evaluation keeps the turns of a session it closes and counts the     *)
(* question of one it leaves open.                                         *)
LEMMA EvaluatedCounts ==
  ASSUME NEW s \in Session, ~s.closed, NEW t, NEW f \in FollowUp \cup {NoFollowUp}, NEW strong,
         NEW e, e = AfterSubmission(s, f, t) \/ e = AfterAnswer(s, f, strong, t)
  PROVE  e.turns = s.turns + OneIfOpen(e)
<1> USE DEF Closed, Asked, Session, OneIfOpen
<1>1. CASE e = AfterSubmission(s, f, t)
  BY <1>1 DEF AfterSubmission
<1>2. CASE e = AfterAnswer(s, f, strong, t)
  BY <1>2 DEF AfterAnswer
<1> QED BY <1>1, <1>2

(* A save: the others' sessions go stale, and the count of what is stored  *)
(* is that of s, exactly so unless r's own session had gone stale.         *)
LEMMA SaveCounts ==
  ASSUME IInv, IInv', AskedCounted, NEW r \in Request, NEW s \in Session, NEW more \in {0, 1},
         Save(r, s), asked' = asked + more, s.turns >= more,
         r \notin stale => s.turns = Counted(stored) + more,
         \A q \in Request \ {r} : pc'[q] = pc[q]
  PROVE  /\ asked' <= Counted(stored') + Losses(lost')
         /\ \A q \in Request \ {r} : UpToDate(q)'
<1>1. asked \in Nat /\ lost \in Nat /\ s.turns \in Nat /\ Counted(stored) \in 0..Base
  BY CountedBounds DEF IInv, TypeOK, Session
<1>2. Counted(stored') = s.turns
  BY NullAssumption DEF Save, Counted
<1>3. asked' <= Counted(stored') + Losses(lost')
  <2>1. Losses(lost) \in Nat /\ Losses(lost + 1) = Base + Losses(lost)
    BY <1>1, LossesAdd
  <2>2. asked <= Counted(stored) + Losses(lost)
    BY DEF AskedCounted
  <2>3. CASE r \in stale
    <3>1. lost' = lost + 1
      BY <2>3 DEF Save
    <3> QED BY <1>1, <1>2, <2>1, <2>2, <3>1, BaseAssumption
  <2>4. CASE r \notin stale
    <3>1. lost' = lost
      BY <2>4 DEF Save
    <3> QED BY <1>1, <1>2, <2>1, <2>2, <2>4, <3>1
  <2> QED BY <2>3, <2>4
<1>4. ASSUME NEW q \in Request \ {r}
      PROVE  UpToDate(q)'
  <2>1. pc[q] \in Holding => q \in stale'
    BY DEF Save
  <2> QED BY <2>1 DEF UpToDate, Holding
<1> QED BY <1>3, <1>4

LEMMA AskedCountedStep == IInv /\ IInv' /\ AskedCounted /\ [Next]_vars => AskedCounted'
<1> SUFFICES ASSUME IInv, IInv', AskedCounted, [Next]_vars PROVE AskedCounted'
  OBVIOUS
<1>0. /\ pc \in [Request -> {"new", "checked", "create", "llm", "persist", "over"}]
      /\ copy \in [Request -> Session] /\ asked \in Nat
  BY DEF IInv, TypeOK
<1>1. CASE UNCHANGED vars
  BY <1>1 DEF vars, history, AskedCounted, UpToDate
<1>2. ASSUME NEW r \in Request, UNCHANGED <<stored, asked, lost>>,
             \A q \in Request \ {r} : /\ pc'[q] = pc[q] /\ copy'[q] = copy[q]
                                      /\ q \in stale => q \in stale',
             UpToDate(r)'
      PROVE  AskedCounted'
  BY <1>2 DEF AskedCounted, UpToDate
<1>3. ASSUME NEW r \in Request, Over(r)
      PROVE  UpToDate(r)' /\ \A q \in Request \ {r} : pc'[q] = pc[q] /\ copy'[q] = copy[q]
  BY <1>0, <1>3 DEF Over, Step, UpToDate
<1>4. ASSUME NEW r \in Request, NEW s \in Session, Proceed(r, s), ~s.closed,
             Counted(stored') = s.turns
      PROVE  UpToDate(r)' /\ \A q \in Request \ {r} : pc'[q] = pc[q] /\ copy'[q] = copy[q]
  <2>1. s.turns \in Nat
    BY DEF Session
  <2>2. Closed(s).turns = s.turns /\ Closed(s).closed
    BY DEF Closed, Session
  <2> QED BY <1>0, <1>4, <2>1, <2>2 DEF Proceed, Step, UpToDate, OneIfOpen
<1>5. ASSUME NEW r \in Request, NEW o \in {"submit", "answer"}, NEW t \in Time, Check(r, o, t)
      PROVE  AskedCounted'
  <2>1. UNCHANGED <<stored, asked, lost, stale>>
    BY <1>5 DEF Check, history
  <2>2. CASE Allowed(o)
    BY <1>0, <1>2, <1>5, <2>1, <2>2 DEF Check, Step, UpToDate
  <2>3. CASE ~Allowed(o)
    BY <1>2, <1>3, <1>5, <2>1, <2>3 DEF Check
  <2> QED BY <2>2, <2>3
<1>6. ASSUME NEW r \in Request, Load(r)
      PROVE  AskedCounted'
  <2>1. UNCHANGED <<stored, asked, lost, stale>>
    BY <1>6 DEF Load, history
  <2>2. CASE stored = NoSession
    BY <1>0, <1>2, <1>6, <2>1, <2>2 DEF Load, Step, UpToDate
  <2>3. CASE stored # NoSession /\ stored.closed
    BY <1>2, <1>3, <1>6, <2>1, <2>3 DEF Load
  <2>4. CASE stored # NoSession /\ ~stored.closed
    <3>1. stored \in Session /\ Counted(stored') = stored.turns /\ Proceed(r, stored)
      BY <1>6, <2>1, <2>4 DEF Load, IInv, TypeOK, Counted
    <3> QED BY <1>2, <1>4, <2>1, <2>4, <3>1
  <2> QED BY <2>2, <2>3, <2>4
<1>7. ASSUME NEW r \in Request, Create(r)
      PROVE  AskedCounted'
  <2>1. NewSession \in Session /\ ~NewSession.closed /\ NewSession.turns = 0
    BY NewIsSound DEF Sound, NewSession
  <2>2. Save(r, NewSession) /\ Proceed(r, NewSession) /\ asked' = asked + 0
    BY <1>0, <1>7 DEF Create
  <2>3. Counted(stored') = NewSession.turns
    BY <2>1, <2>2, NullAssumption DEF Save, Counted
  <2>4. UpToDate(r)' /\ \A q \in Request \ {r} : pc'[q] = pc[q]
    BY <1>4, <2>1, <2>2, <2>3
  <2>5. r \notin stale => NewSession.turns = Counted(stored) + 0
    BY <1>7, <2>1 DEF AskedCounted, UpToDate, Create, Counted
  <2>6. /\ asked' <= Counted(stored') + Losses(lost')
        /\ \A q \in Request \ {r} : UpToDate(q)'
    BY <2>1, <2>2, <2>4, <2>5, SaveCounts
  <2> QED BY <2>4, <2>6 DEF AskedCounted
<1>8. ASSUME NEW r \in Request, NEW f \in FollowUp \cup {NoFollowUp}, NEW b \in BOOLEAN,
             EvaluateCode(r, f, b) \/ EvaluateAnswer(r, f, b)
      PROVE  AskedCounted'
  <2>1. UNCHANGED <<stored, asked, lost, stale>> /\ Step(r, "persist") /\ pc[r] = "llm"
    BY <1>8 DEF EvaluateCode, EvaluateAnswer, history
  <2>2. copy[r] \in Session /\ ~copy[r].closed
    BY <1>0, <2>1 DEF IInv, Evaluating
  <2>3. PICK e :
          /\ copy' = [copy EXCEPT ![r] = e]
          /\ \E g \in FollowUp \cup {NoFollowUp} :
               e = AfterSubmission(copy[r], g, time[r]) \/ e = AfterAnswer(copy[r], g, b, time[r])
    <3>1. CASE EvaluateCode(r, f, b)
      <4>1. PICK g \in IF IntentClose(copy[r], time[r]) THEN {f} ELSE Guarded(copy[r], f, b) :
              copy' = [copy EXCEPT ![r] = AfterSubmission(copy[r], g, time[r])]
        BY <3>1 DEF EvaluateCode
      <4>2. g \in FollowUp \cup {NoFollowUp}
        BY <4>1, GuardedType
      <4> QED BY <4>1, <4>2
    <3>2. CASE EvaluateAnswer(r, f, b)
      BY <3>2 DEF EvaluateAnswer
    <3> QED BY <1>8, <3>1, <3>2
  <2>4. e.turns = copy[r].turns + OneIfOpen(e)
    <3>1. PICK g \in FollowUp \cup {NoFollowUp} :
            e = AfterSubmission(copy[r], g, time[r]) \/ e = AfterAnswer(copy[r], g, b, time[r])
      BY <2>3
    <3> QED BY <2>2, <3>1, EvaluatedCounts
  <2>5. UpToDate(r)' /\ \A q \in Request \ {r} : pc'[q] = pc[q] /\ copy'[q] = copy[q]
    BY <1>0, <2>1, <2>3, <2>4 DEF AskedCounted, UpToDate, Step
  <2> QED BY <1>2, <2>1, <2>5
<1>9. ASSUME NEW r \in Request, Persist(r)
      PROVE  AskedCounted'
  <2> DEFINE more == OneIfOpen(copy[r])
  <2>1. /\ Save(r, copy[r]) /\ asked' = asked + more /\ copy[r] \in Session
        /\ pc[r] = "persist" /\ more \in {0, 1}
    BY <1>0, <1>9 DEF Persist, OneIfOpen
  <2>2. UpToDate(r)' /\ \A q \in Request \ {r} : pc'[q] = pc[q]
    BY <1>3, <1>9 DEF Persist
  <2>3. r \notin stale => copy[r].turns = Counted(stored) + more
    BY <2>1 DEF AskedCounted, UpToDate
  <2>4. copy[r].turns >= more
    BY <2>1 DEF IInv, InTime, Session, OneIfOpen
  <2>5. /\ asked' <= Counted(stored') + Losses(lost')
        /\ \A q \in Request \ {r} : UpToDate(q)'
    BY <2>1, <2>2, <2>3, <2>4, SaveCounts
  <2> QED BY <2>2, <2>5 DEF AskedCounted
<1>10. ASSUME NEW r \in Request, Fail(r)
       PROVE  AskedCounted'
  <2>1. UNCHANGED <<stored, asked, lost>> /\ stale' = stale \ {r}
    BY <1>10 DEF Fail
  <2> QED BY <1>2, <1>3, <1>10, <2>1 DEF Fail
<1> QED BY <1>1, <1>5, <1>6, <1>7, <1>8, <1>9, <1>10 DEF Next

LEMMA AskedCountedHolds == Spec => []AskedCounted
<1>1. Init => AskedCounted
  BY BaseAssumption DEF Init, AskedCounted, UpToDate, Counted, Losses
<1> QED BY <1>1, IInvHolds, AskedCountedStep, PTL DEF Spec

-----------------------------------------------------------------------------
(* The theorems.                                                           *)

(* Every variable keeps its type: what requests save over each other is    *)
(* always a session.                                                       *)
THEOREM TypeCorrect == Spec => []TypeOK
<1>1. IInv => TypeOK
  BY DEF IInv
<1> QED BY <1>1, IInvHolds, PTL

(* However many requests overlap, the questions put to the candidate are   *)
(* at most those of the difficulty, and as many again for every save that  *)
(* undoes another; each is asked within the time of its request.           *)
THEOREM BudgetKept == Spec => []TurnBudget
<1>1. IInv /\ AskedCounted => TurnBudget
  <2> SUFFICES ASSUME IInv, AskedCounted PROVE TurnBudget
    OBVIOUS
  <2>1. \A r \in Request : pc[r] = "persist" /\ ~copy[r].closed => copy[r].turns <= MaxTurns(time[r])
    BY DEF IInv, InTime
  <2>2. Counted(stored) \in 0..Base /\ asked \in Nat /\ lost \in Nat
    BY CountedBounds DEF IInv, TypeOK
  <2>3. asked <= Counted(stored) + Losses(lost)
    BY DEF AskedCounted
  <2>4. Losses(lost) \in Nat /\ Base * (1 + lost) = Base + Losses(lost)
    BY <2>2, LossesAdd
  <2>5. asked <= Base * (1 + lost)
    BY <2>2, <2>3, <2>4, BaseAssumption
  <2> QED BY <2>1, <2>5 DEF TurnBudget
<1> QED BY <1>1, IInvHolds, AskedCountedHolds, PTL

(* Every session stored or held is of one piece.                           *)
THEOREM CoherenceKept == Spec => []SessionsCoherent
<1>1. IInv => SessionsCoherent
  BY DEF IInv, SessionsCoherent, Sessions, Sound, Coherent
<1> QED BY <1>1, IInvHolds, PTL

(* A closed session carries the report of everything it has recorded.      *)
THEOREM ReportsComplete == Spec => []ReportComplete
<1>1. IInv => ReportComplete
  BY DEF IInv, ReportComplete, Sessions, Sound, Reported
<1> QED BY <1>1, IInvHolds, PTL

(* A closed interview that no request has loaded stays closed, unchanged.  *)
THEOREM ClosedStays == Spec => ClosedIsFinal
<1>1. TypeOK /\ [Next]_vars => [ClosedForGood => ClosedForGood' /\ stored' = stored]_vars
  <2> SUFFICES ASSUME TypeOK, Next, ClosedForGood
               PROVE  ClosedForGood' /\ stored' = stored
    OBVIOUS
  <2>1. PICK r \in Request : \/ \E o \in {"submit", "answer"}, t \in Time : Check(r, o, t)
                             \/ Load(r) \/ Create(r) \/ Persist(r) \/ Fail(r)
                             \/ \E f \in FollowUp \cup {NoFollowUp}, b \in BOOLEAN :
                                  EvaluateCode(r, f, b) \/ EvaluateAnswer(r, f, b)
    BY DEF Next
  <2>2. /\ ~Create(r) /\ ~Persist(r)
        /\ \A f, b : ~EvaluateCode(r, f, b) /\ ~EvaluateAnswer(r, f, b)
    BY DEF ClosedForGood, Create, Persist, EvaluateCode, EvaluateAnswer
  <2>3. stored' = stored /\ (Step(r, "checked") \/ Step(r, "over"))
    BY <2>1, <2>2 DEF ClosedForGood, Check, Load, Fail, Over
  <2> QED BY <2>3 DEF ClosedForGood, Step, TypeOK
<1> QED BY <1>1, TypeCorrect, PTL DEF Spec, ClosedIsFinal
=============================================================================
