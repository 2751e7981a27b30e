---------------------------- MODULE EvalSession ----------------------------
(***************************************************************************)
(* One interview of the evaluation service: the requests of its candidate  *)
(* (routes.py, eval_core.py), the rules that score and close it            *)
(* (session_manager.py) and its budget of turns (steering.py).             *)
(*                                                                         *)
(* Each request checks the stored session, loads it, calls the LLM, works  *)
(* its answer into the session it loaded and saves that as a whole.  The   *)
(* endpoints are plain functions run by a pool of threads, and nothing     *)
(* locks a session: requests overlap, and the last save wins.  The store   *)
(* is the memory backend, one value; Postgres and Redis are not modelled   *)
(* here.                                                                   *)
(***************************************************************************)
EXTENDS Integers, FiniteSets

CONSTANTS Request,
          Area,            \* interviewerFocusAreas of the blueprint
          NoArea, Other,   \* a follow-up without chosen_area, with one not in the blueprint
          Time, MinTime,   \* time_remaining_seconds, minimum_time_remaining_seconds
          Base,            \* turns for the difficulty: HARD 4, MEDIUM 3, EASY 2
          NoSession, NoReport

ASSUME AreaAssumption == NoArea \notin Area /\ Other \notin Area /\ NoArea # Other
ASSUME TimeAssumption == Time \subseteq Int /\ MinTime \in Nat
ASSUME BaseAssumption == Base \in 2..4

VARIABLES stored,          \* the session in the store
          pc, op, time,    \* each request's step, kind and time_remaining_seconds
          copy,            \* the session it works on
          asked,           \* history: questions put to the candidate
          stale,           \* history: requests whose session was saved over meanwhile
          lost             \* history: saves of such a session

history == <<asked, stale, lost>>
vars    == <<stored, pc, op, time, copy, history>>

Stage    == {"INITIAL_SUBMISSION", "FOLLOWUP_CONVERSATIONAL", "FOLLOWUP_IMPLEMENTATION"}
Format   == {"CONVERSATIONAL", "IMPLEMENTATION"}
FollowUp == [type : Format, area : Area \cup {NoArea, Other}]
NoFollowUp == [type |-> "none", area |-> NoArea]
Report   == [turns : Nat, answers : Nat, submissions : Nat]
Session  == [stage : Stage, active : FollowUp \cup {NoFollowUp}, turns : Nat,
             submissions : Nat, answers : Nat,
             probed : SUBSET (Area \cup {Other}), scored : SUBSET (Area \cup {Other}),
             closed : BOOLEAN, report : Report \cup {NoReport}]

NewSession == [stage |-> "INITIAL_SUBMISSION", active |-> NoFollowUp, turns |-> 0,
               submissions |-> 0, answers |-> 0, probed |-> {}, scored |-> {},
               closed |-> FALSE, report |-> NoReport]

ASSUME NullAssumption == NoSession \notin Session /\ NoReport \notin Report

(* A request: not sent, past the route's check, about to save a session it *)
(* created, waiting for the LLM, about to save, answered.                  *)
TypeOK ==
  /\ stored \in Session \cup {NoSession}
  /\ pc \in [Request -> {"new", "checked", "create", "llm", "persist", "over"}]
  /\ op \in [Request -> {"none", "submit", "answer"}]
  /\ time \in [Request -> Time \cup {MinTime}]
  /\ copy \in [Request -> Session]
  /\ asked \in Nat /\ stale \in SUBSET Request /\ lost \in Nat

Init ==
  /\ stored = NoSession
  /\ pc = [r \in Request |-> "new"]
  /\ op = [r \in Request |-> "none"]
  /\ time = [r \in Request |-> MinTime]
  /\ copy = [r \in Request |-> NewSession]
  /\ asked = 0 /\ stale = {} /\ lost = 0

-----------------------------------------------------------------------------
(* steering.py.                                                            *)

AtLeastOne(n) == IF n < 1 THEN 1 ELSE n

(* The turn budget by time_remaining / max(min_time, 1).                   *)
MaxTurns(t) ==
  LET unit == AtLeastOne(MinTime)
  IN  IF t > 3 * unit THEN Base
      ELSE IF t > 2 * unit THEN AtLeastOne(Base - 1)
      ELSE IF 2 * t > 3 * unit THEN AtLeastOne(Base - 2)
      ELSE 1

(* Definitions named ..._x are mutations: what a slip in the code would    *)
(* make of the definition that follows; the specification never uses them. *)
IntentClose_OneMore(s, t) == s.turns > MaxTurns(t) \/ t <= MinTime

(* select_intent_and_formats chooses CLOSE; no depth is known before the   *)
(* call, and the other intents differ only in wording and formats.         *)
IntentClose(s, t) == s.turns >= MaxTurns(t) \/ t <= MinTime

-----------------------------------------------------------------------------
(* session_manager.py: a session after an evaluation.                      *)

ReportOf_PendingTurn(s) ==
  [turns |-> s.turns - 1, answers |-> s.answers, submissions |-> s.submissions]

(* _compute_report, from what the session has recorded so far.             *)
ReportOf(s) == [turns |-> s.turns, answers |-> s.answers, submissions |-> s.submissions]
Closed(s)   == [s EXCEPT !.closed = TRUE, !.report = ReportOf(s)]

Asked_Unprobed(s, f) ==
  [s EXCEPT !.active = f, !.turns = @ + 1,
            !.stage = IF f.type = "IMPLEMENTATION" THEN "FOLLOWUP_IMPLEMENTATION"
                      ELSE "FOLLOWUP_CONVERSATIONAL"]

(* The follow-up becomes the active question and takes a turn.             *)
Asked(s, f) ==
  [s EXCEPT !.active = f, !.turns = @ + 1, !.probed = @ \cup ({f.area} \ {NoArea}),
            !.stage = IF f.type = "IMPLEMENTATION" THEN "FOLLOWUP_IMPLEMENTATION"
                      ELSE "FOLLOWUP_CONVERSATIONAL"]

AfterSubmission(s, f, t) ==
  LET rated == [s EXCEPT !.submissions = @ + 1]
  IN  IF IntentClose(s, t) \/ f = NoFollowUp
      THEN [Closed(rated) EXCEPT !.stage = "INITIAL_SUBMISSION"]
      ELSE Asked(rated, f)

AfterAnswer_ReportFirst(s, f, strong, t) ==
  LET rated == [s EXCEPT !.answers = @ + 1,
                         !.scored = @ \cup ({s.active.area} \ {NoArea})]
  IN  IF IntentClose(s, t) \/ strong \/ f = NoFollowUp
      THEN [rated EXCEPT !.closed = TRUE, !.report = ReportOf(s)]
      ELSE Asked(rated, f)

(* The rating goes to the area of the question that is active in the copy. *)
AfterAnswer(s, f, strong, t) ==
  LET rated == [s EXCEPT !.answers = @ + 1,
                         !.scored = @ \cup ({s.active.area} \ {NoArea})]
  IN  IF IntentClose(s, t) \/ strong \/ f = NoFollowUp
      THEN Closed(rated)
      ELSE Asked(rated, f)

-----------------------------------------------------------------------------
(* routes.py and eval_core.py: the steps of a request.                     *)

Step(r, step) == pc' = [pc EXCEPT ![r] = step]
Over(r)       == /\ Step(r, "over")
                 /\ op' = [op EXCEPT ![r] = "none"] /\ time' = [time EXCEPT ![r] = MinTime]
                 /\ copy' = [copy EXCEPT ![r] = NewSession]

Holding == {"create", "llm", "persist"}

(* r saves the session s.  Every other request that has loaded one works   *)
(* on an older session from now on; such a request, when it saves, undoes  *)
(* what was saved meanwhile.                                               *)
Save(r, s) ==
  /\ stored' = s
  /\ stale' = (stale \cup {q \in Request : pc[q] \in Holding}) \ {r}
  /\ lost' = IF r \in stale THEN lost + 1 ELSE lost

(* The route's own look at the session.                                    *)
Allowed(o) ==
  IF o = "submit" THEN stored = NoSession \/ ~stored.closed
  ELSE stored # NoSession /\ ~stored.closed /\ stored.stage = "FOLLOWUP_CONVERSATIONAL"

Check(r, o, t) ==
  /\ pc[r] = "new"
  /\ IF Allowed(o)
     THEN /\ Step(r, "checked") /\ UNCHANGED copy
          /\ op' = [op EXCEPT ![r] = o] /\ time' = [time EXCEPT ![r] = t]
     ELSE Over(r)
  /\ UNCHANGED <<stored, history>>

(* With a session in hand: the time gate, else on to the LLM.              *)
Proceed(r, s) ==
  /\ IF time[r] <= MinTime
     THEN Step(r, "persist") /\ copy' = [copy EXCEPT ![r] = Closed(s)]
     ELSE Step(r, "llm") /\ copy' = [copy EXCEPT ![r] = s]
  /\ UNCHANGED <<op, time>>

Load_ClosedToo(r) ==
  /\ pc[r] = "checked"
  /\ IF stored = NoSession THEN Step(r, "create") /\ UNCHANGED <<op, time, copy>>
     ELSE Proceed(r, stored)
  /\ UNCHANGED <<stored, history>>

(* load_or_create and the handler's check.                                 *)
Load(r) ==
  /\ pc[r] = "checked"
  /\ IF stored = NoSession THEN Step(r, "create") /\ UNCHANGED <<op, time, copy>>
     ELSE IF stored.closed THEN Over(r)
     ELSE Proceed(r, stored)
  /\ UNCHANGED <<stored, history>>

(* load_or_create found nothing: it saves a new session over whatever is   *)
(* stored by then.                                                         *)
Create(r) ==
  /\ pc[r] = "create"
  /\ Save(r, NewSession)
  /\ Proceed(r, NewSession)
  /\ UNCHANGED asked

(* The areas build_templated_fallback may be given: the first one not      *)
(* probed yet, else the first one (in the order of the blueprint).         *)
FallbackAreas(s) ==
  IF Area = {} THEN {Other} ELSE IF Area \subseteq s.probed THEN Area ELSE Area \ s.probed

(* What the guardrail makes of a follow-up whose format is legal or not.   *)
Guarded(s, f, legal) ==
  IF f = NoFollowUp \/ (legal /\ (f.area # Other \/ Area = {})) THEN {f}
  ELSE {[f EXCEPT !.area = a] : a \in FallbackAreas(s)}

(* The LLM answers a submission: its follow-up passes the guardrail unless *)
(* the session closes anyway.                                              *)
EvaluateCode(r, f, legal) ==
  /\ pc[r] = "llm" /\ op[r] = "submit"
  /\ \E g \in IF IntentClose(copy[r], time[r]) THEN {f} ELSE Guarded(copy[r], f, legal) :
       copy' = [copy EXCEPT ![r] = AfterSubmission(@, g, time[r])]
  /\ Step(r, "persist")
  /\ UNCHANGED <<stored, op, time, history>>

(* The LLM answers an answer: its follow-up is taken as it is.             *)
EvaluateAnswer(r, f, strong) ==
  /\ pc[r] = "llm" /\ op[r] = "answer"
  /\ copy' = [copy EXCEPT ![r] = AfterAnswer(@, f, strong, time[r])]
  /\ Step(r, "persist")
  /\ UNCHANGED <<stored, op, time, history>>

(* The sources, the LLM or the store raise: a 404, 500 or 503, and nothing *)
(* is saved.                                                               *)
Fail(r) ==
  /\ pc[r] \in {"checked", "create", "llm", "persist"}
  /\ Over(r)
  /\ stale' = stale \ {r}
  /\ UNCHANGED <<stored, asked, lost>>

(* The session is saved; if it stays open, the response puts its question  *)
(* to the candidate.                                                       *)
Persist(r) ==
  /\ pc[r] = "persist"
  /\ Save(r, copy[r])
  /\ asked' = IF copy[r].closed THEN asked ELSE asked + 1
  /\ Over(r)

Next ==
  \E r \in Request :
    \/ \E o \in {"submit", "answer"}, t \in Time : Check(r, o, t)
    \/ Load(r) \/ Create(r) \/ Persist(r) \/ Fail(r)
    \/ \E f \in FollowUp \cup {NoFollowUp}, b \in BOOLEAN :
         EvaluateCode(r, f, b) \/ EvaluateAnswer(r, f, b)

Spec == Init /\ [][Next]_vars

-----------------------------------------------------------------------------
(* Properties.                                                             *)

Sessions == {copy[r] : r \in Request} \cup ({stored} \ {NoSession})

(* An interview puts at most Base questions to its candidate, as long as   *)
(* no request saves over what another saved while it was at work; each     *)
(* such save may lose the count of Base questions, never more.  And a      *)
(* question is only asked within the turns that the time of its request    *)
(* allows (compute_max_turns, select_intent_and_formats, turn_count).      *)
TurnBudget ==
  /\ asked <= Base * (1 + lost)
  /\ \A r \in Request : pc[r] = "persist" /\ ~copy[r].closed => copy[r].turns <= MaxTurns(time[r])

QuestionFits(s) ==
  /\ s.turns = 0 <=> s.active = NoFollowUp
  /\ ~s.closed => s.stage = CASE s.active.type = "none"           -> "INITIAL_SUBMISSION"
                              [] s.active.type = "CONVERSATIONAL" -> "FOLLOWUP_CONVERSATIONAL"
                              [] s.active.type = "IMPLEMENTATION" -> "FOLLOWUP_IMPLEMENTATION"

(* Whatever copies are saved over each other, a session is of one piece:   *)
(* its stage is that of its active question, each area it counts as probed *)
(* took a turn, and only areas it has asked about have a score             *)
(* (reconcile_code_submission, reconcile_conversational_answer).           *)
SessionsCoherent ==
  \A s \in Sessions :
    /\ QuestionFits(s)
    /\ s.active.area # NoArea => s.active.area \in s.probed
    /\ s.scored \subseteq s.probed
    /\ Cardinality(s.probed) <= s.turns

(* A session is closed exactly when it has its report, and the report      *)
(* covers every turn, answer and submission of the session it is saved     *)
(* with, the last one included (_compute_report and its three callers).    *)
ReportComplete ==
  \A s \in Sessions :
    s.report = IF s.closed
               THEN [turns |-> s.turns, answers |-> s.answers, submissions |-> s.submissions]
               ELSE NoReport

ClosedForGood ==
  /\ stored # NoSession /\ stored.closed
  /\ \A r \in Request : pc[r] \notin {"create", "llm", "persist"}

(* Once the interview is closed and no request has loaded it before, it    *)
(* stays as it is, for good: late answers and repeated submissions are     *)
(* refused, also those the route had let through (eval_core.py:21, :149).  *)
ClosedIsFinal == [][ClosedForGood => ClosedForGood' /\ stored' = stored]_vars
=============================================================================
