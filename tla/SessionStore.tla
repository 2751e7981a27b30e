---------------------------- MODULE SessionStore ----------------------------
(***************************************************************************)
(* The production store of the evaluation service (store.py, cache.py):    *)
(* an interview is a row of eval_sessions in Postgres and a copy of it in  *)
(* Redis, which loads prefer.  A session is the set of turns worked into   *)
(* it; what a turn does to it is EvalSession's.  Shown is one session and  *)
(* the requests of its candidate, each of which loads it in the route and  *)
(* again in the handler, and saves it.                                     *)
(*                                                                         *)
(* Any call to Redis or Postgres may fail, with or without its effect, the *)
(* process may die and Redis may drop the entry, as often as they like.    *)
(*                                                                         *)
(* Definitions named ..._X are mutations: what a slip in the code would    *)
(* make of the definition that follows; the specification never uses them. *)
(***************************************************************************)

CONSTANTS Request, NoSession

Session      == [turns : SUBSET Request]
Worked(s, r) == [turns |-> s.turns \cup {r}]
Fresh        == [turns |-> {}]

ASSUME NoSessionAssumption == NoSession \notin Session

VARIABLES
  row, hot,      \* the row; the entry in Redis
  step, kind, phase, copy,
  saved,         \* every session there ever was in the row
  kept,          \* the turns the candidate got an answer to
  spoilt         \* something happened that the store has no protection against

requestVars == <<step, kind, phase, copy>>
storeVars   == <<row, hot, requestVars, saved, kept, spoilt>>

Maybe == Session \cup {NoSession}

StoreTypeOK ==
  /\ row \in Maybe /\ hot \in Maybe
  /\ step \in [Request -> {"new", "get", "select", "warm", "work", "commit", "set", "over"}]
  /\ kind \in [Request -> {"submit", "answer", "read"}]
  /\ phase \in [Request -> {"check", "load", "create", "turn"}]
  /\ copy \in [Request -> Maybe]
  /\ saved \subseteq Session /\ kept \subseteq Request /\ spoilt \in BOOLEAN

StoreInit ==
  /\ row = NoSession /\ hot = NoSession
  /\ step = [r \in Request |-> "new"] /\ kind = [r \in Request |-> "read"]
  /\ phase = [r \in Request |-> "check"] /\ copy = [r \in Request |-> NoSession]
  /\ saved = {} /\ kept = {} /\ spoilt = FALSE

Busy(r)      == step[r] \notin {"new", "over"}
Step(r, s)   == step' = [step EXCEPT ![r] = s]
Hold(r, s)   == copy' = [copy EXCEPT ![r] = s]
Phase(r, p)  == phase' = [phase EXCEPT ![r] = p]
Over(r)      == Step(r, "over") /\ Hold(r, NoSession) /\ UNCHANGED <<kind, phase>>

(* routes.py: submit, answer, get_session.  Nothing locks a session:       *)
(* requests that overlap may save older copies over newer ones, and a load *)
(* may put an older row back into Redis.                                   *)
Start(r, k) ==
  /\ step[r] = "new"
  /\ Step(r, "get") /\ kind' = [kind EXCEPT ![r] = k]
  /\ spoilt' = (spoilt \/ \E q \in Request : Busy(q))
  /\ UNCHANGED <<row, hot, phase, copy, saved, kept>>

-----------------------------------------------------------------------------
(* SessionStore.load.                                                      *)

(* What the caller does with it: the route answers a read, refuses an      *)
(* answer without a session and goes on to the handler, whose              *)
(* load_or_create starts an interview if there is none.                    *)
Loaded(r, s) ==
  \/ kind[r] = "read" /\ Over(r)
  \/ kind[r] = "answer" /\ phase[r] = "check" /\ s = NoSession /\ Over(r)
  \/ /\ kind[r] # "read" /\ phase[r] = "check" /\ (kind[r] = "submit" \/ s # NoSession)
     /\ Step(r, "get") /\ Phase(r, "load") /\ Hold(r, NoSession) /\ UNCHANGED kind
  \/ /\ kind[r] # "read" /\ phase[r] # "check" /\ s = NoSession
     /\ Step(r, "commit") /\ Phase(r, "create") /\ Hold(r, Fresh) /\ UNCHANGED kind
  \/ /\ kind[r] # "read" /\ phase[r] # "check" /\ s # NoSession
     /\ Step(r, "work") /\ Hold(r, s) /\ UNCHANGED <<kind, phase>>

(* A hit, or on a miss and on an error of Redis a look into Postgres.      *)
Get(r) ==
  /\ step[r] = "get"
  /\ \/ hot # NoSession /\ Loaded(r, hot)
     \/ Step(r, "select") /\ UNCHANGED <<kind, phase, copy>>
  /\ UNCHANGED <<row, hot, saved, kept, spoilt>>

(* An error of Postgres looks like a session that is not there, and the    *)
(* handler then starts the interview over.                                 *)
Select(r) ==
  /\ step[r] = "select"
  /\ \/ /\ row # NoSession /\ Step(r, "warm") /\ Hold(r, row)
        /\ UNCHANGED <<kind, phase, spoilt>>
     \/ /\ Loaded(r, NoSession)
        /\ spoilt' = (spoilt \/ (row # NoSession /\ phase[r] = "load"))
  /\ UNCHANGED <<row, hot, saved, kept>>

(* The row goes back into Redis, or not.                                   *)
Warm(r) ==
  /\ step[r] = "warm"
  /\ hot' \in {hot, copy[r]}
  /\ Loaded(r, copy[r])
  /\ UNCHANGED <<row, saved, kept, spoilt>>

-----------------------------------------------------------------------------
(* The handler between load_or_create and persist.                         *)

Work_ReturnsNothing(r) ==
  /\ step[r] = "work"
  /\ Step(r, "commit") /\ Phase(r, "turn") /\ Hold(r, NoSession)
  /\ UNCHANGED <<row, hot, kind, saved, kept, spoilt>>

Work_CacheFirst(r) ==
  /\ step[r] = "work"
  /\ Step(r, "commit") /\ Phase(r, "turn") /\ Hold(r, Worked(copy[r], r))
  /\ hot' = Worked(copy[r], r)
  /\ UNCHANGED <<row, kind, saved, kept, spoilt>>

Work(r) ==
  /\ step[r] = "work"
  /\ Step(r, "commit") /\ Phase(r, "turn") /\ Hold(r, Worked(copy[r], r))
  /\ UNCHANGED <<row, hot, kind, saved, kept, spoilt>>

(* The session is closed, or a call of the handler raises.                 *)
Refuse(r) ==
  /\ step[r] = "work" \/ (step[r] = "get" /\ phase[r] = "load")
  /\ Over(r)
  /\ UNCHANGED <<row, hot, saved, kept, spoilt>>

-----------------------------------------------------------------------------
(* SessionStore.save.                                                      *)

Commit(r) ==
  /\ step[r] = "commit"
  /\ row' = copy[r] /\ saved' = saved \cup {copy[r]}
  /\ Step(r, "set")
  /\ UNCHANGED <<hot, kind, phase, copy, kept, spoilt>>

CommitFails_OnlyLogged(r) ==
  /\ step[r] = "commit"
  /\ Step(r, "set")
  /\ UNCHANGED <<row, saved, hot, kind, phase, copy, kept, spoilt>>

(* Postgres fails, with the row written or not: save raises.               *)
CommitFails(r) ==
  /\ step[r] = "commit"
  /\ \/ row' = copy[r] /\ saved' = saved \cup {copy[r]}
     \/ UNCHANGED <<row, saved>>
  /\ Over(r)
  /\ UNCHANGED <<hot, kept, spoilt>>

(* After the save: the handler goes on with the session it created, or the *)
(* candidate gets the answer.                                              *)
Finish(r) ==
  IF phase[r] = "create"
  THEN Step(r, "work") /\ UNCHANGED <<kind, phase, copy, kept>>
  ELSE Over(r) /\ kept' = kept \cup {r}

Set(r) ==
  /\ step[r] = "set"
  /\ hot' = copy[r] /\ Finish(r)
  /\ UNCHANGED <<row, saved, spoilt>>

(* Only logged: an older entry stays in Redis, and loads prefer it.        *)
SetFails(r) ==
  /\ step[r] = "set"
  /\ Finish(r)
  /\ spoilt' = (spoilt \/ hot \notin {NoSession, copy[r]})
  /\ UNCHANGED <<row, hot, saved>>

-----------------------------------------------------------------------------
(* The process dies with all its requests; Redis and Postgres stay.        *)
Crash ==
  /\ \E r \in Request : Busy(r)
  /\ step' = [r \in Request |-> IF Busy(r) THEN "over" ELSE step[r]]
  /\ copy' = [r \in Request |-> NoSession]
  /\ UNCHANGED <<row, hot, kind, phase, saved, kept, spoilt>>

(* session_ttl_seconds, or an eviction.                                    *)
Expire ==
  /\ hot # NoSession /\ hot' = NoSession
  /\ UNCHANGED <<row, requestVars, saved, kept, spoilt>>

StoreNext ==
  \/ \E r \in Request :
       \/ \E k \in {"submit", "answer", "read"} : Start(r, k)
       \/ Get(r) \/ Select(r) \/ Warm(r) \/ Work(r) \/ Refuse(r)
       \/ Commit(r) \/ CommitFails(r) \/ Set(r) \/ SetFails(r)
  \/ Crash \/ Expire

StoreSpec == StoreInit /\ [][StoreNext]_storeVars

-----------------------------------------------------------------------------
(* Properties.                                                             *)

(* A turn the candidate got an answer to stays in the session, and the     *)
(* next request is worked into a session that has it: through expiry, all  *)
(* failures of Redis while loading, failed and half-failed writes to       *)
(* Postgres and crashes between any two steps.  The exceptions are those   *)
(* of spoilt: requests that overlap, a failed write to Redis over an older *)
(* entry, a failed read from Postgres in the handler (store.py).           *)
AnsweredTurnsKept ==
  ~spoilt =>
    /\ kept # {} => row # NoSession /\ kept \subseteq row.turns
    /\ \A r \in Request : step[r] = "work" => kept \subseteq copy[r].turns

(* Redis never knows more than Postgres once did, even when requests       *)
(* overlap: no session a request can load goes away with the cache         *)
(* ("Postgres-first write-through").                                       *)
CacheWasSaved ==
  /\ hot # NoSession => hot \in saved
  /\ \A r \in Request : step[r] = "work" => copy[r] \in saved
=============================================================================
