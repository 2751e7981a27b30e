------------------------ MODULE SessionStore_proofs ------------------------
(***************************************************************************)
(* Proofs about SessionStore: its types, that the cache only ever holds    *)
(* what Postgres held, and that answered turns stay in the interview.      *)
(***************************************************************************)
EXTENDS SessionStore, TLAPS

(* A step that saves or works on a session has one, and is in its phase.   *)
Held ==
  \A r \in Request :
    /\ step[r] \in {"warm", "work", "commit", "set"} => copy[r] \in Session
    /\ step[r] \in {"new", "get", "select", "warm"} => phase[r] \in {"check", "load"}
    /\ step[r] \in {"commit", "set"} => phase[r] \in {"create", "turn"}

Typed == StoreTypeOK /\ Held

(* Everything a load can return was once in the row. *)
History ==
  /\ row # NoSession => row \in saved
  /\ hot # NoSession => hot \in saved
  /\ \A r \in Request : step[r] \in {"warm", "set", "work"} => copy[r] \in saved

(* Without the three exceptions: one request at a time, and every copy of  *)
(* the session, in Postgres, in Redis or in its hands, has the answered    *)
(* turns.                                                                  *)
Alone       == \A r, q \in Request : Busy(r) /\ Busy(q) => r = q
RowKeeps    == kept # {} => row # NoSession /\ kept \subseteq row.turns
CacheKeeps  == hot # NoSession => kept \subseteq hot.turns
CopiesKeep  == \A r \in Request :
                 step[r] \in {"warm", "work", "commit", "set"} => kept \subseteq copy[r].turns
SavedCopies == \A r \in Request :
                 /\ step[r] = "set" => row = copy[r]
                 /\ step[r] \in {"commit", "set"} /\ phase[r] = "turn" => r \in copy[r].turns
Keeping     == Alone /\ RowKeeps /\ CacheKeeps /\ CopiesKeep /\ SavedCopies
Kept        == ~spoilt => Keeping

Inv == Typed /\ History /\ Kept

-----------------------------------------------------------------------------
(* The moves of a request between its steps. *)

Move(r, s, p, c) ==
  /\ step' = [step EXCEPT ![r] = s]
  /\ phase' = [phase EXCEPT ![r] = p]
  /\ copy' = [copy EXCEPT ![r] = c]

LEMMA MoveKeepsTypes ==
  ASSUME Typed, NEW r \in Request,
         NEW s \in {"new", "get", "select", "warm", "work", "commit", "set", "over"},
         NEW p \in {"check", "load", "create", "turn"}, NEW c \in Maybe, Move(r, s, p, c),
         s \in {"warm", "work", "commit", "set"} => c \in Session,
         s \in {"new", "get", "select", "warm"} => p \in {"check", "load"},
         s \in {"commit", "set"} => p \in {"create", "turn"}
  PROVE  /\ Held'
         /\ step' \in [Request -> {"new", "get", "select", "warm", "work", "commit", "set", "over"}]
         /\ phase' \in [Request -> {"check", "load", "create", "turn"}]
         /\ copy' \in [Request -> Maybe]
BY DEF Typed, StoreTypeOK, Held, Move

LEMMA NoneIsNoSession == NoSession \notin Session
BY NoSessionAssumption

LEMMA FreshIsSession == Fresh \in Session /\ Fresh.turns = {}
BY DEF Fresh, Session

LEMMA WorkedIsSession ==
  ASSUME NEW s \in Session, NEW r \in Request
  PROVE  Worked(s, r) \in Session /\ Worked(s, r).turns = s.turns \cup {r}
BY DEF Worked, Session

LEMMA LoadedMoves ==
  ASSUME Typed, NEW r \in Request, NEW s \in Maybe, Loaded(r, s),
         step[r] \in {"get", "select", "warm"}
  PROVE  /\ kind' = kind
         /\ \/ Move(r, "over", phase[r], NoSession)
            \/ Move(r, "get", "load", NoSession)
            \/ Move(r, "commit", "create", Fresh) /\ s = NoSession /\ phase[r] = "load"
            \/ Move(r, "work", phase[r], s) /\ s # NoSession
<1> USE DEF Typed, StoreTypeOK, Held
<1>0. phase[r] \in {"check", "load"} /\ kind[r] \in {"submit", "answer", "read"}
  OBVIOUS
<1>1. phase = [phase EXCEPT ![r] = phase[r]]
  OBVIOUS
<1> QED
  BY <1>0, <1>1 DEF Loaded, Over, Step, Phase, Hold, Move

-----------------------------------------------------------------------------
(* Types. *)

LEMMA TypedInit == StoreInit => Typed
BY DEF StoreInit, Typed, StoreTypeOK, Held, Maybe

LEMMA LoadedKeepsTypes ==
  ASSUME Typed, NEW r \in Request, NEW s \in Maybe, Loaded(r, s),
         step[r] \in {"get", "select", "warm"},
         row' \in Maybe, hot' \in Maybe, saved' = saved, kept' = kept, spoilt' \in BOOLEAN
  PROVE  Typed'
<1>1. phase[r] \in {"check", "load"} /\ NoSession \in Maybe /\ Fresh \in Maybe
  BY FreshIsSession DEF Typed, StoreTypeOK, Held, Maybe
<1>2. kind' = kind /\ kind' \in [Request -> {"submit", "answer", "read"}]
  BY LoadedMoves DEF Typed, StoreTypeOK
<1>3. /\ Held'
      /\ step' \in [Request -> {"new", "get", "select", "warm", "work", "commit", "set", "over"}]
      /\ phase' \in [Request -> {"check", "load", "create", "turn"}]
      /\ copy' \in [Request -> Maybe]
  <2>1. CASE Move(r, "over", phase[r], NoSession)
    BY <1>1, <2>1, MoveKeepsTypes
  <2>2. CASE Move(r, "get", "load", NoSession)
    BY <1>1, <2>2, MoveKeepsTypes
  <2>3. CASE Move(r, "commit", "create", Fresh)
    BY <1>1, <2>3, MoveKeepsTypes, FreshIsSession
  <2>4. CASE Move(r, "work", phase[r], s) /\ s # NoSession
    BY <1>1, <2>4, MoveKeepsTypes DEF Maybe
  <2> QED
    BY <2>1, <2>2, <2>3, <2>4, LoadedMoves
<1> QED
  BY <1>2, <1>3 DEF Typed, StoreTypeOK

(* The moves of the other actions. *)
LEMMA OtherMoves ==
  ASSUME Typed, NEW r \in Request
  PROVE  /\ \A k \in {"submit", "answer", "read"} :
              Start(r, k) => Move(r, "get", phase[r], copy[r]) /\ kind' \in [Request -> {"submit", "answer", "read"}]
         /\ step[r] = "get" /\ Step(r, "select") /\ UNCHANGED <<kind, phase, copy>> =>
              Move(r, "select", phase[r], copy[r])
         /\ \A s \in Session : Step(r, "warm") /\ Hold(r, s) /\ UNCHANGED phase => Move(r, "warm", phase[r], s)
         /\ Work(r) => Move(r, "commit", "turn", Worked(copy[r], r))
         /\ Over(r) => Move(r, "over", phase[r], NoSession) /\ kind' = kind
         /\ Commit(r) => Move(r, "set", phase[r], copy[r])
         /\ Finish(r) => /\ kind' = kind
                         /\ \/ phase[r] = "create" /\ kept' = kept /\ Move(r, "work", phase[r], copy[r])
                            \/ phase[r] # "create" /\ kept' = kept \cup {r} /\ Move(r, "over", phase[r], NoSession)
<1> USE DEF Typed, StoreTypeOK, Move, Step, Hold, Phase
<1>1. phase = [phase EXCEPT ![r] = phase[r]] /\ copy = [copy EXCEPT ![r] = copy[r]]
  OBVIOUS
<1>2. ASSUME NEW k \in {"submit", "answer", "read"}, Start(r, k)
      PROVE  Move(r, "get", phase[r], copy[r]) /\ kind' \in [Request -> {"submit", "answer", "read"}]
  BY <1>1, <1>2 DEF Start
<1>3. Work(r) => Move(r, "commit", "turn", Worked(copy[r], r))
  BY DEF Work
<1>4. Over(r) => Move(r, "over", phase[r], NoSession) /\ kind' = kind
  BY <1>1 DEF Over
<1>5. Commit(r) => Move(r, "set", phase[r], copy[r])
  BY <1>1 DEF Commit
<1>6. Finish(r) => /\ kind' = kind
                   /\ \/ phase[r] = "create" /\ kept' = kept /\ Move(r, "work", phase[r], copy[r])
                      \/ phase[r] # "create" /\ kept' = kept \cup {r} /\ Move(r, "over", phase[r], NoSession)
  BY <1>1 DEF Finish, Over
<1> QED
  BY <1>1, <1>2, <1>3, <1>4, <1>5, <1>6

LEMMA TypedStep == Typed /\ [StoreNext]_storeVars => Typed'
<1> SUFFICES ASSUME Typed, [StoreNext]_storeVars PROVE Typed'
  OBVIOUS
<1>0. NoSession \in Maybe /\ Fresh \in Maybe /\ \A s \in Session : s \in Maybe
  BY FreshIsSession DEF Maybe
<1>1. ASSUME NEW r \in Request, NEW k \in {"submit", "answer", "read"}, Start(r, k)
      PROVE  Typed'
  <2>1. Move(r, "get", phase[r], copy[r]) /\ kind' \in [Request -> {"submit", "answer", "read"}]
    BY <1>1, OtherMoves
  <2>2. phase[r] \in {"check", "load"} /\ copy[r] \in Maybe
    BY <1>1 DEF Start, Typed, Held, StoreTypeOK
  <2>3. /\ Held'
        /\ step' \in [Request -> {"new", "get", "select", "warm", "work", "commit", "set", "over"}]
        /\ phase' \in [Request -> {"check", "load", "create", "turn"}]
        /\ copy' \in [Request -> Maybe]
    BY <2>1, <2>2, MoveKeepsTypes
  <2>4. row' = row /\ hot' = hot /\ saved' = saved /\ kept' = kept /\ spoilt' \in BOOLEAN
    BY <1>1 DEF Start, Typed, StoreTypeOK
  <2> QED
    BY <2>1, <2>3, <2>4 DEF Typed, StoreTypeOK
<1>2. ASSUME NEW r \in Request, Get(r)
      PROVE  Typed'
  <2>1. row' = row /\ hot' = hot /\ saved' = saved /\ kept' = kept /\ spoilt' = spoilt
    BY <1>2 DEF Get
  <2>2. CASE hot # NoSession /\ Loaded(r, hot)
    BY <1>2, <2>1, <2>2, LoadedKeepsTypes DEF Get, Typed, StoreTypeOK
  <2>3. CASE Step(r, "select") /\ UNCHANGED <<kind, phase, copy>>
    <3>1. Move(r, "select", phase[r], copy[r]) /\ kind' = kind
      BY <1>2, <2>3, OtherMoves DEF Get
    <3>2. phase[r] \in {"check", "load"} /\ copy[r] \in Maybe
      BY <1>2 DEF Get, Typed, Held, StoreTypeOK
    <3>3. /\ Held'
          /\ step' \in [Request -> {"new", "get", "select", "warm", "work", "commit", "set", "over"}]
          /\ phase' \in [Request -> {"check", "load", "create", "turn"}]
          /\ copy' \in [Request -> Maybe]
      BY <3>1, <3>2, MoveKeepsTypes
    <3> QED
      BY <2>1, <3>1, <3>3 DEF Typed, StoreTypeOK
  <2> QED
    BY <1>2, <2>2, <2>3 DEF Get
<1>3. ASSUME NEW r \in Request, Select(r)
      PROVE  Typed'
  <2>1. row' = row /\ hot' = hot /\ saved' = saved /\ kept' = kept /\ spoilt' \in BOOLEAN
    BY <1>3 DEF Select, Typed, StoreTypeOK
  <2>2. CASE Loaded(r, NoSession)
    BY <1>0, <1>3, <2>1, <2>2, LoadedKeepsTypes DEF Select, Typed, StoreTypeOK
  <2>3. CASE row # NoSession /\ Step(r, "warm") /\ Hold(r, row) /\ UNCHANGED <<kind, phase, spoilt>>
    <3>1. row \in Session
      BY <2>3 DEF Typed, StoreTypeOK, Maybe
    <3>2. Move(r, "warm", phase[r], row) /\ kind' = kind
      BY <2>3, <3>1, OtherMoves
    <3>3. phase[r] \in {"check", "load"}
      BY <1>3 DEF Select, Typed, Held
    <3>4. /\ Held'
          /\ step' \in [Request -> {"new", "get", "select", "warm", "work", "commit", "set", "over"}]
          /\ phase' \in [Request -> {"check", "load", "create", "turn"}]
          /\ copy' \in [Request -> Maybe]
      BY <1>0, <3>1, <3>2, <3>3, MoveKeepsTypes
    <3> QED
      BY <2>1, <3>2, <3>4 DEF Typed, StoreTypeOK
  <2> QED
    BY <1>3, <2>2, <2>3 DEF Select
<1>4. ASSUME NEW r \in Request, Warm(r)
      PROVE  Typed'
  <2>1. row' = row /\ hot' \in Maybe /\ saved' = saved /\ kept' = kept /\ spoilt' = spoilt
    BY <1>4 DEF Warm, Typed, StoreTypeOK
  <2> QED
    BY <1>4, <2>1, LoadedKeepsTypes DEF Warm, Typed, StoreTypeOK
<1>5. ASSUME NEW r \in Request, Work(r)
      PROVE  Typed'
  <2>1. Move(r, "commit", "turn", Worked(copy[r], r)) /\ Worked(copy[r], r) \in Session
    BY <1>5, OtherMoves, WorkedIsSession DEF Work, Typed, Held
  <2>2. /\ Held'
        /\ step' \in [Request -> {"new", "get", "select", "warm", "work", "commit", "set", "over"}]
        /\ phase' \in [Request -> {"check", "load", "create", "turn"}]
        /\ copy' \in [Request -> Maybe]
    BY <1>0, <2>1, MoveKeepsTypes
  <2> QED
    BY <1>5, <2>2 DEF Work, Typed, StoreTypeOK
<1>6. ASSUME NEW r \in Request, Over(r)
      PROVE  /\ Held' /\ kind' = kind
             /\ step' \in [Request -> {"new", "get", "select", "warm", "work", "commit", "set", "over"}]
             /\ phase' \in [Request -> {"check", "load", "create", "turn"}]
             /\ copy' \in [Request -> Maybe]
  <2>1. Move(r, "over", phase[r], NoSession) /\ kind' = kind /\ phase[r] \in {"check", "load", "create", "turn"}
    BY <1>6, OtherMoves DEF Typed, StoreTypeOK
  <2> QED
    BY <1>0, <2>1, MoveKeepsTypes
<1>7. ASSUME NEW r \in Request, Refuse(r)
      PROVE  Typed'
  BY <1>6, <1>7 DEF Refuse, Typed, StoreTypeOK
<1>8. ASSUME NEW r \in Request, step[r] = "commit"
      PROVE  copy[r] \in Session /\ phase[r] \in {"create", "turn"}
  BY <1>8 DEF Typed, Held
<1>9. ASSUME NEW r \in Request, Commit(r)
      PROVE  Typed'
  <2>1. Move(r, "set", phase[r], copy[r]) /\ copy[r] \in Session /\ phase[r] \in {"create", "turn"}
    BY <1>8, <1>9, OtherMoves DEF Commit
  <2>2. /\ Held'
        /\ step' \in [Request -> {"new", "get", "select", "warm", "work", "commit", "set", "over"}]
        /\ phase' \in [Request -> {"check", "load", "create", "turn"}]
        /\ copy' \in [Request -> Maybe]
    BY <1>0, <2>1, MoveKeepsTypes
  <2> QED
    BY <1>0, <1>9, <2>1, <2>2 DEF Commit, Typed, StoreTypeOK
<1>10. ASSUME NEW r \in Request, CommitFails(r)
       PROVE  Typed'
  <2>1. copy[r] \in Session /\ copy[r] \in Maybe
    BY <1>0, <1>8, <1>10 DEF CommitFails
  <2> QED
    BY <1>6, <1>10, <2>1 DEF CommitFails, Typed, StoreTypeOK
<1>11. ASSUME NEW r \in Request, step[r] = "set", Finish(r)
       PROVE  /\ Held' /\ kind' = kind /\ kept' \subseteq Request
              /\ step' \in [Request -> {"new", "get", "select", "warm", "work", "commit", "set", "over"}]
              /\ phase' \in [Request -> {"check", "load", "create", "turn"}]
              /\ copy' \in [Request -> Maybe]
  <2>1. copy[r] \in Session /\ phase[r] \in {"create", "turn"}
    BY <1>11 DEF Typed, Held
  <2>2. CASE kept' = kept /\ Move(r, "work", phase[r], copy[r])
    BY <1>0, <1>11, <2>1, <2>2, OtherMoves, MoveKeepsTypes DEF Typed, StoreTypeOK
  <2>3. CASE kept' = kept \cup {r} /\ Move(r, "over", phase[r], NoSession)
    BY <1>0, <1>11, <2>1, <2>3, OtherMoves, MoveKeepsTypes DEF Typed, StoreTypeOK
  <2> QED
    BY <1>11, <2>2, <2>3, OtherMoves
<1>12. ASSUME NEW r \in Request, Set(r)
       PROVE  Typed'
  <2>1. copy[r] \in Maybe
    BY DEF Typed, StoreTypeOK
  <2> QED
    BY <1>11, <1>12, <2>1 DEF Set, Typed, StoreTypeOK
<1>13. ASSUME NEW r \in Request, SetFails(r)
       PROVE  Typed'
  <2>1. spoilt' \in BOOLEAN
    BY <1>13 DEF SetFails, Typed, StoreTypeOK
  <2> QED
    BY <1>11, <1>13, <2>1 DEF SetFails, Typed, StoreTypeOK
<1>14. ASSUME Crash
       PROVE  Typed'
  <2>1. /\ step' \in [Request -> {"new", "get", "select", "warm", "work", "commit", "set", "over"}]
        /\ \A r \in Request : step'[r] \in {"new", "over"} /\ (step'[r] = "new" => step[r] = "new")
        /\ copy' \in [Request -> Maybe] /\ phase' = phase
    BY <1>0, <1>14 DEF Crash, Busy, Typed, StoreTypeOK
  <2>2. Held'
    BY <2>1 DEF Typed, Held
  <2> QED
    BY <1>14, <2>1, <2>2 DEF Crash, Typed, StoreTypeOK
<1>15. ASSUME Expire
       PROVE  Typed'
  BY <1>0, <1>15 DEF Expire, requestVars, Typed, StoreTypeOK, Held
<1>16. ASSUME UNCHANGED storeVars
       PROVE  Typed'
  BY <1>16 DEF storeVars, requestVars, Typed, StoreTypeOK, Held
<1> QED
  BY <1>1, <1>2, <1>3, <1>4, <1>5, <1>7, <1>9, <1>10, <1>12, <1>13, <1>14, <1>15, <1>16 DEF StoreNext

(* StoreTypeOK: the row, the entry in Redis and the copies requests hold   *)
(* stay sessions, and no request works on or saves one it does not have.   *)
THEOREM StoreTypesHold == StoreSpec => []StoreTypeOK
<1>1. Typed => StoreTypeOK
  BY DEF Typed
<1> QED
  BY <1>1, TypedInit, TypedStep, PTL DEF StoreSpec

-----------------------------------------------------------------------------
(* CacheWasSaved. *)

LEMMA HistoryStep == Typed /\ History /\ [StoreNext]_storeVars => History'
<1> SUFFICES ASSUME Typed, History, [StoreNext]_storeVars PROVE History'
  OBVIOUS
<1>0. \A r \in Request : step[r] \in {"new", "get", "select", "warm", "work", "commit", "set", "over"}
  BY DEF Typed, StoreTypeOK
<1>1. ASSUME NEW r \in Request, NEW s \in Maybe, Loaded(r, s), step[r] \in {"get", "select", "warm"},
             s # NoSession => s \in saved, saved' = saved
      PROVE  \A q \in Request : step'[q] \in {"warm", "set", "work"} => copy'[q] \in saved'
  BY <1>1, LoadedMoves DEF Move, History, Typed, StoreTypeOK
<1>2. ASSUME NEW r \in Request, Get(r)
      PROVE  History'
  <2>1. CASE hot # NoSession /\ Loaded(r, hot)
    BY <1>1, <1>2, <2>1 DEF Get, History, Typed, StoreTypeOK
  <2>2. CASE Step(r, "select") /\ UNCHANGED <<kind, phase, copy>>
    BY <1>2, <2>2 DEF Get, Step, History, Typed, StoreTypeOK
  <2> QED
    BY <1>2, <2>1, <2>2 DEF Get
<1>3. ASSUME NEW r \in Request, Select(r)
      PROVE  History'
  <2>1. CASE Loaded(r, NoSession)
    BY <1>1, <1>3, <2>1 DEF Select, History, Maybe
  <2>2. CASE row # NoSession /\ Step(r, "warm") /\ Hold(r, row)
    BY <1>3, <2>2 DEF Select, Step, Hold, History, Typed, StoreTypeOK
  <2> QED
    BY <1>3, <2>1, <2>2 DEF Select
<1>4. ASSUME NEW r \in Request, Warm(r)
      PROVE  History'
  <2>1. copy[r] \in saved /\ copy[r] \in Maybe
    BY <1>4 DEF Warm, History, Typed, StoreTypeOK
  <2> QED
    BY <1>1, <1>4, <2>1 DEF Warm, History
<1>5. ASSUME NEW r \in Request, Work(r) \/ (Over(r) /\ UNCHANGED <<row, hot, saved>>)
      PROVE  History'
  BY <1>5 DEF Work, Over, Step, Hold, Phase, History, Typed, StoreTypeOK
<1>6. ASSUME NEW r \in Request, Commit(r)
      PROVE  History'
  BY <1>6 DEF Commit, Step, History, Typed, StoreTypeOK
<1>7. ASSUME NEW r \in Request, CommitFails(r)
      PROVE  History'
  BY <1>7 DEF CommitFails, Over, Step, Hold, History, Typed, StoreTypeOK
<1>8. ASSUME NEW r \in Request, Set(r) \/ SetFails(r)
      PROVE  History'
  BY <1>8 DEF Set, SetFails, Finish, Over, Step, Hold, History, Typed, StoreTypeOK
<1>9. ASSUME NEW r \in Request, NEW k \in {"submit", "answer", "read"}, Start(r, k)
      PROVE  History'
  BY <1>9 DEF Start, Step, History, Typed, StoreTypeOK
<1>10. ASSUME Crash \/ Expire \/ UNCHANGED storeVars
       PROVE  History'
  BY <1>0, <1>10 DEF Crash, Expire, Busy, storeVars, requestVars, History, Typed, StoreTypeOK
<1> QED
  BY <1>2, <1>3, <1>4, <1>5, <1>6, <1>7, <1>8, <1>9, <1>10 DEF StoreNext, Refuse

(* CacheWasSaved: no interleaving of loads, saves and failures puts into   *)
(* Redis, or into a request's hands, a session that was never in Postgres. *)
THEOREM CacheNeverAhead == StoreSpec => []CacheWasSaved
<1>1. StoreInit => History
  BY DEF StoreInit, History
<1>2. History => CacheWasSaved
  BY DEF History, CacheWasSaved
<1> QED
  BY <1>1, <1>2, TypedInit, TypedStep, HistoryStep, PTL DEF StoreSpec

-----------------------------------------------------------------------------
(* AnsweredTurnsKept. *)

(* A move of the one request there is. *)
LEMMA SoloMove ==
  ASSUME Typed, Keeping, NEW r \in Request, Busy(r),
         NEW s, NEW p, NEW c, Move(r, s, p, c), RowKeeps', CacheKeeps',
         s \in {"warm", "work", "commit", "set"} => kept' \subseteq c.turns,
         s = "set" => row' = c,
         s \in {"commit", "set"} /\ p = "turn" => r \in c.turns
  PROVE  Keeping'
<1>1. \A q \in Request : q # r => ~Busy(q)
  BY DEF Keeping, Alone
<1>2. step' = [step EXCEPT ![r] = s] /\ phase' = [phase EXCEPT ![r] = p] /\ copy' = [copy EXCEPT ![r] = c]
  BY DEF Move
<1>3. /\ step'[r] = s /\ phase'[r] = p /\ copy'[r] = c
      /\ \A q \in Request : q # r => step'[q] \in {"new", "over"}
  BY <1>1, <1>2 DEF Busy, Typed, StoreTypeOK
<1>4. Alone' /\ CopiesKeep' /\ SavedCopies'
  BY <1>3 DEF Alone, CopiesKeep, SavedCopies, Busy
<1> QED
  BY <1>4 DEF Keeping

(* A load gives the session with all answered turns or, where there is no  *)
(* row, none.                                                              *)
LEMMA LoadedKeeps ==
  ASSUME Typed, Keeping, NEW r \in Request, NEW s \in Maybe, Loaded(r, s),
         step[r] \in {"get", "select", "warm"}, row' = row, kept' = kept, CacheKeeps',
         s # NoSession => kept \subseteq s.turns,
         s = NoSession /\ phase[r] = "load" => row = NoSession
  PROVE  Keeping'
<1>1. Busy(r) /\ RowKeeps'
  BY DEF Busy, Keeping, RowKeeps
<1>2. CASE Move(r, "over", phase[r], NoSession)
  BY <1>1, <1>2, SoloMove
<1>3. CASE Move(r, "get", "load", NoSession)
  BY <1>1, <1>3, SoloMove
<1>4. CASE Move(r, "commit", "create", Fresh) /\ s = NoSession /\ phase[r] = "load"
  <2>1. kept = {}
    BY <1>4 DEF Keeping, RowKeeps
  <2> QED
    BY <1>1, <1>4, <2>1, SoloMove, FreshIsSession
<1>5. CASE Move(r, "work", phase[r], s) /\ s # NoSession
  BY <1>1, <1>5, SoloMove
<1> QED
  BY <1>2, <1>3, <1>4, <1>5, LoadedMoves

LEMMA KeptStep == Typed /\ Kept /\ [StoreNext]_storeVars => Kept'
<1> SUFFICES ASSUME Typed, Kept, [StoreNext]_storeVars, ~spoilt' PROVE Keeping'
  BY DEF Kept
<1>0. ~spoilt /\ Keeping
  BY DEF Kept, StoreNext, Start, Get, Select, Warm, Work, Refuse, Commit, CommitFails, Set, SetFails,
         Crash, Expire, storeVars, requestVars, Typed, StoreTypeOK
<1>1. ASSUME NEW r \in Request, NEW k \in {"submit", "answer", "read"}, Start(r, k)
      PROVE  Keeping'
  <2>1. \A q \in Request : ~Busy(q)
    BY <1>1 DEF Start, Typed, StoreTypeOK
  <2>2. /\ \A q \in Request : q # r => step'[q] \in {"new", "over"}
        /\ step'[r] = "get"
    BY <1>1, <2>1 DEF Start, Step, Busy, Typed, StoreTypeOK
  <2>3. Alone' /\ CopiesKeep' /\ SavedCopies'
    BY <2>2 DEF Alone, CopiesKeep, SavedCopies, Busy
  <2> QED
    BY <1>0, <1>1, <2>3 DEF Start, Keeping, RowKeeps, CacheKeeps
<1>2. ASSUME NEW r \in Request, Get(r)
      PROVE  Keeping'
  <2>1. row' = row /\ hot' = hot /\ kept' = kept /\ RowKeeps' /\ CacheKeeps' /\ Busy(r)
    BY <1>0, <1>2 DEF Get, Keeping, RowKeeps, CacheKeeps, Busy
  <2>2. CASE hot # NoSession /\ Loaded(r, hot)
    <3>1. hot \in Maybe /\ kept \subseteq hot.turns
      BY <1>0, <2>2 DEF Keeping, CacheKeeps, Typed, StoreTypeOK
    <3> QED
      BY <1>0, <1>2, <2>1, <2>2, <3>1, LoadedKeeps DEF Get
  <2>3. CASE Step(r, "select") /\ UNCHANGED <<kind, phase, copy>>
    <3>1. Move(r, "select", phase[r], copy[r])
      BY <1>2, <2>3, OtherMoves DEF Get
    <3> QED
      BY <1>0, <2>1, <3>1, SoloMove
  <2> QED
    BY <1>2, <2>2, <2>3 DEF Get
<1>3. ASSUME NEW r \in Request, Select(r)
      PROVE  Keeping'
  <2>1. row' = row /\ hot' = hot /\ kept' = kept /\ RowKeeps' /\ CacheKeeps' /\ Busy(r)
    BY <1>0, <1>3 DEF Select, Keeping, RowKeeps, CacheKeeps, Busy
  <2>2. CASE Loaded(r, NoSession) /\ spoilt' = (spoilt \/ (row # NoSession /\ phase[r] = "load"))
    <3>1. NoSession \in Maybe /\ (phase[r] = "load" => row = NoSession)
      BY <2>2 DEF Maybe
    <3> QED
      BY <1>0, <1>3, <2>1, <2>2, <3>1, LoadedKeeps DEF Select
  <2>3. CASE row # NoSession /\ Step(r, "warm") /\ Hold(r, row) /\ UNCHANGED <<kind, phase, spoilt>>
    <3>1. row \in Session /\ kept \subseteq row.turns
      BY <1>0, <2>3 DEF Keeping, RowKeeps, Typed, StoreTypeOK, Maybe, Session
    <3>2. Move(r, "warm", phase[r], row)
      BY <2>3, <3>1, OtherMoves
    <3> QED
      BY <1>0, <2>1, <3>1, <3>2, SoloMove
  <2> QED
    BY <1>3, <2>2, <2>3 DEF Select
<1>4. ASSUME NEW r \in Request, Warm(r)
      PROVE  Keeping'
  <2>1. copy[r] \in Session /\ kept \subseteq copy[r].turns
    BY <1>0, <1>4 DEF Warm, Keeping, CopiesKeep, Typed, Held
  <2>2. copy[r] \in Maybe /\ copy[r] # NoSession
    BY <2>1, NoneIsNoSession DEF Maybe
  <2>3. row' = row /\ kept' = kept /\ CacheKeeps'
    BY <1>0, <1>4, <2>1 DEF Warm, Keeping, CacheKeeps
  <2> QED
    BY <1>0, <1>4, <2>1, <2>2, <2>3, LoadedKeeps DEF Warm
<1>5. ASSUME NEW r \in Request, Work(r)
      PROVE  Keeping'
  <2>1. copy[r] \in Session /\ kept \subseteq copy[r].turns /\ Busy(r)
    BY <1>0, <1>5 DEF Work, Keeping, CopiesKeep, Typed, Held, Busy
  <2>2. Worked(copy[r], r).turns = copy[r].turns \cup {r}
    BY <2>1, WorkedIsSession
  <2>3. Move(r, "commit", "turn", Worked(copy[r], r))
    BY <1>5, OtherMoves
  <2>4. kept' = kept /\ RowKeeps' /\ CacheKeeps'
    BY <1>0, <1>5 DEF Work, Keeping, RowKeeps, CacheKeeps
  <2> QED
    BY <1>0, <2>1, <2>2, <2>3, <2>4, SoloMove
<1>6. ASSUME NEW r \in Request, Refuse(r)
      PROVE  Keeping'
  <2>1. Busy(r) /\ RowKeeps' /\ CacheKeeps'
    BY <1>0, <1>6 DEF Refuse, Busy, Keeping, RowKeeps, CacheKeeps
  <2>2. Move(r, "over", phase[r], NoSession)
    BY <1>6, OtherMoves DEF Refuse
  <2> QED
    BY <1>0, <2>1, <2>2, SoloMove
<1>7. ASSUME NEW r \in Request, step[r] = "commit", row' = copy[r], kept' = kept
      PROVE  RowKeeps'
  <2>1. copy[r] \in Session /\ kept \subseteq copy[r].turns
    BY <1>0, <1>7 DEF Keeping, CopiesKeep, Typed, Held
  <2> QED
    BY <1>7, <2>1, NoneIsNoSession DEF RowKeeps
<1>8. ASSUME NEW r \in Request, Commit(r)
      PROVE  Keeping'
  <2>1. kept \subseteq copy[r].turns /\ (phase[r] = "turn" => r \in copy[r].turns) /\ Busy(r)
    BY <1>0, <1>8 DEF Commit, Keeping, CopiesKeep, SavedCopies, Busy
  <2>2. Move(r, "set", phase[r], copy[r])
    BY <1>8, OtherMoves
  <2>3. kept' = kept /\ row' = copy[r] /\ RowKeeps' /\ CacheKeeps'
    BY <1>0, <1>7, <1>8 DEF Commit, Keeping, CacheKeeps
  <2> QED
    BY <1>0, <2>1, <2>2, <2>3, SoloMove
<1>9. ASSUME NEW r \in Request, CommitFails(r)
      PROVE  Keeping'
  <2>1. Busy(r) /\ kept' = kept /\ CacheKeeps'
    BY <1>0, <1>9 DEF CommitFails, Busy, Keeping, CacheKeeps
  <2>2. RowKeeps'
    BY <1>0, <1>7, <1>9 DEF CommitFails, Keeping, RowKeeps
  <2>3. Move(r, "over", phase[r], NoSession)
    BY <1>9, OtherMoves DEF CommitFails
  <2> QED
    BY <1>0, <2>1, <2>2, <2>3, SoloMove
<1>10. ASSUME NEW r \in Request, step[r] = "set", Finish(r), row' = row,
              hot' \in {NoSession, copy[r]} \/ (hot' = hot /\ phase[r] = "create")
       PROVE  Keeping'
  <2>1. /\ Busy(r) /\ kept \subseteq copy[r].turns /\ row = copy[r] /\ copy[r] \in Session
        /\ phase[r] \in {"create", "turn"} /\ (phase[r] = "turn" => r \in copy[r].turns)
    BY <1>0, <1>10 DEF Busy, Keeping, CopiesKeep, SavedCopies, Typed, Held
  <2>2. kept' \subseteq copy[r].turns
    BY <1>10, <2>1, OtherMoves
  <2>3. RowKeeps' /\ CacheKeeps'
    BY <1>0, <1>10, <2>1, <2>2, NoneIsNoSession, OtherMoves DEF RowKeeps, CacheKeeps, Keeping
  <2>4. CASE Move(r, "work", phase[r], copy[r])
    BY <1>0, <2>1, <2>2, <2>3, <2>4, SoloMove
  <2>5. CASE Move(r, "over", phase[r], NoSession)
    BY <1>0, <2>1, <2>3, <2>5, SoloMove
  <2> QED
    BY <1>10, <2>4, <2>5, OtherMoves
<1>11. ASSUME NEW r \in Request, Set(r)
       PROVE  Keeping'
  BY <1>10, <1>11 DEF Set
<1>12. ASSUME NEW r \in Request, SetFails(r)
       PROVE  Keeping'
  BY <1>10, <1>12 DEF SetFails
<1>13. ASSUME Crash
       PROVE  Keeping'
  <2>1. \A r \in Request : step'[r] \in {"new", "over"}
    BY <1>13 DEF Crash, Busy
  <2> QED
    BY <1>0, <1>13, <2>1 DEF Crash, Keeping, Alone, RowKeeps, CacheKeeps, CopiesKeep, SavedCopies, Busy
<1>14. ASSUME Expire
       PROVE  Keeping'
  BY <1>0, <1>14 DEF Expire, requestVars, Keeping, Alone, RowKeeps, CacheKeeps, CopiesKeep, SavedCopies, Busy
<1>15. ASSUME UNCHANGED storeVars
       PROVE  Keeping'
  BY <1>0, <1>15 DEF storeVars, requestVars, Keeping, Alone, RowKeeps, CacheKeeps, CopiesKeep, SavedCopies, Busy
<1> QED
  BY <1>1, <1>2, <1>3, <1>4, <1>5, <1>6, <1>8, <1>9, <1>11, <1>12, <1>13, <1>14, <1>15 DEF StoreNext

(* AnsweredTurnsKept: an answered turn is in the row, and in the session   *)
(* the next request works on, whatever fails and whenever the process      *)
(* dies, with the three exceptions of spoilt.                              *)
THEOREM AnswersSurvive == StoreSpec => []AnsweredTurnsKept
<1>1. StoreInit => Kept
  BY DEF StoreInit, Kept, Keeping, Alone, RowKeeps, CacheKeeps, CopiesKeep, SavedCopies, Busy
<1>2. Kept => AnsweredTurnsKept
  BY DEF Kept, Keeping, RowKeeps, CopiesKeep, AnsweredTurnsKept
<1> QED
  BY <1>1, <1>2, TypedInit, TypedStep, KeptStep, PTL DEF StoreSpec
=============================================================================
