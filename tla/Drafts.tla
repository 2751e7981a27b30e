------------------------------- MODULE Drafts -------------------------------
(***************************************************************************)
(* The draft of one candidate's work on one problem: the page that saves   *)
(* it in the background (Workspace.tsx, api.ts) and its row on the backend *)
(* (DraftController, DraftService).                                        *)
(*                                                                         *)
(* A version is the content of the files that are not locked; only those   *)
(* are in a draft, while the hash a page starts with on the boilerplate    *)
(* covers the locked ones too and so matches no draft.  Each PUT and       *)
(* DELETE is a flight: several may be under way, and the network and the   *)
(* server take them in any order, fail them with or without effect, and    *)
(* may apply them after the page is gone.  There is one page at a time.    *)
(*                                                                         *)
(* Definitions named ..._X are mutations: what a slip in the code would    *)
(* make of the definition that follows; the specification never uses them. *)
(***************************************************************************)
EXTENDS Naturals, Sequences, FiniteSets

Sq == INSTANCE SequencesExt

CONSTANTS Version, Boilerplate, NoDraft,
          MaxFlights       \* bound: requests under way at a time

ASSUME VersionAssumption == Boilerplate \in Version /\ NoDraft \notin Version
ASSUME FlightsAssumption == MaxFlights \in Nat

VARIABLES
  draft,                   \* the row of drafts
  page, files, offer,      \* the page; its editor; its pendingDraft
  lastSaved,               \* lastSavedHashRef
  timer,                   \* saveTimeoutRef is armed
  flights,                 \* the requests under way, in the order they were sent
  since,                   \* the versions sent since the last delete
  muddled,                 \* requests crossed in a way nothing in the code prevents
  behind                   \* a save failed, or was left out during another, since the last edit

draftVars == <<draft, page, files, offer, lastSaved, timer, flights, since, muddled, behind>>

OrNone(V) == V \cup {NoDraft}
Pages     == {"closed", "loading", "choosing", "clearing", "editing", "resetting", "failed"}

DraftTypeOK ==
  /\ draft \in OrNone(Version) /\ page \in Pages /\ files \in OrNone(Version)
  /\ offer \in OrNone(Version) /\ lastSaved \in OrNone(Version) /\ timer \in BOOLEAN
  /\ flights \in Seq([v : OrNone(Version), at : {"sent", "applied", "lost"}])
  /\ Len(flights) <= MaxFlights
  /\ page \in {"editing", "resetting"} => files \in Version
  /\ page = "choosing" => offer \in Version
  /\ since \subseteq Version /\ muddled \in BOOLEAN /\ behind \in BOOLEAN

DraftInit ==
  /\ draft = NoDraft /\ page = "closed" /\ files = NoDraft /\ offer = NoDraft
  /\ lastSaved = NoDraft /\ timer = FALSE /\ flights = <<>>
  /\ since = {} /\ muddled = FALSE /\ behind = FALSE

Flight   == DOMAIN flights
Alive    == page \in {"editing", "resetting"}
Deleting == \E i \in Flight : flights[i].v = NoDraft

Send(v) ==
  /\ Len(flights) < MaxFlights
  /\ flights' = Append(flights, [v |-> v, at |-> "sent"])

Unapplied(s) == {i \in DOMAIN s : s[i].at # "applied"}
Nth(S, n)    == CHOOSE i \in S : Cardinality({j \in S : j <= i}) = n

(* What becomes of the requests of a page that is gone: nobody waits for   *)
(* those the server has not applied yet.                                   *)
Abandoned(s) ==
  [n \in 1..Cardinality(Unapplied(s)) |-> [s[Nth(Unapplied(s), n)] EXCEPT !.at = "lost"]]

-----------------------------------------------------------------------------
(* Opening the workspace.                                                  *)

Open ==
  /\ page \in {"closed", "failed"} /\ page' = "loading"
  /\ UNCHANGED <<draft, files, offer, lastSaved, timer, flights, since, muddled, behind>>

(* finalizeFiles; files are set, so the debounce starts.                   *)
Edits(v, hash) ==
  /\ page' = "editing" /\ files' = v /\ lastSaved' = hash
  /\ timer' = TRUE /\ behind' = FALSE /\ offer' = NoDraft

(* init: the draft, the boilerplate if there is none, or an error.         *)
Load ==
  /\ page = "loading"
  /\ \/ /\ draft # NoDraft /\ page' = "choosing" /\ offer' = draft
        /\ UNCHANGED <<files, lastSaved, timer, behind>>
     \/ draft = NoDraft /\ Edits(Boilerplate, NoDraft)
     \/ page' = "failed" /\ UNCHANGED <<files, offer, lastSaved, timer, behind>>
  /\ muddled' = (muddled \/ flights # <<>>)
  /\ UNCHANGED <<draft, flights, since>>

Continue_TakesItFirst ==
  /\ page = "choosing" /\ page' = "editing" /\ offer' = NoDraft
  /\ files' = offer' /\ lastSaved' = offer' /\ timer' = TRUE /\ behind' = FALSE
  /\ UNCHANGED <<draft, flights, since, muddled>>

Continue ==
  /\ page = "choosing" /\ Edits(offer, offer)
  /\ UNCHANGED <<draft, flights, since, muddled>>

StartOver ==
  /\ page = "choosing" /\ page' = "clearing" /\ offer' = NoDraft
  /\ Send(NoDraft)
  /\ UNCHANGED <<draft, files, lastSaved, timer, since, muddled, behind>>

Reset ==
  /\ page = "editing" /\ page' = "resetting"
  /\ Send(NoDraft)
  /\ UNCHANGED <<draft, files, offer, lastSaved, timer, since, muddled, behind>>

(* The tab is closed, or the candidate goes back to the list.              *)
Leave ==
  /\ page # "closed" /\ page' = "closed"
  /\ timer' = FALSE /\ offer' = NoDraft /\ flights' = Abandoned(flights)
  /\ UNCHANGED <<draft, files, lastSaved, since, muddled, behind>>

-----------------------------------------------------------------------------
(* Editing.                                                                *)

(* Only a change of files starts the debounce. *)
Edit_KeepsTimer(v) ==
  /\ page = "editing" /\ v # files /\ files' = v /\ behind' = FALSE
  /\ UNCHANGED <<draft, page, offer, lastSaved, timer, flights, since, muddled>>

Edit(v) ==
  /\ page = "editing" /\ v # files /\ files' = v /\ timer' = TRUE /\ behind' = FALSE
  /\ UNCHANGED <<draft, page, offer, lastSaved, flights, since, muddled>>

Persist_MarksFirst ==
  IF files = lastSaved
  THEN UNCHANGED <<flights, since, muddled, lastSaved, behind>>
  ELSE /\ Send(files) /\ since' = since \cup {files} /\ lastSaved' = files
       /\ muddled' = (muddled \/ Deleting) /\ UNCHANGED behind

(* persistDraftIfChanged: a version that was saved last is not sent, even  *)
(* while another one is under way; one sent during a DELETE may outlive    *)
(* it.                                                                     *)
Persist ==
  IF files = lastSaved
  THEN /\ behind' = (behind \/ \E i \in Flight : flights[i].v # files)
       /\ UNCHANGED <<flights, since, muddled, lastSaved>>
  ELSE /\ Send(files) /\ since' = since \cup {files}
       /\ muddled' = (muddled \/ Deleting)
       /\ UNCHANGED <<lastSaved, behind>>

(* The two seconds are over; a reset does not stop them.                   *)
Fire ==
  /\ Alive /\ timer /\ timer' = FALSE /\ Persist
  /\ UNCHANGED <<draft, page, files, offer>>

(* handleRun, handleSubmit.                                                *)
Checkpoint ==
  /\ page = "editing" /\ Persist
  /\ UNCHANGED <<draft, page, files, offer, timer>>

-----------------------------------------------------------------------------
(* The requests.                                                           *)

(* DraftService.saveDraft, deleteDraft.                                    *)
Apply(i) ==
  /\ flights[i].at # "applied" /\ draft' = flights[i].v
  /\ flights' = IF flights[i].at = "lost" THEN Sq!RemoveAt(flights, i)
                ELSE [flights EXCEPT ![i].at = "applied"]
  /\ muddled' = \/ muddled
                \/ flights[i].at = "lost" /\ page \notin {"closed", "loading", "failed"}
                \/ \E j \in Flight : j < i /\ flights[j].at # "applied"
  /\ UNCHANGED <<page, files, offer, lastSaved, timer, since, behind>>

(* A PUT returns to the page.                                              *)
Saved(i) ==
  /\ flights[i].at = "applied" /\ flights[i].v # NoDraft
  /\ lastSaved' = flights[i].v /\ flights' = Sq!RemoveAt(flights, i)
  /\ muddled' = (muddled \/ \E j \in Flight : j < i /\ flights[j].at # "lost")
  /\ UNCHANGED <<draft, page, files, offer, timer, since, behind>>

(* A DELETE returns: the boilerplate, by hand or with a reload.            *)
Deleted(i) ==
  /\ flights[i].at = "applied" /\ flights[i].v = NoDraft
  /\ since' = {}
  /\ \/ page = "clearing" /\ Edits(Boilerplate, NoDraft) /\ flights' = Sq!RemoveAt(flights, i)
     \/ /\ page = "resetting" /\ page' = "loading" /\ timer' = FALSE
        /\ flights' = Abandoned(flights)
        /\ UNCHANGED <<files, offer, lastSaved, behind>>
  /\ UNCHANGED <<draft, muddled>>

(* A failed DELETE goes on as a deletion. *)
Fail_Ignored(i) ==
  /\ flights[i].at # "lost" /\ flights' = Sq!RemoveAt(flights, i)
  /\ IF flights[i].v = NoDraft /\ page = "clearing"
     THEN Edits(Boilerplate, NoDraft) /\ since' = {}
     ELSE UNCHANGED <<page, files, offer, lastSaved, timer, since>> /\ behind' = TRUE
  /\ UNCHANGED <<draft, muddled>>

(* A request fails for the page, which does not try it again: the server   *)
(* refused it, did it, or may still do it.                                 *)
Fail(i) ==
  /\ \/ flights' = Sq!RemoveAt(flights, i)
     \/ flights[i].at = "sent" /\ flights' = [flights EXCEPT ![i].at = "lost"]
  /\ muddled' = (muddled \/ (flights[i].at = "applied" /\ Alive))
  /\ behind' = TRUE
  /\ page' = IF flights[i].at = "lost" \/ flights[i].v # NoDraft THEN page
             ELSE IF page = "clearing" THEN "failed" ELSE "editing"
  /\ UNCHANGED <<draft, files, offer, lastSaved, timer, since>>

DraftNext ==
  \/ Open \/ Load \/ Continue \/ StartOver \/ Reset \/ Leave
  \/ \E v \in Version : Edit(v)
  \/ Fire \/ Checkpoint
  \/ \E i \in Flight : Apply(i) \/ Saved(i) \/ Deleted(i) \/ Fail(i)

(* A timer fires, and a request ends: fetch resolves or rejects.           *)
Returns == \E i \in Flight : Apply(i) \/ Saved(i) \/ Deleted(i) \/ Fail(i)
DraftFairness == WF_draftVars(Fire) /\ WF_draftVars(Returns)

DraftSpec == DraftInit /\ [][DraftNext]_draftVars /\ DraftFairness

-----------------------------------------------------------------------------
(* Properties.                                                             *)

(* What the page takes for saved is in the row, or has been replaced there *)
(* by a later save that has not returned yet ("the files as they last      *)
(* existed in the draft", Workspace.tsx:139).                              *)
SavedMeansStored ==
  Alive /\ ~muddled /\ lastSaved # NoDraft =>
    draft \in {lastSaved} \cup {flights[i].v : i \in {j \in Flight : flights[j].at = "applied"}}

(* Work that was deleted, by starting over or a reset, is not offered      *)
(* again: the draft is one sent since.                                     *)
DeletedStaysDeleted == ~muddled /\ draft # NoDraft => draft \in since

(* What the candidate leaves in the editor gets into the draft, unless a   *)
(* save fails or is left out while another one is under way.               *)
WorkIsStored ==
  \A v \in Version :
    (page = "editing" /\ files = v) ~>
      (draft = v \/ files # v \/ page # "editing" \/ muddled \/ behind)

-----------------------------------------------------------------------------
(* The inductive invariant behind the two safety properties.               *)

Awaited(i) == flights[i].at # "lost"

(* Who waits for what: only an open page waits, a page that deletes for    *)
(* one DELETE, and a page that starts over for nothing else.               *)
PageAwaits ==
  /\ \A i \in Flight : Awaited(i) => page \in {"clearing", "editing", "resetting"}
  /\ \A i \in Flight : Awaited(i) =>
       (page = "clearing" => flights[i].v = NoDraft) /\ (page = "editing" => flights[i].v # NoDraft)
  /\ \A i, j \in Flight :
       Awaited(i) /\ Awaited(j) /\ flights[i].v = NoDraft /\ flights[j].v = NoDraft => i = j

Applied == {i \in Flight : flights[i].at = "applied"}

(* Requests are applied in the order they were sent.                       *)
AppliedInOrder == \A i, j \in Flight : i < j /\ j \in Applied => i \in Applied

(* Nothing is sent after a DELETE until it has returned.                   *)
DeleteIsLast ==
  \A i \in Flight : Awaited(i) /\ flights[i].v = NoDraft =>
    i = Len(flights) /\ (i \in Applied => draft = NoDraft)

(* What is in the row, or may still get there, was sent since the delete.  *)
SentSince ==
  /\ draft # NoDraft => draft \in since
  /\ \A i \in Flight \ Applied : flights[i].v # NoDraft => flights[i].v \in since

(* The row is the latest of the applied versions that have not returned,   *)
(* and when there is none, what the page takes for saved.                  *)
LatestStored ==
  Alive => /\ \A i \in Applied : (\A j \in Applied : j <= i) => draft = flights[i].v
           /\ Applied = {} /\ lastSaved # NoDraft => draft = lastSaved

Untouched == page = "choosing" => flights = <<>> /\ offer = draft

(* While no requests have crossed: order, content and delete of those under *)
(* way agree with the page and the row.                                     *)
DraftInv ==
  /\ PageAwaits
  /\ ~muddled => /\ AppliedInOrder /\ DeleteIsLast /\ SentSince
                 /\ LatestStored /\ Untouched
=============================================================================
