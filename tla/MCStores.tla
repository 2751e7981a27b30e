------------------------------ MODULE MCStores ------------------------------
(* TLC instance of the two stores of a candidate's work, the interview of  *)
(* SessionStore and the draft of Drafts.  They share nothing, so a         *)
(* behaviour is of the one or of the other.                                *)
EXTENDS SessionStore, Drafts

VARIABLE store             \* the one this behaviour is of

Init == StoreInit /\ DraftInit /\ store \in {"interview", "draft"}
Next ==
  /\ UNCHANGED store
  /\ \/ store = "interview" /\ StoreNext /\ UNCHANGED draftVars
     \/ store = "draft" /\ DraftNext /\ UNCHANGED storeVars

Spec == Init /\ [][Next]_<<store, storeVars, draftVars>> /\ DraftFairness
=============================================================================
