--------------------------- MODULE MCEvalSession ---------------------------
(* TLC instances of EvalSession.                                           *)
EXTENDS EvalSession, TLC

(* Requests and focus areas are interchangeable.                           *)
Symmetry == Permutations(Request) \cup Permutations(Area)
=============================================================================
