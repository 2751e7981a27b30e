------------------------- MODULE MCFargateSessions -------------------------
(* TLC instances of FargateSessions.                                       *)
EXTENDS FargateSessions, TLC

(* Callers, sessions and addresses are interchangeable, and so are tasks   *)
(* when ECS dates all of them.                                             *)
SymmetryButTasks == Permutations(Caller) \cup Permutations(Session) \cup Permutations(Ip)
Symmetry         == SymmetryButTasks \cup Permutations(Task)
=============================================================================
