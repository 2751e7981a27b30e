----------------------------- MODULE MCProblems -----------------------------
(* TLC instance of Problems.                                               *)
EXTENDS Problems, TLC

(* Nothing tells one row, slug, key, build or request from another.        *)
Symmetry == UNION {Permutations(S) : S \in {Problem, Slug, Link, Build, Request}}

(* Bound: one build retries at a time, and only before the first outage.   *)
RetriesBound ==
  \A b, c \in Build : attempt[b] > 1 => hurt = {} /\ (attempt[c] > 1 => b = c)
=============================================================================
