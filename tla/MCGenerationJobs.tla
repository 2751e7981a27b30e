-------------------------- MODULE MCGenerationJobs --------------------------
(* TLC instances of GenerationJobs.                                        *)
EXTENDS GenerationJobs, TLC

(* Admin requests, jobs and problems are interchangeable.                  *)
Symmetry == Permutations(Admin) \cup Permutations(Job) \cup Permutations(Problem)
=============================================================================
