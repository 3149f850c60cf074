--------------------------- MODULE MCPostgresJobs ---------------------------
(***************************************************************************)
(* The instances TLC checks of PostgresJobs: model values for jobs and     *)
(* workers, any permutation of which leaves the specification the same.    *)
(***************************************************************************)
EXTENDS PostgresJobs, TLC

Symmetry == Permutations(Jobs) \cup Permutations(Workers)
=============================================================================
