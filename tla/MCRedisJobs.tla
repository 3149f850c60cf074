---------------------------- MODULE MCRedisJobs -----------------------------
(***************************************************************************)
(* The instances TLC checks of RedisJobs.                                  *)
(***************************************************************************)
EXTENDS RedisJobs, TLC

Symmetry == Permutations(Jobs) \cup Permutations(Workers)
=============================================================================
