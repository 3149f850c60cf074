-------------------------- MODULE MCJetStreamJobs ---------------------------
(***************************************************************************)
(* The instances TLC checks of JetStreamJobs.                              *)
(***************************************************************************)
EXTENDS JetStreamJobs, TLC

Symmetry == Permutations(Jobs) \cup Permutations(Workers)
=============================================================================
