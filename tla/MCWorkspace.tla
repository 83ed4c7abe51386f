---------------------------- MODULE MCWorkspace ----------------------------
(* Values for the constants of Workspace in the model-checking run.         *)
EXTENDS Workspace, TLC

CONSTANTS s1, s2, c1, c2

DiskSymmetry == Permutations(Submissions) \cup Permutations(Slots)
=============================================================================
