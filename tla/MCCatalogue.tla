---------------------------- MODULE MCCatalogue ----------------------------
(* Values for the constants of Catalogue in the model-checking run.         *)
EXTENDS Catalogue, TLC

CONSTANTS d, c1, n1

TheDummy == [code |-> c1, note |-> n1]
Symmetry == Permutations(Strays)
=============================================================================
