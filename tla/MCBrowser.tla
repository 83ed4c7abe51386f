----------------------------- MODULE MCBrowser -----------------------------
(* Values for the constants of Browser in the model-checking runs.          *)
EXTENDS Browser, TLC

CONSTANTS t1, t2

(* The first tab submits and follows; the second logs in and lists.       *)
TwoTabs == t1 :> {"upload"} @@ t2 :> {"verify"}

OneTab == t1 :> {"upload", "verify"}

UserSymmetry == Permutations(Users)
=============================================================================
