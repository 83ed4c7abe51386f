----------------------------- MODULE MCPlatform -----------------------------
(* Values for the constants of Platform in the model-checking runs.         *)
EXTENDS Platform, TLC

CONSTANTS s1, s2, k1, k2, r1, r2

SameKey == [s \in Submissions |-> k1]
OwnKeys == s1 :> k1 @@ s2 :> k2

AllFaults == FaultKinds

(* No fault that keeps a message in the queue for ever.                     *)
ProgressFaults == FaultKinds \ {"delete", "expiry", "stall", "upload", "tests"}

(* An evaluation always fits the visibility timeout; the tests are served.  *)
PunctualFaults == FaultKinds \ {"expiry", "tests"}

(* Steps, transfers and runners fail; the database and the queue answer.    *)
RunnerFaults == {"remove", "step", "stall", "upload", "tests", "crash"}

RunnerSymmetry == Permutations(Runners)
AllSymmetry == Permutations(Runners) \cup Permutations(Submissions)
=============================================================================
