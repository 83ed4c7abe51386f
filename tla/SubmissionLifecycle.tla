------------------------- MODULE SubmissionLifecycle -------------------------
(***************************************************************************)
(* What the platform promises a student about a submission, with no queue,  *)
(* no runner and no pipeline: once its row is PENDING an evaluation is      *)
(* owed; the row only changes while one is owed, and then to a final        *)
(* status; and the platform stops owing it only once the row is final,      *)
(* unless the submission was lost.                                          *)
(***************************************************************************)
CONSTANT Submissions

VARIABLES
    status,  \* the status of the row, "NONE" before it and "REMOVED" after
    owed,    \* submissions an evaluation is still to come for
    lost     \* submissions a failure took the promise from

vars == <<status, owed, lost>>

Init ==
    /\ status = [s \in Submissions |-> "NONE"]
    /\ owed = {}
    /\ lost = {}

Submit(s) ==
    /\ status[s] = "NONE"
    /\ status' = [status EXCEPT ![s] = "PENDING"]
    /\ \/ owed' = owed \cup {s} /\ UNCHANGED lost
       \/ lost' = lost \cup {s} /\ UNCHANGED owed

(* A repeated evaluation may overwrite a final status with the other one.   *)
Record(s) ==
    /\ s \in owed
    /\ status[s] \in {"PENDING", "DONE", "ERROR"}
    /\ \E final \in {"DONE", "ERROR"} :
          status' = [status EXCEPT ![s] = final]
    /\ UNCHANGED <<owed, lost>>

Remove(s) ==
    /\ status[s] \notin {"NONE", "REMOVED"}
    /\ status' = [status EXCEPT ![s] = "REMOVED"]
    /\ UNCHANGED <<owed, lost>>

(* A failure that may leave the row as it is; it can strike after a write   *)
(* whose answer was lost.                                                   *)
Lose(s) ==
    /\ s \in owed
    /\ lost' = lost \cup {s}
    /\ owed' \in {owed, owed \ {s}}
    /\ \/ UNCHANGED status
       \/ /\ status[s] \in {"PENDING", "DONE", "ERROR"}
          /\ status' = [status EXCEPT ![s] = "ERROR"]

(* Evaluations end; a PENDING row that was not lost keeps its claim.        *)
Settle(done) ==
    /\ done \subseteq owed
    /\ \A s \in done : status[s] # "PENDING" \/ s \in lost
    /\ owed' = owed \ done
    /\ UNCHANGED <<status, lost>>

Next ==
    \/ \E s \in Submissions : Submit(s) \/ Record(s) \/ Remove(s) \/ Lose(s)
    \/ \E done \in SUBSET Submissions : Settle(done)

Spec == Init /\ [][Next]_vars
==============================================================================
