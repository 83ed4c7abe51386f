------------------------------ MODULE Platform ------------------------------
(***************************************************************************)
(* The submission path of the platform: the API and the runners composed    *)
(* over the table, the queue and the logs bucket.                           *)
(***************************************************************************)
EXTENDS SubmissionsApi, Runner

vars == <<serviceVars, confirm, job, pool, runnerVars>>

(* Rows only hold statuses of SubmissionStatus, messages and requests are   *)
(* where they can be, and runners stop at most MaxStops times.              *)
TypeOK == ServicesTypeOK /\ ApiTypeOK /\ PipelineTypeOK /\ RunnerTypeOK

Init == ServicesInit /\ ApiInit /\ PipelineInit /\ RunnerInit

Handle(s) == ApiStep(s) /\ UNCHANGED <<job, pool, runnerVars>>

Evaluate(r, s) == PipelineStep(r, s) /\ UNCHANGED <<runnerVars, confirm>>

Acknowledge(r, s) == DeleteMessage(r, s) /\ UNCHANGED confirm

TimeOut(s) == Expire(s) /\ UNCHANGED confirm

Operate(r) == RunnerStep(r) /\ UNCHANGED confirm

Next ==
    \/ \E s \in Submissions : Handle(s) \/ TimeOut(s)
    \/ \E r \in Runners, s \in Submissions :
          Evaluate(r, s) \/ Acknowledge(r, s)
    \/ \E r \in Runners : Operate(r)

Spec == Init /\ [][Next]_vars

(* A handler that inserted its row goes on to the send; the polling loop    *)
(* keeps asking and SQS answers; a visibility timeout runs out; shutdown()  *)
(* goes on to process.exit; ECS replaces a stopped task.  Assumed of the    *)
(* outside: transfers end (but for "stall"), and commands end once they     *)
(* were sent SIGTERM, so that every awaited call of a pipeline settles.     *)
Fairness ==
    /\ \A s \in Submissions :
          /\ WF_vars(ConfirmProgress(s) /\ UNCHANGED <<job, pool, runnerVars>>)
          /\ WF_vars(TimeOut(s))
    /\ \A r \in Runners, s \in Submissions :
          WF_vars(Evaluate(r, s)) /\ WF_vars(Acknowledge(r, s))
    /\ \A r \in Runners :
          WF_vars(RunnerProgress(r) /\ UNCHANGED confirm)

FairSpec == Spec /\ Fairness

-----------------------------------------------------------------------------
(* The submissions an evaluation is still owed to: the request is about to  *)
(* send its message, the message is in the queue, or a pipeline runs.       *)
Owed == {s \in Submissions :
            \/ confirm[s] = "send"
            \/ Queued(s)
            \/ \E r \in Runners : Active(r, s)}

Lost == unsent \cup unsaved

Lifecycle == INSTANCE SubmissionLifecycle
                WITH status <- [s \in Submissions |-> rows[s].status],
                     owed <- Owed,
                     lost <- Lost

(* The platform keeps the promise of SubmissionLifecycle.                   *)
KeepsPromise == Lifecycle!Spec

(* A row waits as PENDING only while its message is in the queue or about   *)
(* to be sent, except after one of the two failures the code lets pass: a   *)
(* confirm that stopped between the INSERT and the send, and an ERROR       *)
(* update that failed and was swallowed.                                    *)
NoSilentLoss ==
    \A s \in Submissions :
        rows[s].status = "PENDING" =>
            confirm[s] = "send" \/ Queued(s) \/ s \in Lost

(* Crashes, redeliveries, timeouts and failing steps lose nothing: while    *)
(* the database answers and no runner is asked to stop, a PENDING row       *)
(* always has its message.                                                  *)
CrashLosesNothing ==
    \A s \in Submissions :
        rows[s].status = "PENDING" => confirm[s] = "send" \/ Queued(s)

(* Every submission leaves PENDING, or is lost to one of those failures.    *)
EventuallyFinal ==
    \A s \in Submissions :
        rows[s].status = "PENDING" ~>
            rows[s].status # "PENDING" \/ s \in Lost

(* Every message leaves the queue for good, also when its row is removed    *)
(* and all its updates fail.                                                *)
MessagesDrain ==
    \A s \in Submissions : queue[s] = "visible" ~> queue[s] = "deleted"

(* A runner deletes a message only after the row left PENDING, or after it  *)
(* gave up writing it.                                                      *)
DeleteAfterWrite ==
    \A r \in Runners, s \in Submissions :
        At(r, s, "delete") => rows[s].status # "PENDING" \/ s \in unsaved

(* Nothing speaks of a row before it is inserted: no message, no pipeline,  *)
(* no log, and no request about to send.                                    *)
RowComesFirst ==
    \A s \in Submissions :
        /\ rows[s].status = "NONE" =>
              /\ queue[s] = "unsent" /\ logs[s] = "none"
              /\ confirm[s] # "send"
              /\ \A r \in Runners : ~Active(r, s)
        /\ confirm[s] \in {"ready", "save"} => rows[s].status = "NONE"

(* While no evaluation outlives the visibility timeout (and SQS delivers    *)
(* once per receive), nobody else works on a submission that a runner       *)
(* works on, whatever crashes, stalls, is not deleted or is redelivered.    *)
OneAttemptAtATime ==
    \A s \in Submissions : \A r, q \in Runners :
        Works(r, s) /\ Works(q, s) => r = q

(* Once its evaluations are over, the log a row points to is the log of the *)
(* evaluation the row reports.  (An ERROR update that was swallowed leaves  *)
(* an older row with the newer log.)                                        *)
LogsMatchRow ==
    \A s \in Submissions :
        rows[s].log /\ s \notin Owed \cup unsaved => logs[s] = rows[s].report

(* While S3 serves the tests of the PIT, a grade was earned against them.   *)
GradedByInstructorTests ==
    \A s \in Submissions :
        rows[s].status = "DONE" => rows[s].report = "graded"

(* A final row is the last word on its submission: no second evaluation     *)
(* writes it, and the submission can only be removed.  So it is as long as  *)
(* no runner stopped, where messages are deleted in time and every UPDATE   *)
(* is answered.                                                             *)
GradesStand ==
    [][stops = 0 =>
          \A s \in Submissions :
              rows[s].status \in Final => rows'[s] \in {rows[s], EmptyRow("REMOVED")}]_vars

(* docs/backend.md:1370, "track status in DB and avoid re-running completed *)
(* submissions".  processSubmission never reads the row, so that this rests *)
(* on the message being deleted in time, by a runner that did not stop.     *)
CompletedIsNotRerun ==
    stops = 0 =>
        \A r \in Runners, s \in Submissions :
            At(r, s, "execute") => rows[s].status \notin Final

(* A runner works on no more submissions than it may receive at once, which *)
(* is also the number of connections in its pool.                           *)
BatchBounded ==
    \A r \in Runners :
        Cardinality({s \in Submissions : Active(r, s)}) <= MaxMessages

-----------------------------------------------------------------------------
(* What docs and comments say, and the code does not do.                    *)

(* processing.service.ts:14, "Ensures submissions always end with a final   *)
(* status (DONE or ERROR)": a message is gone only when its row is final.   *)
FinalBeforeDeleted ==
    \A s \in Submissions :
        queue[s] = "deleted" => rows[s].status # "PENDING"

(* submissions.service.ts:111, "Idempotency check: Check if submission      *)
(* already exists for this fileKey + user + pit".                           *)
OneRowPerUpload ==
    \A s, t \in Submissions :
        InTable(s) /\ InTable(t) /\ KeyOf[s] = KeyOf[t] => s = t

-----------------------------------------------------------------------------
(* The inductive invariant.                                                 *)
PlatformInv == TypeOK /\ NoSilentLoss /\ DeleteAfterWrite /\ RowComesFirst
=============================================================================
