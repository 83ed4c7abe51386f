------------------------------ MODULE Services ------------------------------
(***************************************************************************)
(* The shared services through which the evaluation API and the runners    *)
(* meet: the "submissions" table in Postgres, the SQS queue between them    *)
(* and the logs bucket in S3.  The API writes rows and sends messages; a    *)
(* runner receives messages, uploads logs and updates rows.                 *)
(***************************************************************************)
EXTENDS FiniteSets, Integers

CONSTANTS
    Submissions,  \* confirm-upload requests; each names the row it may insert
    Keys,         \* S3 keys of uploaded ZIPs
    KeyOf,        \* the fileKey each confirm-upload request carries
    Runners,      \* the runner tasks of the ECS service
    MaxMessages,  \* MaxNumberOfMessages of a ReceiveMessage call
    MaxStops,     \* bound: how often runners stop (crash or SIGTERM) in all
    Faults        \* the environment events the instance lets happen

FaultKinds ==
    { "insert",   \* the INSERT of a confirm fails or its answer is lost
      "send",     \* the SendMessage call fails or the API process dies first
      "remove",   \* the student deletes a submission
      "step",     \* a download, an extraction, a configuration, a merge fails
      "stall",    \* the answer to a download is cut off in the middle
      "tests",    \* the download of the instructor's tests fails
      "upload",   \* the upload of the logs fails
      "update",   \* the UPDATE of the row fails or its answer is lost
      "delete",   \* a DeleteMessage call has no effect
      "expiry",   \* an evaluation outlives the visibility timeout, or SQS
                  \* delivers the message a second time
      "sigterm",  \* a runner task is asked to stop
      "crash" }   \* a runner process dies

ASSUME ServicesAssumption ==
    /\ KeyOf \in [Submissions -> Keys]
    /\ IsFiniteSet(Submissions)
    /\ MaxMessages \in Nat \ {0}
    /\ MaxStops \in Nat
    /\ Faults \subseteq FaultKinds

VARIABLES
    rows,    \* the submissions table: one record per possible row
    queue,   \* SQS: where the message of each submission is
    logs,    \* S3: whose run.log logs/<id>/run.log holds
    unsent,  \* history: rows left without a message by a failed confirm
    unsaved  \* history: submissions whose ERROR update was swallowed

serviceVars == <<rows, queue, logs, unsent, unsaved>>

-----------------------------------------------------------------------------
(* What a row says of an evaluation.  "graded": the command exited with 0,  *)
(* the instructor's tests merged; "selfgraded": the same without them;      *)
(* "failed": the executor reported ERROR or TIMEOUT; "aborted": a step of   *)
(* the pipeline threw.                                                      *)
Verdicts == {"graded", "selfgraded", "failed"}
Reports == Verdicts \cup {"none", "aborted"}

(* SubmissionStatus, and the two ways a row can be absent.                  *)
Live == {"PENDING", "RUNNING", "DONE", "ERROR"}
Statuses == Live \cup {"NONE", "REMOVED"}
Final == {"DONE", "ERROR"}

Row == [status : Statuses, report : Reports, log : BOOLEAN]
EmptyRow(status) == [status |-> status, report |-> "none", log |-> FALSE]

InTable(s) == rows[s].status \in Live

MessageStates == {"unsent", "visible", "inflight", "deleted"}
Queued(s) == queue[s] \in {"visible", "inflight"}

ServicesTypeOK ==
    /\ rows \in [Submissions -> Row]
    /\ queue \in [Submissions -> MessageStates]
    /\ logs \in [Submissions -> Reports]
    /\ unsent \subseteq Submissions
    /\ unsaved \subseteq Submissions

ServicesInit ==
    /\ rows = [s \in Submissions |-> EmptyRow("NONE")]
    /\ queue = [s \in Submissions |-> "unsent"]
    /\ logs = [s \in Submissions |-> "none"]
    /\ unsent = {}
    /\ unsaved = {}
=============================================================================
