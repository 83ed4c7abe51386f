------------------------------ MODULE Pipeline ------------------------------
(***************************************************************************)
(* ProcessingService.processSubmission: the evaluation of one submission by *)
(* one runner, an awaited step at a time.  A runner evaluates the messages  *)
(* of a batch concurrently, so job[r][s] is a pipeline of its own.  The     *)
(* catch clause runs the same upload and update again with the verdict      *)
(* "aborted"; when its update fails too, the failure is swallowed.          *)
(***************************************************************************)
EXTENDS Services

VARIABLES
    job,   \* job[r][s]: runner r's pipeline for submission s
    pool   \* pool[r]: r's pg pool; "ending" from close() to its last client

Steps == {"download", "stalled", "extract", "config", "tests", "merge", "execute",
          "upload", "connect", "update", "delete"}
Pc == Steps \cup {"idle"}

Job == [pc : Pc, merged : BOOLEAN, result : Reports, log : BOOLEAN]

JobAt(pc, merged, result, log) ==
    [pc |-> pc, merged |-> merged, result |-> result, log |-> log]
Before(pc) == JobAt(pc, FALSE, "none", FALSE)
Verdict(result) == JobAt("upload", FALSE, result, FALSE)
IdleJob == Before("idle")
NewJob == Before("download")

Active(r, s) == job[r][s].pc # "idle"
Works(r, s) == job[r][s].pc \notin {"idle", "stalled"}

PipelineTypeOK ==
    /\ job \in [Runners -> [Submissions -> Job]]
    /\ pool \in [Runners -> {"open", "ending"}]

PipelineInit ==
    /\ job = [r \in Runners |-> [s \in Submissions |-> IdleJob]]
    /\ pool = [r \in Runners |-> "open"]

-----------------------------------------------------------------------------
At(r, s, pc) == job[r][s].pc = pc
SetJob(r, s, j) == job' = [job EXCEPT ![r][s] = j]
GoTo(r, s, pc) == SetJob(r, s, Before(pc))

(* throw: control passes to the catch clause.                               *)
Abort(r, s) == SetJob(r, s, Verdict("aborted"))

(* The end of processSubmission, the finally clause included: it returns    *)
(* normally whatever happened.                                              *)
Return(r, s) == GoTo(r, s, "delete")

(* Mutant: a failing step returns without recording the error.              *)
StepReturns(r, s) == "step" \in Faults /\ Return(r, s)

StepThrows(r, s) == "step" \in Faults /\ Abort(r, s)

(* pipe() passes on no error of the body: neither 'finish' nor 'error' of   *)
(* the file comes, and the promise of the download never settles.           *)
Stalls(r, s) == "stall" \in Faults /\ GoTo(r, s, "stalled")

Download(r, s) ==
    /\ At(r, s, "download")
    /\ GoTo(r, s, "extract") \/ StepThrows(r, s) \/ Stalls(r, s)
    /\ UNCHANGED <<serviceVars, pool>>

Extract(r, s) ==
    /\ At(r, s, "extract")
    /\ GoTo(r, s, "config") \/ StepThrows(r, s)
    /\ UNCHANGED <<serviceVars, pool>>

LoadConfig(r, s) ==
    /\ At(r, s, "config")
    /\ GoTo(r, s, "tests") \/ StepThrows(r, s)
    /\ UNCHANGED <<serviceVars, pool>>

(* Any failure here, not only "there is no such object", means "this PIT    *)
(* has no instructor tests".                                                *)
DownloadTests(r, s) ==
    /\ At(r, s, "tests")
    /\ \/ GoTo(r, s, "merge")
       \/ "tests" \in Faults /\ GoTo(r, s, "execute")
       \/ Stalls(r, s)
    /\ UNCHANGED <<serviceVars, pool>>

(* Mutant: a merge that failed is taken for a PIT without tests.            *)
MergeTestsLenient(r, s) ==
    /\ At(r, s, "merge")
    /\ \/ SetJob(r, s, JobAt("execute", TRUE, "none", FALSE))
       \/ "step" \in Faults /\ GoTo(r, s, "execute")
    /\ UNCHANGED <<serviceVars, pool>>

MergeTests(r, s) ==
    /\ At(r, s, "merge")
    /\ \/ SetJob(r, s, JobAt("execute", TRUE, "none", FALSE))
       \/ StepThrows(r, s)
    /\ UNCHANGED <<serviceVars, pool>>

(* executeTests never rejects: what goes wrong in it is a "failed" verdict. *)
Execute(r, s) ==
    /\ At(r, s, "execute")
    /\ \E verdict \in {IF job[r][s].merged THEN "graded" ELSE "selfgraded",
                       "failed"} :
          SetJob(r, s, Verdict(verdict))
    /\ UNCHANGED <<serviceVars, pool>>

(* Mutant: the catch clause keeps the log that is there.                    *)
UploadLogsOnce(r, s) ==
    /\ At(r, s, "upload")
    /\ IF job[r][s].result = "aborted"
       THEN UNCHANGED logs
       ELSE logs' = [logs EXCEPT ![s] = job[r][s].result]
    /\ SetJob(r, s, JobAt("connect", FALSE, job[r][s].result, TRUE))
    /\ UNCHANGED <<rows, queue, unsent, unsaved, pool>>

(* Mutant: the key of the log is recorded although its upload failed.       *)
UploadLogsKeepsKey(r, s) ==
    /\ At(r, s, "upload")
    /\ \/ logs' = [logs EXCEPT ![s] = job[r][s].result]
       \/ "upload" \in Faults /\ UNCHANGED logs
    /\ SetJob(r, s, JobAt("connect", FALSE, job[r][s].result, TRUE))
    /\ UNCHANGED <<rows, queue, unsent, unsaved, pool>>

(* uploadLogs overwrites logs/<id>/run.log; a failure is swallowed and      *)
(* leaves logsS3Key null, whether or not the object was written.            *)
UploadLogs(r, s) ==
    /\ At(r, s, "upload")
    /\ \/ /\ logs' = [logs EXCEPT ![s] = job[r][s].result]
          /\ SetJob(r, s, JobAt("connect", FALSE, job[r][s].result, TRUE))
       \/ /\ "upload" \in Faults
          /\ logs' \in {logs, [logs EXCEPT ![s] = job[r][s].result]}
          /\ SetJob(r, s, JobAt("connect", FALSE, job[r][s].result, FALSE))
    /\ UNCHANGED <<rows, queue, unsent, unsaved, pool>>

(* Mutant: the execution status goes into the row as it is.                 *)
DbStatusVerbatim(verdict) ==
    IF verdict = "aborted" THEN "ERROR" ELSE verdict

DbStatus(verdict) ==
    IF verdict \in {"graded", "selfgraded"} THEN "DONE" ELSE "ERROR"

(* Mutant: a failed update is swallowed in step 8 already.                  *)
UpdateRejectsQuietly(r, s) ==
    /\ Return(r, s)
    /\ unsaved' = IF job[r][s].result = "aborted"
                  THEN unsaved \cup {s} ELSE unsaved

(* Mutant: a failure in the catch clause is thrown to the consumer, which   *)
(* then leaves the message in the queue.                                    *)
UpdateRejectsRethrows(r, s) ==
    /\ IF job[r][s].result = "aborted"
       THEN GoTo(r, s, "idle") ELSE Abort(r, s)
    /\ UNCHANGED unsaved

(* updateSubmissionResult rejects.  From step 8 this enters the catch       *)
(* clause; inside it, it is swallowed and the row stays as it is.           *)
UpdateRejects(r, s) ==
    IF job[r][s].result = "aborted"
       THEN Return(r, s) /\ unsaved' = unsaved \cup {s}
       ELSE Abort(r, s) /\ UNCHANGED unsaved

(* pool.connect(): a client is checked out, unless the pool is ending or    *)
(* no connection can be had.                                                *)
Connect(r, s) ==
    /\ At(r, s, "connect")
    /\ \/ /\ pool[r] = "open"
          /\ SetJob(r, s, JobAt("update", FALSE, job[r][s].result, job[r][s].log))
          /\ UNCHANGED unsaved
       \/ /\ pool[r] = "ending" \/ "update" \in Faults
          /\ UpdateRejects(r, s)
    /\ UNCHANGED <<rows, queue, logs, unsent, pool>>

HoldsClient(r, s) == At(r, s, "update")

(* Mutant: the UPDATE is an upsert.                                         *)
WriteRowUpsert(r, s) ==
    rows' = [rows EXCEPT ![s] = [status |-> DbStatus(job[r][s].result),
                                 report |-> job[r][s].result,
                                 log |-> job[r][s].log]]

WriteRow(r, s) ==
    /\ InTable(s)
    /\ rows' = [rows EXCEPT ![s] = [status |-> DbStatus(job[r][s].result),
                                    report |-> job[r][s].result,
                                    log |-> job[r][s].log]]

UpdateResult(r, s) ==
    /\ At(r, s, "update")
    /\ WriteRow(r, s)
    /\ Return(r, s)
    /\ UNCHANGED <<queue, logs, unsent, unsaved, pool>>

(* No row matched, or the query failed, perhaps after it committed.         *)
UpdateFails(r, s) ==
    /\ At(r, s, "update")
    /\ \/ ~InTable(s) /\ UNCHANGED rows
       \/ "update" \in Faults /\ (UNCHANGED rows \/ WriteRow(r, s))
    /\ UpdateRejects(r, s)
    /\ UNCHANGED <<queue, logs, unsent, pool>>

PipelineStep(r, s) ==
    \/ Download(r, s)
    \/ Extract(r, s)
    \/ LoadConfig(r, s)
    \/ DownloadTests(r, s)
    \/ MergeTests(r, s)
    \/ Execute(r, s)
    \/ UploadLogs(r, s)
    \/ Connect(r, s)
    \/ UpdateResult(r, s)
    \/ UpdateFails(r, s)
=============================================================================
