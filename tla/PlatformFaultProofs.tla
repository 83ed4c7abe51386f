------------------------ MODULE PlatformFaultProofs ------------------------
(***************************************************************************)
(* What Platform guarantees when some faults are left out: theorems that    *)
(* name the faults they exclude and hold under every other one.             *)
(***************************************************************************)
EXTENDS PlatformProofs, FiniteSetTheorems

(* Only a received batch starts pipelines; every other step leaves each     *)
(* pipeline active or ends it.                                              *)
LEMMA OnlyReceiveStarts ==
    ASSUME TypeOK, [Next]_vars
    PROVE  \/ \E r \in Runners, batch \in SUBSET Visible : Receive(r, batch)
           \/ \A q \in Runners, t \in Submissions : Active(q, t)' => Active(q, t)
<1> DEFINE NoneStarts ==
      \A q \in Runners, t \in Submissions : Active(q, t)' => Active(q, t)
<1> USE DEF TypeOK, PipelineTypeOK
<1>1. ASSUME UNCHANGED job PROVE NoneStarts
  BY <1>1 DEF Active
<1>2. ASSUME NEW s \in Submissions, Handle(s) \/ TimeOut(s) PROVE NoneStarts
  BY <1>1, <1>2 DEF Handle, TimeOut, Expire
<1>3. ASSUME NEW r \in Runners, NEW s \in Submissions, Evaluate(r, s)
      PROVE  NoneStarts
  <2>1. Active(r, s) /\ \E j \in Job : PipelineEffect(r, s, j)
    BY <1>3, PipelineStepEffect DEF Evaluate
  <2> QED
    BY <2>1 DEF PipelineEffect, SetJob, Active
<1>4. ASSUME NEW r \in Runners, NEW s \in Submissions, Acknowledge(r, s)
      PROVE  NoneStarts
  BY <1>4 DEF Acknowledge, DeleteMessage, SetJob, Active, IdleJob, Before, JobAt
<1>5. ASSUME NEW r \in Runners, Halt(r) PROVE NoneStarts
  BY <1>5 DEF Halt, Active, IdleJob, Before, JobAt
<1>6. ASSUME NEW r \in Runners, Operate(r),
             ~ \E batch \in SUBSET Visible : Receive(r, batch)
      PROVE  NoneStarts
  <2>1. UNCHANGED job \/ Halt(r)
    BY <1>6 DEF Operate, RunnerStep, RunnerProgress, PollEnds, BatchDone,
       Restart, Sigterm, Exit, Crash, ClosePool
  <2> QED
    BY <1>1, <1>5, <2>1
<1>7. UNCHANGED vars => UNCHANGED job
  BY DEF vars
<1> HIDE DEF NoneStarts
<1> QED
  <2>1. CASE Next
    BY <1>2, <1>3, <1>4, <1>6, <2>1 DEF Next, NoneStarts
  <2> QED
    BY <1>1, <1>7, <2>1 DEF NoneStarts

-----------------------------------------------------------------------------
(* A runner that is not in a batch works on nothing.                        *)
BatchInv ==
    /\ \A r \in Runners :
          /\ poll[r] # "batch" => \A s \in Submissions : ~Active(r, s)
          /\ life[r] = "down" => poll[r] = "ended"
    /\ BatchBounded

LEMMA BatchStep ==
    ASSUME TypeOK, BatchInv, [Next]_vars
    PROVE  BatchInv'
<1> DEFINE Working(r) == {s \in Submissions : Active(r, s)}
<1> USE DEF TypeOK, RunnerTypeOK
<1>c. ASSUME NEW S \in SUBSET Submissions, NEW T \in SUBSET S,
             Cardinality(S) <= MaxMessages
      PROVE  Cardinality(T) <= MaxMessages
  BY <1>c, ServicesAssumption, FS_Subset, FS_CardinalityType
<1>1. ASSUME NEW r \in Runners, NEW batch \in SUBSET Visible, Receive(r, batch)
      PROVE  BatchInv'
  <2>1. \A t \in Submissions : Active(r, t)' => t \in batch
    BY <1>1 DEF Receive, BatchInv, Active, PipelineTypeOK
  <2>2. \A q \in Runners \ {r}, t \in Submissions : Active(q, t)' = Active(q, t)
    BY <1>1 DEF Receive, Active, PipelineTypeOK
  <2>3. /\ poll' = [poll EXCEPT ![r] = "batch"]
        /\ UNCHANGED life /\ poll[r] = "receive"
        /\ Cardinality(batch) <= MaxMessages
    BY <1>1 DEF Receive
  <2>4. batch \in SUBSET Submissions
    BY DEF Visible
  <2>5. BatchBounded'
    <3> SUFFICES ASSUME NEW q \in Runners
                 PROVE  Cardinality(Working(q)') <= MaxMessages
      BY DEF BatchBounded
    <3>1. CASE q = r
      <4>1. Working(q)' \subseteq batch
        BY <2>1, <3>1
      <4> QED
        BY <1>c, <2>3, <2>4, <4>1
    <3>2. CASE q # r
      <4>1. Working(q)' = Working(q)
        BY <2>2, <3>2
      <4> QED
        BY <4>1 DEF BatchInv, BatchBounded
    <3> QED
      BY <3>1, <3>2
  <2>6. \A q \in Runners :
           /\ poll'[q] # "batch" => \A s \in Submissions : ~Active(q, s)'
           /\ life'[q] = "down" => poll'[q] = "ended"
    BY <2>2, <2>3 DEF BatchInv
  <2> QED
    BY <2>5, <2>6 DEF BatchInv
<1>2. ASSUME \A q \in Runners, t \in Submissions : Active(q, t)' => Active(q, t)
      PROVE  BatchBounded'
  <2> SUFFICES ASSUME NEW q \in Runners
               PROVE  Cardinality(Working(q)') <= MaxMessages
    BY DEF BatchBounded
  <2>1. Working(q)' \subseteq Working(q)
    BY <1>2
  <2>2. Cardinality(Working(q)) <= MaxMessages
    BY DEF BatchInv, BatchBounded
  <2> QED
    BY <1>c, <2>1, <2>2
<1>3. ASSUME ~ \E r \in Runners, batch \in SUBSET Visible : Receive(r, batch),
             \A q \in Runners, t \in Submissions : Active(q, t)' => Active(q, t)
      PROVE  \A q \in Runners :
                /\ poll'[q] # "batch" => \A s \in Submissions : ~Active(q, s)'
                /\ life'[q] = "down" => poll'[q] = "ended"
  <2>1. CASE UNCHANGED runnerVars
    BY <1>3, <2>1 DEF runnerVars, BatchInv
  <2>2. ASSUME NEW r \in Runners, Operate(r)
        PROVE  \A q \in Runners :
                  /\ poll'[q] # "batch" => \A s \in Submissions : ~Active(q, s)'
                  /\ life'[q] = "down" => poll'[q] = "ended"
    <3>1. CASE BatchDone(r) \/ PollEnds(r) \/ Sigterm(r)
               \/ (ClosePool(r) /\ ~Halt(r))
      BY <1>3, <3>1 DEF BatchDone, PollEnds, Sigterm, ClosePool, BatchInv
    <3>2. CASE Restart(r)
      BY <1>3, <3>2 DEF Restart, BatchInv
    <3>3. CASE Halt(r)
      <4>1. \A s \in Submissions : ~Active(r, s)'
        BY <3>3 DEF Halt, Active, IdleJob, Before, JobAt, PipelineTypeOK
      <4> QED
        BY <1>3, <3>3, <4>1 DEF Halt, BatchInv
    <3> QED
      BY <1>3, <2>2, <3>1, <3>2, <3>3
         DEF Operate, RunnerStep, RunnerProgress, Exit, Crash
  <2>3. UNCHANGED runnerVars \/ \E r \in Runners : Operate(r)
    BY DEF Next, vars, Handle, TimeOut, Expire, Evaluate, Acknowledge,
       DeleteMessage
  <2> QED
    BY <2>1, <2>2, <2>3
<1> QED
  BY <1>1, <1>2, <1>3, OnlyReceiveStarts DEF BatchInv

(* A runner works on no more submissions than one ReceiveMessage may bring, *)
(* for every batch size, however messages are redelivered and runners stop. *)
THEOREM BatchesAreBounded == Spec => []BatchBounded
<1>1. Init => BatchInv
  <2> SUFFICES ASSUME Init PROVE BatchInv
    OBVIOUS
  <2>1. \A r \in Runners, s \in Submissions : ~Active(r, s)
    BY DEF Init, PipelineInit, Active, IdleJob, Before, JobAt
  <2>2. \A r \in Runners : {s \in Submissions : Active(r, s)} = {}
    BY <2>1
  <2>3. BatchBounded
    BY <2>2, ServicesAssumption, FS_EmptySet DEF BatchBounded
  <2> QED
    BY <2>1, <2>3 DEF BatchInv, Init, RunnerInit
<1>2. BatchInv => BatchBounded
  BY DEF BatchInv
<1> QED
  BY <1>1, <1>2, BatchStep, TypeCorrect, PTL DEF Spec

-----------------------------------------------------------------------------
(* Setting a job sets that job and no other.                                *)
LEMMA OneJob ==
    ASSUME PipelineTypeOK, NEW r \in Runners, NEW s \in Submissions, NEW j,
           SetJob(r, s, j)
    PROVE  \A q \in Runners, t \in Submissions :
              job'[q][t] = IF q = r /\ t = s THEN j ELSE job[q][t]
BY DEF PipelineTypeOK, SetJob

(* The steps before the upload touch nothing but their own pipeline, and    *)
(* do not go past the upload.                                               *)
LEMMA EarlyStep ==
    ASSUME PipelineTypeOK, NEW r \in Runners, NEW s \in Submissions,
           \/ Download(r, s) \/ Extract(r, s) \/ LoadConfig(r, s)
           \/ DownloadTests(r, s) \/ MergeTests(r, s) \/ Execute(r, s)
    PROVE  /\ Active(r, s)
           /\ UNCHANGED <<serviceVars, pool>>
           /\ \E j : /\ SetJob(r, s, j)
                     /\ j.pc \notin {"connect", "update", "delete"}
<1>1. \/ \E pc \in {"stalled", "extract", "config", "tests", "merge", "execute"} :
            SetJob(r, s, Before(pc))
      \/ \E result : SetJob(r, s, Verdict(result))
      \/ SetJob(r, s, JobAt("execute", TRUE, "none", FALSE))
  BY DEF Download, Extract, LoadConfig, DownloadTests, MergeTests, Execute,
     StepThrows, Stalls, Abort, GoTo
<1>2. UNCHANGED <<serviceVars, pool>> /\ Active(r, s)
  BY DEF Download, Extract, LoadConfig, DownloadTests, MergeTests, Execute,
     At, Active
<1>3. /\ \A pc \in {"stalled", "extract", "config", "tests", "merge", "execute"} :
            Before(pc).pc \notin {"connect", "update", "delete"}
      /\ \A result :
            Verdict(result).pc \notin {"connect", "update", "delete"}
      /\ JobAt("execute", TRUE, "none", FALSE).pc
            \notin {"connect", "update", "delete"}
  BY JobCounter
<1> QED
  BY <1>1, <1>2, <1>3

-----------------------------------------------------------------------------
(* While UPDATEs are answered and no pool ends, only a removed submission   *)
(* finds no row to update.                                                  *)
NothingSwallowedInv ==
    /\ \A r \in Runners : pool[r] = "open" /\ life[r] # "stopping"
    /\ \A s \in unsaved : rows[s].status = "REMOVED"

LEMMA NothingSwallowedStep ==
    ASSUME {"update", "sigterm"} \cap Faults = {},
           PlatformInv, NothingSwallowedInv, [Next]_vars
    PROVE  NothingSwallowedInv'
<1> USE DEF PlatformInv, TypeOK, NothingSwallowedInv
<1>f. "update" \notin Faults /\ "sigterm" \notin Faults
  OBVIOUS
<1>1. ASSUME NEW s \in Submissions, Handle(s) PROVE NothingSwallowedInv'
  <2>1. UNCHANGED <<pool, life>>
    BY <1>1 DEF Handle, runnerVars
  <2>2. UNCHANGED unsaved
    BY <1>1 DEF Handle, ApiStep, ConfirmLookup, ConfirmProgress,
       ConfirmSave, ConfirmSaveFails, ConfirmSend, ConfirmSendFails,
       DeleteSubmission, serviceVars
  <2>3. \A t \in unsaved : rows'[t].status = "REMOVED"
    <3>1. CASE ConfirmSave(s) \/ ConfirmSaveFails(s)
      BY <3>1, RecordTypes
         DEF ConfirmSave, ConfirmSaveFails, RowComesFirst, ServicesTypeOK
    <3>2. CASE DeleteSubmission(s)
      BY <3>2 DEF DeleteSubmission, ServicesTypeOK, EmptyRow
    <3>3. CASE UNCHANGED rows
      BY <3>3
    <3> QED
      BY <1>1, <3>1, <3>2, <3>3 DEF Handle, ApiStep, ConfirmLookup,
         ConfirmProgress, ConfirmSend, ConfirmSendFails, serviceVars
  <2> QED
    BY <2>1, <2>2, <2>3
<1>2. ASSUME NEW r \in Runners, NEW s \in Submissions, Evaluate(r, s)
      PROVE  NothingSwallowedInv'
  <2>1. UNCHANGED <<pool, life>>
    BY <1>2 DEF Evaluate, runnerVars, PipelineStep, Download, Extract,
       LoadConfig, DownloadTests, MergeTests, Execute, UploadLogs, Connect,
       UpdateResult, UpdateFails, serviceVars
  <2>2. CASE UNCHANGED <<rows, unsaved>>
    BY <2>1, <2>2
  <2>3. CASE UpdateResult(r, s)
    <3>1. InTable(s) /\ UNCHANGED unsaved
      BY <2>3 DEF UpdateResult, WriteRow
    <3>2. \A t \in Submissions \ {s} : rows'[t] = rows[t]
      BY <2>3 DEF UpdateResult, WriteRow, ServicesTypeOK
    <3>3. s \notin unsaved
      BY <3>1 DEF InTable, Live
    <3> QED
      BY <2>1, <3>1, <3>2, <3>3 DEF ServicesTypeOK
  <2>4. CASE UpdateFails(r, s)
    <3>1. ~InTable(s) /\ UNCHANGED rows /\ unsaved' \subseteq unsaved \cup {s}
      BY <1>f, <2>4 DEF UpdateFails, UpdateRejects
    <3>2. rows[s].status = "REMOVED"
      <4>1. rows[s].status \in Statuses /\ rows[s].status # "NONE"
        BY <2>4 DEF UpdateFails, At, Active, RowComesFirst, ServicesTypeOK, Row
      <4> QED
        BY <3>1, <4>1 DEF InTable, Statuses
    <3> QED
      BY <2>1, <3>1, <3>2
  <2>5. CASE Connect(r, s)
    BY <1>f, <2>2, <2>5 DEF Connect
  <2> QED
    BY <1>2, <2>2, <2>3, <2>4, <2>5 DEF Evaluate, PipelineStep, Download,
       Extract, LoadConfig, DownloadTests, MergeTests, Execute, UploadLogs,
       serviceVars
<1>3. ASSUME NEW r \in Runners, Operate(r) PROVE NothingSwallowedInv'
  <2>1. UNCHANGED <<rows, unsaved>>
    BY <1>3 DEF Operate, RunnerStep, RunnerProgress, Receive, PollEnds,
       BatchDone, Restart, Sigterm, Exit, Crash, ClosePool, Halt, serviceVars
  <2>2. CASE UNCHANGED <<pool, life>>
    BY <2>1, <2>2
  <2>3. CASE Halt(r) \/ Restart(r)
    BY <2>1, <2>3 DEF Halt, Restart, PipelineTypeOK, RunnerTypeOK
  <2> QED
    BY <1>3, <1>f, <2>2, <2>3 DEF Operate, RunnerStep, RunnerProgress, Receive,
       PollEnds, BatchDone, Sigterm, Exit, Crash, ClosePool
<1>4. CASE \/ \E s \in Submissions : TimeOut(s)
           \/ \E r \in Runners, s \in Submissions : Acknowledge(r, s)
           \/ UNCHANGED vars
  <2>1. UNCHANGED <<rows, unsaved, pool, life>>
    BY <1>4 DEF TimeOut, Expire, Acknowledge, DeleteMessage, vars, serviceVars,
       runnerVars
  <2> QED
    BY <2>1
<1> QED
  BY <1>1, <1>2, <1>3, <1>4 DEF Next

(* While the requests of a confirm are answered too, no row is left without *)
(* a message.                                                               *)
LEMMA NothingUnsentStep ==
    ASSUME {"insert", "send"} \cap Faults = {}, unsent = {}, [Next]_vars
    PROVE  unsent' = {}
<1>1. ASSUME NEW s \in Submissions, Handle(s) PROVE UNCHANGED unsent
  BY <1>1 DEF Handle, ApiStep, ConfirmLookup, ConfirmProgress, ConfirmSave,
     ConfirmSaveFails, ConfirmSend, ConfirmSendFails, DeleteSubmission, serviceVars
<1>2. ASSUME NEW r \in Runners, NEW s \in Submissions, Evaluate(r, s)
      PROVE  UNCHANGED unsent
  BY <1>2 DEF Evaluate, PipelineStep, Download, Extract, LoadConfig,
     DownloadTests, MergeTests, Execute, UploadLogs, Connect, UpdateResult,
     UpdateFails, serviceVars
<1>3. ASSUME NEW r \in Runners, Operate(r) PROVE UNCHANGED unsent
  BY <1>3 DEF Operate, RunnerStep, RunnerProgress, Receive, PollEnds,
     BatchDone, Restart, Sigterm, Exit, Crash, ClosePool, Halt, serviceVars
<1> QED
  BY <1>1, <1>2, <1>3 DEF Next, TimeOut, Expire, Acknowledge, DeleteMessage,
     vars, serviceVars

(* Crashes, redeliveries, visibility timeouts, failing steps, uploads and   *)
(* deletes lose nothing: while the database and the send succeed and no     *)
(* runner is asked to stop, a PENDING row always has its message.           *)
THEOREM NothingIsLost ==
    ASSUME {"insert", "send", "update", "sigterm"} \cap Faults = {}
    PROVE  Spec => []CrashLosesNothing
<1> DEFINE NothingUnsent == unsent = {}
<1>1. Init => NothingSwallowedInv /\ NothingUnsent
  BY DEF Init, ServicesInit, PipelineInit, RunnerInit, NothingSwallowedInv
<1>2. PlatformInv /\ NothingSwallowedInv /\ NothingUnsent /\ [Next]_vars
        => NothingSwallowedInv' /\ NothingUnsent'
  BY NothingSwallowedStep, NothingUnsentStep
<1>3. PlatformInv /\ NothingSwallowedInv /\ NothingUnsent => CrashLosesNothing
  BY DEF PlatformInv, NoSilentLoss, NothingSwallowedInv, CrashLosesNothing, Lost
<1> HIDE DEF NothingUnsent
<1> QED
  BY <1>1, <1>2, <1>3, Invariance, PTL DEF Spec

(* A message leaves the queue for good only in front of a final or removed  *)
(* row.                                                                     *)
LEMMA FinalBeforeDeletedStep ==
    ASSUME PlatformInv, NothingSwallowedInv, FinalBeforeDeleted, [Next]_vars
    PROVE  FinalBeforeDeleted'
<1> USE DEF PlatformInv, TypeOK
<1>1. ASSUME NEW s \in Submissions, Handle(s) PROVE FinalBeforeDeleted'
  <2>1. \/ UNCHANGED rows
        \/ \E st \in {"PENDING", "REMOVED"} : rows' = [rows EXCEPT ![s] = EmptyRow(st)]
    BY <1>1 DEF Handle, ApiStep, ConfirmLookup, ConfirmProgress, ConfirmSave,
       ConfirmSaveFails, ConfirmSend, ConfirmSendFails, DeleteSubmission,
       serviceVars
  <2>2. rows'[s].status = "PENDING" => rows[s].status \in {"PENDING", "NONE"}
    BY <1>1, <2>1 DEF Handle, ApiStep, ConfirmLookup, ConfirmProgress,
       ConfirmSave, ConfirmSaveFails, ConfirmSend, ConfirmSendFails,
       DeleteSubmission, serviceVars, RowComesFirst, EmptyRow, ServicesTypeOK
  <2>3. /\ \A t \in Submissions \ {s} : rows'[t] = rows[t]
        /\ \A t \in Submissions : queue'[t] = "deleted" => queue[t] = "deleted"
    BY <1>1, <2>1 DEF Handle, ApiStep, ConfirmLookup, ConfirmProgress,
       ConfirmSave, ConfirmSaveFails, ConfirmSend, ConfirmSendFails,
       DeleteSubmission, serviceVars, ServicesTypeOK
  <2> QED
    BY <2>2, <2>3 DEF FinalBeforeDeleted, RowComesFirst
<1>2. ASSUME NEW r \in Runners, NEW s \in Submissions, Evaluate(r, s)
      PROVE  FinalBeforeDeleted'
  <2> PICK j \in Job : PipelineEffect(r, s, j)
    BY <1>2, PipelineStepEffect DEF Evaluate
  <2>1. \A t \in Submissions :
           rows'[t] = rows[t] \/ rows'[t].status \in Final
    BY DEF PipelineEffect, ServicesTypeOK
  <2> QED
    BY <2>1 DEF PipelineEffect, FinalBeforeDeleted, Final
<1>3. ASSUME NEW r \in Runners, NEW s \in Submissions, Acknowledge(r, s)
      PROVE  FinalBeforeDeleted'
  <2>1. rows[s].status # "PENDING"
    BY <1>3 DEF Acknowledge, DeleteMessage, DeleteAfterWrite, NothingSwallowedInv
  <2>2. UNCHANGED rows /\ \A t \in Submissions \ {s} : queue'[t] = queue[t]
    BY <1>3 DEF Acknowledge, DeleteMessage, ServicesTypeOK
  <2> QED
    BY <2>1, <2>2 DEF FinalBeforeDeleted
<1>4. CASE \/ \E s \in Submissions : TimeOut(s)
           \/ \E r \in Runners : Operate(r)
           \/ UNCHANGED vars
  <2>1. UNCHANGED rows
    BY <1>4 DEF TimeOut, Expire, Operate, RunnerStep, RunnerProgress, Receive,
       PollEnds, BatchDone, Restart, Sigterm, Exit, Crash, ClosePool, Halt,
       vars, serviceVars
  <2>2. \A t \in Submissions : queue'[t] = "deleted" => queue[t] = "deleted"
    BY <1>4 DEF TimeOut, Expire, Operate, RunnerStep, RunnerProgress, Receive,
       PollEnds, BatchDone, Restart, Sigterm, Exit, Crash, ClosePool, Halt,
       vars, serviceVars, ServicesTypeOK
  <2> QED
    BY <2>1, <2>2 DEF FinalBeforeDeleted
<1> QED
  BY <1>1, <1>2, <1>3, <1>4 DEF Next

(* The claim that the run "shutdown" refutes fails for no other reason than *)
(* a stopping runner or an unanswered UPDATE: without these two a message   *)
(* is gone only when its row is final, or removed.                          *)
THEOREM DeletedMeansFinal ==
    ASSUME {"update", "sigterm"} \cap Faults = {}
    PROVE  Spec => []FinalBeforeDeleted
<1>1. Init => NothingSwallowedInv /\ FinalBeforeDeleted
  BY DEF Init, ServicesInit, PipelineInit, RunnerInit, NothingSwallowedInv,
     FinalBeforeDeleted
<1>2. PlatformInv /\ NothingSwallowedInv /\ FinalBeforeDeleted /\ [Next]_vars
        => NothingSwallowedInv' /\ FinalBeforeDeleted'
  BY NothingSwallowedStep, FinalBeforeDeletedStep
<1> QED
  BY <1>1, <1>2, Invariance, PTL DEF Spec

-----------------------------------------------------------------------------
(* While the tests of a PIT can be had, every command runs against them.    *)
InstructorTestsInv ==
    /\ \A r \in Runners, s \in Submissions :
          /\ At(r, s, "execute") => job[r][s].merged
          /\ job[r][s].result # "selfgraded"
    /\ GradedByInstructorTests

LEMMA InstructorTestsStep ==
    ASSUME "tests" \notin Faults, TypeOK, InstructorTestsInv, [Next]_vars
    PROVE  InstructorTestsInv'
<1> USE DEF TypeOK, InstructorTestsInv
<1> DEFINE Fit(j) == /\ j.pc = "execute" => j.merged
                     /\ j.result # "selfgraded"
<1>j. \A q \in Runners, t \in Submissions : Fit(job[q][t])
  BY DEF At
<1>s. ASSUME \A t \in Submissions :
               \/ rows'[t] = rows[t]
               \/ rows'[t].status = "DONE" => rows'[t].report = "graded"
      PROVE  GradedByInstructorTests'
  BY <1>s DEF GradedByInstructorTests
<1>c. /\ \A pc \in Pc \ {"execute"} : Fit(Before(pc))
      /\ Fit(JobAt("execute", TRUE, "none", FALSE))
      /\ \A result \in Reports \ {"selfgraded"} : Fit(Verdict(result))
  BY DEF Before, Verdict, JobAt
<1>1. ASSUME NEW s \in Submissions, Handle(s) PROVE InstructorTestsInv'
  <2>1. UNCHANGED job
    BY <1>1 DEF Handle
  <2>2. \/ UNCHANGED rows
        \/ \E status \in {"PENDING", "REMOVED"} :
              rows' = [rows EXCEPT ![s] = EmptyRow(status)]
    BY <1>1 DEF Handle, ApiStep, ConfirmLookup, ConfirmProgress, ConfirmSave,
       ConfirmSaveFails, ConfirmSend, ConfirmSendFails, DeleteSubmission,
       serviceVars
  <2>3. \A status \in {"PENDING", "REMOVED"} : EmptyRow(status).status # "DONE"
    BY DEF EmptyRow
  <2>4. GradedByInstructorTests'
    BY <1>s, <2>2, <2>3 DEF ServicesTypeOK
  <2> QED
    BY <2>1, <2>4 DEF At
<1>2. ASSUME NEW r \in Runners, NEW s \in Submissions, NEW j, Fit(j),
             SetJob(r, s, j), GradedByInstructorTests'
      PROVE  InstructorTestsInv'
  BY <1>2, <1>j, OneJob DEF At
<1>3. ASSUME NEW r \in Runners, NEW s \in Submissions, PipelineStep(r, s)
      PROVE  InstructorTestsInv'
  <2>r. job[r][s] \in Job
    BY DEF PipelineTypeOK
  <2>j. Fit(job[r][s])
    BY <1>j
  <2>1. CASE \/ Download(r, s) \/ Extract(r, s) \/ LoadConfig(r, s)
             \/ DownloadTests(r, s) \/ MergeTests(r, s) \/ Execute(r, s)
    <3>1. \/ \E pc \in Pc \ {"execute"} : SetJob(r, s, Before(pc))
          \/ SetJob(r, s, JobAt("execute", TRUE, "none", FALSE))
          \/ \E result \in {"graded", "failed", "aborted"} :
                SetJob(r, s, Verdict(result))
      BY <2>1, <2>j DEF Download, Extract, LoadConfig, DownloadTests, MergeTests,
         Execute, StepThrows, Stalls, Abort, GoTo, At, Pc, Steps
    <3>2. GradedByInstructorTests'
      BY <2>1, <1>s, EarlyStep DEF serviceVars
    <3>3. {"graded", "failed", "aborted"} \subseteq Reports \ {"selfgraded"}
      BY DEF Reports, Verdicts
    <3> HIDE DEF Fit
    <3> QED
      BY <3>1, <3>2, <3>3, <1>c, <1>2
  <2>2. CASE UploadLogs(r, s)
    <3>1. PICK log \in BOOLEAN :
             SetJob(r, s, JobAt("connect", FALSE, job[r][s].result, log))
      BY <2>2 DEF UploadLogs
    <3>2. GradedByInstructorTests'
      BY <2>2, <1>s DEF UploadLogs
    <3>3. Fit(JobAt("connect", FALSE, job[r][s].result, log))
      BY <2>j DEF JobAt
    <3> HIDE DEF Fit
    <3> QED
      BY <3>1, <3>2, <3>3, <1>2
  <2>u. ASSUME UpdateRejects(r, s)
        PROVE  \E j : Fit(j) /\ SetJob(r, s, j)
    <3>1. /\ "aborted" \in Reports \ {"selfgraded"}
          /\ "delete" \in Pc \ {"execute"}
      BY DEF Reports, Pc, Steps
    <3>2. SetJob(r, s, Before("delete")) \/ SetJob(r, s, Verdict("aborted"))
      BY <2>u DEF UpdateRejects, Return, GoTo, Abort
    <3> HIDE DEF Fit
    <3> QED
      BY <3>1, <3>2, <1>c
  <2>w. ASSUME WriteRow(r, s) PROVE GradedByInstructorTests'
    <3> DEFINE row == [status |-> DbStatus(job[r][s].result),
                       report |-> job[r][s].result, log |-> job[r][s].log]
    <3>1. rows' = [rows EXCEPT ![s] = row]
      BY <2>w DEF WriteRow
    <3>2. row.status = "DONE" => row.report = "graded"
      BY <2>j DEF DbStatus
    <3> HIDE DEF row
    <3>3. \A t \in Submissions :
               \/ rows'[t] = rows[t]
               \/ rows'[t].status = "DONE" => rows'[t].report = "graded"
      BY <3>1, <3>2 DEF ServicesTypeOK
    <3> QED
      BY <3>3, <1>s
  <2>3. CASE Connect(r, s)
    <3>1. GradedByInstructorTests'
      BY <2>3, <1>s DEF Connect
    <3>2. CASE UpdateRejects(r, s)
      <4> HIDE DEF Fit
      <4> QED
        BY <3>1, <3>2, <2>u, <1>2
    <3>3. CASE SetJob(r, s, JobAt("update", FALSE, job[r][s].result, job[r][s].log))
      <4>1. Fit(JobAt("update", FALSE, job[r][s].result, job[r][s].log))
        BY <2>j DEF JobAt
      <4> HIDE DEF Fit
      <4> QED
        BY <3>1, <3>3, <4>1, <1>2
    <3> QED
      BY <2>3, <3>2, <3>3 DEF Connect
  <2>4. CASE UpdateResult(r, s)
    <3>1. GradedByInstructorTests'
      BY <2>4, <2>w DEF UpdateResult
    <3>2. SetJob(r, s, Before("delete")) /\ Fit(Before("delete"))
      BY <2>4, <1>c DEF UpdateResult, Return, GoTo, Pc, Steps
    <3> HIDE DEF Fit
    <3> QED
      BY <3>1, <3>2, <1>2
  <2>5. CASE UpdateFails(r, s)
    <3>1. GradedByInstructorTests'
      BY <2>5, <2>w, <1>s DEF UpdateFails
    <3> HIDE DEF Fit
    <3> QED
      BY <3>1, <2>5, <2>u, <1>2 DEF UpdateFails
  <2> QED
    BY <1>3, <2>1, <2>2, <2>3, <2>4, <2>5 DEF PipelineStep
<1>4. ASSUME NEW r \in Runners, NEW s \in Submissions, DeleteMessage(r, s)
      PROVE  InstructorTestsInv'
  <2>1. SetJob(r, s, Before("idle")) /\ Fit(Before("idle"))
    BY <1>4, <1>c DEF DeleteMessage, IdleJob, Pc, Steps
  <2>2. GradedByInstructorTests'
    BY <1>4, <1>s DEF DeleteMessage
  <2> HIDE DEF Fit
  <2> QED
    BY <2>1, <2>2, <1>2
<1>5. ASSUME NEW r \in Runners, Operate(r) PROVE InstructorTestsInv'
  <2>1. UNCHANGED rows
    BY <1>5 DEF Operate, RunnerStep, RunnerProgress, Receive, PollEnds,
       BatchDone, Restart, Sigterm, Exit, Crash, ClosePool, Halt, serviceVars
  <2>2. GradedByInstructorTests'
    BY <2>1, <1>s
  <2>3. \/ UNCHANGED job
        \/ \E batch : job' = [job EXCEPT ![r] = [s \in Submissions |->
                         IF s \in batch THEN NewJob ELSE job[r][s]]]
        \/ job' = [job EXCEPT ![r] = [s \in Submissions |-> IdleJob]]
    BY <1>5 DEF Operate, RunnerStep, RunnerProgress, Receive, PollEnds,
       BatchDone, Restart, Sigterm, Exit, Crash, ClosePool, Halt
  <2>4. \A q \in Runners, t \in Submissions :
           job'[q][t] = job[q][t] \/ job'[q][t] = NewJob \/ job'[q][t] = IdleJob
    BY <2>3 DEF PipelineTypeOK
  <2>5. Fit(NewJob) /\ Fit(IdleJob)
    BY <1>c DEF NewJob, IdleJob, Pc, Steps
  <2>6. \A q \in Runners, t \in Submissions : Fit(job'[q][t])
    <3> HIDE DEF Fit
    <3> QED
      BY <2>4, <2>5, <1>j
  <2> QED
    BY <2>2, <2>6 DEF At
<1>6. CASE (\E s \in Submissions : TimeOut(s)) \/ UNCHANGED vars
  <2>1. UNCHANGED <<rows, job>>
    BY <1>6 DEF TimeOut, Expire, vars, serviceVars
  <2>2. GradedByInstructorTests'
    BY <2>1, <1>s
  <2> QED
    BY <2>1, <2>2 DEF At
<1> QED
  BY <1>1, <1>3, <1>4, <1>5, <1>6 DEF Next, Evaluate, Acknowledge

(* While the tests of the PIT can be downloaded, no submission is DONE by   *)
(* the tests its student wrote, however its steps and updates fail and      *)
(* however often it is evaluated.                                           *)
THEOREM GradesAreByInstructorTests ==
    ASSUME "tests" \notin Faults
    PROVE  Spec => []GradedByInstructorTests
<1>1. Init => InstructorTestsInv
  BY DEF Init, ServicesInit, PipelineInit, InstructorTestsInv, EmptyRow, At,
     GradedByInstructorTests, IdleJob, Before, JobAt
<1>2. TypeOK /\ InstructorTestsInv /\ [Next]_vars => InstructorTestsInv'
  BY InstructorTestsStep
<1>3. InstructorTestsInv => GradedByInstructorTests
  BY DEF InstructorTestsInv
<1> QED
  BY <1>1, <1>2, <1>3, TypeCorrect, PTL DEF Spec

-----------------------------------------------------------------------------
(* What the log of s holds is what its row reports.                         *)
LogFits(s) == rows[s].log => logs[s] = rows[s].report

(* From the upload on, a pipeline with a log key is the writer of the log;  *)
(* and a message leaves the queue only when the log fits the row.           *)
LogInv ==
    /\ \A s \in Submissions :
          /\ queue[s] = "unsent" => ~rows[s].log
          /\ ~Queued(s) /\ s \notin unsaved => LogFits(s)
    /\ \A r \in Runners, s \in Submissions :
          /\ At(r, s, "connect") \/ At(r, s, "update") =>
                (job[r][s].log => logs[s] = job[r][s].result)
          /\ At(r, s, "delete") /\ s \notin unsaved => LogFits(s)

(* The part of LogInv about submission t.                                   *)
LogInvOf(t) ==
    /\ queue[t] = "unsent" => ~rows[t].log
    /\ ~Queued(t) /\ t \notin unsaved => LogFits(t)
    /\ \A r \in Runners :
          /\ At(r, t, "connect") \/ At(r, t, "update") =>
                (job[r][t].log => logs[t] = job[r][t].result)
          /\ At(r, t, "delete") /\ t \notin unsaved => LogFits(t)

LEMMA LogInvOfEach == LogInv <=> \A t \in Submissions : LogInvOf(t)
BY DEF LogInv, LogInvOf

(* A step that leaves t alone, or only ends or starts pipelines of it.      *)
LEMMA LogFrame ==
    ASSUME NEW t \in Submissions, LogInvOf(t),
           rows'[t] = rows[t], logs'[t] = logs[t],
           queue'[t] = queue[t] \/ (Queued(t) /\ Queued(t)'),
           t \in unsaved' <=> t \in unsaved,
           \A r \in Runners :
              \/ job'[r][t] = job[r][t]
              \/ job'[r][t].pc \notin {"connect", "update", "delete"}
    PROVE  LogInvOf(t)'
BY DEF LogInvOf, LogFits, Queued, At

LEMMA LogStep ==
    ASSUME "expiry" \notin Faults, TypeOK, ExclusiveInv, LogInv, [Next]_vars
    PROVE  LogInv'
<1> USE DEF TypeOK
<1>l. \A t \in Submissions : LogInvOf(t)
  BY LogInvOfEach
<1>g. (\A t \in Submissions : LogInvOf(t)') => LogInv'
  BY DEF LogInv, LogInvOf
<1>e. \A st : ~EmptyRow(st).log
  BY DEF EmptyRow
<1>1. ASSUME NEW s \in Submissions, Handle(s) PROVE LogInv'
  <2>1. UNCHANGED <<job, logs, unsaved>>
    BY <1>1 DEF Handle, ApiStep, ConfirmLookup, ConfirmProgress, ConfirmSave,
       ConfirmSaveFails, ConfirmSend, ConfirmSendFails, DeleteSubmission,
       serviceVars
  <2>2. \/ UNCHANGED rows
        \/ \E status : rows' = [rows EXCEPT ![s] = EmptyRow(status)]
    BY <1>1 DEF Handle, ApiStep, ConfirmLookup, ConfirmProgress, ConfirmSave,
       ConfirmSaveFails, ConfirmSend, ConfirmSendFails, DeleteSubmission,
       serviceVars
  <2>3. \/ UNCHANGED queue
        \/ /\ queue[s] = "unsent" /\ queue' = [queue EXCEPT ![s] = "visible"]
           /\ UNCHANGED rows
    BY <1>1 DEF Handle, ApiStep, ConfirmLookup, ConfirmProgress, ConfirmSave,
       ConfirmSaveFails, ConfirmSend, ConfirmSendFails, DeleteSubmission,
       serviceVars, ExclusiveInv, SentOnce
  <2>4. ASSUME NEW t \in Submissions PROVE LogInvOf(t)'
    <3>1. rows'[t] = rows[t] \/ ~rows'[t].log
      BY <2>2, <1>e DEF ServicesTypeOK
    <3>2. \/ queue'[t] = queue[t]
          \/ queue[t] = "unsent" /\ queue'[t] = "visible" /\ rows'[t] = rows[t]
      BY <2>3 DEF ServicesTypeOK
    <3> QED
      BY <2>1, <3>1, <3>2, <1>l DEF LogInvOf, LogFits, Queued, At
  <2> QED
    BY <2>4, <1>g
<1>2. ASSUME NEW r \in Runners, NEW s \in Submissions, PipelineStep(r, s)
      PROVE  LogInv'
  <2>a. Works(r, s)
    BY <1>2, StepWorks
  <2>q. queue[s] = "inflight" /\ UNCHANGED queue
    BY <1>2, <2>a, PipelineStepEffect
       DEF ExclusiveInv, HeldInFlight, PipelineEffect
  <2>o. \A q \in Runners \ {r} : job[q][s].pc \in {"idle", "stalled"}
    BY <2>a DEF ExclusiveInv, OneAttemptAtATime, Works
  <2>f. ASSUME NEW j, SetJob(r, s, j),
               \A t \in Submissions \ {s} :
                  /\ rows'[t] = rows[t] /\ logs'[t] = logs[t]
                  /\ t \in unsaved' <=> t \in unsaved,
               j.pc \in {"connect", "update"} =>
                  (j.log => logs'[s] = j.result),
               j.pc = "delete" /\ s \notin unsaved' => LogFits(s)'
        PROVE  LogInv'
    <3>1. \A q \in Runners, t \in Submissions :
             job'[q][t] = IF q = r /\ t = s THEN j ELSE job[q][t]
      BY <2>f, OneJob
    <3>2. \A t \in Submissions \ {s} : LogInvOf(t)'
      BY <1>l, <2>f, <2>q, <3>1, LogFrame
    <3>3. LogInvOf(s)'
      BY <2>f, <2>q, <2>o, <3>1 DEF LogInvOf, Queued, At
    <3> QED
      BY <3>2, <3>3, <1>g
  <2>1. CASE \/ Download(r, s) \/ Extract(r, s) \/ LoadConfig(r, s)
             \/ DownloadTests(r, s) \/ MergeTests(r, s) \/ Execute(r, s)
    <3>1. PICK j : SetJob(r, s, j) /\ j.pc \notin {"connect", "update", "delete"}
      BY <2>1, EarlyStep
    <3>2. UNCHANGED serviceVars
      BY <2>1, EarlyStep
    <3> QED
      BY <2>f, <3>1, <3>2 DEF serviceVars
  <2>2. CASE UploadLogs(r, s)
    <3>1. PICK log \in BOOLEAN :
             /\ SetJob(r, s, JobAt("connect", FALSE, job[r][s].result, log))
             /\ log => logs' = [logs EXCEPT ![s] = job[r][s].result]
      BY <2>2 DEF UploadLogs
    <3> DEFINE j == JobAt("connect", FALSE, job[r][s].result, log)
    <3>2. j.pc = "connect" /\ j.log = log /\ j.result = job[r][s].result
      BY DEF JobAt
    <3>3. /\ UNCHANGED <<rows, unsaved>>
          /\ \A t \in Submissions \ {s} : logs'[t] = logs[t]
      BY <2>2 DEF UploadLogs, ServicesTypeOK
    <3>4. log => logs'[s] = job[r][s].result
      BY <3>1 DEF ServicesTypeOK
    <3> HIDE DEF j
    <3> QED
      BY <2>f, <3>1, <3>2, <3>3, <3>4 DEF j
  <2>u. ASSUME UpdateRejects(r, s), UNCHANGED logs,
               \A t \in Submissions \ {s} : rows'[t] = rows[t]
        PROVE  LogInv'
    <3>1. CASE Return(r, s) /\ unsaved' = unsaved \cup {s}
      <4>1. SetJob(r, s, Before("delete")) /\ Before("delete").pc = "delete"
        BY <3>1, JobCounter DEF Return, GoTo
      <4>2. /\ s \in unsaved'
            /\ \A t \in Submissions \ {s} : t \in unsaved' <=> t \in unsaved
        BY <3>1
      <4> QED
        BY <2>f, <2>u, <4>1, <4>2
    <3>2. CASE Abort(r, s) /\ UNCHANGED unsaved
      <4>1. SetJob(r, s, Verdict("aborted")) /\ Verdict("aborted").pc = "upload"
        BY <3>2, JobCounter DEF Abort
      <4> QED
        BY <2>f, <2>u, <3>2, <4>1
    <3> QED
      BY <2>u, <3>1, <3>2 DEF UpdateRejects
  <2>3. CASE Connect(r, s)
    <3>1. CASE UpdateRejects(r, s)
      BY <2>3, <2>u, <3>1 DEF Connect
    <3>2. CASE /\ SetJob(r, s, JobAt("update", FALSE, job[r][s].result,
                                     job[r][s].log))
               /\ UNCHANGED unsaved
      <4> DEFINE j == JobAt("update", FALSE, job[r][s].result, job[r][s].log)
      <4>1. j.pc = "update" /\ j.log = job[r][s].log /\ j.result = job[r][s].result
        BY DEF JobAt
      <4>2. job[r][s].log => logs[s] = job[r][s].result
        BY <1>l, <2>3 DEF LogInvOf, Connect
      <4>3. UNCHANGED <<rows, logs>>
        BY <2>3 DEF Connect
      <4> HIDE DEF j
      <4> QED
        BY <2>f, <3>2, <4>1, <4>2, <4>3 DEF j
    <3> QED
      BY <2>3, <3>1, <3>2 DEF Connect
  <2>4. CASE UpdateResult(r, s)
    <3> DEFINE row == [status |-> DbStatus(job[r][s].result),
                       report |-> job[r][s].result, log |-> job[r][s].log]
    <3>1. rows' = [rows EXCEPT ![s] = row] /\ UNCHANGED <<logs, unsaved>>
      BY <2>4 DEF UpdateResult, WriteRow
    <3>2. row.log => logs[s] = row.report
      BY <1>l, <2>4 DEF LogInvOf, UpdateResult
    <3>3. SetJob(r, s, Before("delete")) /\ Before("delete").pc = "delete"
      BY <2>4, JobCounter DEF UpdateResult, Return, GoTo
    <3> HIDE DEF row
    <3>4. rows'[s] = row /\ \A t \in Submissions \ {s} : rows'[t] = rows[t]
      BY <3>1 DEF ServicesTypeOK
    <3>5. LogFits(s)'
      BY <3>1, <3>2, <3>4 DEF LogFits
    <3> QED
      BY <2>f, <3>1, <3>3, <3>4, <3>5
  <2>5. CASE UpdateFails(r, s)
    <3>1. \A t \in Submissions \ {s} : rows'[t] = rows[t]
      BY <2>5 DEF UpdateFails, WriteRow, ServicesTypeOK
    <3> QED
      BY <2>5, <2>u, <3>1 DEF UpdateFails
  <2> QED
    BY <1>2, <2>1, <2>2, <2>3, <2>4, <2>5 DEF PipelineStep
<1>3. ASSUME NEW r \in Runners, NEW s \in Submissions, Acknowledge(r, s)
      PROVE  LogInv'
  <2>1. /\ UNCHANGED <<rows, logs, unsaved>>
        /\ At(r, s, "delete") /\ SetJob(r, s, IdleJob)
        /\ \/ UNCHANGED queue
           \/ queue' = [queue EXCEPT ![s] = "deleted"]
    BY <1>3 DEF Acknowledge, DeleteMessage
  <2>2. \A q \in Runners, t \in Submissions :
           job'[q][t] = IF q = r /\ t = s THEN IdleJob ELSE job[q][t]
    BY <2>1, OneJob
  <2>3. IdleJob.pc = "idle"
    BY JobCounter DEF IdleJob
  <2>4. \A t \in Submissions \ {s} : LogInvOf(t)'
    <3>1. \A t \in Submissions \ {s} : queue'[t] = queue[t]
      BY <2>1 DEF ServicesTypeOK
    <3> QED
      BY <1>l, <2>1, <2>2, <3>1, LogFrame
  <2>5. LogInvOf(s)'
    <3>1. queue'[s] \in {queue[s], "deleted"}
      BY <2>1 DEF ServicesTypeOK
    <3>2. s \notin unsaved => LogFits(s)
      BY <1>l, <2>1 DEF LogInvOf
    <3>3. \A q \in Runners : job'[q][s] \in {job[q][s], IdleJob}
      BY <2>2
    <3>4. LogInvOf(s)
      BY <1>l
    <3> QED
      BY <2>1, <2>3, <3>1, <3>2, <3>3, <3>4 DEF LogInvOf, LogFits, Queued, At
  <2> QED
    BY <2>4, <2>5, <1>g
<1>4. ASSUME NEW r \in Runners, Operate(r) PROVE LogInv'
  <2>1. UNCHANGED <<rows, logs, unsaved>>
    BY <1>4 DEF Operate, RunnerStep, RunnerProgress, Receive, PollEnds,
       BatchDone, Restart, Sigterm, Exit, Crash, ClosePool, Halt, serviceVars
  <2>2. \A t \in Submissions :
           queue'[t] = queue[t] \/ (queue[t] = "visible" /\ queue'[t] = "inflight")
    BY <1>4 DEF Operate, RunnerStep, RunnerProgress, Receive, PollEnds, Visible,
       BatchDone, Restart, Sigterm, Exit, Crash, ClosePool, Halt, serviceVars,
       ServicesTypeOK
  <2>3. \/ UNCHANGED job
        \/ \E batch : job' = [job EXCEPT ![r] = [s \in Submissions |->
                         IF s \in batch THEN NewJob ELSE job[r][s]]]
        \/ job' = [job EXCEPT ![r] = [s \in Submissions |-> IdleJob]]
    BY <1>4 DEF Operate, RunnerStep, RunnerProgress, Receive, PollEnds,
       BatchDone, Restart, Sigterm, Exit, Crash, ClosePool, Halt
  <2>4. \A q \in Runners, t \in Submissions :
           job'[q][t] = job[q][t] \/ job'[q][t] = NewJob \/ job'[q][t] = IdleJob
    BY <2>3 DEF PipelineTypeOK
  <2>5. NewJob.pc = "download" /\ IdleJob.pc = "idle"
    BY JobCounter DEF NewJob, IdleJob
  <2>6. \A t \in Submissions : queue'[t] = queue[t] \/ (Queued(t) /\ Queued(t)')
    BY <2>2 DEF Queued
  <2>7. \A t \in Submissions : LogInvOf(t)'
    BY <1>l, <2>1, <2>4, <2>5, <2>6, LogFrame
  <2> QED
    BY <2>7, <1>g
<1>5. ASSUME NEW s \in Submissions, TimeOut(s) PROVE LogInv'
  <2>1. UNCHANGED <<rows, logs, unsaved, job>>
    BY <1>5 DEF TimeOut, Expire
  <2>2. \A t \in Submissions : queue'[t] = queue[t] \/ (Queued(t) /\ Queued(t)')
    BY <1>5 DEF TimeOut, Expire, ServicesTypeOK, Queued
  <2>3. \A t \in Submissions : LogInvOf(t)'
    BY <1>l, <2>1, <2>2, LogFrame
  <2> QED
    BY <2>3, <1>g
<1>6. CASE UNCHANGED vars
  BY <1>6 DEF vars, serviceVars, LogInv, LogFits, Queued, At
<1> QED
  BY <1>1, <1>2, <1>3, <1>4, <1>5, <1>6 DEF Next, Evaluate

(* Where no evaluation outlives the visibility timeout: once nothing is     *)
(* owed to a submission, the log its row points to is the log of the        *)
(* evaluation the row reports, whatever crashed, failed or was repeated.    *)
THEOREM LogsFitTheirRows ==
    ASSUME "expiry" \notin Faults
    PROVE  Spec => []LogsMatchRow
<1>1. Init => LogInv
  BY DEF Init, ServicesInit, PipelineInit, LogInv, LogFits, EmptyRow, At,
     IdleJob, Before, JobAt
<1>2. TypeOK /\ ExclusiveInv /\ LogInv /\ [Next]_vars => LogInv'
  BY LogStep
<1>3. LogInv => LogsMatchRow
  BY DEF LogInv, LogsMatchRow, LogFits, Owed
<1> QED
  BY <1>1, <1>2, <1>3, TypeCorrect, Exclusiveness, PTL DEF Spec

-----------------------------------------------------------------------------
(* Where messages are deleted in time and every UPDATE is answered: until a *)
(* runner stops, a final row was written by the only evaluation of its      *)
(* submission, which then goes on to delete the message.                    *)
WrittenOnce ==
    \A s \in Submissions :
        rows[s].status \in Final =>
            queue[s] = "deleted" \/ \E r \in Runners : At(r, s, "delete")

OnceInv ==
    stops = 0 =>
        /\ \A r \in Runners : pool[r] = "open" /\ life[r] # "stopping"
        /\ WrittenOnce

(* Stops are counted, and never forgotten.                                  *)
LEMMA StopsGrow ==
    ASSUME RunnerTypeOK, [Next]_vars
    PROVE  stops' \in {stops, stops + 1}
<1>1. ASSUME NEW r \in Runners, Operate(r) PROVE stops' \in {stops, stops + 1}
  BY <1>1 DEF Operate, RunnerStep, RunnerProgress, Receive, PollEnds, BatchDone,
     Restart, Sigterm, Exit, Crash, ClosePool, Halt, MayStop
<1>2. CASE \/ \E s \in Submissions : Handle(s) \/ TimeOut(s)
           \/ \E r \in Runners, s \in Submissions : Evaluate(r, s) \/ Acknowledge(r, s)
           \/ UNCHANGED vars
  <2>1. UNCHANGED stops
    BY <1>2 DEF Handle, Evaluate, Acknowledge, DeleteMessage, TimeOut, Expire,
       runnerVars, vars
  <2> QED
    BY <2>1
<1> QED
  BY <1>1, <1>2 DEF Next

LEMMA OnceStep ==
    ASSUME {"delete", "expiry", "update"} \cap Faults = {},
           PlatformInv, ExclusiveInv, OnceInv, stops = 0, [Next]_vars
    PROVE  /\ OnceInv'
           /\ \A s \in Submissions :
                 rows[s].status \in Final =>
                     rows'[s] \in {rows[s], EmptyRow("REMOVED")}
<1> DEFINE Stand == \A s \in Submissions :
                        rows[s].status \in Final =>
                            rows'[s] \in {rows[s], EmptyRow("REMOVED")}
<1> USE DEF PlatformInv, TypeOK
<1>f. "delete" \notin Faults /\ "expiry" \notin Faults /\ "update" \notin Faults
  OBVIOUS
<1>q. \A s \in Submissions :
         rows[s].status \in Final =>
            /\ queue[s] \in {"deleted", "inflight"}
            /\ queue[s] = "inflight" =>
                  \E r \in Runners : At(r, s, "delete") /\ Works(r, s)
  BY DEF OnceInv, WrittenOnce, ExclusiveInv, HeldInFlight, Works, At
<1>1. ASSUME NEW s \in Submissions, Handle(s) PROVE OnceInv' /\ Stand
  <2> USE DEF Handle, ApiStep, ConfirmLookup, ConfirmProgress, ConfirmSave,
              ConfirmSaveFails, ConfirmSend, ConfirmSendFails,
              DeleteSubmission, serviceVars
  <2>1. UNCHANGED <<job, pool, life>>
    BY <1>1 DEF runnerVars
  <2>2. \/ UNCHANGED rows
        \/ /\ rows' = [rows EXCEPT ![s] = EmptyRow("PENDING")]
           /\ confirm[s] = "save"
        \/ rows' = [rows EXCEPT ![s] = EmptyRow("REMOVED")]
    BY <1>1
  <2>3. confirm[s] = "save" => rows[s].status = "NONE"
    BY DEF RowComesFirst
  <2>4. \A t \in Submissions : queue'[t] = queue[t] \/ queue[t] = "unsent"
    BY <1>1 DEF ServicesTypeOK, ExclusiveInv, SentOnce
  <2> HIDE DEF Handle, ApiStep
  <2>5. Stand
    BY <2>2, <2>3 DEF ServicesTypeOK, Final
  <2>6. \A t \in Submissions :
           rows'[t].status \in Final => rows'[t] = rows[t]
    BY <2>2 DEF ServicesTypeOK, EmptyRow, Final
  <2>7. WrittenOnce'
    BY <2>1, <2>4, <2>6, <1>q DEF WrittenOnce, OnceInv, At
  <2> QED
    BY <2>1, <2>5, <2>7 DEF OnceInv
<1>2. ASSUME NEW r \in Runners, NEW s \in Submissions, Evaluate(r, s)
      PROVE  OnceInv' /\ Stand
  <2>1. PipelineStep(r, s) /\ Works(r, s) /\ UNCHANGED <<pool, life, queue>>
    BY <1>2, StepWorks, PipelineStepEffect
       DEF Evaluate, runnerVars, PipelineEffect
  <2>2. rows[s].status \notin Final
    <3> SUFFICES ASSUME rows[s].status \in Final PROVE FALSE
      OBVIOUS
    <3>1. queue[s] = "inflight"
      BY <2>1 DEF ExclusiveInv, HeldInFlight
    <3>2. PICK q \in Runners : At(q, s, "delete") /\ Works(q, s)
      BY <3>1, <1>q
    <3>3. q = r
      BY <2>1, <3>2 DEF ExclusiveInv, OneAttemptAtATime
    <3>4. ~At(r, s, "delete")
      BY <2>1 DEF At, PipelineStep, Download, Extract, LoadConfig,
         DownloadTests, MergeTests, Execute, UploadLogs, Connect,
         UpdateResult, UpdateFails
    <3> QED
      BY <3>2, <3>3, <3>4
  <2>3. PICK j \in Job : PipelineEffect(r, s, j)
    BY <2>1, PipelineStepEffect
  <2>4. \A t \in Submissions \ {s} : rows'[t] = rows[t]
    BY <2>3 DEF PipelineEffect, ServicesTypeOK
  <2>5. \A q \in Runners, t \in Submissions \ {s} : job'[q][t] = job[q][t]
    BY <2>3 DEF PipelineEffect, SetJob, PipelineTypeOK
  <2>6. UNCHANGED rows \/ (WriteRow(r, s) /\ Return(r, s))
    BY <1>f, <2>1 DEF PipelineStep, Download, Extract, LoadConfig,
       DownloadTests, MergeTests, Execute, UploadLogs, Connect, UpdateResult,
       UpdateFails, serviceVars
  <2>7. Return(r, s) => At(r, s, "delete")'
    BY JobCounter DEF Return, GoTo, SetJob, At, PipelineTypeOK
  <2>8. WrittenOnce'
    <3> SUFFICES ASSUME NEW t \in Submissions, rows'[t].status \in Final
                 PROVE  queue'[t] = "deleted" \/ \E q \in Runners : At(q, t, "delete")'
      BY DEF WrittenOnce
    <3>1. CASE t = s
      BY <2>2, <2>6, <2>7, <3>1
    <3>2. CASE t # s
      BY <2>1, <2>4, <2>5, <3>2 DEF WrittenOnce, OnceInv, At
    <3> QED
      BY <3>1, <3>2
  <2> QED
    BY <2>1, <2>2, <2>4, <2>8 DEF OnceInv
<1>3. ASSUME NEW r \in Runners, NEW s \in Submissions, Acknowledge(r, s)
      PROVE  OnceInv' /\ Stand
  <2>1. UNCHANGED <<rows, pool, life>>
    BY <1>3 DEF Acknowledge, DeleteMessage, runnerVars
  <2>2. queue' = [queue EXCEPT ![s] = "deleted"]
    BY <1>3, <1>f DEF Acknowledge, DeleteMessage
  <2>3. \A q \in Runners, t \in Submissions \ {s} : job'[q][t] = job[q][t]
    BY <1>3 DEF Acknowledge, DeleteMessage, SetJob, PipelineTypeOK
  <2>4. WrittenOnce'
    BY <2>1, <2>2, <2>3 DEF WrittenOnce, OnceInv, At, ServicesTypeOK
  <2> QED
    BY <2>1, <2>4 DEF OnceInv
<1>4. ASSUME NEW s \in Submissions, TimeOut(s) PROVE OnceInv' /\ Stand
  <2>1. UNCHANGED <<rows, job, pool, life>> /\ queue[s] = "inflight"
    BY <1>4 DEF TimeOut, Expire, runnerVars
  <2>2. rows[s].status \notin Final
    BY <1>4, <1>f, <1>q DEF TimeOut, Expire
  <2>3. \A t \in Submissions \ {s} : queue'[t] = queue[t]
    BY <1>4 DEF TimeOut, Expire, ServicesTypeOK
  <2>4. WrittenOnce'
    BY <2>1, <2>2, <2>3 DEF WrittenOnce, OnceInv, At
  <2> QED
    BY <2>1, <2>4 DEF OnceInv
<1>5. ASSUME NEW r \in Runners, Operate(r) PROVE OnceInv' /\ Stand
  <2>1. CASE \E batch \in SUBSET Visible : Receive(r, batch)
    <3> PICK batch \in SUBSET Visible : Receive(r, batch)
      BY <2>1
    <3>1. UNCHANGED <<rows, pool, life>>
      BY DEF Receive
    <3>2. \A t \in Submissions \ batch :
             queue'[t] = queue[t] /\ \A q \in Runners : job'[q][t] = job[q][t]
      BY DEF Receive, PipelineTypeOK
    <3>3. \A t \in batch : rows[t].status \notin Final
      BY <1>q DEF Visible
    <3>4. WrittenOnce'
      BY <3>1, <3>2, <3>3 DEF WrittenOnce, OnceInv, At
    <3> QED
      BY <3>1, <3>4 DEF OnceInv
  <2>2. CASE PollEnds(r) \/ BatchDone(r) \/ Restart(r)
    <3>1. UNCHANGED <<rows, queue, job, pool>>
          /\ \A q \in Runners : life'[q] \in {life[q], "running"}
      BY <2>2 DEF PollEnds, BatchDone, Restart, serviceVars, RunnerTypeOK
    <3> QED
      BY <3>1 DEF OnceInv, WrittenOnce, At
  <2>3. ~(ClosePool(r) \/ Exit(r))
    BY DEF OnceInv, ClosePool, Exit
  <2>4. CASE Sigterm(r) \/ Crash(r)
    <3>1. UNCHANGED rows /\ stops' # 0
      BY <2>4 DEF Sigterm, Crash, Halt, MayStop, serviceVars
    <3> QED
      BY <3>1 DEF OnceInv
  <2> QED
    BY <1>5, <2>1, <2>2, <2>3, <2>4 DEF Operate, RunnerStep, RunnerProgress
<1>6. CASE UNCHANGED vars
  BY <1>6 DEF vars, serviceVars, runnerVars, OnceInv, WrittenOnce, At
<1> QED
  BY <1>1, <1>2, <1>3, <1>4, <1>5, <1>6 DEF Next

LEMMA OnceInvariance ==
    ASSUME {"delete", "expiry", "update"} \cap Faults = {}
    PROVE  Spec => []OnceInv
<1>1. Init => OnceInv
  BY DEF Init, ServicesInit, PipelineInit, RunnerInit, OnceInv, WrittenOnce,
     EmptyRow, Final
<1>2. PlatformInv /\ ExclusiveInv /\ OnceInv /\ [Next]_vars => OnceInv'
  <2> SUFFICES ASSUME PlatformInv, ExclusiveInv, OnceInv, [Next]_vars PROVE OnceInv'
    OBVIOUS
  <2>1. CASE stops = 0
    BY <2>1, OnceStep
  <2>2. CASE stops # 0
    <3>1. stops' # 0
      BY <2>2, StopsGrow DEF PlatformInv, TypeOK, RunnerTypeOK
    <3> QED
      BY <3>1 DEF OnceInv
  <2> QED
    BY <2>1, <2>2
<1>3. Spec => []ExclusiveInv
  BY Exclusiveness
<1> QED
  BY <1>1, <1>2, <1>3, Invariance, PTL DEF Spec

(* Where messages are deleted in time and every UPDATE is answered: until a *)
(* runner stops, a final row is the last word, however uploads, steps,      *)
(* sends and removals go, and however many runners and submissions there    *)
(* are.                                                                     *)
THEOREM FinalRowsStand ==
    ASSUME {"delete", "expiry", "update"} \cap Faults = {}
    PROVE  Spec => GradesStand
<1>1. PlatformInv /\ ExclusiveInv /\ OnceInv /\ [Next]_vars
        => [stops = 0 =>
               \A s \in Submissions :
                   rows[s].status \in Final =>
                       rows'[s] \in {rows[s], EmptyRow("REMOVED")}]_vars
  BY OnceStep
<1>2. Spec => []ExclusiveInv
  BY Exclusiveness
<1> QED
  BY <1>1, <1>2, OnceInvariance, Invariance, PTL DEF Spec, GradesStand

(* Under the same conditions no submission is evaluated again, although     *)
(* nothing reads the row before an evaluation.                              *)
THEOREM NothingRunsAgain ==
    ASSUME {"delete", "expiry", "update"} \cap Faults = {}
    PROVE  Spec => []CompletedIsNotRerun
<1>1. ExclusiveInv /\ OnceInv => CompletedIsNotRerun
  <2> SUFFICES ASSUME ExclusiveInv, OnceInv, NEW r \in Runners,
                      NEW s \in Submissions, At(r, s, "execute"),
                      rows[s].status \in Final, stops = 0
               PROVE  FALSE
    BY DEF CompletedIsNotRerun
  <2>1. Works(r, s)
    BY DEF Works, At
  <2>2. queue[s] = "inflight"
    BY <2>1 DEF ExclusiveInv, HeldInFlight
  <2>3. PICK q \in Runners : At(q, s, "delete")
    BY <2>2 DEF OnceInv, WrittenOnce
  <2>4. q = r
    BY <2>1, <2>3 DEF ExclusiveInv, OneAttemptAtATime, Works, At
  <2> QED
    BY <2>3, <2>4 DEF At
<1>2. Spec => []OnceInv
  BY OnceInvariance
<1>3. Spec => []ExclusiveInv
  BY Exclusiveness
<1> QED
  BY <1>1, <1>2, <1>3, PTL
=============================================================================
