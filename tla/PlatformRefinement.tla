------------------------- MODULE PlatformRefinement -------------------------
(***************************************************************************)
(* The platform implements SubmissionLifecycle, for every set of            *)
(* submissions and runners and under every fault: each of its steps is one  *)
(* of the lifecycle's, or none.                                             *)
(***************************************************************************)
EXTENDS PlatformProofs

(* The runner never writes RUNNING, the one status between PENDING and a    *)
(* final one.                                                               *)
NeverRunning == \A s \in Submissions : rows[s].status # "RUNNING"

(* What steps do to the table: it stays, a handler inserts or removes a     *)
(* row, or a pipeline writes a final status into a row that is there.       *)
LEMMA RowChanges ==
    ASSUME PlatformInv, Next
    PROVE  \/ UNCHANGED rows
           \/ \E s \in Submissions :
                 \/ /\ ConfirmSave(s) \/ ConfirmSaveFails(s)
                    /\ rows' = [rows EXCEPT ![s] = EmptyRow("PENDING")]
                 \/ /\ DeleteSubmission(s)
                    /\ rows' = [rows EXCEPT ![s] = EmptyRow("REMOVED")]
                 \/ /\ InTable(s)
                    /\ \E r \in Runners : Evaluate(r, s)
                    /\ \E row \in Row : /\ row.status \in Final
                                        /\ rows' = [rows EXCEPT ![s] = row]
<1> USE DEF PlatformInv, TypeOK
<1>1. ASSUME NEW s \in Submissions, Handle(s)
      PROVE  \/ UNCHANGED rows
             \/ /\ ConfirmSave(s) \/ ConfirmSaveFails(s)
                /\ rows' = [rows EXCEPT ![s] = EmptyRow("PENDING")]
             \/ /\ DeleteSubmission(s)
                /\ rows' = [rows EXCEPT ![s] = EmptyRow("REMOVED")]
  BY <1>1 DEF Handle, ApiStep, ConfirmLookup, ConfirmProgress, ConfirmSave,
     ConfirmSaveFails, ConfirmSend, ConfirmSendFails, DeleteSubmission,
     serviceVars
<1>2. ASSUME NEW r \in Runners, NEW s \in Submissions, Evaluate(r, s)
      PROVE  \/ UNCHANGED rows
             \/ /\ InTable(s)
                /\ \E row \in Row : /\ row.status \in Final
                                    /\ rows' = [rows EXCEPT ![s] = row]
  BY <1>2, PipelineStepEffect DEF Evaluate, PipelineEffect
<1>3. ASSUME \/ \E s \in Submissions : TimeOut(s)
             \/ \E r \in Runners, s \in Submissions : Acknowledge(r, s)
             \/ \E r \in Runners : Operate(r)
      PROVE  UNCHANGED rows
  BY <1>3 DEF TimeOut, Expire, Acknowledge, DeleteMessage, Operate, RunnerStep,
     RunnerProgress, Receive, PollEnds, BatchDone, Restart, Sigterm, Exit,
     Crash, ClosePool, Halt, serviceVars
<1> QED
  BY <1>1, <1>2, <1>3 DEF Next

LEMMA NeverRunningStep ==
    ASSUME PlatformInv, NeverRunning, [Next]_vars
    PROVE  NeverRunning'
<1>1. CASE UNCHANGED rows
  BY <1>1 DEF NeverRunning
<1>2. ASSUME NEW s \in Submissions, NEW row,
             rows' = [rows EXCEPT ![s] = row], row.status # "RUNNING"
      PROVE  NeverRunning'
  BY <1>2 DEF NeverRunning, PlatformInv, TypeOK, ServicesTypeOK
<1>3. \A status \in {"PENDING", "REMOVED"} : EmptyRow(status).status # "RUNNING"
  BY DEF EmptyRow
<1>4. CASE Next
  BY <1>1, <1>2, <1>3, <1>4, RowChanges DEF Final
<1> QED
  BY <1>1, <1>4 DEF vars, serviceVars

-----------------------------------------------------------------------------
Status == [s \in Submissions |-> rows[s].status]

(* A step that only ends evaluations, or changes nothing the lifecycle      *)
(* speaks of: NoSilentLoss after the step is the guard of Settle.           *)
LEMMA Settles ==
    ASSUME PlatformInv', UNCHANGED <<rows, unsent, unsaved>>, Owed' \subseteq Owed
    PROVE  Lifecycle!Next
<1> DEFINE done == Owed \ Owed'
<1>1. done \in SUBSET Submissions /\ done \subseteq Owed
  BY DEF Owed
<1>2. \A s \in done : rows[s].status # "PENDING" \/ s \in Lost
  BY DEF PlatformInv, NoSilentLoss, Owed, Queued, Lost
<1>3. Owed' = Owed \ done
  OBVIOUS
<1>4. UNCHANGED <<Status, Lost>>
  BY DEF Status, Lost
<1> HIDE DEF done
<1>5. Lifecycle!Settle(done)
  BY <1>1, <1>2, <1>3, <1>4 DEF Lifecycle!Settle, Status
<1> QED
  BY <1>1, <1>5 DEF Lifecycle!Next

(* A pipeline is owed before and after each of its steps.                   *)
LEMMA EvaluateKeepsOwed ==
    ASSUME TypeOK, NEW r \in Runners, NEW s \in Submissions, Evaluate(r, s)
    PROVE  s \in Owed /\ UNCHANGED <<Owed, unsent>>
<1>1. Active(r, s) /\ \E j \in Job : PipelineEffect(r, s, j)
  BY PipelineStepEffect DEF Evaluate, TypeOK
<1>2. Active(r, s)' /\ UNCHANGED <<queue, confirm, unsent>>
  BY <1>1 DEF PipelineEffect, SetJob, Active, TypeOK, PipelineTypeOK, Evaluate
<1>3. \A q \in Runners, t \in Submissions \ {s} : Active(q, t)' = Active(q, t)
  BY <1>1 DEF PipelineEffect, SetJob, Active, TypeOK, PipelineTypeOK
<1> QED
  BY <1>1, <1>2, <1>3 DEF Owed, Queued

(* The writes of a pipeline: a final status is recorded, or an ERROR update *)
(* is given up, whether or not the row was written.                         *)
LEMMA EvaluateRefines ==
    ASSUME PlatformInv, PlatformInv', NeverRunning,
           NEW r \in Runners, NEW s \in Submissions, Evaluate(r, s)
    PROVE  Lifecycle!Next
<1> USE DEF PlatformInv, TypeOK
<1>o. s \in Owed /\ UNCHANGED <<Owed, unsent>>
  BY EvaluateKeepsOwed
<1>s. \/ UNCHANGED rows
      \/ /\ rows[s].status \in {"PENDING", "DONE", "ERROR"}
         /\ \E final \in Final :
               Status' = [Status EXCEPT ![s] = final]
  <2>1. CASE InTable(s) /\ \E row \in Row :
               row.status \in Final /\ rows' = [rows EXCEPT ![s] = row]
    <3> PICK row \in Row : row.status \in Final /\ rows' = [rows EXCEPT ![s] = row]
      BY <2>1
    <3>1. Status' = [Status EXCEPT ![s] = row.status]
      BY DEF Status, ServicesTypeOK
    <3> QED
      BY <2>1, <3>1 DEF InTable, Live, NeverRunning
  <2> QED
    BY <2>1, PipelineStepEffect DEF Evaluate, PipelineEffect
<1>u. \/ UNCHANGED unsaved
      \/ /\ unsaved' = unsaved \cup {s}
         /\ \/ UNCHANGED rows
            \/ /\ rows[s].status \in {"PENDING", "DONE", "ERROR"}
               /\ Status' = [Status EXCEPT ![s] = "ERROR"]
  <2>1. ASSUME UpdateRejects(r, s)
        PROVE  \/ UNCHANGED unsaved
               \/ job[r][s].result = "aborted" /\ unsaved' = unsaved \cup {s}
    BY <2>1 DEF UpdateRejects
  <2>2. CASE Connect(r, s)
    BY <2>1, <2>2 DEF Connect
  <2>3. CASE UpdateFails(r, s)
    <3>1. ASSUME WriteRow(r, s), job[r][s].result = "aborted"
          PROVE  /\ rows[s].status \in {"PENDING", "DONE", "ERROR"}
                 /\ Status' = [Status EXCEPT ![s] = "ERROR"]
      <4>1. InTable(s) /\ \A t \in Submissions :
               rows'[t].status = IF t = s THEN "ERROR" ELSE rows[t].status
        BY <3>1 DEF WriteRow, DbStatus, ServicesTypeOK
      <4> QED
        BY <4>1 DEF InTable, Live, NeverRunning, Status
    <3> QED
      BY <2>1, <2>3, <3>1 DEF UpdateFails
  <2> QED
    BY <2>2, <2>3 DEF Evaluate, PipelineStep, Download, Extract, LoadConfig,
       DownloadTests, MergeTests, Execute, UploadLogs, UpdateResult, serviceVars
<1>1. CASE UNCHANGED <<rows, unsaved>>
  BY <1>1, <1>o, Settles
<1>2. CASE UNCHANGED unsaved /\ ~UNCHANGED rows
  <2>1. Lost' = Lost
    BY <1>2, <1>o DEF Lost
  <2>2. Lifecycle!Record(s)
    BY <1>2, <1>o, <1>s, <2>1 DEF Lifecycle!Record, Status, Final
  <2> QED
    BY <2>2 DEF Lifecycle!Next
<1>3. CASE ~UNCHANGED unsaved
  <2>1. Lost' = Lost \cup {s}
    BY <1>3, <1>o, <1>u DEF Lost
  <2>2. \/ UNCHANGED Status
        \/ /\ rows[s].status \in {"PENDING", "DONE", "ERROR"}
           /\ Status' = [Status EXCEPT ![s] = "ERROR"]
    BY <1>3, <1>u DEF Status
  <2>3. Lifecycle!Lose(s)
    BY <1>o, <2>1, <2>2 DEF Lifecycle!Lose, Status
  <2> QED
    BY <2>3 DEF Lifecycle!Next
<1> QED
  BY <1>1, <1>2, <1>3

(* The steps of the handlers.                                               *)
LEMMA HandleRefines ==
    ASSUME PlatformInv, PlatformInv', NEW s \in Submissions, Handle(s)
    PROVE  Lifecycle!Next
<1> USE DEF PlatformInv, TypeOK
<1>j. UNCHANGED <<job, unsaved>>
  BY DEF Handle, ApiStep, ConfirmLookup, ConfirmProgress, ConfirmSave,
     ConfirmSaveFails, ConfirmSend, ConfirmSendFails, DeleteSubmission,
     serviceVars
<1>o. \A t \in Submissions \ {s} : t \in Owed' <=> t \in Owed
  <2>1. \A t \in Submissions \ {s} :
           confirm'[t] = confirm[t] /\ queue'[t] = queue[t]
    BY DEF Handle, ApiStep, ConfirmLookup, ConfirmProgress, ConfirmSave,
       ConfirmSaveFails, ConfirmSend, ConfirmSendFails, DeleteSubmission,
       serviceVars, ServicesTypeOK, ApiTypeOK
  <2> QED
    BY <1>j, <2>1 DEF Owed, Queued, Active
<1>t. Owed \subseteq Submissions /\ Owed' \subseteq Submissions
  BY DEF Owed
<1>r. ASSUME NEW status, rows' = [rows EXCEPT ![s] = EmptyRow(status)]
      PROVE  Status' = [Status EXCEPT ![s] = status]
  BY <1>r DEF Status, EmptyRow, ServicesTypeOK
<1>1. CASE ConfirmLookup(s)
  <2>1. Owed' \subseteq Owed
    BY <1>1, <1>j, <1>o, <1>t DEF ConfirmLookup, Owed, Queued, Active, ApiTypeOK,
       serviceVars
  <2> QED
    BY <1>1, <2>1, Settles DEF ConfirmLookup, serviceVars
<1>2. CASE ConfirmSave(s)
  <2>1. Status' = [Status EXCEPT ![s] = "PENDING"] /\ rows[s].status = "NONE"
    BY <1>2, <1>r DEF ConfirmSave, RowComesFirst
  <2>2. s \in Owed' /\ Lost' = Lost
    BY <1>2, <1>j DEF ConfirmSave, Owed, Lost, ApiTypeOK
  <2>3. Owed' = Owed \cup {s}
    BY <1>o, <1>t, <2>2
  <2>4. Lifecycle!Submit(s)
    BY <2>1, <2>2, <2>3 DEF Lifecycle!Submit, Status
  <2> QED
    BY <2>4 DEF Lifecycle!Next
<1>3. CASE ConfirmSaveFails(s)
  <2>1. rows[s].status = "NONE" /\ s \notin Owed /\ s \notin Owed'
    BY <1>3, <1>j DEF ConfirmSaveFails, RowComesFirst, Owed, Queued, Active,
       ApiTypeOK
  <2>2. Owed' = Owed
    BY <1>o, <1>t, <2>1
  <2>3. CASE UNCHANGED <<rows, unsent>>
    BY <1>j, <2>2, <2>3, Settles
  <2>4. CASE /\ rows' = [rows EXCEPT ![s] = EmptyRow("PENDING")]
             /\ unsent' = unsent \cup {s}
    <3>1. Status' = [Status EXCEPT ![s] = "PENDING"]
      BY <1>r, <2>4
    <3>2. Lost' = Lost \cup {s}
      BY <1>j, <2>4 DEF Lost
    <3>3. Lifecycle!Submit(s)
      BY <2>1, <2>2, <3>1, <3>2 DEF Lifecycle!Submit, Status
    <3> QED
      BY <3>3 DEF Lifecycle!Next
  <2> QED
    BY <1>3, <2>3, <2>4 DEF ConfirmSaveFails
<1>4. CASE ConfirmSend(s)
  <2>1. s \in Owed
    BY <1>4 DEF ConfirmSend, Owed
  <2>2. Owed' \subseteq Owed
    BY <1>o, <1>t, <2>1
  <2> QED
    BY <1>4, <2>2, Settles DEF ConfirmSend
<1>5. CASE ConfirmSendFails(s)
  <2>1. s \in Owed /\ UNCHANGED rows
    BY <1>5 DEF ConfirmSendFails, Owed
  <2>2. Owed' \in {Owed, Owed \ {s}}
    BY <1>o, <1>t, <2>1
  <2>3. CASE UNCHANGED unsent
    BY <1>j, <2>1, <2>2, <2>3, Settles
  <2>4. CASE unsent' = unsent \cup {s}
    <3>1. Lost' = Lost \cup {s} /\ Status' = Status
      BY <1>j, <2>1, <2>4 DEF Lost, Status
    <3>2. Lifecycle!Lose(s)
      BY <2>1, <2>2, <3>1 DEF Lifecycle!Lose, Status
    <3> QED
      BY <3>2 DEF Lifecycle!Next
  <2> QED
    BY <1>5, <2>3, <2>4 DEF ConfirmSendFails
<1>6. CASE DeleteSubmission(s)
  <2>1. rows[s].status \notin {"NONE", "REMOVED"}
    BY <1>6 DEF DeleteSubmission, InTable, Live
  <2>2. Status' = [Status EXCEPT ![s] = "REMOVED"]
    BY <1>6, <1>r DEF DeleteSubmission
  <2>3. Owed' = Owed /\ Lost' = Lost
    BY <1>6, <1>j DEF DeleteSubmission, Owed, Lost, Queued, Active
  <2>4. Lifecycle!Remove(s)
    BY <2>1, <2>2, <2>3 DEF Lifecycle!Remove, Status
  <2> QED
    BY <2>4 DEF Lifecycle!Next
<1> QED
  BY <1>1, <1>2, <1>3, <1>4, <1>5, <1>6 DEF Handle, ApiStep, ConfirmProgress

(* Everything else only moves messages, or ends or starts pipelines.        *)
LEMMA OthersRefine ==
    ASSUME PlatformInv, PlatformInv',
           \/ \E s \in Submissions : TimeOut(s)
           \/ \E r \in Runners, s \in Submissions : Acknowledge(r, s)
           \/ \E r \in Runners : Operate(r)
    PROVE  Lifecycle!Next
<1> USE DEF PlatformInv, TypeOK
<1>1. UNCHANGED <<rows, unsent, unsaved, confirm>>
  BY DEF TimeOut, Expire, Acknowledge, DeleteMessage, Operate, RunnerStep,
     RunnerProgress, Receive, PollEnds, BatchDone, Restart, Sigterm, Exit,
     Crash, ClosePool, Halt, serviceVars
<1>2. \A t \in Submissions : Queued(t)' => Queued(t)
  BY DEF TimeOut, Expire, Acknowledge, DeleteMessage, Operate, RunnerStep,
     RunnerProgress, Receive, PollEnds, BatchDone, Restart, Sigterm, Exit,
     Crash, ClosePool, Halt, serviceVars, Queued, ServicesTypeOK, Visible
<1>3. \A q \in Runners, t \in Submissions : Active(q, t)' => Active(q, t) \/ Queued(t)
  <2>1. CASE \E r \in Runners, batch \in SUBSET Visible : Receive(r, batch)
    BY <2>1 DEF Receive, Visible, Active, Queued, PipelineTypeOK
  <2>2. ASSUME NEW r \in Runners, NEW s \in Submissions, Acknowledge(r, s)
        PROVE  \A q \in Runners, t \in Submissions : Active(q, t)' => Active(q, t)
    BY <2>2 DEF Acknowledge, DeleteMessage, SetJob, Active, IdleJob, Before,
       JobAt, PipelineTypeOK
  <2>3. ASSUME NEW r \in Runners, Halt(r)
        PROVE  \A q \in Runners, t \in Submissions : Active(q, t)' => Active(q, t)
    BY <2>3 DEF Halt, Active, IdleJob, Before, JobAt, PipelineTypeOK
  <2>4. CASE UNCHANGED job
    BY <2>4 DEF Active
  <2> QED
    BY <2>1, <2>2, <2>3, <2>4 DEF TimeOut, Expire, Operate, RunnerStep,
       RunnerProgress, PollEnds, BatchDone, Restart, Sigterm, Exit, Crash,
       ClosePool
<1>4. Owed' \subseteq Owed
  BY <1>1, <1>2, <1>3 DEF Owed
<1> QED
  BY <1>1, <1>4, Settles

(* The platform implements its abstract specification: whatever fails,      *)
(* crashes or is repeated, a submission is owed an evaluation until its row *)
(* is final, or one of the two failures the code lets pass took it.         *)
THEOREM PlatformKeepsPromise == Spec => KeepsPromise
<1>1. Init => Lifecycle!Init /\ NeverRunning
  <2> SUFFICES ASSUME Init PROVE Lifecycle!Init /\ NeverRunning
    OBVIOUS
  <2> USE DEF Init, ServicesInit, ApiInit, PipelineInit, EmptyRow
  <2>1. NeverRunning /\ Status = [s \in Submissions |-> "NONE"]
    BY DEF NeverRunning, Status
  <2>2. Owed = {} /\ Lost = {}
    BY DEF Owed, Lost, Queued, Active, IdleJob, Before, JobAt
  <2> QED
    BY <2>1, <2>2 DEF Lifecycle!Init, Status
<1>2. PlatformInv /\ NeverRunning /\ [Next]_vars => NeverRunning'
  BY NeverRunningStep
<1>3. PlatformInv /\ PlatformInv' /\ NeverRunning /\ [Next]_vars
         => [Lifecycle!Next]_(Lifecycle!vars)
  <2>1. ASSUME PlatformInv, PlatformInv', NeverRunning, Next PROVE Lifecycle!Next
    BY <2>1, HandleRefines, EvaluateRefines, OthersRefine DEF Next
  <2>2. ASSUME UNCHANGED vars PROVE UNCHANGED Lifecycle!vars
    BY <2>2 DEF vars, serviceVars, Lifecycle!vars, Owed, Lost, Queued, Active
  <2> QED
    BY <2>1, <2>2
<1> QED
  BY <1>1, <1>2, <1>3, Invariance, PTL DEF Spec, KeepsPromise, Lifecycle!Spec
=============================================================================
