--------------------------- MODULE PlatformProofs ---------------------------
(***************************************************************************)
(* Theorems about Platform, for every set of submissions and runners, every *)
(* batch size and every choice of faults.                                   *)
(***************************************************************************)
EXTENDS Platform, TLAPS

(* The types of the records the variables hold.                             *)
LEMMA RecordTypes ==
    /\ \A st \in Statuses : EmptyRow(st) \in Row
    /\ \A pc \in Pc, merged, log \in BOOLEAN, result \in Reports :
          JobAt(pc, merged, result, log) \in Job
    /\ \A pc \in Pc : Before(pc) \in Job
    /\ \A result \in Reports : Verdict(result) \in Job
BY DEF EmptyRow, Row, Reports, Verdicts, JobAt, Before, Verdict, Job, Pc, Steps

(* Where the pipeline of a constructed job is.                              *)
LEMMA JobCounter ==
    /\ \A pc, merged, result, log : JobAt(pc, merged, result, log).pc = pc
    /\ \A pc : Before(pc).pc = pc
    /\ \A result : Verdict(result).pc = "upload"
BY DEF JobAt, Before, Verdict

(* Before any request and any message, the invariant holds.                 *)
THEOREM InitInv == Init => PlatformInv
<1> SUFFICES ASSUME Init PROVE PlatformInv
  OBVIOUS
<1> USE DEF Init, ServicesInit, ApiInit, PipelineInit, RunnerInit
<1>1. ServicesTypeOK
  BY RecordTypes DEF ServicesTypeOK, Statuses, Live, MessageStates, Reports
<1>2. ApiTypeOK /\ RunnerTypeOK
  BY ServicesAssumption
     DEF ApiTypeOK, ConfirmStates, RunnerTypeOK, LifeStates, PollStates
<1>3. PipelineTypeOK
  BY DEF PipelineTypeOK, IdleJob, Before, JobAt, Job, Pc, Steps, Reports, Verdicts
<1>4. NoSilentLoss /\ DeleteAfterWrite /\ RowComesFirst
  BY DEF NoSilentLoss, DeleteAfterWrite, RowComesFirst, EmptyRow, At, Active,
         IdleJob, Before, JobAt
<1> QED
  BY <1>1, <1>2, <1>3, <1>4 DEF PlatformInv, TypeOK

(* A step of a confirm or delete request.                                   *)
LEMMA HandleInv ==
    ASSUME PlatformInv, NEW s \in Submissions, Handle(s)
    PROVE  PlatformInv'
<1> USE DEF PlatformInv, TypeOK, Handle
<1>1. ServicesTypeOK'
  BY RecordTypes DEF ServicesTypeOK, ApiStep, ConfirmLookup, ConfirmProgress,
     ConfirmSave, ConfirmSaveFails, ConfirmSend, ConfirmSendFails,
     DeleteSubmission, serviceVars, MessageStates, Statuses, Live
<1>2. ApiTypeOK'
  BY DEF ApiTypeOK, ApiStep, ConfirmLookup, ConfirmProgress, ConfirmSave,
     ConfirmSaveFails, ConfirmSend, ConfirmSendFails, DeleteSubmission,
     ConfirmStates
<1>3. PipelineTypeOK' /\ RunnerTypeOK'
  BY DEF PipelineTypeOK, RunnerTypeOK, runnerVars
<1>4. NoSilentLoss' /\ DeleteAfterWrite' /\ RowComesFirst'
  <2> USE DEF ServicesTypeOK, ApiTypeOK, NoSilentLoss, DeleteAfterWrite,
              RowComesFirst, At, Active, Queued, Lost, EmptyRow, serviceVars
  <2>1. CASE ConfirmLookup(s)
    BY <2>1 DEF ConfirmLookup
  <2>2. CASE ConfirmSave(s)
    BY <2>2 DEF ConfirmSave
  <2>3. CASE ConfirmSaveFails(s)
    BY <2>3 DEF ConfirmSaveFails
  <2>4. CASE ConfirmSend(s)
    BY <2>4 DEF ConfirmSend
  <2>5. CASE ConfirmSendFails(s)
    BY <2>5 DEF ConfirmSendFails
  <2>6. CASE DeleteSubmission(s)
    BY <2>6 DEF DeleteSubmission, InTable, Live
  <2> QED
    BY <2>1, <2>2, <2>3, <2>4, <2>5, <2>6 DEF ApiStep, ConfirmProgress
<1> QED
  BY <1>1, <1>2, <1>3, <1>4

(* What every step of a pipeline comes to: the pipeline stays active, and   *)
(* arrives at "delete" only with a final row or an entry in unsaved; a row  *)
(* that is there may get a final status; nothing else of weight changes.    *)
PipelineEffect(r, s, j) ==
    /\ SetJob(r, s, j)
    /\ j.pc # "idle"
    /\ j.pc = "delete" => rows'[s].status \in Final \/ s \in unsaved'
    /\ \/ UNCHANGED rows
       \/ /\ InTable(s)
          /\ \E row \in Row :
                row.status \in Final /\ rows' = [rows EXCEPT ![s] = row]
    /\ \E result \in Reports : logs' = [logs EXCEPT ![s] = result]
    /\ unsaved' \in {unsaved, unsaved \cup {s}}
    /\ UNCHANGED <<queue, unsent, pool>>

(* Every disjunct of PipelineStep has that effect.                          *)
LEMMA PipelineStepEffect ==
    ASSUME ServicesTypeOK, PipelineTypeOK,
           NEW r \in Runners, NEW s \in Submissions, PipelineStep(r, s)
    PROVE  Active(r, s) /\ \E j \in Job : PipelineEffect(r, s, j)
<1> USE DEF ServicesTypeOK, PipelineTypeOK, PipelineEffect
<1>j. job[r][s] \in Job /\ job[r][s].result \in Reports
                        /\ job[r][s].log \in BOOLEAN
  BY DEF Job
<1> USE RecordTypes, JobCounter DEF At, Active, Pc, Steps
<1>1. CASE \/ Download(r, s) \/ Extract(r, s) \/ LoadConfig(r, s)
           \/ DownloadTests(r, s) \/ MergeTests(r, s)
  <2>1. \/ \E pc \in Steps \ {"delete"} : SetJob(r, s, Before(pc))
        \/ SetJob(r, s, Verdict("aborted"))
        \/ SetJob(r, s, JobAt("execute", TRUE, "none", FALSE))
    BY <1>1 DEF Download, Extract, LoadConfig, DownloadTests, MergeTests,
       StepThrows, Stalls, Abort, GoTo
  <2>2. \A pc \in Steps \ {"delete"} :
           Before(pc) \in Job /\ Before(pc).pc \notin {"idle", "delete"}
    OBVIOUS
  <2>3. /\ Verdict("aborted") \in Job
        /\ JobAt("execute", TRUE, "none", FALSE) \in Job
    BY DEF Reports
  <2>4. /\ Verdict("aborted").pc \notin {"idle", "delete"}
        /\ JobAt("execute", TRUE, "none", FALSE).pc \notin {"idle", "delete"}
    OBVIOUS
  <2>5. \E j \in Job : SetJob(r, s, j) /\ j.pc \notin {"idle", "delete"}
    <3> HIDE DEF Steps, Pc
    <3> QED
      BY <2>1, <2>2, <2>3, <2>4
  <2>6. Active(r, s) /\ UNCHANGED <<serviceVars, pool>>
    BY <1>1 DEF Download, Extract, LoadConfig, DownloadTests, MergeTests
  <2> QED
    <3>1. logs' = [logs EXCEPT ![s] = logs[s]] /\ logs[s] \in Reports
      BY <2>6 DEF serviceVars
    <3> QED
      BY <2>5, <2>6, <3>1 DEF serviceVars
<1>3. CASE Execute(r, s)
  <2> PICK verdict \in Verdicts : SetJob(r, s, Verdict(verdict))
    BY <1>3 DEF Execute, Verdicts
  <2>1. PipelineEffect(r, s, Verdict(verdict)) /\ Verdict(verdict) \in Job
    BY <1>3 DEF Execute, serviceVars, Reports
  <2> QED
    BY <1>3, <2>1 DEF Execute
<1>4. CASE UploadLogs(r, s)
  <2> PICK log \in BOOLEAN :
           SetJob(r, s, JobAt("connect", FALSE, job[r][s].result, log))
    BY <1>4 DEF UploadLogs
  <2> DEFINE j == JobAt("connect", FALSE, job[r][s].result, log)
  <2>1. \E result \in Reports : logs' = [logs EXCEPT ![s] = result]
    <3>1. logs = [logs EXCEPT ![s] = logs[s]] /\ logs[s] \in Reports
      OBVIOUS
    <3>2. \/ logs' = [logs EXCEPT ![s] = job[r][s].result]
          \/ logs' = logs
      BY <1>4 DEF UploadLogs
    <3> QED
      BY <1>j, <3>1, <3>2
  <2>2. PipelineEffect(r, s, j) /\ j \in Job
    BY <1>4, <1>j, <2>1 DEF UploadLogs
  <2> QED
    BY <1>4, <2>2 DEF UploadLogs
<1>r. ASSUME UpdateRejects(r, s)
      PROVE  \E j \in Job : /\ SetJob(r, s, j) /\ j.pc # "idle"
                            /\ j.pc = "delete" => s \in unsaved'
                            /\ unsaved' \in {unsaved, unsaved \cup {s}}
  BY <1>r DEF UpdateRejects, Abort, Return, GoTo, Reports
<1>5. CASE Connect(r, s)
  <2>1. CASE UpdateRejects(r, s)
    BY <1>5, <2>1, <1>r DEF Connect
  <2>2. CASE SetJob(r, s, JobAt("update", FALSE, job[r][s].result, job[r][s].log))
             /\ UNCHANGED unsaved
    <3> DEFINE j == JobAt("update", FALSE, job[r][s].result, job[r][s].log)
    <3>1. j \in Job
      BY <1>j, "update" \in Pc, RecordTypes, Zenon
    <3>3. j.pc = "update"
      BY DEF JobAt
    <3>2. PipelineEffect(r, s, j)
      BY <1>5, <2>2, <3>3 DEF Connect
    <3> QED
      BY <1>5, <3>1, <3>2 DEF Connect
  <2> QED
    BY <1>5, <2>1, <2>2 DEF Connect
<1>w. ASSUME WriteRow(r, s)
      PROVE  /\ rows'[s].status \in Final /\ InTable(s)
             /\ \E row \in Row :
                   row.status \in Final /\ rows' = [rows EXCEPT ![s] = row]
  <2> DEFINE row == [status |-> DbStatus(job[r][s].result),
                     report |-> job[r][s].result, log |-> job[r][s].log]
  <2>1. row \in Row /\ row.status \in Final
    BY <1>j DEF Row, DbStatus, Final, Statuses, Live
  <2> QED
    BY <1>w, <2>1 DEF WriteRow
<1>6. CASE UpdateResult(r, s)
  BY <1>6, <1>w DEF UpdateResult, Return, GoTo, Reports
<1>7. CASE UpdateFails(r, s)
  BY <1>7, <1>w, <1>r DEF UpdateFails
<1> QED
  BY <1>1, <1>3, <1>4, <1>5, <1>6, <1>7 DEF PipelineStep

(* Every step is one of a pipeline that works: a stalled one takes none.    *)
LEMMA StepWorks ==
    ASSUME NEW r \in Runners, NEW s \in Submissions, PipelineStep(r, s)
    PROVE  Works(r, s)
BY DEF Works, At, PipelineStep, Download, Extract, LoadConfig, DownloadTests, MergeTests,
   Execute, UploadLogs, Connect, UpdateResult, UpdateFails

(* A step of a pipeline: the rows other than its own keep their claim, and  *)
(* its own leaves PENDING, or stays with its message in the queue.          *)
LEMMA EvaluateInv ==
    ASSUME PlatformInv, NEW r \in Runners, NEW s \in Submissions,
           Evaluate(r, s)
    PROVE  PlatformInv'
<1> USE DEF PlatformInv, TypeOK, Evaluate
<1>a. Active(r, s)
  BY PipelineStepEffect
<1> PICK j \in Job : PipelineEffect(r, s, j)
  BY PipelineStepEffect
<1> USE DEF PipelineEffect, SetJob, ServicesTypeOK, PipelineTypeOK
<1>1. ServicesTypeOK' /\ PipelineTypeOK'
  OBVIOUS
<1>2. ApiTypeOK' /\ RunnerTypeOK'
  BY DEF ApiTypeOK, RunnerTypeOK, runnerVars
<1>r. \A t \in Submissions :
         (t # s \/ rows'[t].status \notin Final) => rows'[t] = rows[t]
  <2> HIDE DEF SetJob, PipelineTypeOK, Evaluate, PlatformInv, TypeOK
  <2>1. CASE UNCHANGED rows
    BY <2>1
  <2>2. CASE \E row \in Row :
                row.status \in Final /\ rows' = [rows EXCEPT ![s] = row]
    BY <2>2
  <2> QED
    BY <2>1, <2>2
<1>j. \A q \in Runners, t \in Submissions :
         job'[q][t] = IF q = r /\ t = s THEN j ELSE job[q][t]
  OBVIOUS
<1>u. queue' = queue /\ confirm' = confirm /\ Lost \subseteq Lost'
                     /\ unsaved \subseteq unsaved'
  BY DEF Lost
<1>e. j.pc # "idle" /\ (j.pc = "delete" => rows'[s].status \in Final
                                             \/ s \in unsaved')
  OBVIOUS
<1>l. \A t \in Submissions \ {s} : logs'[t] = logs[t]
  OBVIOUS
<1>n. rows[s].status # "NONE"
  BY <1>a DEF RowComesFirst
<1> HIDE DEF PipelineEffect, SetJob, Evaluate, ServicesTypeOK, PipelineTypeOK
<1>3. NoSilentLoss'
  BY <1>r, <1>u DEF NoSilentLoss, Queued, Final
<1>4. DeleteAfterWrite'
  BY <1>r, <1>j, <1>u, <1>e DEF DeleteAfterWrite, At, Final
<1>5. RowComesFirst'
  BY <1>r, <1>j, <1>u, <1>n, <1>l DEF RowComesFirst, Active, Final
<1> QED
  BY <1>1, <1>2, <1>3, <1>4, <1>5

(* The delete of a message: DeleteAfterWrite is what makes it harmless.     *)
LEMMA AcknowledgeInv ==
    ASSUME PlatformInv, NEW r \in Runners, NEW s \in Submissions,
           Acknowledge(r, s)
    PROVE  PlatformInv'
<1> USE DEF PlatformInv, TypeOK, Acknowledge, DeleteMessage, SetJob, ServicesTypeOK,
            PipelineTypeOK
<1>j. IdleJob \in Job
  BY RecordTypes DEF IdleJob, Pc
<1>1. ServicesTypeOK' /\ PipelineTypeOK'
  BY <1>j DEF MessageStates
<1>2. ApiTypeOK' /\ RunnerTypeOK'
  BY DEF ApiTypeOK, RunnerTypeOK, runnerVars
<1>3. NoSilentLoss' /\ DeleteAfterWrite' /\ RowComesFirst'
  BY DEF NoSilentLoss, DeleteAfterWrite, RowComesFirst, Queued, Lost, IdleJob,
     Before, JobAt, At, Active
<1> QED
  BY <1>1, <1>2, <1>3

(* A visibility timeout moves a message within the queue.                   *)
LEMMA TimeOutInv ==
    ASSUME PlatformInv, NEW s \in Submissions, TimeOut(s)
    PROVE  PlatformInv'
<1> USE DEF PlatformInv, TypeOK, TimeOut, Expire, ServicesTypeOK
<1>1. ServicesTypeOK'
  BY DEF MessageStates
<1>2. ApiTypeOK' /\ PipelineTypeOK' /\ RunnerTypeOK'
  BY DEF ApiTypeOK, PipelineTypeOK, RunnerTypeOK, runnerVars
<1>3. NoSilentLoss' /\ DeleteAfterWrite' /\ RowComesFirst'
  BY DEF NoSilentLoss, DeleteAfterWrite, RowComesFirst, Queued, Lost, At, Active
<1> QED
  BY <1>1, <1>2, <1>3

(* A runner that goes down takes its pipelines with it, never a message.    *)
LEMMA HaltInv ==
    ASSUME PlatformInv, NEW r \in Runners, Halt(r), UNCHANGED confirm,
           stops' \in 0 .. MaxStops
    PROVE  PlatformInv'
<1> USE DEF PlatformInv, TypeOK, Halt, serviceVars
<1>j. IdleJob \in Job
  BY RecordTypes DEF IdleJob, Pc
<1>1. ServicesTypeOK' /\ ApiTypeOK'
  BY DEF ServicesTypeOK, ApiTypeOK
<1>2. PipelineTypeOK' /\ RunnerTypeOK'
  BY <1>j DEF PipelineTypeOK, RunnerTypeOK, LifeStates, PollStates
<1>3. NoSilentLoss' /\ DeleteAfterWrite' /\ RowComesFirst'
  BY DEF PipelineTypeOK, NoSilentLoss, DeleteAfterWrite, RowComesFirst, Queued,
     Lost, IdleJob, Before, JobAt, At, Active
<1> QED
  BY <1>1, <1>2, <1>3

(* A received batch starts pipelines; its messages stay in the queue.       *)
LEMMA ReceiveInv ==
    ASSUME PlatformInv, NEW r \in Runners, NEW batch \in SUBSET Visible,
           Receive(r, batch), UNCHANGED confirm
    PROVE  PlatformInv'
<1> USE DEF PlatformInv, TypeOK, Receive, Visible, ServicesTypeOK,
            PipelineTypeOK
<1>j. NewJob \in Job
  BY RecordTypes DEF NewJob, Pc, Steps
<1>1. ServicesTypeOK' /\ PipelineTypeOK'
  BY <1>j DEF MessageStates
<1>2. ApiTypeOK' /\ RunnerTypeOK'
  BY DEF ApiTypeOK, RunnerTypeOK, PollStates
<1>3. NoSilentLoss' /\ DeleteAfterWrite' /\ RowComesFirst'
  BY DEF NoSilentLoss, DeleteAfterWrite, RowComesFirst, Queued, Lost, NewJob,
     Before, JobAt, At, Active
<1> QED
  BY <1>1, <1>2, <1>3

(* A step of the polling loop or of the life of a runner.                   *)
LEMMA OperateInv ==
    ASSUME PlatformInv, NEW r \in Runners, Operate(r)
    PROVE  PlatformInv'
<1> USE DEF Operate
<1>s. stops \in 0 .. MaxStops /\ MaxStops \in Nat
  BY ServicesAssumption DEF PlatformInv, TypeOK, RunnerTypeOK
<1>1. CASE \E batch \in SUBSET Visible : Receive(r, batch)
  BY <1>1, ReceiveInv
<1>2. ASSUME UNCHANGED <<serviceVars, job>>, PipelineTypeOK', RunnerTypeOK',
             UNCHANGED confirm
      PROVE  PlatformInv'
  BY <1>2 DEF PlatformInv, TypeOK, ServicesTypeOK, ApiTypeOK, NoSilentLoss,
     DeleteAfterWrite, RowComesFirst, Queued, Lost, At, Active, serviceVars
<1>3. CASE \/ PollEnds(r) \/ BatchDone(r) \/ Restart(r) \/ Sigterm(r)
           \/ (ClosePool(r) /\ ~Halt(r))
  <2>1. PipelineTypeOK' /\ RunnerTypeOK'
    <3> USE DEF PlatformInv, TypeOK, PipelineTypeOK, RunnerTypeOK, LifeStates,
                PollStates
    <3>1. CASE PollEnds(r) \/ BatchDone(r) \/ Restart(r)
      BY <3>1 DEF PollEnds, BatchDone, Restart
    <3>2. CASE Sigterm(r)
      BY <3>2, <1>s DEF Sigterm, MayStop
    <3>3. CASE (ClosePool(r) /\ ~Halt(r))
      BY <3>3 DEF ClosePool
    <3> QED
      BY <1>3, <3>1, <3>2, <3>3
  <2>2. UNCHANGED <<serviceVars, job>>
    BY <1>3 DEF PollEnds, BatchDone, Restart, Sigterm, ClosePool
  <2> QED
    BY <1>2, <2>1, <2>2
<1>4. CASE Exit(r) \/ Crash(r) \/ (ClosePool(r) /\ Halt(r))
  <2>1. Halt(r) /\ stops' \in 0 .. MaxStops
    BY <1>4, <1>s DEF Exit, Crash, ClosePool, MayStop
  <2> QED
    BY <2>1, HaltInv
<1> QED
  <2>1. \/ \E batch \in SUBSET Visible : Receive(r, batch)
        \/ PollEnds(r) \/ BatchDone(r) \/ Restart(r) \/ Sigterm(r)
        \/ Exit(r) \/ Crash(r) \/ ClosePool(r)
    BY DEF RunnerStep, RunnerProgress
  <2>2. CASE Halt(r)
    BY <2>1, <2>2, <1>1, <1>3, <1>4
  <2>3. CASE ~Halt(r)
    BY <2>1, <2>3, <1>1, <1>3, <1>4
  <2> QED
    BY <2>2, <2>3

(* PlatformInv is inductive.                                                *)
THEOREM StepInv == PlatformInv /\ [Next]_vars => PlatformInv'
<1>1. ASSUME PlatformInv, Next PROVE PlatformInv'
  BY <1>1, HandleInv, TimeOutInv, EvaluateInv, AcknowledgeInv, OperateInv
     DEF Next
<1>2. ASSUME PlatformInv, UNCHANGED vars PROVE PlatformInv'
  BY <1>2 DEF vars, serviceVars, runnerVars, PlatformInv, TypeOK,
     ServicesTypeOK, ApiTypeOK, PipelineTypeOK, RunnerTypeOK, NoSilentLoss,
     DeleteAfterWrite, RowComesFirst, Queued, Lost, At, Active
<1> QED
  BY <1>1, <1>2

(* PlatformInv holds in every reachable state of the platform.              *)
THEOREM Invariance == Spec => []PlatformInv
BY InitInv, StepInv, PTL DEF Spec

(* The variables of the composed platform keep their types.                 *)
THEOREM TypeCorrect == Spec => []TypeOK
<1>1. PlatformInv => TypeOK
  BY DEF PlatformInv
<1> QED
  BY <1>1, Invariance, PTL

(* No submission is lost silently: a row waits as PENDING only while its    *)
(* message is in the queue or about to be sent, or after a failed confirm   *)
(* or a swallowed ERROR update.                                             *)
THEOREM NothingLostSilently == Spec => []NoSilentLoss
<1>1. PlatformInv => NoSilentLoss
  BY DEF PlatformInv
<1> QED
  BY <1>1, Invariance, PTL

(* A runner deletes a message only after the row left PENDING, or after it  *)
(* gave up writing it.                                                      *)
THEOREM MessagesOutliveTheirWork == Spec => []DeleteAfterWrite
<1>1. PlatformInv => DeleteAfterWrite
  BY DEF PlatformInv
<1> QED
  BY <1>1, Invariance, PTL

(* Nothing speaks of a row before it is inserted: no message, no pipeline,  *)
(* no log, and no request about to send.                                    *)
THEOREM RowsComeFirst == Spec => []RowComesFirst
<1>1. PlatformInv => RowComesFirst
  BY DEF PlatformInv
<1> QED
  BY <1>1, Invariance, PTL

-----------------------------------------------------------------------------
(* Mutual exclusion by visibility timeout: a message that is being worked   *)
(* on is in flight, so nobody else can receive it.                          *)
HeldInFlight ==
    \A r \in Runners, s \in Submissions :
        Works(r, s) => queue[s] = "inflight"

(* A request sends its message once.                                        *)
SentOnce ==
    \A s \in Submissions :
        confirm[s] \in {"ready", "save", "send"} => queue[s] = "unsent"

ExclusiveInv == TypeOK /\ SentOnce /\ HeldInFlight /\ OneAttemptAtATime

(* ExclusiveInv is inductive relative to PlatformInv, unless an evaluation  *)
(* can outlive the visibility timeout of its message.                       *)
LEMMA ExclusiveStep ==
    ASSUME "expiry" \notin Faults, PlatformInv, ExclusiveInv, [Next]_vars
    PROVE  ExclusiveInv'
<1>t. TypeOK'
  BY StepInv DEF PlatformInv
<1> USE DEF ExclusiveInv, SentOnce, HeldInFlight, OneAttemptAtATime
<1>1. ASSUME NEW s \in Submissions, Handle(s)
      PROVE  ExclusiveInv'
  <2> USE DEF ApiStep, ConfirmLookup, ConfirmProgress, ConfirmSave,
              ConfirmSaveFails, ConfirmSend, ConfirmSendFails, DeleteSubmission,
              serviceVars, TypeOK, ServicesTypeOK, ApiTypeOK
  <2>1. UNCHANGED job
    BY <1>1 DEF Handle
  <2>2. \A t \in Submissions :
           queue[t] = "inflight" => queue'[t] = "inflight"
    BY <1>1 DEF Handle
  <2>3. SentOnce'
    BY <1>1 DEF Handle
  <2> HIDE DEF ApiStep
  <2> QED
    BY <1>t, <2>1, <2>2, <2>3 DEF Works
<1>2. ASSUME NEW s \in Submissions, TimeOut(s)
      PROVE  ExclusiveInv'
  <2>1. UNCHANGED <<job, confirm>> /\ \A r \in Runners : ~Works(r, s)
    BY <1>2 DEF TimeOut, Expire
  <2>2. \A t \in Submissions \ {s} : queue'[t] = queue[t]
    BY <1>2 DEF TimeOut, Expire, TypeOK, ServicesTypeOK
  <2>3. queue[s] = "inflight"
    BY <1>2 DEF TimeOut, Expire
  <2> QED
    BY <1>t, <2>1, <2>2, <2>3 DEF Works
<1>3. ASSUME NEW r \in Runners, NEW s \in Submissions, Evaluate(r, s)
      PROVE  ExclusiveInv'
  <2>1. Works(r, s) /\ \E j \in Job : PipelineEffect(r, s, j)
    BY <1>3, PipelineStepEffect, StepWorks DEF Evaluate, TypeOK
  <2>2. \A q \in Runners, t \in Submissions : Works(q, t)' => Works(q, t)
    BY <2>1 DEF PipelineEffect, SetJob, Works, TypeOK, PipelineTypeOK
  <2>3. UNCHANGED <<queue, confirm>>
    BY <1>3, <2>1 DEF PipelineEffect, Evaluate
  <2> QED
    BY <1>t, <2>2, <2>3
<1>4. ASSUME NEW r \in Runners, NEW s \in Submissions, Acknowledge(r, s)
      PROVE  ExclusiveInv'
  <2>1. \A q \in Runners, t \in Submissions :
           Works(q, t)' => Works(q, t) /\ ~(q = r /\ t = s)
    BY <1>4 DEF Acknowledge, DeleteMessage, SetJob, Works, IdleJob, Before,
       JobAt, TypeOK, PipelineTypeOK
  <2>2. Works(r, s)
    BY <1>4 DEF Acknowledge, DeleteMessage, At, Works
  <2>3. \A t \in Submissions \ {s} : queue'[t] = queue[t]
    BY <1>4 DEF Acknowledge, DeleteMessage, TypeOK, ServicesTypeOK
  <2>4. \A q \in Runners : ~Works(q, s)'
    BY <2>1, <2>2
  <2>5. UNCHANGED confirm /\ queue[s] = "inflight"
    BY <1>4, <2>2 DEF Acknowledge
  <2> QED
    BY <1>t, <2>1, <2>3, <2>4, <2>5
<1>5. ASSUME NEW r \in Runners, Operate(r)
      PROVE  ExclusiveInv'
  <2>1. CASE \E batch \in SUBSET Visible : Receive(r, batch)
    <3> PICK batch \in SUBSET Visible : Receive(r, batch)
      BY <2>1
    <3>1. \A q \in Runners, t \in Submissions :
             /\ Works(q, t)' => Works(q, t) \/ (q = r /\ t \in batch)
             /\ t \in batch => ~Works(q, t)
             /\ t \in batch => queue'[t] = "inflight"
             /\ t \notin batch => queue'[t] = queue[t]
             /\ t \in batch => queue[t] = "visible"
      BY DEF Receive, Visible, Works, TypeOK, ServicesTypeOK, PipelineTypeOK
    <3> QED
      BY <1>t, <1>5, <3>1 DEF Operate
  <2>2. CASE \/ PollEnds(r) \/ BatchDone(r) \/ Restart(r) \/ Sigterm(r)
             \/ Exit(r) \/ Crash(r) \/ ClosePool(r)
    <3>1. ASSUME NEW q \in Runners, NEW t \in Submissions, Works(q, t)'
          PROVE  Works(q, t)
      <4>1. CASE UNCHANGED job
        BY <3>1, <4>1 DEF Works
      <4>2. CASE Halt(r)
        <5>1. job'[q][t] = job[q][t] \/ job'[q][t] = IdleJob
          BY <4>2 DEF Halt, TypeOK, PipelineTypeOK
        <5> QED
          BY <3>1, <5>1 DEF Works, IdleJob, Before, JobAt
      <4>3. UNCHANGED job \/ Halt(r)
        BY <2>2 DEF PollEnds, BatchDone, Restart, Sigterm, Exit, Crash, ClosePool
      <4> QED
        BY <4>1, <4>2, <4>3
    <3>2. UNCHANGED queue
      BY <2>2 DEF PollEnds, BatchDone, Restart, Sigterm, Exit, Crash, ClosePool,
         Halt, serviceVars
    <3> QED
      BY <1>t, <1>5, <3>1, <3>2 DEF Operate
  <2> QED
    BY <1>5, <2>1, <2>2 DEF Operate, RunnerStep, RunnerProgress
<1>6. CASE UNCHANGED vars
  BY <1>t, <1>6 DEF vars, serviceVars, Works
<1> QED
  BY <1>1, <1>2, <1>3, <1>4, <1>5, <1>6 DEF Next

(* Where no evaluation outlives the visibility timeout, ExclusiveInv holds. *)
LEMMA Exclusiveness ==
    ASSUME "expiry" \notin Faults
    PROVE  Spec => []ExclusiveInv
<1>1. Init => ExclusiveInv
  BY InitInv DEF ExclusiveInv, PlatformInv, SentOnce, HeldInFlight, OneAttemptAtATime,
     Init, ServicesInit, PipelineInit, Works, IdleJob, Before, JobAt
<1>2. PlatformInv /\ ExclusiveInv /\ [Next]_vars => ExclusiveInv'
  BY ExclusiveStep
<1> QED
  BY <1>1, <1>2, Invariance, PTL DEF Spec

(* Where no evaluation outlives the visibility timeout, at most one runner  *)
(* works on a submission at a time.                                         *)
THEOREM MutualExclusion ==
    ASSUME "expiry" \notin Faults
    PROVE  Spec => []OneAttemptAtATime
<1>1. ExclusiveInv => OneAttemptAtATime
  BY DEF ExclusiveInv
<1> QED
  BY <1>1, Exclusiveness, PTL
=============================================================================
