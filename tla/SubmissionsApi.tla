--------------------------- MODULE SubmissionsApi ---------------------------
(***************************************************************************)
(* The API side: SubmissionsService.confirmUpload and deleteSubmission.     *)
(* Each database access and the send to SQS is a step of its own, because   *)
(* the handler awaits them and other requests and the runners run between.  *)
(* Request s names the row (the uuid) it inserts if it gets that far.       *)
(***************************************************************************)
EXTENDS Services

VARIABLE confirm  \* where each confirm-upload request is

ConfirmStates == {"ready", "save", "send", "ok", "existing", "failed"}

ApiTypeOK == confirm \in [Submissions -> ConfirmStates]

ApiInit == confirm = [s \in Submissions |-> "ready"]

(* The rows the idempotency check finds for the request's fileKey.          *)
SameUpload(s) == {t \in Submissions : InTable(t) /\ KeyOf[t] = KeyOf[s]}

(* Mutant: the message is sent before the row is saved.                     *)
ConfirmLookupSendsFirst(s) ==
    /\ confirm[s] = "ready"
    /\ confirm' = [confirm EXCEPT
            ![s] = IF SameUpload(s) # {} THEN "existing" ELSE "send"]
    /\ UNCHANGED serviceVars

(* The validations and the idempotency findOne: answer with the row that    *)
(* exists, or go on to insert one.                                          *)
ConfirmLookup(s) ==
    /\ confirm[s] = "ready"
    /\ confirm' = [confirm EXCEPT
            ![s] = IF SameUpload(s) # {} THEN "existing" ELSE "save"]
    /\ UNCHANGED serviceVars

ConfirmSave(s) ==
    /\ confirm[s] = "save"
    /\ rows' = [rows EXCEPT ![s] = EmptyRow("PENDING")]
    /\ confirm' = [confirm EXCEPT ![s] = "send"]
    /\ UNCHANGED <<queue, logs, unsent, unsaved>>

(* save rejects: the row is not there, or the COMMIT went through and only  *)
(* its answer was lost.  Either way the handler stops before the send.      *)
ConfirmSaveFails(s) ==
    /\ "insert" \in Faults
    /\ confirm[s] = "save"
    /\ confirm' = [confirm EXCEPT ![s] = "failed"]
    /\ \/ UNCHANGED <<rows, unsent>>
       \/ /\ rows' = [rows EXCEPT ![s] = EmptyRow("PENDING")]
          /\ unsent' = unsent \cup {s}
    /\ UNCHANGED <<queue, logs, unsaved>>

ConfirmSend(s) ==
    /\ confirm[s] = "send"
    /\ queue' = [queue EXCEPT ![s] = "visible"]
    /\ confirm' = [confirm EXCEPT ![s] = "ok"]
    /\ UNCHANGED <<rows, logs, unsent, unsaved>>

(* The send rejects, or the API process dies before it: the row stays as it *)
(* is, and the message may or may not have reached the queue.               *)
ConfirmSendFails(s) ==
    /\ "send" \in Faults
    /\ confirm[s] = "send"
    /\ confirm' = [confirm EXCEPT ![s] = "failed"]
    /\ \/ /\ queue' = [queue EXCEPT ![s] = "visible"]
          /\ UNCHANGED unsent
       \/ /\ unsent' = unsent \cup {s}
          /\ UNCHANGED queue
    /\ UNCHANGED <<rows, logs, unsaved>>

(* DELETE of a submission by its owner; nothing is taken off the queue.     *)
DeleteSubmission(s) ==
    /\ "remove" \in Faults
    /\ InTable(s)
    /\ rows' = [rows EXCEPT ![s] = EmptyRow("REMOVED")]
    /\ UNCHANGED <<queue, logs, unsent, unsaved, confirm>>

(* Once past the lookup the handler runs on without its client.             *)
ConfirmProgress(s) ==
    \/ ConfirmSave(s)
    \/ ConfirmSaveFails(s)
    \/ ConfirmSend(s)
    \/ ConfirmSendFails(s)

ApiStep(s) ==
    \/ ConfirmLookup(s)
    \/ ConfirmProgress(s)
    \/ DeleteSubmission(s)
=============================================================================
