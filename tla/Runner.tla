------------------------------- MODULE Runner -------------------------------
(***************************************************************************)
(* A runner task: the polling loop of SqsConsumerService, the start and     *)
(* shutdown sequence of main.ts, and around it what SQS and the container   *)
(* platform do (visibility timeout, crashes, restarts).                     *)
(***************************************************************************)
EXTENDS Pipeline

VARIABLES
    life,   \* life[r]: the process; "stopping" from the signal to its exit
    poll,   \* poll[r]: where the polling loop of r is
    stops   \* bound: crashes and signals so far

runnerVars == <<life, poll, stops>>

LifeStates == {"running", "stopping", "down"}
PollStates == {"receive", "batch", "ended"}

RunnerTypeOK ==
    /\ life \in [Runners -> LifeStates]
    /\ poll \in [Runners -> PollStates]
    /\ stops \in 0 .. MaxStops

RunnerInit ==
    /\ life = [r \in Runners |-> "running"]
    /\ poll = [r \in Runners |-> "receive"]
    /\ stops = 0

(* Mutant: messages are received with a visibility timeout of 0.            *)
VisibleAtOnce == {s \in Submissions : Queued(s)}

Visible == {s \in Submissions : queue[s] = "visible"}

(* Mutant: messages are acknowledged when they are received.                *)
ReceiveAndDelete(r, batch) ==
    /\ poll[r] = "receive"
    /\ batch # {} /\ batch \subseteq Visible
    /\ Cardinality(batch) <= MaxMessages
    /\ queue' = [s \in Submissions |->
                    IF s \in batch THEN "deleted" ELSE queue[s]]
    /\ job' = [job EXCEPT ![r] = [s \in Submissions |->
                    IF s \in batch THEN NewJob ELSE job[r][s]]]
    /\ poll' = [poll EXCEPT ![r] = "batch"]
    /\ UNCHANGED <<rows, logs, unsent, unsaved, pool, life, stops>>

(* ReceiveMessage answers with messages.  The call may be outstanding when  *)
(* stop() is called: its messages are processed all the same.               *)
Receive(r, batch) ==
    /\ poll[r] = "receive"
    /\ batch # {} /\ batch \subseteq Visible
    /\ Cardinality(batch) <= MaxMessages
    /\ queue' = [s \in Submissions |->
                    IF s \in batch THEN "inflight" ELSE queue[s]]
    /\ job' = [job EXCEPT ![r] = [s \in Submissions |->
                    IF s \in batch THEN NewJob ELSE job[r][s]]]
    /\ poll' = [poll EXCEPT ![r] = "batch"]
    /\ UNCHANGED <<rows, logs, unsent, unsaved, pool, life, stops>>

(* Mutant: a rejected ReceiveMessage ends the loop of a running runner.     *)
PollEndsOnError(r) ==
    /\ poll[r] = "receive"
    /\ poll' = [poll EXCEPT ![r] = "ended"]
    /\ UNCHANGED <<serviceVars, job, pool, life, stops>>

(* ReceiveMessage answers with nothing, or rejects, after stop().           *)
PollEnds(r) ==
    /\ poll[r] = "receive" /\ life[r] = "stopping"
    /\ poll' = [poll EXCEPT ![r] = "ended"]
    /\ UNCHANGED <<serviceVars, job, pool, life, stops>>

(* Mutant: the loop does not wait for the batch.                            *)
BatchNotAwaited(r) ==
    /\ poll[r] = "batch"
    /\ poll' = [poll EXCEPT
            ![r] = IF life[r] = "running" THEN "receive" ELSE "ended"]
    /\ UNCHANGED <<serviceVars, job, pool, life, stops>>

(* Promise.all settles, and the loop tests isRunning.                       *)
BatchDone(r) ==
    /\ poll[r] = "batch"
    /\ \A s \in Submissions : ~Active(r, s)
    /\ poll' = [poll EXCEPT
            ![r] = IF life[r] = "running" THEN "receive" ELSE "ended"]
    /\ UNCHANGED <<serviceVars, job, pool, life, stops>>

(* deleteMessage after the processor returned.  It may fail (swallowed), or *)
(* not delete because the receipt handle is no longer the current one.      *)
DeleteMessage(r, s) ==
    /\ At(r, s, "delete")
    /\ SetJob(r, s, IdleJob)
    /\ \/ queue' = [queue EXCEPT ![s] = "deleted"]
       \/ {"delete", "expiry"} \cap Faults # {} /\ UNCHANGED queue
    /\ UNCHANGED <<rows, logs, unsent, unsaved, pool, runnerVars>>

(* The visibility timeout of a received message runs out: when nobody works *)
(* on it any more, or, with "expiry", in the middle of its evaluation.      *)
Expire(s) ==
    /\ queue[s] = "inflight"
    /\ "expiry" \in Faults \/ \A r \in Runners : ~Works(r, s)
    /\ queue' = [queue EXCEPT ![s] = "visible"]
    /\ UNCHANGED <<rows, logs, unsent, unsaved, job, pool, runnerVars>>

-----------------------------------------------------------------------------
MayStop == stops < MaxStops /\ stops' = stops + 1

(* The process is gone, and with it its loop, its pipelines and its pool.   *)
Halt(r) ==
    /\ life' = [life EXCEPT ![r] = "down"]
    /\ poll' = [poll EXCEPT ![r] = "ended"]
    /\ pool' = [pool EXCEPT ![r] = "open"]
    /\ job' = [job EXCEPT ![r] = [s \in Submissions |-> IdleJob]]
    /\ UNCHANGED serviceVars

(* SIGTERM or SIGINT: shutdown() calls stop().                              *)
Sigterm(r) ==
    /\ "sigterm" \in Faults
    /\ life[r] = "running"
    /\ MayStop
    /\ life' = [life EXCEPT ![r] = "stopping"]
    /\ UNCHANGED <<serviceVars, job, pool, poll>>

Clients(r) == {s \in Submissions : HoldsClient(r, s)}

(* Three seconds later, whatever the pipelines are doing, the pool ends: at *)
(* once if no client is checked out, and then process.exit(0) follows.      *)
ClosePool(r) ==
    /\ life[r] = "stopping" /\ pool[r] = "open"
    /\ \/ Clients(r) = {} /\ Halt(r)
       \/ /\ Clients(r) # {}
          /\ pool' = [pool EXCEPT ![r] = "ending"]
          /\ UNCHANGED <<serviceVars, job, life, poll>>
    /\ UNCHANGED stops

(* The last client was released and closed.                                 *)
Exit(r) ==
    /\ pool[r] = "ending" /\ Clients(r) = {}
    /\ Halt(r)
    /\ UNCHANGED stops

Crash(r) ==
    /\ "crash" \in Faults
    /\ life[r] # "down"
    /\ MayStop
    /\ Halt(r)

(* The ECS service starts a replacement task: bootstrap().                  *)
Restart(r) ==
    /\ life[r] = "down"
    /\ life' = [life EXCEPT ![r] = "running"]
    /\ poll' = [poll EXCEPT ![r] = "receive"]
    /\ UNCHANGED <<serviceVars, job, pool, stops>>

(* What a runner and the platform under it do of themselves.                *)
RunnerProgress(r) ==
    \/ \E batch \in SUBSET Visible : Receive(r, batch)
    \/ PollEnds(r)
    \/ BatchDone(r)
    \/ ClosePool(r)
    \/ Exit(r)
    \/ Restart(r)

RunnerStep(r) == RunnerProgress(r) \/ Sigterm(r) \/ Crash(r)
=============================================================================
