------------------------------ MODULE Executor ------------------------------
(***************************************************************************)
(* ExecutorService.executeTests: the setup commands of a PIT and then its   *)
(* test command, one child process after the other, each under a timeout.   *)
(* The actors are the event loop (spawn, the two timers, the close event),  *)
(* the child and the processes the child starts, which inherit its pipes    *)
(* unless they redirect their output.                                       *)
(***************************************************************************)
EXTENDS Verdict

CONSTANTS
    Setup,         \* number of setup commands
    Summaries,     \* the Surefire summaries the test command may print
    MaxSummaries   \* bound: how many of them it prints

ASSUME ExecutorAssumption ==
    /\ Setup \in Nat
    /\ \A m \in Summaries : IsSummary(m)
    /\ MaxSummaries \in Nat

Test == Setup + 1
Commands == 1 .. Test

VARIABLES
    at,      \* the command being run; Test + 1 once executeTests returned
    cmd,     \* cmd[i]: one call of executeCommand
    output,  \* summaries the test command has printed so far
    answer   \* what executeTests returned

vars == <<at, cmd, output, answer>>

Call ==
    [ promise : {"none", "pending", "resolved", "rejected"},
      child : {"none", "running", "exited"},
      code : {"none", "zero", "nonzero", "signal"},
      helpers : BOOLEAN,       \* descendants hold stdout or stderr open
      detached : BOOLEAN,      \* descendants run that hold neither
      timer : {"off", "armed", "fired"},   \* "fired" is timedOut
      force : {"off", "armed", "fired"},   \* the nested 5 s timer
      killed : BOOLEAN ]       \* childProcess.killed: a signal was sent

NoCall ==
    [promise |-> "none", child |-> "none", code |-> "none", helpers |-> FALSE,
     detached |-> FALSE, timer |-> "off", force |-> "off", killed |-> FALSE]

NoAnswer == [status |-> "none", score |-> 0]
Answered == answer.status # "none"

(* Every call is in a state of executeCommand, and the answer is a status   *)
(* of ExecutionStatus with a score of at most 100.  (It is negative when    *)
(* the last summary reports more failures than tests.)                      *)
TypeOK ==
    /\ at \in 1 .. (Test + 1)
    /\ cmd \in [Commands -> Call]
    /\ Len(output) \in 0 .. MaxSummaries
    /\ \A n \in 1 .. Len(output) : output[n] \in Summaries
    /\ answer.status \in ExecutionStatus \cup {"none"}
    /\ answer.score \in Int /\ answer.score <= 100

Init ==
    /\ at = 1
    /\ cmd = [i \in Commands |-> NoCall]
    /\ output = <<>>
    /\ answer = NoAnswer

-----------------------------------------------------------------------------
Spawn(i) ==
    /\ at = i /\ cmd[i].promise = "none"
    /\ cmd' = [cmd EXCEPT ![i] = [@ EXCEPT !.promise = "pending",
                                           !.child = "running",
                                           !.timer = "armed"]]
    /\ UNCHANGED <<at, output, answer>>

(* Mutant: nobody listens to the 'error' event.                             *)
SpawnErrorIgnored(i) ==
    /\ at = i /\ cmd[i].promise = "none"
    /\ cmd' = [cmd EXCEPT ![i].promise = "pending"]
    /\ UNCHANGED <<at, output, answer>>

(* The 'error' event: no process was started.                               *)
SpawnFails(i) ==
    /\ at = i /\ cmd[i].promise = "none"
    /\ cmd' = [cmd EXCEPT ![i].promise = "rejected"]
    /\ UNCHANGED <<at, output, answer>>

Fork(i) ==
    /\ cmd[i].child = "running"
    /\ cmd' = [cmd EXCEPT ![i].helpers = TRUE]
    /\ UNCHANGED <<at, output, answer>>

ChildExits(i, code) ==
    /\ cmd[i].child = "running"
    /\ cmd' = [cmd EXCEPT ![i] = [@ EXCEPT !.child = "exited", !.code = code]]
    /\ UNCHANGED <<at, output, answer>>

HelpersExit(i) ==
    /\ cmd[i].helpers
    /\ cmd' = [cmd EXCEPT ![i].helpers = FALSE]
    /\ UNCHANGED <<at, output, answer>>

(* A process is started in the background with its output redirected.       *)
Detach(i) ==
    /\ cmd[i].child = "running" \/ cmd[i].helpers
    /\ cmd' = [cmd EXCEPT ![i].detached = TRUE]
    /\ UNCHANGED <<at, output, answer>>

DetachedExit(i) ==
    /\ cmd[i].detached
    /\ cmd' = [cmd EXCEPT ![i].detached = FALSE]
    /\ UNCHANGED <<at, output, answer>>

(* kill() sends SIGTERM, and sets killed, only while the child runs.        *)
Timeout(i) ==
    /\ cmd[i].timer = "armed"
    /\ cmd' = [cmd EXCEPT ![i] = [@ EXCEPT !.timer = "fired",
                                           !.force = "armed",
                                           !.killed = cmd[i].killed \/ cmd[i].child = "running"]]
    /\ UNCHANGED <<at, output, answer>>

(* "if (!childProcess.killed)": SIGKILL, which no child survives.           *)
ForceKill(i) ==
    /\ cmd[i].force = "armed"
    /\ cmd' = [cmd EXCEPT ![i] =
                  IF ~cmd[i].killed /\ cmd[i].child = "running"
                  THEN [@ EXCEPT !.force = "fired", !.killed = TRUE,
                                 !.child = "exited", !.code = "signal"]
                  ELSE [@ EXCEPT !.force = "fired"]]
    /\ UNCHANGED <<at, output, answer>>

(* Mutant: the promise is resolved by the 'exit' event.                     *)
CloseOnExit(i) ==
    /\ cmd[i].promise = "pending"
    /\ cmd[i].child = "exited"
    /\ cmd' = [cmd EXCEPT ![i] = [@ EXCEPT !.promise = "resolved",
                            !.timer = IF cmd[i].timer = "armed" THEN "off" ELSE cmd[i].timer]]
    /\ UNCHANGED <<at, output, answer>>

(* Mutant: the timeout is not cleared.                                      *)
CloseKeepsTimer(i) ==
    /\ cmd[i].promise = "pending"
    /\ cmd[i].child = "exited" /\ ~cmd[i].helpers
    /\ cmd' = [cmd EXCEPT ![i].promise = "resolved"]
    /\ UNCHANGED <<at, output, answer>>

(* The 'close' event: the child is gone and its pipes are closed; detached  *)
(* processes do not delay it.                                               *)
Close(i) ==
    /\ cmd[i].promise = "pending"
    /\ cmd[i].child = "exited" /\ ~cmd[i].helpers
    /\ cmd' = [cmd EXCEPT ![i] = [@ EXCEPT !.promise = "resolved",
                            !.timer = IF cmd[i].timer = "armed" THEN "off" ELSE cmd[i].timer]]
    /\ UNCHANGED <<at, output, answer>>

Settled(i) == cmd[i].promise \in {"resolved", "rejected"}

(* The test command, or a process it started, prints a summary.             *)
Report(m) ==
    /\ cmd[Test].promise = "pending"
    /\ cmd[Test].child = "running" \/ cmd[Test].helpers
    /\ Len(output) < MaxSummaries
    /\ output' = Append(output, m)
    /\ UNCHANGED <<at, cmd, answer>>

EndOf(call) ==
    [rejected |-> call.promise = "rejected",
     timedOut |-> call.timer = "fired",
     exitZero |-> call.code = "zero"]

(* The await ends: on to the next command whatever a setup command did, or  *)
(* to the answer.                                                           *)
Proceed(i) ==
    /\ at = i /\ Settled(i)
    /\ at' = i + 1
    /\ answer' = IF i = Test THEN Grade(EndOf(cmd[i]), output) ELSE answer
    /\ UNCHANGED <<cmd, output>>

-----------------------------------------------------------------------------
EventLoop(i) ==
    \/ Spawn(i) \/ SpawnFails(i) \/ Timeout(i) \/ ForceKill(i)
    \/ Close(i) \/ Proceed(i)

Next ==
    \/ \E i \in Commands :
          \/ EventLoop(i)
          \/ Fork(i)
          \/ \E code \in {"zero", "nonzero", "signal"} : ChildExits(i, code)
          \/ HelpersExit(i)
          \/ Detach(i) \/ DetachedExit(i)
    \/ \E m \in Summaries : Report(m)

Spec == Init /\ [][Next]_vars

(* The event loop runs.  Of the commands it is assumed that one that was    *)
(* sent SIGTERM ends, and that what holds its pipes ends after it; nothing  *)
(* is assumed of detached processes.                                        *)
ObeysSigterm(i) == cmd[i].killed /\ ChildExits(i, "signal")
ReapHelpers(i) == cmd[i].child = "exited" /\ HelpersExit(i)

FairSpec ==
    /\ Spec
    /\ \A i \in Commands :
          /\ WF_vars(EventLoop(i))
          /\ WF_vars(ObeysSigterm(i))
          /\ WF_vars(ReapHelpers(i))

-----------------------------------------------------------------------------
(* The next command starts, and executeTests returns, only when the child   *)
(* and every process that holds its output are gone: at most one command    *)
(* prints at a time, and nothing is missing from the output that is graded  *)
(* and logged.  (What redirected its output may live on in the workspace.)  *)
PipesCloseWithCall ==
    \A i \in Commands :
        cmd[i].child = "running" \/ cmd[i].helpers => at = i

(* The timer of a settled call never fires: a result that was handed on     *)
(* cannot turn into a timeout.                                              *)
NoLateTimeout ==
    [][\A i \in Commands :
          Settled(i) /\ cmd[i].timer # "fired" => cmd'[i].timer # "fired"]_vars

(* A submission is DONE only by a test command that ended by itself, with   *)
(* 0, before its deadline, whatever the setup commands and timers did.      *)
DoneIsEarned ==
    answer.status = "DONE" =>
        /\ cmd[Test].code = "zero"
        /\ cmd[Test].timer # "fired" /\ ~cmd[Test].killed

(* executeTests returns if its commands obey SIGTERM: failing or slow setup *)
(* commands, spawn errors, timeouts and processes that stay in the          *)
(* background do not stop it.                                               *)
Returns == <>Answered

(* The score is the share of the tests that ran and passed, by the last     *)
(* summary, to the nearest point (a half may go either way), and so from 0  *)
(* to 100 if the summary adds up; all or nothing by the exit code when no   *)
(* test is reported; and 0 for a command that ran out of time or did not    *)
(* start, whatever it had printed by then.                                  *)
ScoreIsEarned ==
    Answered =>
        LET end == EndOf(cmd[Test])
            last == output[Len(output)]
            lost == last.failures + last.errors + last.skipped
            exact == 100 * (last.run - lost)
        IN  IF end.rejected \/ end.timedOut THEN answer.score = 0
            ELSE IF output # <<>> /\ last.run > 0
                 THEN /\ 2 * (answer.score * last.run - exact) <= last.run
                      /\ 2 * (exact - answer.score * last.run) <= last.run
                      /\ lost <= last.run => answer.score >= 0
                 ELSE answer.score = (IF end.exitZero THEN 100 ELSE 0)

(* executor.service.ts:153, "Force kill if still running after 5 seconds".  *)
ForceKillWorks ==
    \A i \in Commands : cmd[i].force = "fired" => cmd[i].child # "running"
=============================================================================
