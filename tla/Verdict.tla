------------------------------- MODULE Verdict -------------------------------
(***************************************************************************)
(* From the end of a test command to the grade: the status, the counts      *)
(* parsed from its output and the score of ExecutorService.  The output is  *)
(* the sequence of Surefire summaries it holds, stdout before stderr.       *)
(***************************************************************************)
EXTENDS Integers, Sequences

CONSTANT ShortTies   \* the odd n for which n / 200 * 100 in doubles is below n / 2

(* "Tests run: r, Failures: f, Errors: e, Skipped: s": four numbers, of     *)
(* which nothing says that they add up.                                     *)
IsSummary(m) == m \in [run : Nat, failures : Nat, errors : Nat, skipped : Nat]

(* How a command ended.                                                     *)
Ending == [rejected : BOOLEAN, timedOut : BOOLEAN, exitZero : BOOLEAN]

ExecutionStatus == {"DONE", "ERROR", "TIMEOUT"}

Counts(total, passed) == [total |-> total, passed |-> passed]

(* Mutant: a skipped test counts as passed.                                 *)
CountedLenient(m) == Counts(m.run, m.run - m.failures - m.errors)

Counted(m) == Counts(m.run, m.run - m.failures - m.errors - m.skipped)

(* The last summary counts; without one the exit code stands for one test.  *)
(* The counts of a timed-out command are left undefined: no test, here.     *)
ParseTestResults(end, output) ==
    IF end.timedOut THEN Counts(0, 0)
    ELSE IF output # <<>> THEN Counted(output[Len(output)])
    ELSE Counts(1, IF end.exitZero THEN 1 ELSE 0)

(* Math.round(passed / total * 100), for counts below 2^44.  The doubles    *)
(* decide only at a half: Math.round takes it upwards, unless the quotient  *)
(* fell short of it.  (A double of passed / total depends on the ratio,     *)
(* which is n / 200 at a half.)                                             *)
Percent(passed, total) ==
    LET doubled == 200 * passed + total
        up == doubled \div (2 * total)
        isHalf == doubled % (2 * total) = 0
    IN  IF isHalf /\ (200 * passed) \div total \in ShortTies THEN up - 1 ELSE up

(* Mutant: the score of a timed-out command goes by its exit code.          *)
CalculateScoreByCode(end, counts) ==
    IF counts.total > 0 THEN Percent(counts.passed, counts.total)
    ELSE IF end.exitZero THEN 100 ELSE 0

CalculateScore(end, counts) ==
    IF end.timedOut THEN 0
    ELSE IF counts.total > 0 THEN Percent(counts.passed, counts.total)
    ELSE IF end.exitZero THEN 100 ELSE 0

(* Mutant: the exit code is looked at before the timeout.                   *)
StatusByCode(end) ==
    IF end.rejected THEN "ERROR"
    ELSE IF end.exitZero THEN "DONE"
    ELSE IF end.timedOut THEN "TIMEOUT" ELSE "ERROR"

(* Mutant: a command that could not be started has a status of its own.     *)
StatusRejected(end) ==
    IF end.rejected THEN "REJECTED"
    ELSE IF end.timedOut THEN "TIMEOUT"
    ELSE IF end.exitZero THEN "DONE" ELSE "ERROR"

StatusOf(end) ==
    IF end.rejected THEN "ERROR"
    ELSE IF end.timedOut THEN "TIMEOUT"
    ELSE IF end.exitZero THEN "DONE" ELSE "ERROR"

(* What executeTests answers.  A rejected command (nothing was started) is  *)
(* answered in the catch clause, without parsing.                           *)
Grade(end, output) ==
    [status |-> StatusOf(end),
     score |-> IF end.rejected THEN 0
               ELSE CalculateScore(end, ParseTestResults(end, output))]
==============================================================================
