--------------------------- MODULE ExecutorProofs ---------------------------
(***************************************************************************)
(* Theorems about Executor, for any number of setup commands, any summaries *)
(* the tests may print and any number of them.                              *)
(***************************************************************************)
EXTENDS Executor, TLAPS

(* Math.round of a percentage is within half a point of it, whatever the    *)
(* doubles do at a half.                                                    *)
LEMMA PercentRounds ==
    ASSUME NEW total \in Nat, NEW passed \in Int, total > 0
    PROVE  /\ Percent(passed, total) \in Int
           /\ 2 * (Percent(passed, total) * total - 100 * passed) <= total
           /\ 2 * (100 * passed - Percent(passed, total) * total) <= total
<1> DEFINE x == 200 * passed + total
           y == 2 * total
           up == x \div y
           q == Percent(passed, total)
<1>1. x \in Int /\ y \in Nat /\ y > 0
  OBVIOUS
<1>2. up \in Int /\ y * up <= x /\ x < y * (up + 1) /\ (x % y = 0 => x = y * up)
  <2> HIDE DEF x, y
  <2> QED
    BY <1>1
<1>3. q = up \/ (q = up - 1 /\ x % y = 0)
  BY DEF Percent
<1> HIDE DEF up, q
<1>4. CASE q = up
  <2>1. y * up = 2 * (q * total) /\ y * (up + 1) = 2 * (q * total) + 2 * total
    BY <1>2, <1>4
  <2> QED
    BY <1>2, <1>4, <2>1 DEF q
<1>5. CASE q = up - 1 /\ x % y = 0
  <2>1. x = y * up /\ y * up = 2 * (q * total) + 2 * total
    BY <1>2, <1>5
  <2> QED
    BY <1>2, <1>5, <2>1 DEF q
<1> QED
  BY <1>3, <1>4, <1>5

(* The score of tests that add up is a percentage, and no score is above    *)
(* 100.                                                                     *)
LEMMA PercentBounds ==
    ASSUME NEW total \in Nat, NEW passed \in Int, total > 0, passed <= total
    PROVE  /\ Percent(passed, total) <= 100
           /\ passed >= 0 => Percent(passed, total) >= 0
<1> DEFINE q == Percent(passed, total)
<1>1. /\ q \in Int
      /\ 2 * (q * total - 100 * passed) <= total
      /\ 2 * (100 * passed - q * total) <= total
  BY PercentRounds
<1> HIDE DEF q
<1>2. q >= 101 => q * total >= 101 * total
  BY <1>1
<1>3. q <= -1 => q * total <= -total
  BY <1>1
<1>4. q <= 100 /\ (passed >= 0 => q >= 0)
  BY <1>1, <1>2, <1>3
<1> QED
  BY <1>4 DEF q

(* No more tests passed than ran, though fewer than none may.               *)
LEMMA CountsAreCounts ==
    ASSUME NEW end, NEW out \in Seq(Summaries)
    PROVE  LET counts == ParseTestResults(end, out)
           IN  counts.total \in Nat /\ counts.passed \in Int /\ counts.passed <= counts.total
<1>1. CASE out # <<>>
  <2> DEFINE last == out[Len(out)]
  <2>1. last \in Summaries
    BY <1>1
  <2>2. IsSummary(last)
    BY <2>1, ExecutorAssumption
  <2> HIDE DEF last
  <2>3. /\ Counted(last).total \in Nat /\ Counted(last).passed \in Int
        /\ Counted(last).passed <= Counted(last).total
    BY <2>2 DEF IsSummary, Counted, Counts
  <2>4. CASE end.timedOut
    BY <2>4 DEF ParseTestResults, Counts
  <2>5. CASE ~end.timedOut
    BY <1>1, <2>3, <2>5 DEF ParseTestResults, last
  <2> QED
    BY <2>4, <2>5
<1>2. CASE out = <<>>
  BY <1>2 DEF ParseTestResults, Counts
<1> QED
  BY <1>1, <1>2

(* Every answer is a status of ExecutionStatus with a score of at most 100. *)
LEMMA GradeType ==
    ASSUME NEW end, NEW out \in Seq(Summaries)
    PROVE  /\ Grade(end, out).status \in ExecutionStatus
           /\ Grade(end, out).score \in Int /\ Grade(end, out).score <= 100
<1>1. Grade(end, out).status \in ExecutionStatus
  BY DEF Grade, StatusOf, ExecutionStatus
<1> DEFINE counts == ParseTestResults(end, out)
<1>2. counts.total \in Nat /\ counts.passed \in Int /\ counts.passed <= counts.total
  BY CountsAreCounts
<1> HIDE DEF counts
<1>3. counts.total > 0 => /\ Percent(counts.passed, counts.total) \in Int
                          /\ Percent(counts.passed, counts.total) <= 100
  BY <1>2, PercentRounds, PercentBounds
<1>4. CalculateScore(end, counts) \in Int /\ CalculateScore(end, counts) <= 100
  BY <1>2, <1>3 DEF CalculateScore
<1>5. Grade(end, out).score \in Int /\ Grade(end, out).score <= 100
  BY <1>4 DEF Grade, counts
<1> QED
  BY <1>1, <1>5

-----------------------------------------------------------------------------
(* What holds of one call of executeCommand at every moment: a process and  *)
(* its timers belong to a call that spawned it, a settled call has neither  *)
(* a process nor an armed timer left, and only a timeout kills.             *)
Consistent(call) ==
    /\ call.promise \in {"none", "rejected"} => call.child = "none"
    /\ call.child = "none" =>
          /\ call.promise \in {"none", "rejected"}
          /\ ~call.helpers /\ ~call.detached /\ ~call.killed
          /\ call.timer = "off" /\ call.force = "off"
    /\ call.promise = "resolved" =>
          /\ call.child = "exited" /\ ~call.helpers
          /\ call.timer # "armed"
    /\ call.killed => call.timer = "fired"
    /\ call.force # "off" => call.timer = "fired"

(* The calls run in order, one at a time.                                   *)
InOrder ==
    \A i \in Commands :
        /\ i > at => cmd[i].promise = "none"
        /\ i < at => Settled(i)

(* The answer is the grade of the test command, given once it has settled.  *)
AnswerIsGrade ==
    answer = IF at > Test THEN Grade(EndOf(cmd[Test]), output) ELSE NoAnswer

ExecutorInv ==
    /\ at \in 1 .. (Test + 1)
    /\ cmd \in [Commands -> Call]
    /\ output \in Seq(Summaries) /\ Len(output) <= MaxSummaries
    /\ \A i \in Commands : Consistent(cmd[i])
    /\ InOrder
    /\ AnswerIsGrade

(* The test command is the last of the commands.                            *)
LEMMA TestIsLast ==
    /\ Test \in Nat /\ Test > 0 /\ Test \in Commands
    /\ \A i \in Commands : i \in Nat /\ i <= Test
BY ExecutorAssumption DEF Test, Commands

LEMMA InitExecutor == Init => ExecutorInv
<1> SUFFICES ASSUME Init PROVE ExecutorInv
  OBVIOUS
<1> USE TestIsLast, ExecutorAssumption DEF Init
<1>1. NoCall \in Call /\ Consistent(NoCall) /\ NoCall.promise = "none"
  BY DEF NoCall, Call, Consistent
<1>2. \A i \in Commands : cmd[i] = NoCall
  OBVIOUS
<1>3. InOrder
  BY <1>1, <1>2 DEF InOrder, Commands
<1>4. AnswerIsGrade
  BY DEF AnswerIsGrade
<1>5. output \in Seq(Summaries) /\ Len(output) <= MaxSummaries
  OBVIOUS
<1> HIDE DEF NoCall
<1> QED
  BY <1>1, <1>2, <1>3, <1>4, <1>5 DEF ExecutorInv

(* What a step on one call comes to: the call stays consistent, what it     *)
(* settled to stays as it was, and it begins only when its turn has come.   *)
CallEffect(i, c) ==
    /\ cmd' = [cmd EXCEPT ![i] = c]
    /\ c \in Call /\ Consistent(c)
    /\ Settled(i) => EndOf(c) = EndOf(cmd[i]) /\ c.promise = cmd[i].promise
    /\ cmd[i].promise = "none" /\ c.promise # "none" => at = i
    /\ UNCHANGED <<at, output, answer>>

LEMMA CallStepEffect ==
    ASSUME ExecutorInv, NEW i \in Commands,
           \/ Spawn(i) \/ SpawnFails(i) \/ Timeout(i) \/ ForceKill(i) \/ Close(i)
           \/ Fork(i) \/ HelpersExit(i) \/ Detach(i) \/ DetachedExit(i)
           \/ \E code \in {"zero", "nonzero", "signal"} : ChildExits(i, code)
    PROVE  \E c : CallEffect(i, c)
<1> USE DEF ExecutorInv, CallEffect, Settled
<1>c. cmd[i] \in Call /\ Consistent(cmd[i])
  OBVIOUS
<1> USE DEF Call, Consistent, EndOf
<1>1. CASE Spawn(i)
  <2> WITNESS [cmd[i] EXCEPT !.promise = "pending", !.child = "running",
                             !.timer = "armed"]
  <2> QED
    BY <1>1, <1>c DEF Spawn
<1>2. CASE SpawnFails(i)
  <2> WITNESS [cmd[i] EXCEPT !.promise = "rejected"]
  <2> QED
    BY <1>2, <1>c DEF SpawnFails
<1>3. CASE Timeout(i)
  <2> DEFINE c == [cmd[i] EXCEPT !.timer = "fired", !.force = "armed",
                      !.killed = cmd[i].killed \/ cmd[i].child = "running"]
  <2>1. CallEffect(i, c)
    BY <1>3, <1>c DEF Timeout
  <2> HIDE DEF c, CallEffect
  <2> QED
    BY <2>1
<1>4. CASE ForceKill(i)
  <2>1. CASE ~cmd[i].killed /\ cmd[i].child = "running"
    <3> WITNESS [cmd[i] EXCEPT !.force = "fired", !.killed = TRUE,
                               !.child = "exited", !.code = "signal"]
    <3> QED
      BY <1>4, <2>1, <1>c DEF ForceKill
  <2>2. CASE ~(~cmd[i].killed /\ cmd[i].child = "running")
    <3> WITNESS [cmd[i] EXCEPT !.force = "fired"]
    <3> QED
      BY <1>4, <2>2, <1>c DEF ForceKill
  <2> QED
    BY <2>1, <2>2
<1>5. CASE Close(i)
  <2> DEFINE c == [cmd[i] EXCEPT !.promise = "resolved",
                 !.timer = IF cmd[i].timer = "armed" THEN "off" ELSE cmd[i].timer]
  <2>1. CallEffect(i, c)
    BY <1>5, <1>c DEF Close
  <2> HIDE DEF c, CallEffect
  <2> QED
    BY <2>1
<1>6. CASE Fork(i)
  <2> WITNESS [cmd[i] EXCEPT !.helpers = TRUE]
  <2> QED
    BY <1>6, <1>c DEF Fork
<1>7. CASE HelpersExit(i)
  <2> WITNESS [cmd[i] EXCEPT !.helpers = FALSE]
  <2> QED
    BY <1>7, <1>c DEF HelpersExit
<1>8. CASE \E code \in {"zero", "nonzero", "signal"} : ChildExits(i, code)
  <2> PICK code \in {"zero", "nonzero", "signal"} : ChildExits(i, code)
    BY <1>8
  <2> WITNESS [cmd[i] EXCEPT !.child = "exited", !.code = code]
  <2> QED
    BY <1>c DEF ChildExits
<1>9. CASE Detach(i)
  <2> WITNESS [cmd[i] EXCEPT !.detached = TRUE]
  <2> QED
    BY <1>9, <1>c DEF Detach
<1>10. CASE DetachedExit(i)
  <2> WITNESS [cmd[i] EXCEPT !.detached = FALSE]
  <2> QED
    BY <1>10, <1>c DEF DetachedExit
<1> QED
  BY <1>1, <1>2, <1>3, <1>4, <1>5, <1>6, <1>7, <1>8, <1>9, <1>10

(* A step on one call keeps the invariant.                                  *)
LEMMA CallStepInv ==
    ASSUME ExecutorInv, NEW i \in Commands, NEW c, CallEffect(i, c)
    PROVE  ExecutorInv'
<1> USE DEF ExecutorInv, CallEffect
<1>1. cmd'[i] = c /\ \A k \in Commands \ {i} : cmd'[k] = cmd[k]
  OBVIOUS
<1>2. cmd' \in [Commands -> Call] /\ \A k \in Commands : Consistent(cmd'[k])
  BY <1>1
<1>i. c.promise # cmd[i].promise => i >= at
  BY TestIsLast DEF InOrder
<1>3. InOrder'
  <2> SUFFICES ASSUME NEW k \in Commands
               PROVE  /\ k > at => cmd'[k].promise = "none"
                      /\ k < at => cmd'[k].promise \in {"resolved", "rejected"}
    BY DEF InOrder, Settled
  <2>1. CASE k # i
    BY <1>1, <2>1 DEF InOrder, Settled
  <2>2. CASE k = i
    <3>1. i > at => c.promise = "none"
      BY TestIsLast DEF InOrder
    <3>2. i < at => c.promise = cmd[i].promise
      BY <1>i, TestIsLast
    <3> QED
      BY <1>1, <2>2, <3>1, <3>2 DEF InOrder, Settled
  <2> QED
    BY <2>1, <2>2
<1>4. AnswerIsGrade'
  <2>1. at > Test => EndOf(cmd'[Test]) = EndOf(cmd[Test])
    <3> SUFFICES ASSUME at > Test PROVE EndOf(cmd'[Test]) = EndOf(cmd[Test])
      OBVIOUS
    <3>1. Settled(Test)
      BY TestIsLast DEF InOrder
    <3> QED
      BY <1>1, <3>1, TestIsLast
  <2> QED
    BY <2>1 DEF AnswerIsGrade
<1> QED
  BY <1>2, <1>3, <1>4

(* A printed summary comes before the test command settles.                 *)
LEMMA ReportInv ==
    ASSUME ExecutorInv, NEW m \in Summaries, Report(m)
    PROVE  ExecutorInv'
<1> USE DEF ExecutorInv, Report
<1>1. output' \in Seq(Summaries) /\ Len(output') <= MaxSummaries
  BY ExecutorAssumption
<1>2. ~(at > Test)
  BY TestIsLast DEF InOrder, Settled
<1>3. AnswerIsGrade'
  BY <1>2 DEF AnswerIsGrade
<1>4. InOrder'
  BY DEF InOrder, Settled
<1> QED
  BY <1>1, <1>3, <1>4

(* The await ends: the next call has not begun, and the answer is the grade.*)
LEMMA ProceedInv ==
    ASSUME ExecutorInv, NEW i \in Commands, Proceed(i)
    PROVE  ExecutorInv'
<1> USE TestIsLast DEF ExecutorInv, Proceed
<1>1. at' \in 1 .. (Test + 1)
  BY DEF Commands
<1>2. InOrder'
  BY DEF InOrder, Settled
<1>3. AnswerIsGrade'
  BY DEF AnswerIsGrade
<1> QED
  BY <1>1, <1>2, <1>3

(* ExecutorInv is inductive.                                                *)
LEMMA ExecutorStep == ExecutorInv /\ [Next]_vars => ExecutorInv'
<1>1. ASSUME ExecutorInv, Next PROVE ExecutorInv'
  <2>1. ASSUME NEW i \in Commands, Proceed(i) PROVE ExecutorInv'
    BY <1>1, <2>1, ProceedInv
  <2>2. ASSUME NEW i \in Commands,
               \/ EventLoop(i) \/ Fork(i) \/ HelpersExit(i) \/ Detach(i) \/ DetachedExit(i)
               \/ \E code \in {"zero", "nonzero", "signal"} : ChildExits(i, code)
        PROVE  ExecutorInv'
    BY <1>1, <2>1, <2>2, CallStepEffect, CallStepInv DEF EventLoop
  <2> QED
    BY <1>1, <2>2, ReportInv DEF Next
<1>2. ASSUME ExecutorInv, UNCHANGED vars PROVE ExecutorInv'
  BY <1>2 DEF vars, ExecutorInv, InOrder, Settled, AnswerIsGrade
<1> QED
  BY <1>1, <1>2

LEMMA ExecutorInvariance == Spec => []ExecutorInv
BY InitExecutor, ExecutorStep, PTL DEF Spec

-----------------------------------------------------------------------------
(* Every call is in a state of executeCommand, and the answer is a status   *)
(* of ExecutionStatus with a score of at most 100.                          *)
THEOREM ExecutorTypeCorrect == Spec => []TypeOK
<1>1. ASSUME ExecutorInv PROVE TypeOK
  <2> USE <1>1 DEF ExecutorInv
  <2>1. /\ answer.status \in ExecutionStatus \cup {"none"}
        /\ answer.score \in Int /\ answer.score <= 100
    <3>1. answer \in {Grade(EndOf(cmd[Test]), output), NoAnswer}
      BY DEF AnswerIsGrade
    <3>2. NoAnswer.status = "none" /\ NoAnswer.score = 0
      BY DEF NoAnswer
    <3> DEFINE grade == Grade(EndOf(cmd[Test]), output)
    <3>3. grade.status \in ExecutionStatus /\ grade.score \in Int /\ grade.score <= 100
      BY GradeType
    <3> HIDE DEF grade
    <3>4. 0 \in Int /\ 0 <= 100
      OBVIOUS
    <3> QED
      BY <3>1, <3>2, <3>3, <3>4, Zenon DEF grade
  <2>2. \A n \in 1 .. Len(output) : output[n] \in Summaries
    OBVIOUS
  <2>3. Len(output) \in 0 .. MaxSummaries
    BY ExecutorAssumption
  <2> QED
    BY <2>1, <2>2, <2>3 DEF TypeOK
<1> QED
  BY <1>1, ExecutorInvariance, PTL

(* Whatever a command starts and however its timers fire, the child and all *)
(* that hold its output are gone before the next command starts and before  *)
(* executeTests returns.                                                    *)
THEOREM PipesCloseFirst == Spec => []PipesCloseWithCall
<1>1. ASSUME ExecutorInv PROVE PipesCloseWithCall
  <2> SUFFICES ASSUME NEW i \in Commands, at # i
               PROVE  cmd[i].child # "running" /\ ~cmd[i].helpers
    BY DEF PipesCloseWithCall
  <2>1. cmd[i].promise = "none" \/ Settled(i)
    BY <1>1, TestIsLast DEF ExecutorInv, InOrder
  <2> QED
    BY <1>1, <2>1 DEF ExecutorInv, Consistent, Settled
<1> QED
  BY <1>1, ExecutorInvariance, PTL

(* DONE is given only to a test command that ended by itself, with exit     *)
(* code 0, before its deadline.                                             *)
THEOREM DoneByItself == Spec => []DoneIsEarned
<1>1. ASSUME ExecutorInv PROVE DoneIsEarned
  <2> SUFFICES ASSUME answer.status = "DONE"
               PROVE  /\ cmd[Test].code = "zero"
                      /\ cmd[Test].timer # "fired" /\ ~cmd[Test].killed
    BY DEF DoneIsEarned
  <2>1. answer.status = StatusOf(EndOf(cmd[Test]))
    BY <1>1 DEF ExecutorInv, AnswerIsGrade, NoAnswer, Grade
  <2>2. EndOf(cmd[Test]).exitZero /\ ~EndOf(cmd[Test]).timedOut
    BY <2>1 DEF StatusOf
  <2>3. Consistent(cmd[Test])
    BY <1>1, TestIsLast DEF ExecutorInv
  <2> QED
    BY <2>2, <2>3 DEF EndOf, Consistent
<1> QED
  BY <1>1, ExecutorInvariance, PTL

(* The score is the share of passed tests to the nearest point, for every   *)
(* output, also one whose numbers do not add up, and whatever the doubles   *)
(* do at a half; and 0 after a timeout or a spawn error.                    *)
THEOREM ScoreIsNearest == Spec => []ScoreIsEarned
<1>1. ASSUME ExecutorInv, Answered PROVE ScoreIsEarned
  <2> DEFINE end == EndOf(cmd[Test])
             last == output[Len(output)]
             exact == 100 * (last.run - (last.failures + last.errors + last.skipped))
  <2>1. answer = Grade(end, output) /\ output \in Seq(Summaries)
    BY <1>1 DEF ExecutorInv, AnswerIsGrade, Answered, NoAnswer
  <2>2. CASE end.rejected \/ end.timedOut
    <3>1. answer.score = 0
      BY <2>1, <2>2 DEF Grade, CalculateScore
    <3> QED
      BY <2>2, <3>1 DEF ScoreIsEarned
  <2>3. CASE ~(end.rejected \/ end.timedOut) /\ output # <<>>
    <3>1. IsSummary(last)
      BY <2>1, <2>3, ExecutorAssumption
    <3> DEFINE passed == last.run - last.failures - last.errors - last.skipped
    <3> DEFINE lost == last.failures + last.errors + last.skipped
    <3>2. /\ last.run \in Nat /\ lost \in Nat
          /\ passed \in Int /\ passed <= last.run
          /\ exact = 100 * passed /\ (lost <= last.run => passed >= 0)
      BY <3>1 DEF IsSummary
    <3>3. answer.score = IF last.run > 0 THEN Percent(passed, last.run)
                         ELSE IF end.exitZero THEN 100 ELSE 0
      BY <2>1, <2>3 DEF Grade, CalculateScore, ParseTestResults, Counted, Counts
    <3>4. last.run > 0 =>
             /\ 2 * (answer.score * last.run - exact) <= last.run
             /\ 2 * (exact - answer.score * last.run) <= last.run
             /\ lost <= last.run => answer.score >= 0
      <4> HIDE DEF last, passed, exact, lost, end
      <4> QED
        BY <3>2, <3>3, PercentRounds, PercentBounds
    <3> QED
      BY <2>3, <3>3, <3>4 DEF ScoreIsEarned
  <2>4. CASE ~(end.rejected \/ end.timedOut) /\ output = <<>>
    <3>1. Percent(1, 1) = 100 /\ Percent(0, 1) = 0
      <4>1. (200 * 1 + 1) % (2 * 1) = 1 /\ (200 * 0 + 1) % (2 * 1) = 1
        OBVIOUS
      <4> QED
        BY <4>1 DEF Percent
    <3>2. answer.score = IF end.exitZero THEN 100 ELSE 0
      BY <2>1, <2>4, <3>1 DEF Grade, CalculateScore, ParseTestResults, Counts
    <3> QED
      BY <2>4, <3>2 DEF ScoreIsEarned
  <2> QED
    BY <2>2, <2>3, <2>4
<1>2. ExecutorInv => ScoreIsEarned
  BY <1>1 DEF ScoreIsEarned
<1> QED
  BY <1>2, ExecutorInvariance, PTL

(* The timer of a settled call is not armed, so it never fires.             *)
THEOREM TimersEndWithTheirCall == Spec => NoLateTimeout
<1> DEFINE Quiet(i) ==
      Settled(i) /\ cmd[i].timer # "fired" => cmd'[i].timer # "fired"
<1>1. ASSUME ExecutorInv, [Next]_vars PROVE \A i \in Commands : Quiet(i)
  <2> SUFFICES ASSUME NEW k \in Commands, Settled(k) PROVE Quiet(k)
    OBVIOUS
  <2>1. ASSUME NEW i \in Commands, NEW c, CallEffect(i, c) PROVE Quiet(k)
    <3>1. CASE i = k
      <4>1. cmd'[k] = c /\ EndOf(c) = EndOf(cmd[k])
        BY <1>1, <2>1, <3>1 DEF CallEffect, ExecutorInv
      <4> QED
        BY <4>1 DEF EndOf
    <3>2. CASE i # k
      BY <1>1, <2>1, <3>2 DEF CallEffect, ExecutorInv
    <3> QED
      BY <3>1, <3>2
  <2>2. CASE UNCHANGED cmd
    BY <2>2
  <2>3. ASSUME NEW i \in Commands, EventLoop(i), ~UNCHANGED cmd PROVE \E c : CallEffect(i, c)
    BY <1>1, <2>3, CallStepEffect DEF EventLoop, Proceed
  <2>4. ASSUME NEW i \in Commands,
               \/ Fork(i) \/ HelpersExit(i) \/ Detach(i) \/ DetachedExit(i)
               \/ \E code \in {"zero", "nonzero", "signal"} : ChildExits(i, code)
        PROVE  \E c : CallEffect(i, c)
    BY <1>1, <2>4, CallStepEffect
  <2> QED
    BY <1>1, <2>1, <2>2, <2>3, <2>4 DEF Next, Report, vars
<1> QED
  BY <1>1, ExecutorInvariance, PTL DEF Spec, NoLateTimeout
=============================================================================
