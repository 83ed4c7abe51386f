-------------------------- MODULE WorkspaceProofs --------------------------
(***************************************************************************)
(* Theorems about Workspace, for every set of submissions and every size of *)
(* a batch.                                                                 *)
(***************************************************************************)
EXTENDS Workspace, TLAPS

(* The records the variables hold are of their types.                       *)
LEMMA DiskRecordTypes ==
    /\ IdleCall \in Call
    /\ \A s \in Submissions, twin \in BOOLEAN : CallOf(s, "fetch", twin) \in Call
    /\ NoFile \in File /\ NoDir \in Dir
    /\ \A c \in Slots, state \in {"absent", "open", "whole", "broken"} :
          FileBy(c, state) \in File
    /\ \A c \in Slots \cup {None}, code, merged \in Amounts :
          DirBy(c, code, merged) \in Dir
BY DEF IdleCall, CallOf, Call, Steps, NoFile, FileBy, File, NoDir, DirBy, Dir, Amounts

(* The evaluation in slot c goes on, still responsible for its directory.   *)
Continues(c) ==
    \E j \in Call :
        /\ call' = [call EXCEPT ![c] = j]
        /\ j.of = Sub(c) /\ j.pc # "idle"
        /\ call[c].path => j.path
        /\ j.twin = call[c].twin

(* The paths of submission s are all that changes on the disk.              *)
Touches(s) ==
    /\ \E f \in File : zip' = [zip EXCEPT ![s] = f]
    /\ \E f \in File : tests' = [tests EXCEPT ![s] = f]
    /\ \E d \in Dir : dir' = [dir EXCEPT ![s] = d]
    /\ leftover' \in {leftover, leftover \cup {s}, leftover \ {s}}

(* Every variable of the disk may also stay as it is.                       *)
LEMMA Untouched ==
    ASSUME TypeOK, NEW s \in Submissions
    PROVE  /\ UNCHANGED zip => \E f \in File : zip' = [zip EXCEPT ![s] = f]
           /\ UNCHANGED tests => \E f \in File : tests' = [tests EXCEPT ![s] = f]
           /\ UNCHANGED dir => \E d \in Dir : dir' = [dir EXCEPT ![s] = d]
<1>1. /\ zip[s] \in File /\ zip = [zip EXCEPT ![s] = zip[s]]
      /\ tests[s] \in File /\ tests = [tests EXCEPT ![s] = tests[s]]
      /\ dir[s] \in Dir /\ dir = [dir EXCEPT ![s] = dir[s]]
  BY DEF TypeOK
<1> QED
  BY <1>1

(* Removing a directory, or failing to, is such a change.                   *)
LEMMA CleanEffect ==
    ASSUME TypeOK, NEW s \in Submissions, Cleans(s) \/ CleanFails(s)
    PROVE  /\ \E d \in Dir : dir' = [dir EXCEPT ![s] = d]
           /\ leftover' \in {leftover, leftover \cup {s}, leftover \ {s}}
           /\ dir'[s] = NoDir \/ s \in leftover'
<1>1. CASE Cleans(s)
  BY <1>1, DiskRecordTypes DEF Cleans, TypeOK
<1>2. CASE CleanFails(s)
  <2>1. dir[s] \in Dir /\ dir = [dir EXCEPT ![s] = dir[s]]
    BY DEF TypeOK
  <2>2. [dir[s] EXCEPT !.code = "part",
            !.tests = IF dir[s].tests = "none" THEN "none" ELSE "part"] \in Dir
    BY <2>1 DEF Dir, Amounts
  <2> QED
    BY <1>2, <2>1, <2>2 DEF CleanFails
<1> QED
  BY <1>1, <1>2

(* Going on to another step, throwing, and the ends of the two extractions  *)
(* are ways to continue.                                                    *)
LEMMA CallEffect ==
    ASSUME TypeOK, NEW c \in Slots
    PROVE  /\ \A pc \in Steps : Go(c, pc) => Continues(c)
           /\ Throw(c, "fault") \/ Throw(c, "disk") \/ Fails(c) => Continues(c)
           /\ \A d : Extracted(c, d) \/ Merged(c, d) => Continues(c)
<1> DEFINE went(pc) == [call[c] EXCEPT !.pc = pc]
           threw(cause) == [call[c] EXCEPT !.pc = "report", !.cause = cause]
           extracted == [call[c] EXCEPT !.pc = "config", !.path = TRUE]
           merged == [call[c] EXCEPT !.pc = "run", !.merged = TRUE]
           Kept(j) == /\ j \in Call /\ j.of = Sub(c) /\ j.pc # "idle"
                      /\ call[c].path => j.path
                      /\ j.twin = call[c].twin
<1>c. call[c] \in Call
  BY DEF TypeOK
<1>1. \A pc \in Steps : Kept(went(pc))
  BY <1>c DEF Call, Sub, Steps
<1>2. \A cause \in {"fault", "disk"} : Kept(threw(cause))
  BY <1>c DEF Call, Sub, Steps
<1>3. Kept(extracted)
  BY <1>c DEF Call, Sub, Steps
<1>4. Kept(merged)
  BY <1>c DEF Call, Sub, Steps
<1>5. /\ \A pc : Go(c, pc) => call' = [call EXCEPT ![c] = went(pc)]
      /\ \A cause : Throw(c, cause) => call' = [call EXCEPT ![c] = threw(cause)]
      /\ Fails(c) => Throw(c, "fault")
      /\ \A d : Extracted(c, d) => call' = [call EXCEPT ![c] = extracted]
      /\ \A d : Merged(c, d) => call' = [call EXCEPT ![c] = merged]
  BY DEF Go, Throw, Fails, Extracted, Merged
<1>6. \A j : Kept(j) /\ call' = [call EXCEPT ![c] = j] => Continues(c)
  BY DEF Continues
<1> HIDE DEF went, threw, extracted, merged, Kept
<1> QED
  BY <1>1, <1>2, <1>3, <1>4, <1>5, <1>6

(* What every step of an evaluation comes to.                               *)
LEMMA EvaluateEffect ==
    ASSUME TypeOK, NEW c \in Slots, Sub(c) \in Submissions, Evaluate(c)
    PROVE  /\ ~At(c, "idle")
           /\ Continues(c) \/ call' = [call EXCEPT ![c] = IdleCall]
           /\ Touches(Sub(c))
<1> DEFINE s == Sub(c)
<1>t. /\ zip[s] \in File /\ tests[s] \in File /\ dir[s] \in Dir
  BY DEF TypeOK
<1>f. \A file \in File, state \in {"absent", "open", "whole", "broken"} :
         Closed(file, c, state) \in File
  BY DiskRecordTypes DEF Closed
<1>s. /\ "save" \in Steps /\ "extract" \in Steps /\ "extracting" \in Steps
      /\ "fetchTests" \in Steps /\ "saveTests" \in Steps /\ "merge" \in Steps
      /\ "merging" \in Steps /\ "run" \in Steps /\ "report" \in Steps
  BY DEF Steps
<1> USE DEF At
<1>1. CASE Fetch(c)
  BY <1>1, <1>s, CallEffect, Untouched, DiskRecordTypes DEF Fetch, Touches
<1>2. CASE Save(c)
  BY <1>2, <1>s, <1>t, <1>f, CallEffect, Untouched DEF Save, Touches
<1>3. CASE ExtractBegins(c)
  <2>1. DirBy(c, "part", "none") \in Dir
    BY DiskRecordTypes DEF Amounts
  <2>2. \E d \in Dir : dir' = [dir EXCEPT ![s] = d]
    BY <1>3, <2>1, CleanEffect DEF ExtractBegins
  <2>3. leftover' \in {leftover, leftover \cup {s}, leftover \ {s}}
    BY <1>3, CleanEffect DEF ExtractBegins
  <2> QED
    BY <1>3, <1>s, <2>2, <2>3, CallEffect, Untouched DEF ExtractBegins, Touches
<1>4. CASE ExtractEnds(c)
  <2>1. \A d : Extracted(c, d) => dir' = [dir EXCEPT ![s] = d] /\ UNCHANGED leftover
    BY DEF Extracted
  <2>2. [dir[s] EXCEPT !.code = "whole"] \in Dir /\ Stray(dir[s]) \subseteq Dir
    BY <1>t DEF Dir, Amounts, Stray, DirBy
  <2>3. \/ \E d \in Dir : Extracted(c, d)
        \/ (Cleans(s) \/ CleanFails(s)) /\ (Fails(c) \/ Throw(c, "disk"))
    BY <1>4, <2>2 DEF ExtractEnds
  <2>4. Continues(c)
    BY <2>3, CallEffect
  <2>5. /\ \E d \in Dir : dir' = [dir EXCEPT ![s] = d]
        /\ leftover' \in {leftover, leftover \cup {s}, leftover \ {s}}
    BY <2>1, <2>3, CleanEffect
  <2> QED
    BY <1>4, <2>4, <2>5, Untouched DEF ExtractEnds, Touches
<1>5. CASE LoadConfig(c)
  BY <1>5, <1>s, CallEffect, Untouched DEF LoadConfig, Touches
<1>6. CASE FetchTests(c)
  BY <1>6, <1>s, CallEffect, Untouched, DiskRecordTypes DEF FetchTests, Touches
<1>7. CASE SaveTests(c)
  BY <1>7, <1>s, <1>t, <1>f, CallEffect, Untouched DEF SaveTests, Touches
<1>8. CASE MergeBegins(c)
  <2>1. /\ [dir[s] EXCEPT !.tests = "part"] \in Dir
        /\ [dir EXCEPT ![s].tests = "part"]
               = [dir EXCEPT ![s] = [dir[s] EXCEPT !.tests = "part"]]
    BY <1>t DEF Dir, Amounts
  <2> QED
    BY <1>8, <1>s, <2>1, CallEffect, Untouched DEF MergeBegins, Touches
<1>9. CASE MergeEnds(c)
  <2>1. \A amount \in Amounts : [dir[s] EXCEPT !.tests = amount] \in Dir
    BY <1>t DEF Dir
  <2>2. "whole" \in Amounts /\ {dir[s].tests, "part"} \subseteq Amounts
    BY <1>t DEF Dir, Amounts
  <2>3. \/ \E d \in Dir : Merged(c, d)
        \/ (Fails(c) \/ Throw(c, "disk")) /\ UNCHANGED dir
    BY <1>9, <2>1, <2>2 DEF MergeEnds
  <2>4. Continues(c)
    BY <2>3, CallEffect
  <2>5. \E d \in Dir : dir' = [dir EXCEPT ![s] = d]
    BY <2>3, Untouched DEF Merged
  <2> QED
    BY <1>9, <2>4, <2>5, Untouched DEF MergeEnds, Touches
<1>10. CASE Run(c)
  BY <1>10, <1>s, CallEffect, Untouched DEF Run, Touches
<1>11. CASE Return(c)
  <2>1. CASE call[c].path
    BY <1>11, <2>1, CleanEffect, Untouched DEF Return, Touches
  <2>2. CASE ~call[c].path
    BY <1>11, <2>2, Untouched DEF Return, Touches
  <2> QED
    BY <2>1, <2>2
<1> QED
  BY <1>1, <1>2, <1>3, <1>4, <1>5, <1>6, <1>7, <1>8, <1>9, <1>10, <1>11 DEF Evaluate

(* Who is responsible for the directory after the step: it is gone, or it   *)
(* is in leftover, or the evaluation is still going to remove it, or it is  *)
(* as it was and was another's to remove.                                   *)
LEMMA EvaluateCleans ==
    ASSUME TypeOK, CleanInv, NEW c \in Slots, Sub(c) \in Submissions, Evaluate(c)
    PROVE  LET s == Sub(c)
           IN  \/ dir'[s] = NoDir
               \/ s \in leftover'
               \/ WillClean(c)' /\ Sub(c)' = s
               \/ dir'[s] = dir[s] /\ leftover' = leftover /\ ~WillClean(c)
<1> DEFINE s == Sub(c)
<1>c. call[c] \in Call /\ call \in [Slots -> Call]
  BY DEF TypeOK
<1>g. ASSUME NEW pc, Go(c, pc)
      PROVE  call'[c].path = call[c].path /\ Sub(c)' = s /\ call'[c].pc = pc
  BY <1>c, <1>g DEF Go, Sub, Call
<1>h. ASSUME Fails(c) \/ Throw(c, "disk")
      PROVE  call'[c].path = call[c].path /\ Sub(c)' = s
  BY <1>c, <1>h DEF Fails, Throw, Sub, Call
<1>k. Cleans(s) \/ CleanFails(s) => dir'[s] = NoDir \/ s \in leftover'
  BY CleanEffect
<1> USE DEF At, WillClean
<1>1. CASE Fetch(c) \/ Save(c)
  <2>1. ~WillClean(c)
    BY <1>1 DEF Fetch, Save, CleanInv, InPlace
  <2> QED
    BY <1>1, <2>1 DEF Fetch, Save
<1>2. CASE ExtractBegins(c)
  BY <1>2, <1>g, <1>k DEF ExtractBegins
<1>3. CASE ExtractEnds(c)
  <2>1. CASE \E d : Extracted(c, d)
    <3>1. call'[c].path /\ Sub(c)' = s
      BY <1>c, <2>1 DEF Extracted, Sub, Call
    <3> QED
      BY <3>1
  <2>2. CASE Cleans(s) \/ CleanFails(s)
    BY <2>2, <1>k
  <2> QED
    BY <1>3, <2>1, <2>2 DEF ExtractEnds
<1>4. CASE LoadConfig(c) \/ FetchTests(c) \/ SaveTests(c) \/ MergeBegins(c) \/ Run(c)
  <2>1. call[c].path
    BY <1>4 DEF CleanInv, InPlace, LoadConfig, FetchTests, SaveTests, MergeBegins, Run
  <2>2. Fails(c) \/ Throw(c, "disk") \/ \E pc : Go(c, pc)
    BY <1>4 DEF LoadConfig, FetchTests, SaveTests, MergeBegins, Run
  <2> QED
    BY <2>1, <2>2, <1>g, <1>h
<1>5. CASE MergeEnds(c)
  <2>1. call[c].path
    BY <1>5 DEF CleanInv, InPlace, MergeEnds
  <2>2. Fails(c) \/ Throw(c, "disk") \/ \E d : Merged(c, d)
    BY <1>5 DEF MergeEnds
  <2>3. ASSUME NEW d, Merged(c, d)
        PROVE  call'[c].path = call[c].path /\ Sub(c)' = s
    BY <1>c, <2>3 DEF Merged, Sub, Call
  <2> QED
    BY <2>1, <2>2, <2>3, <1>h
<1>6. CASE Return(c)
  <2>1. CASE call[c].path
    BY <1>6, <2>1, <1>k DEF Return
  <2>2. CASE ~call[c].path
    BY <1>6, <2>2 DEF Return
  <2> QED
    BY <2>1, <2>2
<1> QED
  BY <1>1, <1>2, <1>3, <1>4, <1>5, <1>6 DEF Evaluate

(* workspacePath is set from the end of the extraction on.                  *)
LEMMA PathStep ==
    ASSUME TypeOK, CleanInv, NEW c \in Slots, Evaluate(c), call'[c].pc # "idle"
    PROVE  /\ call'[c].pc \in InPlace => call'[c].path
           /\ call'[c].path => call'[c].pc \in InPlace \cup {"report"}
<1>c. call[c] \in Call /\ call \in [Slots -> Call]
  BY DEF TypeOK
<1>g. ASSUME NEW pc, Go(c, pc)
      PROVE  call'[c].path = call[c].path /\ call'[c].pc = pc
  BY <1>c, <1>g DEF Go, Call
<1>h. ASSUME Fails(c) \/ Throw(c, "fault") \/ Throw(c, "disk")
      PROVE  call'[c].pc = "report"
  BY <1>c, <1>h DEF Fails, Throw, Call
<1>i. /\ call[c].pc \in InPlace => call[c].path
      /\ call[c].path => call[c].pc \in InPlace \cup {"report"}
  BY DEF CleanInv
<1>x. \A d : Extracted(c, d) => call'[c].pc = "config" /\ call'[c].path
  BY <1>c DEF Extracted, Call
<1>m. \A d : Merged(c, d) => call'[c].pc = "run" /\ call'[c].path = call[c].path
  BY <1>c DEF Merged, Call
<1> USE <1>g, <1>h, <1>i DEF At, InPlace
<1>1. CASE Fetch(c) \/ Save(c) \/ ExtractBegins(c)
  BY <1>1 DEF Fetch, Save, ExtractBegins
<1>2. CASE ExtractEnds(c)
  BY <1>2, <1>x DEF ExtractEnds
<1>3. CASE LoadConfig(c) \/ FetchTests(c) \/ SaveTests(c)
  BY <1>3 DEF LoadConfig, FetchTests, SaveTests
<1>4. CASE MergeBegins(c) \/ Run(c)
  BY <1>4 DEF MergeBegins, Run
<1>5. CASE MergeEnds(c)
  BY <1>5, <1>m DEF MergeEnds
<1>6. CASE Return(c)
  <2>1. call'[c] = IdleCall
    BY <1>6, <1>c DEF Return
  <2> QED
    BY <2>1 DEF IdleCall, CallOf
<1> QED
  BY <1>1, <1>2, <1>3, <1>4, <1>5, <1>6 DEF Evaluate

(* Where the other evaluations are, and what they are responsible for.      *)
LEMMA EvaluateInv ==
    ASSUME WorkspaceInv, NEW c \in Slots, Evaluate(c)
    PROVE  WorkspaceInv'
<1> USE DEF WorkspaceInv
<1>c. call \in [Slots -> Call]
  BY DEF TypeOK
<1>a. ~At(c, "idle")
  BY DEF At, Evaluate, Fetch, Save, ExtractBegins, ExtractEnds, LoadConfig, FetchTests,
         SaveTests, MergeBegins, MergeEnds, Run, Return
<1>s. Sub(c) \in Submissions
  BY <1>a, <1>c DEF CleanInv, Sub, Call
<1>e. Continues(c) \/ call' = [call EXCEPT ![c] = IdleCall]
  BY <1>s, EvaluateEffect
<1>d. Touches(Sub(c))
  BY <1>s, EvaluateEffect
<1>j. PICK j \in Call : /\ call' = [call EXCEPT ![c] = j]
                        /\ \/ j = IdleCall
                           \/ j.of = Sub(c) /\ j.pc # "idle" /\ (call[c].path => j.path)
  BY <1>e, DiskRecordTypes DEF Continues
<1>o. \A d \in Slots \ {c} : call'[d] = call[d]
  BY <1>c, <1>j
<1>i. call'[c] = j
  BY <1>c, <1>j
<1>1. TypeOK'
  BY <1>s, <1>j, <1>d DEF TypeOK, Touches
<1>2. \A s \in Submissions \ {Sub(c)} :
         dir'[s] = dir[s] /\ (s \in leftover' <=> s \in leftover)
  BY <1>d DEF Touches, TypeOK
<1>3. ASSUME NEW d \in Slots
      PROVE  /\ (At(d, "idle") <=> Sub(d) = None)'
             /\ (call[d].pc \in InPlace => call[d].path)'
             /\ (call[d].path => call[d].pc \in InPlace \cup {"report"})'
  <2>1. CASE d # c
    BY <2>1, <1>o DEF CleanInv, At, Sub
  <2>2. CASE d = c /\ j = IdleCall
    BY <2>2, <1>i DEF IdleCall, CallOf, At, Sub, InPlace
  <2>3. CASE d = c /\ j.of = Sub(c) /\ j.pc # "idle"
    <3>1. (At(d, "idle") <=> Sub(d) = None)'
      BY <2>3, <1>i, <1>s, WorkspaceAssumption DEF At, Sub
    <3> QED
      BY <2>3, <3>1, <1>i, PathStep
  <2> QED
    BY <2>1, <2>2, <2>3, <1>j
<1>4. ASSUME NEW s \in Submissions, Exists(s)'
      PROVE  s \in leftover' \/ \E d \in Slots : (Sub(d) = s /\ WillClean(d))'
  <2>1. CASE s = Sub(c)
    <3>1. CASE WillClean(c)' /\ Sub(c)' = s
      BY <3>1
    <3>2. CASE dir'[s] = dir[s] /\ leftover' = leftover /\ ~WillClean(c)
      <4>1. Exists(s)
        BY <1>4, <3>2 DEF Exists
      <4>2. s \in leftover \/ \E d \in Slots \ {c} : Sub(d) = s /\ WillClean(d)
        BY <4>1, <3>2 DEF CleanInv
      <4>3. ASSUME NEW d \in Slots \ {c}, Sub(d) = s, WillClean(d)
            PROVE  (Sub(d) = s /\ WillClean(d))'
        BY <4>3, <1>o DEF Sub, WillClean, At
      <4> QED
        BY <4>2, <4>3, <3>2
    <3>3. s = Sub(c) /\ ~(dir'[s] = NoDir)
      BY <1>4, <2>1 DEF Exists
    <3>4. \/ s \in leftover'
          \/ WillClean(c)' /\ Sub(c)' = s
          \/ dir'[s] = dir[s] /\ leftover' = leftover /\ ~WillClean(c)
      BY <1>s, <3>3, EvaluateCleans
    <3> QED
      BY <3>1, <3>2, <3>4
  <2>2. CASE s # Sub(c)
    <3>1. Exists(s)
      BY <1>4, <1>2, <2>2 DEF Exists
    <3>2. s \in leftover \/ \E d \in Slots \ {c} : Sub(d) = s /\ WillClean(d)
      BY <3>1, <2>2 DEF CleanInv
    <3> QED
      BY <3>2, <1>2, <2>2, <1>o DEF Sub, WillClean, At
  <2> QED
    BY <2>1, <2>2
<1> QED
  BY <1>1, <1>3, <1>4 DEF CleanInv

(* No evaluation is at work: after a start of the process.                  *)
LEMMA NobodyAtWork ==
    ASSUME NEW c \in Slots, call'[c] = IdleCall
    PROVE  /\ (At(c, "idle") <=> Sub(c) = None)'
           /\ (call[c].pc \in InPlace => call[c].path)'
           /\ (call[c].path => call[c].pc \in InPlace \cup {"report"})'
BY DEF IdleCall, CallOf, At, Sub, InPlace

(* What a delivery makes of a slot.                                         *)
LEMMA DeliveryEffect ==
    ASSUME NEW of \in [Slots -> Submissions \cup {None}], NEW c \in Slots
    PROVE  /\ Delivered(of, c) \in Call
           /\ Delivered(of, c).of = of[c]
           /\ Delivered(of, c).pc = IF of[c] = None THEN "idle" ELSE "fetch"
           /\ ~Delivered(of, c).path /\ ~Delivered(of, c).merged
           /\ Delivered(of, c).cause = "none"
           /\ of[c] # None /\ (\E d \in Slots \ {c} : of[d] = of[c])
                 => Delivered(of, c).twin
<1> DEFINE twin == \E d \in Slots \ {c} : of[d] = of[c]
<1>1. CASE of[c] = None
  <2>1. Delivered(of, c) = IdleCall
    BY <1>1 DEF Delivered
  <2> QED
    BY <1>1, <2>1, DiskRecordTypes DEF IdleCall, CallOf
<1>2. CASE of[c] # None
  <2>1. Delivered(of, c) = CallOf(of[c], "fetch", twin)
    BY <1>2 DEF Delivered
  <2>2. twin \in BOOLEAN /\ of[c] \in Submissions
    BY <1>2
  <2> HIDE DEF twin
  <2>3. /\ CallOf(of[c], "fetch", twin) \in Call
        /\ CallOf(of[c], "fetch", twin).of = of[c]
        /\ CallOf(of[c], "fetch", twin).pc = "fetch"
        /\ ~CallOf(of[c], "fetch", twin).path /\ ~CallOf(of[c], "fetch", twin).merged
        /\ CallOf(of[c], "fetch", twin).cause = "none"
        /\ CallOf(of[c], "fetch", twin).twin = twin
    BY <2>2, DiskRecordTypes DEF CallOf
  <2>4. twin => Delivered(of, c).twin
    BY <2>1, <2>3
  <2> QED
    BY <1>2, <2>1, <2>3, <2>4 DEF twin
<1> QED
  BY <1>1, <1>2

(* A batch is received where nobody is at work, so that every directory     *)
(* that exists is one that was left over.                                   *)
LEMMA ReceiveInv ==
    ASSUME WorkspaceInv, NEW of \in [Slots -> Submissions \cup {None}], Receive(of)
    PROVE  WorkspaceInv'
<1> USE DEF WorkspaceInv
<1>1. call' = [c \in Slots |-> Delivered(of, c)]
  BY DEF Receive
<1>2. TypeOK'
  BY <1>1, DeliveryEffect DEF Receive, TypeOK
<1>3. ASSUME NEW c \in Slots
      PROVE  /\ (At(c, "idle") <=> Sub(c) = None)'
             /\ (call[c].pc \in InPlace => call[c].path)'
             /\ (call[c].path => call[c].pc \in InPlace \cup {"report"})'
  <2>1. /\ call'[c].of = of[c] /\ ~call'[c].path
        /\ call'[c].pc = IF of[c] = None THEN "idle" ELSE "fetch"
    BY <1>1, DeliveryEffect
  <2> QED
    BY <2>1 DEF At, Sub, InPlace
<1>4. ASSUME NEW s \in Submissions, Exists(s)'
      PROVE  s \in leftover'
  <2>1. Exists(s)
    BY <1>4 DEF Receive, Exists
  <2>2. \A c \in Slots : ~WillClean(c)
    BY DEF Receive, CleanInv, WillClean, At, InPlace
  <2> QED
    BY <2>1, <2>2 DEF CleanInv, Receive
<1> QED
  BY <1>2, <1>3, <1>4 DEF CleanInv

(* The end of the process leaves nobody at work, and whatever is on the     *)
(* disk is left over.                                                       *)
LEMMA StopInv ==
    ASSUME WorkspaceInv, Stop
    PROVE  WorkspaceInv'
<1> USE DEF WorkspaceInv
<1>1. \A c \in Slots : call'[c] = IdleCall
  BY DEF Stop, NoCalls
<1>2. TypeOK'
  BY DiskRecordTypes DEF Stop, TypeOK, NoCalls, NoFiles, NoDirs
<1>3. ASSUME NEW s \in Submissions, Exists(s)'
      PROVE  s \in leftover'
  BY <1>3 DEF Stop, NoDirs, Exists
<1> QED
  BY <1>1, <1>2, <1>3, NobodyAtWork DEF CleanInv

LEMMA StutterInv ==
    ASSUME WorkspaceInv, UNCHANGED vars
    PROVE  WorkspaceInv'
<1> USE DEF vars
<1>2. \A c \in Slots : Sub(c)' = Sub(c) /\ (WillClean(c)' <=> WillClean(c))
  BY DEF Sub, WillClean, At
<1>3. \A s \in Submissions : Exists(s)' <=> Exists(s)
  BY DEF Exists
<1>4. TypeOK'
  BY DEF WorkspaceInv, TypeOK
<1>5. CleanInv'
  BY <1>2, <1>3 DEF WorkspaceInv, CleanInv, At
<1> QED
  BY <1>4, <1>5 DEF WorkspaceInv

(* The disk is empty when the first process starts.                         *)
LEMMA WorkspaceInit == Init => WorkspaceInv
<1> SUFFICES ASSUME Init PROVE WorkspaceInv
  OBVIOUS
<1>1. TypeOK
  BY DiskRecordTypes DEF Init, TypeOK, NoCalls, NoFiles, NoDirs
<1>2. \A c \in Slots : call[c] = IdleCall
  BY DEF Init, NoCalls
<1>3. CleanInv
  BY <1>2 DEF Init, CleanInv, At, Sub, IdleCall, CallOf, InPlace, Exists, NoDirs
<1> QED
  BY <1>1, <1>3 DEF WorkspaceInv

LEMMA WorkspaceStep == WorkspaceInv /\ [Next]_vars => WorkspaceInv'
BY EvaluateInv, ReceiveInv, StopInv, StutterInv DEF Next

(* Evaluations, files and directories are what they can be, and every       *)
(* directory has somebody who is responsible for it: with any faults, and   *)
(* any number of evaluations of one submission at a time.                   *)
THEOREM WorkspaceInvariant == Spec => []WorkspaceInv
BY WorkspaceInit, WorkspaceStep, PTL DEF Spec

(* Evaluations, files and directories are what they can be.                 *)
THEOREM WorkspaceTypes == Spec => []TypeOK
<1>1. WorkspaceInv => TypeOK
  BY DEF WorkspaceInv
<1> QED
  BY <1>1, WorkspaceInvariant, PTL

(* The directory of a submission that is not evaluated is one that could    *)
(* not be removed, or whose process ended: the finally clause of the        *)
(* pipeline and the catch clause of extractZip together miss none.          *)
THEOREM NoDirectoryLeftBehind == Spec => []NothingLeftBehind
<1>1. WorkspaceInv => NothingLeftBehind
  BY DEF WorkspaceInv, CleanInv, NothingLeftBehind
<1> QED
  BY <1>1, WorkspaceInvariant, PTL

-----------------------------------------------------------------------------
(* An evaluation without a duplicate in its batch.                          *)

(* Evaluations of different submissions do not meet on the disk.            *)
LEMMA OthersPlaced ==
    ASSUME WorkspaceInv, OwnInv, NEW c \in Slots, Sub(c) \in Submissions, Evaluate(c),
           NEW d \in Slots \ {c}
    PROVE  call'[d] = call[d] /\ (~call[d].twin => Placed(d)')
<1>t. TypeOK /\ CleanInv
  BY DEF WorkspaceInv
<1>1. call'[d] = call[d]
  BY <1>t, EvaluateEffect DEF Continues, TypeOK
<1>2. CASE Sub(d) = None /\ ~call[d].twin
  <2>1. call'[d].pc = "idle" /\ (~call[d].merged)
    BY <1>1, <1>2, <1>t DEF CleanInv, OwnInv, Placed, At
  <2> QED
    BY <1>1, <2>1 DEF Placed, At
<1>3. CASE Sub(d) # None /\ ~call[d].twin
  <2>1. Sub(d) # Sub(c)
    BY <1>3 DEF OwnInv, Apart
  <2>2. Sub(d) \in Submissions
    BY <1>3, <1>t DEF TypeOK, Call, Sub
  <2>3. PICK s \in Submissions : s = Sub(d)
    BY <2>2
  <2>4. zip'[s] = zip[s] /\ tests'[s] = tests[s] /\ dir'[s] = dir[s]
    BY <1>t, <2>1, <2>3, EvaluateEffect DEF Touches, TypeOK
  <2>5. call'[d].of = s /\ call[d].of = s
    BY <1>1, <2>3 DEF Sub
  <2>6. Placed(d)
    BY <1>3 DEF OwnInv
  <2> QED
    BY <1>1, <2>4, <2>5, <2>6 DEF Placed, At, Sub
<1> QED
  BY <1>1, <1>2, <1>3

(* An evaluation finds at its next step what that step leaves.              *)
LEMMA OwnPlaced ==
    ASSUME WorkspaceInv, NEW c \in Slots, Placed(c), Evaluate(c),
           NEW s \in Submissions, Sub(c) = s
    PROVE  Placed(c)'
<1>t. TypeOK /\ CleanInv
  BY DEF WorkspaceInv
<1>c. /\ call[c] \in Call /\ call \in [Slots -> Call] /\ call[c].of = s
      /\ zip \in [Submissions -> File] /\ tests \in [Submissions -> File]
      /\ dir \in [Submissions -> Dir]
  BY <1>t DEF TypeOK, Sub
<1>m. call[c].pc \notin {"run", "report"} => ~call[c].merged
  BY DEF Placed
<1>g. ASSUME NEW pc, Go(c, pc)
      PROVE  call'[c].pc = pc /\ call'[c].of = s /\ call'[c].merged = call[c].merged
  BY <1>c, <1>g DEF Go, Call
<1>h. ASSUME Fails(c) \/ Throw(c, "fault") \/ Throw(c, "disk")
      PROVE  Placed(c)'
  <2>1. call'[c].pc = "report"
    BY <1>c, <1>h DEF Fails, Throw, Call
  <2> QED
    BY <2>1 DEF Placed, At
<1> USE DEF At
<1>1. CASE Fetch(c)
  <2>1. CASE Go(c, "save") /\ zip' = [zip EXCEPT ![s] = FileBy(c, "open")]
    <3>1. zip'[s].by = c
      BY <1>c, <2>1 DEF FileBy
    <3>2. call'[c].pc = "save" /\ call'[c].of = s /\ ~call'[c].merged
      BY <1>1, <1>g, <1>m, <2>1 DEF Fetch
    <3> QED
      BY <3>1, <3>2 DEF Placed, Sub
  <2> QED
    BY <1>1, <1>h, <2>1 DEF Fetch
<1>2. CASE Save(c)
  <2>1. CASE Go(c, "extract") /\ zip' = [zip EXCEPT ![s] = Closed(@, c, "whole")]
    <3>1. zip'[s] = FileBy(c, "whole")
      BY <1>2, <1>c, <2>1 DEF Closed, Save, Placed
    <3>2. call'[c].pc = "extract" /\ call'[c].of = s /\ ~call'[c].merged
      BY <1>2, <1>g, <1>m, <2>1 DEF Save
    <3> QED
      BY <3>1, <3>2 DEF Placed, Sub
  <2> QED
    BY <1>2, <1>h, <2>1 DEF Save
<1>3. CASE ExtractBegins(c)
  <2>1. CASE Go(c, "extracting") /\ dir' = [dir EXCEPT ![s] = DirBy(c, "part", "none")]
    <3>1. dir'[s] = DirBy(c, "part", "none")
      BY <1>c, <2>1
    <3>2. call'[c].pc = "extracting" /\ call'[c].of = s /\ ~call'[c].merged
      BY <1>3, <1>g, <1>m, <2>1 DEF ExtractBegins
    <3>3. zip'[s] = FileBy(c, "whole")
      BY <1>3 DEF ExtractBegins, Placed
    <3> QED
      BY <3>1, <3>2, <3>3 DEF Placed, Sub
  <2> QED
    BY <1>3, <1>h, <2>1 DEF ExtractBegins
<1>4. CASE ExtractEnds(c)
  <2>1. dir[s] = DirBy(c, "part", "none")
    BY <1>4 DEF ExtractEnds, Placed
  <2>2. Mine(c)
    BY <2>1 DEF Mine, DirBy
  <2>3. CASE Extracted(c, [dir[s] EXCEPT !.code = "whole"])
    <3>1. dir'[s] = DirBy(c, "whole", "none")
      BY <1>c, <2>1, <2>3 DEF Extracted, DirBy
    <3>2. call'[c].pc = "config" /\ call'[c].of = s /\ ~call'[c].merged
      BY <1>c, <1>4, <1>m, <2>3 DEF ExtractEnds, Extracted, Call
    <3> QED
      BY <3>1, <3>2 DEF Placed, Sub
  <2> QED
    BY <1>4, <1>h, <2>2, <2>3 DEF ExtractEnds
<1>5. CASE LoadConfig(c)
  <2>1. CASE Go(c, "fetchTests")
    <3>1. call'[c].pc = "fetchTests" /\ call'[c].of = s /\ ~call'[c].merged
      BY <1>5, <1>g, <1>m, <2>1 DEF LoadConfig
    <3>2. dir'[s] = DirBy(c, "whole", "none")
      BY <1>5 DEF LoadConfig, Placed
    <3> QED
      BY <3>1, <3>2 DEF Placed, Sub
  <2> QED
    BY <1>5, <1>h, <2>1 DEF LoadConfig
<1>6. CASE FetchTests(c)
  <2>1. dir'[s] = DirBy(c, "whole", "none") /\ ~call[c].merged
    BY <1>6, <1>m DEF FetchTests, Placed
  <2>2. CASE Go(c, "saveTests") /\ tests' = [tests EXCEPT ![s] = FileBy(c, "open")]
    <3>1. tests'[s].by = c
      BY <1>c, <2>2 DEF FileBy
    <3>2. call'[c].pc = "saveTests" /\ call'[c].of = s /\ ~call'[c].merged
      BY <1>g, <2>1, <2>2
    <3> QED
      BY <2>1, <3>1, <3>2 DEF Placed, Sub
  <2>3. CASE Go(c, "run")
    <3>1. call'[c].pc = "run" /\ call'[c].of = s /\ ~call'[c].merged
      BY <1>g, <2>1, <2>3
    <3> QED
      BY <2>1, <3>1 DEF Placed, Sub
  <2> QED
    BY <1>6, <2>2, <2>3 DEF FetchTests
<1>7. CASE SaveTests(c)
  <2>1. dir'[s] = DirBy(c, "whole", "none") /\ ~call[c].merged
    BY <1>7, <1>m DEF SaveTests, Placed
  <2>2. CASE Go(c, "merge") /\ tests' = [tests EXCEPT ![s] = Closed(@, c, "whole")]
    <3>1. tests'[s] = FileBy(c, "whole")
      BY <1>7, <1>c, <2>2 DEF SaveTests, Closed, Placed
    <3>2. call'[c].pc = "merge" /\ call'[c].of = s /\ ~call'[c].merged
      BY <1>g, <2>1, <2>2
    <3> QED
      BY <2>1, <3>1, <3>2 DEF Placed, Sub
  <2>3. CASE Go(c, "run")
    <3>1. call'[c].pc = "run" /\ call'[c].of = s /\ ~call'[c].merged
      BY <1>g, <2>1, <2>3
    <3> QED
      BY <2>1, <3>1 DEF Placed, Sub
  <2> QED
    BY <1>7, <2>2, <2>3 DEF SaveTests
<1>8. CASE MergeBegins(c)
  <2>1. CASE Go(c, "merging") /\ dir' = [dir EXCEPT ![s].tests = "part"]
    <3>1. dir'[s] = DirBy(c, "whole", "part")
      BY <1>8, <1>c, <2>1 DEF MergeBegins, Placed, DirBy
    <3>2. call'[c].pc = "merging" /\ call'[c].of = s /\ ~call'[c].merged
      BY <1>8, <1>g, <1>m, <2>1 DEF MergeBegins
    <3>3. tests'[s] = FileBy(c, "whole")
      BY <1>8 DEF MergeBegins, Placed
    <3> QED
      BY <3>1, <3>2, <3>3 DEF Placed, Sub
  <2> QED
    BY <1>8, <1>h, <2>1 DEF MergeBegins
<1>9. CASE MergeEnds(c)
  <2>1. dir[s] = DirBy(c, "whole", "part")
    BY <1>9 DEF MergeEnds, Placed
  <2>2. Mine(c)
    BY <2>1 DEF Mine, DirBy
  <2>3. CASE Merged(c, [dir[s] EXCEPT !.tests = "whole"])
    <3>1. dir'[s] = DirBy(c, "whole", "whole")
      BY <1>c, <2>1, <2>3 DEF Merged, DirBy
    <3>2. call'[c].pc = "run" /\ call'[c].of = s /\ call'[c].merged
      BY <1>c, <2>3 DEF Merged, Call
    <3> QED
      BY <3>1, <3>2 DEF Placed, Sub
  <2> QED
    BY <1>9, <1>h, <2>2, <2>3 DEF MergeEnds
<1>10. CASE Run(c)
  <2>1. call'[c].pc = "report"
    BY <1>10, <1>g DEF Run
  <2> QED
    BY <2>1 DEF Placed
<1>11. CASE Return(c)
  <2>1. call'[c].pc = "idle" /\ ~call'[c].merged
    BY <1>11, <1>c DEF Return, IdleCall, CallOf
  <2> QED
    BY <2>1 DEF Placed
<1> QED
  BY <1>1, <1>2, <1>3, <1>4, <1>5, <1>6, <1>7, <1>8, <1>9, <1>10, <1>11 DEF Evaluate

(* A step of an evaluation keeps the evaluations apart.                     *)
LEMMA EvaluateOwn ==
    ASSUME WorkspaceInv, OwnInv, NEW c \in Slots, Evaluate(c)
    PROVE  OwnInv'
<1>t. TypeOK /\ CleanInv
  BY DEF WorkspaceInv
<1>a. ~At(c, "idle")
  BY DEF At, Evaluate, Fetch, Save, ExtractBegins, ExtractEnds, LoadConfig, FetchTests,
         SaveTests, MergeBegins, MergeEnds, Run, Return
<1>s. PICK s \in Submissions : Sub(c) = s
  BY <1>a, <1>t DEF CleanInv, TypeOK, Sub, Call
<1>1. \A d \in Slots \ {c} : call'[d] = call[d] /\ (~call[d].twin => Placed(d)')
  BY <1>s, OthersPlaced
<1>2. ~call[c].twin => Placed(c)'
  BY <1>s, OwnPlaced DEF OwnInv
<1>3. call'[c] = IdleCall \/ (Sub(c)' = Sub(c) /\ call'[c].twin = call[c].twin)
  BY <1>s, <1>t, EvaluateEffect DEF Continues, TypeOK, Sub
<1>4. ~call'[c].twin => Placed(c)'
  <2>1. call'[c] = IdleCall => Placed(c)'
    BY DEF Placed, At, IdleCall, CallOf
  <2> QED
    BY <1>2, <1>3, <2>1
<1>5. Apart'
  <2>1. \A d \in Slots \ {c} : Sub(d)' = Sub(d) /\ call'[d].twin = call[d].twin
    BY <1>1 DEF Sub
  <2>2. \A d, e \in Slots :
           d # e /\ Sub(d) = Sub(e) /\ Sub(d) # None => call[d].twin
    BY DEF OwnInv, Apart
  <2>3. Sub(c)' = None \/ (Sub(c)' = Sub(c) /\ call'[c].twin = call[c].twin)
    BY <1>3 DEF IdleCall, CallOf, Sub
  <2>4. \A d, e \in Slots :
           d # e /\ Sub(d)' = Sub(e)' /\ Sub(d)' # None => call'[d].twin
    BY <2>1, <2>2, <2>3
  <2> QED
    BY <2>4 DEF Apart
<1> QED
  BY <1>1, <1>4, <1>5 DEF OwnInv

(* Where every slot is idle, or has just received its message, nothing is   *)
(* asked of the disk.                                                       *)
LEMMA FreshPlaced ==
    ASSUME NEW c \in Slots, call'[c].pc \in {"idle", "fetch"}, ~call'[c].merged
    PROVE  Placed(c)'
BY DEF Placed, At

LEMMA OwnInit == Init => OwnInv
<1> SUFFICES ASSUME Init PROVE OwnInv
  OBVIOUS
<1>1. \A c \in Slots : call[c].pc = "idle" /\ call[c].of = None /\ ~call[c].merged
  BY DEF Init, NoCalls, IdleCall, CallOf
<1> QED
  BY <1>1 DEF OwnInv, Apart, Placed, At, Sub

LEMMA OwnStep == WorkspaceInv /\ OwnInv /\ [Next]_vars => OwnInv'
<1> SUFFICES ASSUME WorkspaceInv, OwnInv, [Next]_vars PROVE OwnInv'
  OBVIOUS
<1>1. ASSUME NEW of \in [Slots -> Submissions \cup {None}], Receive(of) PROVE OwnInv'
  <2>1. call' = [c \in Slots |-> Delivered(of, c)]
    BY <1>1 DEF Receive
  <2>2. \A c \in Slots :
           /\ call'[c].pc \in {"idle", "fetch"} /\ ~call'[c].merged
           /\ call'[c].of = of[c]
           /\ of[c] # None /\ (\E d \in Slots \ {c} : of[d] = of[c])
                 => call'[c].twin
    BY <2>1, DeliveryEffect
  <2>3. Apart'
    BY <2>2 DEF Apart, Sub
  <2> QED
    BY <2>2, <2>3, FreshPlaced DEF OwnInv
<1>2. CASE \E c \in Slots : Evaluate(c)
  BY <1>2, EvaluateOwn
<1>3. CASE Stop
  <2>1. \A c \in Slots :
           call'[c].pc = "idle" /\ call'[c].of = None /\ ~call'[c].merged
    BY <1>3 DEF Stop, NoCalls, IdleCall, CallOf
  <2> QED
    BY <2>1, FreshPlaced DEF OwnInv, Apart, Sub
<1>4. CASE UNCHANGED vars
  <2>1. \A c \in Slots : ~call'[c].twin => Placed(c)'
    BY <1>4 DEF vars, OwnInv, Placed, At, Sub
  <2> QED
    BY <1>4, <2>1 DEF vars, OwnInv, Apart, Sub
<1> QED
  BY <1>1, <1>2, <1>3, <1>4 DEF Next

(* Evaluations of different submissions keep out of each other's way.       *)
THEOREM OwnInvariant == Spec => []OwnInv
BY OwnInit, OwnStep, WorkspaceInvariant, PTL DEF Spec

(* Without a duplicate in the batch, the commands run over the whole        *)
(* submission, and the whole tests if they were merged, with nothing in the *)
(* directory that an earlier evaluation left: through failures of every     *)
(* step, ends of the process at any point, and whatever the others of the   *)
(* batch do.                                                                *)
THEOREM IsolatedWorkspace == Spec => []EvaluatesItsOwn
<1>1. OwnInv => EvaluatesItsOwn
  BY DEF OwnInv, Placed, EvaluatesItsOwn, At
<1> QED
  BY <1>1, OwnInvariant, PTL

(* An evaluation that finds the disk as Placed says does not throw for it:  *)
(* it meets no archive that is not whole yet, and no directory that is not  *)
(* there.                                                                   *)
LEMMA PlacedDoesNotThrow ==
    ASSUME TypeOK, NEW c \in Slots, Placed(c), Evaluate(c), call[c].cause # "disk"
    PROVE  call'[c].cause # "disk"
<1>c. call[c] \in Call /\ call \in [Slots -> Call]
  BY DEF TypeOK
<1>g. ASSUME \/ \E pc : Go(c, pc)
             \/ Fails(c) \/ Throw(c, "fault")
             \/ \E d : Extracted(c, d) \/ Merged(c, d)
      PROVE  call'[c].cause # "disk"
  <2>1. CASE \E pc : Go(c, pc)
    BY <1>c, <2>1 DEF Go, Call
  <2>2. CASE Fails(c) \/ Throw(c, "fault")
    BY <1>c, <2>2 DEF Fails, Throw, Call
  <2>3. CASE \E d : Extracted(c, d)
    BY <1>c, <2>3 DEF Extracted, Call
  <2>4. CASE \E d : Merged(c, d)
    BY <1>c, <2>4 DEF Merged, Call
  <2> QED
    BY <1>g, <2>1, <2>2, <2>3, <2>4
<1> USE DEF At
<1>1. CASE Fetch(c) \/ Save(c) \/ LoadConfig(c) \/ FetchTests(c) \/ SaveTests(c) \/ Run(c)
  BY <1>1, <1>g DEF Fetch, Save, LoadConfig, FetchTests, SaveTests, Run
<1>2. CASE ExtractBegins(c)
  BY <1>2, <1>g DEF ExtractBegins
<1>3. CASE ExtractEnds(c)
  <2>1. Mine(c) /\ Intact(c, zip[Sub(c)])
    BY <1>3 DEF ExtractEnds, Placed, Mine, Intact, DirBy
  <2> QED
    BY <1>3, <1>g, <2>1 DEF ExtractEnds
<1>4. CASE MergeBegins(c)
  <2>1. Exists(Sub(c))
    BY <1>4 DEF MergeBegins, Placed, Exists, NoDir, DirBy
  <2> QED
    BY <1>4, <1>g, <2>1 DEF MergeBegins
<1>5. CASE MergeEnds(c)
  <2>1. Mine(c) /\ Intact(c, tests[Sub(c)])
    BY <1>5 DEF MergeEnds, Placed, Mine, Intact, DirBy
  <2> QED
    BY <1>5, <1>g, <2>1 DEF MergeEnds
<1>6. CASE Return(c)
  BY <1>6, <1>c DEF Return, IdleCall, CallOf
<1> QED
  BY <1>1, <1>2, <1>3, <1>4, <1>5, <1>6 DEF Evaluate

LEMMA NoSpuriousAbortStep ==
    WorkspaceInv /\ OwnInv /\ NoSpuriousAbort /\ [Next]_vars => NoSpuriousAbort'
<1> SUFFICES ASSUME WorkspaceInv, OwnInv, NoSpuriousAbort, [Next]_vars,
                    NEW c \in Slots
             PROVE  call'[c].cause = "disk" => call'[c].twin
  BY DEF NoSpuriousAbort
<1>0. call[c].cause = "disk" => call[c].twin
  BY DEF NoSpuriousAbort
<1>1. ASSUME NEW of \in [Slots -> Submissions \cup {None}], Receive(of)
      PROVE  call'[c].cause # "disk"
  <2>1. call'[c] = Delivered(of, c)
    BY <1>1 DEF Receive
  <2> QED
    BY <2>1, DeliveryEffect
<1>2. ASSUME NEW d \in Slots, Evaluate(d)
      PROVE  call'[c].cause = "disk" => call'[c].twin
  <2>t. TypeOK /\ CleanInv
    BY DEF WorkspaceInv
  <2>s. ~At(d, "idle")
    BY <1>2 DEF At, Evaluate, Fetch, Save, ExtractBegins, ExtractEnds, LoadConfig,
                FetchTests, SaveTests, MergeBegins, MergeEnds, Run, Return
  <2>1. Sub(d) \in Submissions
    BY <2>s, <2>t DEF CleanInv, TypeOK, Sub, Call
  <2>2. CASE c # d
    BY <1>0, <1>2, <2>1, <2>2, OthersPlaced
  <2>3. CASE c = d
    <3>1. call'[c] = IdleCall \/ call'[c].twin = call[c].twin
      BY <1>2, <2>1, <2>3, <2>t, EvaluateEffect DEF Continues, TypeOK
    <3>2. ~call[c].twin => call'[c].cause # "disk"
      BY <1>0, <1>2, <2>3, <2>t, PlacedDoesNotThrow DEF OwnInv
    <3> QED
      BY <3>1, <3>2 DEF IdleCall, CallOf
  <2> QED
    BY <2>2, <2>3
<1>3. CASE Stop
  BY <1>3 DEF Stop, NoCalls, IdleCall, CallOf
<1>4. CASE UNCHANGED vars
  BY <1>0, <1>4 DEF vars
<1> QED
  BY <1>1, <1>2, <1>3, <1>4 DEF Next

(* Without a duplicate in the batch, an evaluation is aborted only because  *)
(* something failed: never by another evaluation, nor by what an earlier    *)
(* one, or a process that ended, left on the disk.                          *)
THEOREM NothingAbortsByItself == Spec => []NoSpuriousAbort
<1>1. Init => NoSpuriousAbort
  BY DEF Init, NoSpuriousAbort, NoCalls, IdleCall, CallOf
<1>2. WorkspaceInv /\ OwnInv /\ NoSpuriousAbort /\ [Next]_vars => NoSpuriousAbort'
  BY NoSpuriousAbortStep
<1> QED
  BY <1>1, <1>2, OwnInvariant, WorkspaceInvariant, PTL DEF Spec
=============================================================================
