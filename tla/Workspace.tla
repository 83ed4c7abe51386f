------------------------------ MODULE Workspace ------------------------------
(***************************************************************************)
(* The disk of a runner task: the downloads under ./tmp, which              *)
(* S3StorageService writes, and the directories under ./work, which         *)
(* WorkspaceService fills and removes.  The evaluations of a batch run in   *)
(* one process, and all their paths are made from the id of the submission. *)
(* What an evaluation does to the queue, the logs and its row is Pipeline's *)
(* matter, and one step here (Return).                                      *)
(***************************************************************************)
CONSTANTS
    Submissions,
    Slots,    \* the places of a batch: one evaluation each
    None,
    Faults    \* the environment events the instance lets happen

DiskFaults ==
    { "step",    \* a transfer, an extraction, a configuration fails
      "tests",   \* the download of the instructor's tests fails
      "clean",   \* rmSync throws, and may have removed a part
      "stop" }   \* the process ends at any point

ASSUME WorkspaceAssumption ==
    /\ None \notin Submissions \cup Slots
    /\ Faults \subseteq DiskFaults

VARIABLES
    call,     \* call[c]: the evaluation in slot c
    zip,      \* zip[s]: ./tmp/<id>/submission.zip
    tests,    \* tests[s]: ./tmp/<id>-tests/submission.zip
    dir,      \* dir[s]: ./work/<id>
    leftover  \* history: directories whose removal failed or was cut off

vars == <<call, zip, tests, dir, leftover>>

Steps == {"fetch", "save", "extract", "extracting", "config", "fetchTests",
          "saveTests", "merge", "merging", "run", "report"}

Call == [of : Submissions \cup {None}, pc : Steps \cup {"idle"},
         path : BOOLEAN,      \* workspacePath is set
         merged : BOOLEAN,
         cause : {"none", "fault", "disk"},   \* what was thrown, if anything
         twin : BOOLEAN]      \* history: the batch holds a duplicate
CallOf(s, pc, twin) ==
    [of |-> s, pc |-> pc, path |-> FALSE, merged |-> FALSE, cause |-> "none",
     twin |-> twin]
IdleCall == CallOf(None, "idle", FALSE)

(* A file: who opened it last, and what became of that.                     *)
File == [by : Slots \cup {None}, state : {"absent", "open", "whole", "broken"}]
FileBy(c, state) == [by |-> c, state |-> state]
NoFile == FileBy(None, "absent")

(* A directory: who created it, and how much it holds of the submission and *)
(* of the instructor's tests.                                               *)
Amounts == {"none", "part", "whole"}
Dir == [by : Slots \cup {None}, code : Amounts, tests : Amounts]
DirBy(c, code, merged) == [by |-> c, code |-> code, tests |-> merged]
NoDir == DirBy(None, "none", "none")
Exists(s) == dir[s] # NoDir

(* Evaluations, files and directories are what they can be.                 *)
TypeOK ==
    /\ call \in [Slots -> Call]
    /\ zip \in [Submissions -> File]
    /\ tests \in [Submissions -> File]
    /\ dir \in [Submissions -> Dir]
    /\ leftover \subseteq Submissions

NoFiles == [s \in Submissions |-> NoFile]
NoDirs == [s \in Submissions |-> NoDir]
NoCalls == [c \in Slots |-> IdleCall]

Init ==
    /\ call = NoCalls
    /\ zip = NoFiles /\ tests = NoFiles
    /\ dir = NoDirs /\ leftover = {}

-----------------------------------------------------------------------------
At(c, pc) == call[c].pc = pc
Sub(c) == call[c].of

Go(c, pc) == call' = [call EXCEPT ![c].pc = pc]

(* Mutant: the error goes to the consumer.                                  *)
ThrowRejects(c, cause) ==
    call' = [call EXCEPT ![c] = [@ EXCEPT !.pc = "rejected", !.cause = cause]]

(* throw: the catch clause reports ERROR.  Something failed ("fault"), or   *)
(* the disk was not as this evaluation left it ("disk").                    *)
Throw(c, cause) ==
    call' = [call EXCEPT ![c] = [@ EXCEPT !.pc = "report", !.cause = cause]]

Fails(c) == "step" \in Faults /\ Throw(c, "fault")

(* cleanWorkspace: existsSync, then rmSync.                                 *)
Cleans(s) ==
    /\ dir' = [dir EXCEPT ![s] = NoDir]
    /\ leftover' = leftover \ {s}

CleanFails(s) ==
    /\ "clean" \in Faults /\ Exists(s)
    /\ \/ UNCHANGED dir
       \/ dir' = [dir EXCEPT ![s] = [@ EXCEPT !.code = "part",
                      !.tests = IF dir[s].tests = "none" THEN "none" ELSE "part"]]
    /\ leftover' = leftover \cup {s}

(* A batch.  SQS may deliver a message and its duplicate in one.            *)
Delivered(of, c) ==
    IF of[c] = None THEN IdleCall
    ELSE CallOf(of[c], "fetch", \E d \in Slots \ {c} : of[d] = of[c])

Receive(of) ==
    /\ \A c \in Slots : At(c, "idle")
    /\ call' = [c \in Slots |-> Delivered(of, c)]
    /\ UNCHANGED <<zip, tests, dir, leftover>>

(* Mutant: nobody waits for the 'finish' of the file.                       *)
FetchOnly(c) ==
    /\ At(c, "fetch")
    /\ \/ zip' = [zip EXCEPT ![Sub(c)] = FileBy(c, "open")] /\ Go(c, "extract")
       \/ Fails(c) /\ UNCHANGED zip
    /\ UNCHANGED <<tests, dir, leftover>>

(* GetObject answers, and createWriteStream truncates the file.             *)
Fetch(c) ==
    /\ At(c, "fetch")
    /\ \/ zip' = [zip EXCEPT ![Sub(c)] = FileBy(c, "open")] /\ Go(c, "save")
       \/ Fails(c) /\ UNCHANGED zip
    /\ UNCHANGED <<tests, dir, leftover>>

(* The pipe ends.  A file that was opened by another evaluation since is    *)
(* that one's to finish: both write the same bytes.                         *)
Closed(file, c, state) == IF file.by = c THEN FileBy(c, state) ELSE file

Save(c) ==
    /\ At(c, "save")
    /\ \/ /\ zip' = [zip EXCEPT ![Sub(c)] = Closed(@, c, "whole")]
          /\ Go(c, "extract")
       \/ /\ zip' = [zip EXCEPT ![Sub(c)] = Closed(@, c, "broken")]
          /\ Fails(c)
    /\ UNCHANGED <<tests, dir, leftover>>

(* Mutant: the previous directory is not removed.                           *)
ExtractOver(c) ==
    /\ At(c, "extract")
    /\ dir' = [dir EXCEPT ![Sub(c)] = DirBy(c, "part", @.tests)]
    /\ leftover' = leftover \ {Sub(c)}
    /\ Go(c, "extracting")
    /\ UNCHANGED <<zip, tests>>

(* extractZip up to its await: cleanWorkspace and mkdirSync.                *)
ExtractBegins(c) ==
    /\ At(c, "extract")
    /\ \/ /\ dir' = [dir EXCEPT ![Sub(c)] = DirBy(c, "part", "none")]
          /\ leftover' = leftover \ {Sub(c)}
          /\ Go(c, "extracting")
       \/ Cleans(Sub(c)) /\ Fails(c)
       \/ CleanFails(Sub(c)) /\ Throw(c, "fault")
    /\ UNCHANGED <<zip, tests>>

(* Nobody else removed or replaced the directory since it was created.      *)
Mine(c) == dir[Sub(c)].by = c

(* Nobody else opened the archive for writing since it was downloaded.      *)
Intact(c, file) == file = FileBy(c, "whole")

Extracted(c, d) ==
    /\ d # NoDir
    /\ dir' = [dir EXCEPT ![Sub(c)] = d]
    /\ call' = [call EXCEPT ![c] = [@ EXCEPT !.pc = "config", !.path = TRUE]]
    /\ UNCHANGED leftover

(* The rest of an extraction falls into a directory that was removed, which *)
(* makes it again, or that is another evaluation's: over tests, perhaps.    *)
Stray(d) ==
    { DirBy(d.by, IF d.code = "none" THEN "part" ELSE d.code, merged) :
      merged \in {d.tests, IF d.tests = "none" THEN "none" ELSE "part"} }

(* Mutant: what was extracted before the failure stays.                     *)
ExtractEndsUncleaned(c) ==
    /\ At(c, "extracting")
    /\ \/ Mine(c) /\ Extracted(c, [dir[Sub(c)] EXCEPT !.code = "whole"])
       \/ Fails(c) /\ UNCHANGED <<dir, leftover>>
    /\ UNCHANGED <<zip, tests>>

(* The extraction ends, and the directory is there; or it fails, and the    *)
(* directory is removed.                                                    *)
ExtractEnds(c) ==
    /\ At(c, "extracting")
    /\ \/ Mine(c) /\ Extracted(c, [dir[Sub(c)] EXCEPT !.code = "whole"])
       \/ ~Mine(c) /\ \E d \in Stray(dir[Sub(c)]) : Extracted(c, d)
       \/ /\ Cleans(Sub(c)) \/ CleanFails(Sub(c))
          /\ \/ Fails(c)
             \/ ~(Mine(c) /\ Intact(c, zip[Sub(c)])) /\ Throw(c, "disk")
    /\ UNCHANGED <<zip, tests>>

LoadConfig(c) ==
    /\ At(c, "config")
    /\ Go(c, "fetchTests") \/ Fails(c)
    /\ UNCHANGED <<zip, tests, dir, leftover>>

(* Without tests, for whatever reason, the submission is evaluated alone.   *)
FetchTests(c) ==
    /\ At(c, "fetchTests")
    /\ \/ tests' = [tests EXCEPT ![Sub(c)] = FileBy(c, "open")] /\ Go(c, "saveTests")
       \/ "tests" \in Faults /\ Go(c, "run") /\ UNCHANGED tests
    /\ UNCHANGED <<zip, dir, leftover>>

SaveTests(c) ==
    /\ At(c, "saveTests")
    /\ \/ /\ tests' = [tests EXCEPT ![Sub(c)] = Closed(@, c, "whole")]
          /\ Go(c, "merge")
       \/ /\ "tests" \in Faults
          /\ tests' = [tests EXCEPT ![Sub(c)] = Closed(@, c, "broken")]
          /\ Go(c, "run")
    /\ UNCHANGED <<zip, dir, leftover>>

(* mergeTestsIntoWorkspace up to its await.                                 *)
MergeBegins(c) ==
    /\ At(c, "merge")
    /\ IF Exists(Sub(c))
       THEN Go(c, "merging") /\ dir' = [dir EXCEPT ![Sub(c)].tests = "part"]
       ELSE Throw(c, "disk") /\ UNCHANGED dir
    /\ UNCHANGED <<zip, tests, leftover>>

Merged(c, d) ==
    /\ d # NoDir
    /\ dir' = [dir EXCEPT ![Sub(c)] = d]
    /\ call' = [call EXCEPT ![c] = [@ EXCEPT !.pc = "run", !.merged = TRUE]]

MergeEnds(c) ==
    /\ At(c, "merging")
    /\ \/ Mine(c) /\ Merged(c, [dir[Sub(c)] EXCEPT !.tests = "whole"])
       \/ ~Mine(c) /\ \E merged \in {dir[Sub(c)].tests, "part"} :
                         Merged(c, [dir[Sub(c)] EXCEPT !.tests = merged])
       \/ /\ \/ Fails(c)
             \/ ~(Mine(c) /\ Intact(c, tests[Sub(c)])) /\ Throw(c, "disk")
          /\ UNCHANGED dir
    /\ UNCHANGED <<zip, tests, leftover>>

(* The commands of the PIT are run in the directory; executeTests answers   *)
(* whatever they do.                                                        *)
Run(c) ==
    /\ At(c, "run")
    /\ Go(c, "report")
    /\ UNCHANGED <<zip, tests, dir, leftover>>

(* The row is written, or not; the finally clause; the message is deleted.  *)
(* The downloads stay.                                                      *)
Return(c) ==
    /\ At(c, "report")
    /\ IF call[c].path
       THEN Cleans(Sub(c)) \/ CleanFails(Sub(c))
       ELSE UNCHANGED <<dir, leftover>>
    /\ call' = [call EXCEPT ![c] = IdleCall]
    /\ UNCHANGED <<zip, tests>>

(* The process ends, by a crash or by shutdown().  Its successor has a disk *)
(* of its own (ECS), or finds what is there (a container started again).    *)
Stop ==
    /\ "stop" \in Faults
    /\ call' = NoCalls
    /\ \/ /\ zip' = NoFiles /\ tests' = NoFiles
          /\ dir' = NoDirs /\ leftover' = {}
       \/ /\ UNCHANGED <<zip, tests, dir>>
          /\ leftover' = {s \in Submissions : Exists(s)}

Evaluate(c) ==
    \/ Fetch(c) \/ Save(c) \/ ExtractBegins(c) \/ ExtractEnds(c) \/ LoadConfig(c)
    \/ FetchTests(c) \/ SaveTests(c) \/ MergeBegins(c) \/ MergeEnds(c)
    \/ Run(c) \/ Return(c)

Next ==
    \/ \E of \in [Slots -> Submissions \cup {None}] : Receive(of)
    \/ \E c \in Slots : Evaluate(c)
    \/ Stop

Spec == Init /\ [][Next]_vars

-----------------------------------------------------------------------------
(* The commands run over the whole submission, and over the whole tests of  *)
(* the instructor if they were merged, as this evaluation extracted them:   *)
(* nothing of an earlier evaluation, that failed or was cut off, remains.   *)
(* README.md:45, "both are merged in an isolated workspace".  The directory *)
(* is one per submission (docs/runner.md:132) and not per evaluation, so    *)
(* that a duplicate in the batch takes it away: the exception.              *)
EvaluatesItsOwn ==
    \A c \in Slots :
        At(c, "run") /\ ~call[c].twin =>
            dir[Sub(c)] = DirBy(c, "whole", IF call[c].merged THEN "whole" ELSE "none")

(* The directory of a submission that is not evaluated is one that could    *)
(* not be removed, or whose process ended; also with duplicates, where a    *)
(* directory may come back after its removal.                               *)
NothingLeftBehind ==
    \A s \in Submissions :
        Exists(s) => s \in leftover \/ \E c \in Slots : Sub(c) = s

(* An evaluation without a duplicate throws only because something failed:  *)
(* its download is whole before it is extracted, and its directory there    *)
(* when tests are merged, whatever an evaluation before it, or a process    *)
(* that ended, left on the disk.                                            *)
NoSpuriousAbort == \A c \in Slots : call[c].cause = "disk" => call[c].twin

-----------------------------------------------------------------------------
(* The inductive invariants.                                                *)

(* Whoever may leave a directory behind is still going to remove it.        *)
WillClean(c) == At(c, "extracting") \/ call[c].path

InPlace == {"config", "fetchTests", "saveTests", "merge", "merging", "run"}

CleanInv ==
    /\ \A c \in Slots :
          /\ At(c, "idle") <=> Sub(c) = None
          /\ call[c].pc \in InPlace => call[c].path
          /\ call[c].path => call[c].pc \in InPlace \cup {"report"}
    /\ \A s \in Submissions :
          Exists(s) => s \in leftover \/ \E c \in Slots : Sub(c) = s /\ WillClean(c)

(* Evaluations that share their paths know of each other.                   *)
Apart ==
    \A c, d \in Slots :
        c # d /\ Sub(c) = Sub(d) /\ Sub(c) # None => call[c].twin

(* What an evaluation finds on the disk at each of its steps.               *)
Placed(c) ==
    /\ At(c, "save") => zip[Sub(c)].by = c
    /\ call[c].pc \in {"extract", "extracting"} => zip[Sub(c)] = FileBy(c, "whole")
    /\ At(c, "extracting") => dir[Sub(c)] = DirBy(c, "part", "none")
    /\ call[c].pc \in {"config", "fetchTests", "saveTests", "merge"} =>
          dir[Sub(c)] = DirBy(c, "whole", "none")
    /\ At(c, "saveTests") => tests[Sub(c)].by = c
    /\ call[c].pc \in {"merge", "merging"} => tests[Sub(c)] = FileBy(c, "whole")
    /\ At(c, "merging") => dir[Sub(c)] = DirBy(c, "whole", "part")
    /\ At(c, "run") =>
          dir[Sub(c)] = DirBy(c, "whole", IF call[c].merged THEN "whole" ELSE "none")
    /\ call[c].pc \notin {"run", "report"} => ~call[c].merged

WorkspaceInv == TypeOK /\ CleanInv
OwnInv == Apart /\ \A c \in Slots : ~call[c].twin => Placed(c)
=============================================================================
