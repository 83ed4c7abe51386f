# Verification of the evaluation platform

TLA+ specifications of the platform (`api/`, `runner/`, `web/frontend/`), the TLC
configurations that model-check them, and theorems checked by TLAPS. `PROJECT.json` ties
every definition to the lines of source it stands for, every property to the run that checks
it and to a plausible bug that breaks it, and lists the hazards of the code.

Run a check with `tlc -config <cfg> <module>` and the proofs of a module with `tlapm <module>.tla`.

## 1. The system

A student logs in with a link from a mail, asks the API for a signed URL, uploads a ZIP to S3 and
confirms the upload. The confirm handler inserts a row in the `submissions` table and sends a
message to SQS. Runner tasks (an ECS service) poll the queue, evaluate the submissions of a batch
concurrently and write status, score, feedback and the key of the log to the row. The web pages
poll the row. Staff keep the catalogue of assignments (PITs) with another part of the web
application.

| Component | State it keeps | Operations | Hard behaviour | What makes it correct |
|---|---|---|---|---|
| Submissions API (`api/src/submissions`) | the `submissions` table | `requestUpload`, `confirmUpload`, `deleteSubmission`, queries | awaits between the idempotency check, the INSERT and the send; each may fail or lose its answer | one row per upload; a row has its message; nothing is said of a row before it exists |
| Queue producer (`api/src/queue`) | none | `sendSubmissionEnqueued` | the send may fail after the row was committed | " |
| SQS (external) | messages: visible, in flight, deleted | send, receive, delete, visibility timeout | at-least-once delivery, redelivery during an evaluation | every message leaves the queue in the end |
| SQS consumer (`runner/src/queue`) | `isRunning`, the batch in progress | `start`, `stop`, `poll`, `processMessage`, `deleteMessage` | a receive outstanding at `stop()`; a batch waits for its slowest member | a message is deleted only when its row is written; no batch before the last one ended |
| Runner process (`runner/src/main.ts`) | the process | `bootstrap`, `shutdown` | 3 s of grace, then the pool ends under running pipelines | a stop loses no submission |
| Pipeline (`runner/src/processing`) | one local state per message | `processSubmission`: eight steps, catch, finally | any step fails; failures inside the catch clause are swallowed | the row ends DONE or ERROR; row and log agree |
| Result store (`runner/src/database`) | a pool of 10 connections | `updateSubmissionResult`, `close` | UPDATE commits but its answer is lost; no row matches | a removed row is not written |
| Executor (`runner/src/executor`) | child processes, two timers per command | `executeTests`, `executeCommand`, result parsing, scoring | exit, close, timeout and kill in any order; commands that ignore SIGTERM; rounding | DONE and the score are earned; one command prints at a time; the call returns |
| Storage (`runner/src/storage`) | `./tmp/<id>`, the logs bucket | download, upload | a transfer that is cut off never settles; one log object per submission | a log belongs to the evaluation the row reports |
| Workspace (`runner/src/workspace`) | `./work/<id>` | extract, merge, clean | a directory per submission, not per evaluation; what a failure or an ended process left | commands run over what their evaluation extracted; no directory is left behind |
| PIT configuration (`runner/src/pit-config`) | a cache | `loadConfig` | cached for the life of the process | |
| PITs API (`api/src/pits`) | the `pits` table, `pits/<id>/tests.zip` | create, update, `uploadTests`, delete, seed | read, change and save over awaits; an object is put and its key saved later; tasks that seed at the same time | no update is lost without a race; a key names an object; a seed changes no row it found |
| Users, authentication (`api/src/users`, `auth`) | the `users` table, signed tokens | `verify`, `findOrCreateByEmail`, guard | two first logins at once; any failure of the guard is a 401 | a session has its user; no 401 without a cause |
| Web: session (`web/.../core`, `auth`) | token and user in localStorage, a return address per tab | login, magic link, logout, 401 interceptor, route guard | shared by tabs: the account changes under a running request; late 401s | user and token agree; a live session is kept |
| Web: submission pages (`upload`, `status`, `home`) | the signals of a page, its requests | upload chain, load, poll, retry, list, delete | lost answers, late answers, polls that fail, pages left in the middle | one row per choice of a file; a waiting page polls; the list tells the truth |
| Web: PIT pages (`pits/`) | the form, its requests | load, save, upload, delete | writes go on after the page was left | forms send what they show |

The interactions are the table (API inserts and deletes, runners update), the queue (API
sends, runners receive and delete), the logs bucket (runners overwrite one object per
submission), SIGTERM (ECS to the runner), the HTTP requests of the pages with the stored token, and
localStorage (tab to tab).

## 2. Modules

| Module | Models | Code |
|---|---|---|
| `Services` | the shared state of the submission path: rows, queue, logs, two history variables | `submission.entity.ts`; SQS and S3 are external |
| `SubmissionsApi` | `confirmUpload` and `deleteSubmission`, an awaited call at a time | `submissions.service.ts`, `sqs.service.ts` |
| `Pipeline` | `processSubmission`, `job[r][s]` being the call of runner `r` for submission `s` | `processing.service.ts`, `database.service.ts`, `s3-storage.service.ts`, `workspace.service.ts` |
| `Runner` | the polling loop, deletion, shutdown; visibility timeout, crash, restart | `sqs-consumer.service.ts`, `main.ts` |
| `Platform` | the composition of these, fairness, the properties | |
| `Workspace` | the files of a batch of evaluations on the disk of a runner | `workspace.service.ts`, `s3-storage.service.ts`, the steps of `processing.service.ts` around them |
| `SubmissionLifecycle` | the abstract specification: what is promised about a submission | |
| `Verdict` | from the end of a command and its output to status, counts and score (pure functions) | `executor.service.ts`, `execution-result.interface.ts` |
| `Executor` | `executeTests` and `executeCommand`: children, the processes they start, timers, events; the answer by `Verdict` | `executor.service.ts` |
| `WebSession` | token, user, tabs, pages, return addresses, the requests that are out | `auth.service.ts`, guard and interceptors, `login`, `verify-token`, `navbar` |
| `WebApi` | the API as the browser sees it: guard, login, requests on submissions | `auth.controller.ts`, `auth.guard.ts`, `users.service.ts`, `submissions.service.ts` |
| `WebPages` | upload, status and home page | `upload.ts`, `status.ts`, `home.ts` |
| `Browser` | the composition of the three, the properties | |
| `PitsApi` | `PitsService` and the seed, an awaited call at a time | `pits.service.ts`, `dummy-pit.seed.service.ts` |
| `PitPages` | list and forms of PITs | `list.ts`, `create.ts`, `edit.ts` |
| `Catalogue` | the composition of the two, the properties | |
| `MCPlatform`, `MCWorkspace`, `MCExecutor`, `MCBrowser`, `MCCatalogue` | constants of the runs | |
| `PlatformProofs`, `PlatformFaultProofs`, `PlatformRefinement`, `WorkspaceProofs`, `ExecutorProofs`, `BrowserProofs`, `CatalogueProofs` | theorems (section 4) | |

### The submission path

* `rows[s]` is the row that confirm request `s` may insert: `status`, whether `logsS3Key` is set
  (`log`) and `report`, what the status, score and feedback say of the evaluation: `graded`
  (exit 0 with the instructor's tests), `selfgraded` (exit 0 without them), `failed` (the
  executor answered ERROR or TIMEOUT), `aborted` (a step threw). Scores and texts are not kept.
* `queue[s]` is where the message is; SQS itself is assumed to keep a message until it is deleted.
* `logs[s]` is the evaluation whose log `logs/<id>/run.log` holds.
* `unsent` and `unsaved` are history: submissions a failed confirm left with a row and no
  message, and submissions whose ERROR update failed and was swallowed. No action reads them.
* `confirm[s]`, `job[r][s].pc` and `poll[r]` are the places where the handlers await; an action is
  the code from one await to the next. `job[r][s].result = "aborted"` is the catch clause, which
  runs the same upload and update again.
* `pool[r]` is `"ending"` between `pool.end()` and the release of the last client. `pg-pool` rejects
  `connect()` from then on, and `end()` resolves at once when no client is checked out.
* `life[r]` is `"stopping"` from the signal to `process.exit`.

`Faults` names what the environment may do in an instance (a failing or ambiguous INSERT, send,
UPDATE, upload, delete; a failing step; missing tests; a download that never settles; an
evaluation longer than the visibility timeout; SIGTERM; a crash; a student's delete). A lost answer is a fault
whose effect took place.

### The work directory

`Pipeline` sees the disk as one step that may fail; `Workspace` opens it, and sees queue, logs and rows as
one step (`Return`).

* `call[c]` is the evaluation in place `c` of the batch, with the two local variables that matter
  (`path` is `workspacePath`, `merged` is `testsMerged`). A step is split where the code awaits: between the start of an extraction
  and its end any other evaluation of the batch may run.
* `zip[s]`, `tests[s]` are the two files under `./tmp`, `dir[s]` is `./work/<id>`; each knows the evaluation that
  opened or created it last. An extraction or a merge that is still `Mine(c)` when it ends has its whole content in
  place; one whose directory was replaced meanwhile writes the rest into the other's (`Stray`), or makes
  the directory again.
* `leftover` and `twin` are history: the directories whose removal failed, or whose process ended; and whether
  the batch of an evaluation holds a duplicate of its message. `cause` says why an evaluation threw: a step failed
  (`fault`), or it found the disk not as it had left it (`disk`).
* `Stop` ends the process at any point. Its successor starts on an empty disk (a new ECS task) or on what is there
  (a container that is started again).

### The executor

* `cmd[i]` is the `i`-th command: its child, its timers, whether it was killed, its exit code, and two kinds of
  processes the child started: `helpers` hold its stdout or stderr, so that the `close` event waits for them;
  `detached` ones redirected their output and delay nothing, not even the answer. An action is an event
  (`exit`, `close`, `error`, a timer) or the code that starts a command.
* `output` holds the Surefire summaries printed so far; the regular expressions are modelled by what they find, the
  last summary of the output: four numbers, which need not add up (`IsSummary`), so that a score may be negative.
* A score is `Math.round(passed / total * 100)` in doubles. `Percent` is that function over integers: away from a
  half the doubles are near enough to give the nearest point (for counts below 2^44), and at a half the quotient is
  `n / 200` for an odd `n`, whose double product is `n / 2` or falls short of it. `ShortTies` is the set of `n` where it
  falls short (23 of 40 is `n = 115`: 57.49999999999999, so 57); the run has those from -200 to 200, computed with IEEE 754
  doubles, and the theorems hold for any set.

### The web application

* `token`, `user` are localStorage; `back[t]` the return address in the sessionStorage of tab `t`;
  `at[t]` its page (a status page is its row); `view[t]` the signals of the component.
* `calls` holds the requests of the tabs. A request carries the token that was stored when it was
  made. `answer = "none"` is a request on its way; `Serve` answers it, `Receive` is its handler in
  the page: the 401 interceptor, or the component. A page that is left drops its requests (Angular destroys the component, and
  `takeUntilDestroyed` or the router ends its subscriptions); one that changes something, the verify of a new user
  included, may still reach the API, or be half-way through it (`Abandoned`).
* `VerifyLink` is two steps for a new user, the look-up and the INSERT, so that two verifies overlap: of two
  tabs, or of a page that was left. Failures the pages treat alike are one answer, `failed`. `FollowLink` waits for a
  token to be left: `Tokens` bounds the logins.
* `Retry` is the button of the error card and the Refresh button of a submission that is shown: its load runs
  beside a poll stream, on or broken, and its answer may overtake a poll's or come after it.
* `owner`, `dead`, `known` are the tokens that were issued, those whose `exp` has passed, and the
  users table; `table` the submissions with the upload each was made from. How a row is graded is
  `Platform`'s matter, and one step here (`Graded`).
* Two equal requests of a tab are one element of `calls`. The pages prevent it by their flags (an
  upload runs, a row is being deleted), except for polls, where `switchMap` drops the older one.

### The catalogue

* `pits`, `objects` are the table and the bucket; a row has a required unique field, an optional one, and
  whether the key of the tests is set.
* A call in `calls` works on `entity`, its copy of the row. TypeORM's `save` is two steps: it reads the
  row again and compares it with the entity (`SaveCompares`), then updates the columns that differ or
  inserts (`SaveUpdates`, `SaveInserts`).
* `Strays` are the calls no page waits for: the seeds of starting API tasks (`ApiStarts`, any number, two at a time in
  the run), and calls whose page lost the connection (`AnswerLost`): the page is told of a failure, and the API
  goes on with the call. `CallFails` is an API task that ends in the middle of a call.
* `intended` and `raced` are history: what the calls so far asked a row to be, and the PITs written while
  another call worked on a copy.

The modules state the mutants (operators commented "Mutant") next to the operator they would
replace: with the replacement TLC finds the property of `PROJECT.json` violated.

## 3. Properties and runs

| Run | Instance | Checks | States |
|---|---|---|---|
| `redelivery` | 1 submission, 2 runners, all faults, 2 stops | `TypeOK`, `NoSilentLoss`, `DeleteAfterWrite`, `RowComesFirst`, refinement `KeepsPromise` | 1.93 million |
| `punctual` | 1 submission, 2 runners, all faults but `expiry` and `tests`, 2 stops | `OneAttemptAtATime`, `LogsMatchRow`, `GradedByInstructorTests` | 104 000 |
| `batch` | 2 submissions of one upload, 2 runners, batches of 2, 1 crash, no fault of database or queue | `CrashLosesNothing`, `LogsMatchRow`, `CompletedIsNotRerun`, `GradesStand` | 2.55 million |
| `liveness` | 2 submissions, 1 runner, batches of 1, faults that do not keep a message for ever | `BatchBounded`, `EventuallyFinal`, `MessagesDrain` | 89 000 |
| `workspace` | 2 submissions, batches of 2, all faults | `TypeOK`, `EvaluatesItsOwn`, `NothingLeftBehind`, `NoSpuriousAbort` | 5.4 million |
| `executor` | 1 setup command and the test command, up to two summaries out of seven | `TypeOK`, `PipesCloseWithCall`, `DoneIsEarned`, `ScoreIsEarned`, `NoLateTimeout`, `Returns` | 233 000 |
| `browser` | 2 tabs, 2 accounts, 2 sessions, 2 rows, 1 choice of a file, failing requests and look-ups | `TypeOK`, `UserMatchesToken`, `SessionsHaveUsers`, `OwnUploads`, `OneRowPerChoice`, `DeletedIsGone`, `FollowsUntilFinal`, `LiveSessionKept` | 4.5 million |
| `catalogue` | 1 tab, 3 PITs, 2 codes, 1 description, 2 changing calls, 2 seeds or calls without a page at a time, all faults | `TypeOK`, `KeyHasTests`, `SeedsOnlyFillGaps`, `SavesAreKept` | 2.3 million |

Four runs end in a violation and document where the code departs from its documentation:

* `shutdown`: "Ensures submissions always end with a final status" (`processing.service.ts:14`).
  A SIGTERM during a batch ends the pool; the pipelines still running cannot write their rows,
  swallow the failure, and delete their messages: the rows stay PENDING. The run allows no fault
  but the signal.
* `double_confirm`: the idempotency check of `submissions.service.ts:111` is not atomic with the
  INSERT, so two concurrent confirms insert two rows.
* `force_kill`: "Force kill if still running after 5 seconds" (`executor.service.ts:153`).
  `childProcess.killed` is true as soon as SIGTERM was sent, so SIGKILL never is.
* `polling`: "Stop polling when status is DONE or ERROR" (`status.ts:106`). A poll that fails ends
  the stream with `autoRefreshing` still true and no error shown: the page of a PENDING row goes on saying that it
  refreshes and polls no more. A click on Refresh loads the row once, and does not start the polling again
  (`status.ts:95`). What does hold is `FollowsUntilFinal`: nothing but a failed poll ends it.

`DeletedMeansFinal` (section 4) shows that the first has no other cause than a stopping runner or an unanswered UPDATE.

Four more claims of the documents hold only under a condition. It is part of the property, or the
hypothesis of its theorem, and no run repeats the violation:

* "SQS visibility timeout ensures no duplicate processing" (`runner/ECS-DEPLOYMENT.md:431`): only while
  evaluations are shorter than 300 s (`OneAttemptAtATime`, `MutualExclusion`); setup and test commands may take
  longer. A standard queue may also deliver a message twice; the fault `expiry` stands for both.
* "track status in DB and avoid re-running completed submissions" (`docs/backend.md:1370`): `processSubmission`
  never reads the row. A submission is not run again only where its message is deleted in time by a runner that
  did not stop (`CompletedIsNotRerun`, `NothingRunsAgain`); otherwise the second result overwrites the first.
* "both are merged in an isolated workspace" (`README.md:45`): the directory is one per submission
  (`docs/runner.md:132`), and a duplicate in the batch takes it away; without one, isolation holds
  (`EvaluatesItsOwn`, `IsolatedWorkspace`).
* "Error isolation (failures don't stop the loop)" (`docs/runner.md:118`): `pipe()` passes on neither an error nor
  the premature end of the S3 body, so a download that is cut off leaves its promise pending, and the batch with
  it: the runner stays alive and never receives again. This is the fault `stall`, which `redelivery` and `batch`
  allow (nothing is lost by it) and `liveness` excludes.

What the properties of the later passing runs are about:

* `batch`: a row that is removed under its pipeline, an upload that fails in the middle, a runner that crashes or
  stalls while it has both submissions, or each runner one. `GradesStand` says when a grade is the last word: until a second
  delivery, or an UPDATE without an answer, after which the catch clause writes again.
* `workspace`: an extraction that fails half-way and is tried again, a process that ends in a merge, a
  removal that removes a part, a duplicate that takes the directory away and makes it come back after its
  removal, next to an evaluation of another submission that must notice none of it.
* `executor`: a timer that fires after the child exited and before its pipes closed, a child that
  was killed and exits with zero, a helper that prints a second summary after the child exited, rounding at a half up
  and down (1 of 8, 23 of 40), a summary that does not add up, no test at all. `PipesCloseWithCall` is what the `close`
  event gives: nobody prints into the output of a later command, and what is graded is complete. That no process
  at all outlives its call does not hold, and no document says so.
* `browser`: the account changes in the other tab between the signed URL and the confirm
  (`OwnUploads`), an answer is lost and Upload Another is clicked (`OneRowPerChoice`), a link is verified twice at
  once, also after the first page was left (`SessionsHaveUsers`), Refresh is clicked beside a poll (`FollowsUntilFinal`), only the token is removed at a logout (`UserMatchesToken`), a 401 of an earlier
  session arrives late. The last is the exception `LiveSessionKept` has to make: the interceptor clears
  whatever token is stored, also one that was stored after the request was sent; no document
  excludes it, so it is part of the property and not a violation.
* `catalogue`: an update and an upload overlap, a PIT is deleted while one of them holds its copy and
  comes back, an answer is lost and the form is sent again while the first save goes on, two tasks seed next to each
  other and next to staff who edit the dummy PIT. `SavesAreKept` says what is left:
  without a write between the read and the save of another call nothing is lost, across partial
  updates, lost answers and failures in the middle. `SeedsOnlyFillGaps` says that a seed which found the row
  leaves it alone: its save becomes an UPDATE only when another call wrote the row after the look-up.

**Abstract specification.** `SubmissionLifecycle` knows neither queue nor runner: a row that is
inserted is owed an evaluation or lost by that very failure; a row changes to a final status only
while an evaluation is owed; a removed row never comes back; and an evaluation stops being owed
only when the row left PENDING or was lost. `Platform` implements it with `status` read from the rows, `owed`
the submissions whose message is about to be sent or queued or that a pipeline works on, and `lost` the
two history sets. The refinement is what rules out resurrecting removed rows, writes by a
pipeline after nobody is owed anything, and losses that no failure explains.

**Bounds.** *Platform*: submissions do not interact except through a batch, one upload confirmed twice and the
runner they wait for, which two show; the interleavings of one submission need two
runners (three would add a third copy of the same race, and the safety theorems cover any number). `MaxStops` bounds crashes and signals
together: two let a runner crash while the other is stopped, or crash again during a
redelivery. Redeliveries are not bounded. `MaxMessages` is 10 in the code; 1 and 2 are
the cases "others must wait" and "a batch has members".
`batch` has two runners and two submissions, so that a batch may be shared or split.
*Workspace*: two places of a batch and two submissions let an evaluation run beside, or after, one of another
submission or its own duplicate. Evaluations, failures and ends of the process are not bounded.
*Executor*: one setup command stands for a list, each being handled like the one before; `MaxSummaries` is
two, the last and one before it; the seven summaries hold the cases of the score.
*Browser*: two tabs are what a race between tabs needs; `Opens` says which addresses are typed in which tab:
one uploads and follows the status, the other logs in, lists and deletes, and both reach all pages by redirects.
`Tokens` bounds logins, `Rows` submissions (a confirm waits when the table is full), `Files` the choices of a file.
*Catalogue*: `MaxCalls` counts the calls of the pages that change something; two overlap, or follow each other
after a lost answer. Seeds are not counted: two run at a time, as often as they like, so that three calls overlap on
the dummy PIT. Three PITs let a create be repeated; two codes are what uniqueness needs; one tab suffices
as its writes go on when their page is left.
All these bounds are constants, and the safety theorems of section 4 hold for every value of them.

**Deadlock** is not checked: when all messages are deleted and no fault is left to
strike, an instance of the platform rests, and so does the executor once it has answered, a browser
whose sessions are used up, and a catalogue whose calls are. It is checked for `Workspace`, whose batches
never end.

**Symmetry** is used in runs that check safety only: runners are alike, in `batch` both
submissions carry the same key, the submissions and places of `workspace` are alike, and so are the accounts of `browser` and the strays of `catalogue`.

**Fairness.** A handler that inserted its row goes on to its send (Nest does not cancel it when the
client leaves); the event loop runs every continuation, so a pipeline whose awaited call
settled goes on; the polling loop keeps asking and SQS answers; a visibility timeout runs out;
`shutdown` reaches `process.exit`; ECS replaces a stopped task. Two parts are assumptions about the
outside and not guaranteed by the code: that downloads and uploads end (nothing bounds a
stalled transfer: the fault `stall`, which `liveness` excludes), and that commands end once SIGTERM was sent (see `force_kill`; for the
executor's `Returns`, also that what holds its pipes ends after it; nothing is assumed of detached processes). The faults of `liveness` exclude `stall`, and `delete` and
`expiry`, which repeated for ever would keep a message in the queue for ever; they exclude `upload` and `tests`
because those only choose between two ways of continuing. `Workspace`, `Browser` and `Catalogue` state no fairness:
in the last two, steps are clicks, and a request has no time limit; what must not be missed there is stated as
safety (`FollowsUntilFinal`).

## 4. Proofs

Every invariant and action property of the passing runs is proved for all values of the constants;
the assumptions are the named ones on the constants (`ServicesAssumption`, `WorkspaceAssumption`,
`WebAssumption`, `PitsApiAssumption` and those of `Executor`), which TLC evaluates in the runs.
Where a property needs the environment to spare something, the theorem assumes it of `Faults`.

| Theorem | States | Faults excluded |
|---|---|---|
| `PlatformProofs`: `TypeCorrect`, `NothingLostSilently`, `MessagesOutliveTheirWork`, `RowsComeFirst` | `TypeOK`, `NoSilentLoss`, `DeleteAfterWrite`, `RowComesFirst` | none |
| `PlatformProofs`: `MutualExclusion` | `OneAttemptAtATime` | `expiry` |
| `PlatformFaultProofs`: `BatchesAreBounded` | `BatchBounded` | none |
| `PlatformFaultProofs`: `NothingIsLost` | `CrashLosesNothing` | `insert`, `send`, `update`, `sigterm` |
| `PlatformFaultProofs`: `GradesAreByInstructorTests` | `GradedByInstructorTests` | `tests` |
| `PlatformFaultProofs`: `LogsFitTheirRows` | `LogsMatchRow` | `expiry` |
| `PlatformFaultProofs`: `FinalRowsStand`, `NothingRunsAgain` | `GradesStand`, `CompletedIsNotRerun` | `delete`, `expiry`, `update` |
| `PlatformFaultProofs`: `DeletedMeansFinal` | `FinalBeforeDeleted` | `update`, `sigterm` |
| `PlatformRefinement`: `PlatformKeepsPromise` | `KeepsPromise` | none |
| `ExecutorProofs`: `ExecutorTypeCorrect`, `PipesCloseFirst`, `DoneByItself`, `ScoreIsNearest`, `TimersEndWithTheirCall` | `TypeOK`, `PipesCloseWithCall`, `DoneIsEarned`, `ScoreIsEarned`, `NoLateTimeout` | none |
| `WorkspaceProofs`: `WorkspaceTypes`, `NoDirectoryLeftBehind`, `IsolatedWorkspace`, `NothingAbortsByItself` | `TypeOK`, `NothingLeftBehind`, `EvaluatesItsOwn`, `NoSpuriousAbort` | none |
| `BrowserProofs`: `BrowserTypeCorrect`, `SessionIsWhole`, `UsersComeFirst`, `UploadsAreOnesOwn`, `ChoicesAreSpentOnce`, `OnlyTheDeletedLeave`, `WaitingPagesPoll`, `LiveSessionsLast` | `TypeOK`, `UserMatchesToken`, `SessionsHaveUsers`, `OwnUploads`, `OneRowPerChoice`, `DeletedIsGone`, `FollowsUntilFinal`, `LiveSessionKept` | none |
| `CatalogueProofs`: `CatalogueTypeCorrect`, `TestsAreThere`, `SeedsKeepEdits`, `SavesKeepWhatWasAsked` | `TypeOK`, `KeyHasTests`, `SeedsOnlyFillGaps`, `SavesAreKept` | none |

**Platform.** `NoSilentLoss` is not inductive: a delete step would lose a PENDING row, were it not for
`DeleteAfterWrite`, which says that a pipeline arrives there with its row written or its failure
recorded. `DeleteAfterWrite` in turn is not inductive either: an INSERT would make a row PENDING
under a pipeline that is already deleting its message, were it not for `RowComesFirst`.
`PlatformInv` is these three and `TypeOK`.
The ten steps of the pipeline are first reduced to what they have in common
(`PipelineEffect`, lemma `PipelineStepEffect`); then each kind of step (`HandleInv`, `EvaluateInv`,
`AcknowledgeInv`, `TimeOutInv`, `OperateInv`) preserves the parts.
`MutualExclusion` strengthens its property with `HeldInFlight` (the message of a submission
in evaluation is in flight, hence invisible to everybody else) and `SentOnce` (a request does not
send after its message was sent). `LogsFitTheirRows` rests on it: with one evaluation at a time, the log in the
bucket is of the running one from its upload to its UPDATE, and of the one the row reports otherwise
(`LogInv`). `NothingIsLost` shows that without the four faults `unsent` stays empty and `unsaved` holds removed rows only;
`DeletedMeansFinal` needs half of that, that no update is swallowed (`NothingSwallowedInv`), and then follows with
`DeleteAfterWrite`. `FinalRowsStand` and `NothingRunsAgain` share `OnceInv`: until a runner stops, a
submission is final only when its message is deleted or its one pipeline is past its UPDATE (`WrittenOnce`), so that a
pipeline which may still write finds its row not final. Mutual exclusion is part of the argument: the other pipelines must be idle.

**Workspace.** `NothingLeftBehind` is not inductive, as it does not say why a running evaluation will remove its directory:
`CleanInv` names who will (`WillClean`: `extractZip` until it returned, the finally clause from then on). It
holds with any number of evaluations of one submission. `IsolatedWorkspace` rests on `Apart` (evaluations that share
their paths are marked as twins) and `Placed`, what the others find on the disk at each of their steps; the lemma
that carries it is that a step of one evaluation leaves the paths of the others alone. `NothingAbortsByItself`
follows from `Placed`: each guard under which a step fails without a fault (the directory is gone or somebody
else's, the archive is not whole) is false in its place.

**Refinement.** `PlatformKeepsPromise` maps `Init` to the abstract initial states and every step to
an abstract step or a stutter, under `PlatformInv`: a step of a pipeline is a step of the
abstract evaluator only if it writes the row, and `NoSilentLoss` gives that what stops being owed is
final or lost.

**Executor.** `ExecutorInv` relates, per command, the child, its pipes, its timer and the place where
`executeTests` stands: commands before it are settled, those after it were not started, a settled one has neither a
running child, nor a helper, nor a pending timer. `ScoreIsNearest` rests on `PercentRounds` (the score is within half a
point of the exact share for all counts, negative ones included, and whatever `ShortTies` is) and `PercentBounds`.

**Browser.** `BrowserInv` has four parts. The session: the stored token was issued, the stored user
is its owner. The table. The pages: what a page shows and dropped fits where it stands. The requests (`Sound`, `Located`): what
each operation asks and answers, that a request answered `expired` carried no live token, that a request in a tab belongs to the page it shows.
Steps are of three shapes, each with a lemma: a tab leaves a page (`LeaveInv`), a tab stays (`StayInv`), the API answers
(`AnswerInv`). `WaitingPagesPoll` adds `StreamInv`: a page that shows PENDING or says that it refreshes has a stream,
running or broken, and a poll is out only of a running stream, one at a time; so the load of a Refresh can neither end a stream
nor find an answer of an earlier one. `ChoicesAreSpentOnce` adds `Once(f)`: a choice of a file is in one place at a time (ready in a
page, carried by one request of a chain, or held by one row), so that a step can only pass it on.

**Catalogue.** `CatalogueInv` says of each call what its copy is (`Fresh`): as long as nobody else wrote
the PIT, the row at first, then the row as the call wants it, and for the columns it will not write, the
row's own values. The lemma that carries the proof is `OthersStaySound`: a write either leaves no other call with a copy
or puts the PIT in `raced`. `SeedsKeepEdits` is read off `Fresh`: a seed that found no row arrives at an UPDATE
only after another call's write, which put the PIT in `raced`.

Only model-checked: the liveness properties (`EventuallyFinal`, `MessagesDrain`, `Returns`), which rest
on fairness and are beyond the prover, and the four violations, which are counterexamples.

## 5. What could follow

* A refinement from `Workspace` to the steps of one evaluation in `Pipeline`, which today share the code but no state.
* Liveness of the pages (a status page shows the final status if no poll fails), once a bound on
  requests is assumed.

## 6. Not modelled

* Contents: feedback texts, logs, members of archives, the fields of a PIT beside one required and one optional
  field. The fields a PIT has in the table (test command, time limit, setup commands) are read by nothing in the
  runner, which takes them from JSON files of its image (`pit-config.service.ts`).
* Messages that do not parse and dead-letter queues: the API sends only well-formed messages.
* The mail with the magic link: a link can be followed at any time, also one that expired.
* The insert of an unknown user by the guard: `SessionsHaveUsers` shows that it never happens.
* Files the upload form rejects, progress bars, colours and texts, the rendering of the PIT list (any PIT
  ever created may be clicked in it, also one just deleted), the static `attach` page, server-side rendering.
* The growth of `./tmp`, whose downloads are never removed; the members of the archives in the work directory.
* Start-up configuration (`config.ts`), framework wiring, the PIT generator (an interactive tool that writes one
  file), the deployment scripts.
* SQS losing a message by its retention period, and S3 or Postgres losing what they acknowledged.
* `docs/backend.md:1938` also says that the message of a submission whose row cannot be written is kept; the
  `shutdown` run shows the loss, and no run of its own repeats it for a failing database.
* `executor.service.ts:322` documents a score of 0 to 100: it is negative when the last summary reports more failures,
  errors and skipped tests than tests (`ScoreIsEarned` gives the bound for summaries that add up).
* `docs/backend.md:1937` gives a failed build the status DONE with score 0; the code writes ERROR, which is what
  `Executor` models. Only the label differs, and no run is spent on it.
