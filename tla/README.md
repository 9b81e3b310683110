# A formal model of the CodeMate backend

TLA+ specifications of the parts of this backend whose correctness depends on
interleaving, failure and delivery, the TLC configurations that check them, and TLAPS
proofs of the most important results. Paths are relative to the root of the repository.

## The system

CodeMate is a FastAPI application over Postgres (SQLAlchemy, asyncio), with a Redis queue
served by dramatiq workers, the Judge0 code runner, S3, e-mail and several language
models. `machine/api/v1` holds the routers, which call controllers (`machine/controllers`)
and repositories (`machine/repositories`, over `core/repository/base.py`); `tasks/` holds
the actors that the workers of `worker.py` run. There is no shared memory between
requests: everything that two requests, or a request and a worker, have in common is in
Postgres, in Redis or in a remote service, and every `await` lets others run.

Transactions. `@Transactional` (`core/db/decorators.py`) commits after the decorated
function and rolls back on an exception; `session_context` (`core/db/utils.py`) rolls back
what an actor did not commit. Many repository calls pass `commit=True`, which commits what
was written so far in the middle of the enclosing function. Reads and writes go through
two connections (`core/db/session.py:25-29`), so that a session does not see its own
writes before it has committed them.

### Inventory

| Component | State | Operations | What is hard | What makes it correct |
|---|---|---|---|---|
| Judging of submissions: `controllers/exercises.py` `create_coding_submission`, `tasks/update_submission_result.py`, `services/judge0_client.py`, `worker.py` | submissions, test results, poll messages, Judge0's tokens | submit; poll, decide; retry, dead-letter | task sent before the commit, submission committed before its results, at-least-once delivery, retries, concurrent attempts, deletions meanwhile | no task lost, sound and stable decisions, attempts atomic, everything settles |
| Exercises and test cases: `api/v1/exercise.py` | exercises, test cases, language configs | add, edit, read, delete | a lookup and a later statement, cascades, one JSON column for two shapes of questions | no dangling rows, an error changes nothing |
| Issues summary: `tasks/update_issues_summary.py`, `api/v1/module.py:322-854` | `student_courses.issues_summary`, `achievements` | analyse a quiz, analyse a submission | two writers of different formats, each reads, calls a model and writes the whole column; double counting on redelivery | only resolved issues disappear, none is counted more often than reported |
| Quizzes: `api/v1/module.py` | questions, quiz score and status, module, lesson and path progress | show, submit, clear | a commit per step, a session that keeps the rows it has read, answers paired by position | score of the stored answers, progress settles on the aggregate |
| Assistant conversation: `controllers/exercises.py:49-276` | conversation, messages | open, send, stream | creation on first use, shared by all users of an exercise, two transactions around a stream | no message lost, each reply after its question |
| Accounts: `api/v1/auth.py` | password, verification and reset codes, tokens | login, verify, resend, forgot, reset | code mailed before it is stored, three tables searched for one e-mail | only the last mailed code is accepted, once |
| Documents: `utils/file_processor.py` | document status and progress, temporary file, S3 object | upload and process | shared temporary name, file read twice, failing error handler | completed means text and file stored; never left in "processing" |
| Learning paths: `api/v1/ai_routers.py`, `recommend.py`, `controllers/ai/lp_planning.py` | path, lessons, modules, documents, bookmarks, generated quizzes and exercises | generate, regenerate, monitor, toggle, read | long model calls between reads and writes, four commits per path, answers of any shape | a reported path is whole, a supplement announced, a generated quiz adds up |
| Courses and enrolment: `api/v1/courses.py`, `professor.py` | courses, enrolments, images | create, enrol, delete, list by pages | check-then-insert, partial failure over several courses, pages that are queries of their own | no unexplained duplicate, answers are kept, nothing is skipped |
| Users, dashboards: `api/v1/user.py`, `dashboard.py`, `schedule.py`, `progress_tracking.py` | user rows, time spent | create, edit, list, count, show | row by row commits, three tables, reads course by course while rows change | what is answered is so, what is shown is whole |
| Repository, transactions: `core/repository`, `core/db` | sessions | queries, pages, commit | `commit=True` inside transactions, two connections, rows kept in a session | modelled where a component meets them |
| Chunking of prompts: `utils/chunk_manager.py` | chunks, attempts, results | cut, send, combine | retries, empty and failing answers, items larger than a chunk | every item is sent once, every result is accounted for |
| Cache, other LLM clients, schemas, settings, mail, S3, migrations, scripts, evaluation, tests | none of their own | | | left out, see the end |

`PROJECT.json` lists the same components with their sources and status, and the hazards of
each at the line where they bite.

## Modules

| Module | Code | What it is |
|---|---|---|
| `SubmissionPipeline` | `controllers/exercises.py`, `tasks/update_submission_result.py`, `worker.py` | the judging of submissions: requests, workers, queue, Judge0, deletions, faults; its inductive invariant |
| `SubmissionLifecycle` | the same | what the pipeline promises: the life of the rows of a submission |
| `QuizSubmission` | `api/v1/module.py`, `repositories/` | showing, answering and scoring quizzes; progress of module, lesson and path |
| `IssueMerge` | `api/v1/module.py:687-854` | `process_issues` and `process_achievements` as functions on sequences, with their reference |
| `IssuesSummary` | `api/v1/module.py`, `tasks/update_issues_summary.py` | the two writers of a student's issues |
| `Accounts` | `api/v1/auth.py` | login, verification, resending, forgotten and reset password, Google login |
| `UserDirectory` | `api/v1/user.py` | creation, editing, status, information, list and count of users |
| `PathGeneration` | `api/v1/ai_routers.py`, `controllers/ai/lp_planning.py`, `controllers/recommend.py` | generation of learning paths by the router and the planner; reading the newest |
| `LessonWork` | `api/v1/ai_routers.py`, `recommend.py`, `controllers/learning_material_gen.py` | the writers of one recommended lesson; generated quizzes and exercises |
| `CourseAdministration` | `api/v1/courses.py`, `professor.py`, `core/utils/file.py` | courses, enrolments, images, deletions |
| `CourseListings` | `api/v1/courses.py`, `professor.py`, `core/repository/base.py` | listings, page by page |
| `Dashboards` | `api/v1/dashboard.py`, `schedule.py`, `progress_tracking.py` | what professors and students see of their courses; the time spent |
| `LessonMaterial` | `utils/file_processor.py`, `api/v1/lesson.py` | uploads and the deletion of their lesson |
| `ExerciseAdmin` | `api/v1/exercise.py` | the life of exercises, test cases and configurations |
| `AssistantConversation` | `controllers/exercises.py:49-276` | questions, histories and replies of the coding assistant |
| `PromptChunks` | `utils/chunk_manager.py` | cutting data, sending chunks, combining results |
| `Collections` | | the sum of the values of a function, as taken of scores and frequencies |
| `MCSubmissionPipeline`, `MCPeople`, `MCLearning`, `MCCourses`, `MCContent`, `MCModels` | | the instances for TLC |
| `SubmissionPipeline_proofs` | | the theorems about the judging of submissions, and the refinement |
| `People_proofs` | | about `Accounts`, `UserDirectory` and their scenes in `MCPeople` |
| `Courses_proofs` | | about `CourseAdministration`, `CourseListings`, `Dashboards`, `MCCourses` |
| `LessonWork_proofs` | | about `LessonWork` |
| `LearningPaths_proofs` | | about `PathGeneration`, `QuizSubmission`, and the scenes of `MCLearning` |
| `Content_proofs` | | about `LessonMaterial`, `ExerciseAdmin`, `MCContent` |
| `Models_proofs` | | about `AssistantConversation`, `PromptChunks`, `IssueMerge`, `IssuesSummary`, `MCModels` |
| `Collections_proofs` | | what the sums, concatenations and folds of the library return |

Common to all: a request is a process, cut at its awaits. An action is what runs from one
await (or commit) to the next, with the reads and writes of the code in between; `pc` is
where the request stands, `"failed"` the end by an exception, after which what was
committed stays. What a request holds in local variables or in its session (`seen`,
`held`, `local`, `work`, `tx`) is separate from the database, so that stale reads are as
stale as in the code. What a model answers is any member of a small set of shapes, the
unwelcome ones included. Variables marked `history` are read by properties only. Operators
named `X_Something` are the mutants of `X`, one for each property of the passing runs; no
specification uses them.

### SubmissionPipeline

All submissions are to one exercise, since submissions to different exercises share only
the workers. The variables are the committed database (`exercise`, `testcases`, `status`,
`testResults`), Judge0's side (`judge0`), what each request holds (`handler`, `snapshot`,
`fetched`), the queue (`queue` as a bag, `deadLetters`, `warned`) and what each worker
holds (`worker`, `message`, `rows`, `dirty`, `loaded`). A result row is its verdict:
`"queued"` stands for the two statuses the actor waits on ("In Queue", "Processing"),
`"rejected"` for every final status other than "Accepted", `"none"` for no row.

*The request* is cut at its awaits: `ReadTestCases`, `PostBatch`, `FetchBatch`,
`CreateSubmission` (its own commit), `FlushResults`, `SendPollTask`, `CommitResults` (the
commit of `@Transactional`). `AbortRequest` is an exception or the end of the process at
any of them: the transaction is rolled back, the committed submission and a sent message
remain. `PostBatch` lets Judge0 reject any part of the batch but all of it; `FlushResults`
is enabled only when there is a report for each test case, because `test_results[i]`
raises otherwise.

*The actor* is cut at its awaits as well: `FetchMessage`; `NoTestResults` or
`ReadTestResults`; `PollJudge0` or `PollRaises`; `LoadSubmission`, which includes the
autoflush of the updated rows and therefore waits for their locks (`Locked`);
`SubmissionOrExerciseGone` or `EvaluateSubmission`; `CommitDecision`. `Raise` is what the
Retries middleware does with an exception. `FlushRaises` is the `StaleDataError` of a row
deleted since it was read; `ServiceError` any other exception at any await. A worker in
state `"ack"` or `"nack"` has left the actor and has not yet acknowledged its message, so
that a crash there redelivers a message already processed.

*Faults* of the delivery: `CrashWorker` (message redelivered, work lost), `LoseLease`
(message redelivered, work goes on), `ExpireMessage` (AgeLimit).

*The database.* A read sees what is committed at that moment. The results of an open
transaction lock their rows and the parents they refer to, so `DeleteTestCase` and
`DeleteExercise` wait for them; both cascade.

Abstracted: the text of code, inputs, outputs and evaluations, times, scores, users,
back-off delays (a message is available as soon as it is queued), and the order of the
queue, which redelivery and delays make arbitrary. The LLM's evaluation writes only
`llm_evaluation`; whatever it answers, the actor goes on.

### QuizSubmission

One student's path; `QuizOf`, `ModuleOf` and `LessonOf` are the tree. A request is the
page shown (`Open`) and the submission that follows (`Load`, `ReadQuestions`, a
`StoreAnswer` and commit per answer, `StoreScore`, then `StoreAverage` for the module,
`Analyse`, `UpdateModuleProgress`, and the lesson and the path). Two facts of the code
decide what happens: no query orders the questions, and answers are paired with them by
position (`scan` is the order in which the table yields them, which every rewriting of a
row may change); and the session keeps the rows it has read, so that the second selection
of the quizzes returns what the first one did, and a value equal to the one held is not
written. Rounding is the code's: two decimals, halves to even, integer columns.
`DivideByZero` is the quiz without questions. The history variables name exactly what the
properties exclude: questions rewritten between showing and judging (`moved`), overlapping
submissions of a quiz (`mixed`), aggregates that overlapping or failed requests left
(`unsettled`).

### IssuesSummary and IssueMerge

The analysis of a quiz stores an object, the actor a text; each takes the other's format
for what the code takes it for. `ReadCourse`/`Answer`/`WriteAnalysis` (or `MergeRaises`)
is the analysis, `StartTask`/`AnswerTask`/`CommitTask` an attempt of the actor
(`CommitUnchanged` when the text is the one it read, which SQLAlchemy does not write), with
`TaskRaises` (retries, then dead letter) and `Redeliver`, before the commit or after it. The statement that would queue
the task is commented out in the code; `SendTask` is an operator's. `IssueMerge` follows
the code's index arithmetic: descending pops, lookups by the indices from before, `Raised`
for an index out of range.

### Accounts and UserDirectory

`Accounts` has the row of one address in each of the three tables. A request looks the
tables up one after the other, reads, mails a code where it must, and writes; nothing is
locked in between. `ExpireCode` lets a code expire at any time, `AdminCreates` is
`user.py`'s creation. `UserDirectory` has all users as their administrator sees them. Its
`Found` is a fact of the code: a condition that is not in a list has no truth value of its
own and is dropped, so that the first row of the first table is taken.

### PathGeneration and LessonWork

`PathGeneration` commits a path in the code's four parts (`CreatePath`, `CreateLessons`,
`CreateModules`, `CreateDocuments`), with every failure between them; the planner's
`StorePlan` is one transaction. `LessonFor` is `assign_recommend_lesson_id`, which deals
the joined list of modules out by the numbers asked for. A view reads the newest path in
three statements. `LessonWork` has one lesson's row and its writers; `Rewrite` writes
columns worked out from the row read before the model's calls, the progress among them. A
generated quiz is created, asked for, scored and filled in by steps of their own; a
generated exercise is committed before its parts.

### CourseAdministration, CourseListings and Dashboards

`CourseAdministration` creates a request's courses in one commit and enrols the students
of each in another; courses are told apart by the request and position that created them.
Foreign keys are those of the schema: enrolments go with a course, paths, exercises and
feedback (`depended`) forbid its deletion. `CourseListings` is a client that turns pages,
each a query of its own over rows that change in between (`Offer`, `EnrolIn`, `Withdraw`,
at most `MaxChanges` of them); an order that does not tell rows apart allows any order of
them. `Dashboards` reads course by course; each
addition of time has an amount of its own, so that a time is the set of the additions in
it.

### LessonMaterial and ExerciseAdmin

`LessonMaterial` follows `process_document` file by file: the record, the temporary file
named after the upload (shared by uploads of one name), the text, the object, the end. A
file is one position of one upload: what is uploaded twice is two files of one name.
`clobbered` (a history) has the files whose copy met another of its name before it was
extracted, whether or not the copy was still there. An
error ends in `Abort`: the handler's own `NameError` (see Findings). `ExerciseAdmin` has
the lookup of each handler and its one statement as two steps; quiz and code handlers
write the same JSON column.

### AssistantConversation and PromptChunks

An exercise has one conversation, created by whoever comes first. A question is a
transaction that looks, flushes and commits; the history another; the reply, after the
stream, a third, with the exercise as the second one read it. The database blocks a flush
on the lock of another creation's update (`Blocked`) and refuses a link that is there
already (`Refused`). The exercise may be deleted at any time (`DeleteExercise`); a
transaction that begins after that raises (`NotFound`), one that had yet to give it its
conversation fails at the flush (`Fails`), and a request that failed rests in the place
that names the transaction. `Break` is the end of the generator, by the model, its stream
or the client that leaves: at any await after the question's lookup, with the transaction
that is open rolled back. `PromptChunks` is `chunk_data` as a fold and `call_llm_api`'s loop
over chunks and attempts.

### The instances: scenes

TLC checks the components in five modules that put several of them together (`MCPeople`,
`MCLearning`, `MCCourses`, `MCContent`, `MCModels`). These components meet only in rows
that the models do not share, so nothing is gained by interleaving them: each behaviour
plays one *scene*, in which one component acts and the others rest. Such a module EXTENDS
its components and gives them the constants of its cfg; its `MCNext` is the disjunction of
the components' next-state relations, each restricted to the *cast* of the scene (`Cast`,
`PathCast`, `QuizzesIn`, `Audience`: the requests that may leave their first state). What
a scene restricts besides is written at its definition: the rows at the beginning, or how
much of one bound it uses. The constant `Scenes` names the scenes that a run plays. The
properties are the components' own; only the type invariant, `TypesOK`, is the
conjunction of theirs.

## Properties

Judging of submissions:

* `NoLostWork` - a pending submission whose task was sent has its task in the queue or in
  an attempt, or was given up *in sight*: by a dead letter, or by the warning "No test
  results found". The second is the race of `exercises.py:331`: the task is sent before
  the results are committed, and a fast worker finds none and acknowledges.
* `DecisionSound` - completed: every test case the request submitted and nobody deleted
  has an accepted stored result; failed: Judge0 rejected one of them.
* `AllOrNothing` - attempts that raise leave no verdicts behind.
* `DecisionStable` - duplicated or retried attempts never turn one decision into the
  other, unless one of the submission's test cases was deleted. (With a deletion they do:
  the second attempt decides on what is left.)
* `EventuallySettled`, `EventuallyQuiet` - under fairness every stored submission is
  decided, deleted or given up in sight, and the queue drains.
* `ImplementsLifecycle` - the rows take only the steps of `SubmissionLifecycle`: in
  particular the verdicts and the decision appear together, and a decision always is the
  outcome of a set of final verdicts that includes all the stored ones. The refinement
  maps `results` to `testResults` and `verdicts` to `judge0`.
* `StoresTokens` - the docstring of `create_coding_submission`, "Submits a coding exercise
  solution and stores test result tokens": it does not hold, see below.

People:

* `MailedCodes` (`Accounts`) - a code that is stored was mailed for that purpose, and the
  last code that was mailed is the one stored unless its mail met another request or an
  error. Mail first and store later is the code's order; the property says exactly what
  that order costs.
* `UndoneOnlyByStaleReads` (`Accounts`) - verification or a first password is undone only
  by a login that had read the row before.
* `UsersAreAsAnswered`, `UsersAreRead` (`UserDirectory`) - an edit stays whatever overlaps
  with it, an answered creation made all its users itself; a list or a count that reads
  three tables one by one is right for some time of its reading.

Learning:

* `SupplementsAnnounced` - a lesson announces exactly the supplements that were generated,
  unless one was overtaken; `BookmarkIsAsReported` - the bookmark is what the last toggle
  answered, next to all other writers of the row; `GeneratedIsWhole` - extra modules with
  their documents, quizzes with the `max_score` of their questions, exercises with both of
  their parts, or a request that runs or failed.
* `PathsAreWhole`, `ModulesUnderTheirLesson` - a path reported as generated is complete,
  the current one is partial only because of a generation that runs or failed; a module is
  under the lesson it was made for as far as the model answers with the numbers asked for.
* `StoredScores` - a completed quiz has all answers and the score of these; `EarnedScore`
  - each right answer is credited, unless the rows were rewritten in between;
  `SettledProgress` - once all is quiet, each level is the rounded average of the level
  below, except where the last requests overlapped or failed.

Courses:

* `AnswersAreKept` - courses, enrolments and images are as answered, whoever else creates,
  enrols, uploads or deletes; `DuplicatesComeFromOvertaking` - two courses of one key come
  from one request, or from one that was overtaken between its check and its insert.
* `PagesShowAll` - who turns the pages to the end sees every course that was there all the
  while; `ShownIsWhole` - dashboards show the next events, schedules all of them, and the
  time spent lacks an addition only where two overlapped.

Content:

* `DocumentsAreAsReported` - a completed document has text and object, an upload answered
  as failed or done is stored so; `TempFilesAreSound` - a text is that of its file unless
  another file of its name was copied between its copying and its extraction, and a
  temporary file is left behind only by an upload that runs or failed.
* `EditsAreWhole` - a request answered "ok" changed the rows itself, but for the deletion
  that found its row gone already (`LateDeletion`); an error changed nothing but where the
  answer itself fails after the deletion; an exercise bears what an edit answered "ok"
  wrote until another such edit or its deletion; and it is as one request stored it.
  `PartsHaveTheirWhole` - no test case, configuration or attempt outlives its exercise.

Models:

* `MessagesAreInPlace` - a reply is in the conversation whose history the model was shown,
  after all of it, and each writer is linked; `ChunkedDataIsAccounted` - the chunks are
  the data in order, no two neighbours would fit into one, and the results are those of
  the chunks that were answered.
* `MergeIsReference`, `FrequenciesAreReported`, `OnlyResolvedDisappear` - the merge equals
  its reference when the answer is unambiguous; no frequency exceeds what was reported
  (with the redeliveries counted); an issue that nobody resolved and an achievement
  disappear only by a writer that had read before another wrote, or by the other's format.
* `UnansweredHaveACause` - a question that is stored and not answered is being worked on,
  or the model or client broke off, the exercise was deleted, or another request of the
  same user linked it between the history's lookup and flush. These are the ways in which
  a question or a reply is lost with nobody told; the property says that there are no
  more, in particular that requests which open, link and write the same conversation are
  none once the history is committed.

`TypesOK` of each module says that all variables of all its components have their types.

## Fairness

`FairSpec` assumes weak fairness of each started request (it goes on or is aborted), of
each worker's own steps, and of Judge0 on each token. The event loops run every task that
is ready, an await that cannot succeed ends in an exception or a timeout, and Judge0
limits the time of a run. Nothing is assumed of errors, crashes, expiries, deletions or
the arrival of requests, and in particular `ServiceError` may strike every attempt. No
fairness between the workers is needed: a message that nobody else takes is taken by any
worker that is idle for ever.

The other components have safety properties only and assume nothing: streams may stay
open for ever, clients may vanish, and a request may stop anywhere.

## Runs

| Run | Instance | Question |
|---|---|---|
| `duplicates` | 1 submission, 2 test cases, 2 workers, 1 retry, 1 fault | the safety properties and the refinement, with everything that may happen to one submission |
| `shared` | 2 submissions, 1 test case, 2 workers, 1 retry, 1 fault, symmetry | the inductive invariant, when submissions share workers and a deleted test case |
| `liveness` | 1 submission, 1 test case, 2 workers, 2 retries, 1 fault | everything settles |
| `people` | 2 account requests, 2 codes, 2 passwords; 2 edits and a status; 2 creations with a count; a list beside both | accounts and users |
| `learning` | 2 regenerations and a monitoring; 2 toggles and a regeneration; a quiz, an exercise and a regeneration; a path of 2 lessons of up to 3 modules; planner, generation and view; 2 submissions over 3 quizzes; a submission and a clearing over thirds | paths, lessons, quizzes |
| `courses` | 2 creations of up to 2 courses, an update and a deletion; 2 additions and deletions; 3 images; a client that turns up to 4 pages of 2 of up to 4 courses, with up to 5 changes in between; a view of 3 exercises of 2 courses, one of which changes; a schedule; 3 additions of time and a visit | courses, listings, dashboards |
| `content` | 2 uploads of 2 files each, 3 of one name, beside a deletion and a listing; 2 edits and a deletion; a creation, a reading, a deletion and 2 configurations; 2 creations and 2 changes of test cases, a deletion and a submission | documents, exercises |
| `models` | 2 asks, a listing and a deletion of the exercise, with and without a conversation; up to 4 items of 5 sizes, cut; up to 3 items, sent with 3 attempts; the analysis of a quiz beside the actor; the analyses of 2 quizzes | what surrounds the models |
| `stores_tokens` | 1 submission, 2 test cases, 1 worker | finds the violation |
| `accounts_verified` | 2 account requests | finds the violation |
| `lesson_progress` | a regeneration and a monitoring | finds the violation |
| `material_stuck` | the uploads of `content` alone | finds the violation |

Bounds. For the pipeline, two test cases are what it takes for a mixed verdict, a batch
accepted in part, and a deletion that leaves a result; two workers and one fault for two
attempts at one task (a lost lease), for a crash between the commit and the
acknowledgement, and for an expiry; a retry bound of one for a retry and for the last
failure (the code's bound is five; the bound is a constant and the proofs are for any).
Submissions interact only through the workers and the deletions, so two suffice for their
interactions.

In the scenes the hazards are races of two requests, or of a request and a writer of
another kind, and each scene has both of each; a third request (images, additions of time,
a listing beside two questions) is there where the repair or the observation of a race
takes one. Sequences have a length of two where a position can be mistaken, three
questions for a score that is no whole percentage, pages of two rows over four for a full
and a last page, chunks of three tokens with items at, below and above that. `MaxPage`,
`MaxEdits`, `MaxChanges`, `MaxTime`, `MaxRetries`, `MaxRedeliveries`, `MaxItems`,
`MaxModules`, `MaxLessons`, `MaxBatch` and `MaxQuestions` are the named bounds of what the
code leaves open.

The runs do not check for deadlock: requests, retries and faults are finite and the
systems come to rest; `EventuallyQuiet` says for the pipeline in which state. `shared`,
`people`, `accounts_verified` and `learning` use symmetry over sets whose members are only
compared for equality. None of those checks a liveness property; the action properties of
`people` and `accounts_verified` speak of single steps and are symmetric themselves.

### Findings

* `stores_tokens`: the submission is committed on its own (`exercises.py:315`) and the
  results later. Any exception in between, for instance the `IndexError` of
  `test_results[i]` when Judge0 accepted only part of the batch (`judge0_client.py:71-73`
  filters the rejected entries out), leaves a submission that is pending for ever: no
  result was stored, no task sent.
* `accounts_verified`: a login that found the address unverified waits for its mail and
  then writes `is_email_verified=False` (`auth.py:233`) over a verification that was
  answered meanwhile.
* `lesson_progress`: "Keep existing progress" (`ai_routers.py:871`) writes the progress
  read before the model's calls.
* `material_stuck`: the error handler of `process_document` calls `traceback.format_exc()`
  without importing `traceback` (`file_processor.py:151`): the document stays in
  processing, and the rest of the upload is dropped.

Other disagreements of code and text, which the models contain as the code has them:

* `module.py:890` reads `quiz.questions` without loading it: clearing a quiz's answers
  always raises (`ClearRaises`).
* `module.py:706-711` pops an issue once per mention, and with it a neighbour that nobody
  resolved.
* `update_submission_result.py:108` logs that the summary's update is triggered; the send
  is commented out.
* `ai_routers.py:692` deals modules out by the numbers asked for, not by those answered;
  `ai_routers.py:1432` passes four of seven arguments, so that regeneration by issues
  fails on every call; `ai_routers.py:1333` raises where its message says "Defaulting to
  proceed"; `ai_routers.py:1867` does not delete the quiz it means to clean up.
* `courses.py:903` misses duplicates within a request and between two; `courses.py:818`
  gives a single course to the first professor of the table; `courses.py:328` counts
  unregistered numbers as already enrolled; `courses.py:1183` and
  `controllers/recommend.py:144` cannot delete what others refer to.
* `file_processor.py:106` uploads the stream after it was read to its end: an empty
  object; `lesson.py:431` fails for all documents when one has no URL; `lesson.py:258`
  cannot delete a lesson with a generated quiz.
* `exercise.py:283` and `:486` store a type next to questions of the other shape;
  `exercise.py:468` keeps test cases where no submission looks for them.
* `professor.py:109` cuts the page out of the page: nothing is left from the second on;
  `courses.py:133` counts the rows of the page for the total; `courses.py:412` orders by a
  date that does not tell courses apart; `courses.py:55` leaves a student without an
  answer.
* `controllers/exercises.py:134` loses a conversation when two are opened at once; `:58`
  shows a student the messages of all; `:254` repeats a question after which another
  message came.
* `user.py:610` and `:576` read the first row of the first table, whoever is asked for.
* `chunk_manager.py:228` prints an unbound `wait_time`: the retry after a quota error does
  not happen.
* `progress_tracking.py:222` loses one of two overlapping additions; `schedule.py:74`
  lists what has closed; `dashboard.py:44` orders by a time that nothing updates after the
  enrolment.

## Proofs

Every safety and action property that a passing run checks is proved, and so is the
refinement: `PROJECT.json` lists the theorems with the property that each of them states.
A theorem holds for any values of the constants that satisfy the named assumptions of the
module it is about; the runs check the same definitions on their instances, and the
theorems say that the instances were not what made them hold.

In each case the property is not inductive. The proof module states the invariant that is
(`IInv`, or one named after the component: `UserInv`, `ListingInv`, ...), and has one
lemma for each action that changes what the invariant speaks of, from which a lemma for
`Next` and, by induction over the behaviour, the theorems follow. Lemmas about what a step
leaves alone come first, so that the proof of a step treats only the conjuncts which the
step can disturb.

### Judging of submissions

`SubmissionPipeline_proofs` proves, for any sets of submissions, test cases and workers
and any natural bounds on retries and faults (`MaxRetriesAssumption`,
`MaxFaultsAssumption`):

* `TypeCorrect`: `Spec => []TypeOK`;
* `Inductive`: `Spec => []IInv`;
* `WorkIsNotLost`, `DecisionsAreSound`, `AttemptsAreAtomic`: `NoLostWork`, `DecisionSound`
  and `AllOrNothing` are invariants;
* `DecisionsAreStable`: `Spec => DecisionStable`.

The argument. None of the safety properties is inductive: that a decision is sound depends
on what the worker read, and that on what the request stored. `IInv` adds `RequestInv`
(how far a request is determines which of its rows exist, and what a deleted exercise
implies), `ResultInv` (result rows exist only after the request's commit, exactly for the
test cases that still exist, and their final verdicts are Judge0's) and `AttemptInv` (the
rows a worker has read cover the stored ones, agree with Judge0 in their final verdicts,
and are all final once it has polled). With these `CommitDecision` is sound: each stored
result is among the rows of the worker, so the decision is over all of them; a row the
worker did not update was final when read and so still is. Two attempts that decide
differently must have read different sets of rows, which takes a deletion: this is
`NoFlip`, the lemma behind `DecisionsAreStable`.

The module also proves, under the same assumptions,

* `Submitted`: `Spec => []SubmittedInv`;
* `PipelineImplementsLifecycle`: `Spec => ImplementsLifecycle`.

Each step of the pipeline is mapped to a step of `SubmissionLifecycle` or to a stutter,
from `IInv` and from `SubmittedInv`, which says what `IInv` has no need of: a worker that
has read results has read at least one of them, and what a request holds is what Judge0
took. The step that matters is `CommitDecision` (`CommitRefines`): the lifecycle's
`Decide` takes for its set of judged test cases the rows the worker read. When the
decision is the one it had loaded, SQLAlchemy writes no status and another attempt may
have decided otherwise meanwhile; then the stored results (status completed), or these and
a rejected verdict (status failed), are a set with the decision that stands.

### Accounts and users

`People_proofs` proves of `Accounts` `TypeCorrect`, `StoredCodesWereMailed`
(`MailedCodes`) and the action property `CommitsStay` (`UndoneOnlyByStaleReads`), for any
requests, codes and passwords. `ValuesAssumption` says that the values for "no code" and
"no password" are not codes and passwords, `BuiltInAssumption` that a switch is a Boolean.

A write stores what its request read two awaits ago. `Prepared` therefore says, for each
kind of request that is about to write, what it has read: a login that brings a code found
the address absent or unverified, one that brings none found a row without a password, a
reset found the code it was called with, which was mailed. `MailInv` is the strengthening
of the promise about the last mail: as long as nothing disturbed it, its code is stored or
is the one in the hands of the only request that is storing a code of that purpose. The
word "only" is what makes it inductive: a second request would have disturbed the mail
when it sent its own. For `CommitsStay`, each writer either writes what keeps a
verification and a password or is the login of the property.

Of `UserDirectory` it proves `UserTypesHold`, `AnswersOnUsersHold` (`UsersAreAsAnswered`)
and `ReadingsOfUsersHold` (`UsersAreRead`), for any finite tables of users
(`KindsAssumption`: the tables have no user in common and a request is one call;
`KnownAssumption`: there is an administrator at the beginning). `UserInv` says how far each
request has come and what the rows owe to it: a creation the users that it has made,
alone (`CreateFits`, `MadeOnce`), an edit the fields that nobody else gives (`EditFits`),
a list the matching users of the tables behind it and a count their number (`ListFits`,
`CountFits`). It is kept because a step moves the rows one way only: users come and none
goes, and the status of a user that is changed at most once does not change after it has
settled; so that what a reader has counted is still there when it reads the next table.

### Courses, listings and dashboards

`Courses_proofs` proves of `CourseAdministration` `TypeCorrect`, `AnswersStay`
(`AnswersAreKept`) and `OnlyOvertakingDuplicates` (`DuplicatesComeFromOvertaking`).
`KindsAssumption` says that a request is one call of one handler and that a course which
it creates was not there before, `BatchAssumption` that a batch may have a course,
`ImageAssumption` that `NoImage` is not the name of an image.

`CreationInv` follows a creation over its commits: `WorkOf` is what it holds, `MadeOf`
that its courses exist or were deleted and that those before the next have all their
registered students. It carries the induction over the batch as an invariant over the
position, which is why no fact about a loop is needed. `AdditionInv` says that whoever an
addition saw enrolled stays so while the course does, because enrolments go only with
their course. `ImageInv` strengthens the property from "some upload runs" to "an upload *of
this course* runs": the store of the image by another course's upload would otherwise take
the excuse away.

Of `CourseListings` it proves `ListingTypesHold` and `WalksShowAll` (`PagesShowAll`), for
any finite catalogue and any size and number of pages (`CatalogueAssumption`,
`SizeAssumption`). The place of a course is the number of courses before it in its list,
as long as the order tells courses apart; what a page shows is then the courses with the
places of the page, whatever order the query took. `AdminFits` and `StudentFits` say that
the client has seen every course whose place is on the pages behind. A new course can only
move places away from the beginning, a new enrolment comes at the end, and a deletion is
what the property excludes.

Of `Dashboards` it proves `DashboardTypesHold` and `WhatIsShownIsWhole` (`ShownIsWhole`),
for any finite set of exercises (`CourseAssumption`, `BoundAssumption`,
`ViewersAssumption`: visited courses are taught ones, the bounds are naturals, requests
are one call each). `ReadingFits` says that a reader has what it should have of the courses
behind it, of each exercise that nobody has touched since; `AdditionsFit` that an addition
that has read the time lacks no answered addition that it has not met.

### Lessons

`LessonWork_proofs` proves `TypeCorrect`, `SupplementsStay` (`SupplementsAnnounced`),
`BookmarkReported` (`BookmarkIsAsReported`) and `GeneratedStaysWhole`
(`GeneratedIsWhole`), under `PointsAssumption` (points are naturals, averages percentages)
and `KindsAssumption` (as above).

The core is `HeldInv`: a writer of the lesson's row that was not overtaken holds, of the
columns that its kind writes back, what is still stored. The property follows for the row
that a `Rewrite` or a `Toggle` makes of what it held. `RegenInv`, `QuizMadeInv` and
`CoderInv` say how far each request is and what is stored of it, with the order of the
commits: a quiz has its `max_score` before its questions, an exercise its parts at the
end. `PointsInv` is inductive beside them, with lists of points for what a model has
answered: the maximum of a quiz is their sum and so a natural number.

### Paths and quizzes

`LearningPaths_proofs` proves of `PathGeneration` `PathTypesHold`, `PathsStayWhole`
(`PathsAreWhole`) and `ModulesAreUnderTheirLesson` (`ModulesUnderTheirLesson`), for any
requests, catalogue and bounds (`CallsAssumption`, `BoundsAssumption`). `PathInv` has the
stations of a generation: at each of them, what is stored of its path is exactly what its
commits so far stored of the answer, and nothing of a plan is stored before all of it. A
view has found a path at least as new as the newest there was when it began. That modules
come under their lesson is a fact about positions: `LessonFor` takes the lesson whose share
of the sum of the numbers asked for contains the position (`Falls`), and when the model
answers with these numbers the shares are the runs of modules that were made for each
lesson.

Of `QuizSubmission` it proves `QuizTypesHold`, `ScoresAreOfStoredAnswers`
(`StoredScores`), `RightAnswersAreCredited` (`EarnedScore`) and `ProgressSettles`
(`SettledProgress`), for any finite tree of lessons, modules, quizzes and questions
(`TreeAssumption`) whose levels have different names (`LevelsAssumption`). In `QuizInv`,
`AnswersOf` says that a request has been credited for exactly the questions it has answered
rightly at their position, and that who was not overtaken holds the order of the table;
`StoredOf` that, while one submission of a quiz stores answers, they are what it is
credited for. `ProgressInv` is inductive beside it. `LevelsInv`: a settled level that does
not hold the average of the level below has a request that will store it. `CrowdInv`: a
request either has run at the same time as another, and nothing above its quiz is settled,
or it is the only one that runs; and then (`AloneOf`) what it holds of the rows is what is
stored, so that what it writes, or leaves because it seems unchanged, is the average.

### Documents

`Content_proofs` proves of `LessonMaterial` `MaterialTypesHold`, `DocumentsStayAsReported`
(`DocumentsAreAsReported`) and `TempFilesStaySound` (`TempFilesAreSound`), for any number
of uploads of any length. `FilesAssumption` says that an upload is a sequence of files,
each in one place of one upload; `RequestsAssumption` that an upload is not also a
deletion or a listing; `TextsAssumption` that "no text" and the
notice about an unreadable file are not texts of files.

`FileInv` is the life of the current file, station by station, `DocumentInv` the agreement
of row, text, object and report, `TempInv` that a temporary file is the current file of an
upload that has copied it and not gone on. The proof of `TempFilesAreSound` failed for an
earlier form of the history `clobbered`, which had only the file whose copy was overwritten
while it was there: with three files of one name, one can be removed by another upload's
clean-up and replaced by the third's copy before it is extracted. TLC confirmed the case
on an instance with three such files, which `content` has since; the history now covers
it. The property, and the code, are about every such meeting.

### Exercises

`Content_proofs` proves of `ExerciseAdmin` `ExerciseTypesHold`, `PartsStayWithTheirWhole`
(`PartsHaveTheirWhole`) and `EditsStayWhole` (`EditsAreWhole`), for any requests that are
one call each (`KindsAssumption`), with questions and types as the schema has them
(`QuestionsAssumption`, `TypesAssumption`).

A handler finds its row and changes it by a later statement, so the invariant must say
what a request that has found still knows (`SentInv`: what it was sent with, and the shape
of the row it saw), although the row may be gone. `IdentityInv` (an identity is given
once, a deleted one never again) lets a statement by identity meet the row it was looked
up for or none. `AnswerInv` says which answers a request that changed something may have
given: its own, or the one error after a deletion. `AnswersInv` is inductive beside them:
who is answered "ok" did the change or is late (`ChangedInv`), and the exercise of an edit
answered so is deleted or bears such an edit (`StandInv`). That they stay true is a fact
about steps (`RowsStep`): exercises leave the table only into `deleted`, what one bears is
changed only by an edit that is answered "ok" in the same step, and a test case that is
gone does not come back.

### Conversations

`Models_proofs` proves of `AssistantConversation` `ConversationTypesHold`,
`RepliesAreInPlace` (`MessagesAreInPlace`) and `UnansweredHaveTheirCause`
(`UnansweredHaveACause`), for any requests, users, texts and length of the history
(`HistoryAssumption`, a positive one; `OpenedAssumption`, Booleans; `RequestsAssumption`, a
request is one call).

The reply is stored by a third transaction, in the conversation the second one read.
`LinkOf` says that the link a transaction saw, or another one's insert which refused its
own, still stands when it commits (links are never deleted); `HistoryOf` that the history
is of the conversation that the request goes on with and older than the time the reply is
flushed with; `TimeOf` bounds that time by the clock. A conversation that is replaced
between two transactions of one request changes none of these, as they speak of what the
request holds and not of what the exercise refers to.

`CauseInv`, on top of it, follows a request that has stored its question: it is at work,
has stored its reply, or has ended in one of the named ways. `Settled` is why the reply's
transaction is not refused: it creates neither a conversation nor a link, because the
second transaction of the same request left both. `Holds` says that who has flushed a new
conversation holds the exercise's row, so that the exercise is still there at the commit.

### Chunks

`Models_proofs` proves of `PromptChunks` `ChunkTypesHold` and `DataStayAccounted`
(`ChunkedDataIsAccounted`), for data of any length and items of any sizes
(`SizesAssumption`, naturals; `RetryAssumption`, at least one attempt). `ChunkData` is a
fold; the proof follows it position by position. `Fits` says what the accumulator of the
fold is worth after each item: the chunks so far and the current one are the items so far
in order, each chunk is within the limit or of one item, and no chunk would have had room
for the first item of the next. `PutFits` is its step. `ChunkInv` is the type invariant with
the property: the results are those of the chunks behind that were answered, in order.

### Issues

`Models_proofs` proves of `IssuesSummary` `IssuesTypesHold`, `FrequenciesStayReported`
(`FrequenciesAreReported`) and the action property `IssuesDisappearResolved`
(`OnlyResolvedDisappear`), and of `IssueMerge` under it `MergesAreRight`
(`MergeIsReference`), for any sets of analyses, tasks, types and descriptions
(`ActorsAssumption`, `BoundsAssumption`) and for lists of any length.

The measure of a list is `Share(list, K)`, the sum of the frequencies of the issues whose
key is in `K`: the frequency of a key, or of a type, is the share of a set. Descending pops
leave exactly the issues that no mention names when each is named once (`Remaining`), what
is added raises the share of its own key by one, and the merge therefore has the shares of
its reference (`MergeIs`). In `IssuesInv`, `ReadsAreCurrent` says that an analysis or an
attempt that is not stale has read what is stored, which gives `OnlyResolvedDisappear`, and
`FrequenciesRead` that neither what is stored nor what any of them has read counts more
than the models reported, which makes `FrequenciesAreReported` inductive: a stale writer
brings back what was counted once already. `AttemptsHaveMessages` keeps the numbers of
attempts within those of deliveries.

### Sums, concatenations and folds

The library defines these by recursive functions. `Collections_proofs` proves what they
return without an induction rule, by the smallest counterexample: of the subsets of a
finite set (or of the positions of a sequence) for which a fact would not hold there is a
minimal one, by the well-foundedness theorems of the library, and one unfolding of the
definition contradicts it. Thus `SumExists` and `FoldExists` (the recursive function of
the definition exists), `TotalTakesOut`, `TotalBound`, `TotalInjected`, `PrefixTotals`,
`FlattenAppend` and `MaxIsIn`, which the theorems on scores, paths, points, chunks and
frequencies rest on.

### Scenes

`ScenesKeepTypes`, a theorem of `People_proofs`, `Courses_proofs`, `LearningPaths_proofs`,
`Content_proofs` and `Models_proofs`, says `MCSpec => []TypesOK` of the MC module that each
of them extends. It rests on what makes a scene a scene: each step of `MCNext` is a step of
one component and a stutter of the others, and each initial state of `MCInit` one of all of
them, so that every component's own specification, or inductive invariant, holds of the
scenes. The other theorems reach what the runs check along the same way.

### Checked by TLC only

`EventuallySettled` and `EventuallyQuiet`: they are liveness properties, and
fairness and ENABLED are out of the prover's reach. The four properties that the code
violates (`stores_tokens`, `accounts_verified`, `lesson_progress`, `material_stuck`) have
TLC's counterexamples.

## Plan

The models of all components with state of their own are done, and so are the proofs of
their safety. What could come next is liveness: the well-founded argument behind
`EventuallySettled` (each attempt ends, each failure uses up a retry) as lemmas about steps,
from which a prover with fairness rules could go on.

## Abstractions

Where a model is coarser than the code, it allows more than the code does or leaves out
what no property speaks of:

* Lookups that follow one another with nothing written in between are one read in
  `LessonMaterial.DeleteLesson` (with its three deletes), `QuizSubmission.Load`,
  `CourseAdministration.Read`, `Dashboards.BeginView` and `AssistantConversation.Look`.
  What is read there is a key that does not change, or is used only to find the row that
  the next step reads for itself. Reads whose order matters (three tables of users, course by
  course, page by page, test cases and results) are steps of their own.
* `LessonMaterial.StoreText` may store the notice instead of the text at any file; in the
  code only a flush that failed does so.
* A conversation's row is never missing (`controllers/exercises.py:69`, `:138`): nothing
  deletes conversations.
* Two attempts of one summary task do not run at once: a redelivery ends the attempt before
  it. A redelivered task has all its retries again.
* `PromptChunks` has no exception of the caller's `prompt_generator`, which would end the
  call (`chunk_manager.py:102`), and does not tell an extractor's error from an empty
  answer. No handler calls `chunk_data` or `process_in_chunks`: the routers send one
  prompt, so that this component is checked for itself.
* `Dashboards` has no names: every event of a professor's dashboard bears the name and id
  of the last course of the loop (`dashboard.py:215`).
* `ExerciseAdmin.Read` does not raise on a missing grading method (`exercise.py:202`): the
  column is not null.

## Not modelled

The prompts and answers of the language models, the schemas, settings, logging, S3 and
mail clients are I/O without state of their own; their results are nondeterministic
inputs. Migrations, scripts, the evaluation data and the tests do not run in the
application. The cache is used by no handler but the one that reads generated solutions.
Access tokens are signed and kept by the client. Feedback, activities and login logs
insert, list and delete single rows; the grades read `student_exercises`, which nothing
writes; the assessment is one prompt. Plain reads of one row (the detail of a course, its
professor, its students) change nothing and read one state. `upsert` and `upsert_many` of
the repository have no caller. The checks of the caller's role come before everything else
in a handler and refuse the request; the models have the requests that pass them. The
synchronous `get_submission_results` of `controllers/exercises.py:419-465` is called only
by the module's own `__main__` block.
