------------------------- MODULE SubmissionPipeline -------------------------
(***************************************************************************)
(* Judging of code submissions: the request handler that submits the code  *)
(* to Judge0 and stores one result row per test case                       *)
(* (machine/controllers/exercises.py, create_coding_submission), and the   *)
(* dramatiq actor that polls Judge0 until every row has a verdict and then *)
(* decides the submission (tasks/update_submission_result.py).  The two    *)
(* meet in Postgres and in a Redis queue that delivers at least once.      *)
(*                                                                         *)
(* All submissions are to one coding exercise, whose test cases may be     *)
(* added and deleted, and which may be deleted, while they are judged.     *)
(* Postgres runs at READ COMMITTED: a read sees the rows committed at that *)
(* moment; uncommitted writes are visible to nobody, not even to the       *)
(* session that flushed them, because core/db/session.py:25-29 sends reads *)
(* and writes to two connections.                                          *)
(***************************************************************************)
EXTENDS Naturals, FiniteSets

CONSTANTS
    Submissions,   \* identities of the submissions users make, one request each
    TestCases,     \* identities of the exercise's test cases, ever created
    Workers,       \* worker threads of the three worker processes
    MaxRetries,    \* retries of a message before it is dead-lettered
    MaxFaults      \* bound on crashes, lost leases and expiries in a behaviour

ASSUME MaxRetriesAssumption == MaxRetries \in Nat
ASSUME MaxFaultsAssumption == MaxFaults \in Nat

VARIABLES
    exercise,      \* the Exercises row: "live" or "deleted"
    testcases,     \* each ProgrammingTestCase row: "fresh", "live" or "deleted"
    status,        \* each ProgrammingSubmission row: its status, "none" or "deleted"
    testResults,   \* committed ProgrammingTestResult rows: verdict by test case
    judge0,        \* Judge0's own verdict on each token it issued
    handler,       \* where each create_coding_submission call stands
    snapshot,      \* test_case_objs: the test cases the call has read
    fetched,       \* test_results: what Judge0 first reported to the call
    queue,         \* Redis queue: number of copies of each message
    deadLetters,   \* submissions with a message in the dead-letter queue
    warned,        \* submissions for which "No test results found" was logged
    worker,        \* where each worker stands in the actor
    message,       \* the message each busy worker holds
    rows,          \* the test_results each worker has read, and its updates to them
    dirty,         \* test cases of the rows that a worker's session has updated
    loaded,        \* submission.status as the worker read it
    faults         \* crashes, lost leases and expiries so far

requestVars == <<handler, snapshot, fetched>>
attemptVars == <<worker, message, rows, dirty, loaded>>
dbVars      == <<exercise, testcases, status, testResults>>
queueVars   == <<queue, deadLetters, warned>>
vars == <<dbVars, judge0, requestVars, queueVars, attemptVars, faults>>

-----------------------------------------------------------------------------
\* "queued" stands for the two statuses the actor treats alike, "In Queue" and
\* "Processing"; "rejected" for every final status other than "Accepted".
Final     == {"accepted", "rejected"}
Verdicts  == {"none", "queued"} \cup Final
Decided   == {"completed", "failed"}
Statuses  == {"none", "pending", "deleted"} \cup Decided

Messages  == [submission : Submissions, retries : 0 .. MaxRetries]
NoMessage == [submission |-> "none", retries |-> 0]
NoRows    == [tc \in TestCases |-> "none"]

Requesting == {"read", "posted", "fetched", "created", "flushed", "sent"}
Attempting == {"started", "read", "polled", "loaded", "evaluated"}

StoredCases(table) == {tc \in TestCases : table[tc] # "none"}
LiveCases          == {tc \in TestCases : testcases[tc] = "live"}

\* The submission a busy worker is processing.
Current(w) == message[w].submission

\* pending_results: the rows the actor has to ask Judge0 about.
Pending(w) == {tc \in TestCases : rows[w][tc] = "queued"}

\* Mutants: the status of Judge0 is stored for that of the submission; all_accepted is
\* computed over the pending results instead of all the results.
Decision_Judge0Status(w) ==
    IF \A tc \in StoredCases(rows[w]) : rows[w][tc] = "accepted"
    THEN "accepted" ELSE "rejected"

Decision_PendingResults(w) ==
    IF \A tc \in dirty[w] : rows[w][tc] = "accepted" THEN "completed" ELSE "failed"

\* submission_status: COMPLETED iff all_accepted.
Decision(w) ==
    IF \A tc \in StoredCases(rows[w]) : rows[w][tc] = "accepted"
    THEN "completed" ELSE "failed"

\* Result rows locked by an open transaction: inserted by a request between its
\* flush and its commit, or updated by the autoflush of a worker's session.
Locked(s) ==
    UNION ({dirty[w] : w \in {v \in Workers : /\ worker[v] \in {"loaded", "evaluated"}
                                              /\ Current(v) = s}}
           \cup {IF handler[s] \in {"flushed", "sent"} THEN snapshot[s] ELSE {}})

TypeOK ==
    /\ exercise \in {"live", "deleted"}
    /\ testcases \in [TestCases -> {"fresh", "live", "deleted"}]
    /\ status \in [Submissions -> Statuses]
    /\ testResults \in [Submissions -> [TestCases -> Verdicts]]
    /\ judge0 \in [Submissions -> [TestCases -> Verdicts]]
    /\ handler \in [Submissions -> {"idle", "done", "failed"} \cup Requesting]
    /\ snapshot \in [Submissions -> SUBSET TestCases]
    /\ fetched \in [Submissions -> [TestCases -> Verdicts]]
    /\ queue \in [Messages -> Nat]
    /\ deadLetters \subseteq Submissions
    /\ warned \subseteq Submissions
    /\ worker \in [Workers -> {"idle", "ack", "nack"} \cup Attempting]
    /\ message \in [Workers -> Messages \cup {NoMessage}]
    /\ \A w \in Workers : worker[w] # "idle" => message[w] \in Messages
    /\ rows \in [Workers -> [TestCases -> Verdicts]]
    /\ dirty \in [Workers -> SUBSET TestCases]
    /\ loaded \in [Workers -> Statuses]
    /\ faults \in 0 .. MaxFaults

Init ==
    /\ exercise = "live"
    /\ testcases \in [TestCases -> {"fresh", "live"}]
    /\ status = [s \in Submissions |-> "none"]
    /\ testResults = [s \in Submissions |-> NoRows]
    /\ judge0 = [s \in Submissions |-> NoRows]
    /\ handler = [s \in Submissions |-> "idle"]
    /\ snapshot = [s \in Submissions |-> {}]
    /\ fetched = [s \in Submissions |-> NoRows]
    /\ queue = [m \in Messages |-> 0]
    /\ deadLetters = {}
    /\ warned = {}
    /\ worker = [w \in Workers |-> "idle"]
    /\ message = [w \in Workers |-> NoMessage]
    /\ rows = [w \in Workers |-> NoRows]
    /\ dirty = [w \in Workers |-> {}]
    /\ loaded = [w \in Workers |-> "none"]
    /\ faults = 0

-----------------------------------------------------------------------------
(* The request: create_coding_submission, one action per await.            *)

Step(s, from, to) ==
    /\ handler[s] = from
    /\ handler' = [handler EXCEPT ![s] = to]

\* The exercise and its test cases are read; with none, the call answers 404
\* and nothing else happens.
ReadTestCases(s) ==
    /\ Step(s, "idle", IF exercise = "live" /\ LiveCases # {} THEN "read" ELSE "failed")
    /\ snapshot' = [snapshot EXCEPT ![s] = IF exercise = "live" THEN LiveCases ELSE {}]
    /\ UNCHANGED <<dbVars, judge0, fetched, queueVars, attemptVars, faults>>

\* evaluate_test_cases posts the batch.  Judge0 issues a token for each entry it
\* accepts; an entry it rejects has none and is filtered out of the tokens.
PostBatch(s) ==
    /\ Step(s, "read", "posted")
    /\ \E accepted \in (SUBSET snapshot[s]) \ {{}} :
          judge0' = [judge0 EXCEPT ![s] =
                        [tc \in TestCases |-> IF tc \in accepted THEN "queued" ELSE "none"]]
    /\ UNCHANGED <<dbVars, snapshot, fetched, queueVars, attemptVars, faults>>

\* get_submission_results reads the first report on the tokens.
FetchBatch(s) ==
    /\ Step(s, "posted", "fetched")
    /\ fetched' = [fetched EXCEPT ![s] = judge0[s]]
    /\ UNCHANGED <<dbVars, judge0, snapshot, queueVars, attemptVars, faults>>

\* submission_repo.create(commit=True): the pending submission is committed on its
\* own, before any of its results.  Its foreign key needs the exercise.
CreateSubmission(s) ==
    /\ Step(s, "fetched", "created")
    /\ exercise = "live"
    /\ status' = [status EXCEPT ![s] = "pending"]
    /\ UNCHANGED <<exercise, testcases, testResults, judge0, snapshot, fetched,
                   queueVars, attemptVars, faults>>

\* Mutant: the loop zips test cases and reports, and so stores the reports there are.
FlushResults_Zip(s) ==
    /\ Step(s, "created", "flushed")
    /\ snapshot[s] \subseteq LiveCases
    /\ status[s] # "deleted"
    /\ UNCHANGED <<dbVars, judge0, snapshot, fetched, queueVars, attemptVars, faults>>

\* One result per test case is added and flushed.  With fewer reports than test
\* cases, test_results[i] raises IndexError; a test case or submission deleted
\* meanwhile violates a foreign key.  Either way only AbortRequest is left.
FlushResults(s) ==
    /\ Step(s, "created", "flushed")
    /\ StoredCases(fetched[s]) = snapshot[s]
    /\ snapshot[s] \subseteq LiveCases
    /\ status[s] # "deleted"
    /\ UNCHANGED <<dbVars, judge0, snapshot, fetched, queueVars, attemptVars, faults>>

\* poll_judge0_submission_result.send, before the results are committed.
SendPollTask(s) ==
    /\ Step(s, "flushed", "sent")
    /\ queue' = [queue EXCEPT ![[submission |-> s, retries |-> 0]] = @ + 1]
    /\ UNCHANGED <<dbVars, judge0, snapshot, fetched, deadLetters, warned, attemptVars, faults>>

\* The commit of @Transactional, after the function returned.
CommitResults(s) ==
    /\ Step(s, "sent", "done")
    /\ testResults' = [testResults EXCEPT ![s] = fetched[s]]
    /\ UNCHANGED <<exercise, testcases, status, judge0, snapshot, fetched,
                   queueVars, attemptVars, faults>>

\* An exception at any await (Judge0, Postgres, Redis) or the end of the process:
\* @Transactional rolls back what is not committed, and only that.
AbortRequest(s) ==
    /\ handler[s] \in Requesting
    /\ handler' = [handler EXCEPT ![s] = "failed"]
    /\ UNCHANGED <<dbVars, judge0, snapshot, fetched, queueVars, attemptVars, faults>>

-----------------------------------------------------------------------------
(* Judge0 and the other requests on the exercise.                          *)

\* External: Judge0 ends the run of one token, with a verdict it never changes.
JudgeToken(s, tc) ==
    /\ judge0[s][tc] = "queued"
    /\ \E v \in Final : judge0' = [judge0 EXCEPT ![s][tc] = v]
    /\ UNCHANGED <<dbVars, requestVars, queueVars, attemptVars, faults>>

CreateTestCase(tc) ==
    /\ exercise = "live"
    /\ testcases[tc] = "fresh"
    /\ testcases' = [testcases EXCEPT ![tc] = "live"]
    /\ UNCHANGED <<exercise, status, testResults, judge0, requestVars, queueVars,
                   attemptVars, faults>>

\* delete_testcase.  The foreign key deletes the results with it, and waits for the
\* transactions that hold one of them.
DeleteTestCase(tc) ==
    /\ testcases[tc] = "live"
    /\ \A s \in Submissions : tc \notin Locked(s)
    /\ testcases' = [testcases EXCEPT ![tc] = "deleted"]
    /\ testResults' = [s \in Submissions |-> [testResults[s] EXCEPT ![tc] = "none"]]
    /\ UNCHANGED <<exercise, status, judge0, requestVars, queueVars, attemptVars, faults>>

\* Deleting the exercise deletes its test cases, submissions and results.
DeleteExercise ==
    /\ exercise = "live"
    /\ \A s \in Submissions : Locked(s) = {}
    /\ exercise' = "deleted"
    /\ testcases' = [tc \in TestCases |->
                        IF testcases[tc] = "live" THEN "deleted" ELSE testcases[tc]]
    /\ status' = [s \in Submissions |-> IF status[s] = "none" THEN "none" ELSE "deleted"]
    /\ testResults' = [s \in Submissions |-> NoRows]
    /\ UNCHANGED <<judge0, requestVars, queueVars, attemptVars, faults>>

-----------------------------------------------------------------------------
(* The actor poll_judge0_submission_result, one action per await.          *)

Proceed(w, from, to) ==
    /\ worker[w] = from
    /\ worker' = [worker EXCEPT ![w] = to]

\* External: dramatiq hands a message to an idle worker.
FetchMessage(w, m) ==
    /\ Proceed(w, "idle", "started")
    /\ queue[m] > 0
    /\ queue' = [queue EXCEPT ![m] = @ - 1]
    /\ message' = [message EXCEPT ![w] = m]
    /\ UNCHANGED <<dbVars, judge0, requestVars, deadLetters, warned, rows, dirty, loaded, faults>>

\* No committed result: the actor logs a warning and returns normally.
NoTestResults(w) ==
    /\ Proceed(w, "started", "ack")
    /\ StoredCases(testResults[Current(w)]) = {}
    /\ warned' = warned \cup {Current(w)}
    /\ UNCHANGED <<dbVars, judge0, requestVars, queue, deadLetters, message, rows, dirty,
                   loaded, faults>>

ReadTestResults(w) ==
    /\ Proceed(w, "started", "read")
    /\ StoredCases(testResults[Current(w)]) # {}
    /\ rows' = [rows EXCEPT ![w] = testResults[Current(w)]]
    /\ UNCHANGED <<dbVars, judge0, requestVars, queueVars, message, dirty, loaded, faults>>

\* Judge0 has a final verdict for every pending row (there may be none): the rows
\* take the verdicts, in the session only.
PollJudge0(w) ==
    /\ Proceed(w, "read", "polled")
    /\ Pending(w) \subseteq LiveCases
    /\ \A tc \in Pending(w) : judge0[Current(w)][tc] \in Final
    /\ rows' = [rows EXCEPT ![w] = [tc \in TestCases |->
                   IF tc \in Pending(w) THEN judge0[Current(w)][tc] ELSE rows[w][tc]]]
    /\ dirty' = [dirty EXCEPT ![w] = Pending(w)]
    /\ UNCHANGED <<dbVars, judge0, requestVars, queueVars, message, loaded, faults>>

\* session.get(ProgrammingSubmission) autoflushes the updated rows, which must still
\* exist and not be locked by another worker, and reads the submission.
LoadSubmission(w) ==
    /\ Proceed(w, "polled", "loaded")
    /\ dirty[w] \cap Locked(Current(w)) = {}
    /\ dirty[w] \subseteq StoredCases(testResults[Current(w)])
    /\ status[Current(w)] # "deleted"
    /\ loaded' = [loaded EXCEPT ![w] = status[Current(w)]]
    /\ UNCHANGED <<dbVars, judge0, requestVars, queueVars, message, rows, dirty, faults>>

\* No submission, or no exercise: the actor returns normally, without a commit.
SubmissionOrExerciseGone(w) ==
    /\ \/ /\ Proceed(w, "polled", "ack")
          /\ dirty[w] = {}
          /\ status[Current(w)] = "deleted"
       \/ /\ Proceed(w, "loaded", "ack")
          /\ exercise = "deleted"
    /\ UNCHANGED <<dbVars, judge0, requestVars, queueVars, message, rows, dirty, loaded, faults>>

\* The exercise is read and evaluate_submission called.  The exceptions of both are
\* caught, so the actor goes on whatever the LLM answers, and even when it could not
\* tell whether the exercise exists.
EvaluateSubmission(w) ==
    /\ Proceed(w, "loaded", "evaluated")
    /\ UNCHANGED <<dbVars, judge0, requestVars, queueVars, message, rows, dirty, loaded, faults>>

\* session.commit: the updated rows and the submission's status become visible at
\* once.  The submission row is not written when nothing in it differs from what
\* was loaded; otherwise it must still exist (see FlushRaises).
CommitDecision(w) ==
    LET s == Current(w) IN
    /\ Proceed(w, "evaluated", "ack")
    /\ status[s] # "deleted" \/ Decision(w) = loaded[w]
    /\ status' = [status EXCEPT ![s] = IF Decision(w) = loaded[w] THEN @ ELSE Decision(w)]
    /\ testResults' = [testResults EXCEPT ![s] = [tc \in TestCases |->
                          IF tc \in dirty[w] THEN rows[w][tc] ELSE testResults[s][tc]]]
    /\ UNCHANGED <<exercise, testcases, judge0, requestVars, queueVars, message, rows,
                   dirty, loaded, faults>>

\* Mutant: the retry is not counted.
Retried_NotCounted(m) == m

Retried(m) == [submission |-> m.submission, retries |-> m.retries + 1]

\* Mutant: the actor catches the exception and returns.
Raise_Swallowed(w) ==
    /\ worker' = [worker EXCEPT ![w] = "ack"]
    /\ UNCHANGED queue

\* An exception leaves the actor: the session is rolled back, and the Retries
\* middleware enqueues a copy of the message, or fails it after the last retry.
Raise(w) ==
    IF message[w].retries < MaxRetries
    THEN /\ queue' = [queue EXCEPT ![Retried(message[w])] = @ + 1]
         /\ worker' = [worker EXCEPT ![w] = "ack"]
    ELSE /\ worker' = [worker EXCEPT ![w] = "nack"]
         /\ UNCHANGED queue

RaiseUnchanged ==
    UNCHANGED <<dbVars, judge0, requestVars, deadLetters, warned, message, rows, dirty,
                loaded, faults>>

\* Mutant: the verdicts that are known are committed before the error is raised.
PollRaises_KeepsVerdicts(w) ==
    LET s == Current(w) IN
    /\ worker[w] = "read"
    /\ \E tc \in Pending(w) : judge0[s][tc] = "queued"
    /\ Raise(w)
    /\ testResults' = [testResults EXCEPT ![s] = [tc \in TestCases |->
                          IF testResults[s][tc] = "queued" THEN judge0[s][tc]
                          ELSE testResults[s][tc]]]
    /\ UNCHANGED <<exercise, testcases, status, judge0, requestVars, deadLetters, warned,
                   message, rows, dirty, loaded, faults>>

\* StillProcessingError, or the test case of a pending row is gone.
PollRaises(w) ==
    /\ worker[w] = "read"
    /\ \E tc \in Pending(w) : tc \notin LiveCases \/ judge0[Current(w)][tc] = "queued"
    /\ Raise(w)
    /\ RaiseUnchanged

\* StaleDataError: a row to update was deleted since it was read.
FlushRaises(w) ==
    LET s == Current(w) IN
    /\ \/ worker[w] = "polled" /\ ~ dirty[w] \subseteq StoredCases(testResults[s])
       \/ worker[w] = "evaluated" /\ status[s] = "deleted"
    /\ Raise(w)
    /\ RaiseUnchanged

\* An error of Judge0 or Postgres at an await of the actor, or TimeLimit's interrupt.
ServiceError(w) ==
    /\ worker[w] \in Attempting
    /\ Raise(w)
    /\ RaiseUnchanged

Release(w) ==
    /\ worker' = [worker EXCEPT ![w] = "idle"]
    /\ message' = [message EXCEPT ![w] = NoMessage]
    /\ rows' = [rows EXCEPT ![w] = NoRows]
    /\ dirty' = [dirty EXCEPT ![w] = {}]
    /\ loaded' = [loaded EXCEPT ![w] = "none"]

Acknowledge(w) ==
    /\ worker[w] = "ack"
    /\ Release(w)
    /\ UNCHANGED <<dbVars, judge0, requestVars, queueVars, faults>>

\* A failed message is moved to the dead-letter queue.
DeadLetter(w) ==
    /\ worker[w] = "nack"
    /\ deadLetters' = deadLetters \cup {Current(w)}
    /\ Release(w)
    /\ UNCHANGED <<dbVars, judge0, requestVars, queue, warned, faults>>

-----------------------------------------------------------------------------
(* Faults of the delivery.                                                 *)

Fault == faults < MaxFaults /\ faults' = faults + 1

\* The worker process dies; after heartbeat_timeout its message is queued again.
CrashWorker(w) ==
    /\ Fault
    /\ worker[w] # "idle"
    /\ queue' = [queue EXCEPT ![message[w]] = @ + 1]
    /\ Release(w)
    /\ UNCHANGED <<dbVars, judge0, requestVars, deadLetters, warned>>

\* The process misses its heartbeat but lives: the message is delivered twice.
LoseLease(w) ==
    /\ Fault
    /\ worker[w] # "idle"
    /\ queue' = [queue EXCEPT ![message[w]] = @ + 1]
    /\ UNCHANGED <<dbVars, judge0, requestVars, deadLetters, warned, attemptVars>>

\* AgeLimit: a message older than max_age is failed instead of processed.
ExpireMessage(m) ==
    /\ Fault
    /\ queue[m] > 0
    /\ queue' = [queue EXCEPT ![m] = @ - 1]
    /\ deadLetters' = deadLetters \cup {m.submission}
    /\ UNCHANGED <<dbVars, judge0, requestVars, warned, attemptVars>>

-----------------------------------------------------------------------------
RequestStep(s) ==
    \/ ReadTestCases(s) \/ PostBatch(s) \/ FetchBatch(s) \/ CreateSubmission(s)
    \/ FlushResults(s) \/ SendPollTask(s) \/ CommitResults(s)

WorkerStep(w) ==
    \/ \E m \in Messages : FetchMessage(w, m)
    \/ NoTestResults(w) \/ ReadTestResults(w) \/ PollJudge0(w) \/ LoadSubmission(w)
    \/ SubmissionOrExerciseGone(w) \/ EvaluateSubmission(w) \/ CommitDecision(w)
    \/ PollRaises(w) \/ FlushRaises(w) \/ Acknowledge(w) \/ DeadLetter(w)

FaultStep ==
    \/ \E w \in Workers : CrashWorker(w) \/ LoseLease(w)
    \/ \E m \in Messages : ExpireMessage(m)

Next ==
    \/ \E s \in Submissions : RequestStep(s) \/ AbortRequest(s)
    \/ \E s \in Submissions, tc \in TestCases : JudgeToken(s, tc)
    \/ \E tc \in TestCases : CreateTestCase(tc) \/ DeleteTestCase(tc)
    \/ DeleteExercise
    \/ \E w \in Workers : WorkerStep(w) \/ ServiceError(w)
    \/ FaultStep

Spec == Init /\ [][Next]_vars


\* The event loops of the API and of the workers run every task that can go on (a
\* request that cannot is ended by an exception), and Judge0, which limits the time
\* of a run, ends every run.  Nothing is assumed of errors, crashes, deletions or
\* the arrival of requests.
Fairness ==
    /\ \A s \in Submissions :
          WF_vars(handler[s] # "idle" /\ (RequestStep(s) \/ AbortRequest(s)))
    /\ \A w \in Workers : WF_vars(WorkerStep(w))
    /\ \A s \in Submissions, tc \in TestCases : WF_vars(JudgeToken(s, tc))

FairSpec == Spec /\ Fairness

-----------------------------------------------------------------------------
(* Properties.                                                             *)

GivenUp == deadLetters \cup warned

\* A copy of the poll task of s waits in the queue, or an attempt at it can still
\* decide s or put the task back.
TaskAlive(s) ==
    \/ \E m \in Messages : m.submission = s /\ queue[m] > 0
    \/ \E w \in Workers : worker[w] \in Attempting \cup {"nack"} /\ Current(w) = s

\* A pending submission whose poll task was sent is never forgotten: until it is
\* decided its task is queued or being processed, unless the actor gave it up in
\* sight, by a dead letter or by the warning "No test results found".  (Retries,
\* crashes, duplicated deliveries and deletions included.)
NoLostWork ==
    \A s \in Submissions :
        handler[s] \in {"sent", "done"} /\ status[s] = "pending"
            => TaskAlive(s) \/ s \in GivenUp

\* A decided submission was judged on all of its test cases: "completed" means that
\* every test case the request submitted, and nobody deleted since, has a stored
\* result that is accepted; "failed" means that Judge0 rejected one of them.
DecisionSound ==
    \A s \in Submissions :
        /\ status[s] = "completed" =>
              \A tc \in snapshot[s] :
                  testcases[tc] # "deleted" => testResults[s][tc] = "accepted"
        /\ status[s] = "failed" => \E tc \in snapshot[s] : judge0[s][tc] = "rejected"

\* An attempt that raises leaves nothing behind: while a submission is pending, its
\* stored results are those the request stored, however many attempts have seen
\* part of the verdicts.
AllOrNothing ==
    \A s \in Submissions : status[s] = "pending" =>
        \A tc \in StoredCases(testResults[s]) : testResults[s][tc] = fetched[s][tc]

\* A decision is final under duplicated, retried and concurrent attempts: it changes
\* to the other decision only after a test case it was judged on was deleted.
DecisionFlip(s) ==
    /\ status[s] \in Decided
    /\ status'[s] \in Decided \ {status[s]}

DecisionStable ==
    [][\A s \in Submissions :
          DecisionFlip(s) => \E tc \in snapshot[s] : testcases[tc] = "deleted"]_vars

\* Every submission whose results were stored is in the end decided, deleted or given
\* up in sight: no attempt blocks for ever and none is retried for ever.
EventuallySettled ==
    \A s \in Submissions :
        (handler[s] = "done" /\ status[s] = "pending")
            ~> (status[s] # "pending" \/ s \in GivenUp)

\* The queue drains: from some point on no task is queued and no worker is busy.
EventuallyQuiet ==
    <>[](/\ \A m \in Messages : queue[m] = 0
         /\ \A w \in Workers : worker[w] = "idle")

\* The docstring of create_coding_submission (machine/controllers/exercises.py:282)
\* says that it "Submits a coding exercise solution and stores test result tokens":
\* once the call is over, a submission that exists has its results stored.
StoresTokens ==
    \A s \in Submissions :
        handler[s] \in {"done", "failed"} /\ status[s] = "pending" =>
            \A tc \in snapshot[s] :
                testcases[tc] # "deleted" => testResults[s][tc] # "none"

-----------------------------------------------------------------------------
\* The pipeline implements the life of a submission as a client sees it: whatever the
\* interleaving of requests, attempts, crashes and deletions, the rows in Postgres only
\* ever take the steps of SubmissionLifecycle.
Lifecycle == INSTANCE SubmissionLifecycle WITH results <- testResults, verdicts <- judge0

ImplementsLifecycle == Lifecycle!LifecycleSpec

-----------------------------------------------------------------------------
(* The inductive invariant behind the safety properties.                   *)

\* Pcs of a worker that has read the rows, and of one that has Judge0's verdicts.
Judging  == {"read", "polled", "loaded", "evaluated"}
Deciding == {"polled", "loaded", "evaluated"}

\* How far a request is determines which of its rows can exist.
RequestInv ==
    \A s \in Submissions :
        /\ handler[s] \in {"idle", "read", "posted", "fetched"} => status[s] = "none"
        /\ handler[s] \in {"created", "flushed", "sent", "done"} => status[s] # "none"
        /\ handler[s] \in {"idle", "read", "posted"} => fetched[s] = NoRows
        /\ handler[s] \in Requesting \cup {"done"} => snapshot[s] # {}
        /\ handler[s] \in {"flushed", "sent", "done"} => StoredCases(fetched[s]) = snapshot[s]
        /\ handler[s] \in {"flushed", "sent"} => snapshot[s] \subseteq LiveCases
        /\ status[s] = "deleted" => exercise = "deleted"
        /\ exercise = "deleted" => status[s] \in {"none", "deleted"} /\ LiveCases = {}
        /\ exercise = "deleted" => handler[s] \notin {"flushed", "sent"}
        /\ \A tc \in snapshot[s] : testcases[tc] # "fresh"

\* Result rows: stored by the commit of the request, all of them, until their test
\* case is deleted; a final verdict in them is Judge0's.
ResultInv ==
    \A s \in Submissions, tc \in TestCases :
        /\ testResults[s][tc] # "none" =>
              handler[s] = "done" /\ tc \in snapshot[s] /\ testcases[tc] = "live"
        /\ (handler[s] = "done" /\ exercise = "live" /\ tc \in snapshot[s]
               /\ testcases[tc] = "live") => testResults[s][tc] # "none"
        /\ testResults[s][tc] \in Final => judge0[s][tc] = testResults[s][tc]
        /\ fetched[s][tc] \in Final => judge0[s][tc] = fetched[s][tc]

\* What a worker has read covers what is stored, and agrees with Judge0.
WorkerInv(w) ==
    /\ worker[w] \in {"idle", "started", "read"} => dirty[w] = {}
    /\ worker[w] \in Judging =>
          /\ handler[Current(w)] = "done"
          /\ \A tc \in TestCases :
                /\ rows[w][tc] # "none" => tc \in snapshot[Current(w)]
                /\ testResults[Current(w)][tc] # "none" => rows[w][tc] # "none"
                /\ rows[w][tc] \in Final => judge0[Current(w)][tc] = rows[w][tc]
                /\ (rows[w][tc] \in Final /\ tc \notin dirty[w]) =>
                      testResults[Current(w)][tc] \in {"none"} \cup Final
    /\ worker[w] \in Deciding => \A tc \in TestCases : rows[w][tc] # "queued"
    /\ worker[w] \in {"loaded", "evaluated"} =>
          /\ dirty[w] \subseteq StoredCases(testResults[Current(w)])
          /\ loaded[w] \in {"pending"} \cup Decided
          /\ loaded[w] \in Decided => status[Current(w)] # "pending"

AttemptInv == \A w \in Workers : WorkerInv(w)

IInv ==
    /\ TypeOK
    /\ RequestInv
    /\ ResultInv
    /\ AttemptInv
    /\ NoLostWork
    /\ DecisionSound
    /\ AllOrNothing

\* What the refinement needs besides: Judge0 knows the code of a submission exactly from
\* the request's batch on, and a worker decides only on rows there were.
SubmittedInv ==
    /\ \A s \in Submissions :
          /\ handler[s] \in {"idle", "read"} => judge0[s] = NoRows
          /\ handler[s] \in {"fetched", "created", "flushed", "sent", "done"} =>
                StoredCases(fetched[s]) = StoredCases(judge0[s])
          /\ handler[s] \in {"created", "flushed", "sent"} => status[s] \in {"pending", "deleted"}
    /\ \A w \in Workers : worker[w] \in Judging => StoredCases(rows[w]) # {}

=============================================================================
