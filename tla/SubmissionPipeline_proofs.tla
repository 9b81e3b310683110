---------------------- MODULE SubmissionPipeline_proofs ----------------------
(* Proofs about SubmissionPipeline, for any sets of submissions, test cases *)
(* and workers and any bounds on retries and faults.                        *)
EXTENDS SubmissionPipeline, TLAPS

USE DEF Final, Verdicts, Decided, Statuses, Requesting, Attempting

LEMMA BusyWorker ==
    ASSUME TypeOK, NEW w \in Workers, worker[w] # "idle"
    PROVE  message[w] \in Messages /\ Current(w) \in Submissions
BY DEF TypeOK, Current, Messages

\* A raised attempt puts a well-formed message back, or none.
LEMMA RaiseType ==
    ASSUME TypeOK, NEW w \in Workers, worker[w] \in Attempting, Raise(w), RaiseUnchanged
    PROVE  TypeOK'
<1>1. message[w] \in Messages
  BY DEF TypeOK
<1>2. queue' \in [Messages -> Nat]
  <2>1. CASE message[w].retries < MaxRetries
    <3>1. Retried(message[w]) \in Messages
      BY <1>1, <2>1, MaxRetriesAssumption DEF Messages, Retried
    <3>2. QED
      BY <3>1, <2>1 DEF Raise, TypeOK
  <2>2. CASE ~ message[w].retries < MaxRetries
    BY <2>2 DEF Raise, TypeOK
  <2>3. QED
    BY <2>1, <2>2
<1>3. /\ worker' \in [Workers -> {"idle", "ack", "nack"} \cup Attempting]
      /\ \A v \in Workers : worker'[v] # "idle" => worker[v] # "idle"
  BY ZenonT(40) DEF Raise, TypeOK
<1>4. QED
  BY <1>2, <1>3 DEF TypeOK, RaiseUnchanged, dbVars, requestVars

\* A released worker holds nothing.
LEMMA ReleaseType ==
    ASSUME TypeOK, NEW w \in Workers, Release(w)
    PROVE  /\ worker' \in [Workers -> {"idle", "ack", "nack"} \cup Attempting]
           /\ message' \in [Workers -> Messages \cup {NoMessage}]
           /\ \A v \in Workers : worker'[v] # "idle" => message'[v] \in Messages
           /\ rows' \in [Workers -> [TestCases -> Verdicts]]
           /\ dirty' \in [Workers -> SUBSET TestCases]
           /\ loaded' \in [Workers -> Statuses]
BY DEF TypeOK, Release, NoRows

LEMMA InitType == Init => TypeOK
BY MaxFaultsAssumption DEF Init, TypeOK, NoRows

\* Every step of a request, of Judge0 and of the edits keeps the types.
LEMMA RequestType ==
    ASSUME TypeOK, NEW s \in Submissions, RequestStep(s) \/ AbortRequest(s)
    PROVE  TypeOK'
<1> USE DEF TypeOK, dbVars, requestVars, queueVars, attemptVars, Step
<1>1. CASE ReadTestCases(s)
  BY <1>1 DEF ReadTestCases, LiveCases
<1>2. CASE PostBatch(s)
  BY <1>2 DEF PostBatch
<1>3. CASE FetchBatch(s)
  BY <1>3 DEF FetchBatch
<1>4. CASE CreateSubmission(s)
  BY <1>4 DEF CreateSubmission
<1>5. CASE FlushResults(s)
  BY <1>5 DEF FlushResults
<1>6. CASE SendPollTask(s)
  <2>1. [submission |-> s, retries |-> 0] \in Messages
    BY MaxRetriesAssumption DEF Messages
  <2>2. QED
    BY <1>6, <2>1 DEF SendPollTask
<1>7. CASE CommitResults(s)
  BY <1>7 DEF CommitResults
<1>8. CASE AbortRequest(s)
  BY <1>8 DEF AbortRequest
<1>9. QED
  BY <1>1, <1>2, <1>3, <1>4, <1>5, <1>6, <1>7, <1>8 DEF RequestStep

LEMMA EnvironmentType ==
    ASSUME TypeOK,
           \/ \E s \in Submissions, tc \in TestCases : JudgeToken(s, tc)
           \/ \E tc \in TestCases : CreateTestCase(tc) \/ DeleteTestCase(tc)
           \/ DeleteExercise
    PROVE  TypeOK'
<1> USE DEF TypeOK, dbVars, requestVars, queueVars, attemptVars
<1>1. ASSUME NEW s \in Submissions, NEW tc \in TestCases, JudgeToken(s, tc)
      PROVE  TypeOK'
  BY <1>1 DEF JudgeToken
<1>2. ASSUME NEW tc \in TestCases, CreateTestCase(tc)
      PROVE  TypeOK'
  BY <1>2 DEF CreateTestCase
<1>3. ASSUME NEW tc \in TestCases, DeleteTestCase(tc)
      PROVE  TypeOK'
  BY <1>3 DEF DeleteTestCase
<1>4. CASE DeleteExercise
  BY <1>4 DEF DeleteExercise, NoRows
<1>5. QED
  BY <1>1, <1>2, <1>3, <1>4

\* Every step of the actor keeps the types.
LEMMA WorkerType ==
    ASSUME TypeOK, NEW w \in Workers, WorkerStep(w) \/ ServiceError(w)
    PROVE  TypeOK'
<1> USE DEF TypeOK, dbVars, requestVars, queueVars, attemptVars, Proceed
<1>1. ASSUME NEW m \in Messages, FetchMessage(w, m)
      PROVE  TypeOK'
  BY <1>1 DEF FetchMessage
<1>2. CASE NoTestResults(w)
  <2>1. Current(w) \in Submissions
    BY <1>2 DEF NoTestResults, Current, Messages
  <2>2. QED
    BY <1>2, <2>1 DEF NoTestResults
<1>3. CASE ReadTestResults(w)
  <2>1. Current(w) \in Submissions
    BY <1>3 DEF ReadTestResults, Current, Messages
  <2>2. QED
    BY <1>3, <2>1 DEF ReadTestResults
<1>4. CASE PollJudge0(w)
  <2>1. Current(w) \in Submissions
    BY <1>4 DEF PollJudge0, Current, Messages
  <2>2. QED
    BY <1>4, <2>1 DEF PollJudge0, Pending
<1>5. CASE LoadSubmission(w)
  <2>1. Current(w) \in Submissions
    BY <1>5 DEF LoadSubmission, Current, Messages
  <2>2. QED
    BY <1>5, <2>1 DEF LoadSubmission
<1>6. CASE SubmissionOrExerciseGone(w)
  BY <1>6 DEF SubmissionOrExerciseGone
<1>7. CASE EvaluateSubmission(w)
  BY <1>7 DEF EvaluateSubmission
<1>8. CASE CommitDecision(w)
  <2>1. Current(w) \in Submissions
    BY <1>8 DEF CommitDecision, Current, Messages
  <2>2. Decision(w) \in Decided
    BY DEF Decision
  <2>3. QED
    BY <1>8, <2>1, <2>2 DEF CommitDecision
<1>9. CASE PollRaises(w) \/ FlushRaises(w) \/ ServiceError(w)
  BY <1>9, RaiseType DEF PollRaises, FlushRaises, ServiceError
<1>10. CASE Acknowledge(w)
  BY <1>10, ReleaseType DEF Acknowledge
<1>11. CASE DeadLetter(w)
  <2>1. Current(w) \in Submissions
    BY <1>11 DEF DeadLetter, Current, Messages
  <2>2. QED
    BY <1>11, <2>1, ReleaseType DEF DeadLetter
<1>12. QED
  BY <1>1, <1>2, <1>3, <1>4, <1>5, <1>6, <1>7, <1>8, <1>9, <1>10, <1>11 DEF WorkerStep

\* The faults of the delivery keep the types.
LEMMA FaultType == ASSUME TypeOK, FaultStep PROVE TypeOK'
<1> USE DEF TypeOK, dbVars, requestVars, queueVars, attemptVars, Fault
<1>1. ASSUME NEW w \in Workers, CrashWorker(w)
      PROVE  TypeOK'
  BY <1>1, ReleaseType, MaxFaultsAssumption DEF CrashWorker
<1>2. ASSUME NEW w \in Workers, LoseLease(w)
      PROVE  TypeOK'
  BY <1>2, MaxFaultsAssumption DEF LoseLease
<1>3. ASSUME NEW m \in Messages, ExpireMessage(m)
      PROVE  TypeOK'
  <2>1. m.submission \in Submissions
    BY DEF Messages
  <2>2. queue' \in [Messages -> Nat]
    BY <1>3 DEF ExpireMessage
  <2>3. QED
    BY <1>3, <2>1, <2>2, MaxFaultsAssumption DEF ExpireMessage
<1>4. QED
  BY <1>1, <1>2, <1>3 DEF FaultStep

LEMMA NextType == TypeOK /\ [Next]_vars => TypeOK'
<1>1. ASSUME TypeOK, UNCHANGED vars PROVE TypeOK'
  BY <1>1 DEF TypeOK, vars, dbVars, requestVars, queueVars, attemptVars
<1>2. QED
  BY <1>1, RequestType, EnvironmentType, WorkerType, FaultType DEF Next

\* Every variable keeps its type, whatever the constants: in particular no message
\* is ever retried more than MaxRetries times and no queue count is negative.
THEOREM TypeCorrect == Spec => []TypeOK
BY InitType, NextType, PTL DEF Spec

-----------------------------------------------------------------------------
(* Which variables each part of IInv reads.                                *)

LEMMA FrameRequest ==
    ASSUME RequestInv, UNCHANGED <<handler, status, fetched, snapshot, exercise, testcases>>
    PROVE  RequestInv'
BY DEF RequestInv, StoredCases, LiveCases

LEMMA FrameResult ==
    ASSUME ResultInv,
           UNCHANGED <<testResults, handler, snapshot, testcases, exercise, judge0, fetched>>
    PROVE  ResultInv'
BY DEF ResultInv

LEMMA FrameAttempt ==
    ASSUME AttemptInv,
           UNCHANGED <<worker, message, rows, dirty, loaded, handler, snapshot, testResults,
                       judge0, status>>
    PROVE  AttemptInv'
BY DEF AttemptInv, WorkerInv, Current, StoredCases, Judging, Deciding

LEMMA FrameWork ==
    ASSUME NoLostWork,
           UNCHANGED <<handler, status, queue, worker, message, deadLetters, warned>>
    PROVE  NoLostWork'
BY DEF NoLostWork, TaskAlive, GivenUp, Current

LEMMA FrameDecision ==
    ASSUME DecisionSound, UNCHANGED <<status, snapshot, testcases, testResults, judge0>>
    PROVE  DecisionSound'
BY DEF DecisionSound

LEMMA FrameAtomic ==
    ASSUME AllOrNothing, UNCHANGED <<status, testResults, fetched>>
    PROVE  AllOrNothing'
BY DEF AllOrNothing, StoredCases

LEMMA InitInv == Init => IInv
<1> SUFFICES ASSUME Init PROVE IInv
  OBVIOUS
<1>1. TypeOK
  BY InitType
<1>2. RequestInv
  BY DEF Init, RequestInv, StoredCases, LiveCases, NoRows
<1>3. ResultInv /\ DecisionSound /\ AllOrNothing
  BY DEF Init, ResultInv, DecisionSound, AllOrNothing, StoredCases, NoRows
<1>4. AttemptInv
  BY DEF Init, AttemptInv, WorkerInv, Judging, Deciding
<1>5. NoLostWork
  BY DEF Init, NoLostWork
<1>6. QED
  BY <1>1, <1>2, <1>3, <1>4, <1>5 DEF IInv

-----------------------------------------------------------------------------
(* The request.                                                            *)

\* A worker past its first read works for a request that has ended, so the steps of
\* the other requests do not concern it.
LEMMA OtherRequest ==
    ASSUME TypeOK, AttemptInv, NEW s \in Submissions, handler[s] # "done",
           NEW w \in Workers, worker[w] \in Judging
    PROVE  Current(w) \in Submissions /\ Current(w) # s
BY DEF TypeOK, AttemptInv, WorkerInv, Judging, Current, Messages

LEMMA RequestKeepsInv ==
    ASSUME IInv, NEW s \in Submissions, RequestStep(s) \/ AbortRequest(s)
    PROVE  IInv'
<1> USE DEF IInv
<1>0. TypeOK'
  BY RequestType
<1> USE DEF dbVars, requestVars, queueVars, attemptVars, Step
<1>1. CASE ReadTestCases(s)
  <2> USE <1>1 DEF ReadTestCases
  <2>1. RequestInv'
    BY DEF RequestInv, TypeOK, LiveCases, StoredCases
  <2>2. ResultInv'
    BY DEF ResultInv, TypeOK
  <2>3. AttemptInv'
    BY OtherRequest DEF AttemptInv, WorkerInv, TypeOK, Judging, Deciding, Current, StoredCases
  <2>4. NoLostWork'
    BY DEF NoLostWork, TypeOK, TaskAlive, GivenUp, Current
  <2>5. DecisionSound'
    BY DEF DecisionSound, RequestInv, TypeOK
  <2>6. QED
    BY <1>0, <2>1, <2>2, <2>3, <2>4, <2>5, FrameAtomic
<1>2. CASE PostBatch(s)
  <2> USE <1>2 DEF PostBatch
  <2>1. RequestInv'
    BY DEF RequestInv, TypeOK, LiveCases, StoredCases
  <2>2. ResultInv'
    BY DEF ResultInv, RequestInv, TypeOK, NoRows
  <2>3. AttemptInv'
    BY OtherRequest DEF AttemptInv, WorkerInv, TypeOK, Judging, Deciding, Current, StoredCases
  <2>4. NoLostWork'
    BY ZenonT(40) DEF NoLostWork, TypeOK, TaskAlive, GivenUp, Current
  <2>5. DecisionSound'
    BY DEF DecisionSound, RequestInv, TypeOK
  <2>6. QED
    BY <1>0, <2>1, <2>2, <2>3, <2>4, <2>5, FrameAtomic
<1>3. CASE FetchBatch(s)
  <2> USE <1>3 DEF FetchBatch
  <2>1. RequestInv'
    BY DEF RequestInv, TypeOK, LiveCases, StoredCases
  <2>2. ResultInv'
    BY DEF ResultInv, TypeOK
  <2>3. AttemptInv'
    BY DEF AttemptInv, WorkerInv, TypeOK, Judging, Deciding, Current, StoredCases
  <2>4. NoLostWork'
    BY DEF NoLostWork, TypeOK, TaskAlive, GivenUp, Current
  <2>5. AllOrNothing'
    BY DEF AllOrNothing, RequestInv, TypeOK, StoredCases
  <2>6. QED
    BY <1>0, <2>1, <2>2, <2>3, <2>4, <2>5, FrameDecision
<1>4. CASE CreateSubmission(s)
  <2> USE <1>4 DEF CreateSubmission
  <2>1. RequestInv'
    BY DEF RequestInv, TypeOK, LiveCases, StoredCases
  <2>2. ResultInv'
    BY DEF ResultInv, TypeOK
  <2>3. AttemptInv'
    BY OtherRequest DEF AttemptInv, WorkerInv, TypeOK, Judging, Deciding, Current, StoredCases
  <2>4. NoLostWork'
    BY ZenonT(40) DEF NoLostWork, TypeOK, TaskAlive, GivenUp, Current
  <2>5. DecisionSound'
    BY DEF DecisionSound, TypeOK
  <2>6. AllOrNothing'
    BY DEF AllOrNothing, ResultInv, TypeOK, StoredCases
  <2>7. QED
    BY <1>0, <2>1, <2>2, <2>3, <2>4, <2>5, <2>6
<1>5. CASE FlushResults(s)
  <2> USE <1>5 DEF FlushResults
  <2>1. RequestInv'
    BY DEF RequestInv, TypeOK, LiveCases, StoredCases
  <2>2. ResultInv'
    BY DEF ResultInv, TypeOK
  <2>3. AttemptInv'
    BY DEF AttemptInv, WorkerInv, TypeOK, Judging, Deciding, Current, StoredCases
  <2>4. NoLostWork'
    BY ZenonT(40) DEF NoLostWork, TypeOK, TaskAlive, GivenUp, Current
  <2>5. QED
    BY <1>0, <2>1, <2>2, <2>3, <2>4, FrameDecision, FrameAtomic
<1>6. CASE SendPollTask(s)
  <2> USE <1>6 DEF SendPollTask
  <2>1. RequestInv'
    BY DEF RequestInv, TypeOK, LiveCases, StoredCases
  <2>2. ResultInv'
    BY DEF ResultInv, TypeOK
  <2>3. AttemptInv'
    BY DEF AttemptInv, WorkerInv, TypeOK, Judging, Deciding, Current, StoredCases
  <2>4. NoLostWork'
    <3> DEFINE sent == [submission |-> s, retries |-> 0]
    <3>1. sent \in Messages /\ sent.submission = s
      BY MaxRetriesAssumption DEF Messages
    <3>2. \A m \in Messages : queue[m] > 0 => queue'[m] > 0
      BY DEF TypeOK
    <3>3. queue'[sent] > 0
      BY <3>1 DEF TypeOK
    <3>4. TaskAlive(s)'
      BY <3>1, <3>3 DEF TaskAlive
    <3>5. ASSUME NEW r \in Submissions, r # s, TaskAlive(r)
          PROVE  TaskAlive(r)'
      BY <3>2, <3>5 DEF TaskAlive, Current
    <3>6. QED
      BY <3>4, <3>5 DEF NoLostWork, TypeOK, GivenUp
  <2>5. QED
    BY <1>0, <2>1, <2>2, <2>3, <2>4, FrameDecision, FrameAtomic
<1>7. CASE CommitResults(s)
  <2> USE <1>7 DEF CommitResults
  <2>1. RequestInv'
    BY DEF RequestInv, TypeOK, LiveCases, StoredCases
  <2>2. ResultInv'
    BY DEF ResultInv, RequestInv, TypeOK, StoredCases, LiveCases
  <2>3. AttemptInv'
    BY OtherRequest DEF AttemptInv, WorkerInv, TypeOK, Judging, Deciding, Current, StoredCases
  <2>4. NoLostWork'
    BY ZenonT(40) DEF NoLostWork, TypeOK, TaskAlive, GivenUp, Current
  <2>5. DecisionSound'
    BY SMTT(30) DEF DecisionSound, RequestInv, ResultInv, TypeOK, StoredCases
  <2>6. AllOrNothing'
    BY DEF AllOrNothing, TypeOK, StoredCases
  <2>7. QED
    BY <1>0, <2>1, <2>2, <2>3, <2>4, <2>5, <2>6
<1>8. CASE AbortRequest(s)
  <2> USE <1>8 DEF AbortRequest
  <2>1. RequestInv'
    BY DEF RequestInv, TypeOK, LiveCases, StoredCases
  <2>2. ResultInv'
    BY DEF ResultInv, TypeOK
  <2>3. AttemptInv'
    BY DEF AttemptInv, WorkerInv, TypeOK, Judging, Deciding, Current, StoredCases
  <2>4. NoLostWork'
    BY ZenonT(40) DEF NoLostWork, TypeOK, TaskAlive, GivenUp, Current
  <2>5. QED
    BY <1>0, <2>1, <2>2, <2>3, <2>4, FrameDecision, FrameAtomic
<1>9. QED
  BY <1>1, <1>2, <1>3, <1>4, <1>5, <1>6, <1>7, <1>8 DEF RequestStep

-----------------------------------------------------------------------------
(* Judge0 and the edits of the exercise.                                   *)

LEMMA JudgeKeepsInv ==
    ASSUME IInv, NEW s \in Submissions, NEW tc \in TestCases, JudgeToken(s, tc)
    PROVE  IInv'
<1> USE DEF IInv, JudgeToken, dbVars, requestVars, queueVars, attemptVars
<1>1. TypeOK'
  BY EnvironmentType
<1>2. \A r \in Submissions, c \in TestCases :
        judge0[r][c] \in Final => judge0'[r][c] = judge0[r][c]
  BY DEF TypeOK
<1>3. ResultInv'
  BY <1>2 DEF ResultInv, TypeOK
<1>4. AttemptInv'
  <2>1. \A w \in Workers : worker[w] \in Judging => Current(w) \in Submissions
    BY DEF TypeOK, Judging, Current, Messages
  <2>2. QED
    BY <1>2, <2>1 DEF AttemptInv, WorkerInv, TypeOK, Judging, Deciding, Current, StoredCases
<1>5. DecisionSound'
  BY <1>2 DEF DecisionSound, TypeOK
<1>6. QED
  BY <1>1, <1>3, <1>4, <1>5, FrameRequest, FrameWork, FrameAtomic

LEMMA LockedRows ==
    /\ \A w \in Workers : worker[w] \in {"loaded", "evaluated"} => dirty[w] \subseteq Locked(Current(w))
    /\ \A s \in Submissions : handler[s] \in {"flushed", "sent"} => snapshot[s] \subseteq Locked(s)
BY DEF Locked

LEMMA EditKeepsInv ==
    ASSUME IInv,
           \/ \E tc \in TestCases : CreateTestCase(tc) \/ DeleteTestCase(tc)
           \/ DeleteExercise
    PROVE  IInv'
<1> USE DEF IInv, dbVars, requestVars, queueVars, attemptVars
<1>0. TypeOK'
  BY EnvironmentType
<1>1. ASSUME NEW tc \in TestCases, CreateTestCase(tc)
      PROVE  IInv'
  <2> USE <1>1 DEF CreateTestCase
  <2>1. RequestInv'
    BY DEF RequestInv, TypeOK, LiveCases, StoredCases
  <2>2. ResultInv'
    BY DEF ResultInv, RequestInv, TypeOK
  <2>3. DecisionSound'
    BY DEF DecisionSound, RequestInv, TypeOK
  <2>4. QED
    BY <1>0, <2>1, <2>2, <2>3, FrameAttempt, FrameWork, FrameAtomic
<1>2. ASSUME NEW tc \in TestCases, DeleteTestCase(tc)
      PROVE  IInv'
  <2> USE <1>2 DEF DeleteTestCase
  <2>1. RequestInv'
    BY LockedRows DEF RequestInv, TypeOK, LiveCases, StoredCases
  <2>2. ResultInv'
    BY DEF ResultInv, TypeOK
  <2>3. AttemptInv'
    <3>1. \A w \in Workers : worker[w] \in Attempting => Current(w) \in Submissions
      BY DEF TypeOK, Current, Messages
    <3>2. \A w \in Workers : worker[w] \in {"loaded", "evaluated"} => tc \notin dirty[w]
      BY <3>1, LockedRows
    <3>3. \A s \in Submissions, c \in TestCases :
            testResults'[s][c] = IF c = tc THEN "none" ELSE testResults[s][c]
      BY DEF TypeOK
    <3>4. QED
      BY <3>1, <3>2, <3>3 DEF AttemptInv, WorkerInv, TypeOK, Judging, Deciding, Current, StoredCases
  <2>4. DecisionSound'
    BY DEF DecisionSound, TypeOK
  <2>5. AllOrNothing'
    BY DEF AllOrNothing, TypeOK, StoredCases
  <2>6. QED
    BY <1>0, <2>1, <2>2, <2>3, <2>4, <2>5, FrameWork
<1>3. CASE DeleteExercise
  <2> USE <1>3 DEF DeleteExercise
  <2>1. \A s \in Submissions : handler[s] \notin {"flushed", "sent"}
    BY LockedRows DEF RequestInv
  <2>2. RequestInv'
    BY <2>1 DEF RequestInv, TypeOK, LiveCases, StoredCases
  <2>3. ResultInv'
    BY DEF ResultInv, TypeOK, NoRows
  <2>4. AttemptInv'
    <3>1. \A w \in Workers : worker[w] \in Attempting => Current(w) \in Submissions
      BY DEF TypeOK, Current, Messages
    <3>2. \A w \in Workers : worker[w] \in {"loaded", "evaluated"} => dirty[w] = {}
      BY <3>1, LockedRows
    <3>3. QED
      BY <3>1, <3>2 DEF AttemptInv, WorkerInv, TypeOK, Judging, Deciding, Current, StoredCases, NoRows
  <2>5. NoLostWork' /\ DecisionSound' /\ AllOrNothing'
    BY DEF NoLostWork, DecisionSound, AllOrNothing
  <2>6. QED
    BY <1>0, <2>2, <2>3, <2>4, <2>5
<1>4. QED
  BY <1>1, <1>2, <1>3

-----------------------------------------------------------------------------
(* The actor and the faults of the delivery.                               *)

\* A step of worker w that takes no message from the queue loses no task but, perhaps,
\* that of its own submission.
LEMMA WorkKept ==
    ASSUME NoLostWork, NEW w \in Workers, handler' = handler,
           \A v \in Workers \ {w} : worker'[v] = worker[v] /\ message'[v] = message[v],
           \A m \in Messages : queue[m] > 0 => queue'[m] > 0,
           \A s \in Submissions : status'[s] = "pending" => status[s] = "pending",
           deadLetters \subseteq deadLetters', warned \subseteq warned',
           \A s \in Submissions :
              worker[w] \in Attempting \cup {"nack"} /\ s = Current(w) /\ status'[s] = "pending" =>
                 TaskAlive(s)' \/ s \in GivenUp'
    PROVE  NoLostWork'
<1> SUFFICES ASSUME NEW s \in Submissions, TaskAlive(s), status'[s] = "pending"
             PROVE  TaskAlive(s)' \/ s \in GivenUp'
  BY DEF NoLostWork, GivenUp
<1>1. CASE \E m \in Messages : m.submission = s /\ queue[m] > 0
  BY <1>1 DEF TaskAlive
<1>2. ASSUME NEW v \in Workers, worker[v] \in Attempting \cup {"nack"}, Current(v) = s
      PROVE  TaskAlive(s)' \/ s \in GivenUp'
  <2>1. CASE v = w
    BY <1>2, <2>1
  <2>2. CASE v # w
    BY <1>2, <2>2 DEF TaskAlive, Current
  <2>3. QED
    BY <2>1, <2>2
<1>3. QED
  BY <1>1, <1>2 DEF TaskAlive

\* An attempt that raises leaves its task in the queue, or fails its message.
LEMMA RaiseKeepsInv ==
    ASSUME IInv, NEW w \in Workers, worker[w] \in Attempting, Raise(w), RaiseUnchanged
    PROVE  IInv'
<1> USE DEF IInv, RaiseUnchanged, dbVars, requestVars
<1>1. TypeOK'
  BY RaiseType
<1>2. /\ message[w] \in Messages
      /\ worker' \in [Workers -> {"idle", "ack", "nack"} \cup Attempting]
      /\ worker'[w] \in {"ack", "nack"}
      /\ \A v \in Workers \ {w} : worker'[v] = worker[v]
  BY <1>1 DEF Raise, TypeOK
<1>3. AttemptInv'
  BY <1>2 DEF AttemptInv, WorkerInv, TypeOK, Judging, Deciding, Current, StoredCases
<1>4. /\ \A m \in Messages : queue[m] > 0 => queue'[m] > 0
      /\ \A s \in Submissions : s = Current(w) => TaskAlive(s)'
  <2>1. CASE message[w].retries < MaxRetries
    <3> DEFINE again == Retried(message[w])
    <3>1. again \in Messages /\ again.submission = Current(w)
      BY <1>2, <2>1, MaxRetriesAssumption DEF Messages, Retried, Current
    <3>2. queue' = [queue EXCEPT ![again] = @ + 1]
      BY <2>1 DEF Raise
    <3>3. queue'[again] > 0 /\ \A m \in Messages : queue[m] > 0 => queue'[m] > 0
      BY <3>1, <3>2 DEF TypeOK
    <3>4. Current(w)' = Current(w)
      BY DEF Current
    <3>5. QED
      BY <3>1, <3>3, <3>4 DEF TaskAlive
  <2>2. CASE ~ message[w].retries < MaxRetries
    <3>1. worker'[w] = "nack" /\ queue' = queue
      BY <2>2 DEF Raise, TypeOK
    <3>2. QED
      BY <3>1 DEF TaskAlive, Current
  <2>3. QED
    BY <2>1, <2>2
<1>5. NoLostWork'
  BY <1>2, <1>4, WorkKept
<1>6. QED
  BY <1>1, <1>3, <1>5, FrameRequest, FrameResult, FrameDecision, FrameAtomic

\* The other workers are not concerned by a step that leaves the database alone.
LEMMA OtherWorkers ==
    ASSUME TypeOK, AttemptInv, NEW w \in Workers, WorkerInv(w)',
           UNCHANGED <<handler, snapshot, testResults, judge0, status>>,
           \A v \in Workers \ {w} :
              /\ worker'[v] = worker[v] /\ message'[v] = message[v] /\ rows'[v] = rows[v]
              /\ dirty'[v] = dirty[v] /\ loaded'[v] = loaded[v]
    PROVE  AttemptInv'
BY DEF AttemptInv, WorkerInv, Judging, Deciding, Current, StoredCases

\* A released worker has nothing that the invariant speaks of.
LEMMA ReleaseAttempt ==
    ASSUME TypeOK, AttemptInv, NEW w \in Workers, Release(w),
           UNCHANGED <<handler, snapshot, testResults, judge0, status>>
    PROVE  AttemptInv'
<1>1. \A v \in Workers \ {w} :
        /\ worker'[v] = worker[v] /\ message'[v] = message[v] /\ rows'[v] = rows[v]
        /\ dirty'[v] = dirty[v] /\ loaded'[v] = loaded[v]
  BY DEF Release, TypeOK
<1>2. WorkerInv(w)'
  BY DEF Release, TypeOK, WorkerInv, Judging, Deciding
<1>3. QED
  BY <1>1, <1>2, OtherWorkers

\* The commit of a decision: the rows that w has read cover every stored result, all
\* of them have Judge0's verdict, and the decision is read off them.
LEMMA CommitKeepsInv ==
    ASSUME IInv, NEW w \in Workers, CommitDecision(w)
    PROVE  IInv'
<1> DEFINE s == Current(w)
<1> USE DEF IInv, CommitDecision, Proceed, requestVars, queueVars
<1>0. TypeOK'
  BY WorkerType DEF WorkerStep
<1>1. s \in Submissions /\ message[w] \in Messages
  BY DEF TypeOK, Current, Messages
<1>2. \A tc \in TestCases :
        /\ rows[w][tc] \in {"none"} \cup Final
        /\ testResults[s][tc] # "none" => rows[w][tc] # "none"
        /\ rows[w][tc] # "none" => tc \in snapshot[s] /\ judge0[s][tc] = rows[w][tc]
        /\ tc \in dirty[w] => testResults[s][tc] # "none"
        /\ rows[w][tc] \in Final /\ tc \notin dirty[w] => testResults[s][tc] \in {"none"} \cup Final
  BY <1>1 DEF AttemptInv, WorkerInv, TypeOK, Judging, Deciding, StoredCases
<1>3. /\ handler[s] = "done"
      /\ status[s] # "none"
      /\ Decision(w) \in Decided
      /\ loaded[w] \in Decided => status[s] # "pending"
  BY <1>1 DEF AttemptInv, WorkerInv, RequestInv, Judging, Decision
<1>4. /\ \A r \in Submissions \ {s} : status'[r] = status[r] /\ testResults'[r] = testResults[r]
      /\ status'[s] = IF Decision(w) = loaded[w] THEN status[s] ELSE Decision(w)
      /\ status'[s] # "pending"
      /\ status[s] = "deleted" <=> status'[s] = "deleted"
      /\ \A tc \in TestCases : testResults'[s][tc] =
            IF tc \in dirty[w] THEN rows[w][tc] ELSE testResults[s][tc]
  BY <1>1, <1>3 DEF TypeOK
\* The stored results of s are now exactly the rows, and all of them final.
<1>5. \A tc \in TestCases :
        /\ testResults'[s][tc] = "none" <=> testResults[s][tc] = "none"
        /\ testResults'[s][tc] # "none" => testResults'[s][tc] = rows[w][tc]
  <2> SUFFICES ASSUME NEW tc \in TestCases
               PROVE  /\ testResults'[s][tc] = "none" <=> testResults[s][tc] = "none"
                      /\ testResults'[s][tc] # "none" => testResults'[s][tc] = rows[w][tc]
    OBVIOUS
  <2>1. CASE tc \in dirty[w]
    BY <1>2, <1>4, <2>1
  <2>2. CASE tc \notin dirty[w]
    BY <1>1, <1>2, <1>4, <2>2 DEF ResultInv
  <2>3. QED
    BY <2>1, <2>2
<1>6. RequestInv'
  BY <1>1, <1>3, <1>4 DEF RequestInv, TypeOK, StoredCases, LiveCases
<1>7. ResultInv'
  BY <1>1, <1>2, <1>4, <1>5, SMTT(30) DEF ResultInv
<1>8. AttemptInv'
  <2>1. \A v \in Workers : worker'[v] \in Judging => v # w /\ worker'[v] = worker[v]
    BY DEF TypeOK, Judging
  <2>2. \A r \in Submissions, tc \in TestCases :
          /\ testResults'[r][tc] = "none" <=> testResults[r][tc] = "none"
          /\ testResults[r][tc] \in Final => testResults'[r][tc] \in Final
    BY <1>1, <1>2, <1>4, <1>5
  <2>3. \A r \in Submissions : status[r] # "pending" => status'[r] # "pending"
    BY <1>4
  <2>4. \A v \in Workers : worker[v] \in Attempting => Current(v) \in Submissions
    BY DEF TypeOK, Current, Messages
  <2>5. QED
    BY <2>1, <2>2, <2>3, <2>4 DEF AttemptInv, WorkerInv, TypeOK, Judging, Deciding, Current, StoredCases
<1>9. NoLostWork'
  <2>1. \A r \in Submissions : status'[r] = "pending" => status[r] = "pending"
    BY <1>4
  <2>2. \A v \in Workers \ {w} : worker'[v] = worker[v] /\ message'[v] = message[v]
    BY DEF TypeOK
  <2>3. QED
    BY <1>4, <2>1, <2>2, WorkKept
<1>10. DecisionSound'
  <2>1. ASSUME status'[s] = "completed", NEW tc \in snapshot[s], testcases[tc] # "deleted"
        PROVE  testResults'[s][tc] = "accepted"
    <3>1. tc \in TestCases /\ testcases[tc] = "live" /\ exercise = "live"
      BY <1>1, <2>1 DEF RequestInv, TypeOK, LiveCases
    <3>2. testResults[s][tc] # "none"
      BY <1>1, <1>3, <3>1 DEF ResultInv
    <3>3. CASE status[s] = "completed"
      BY <1>1, <1>2, <1>5, <2>1, <3>1, <3>2, <3>3 DEF DecisionSound, ResultInv
    <3>4. CASE status[s] # "completed"
      <4>1. Decision(w) = "completed"
        BY <1>4, <2>1, <3>4
      <4>2. rows[w][tc] = "accepted"
        BY <1>2, <3>1, <3>2, <4>1 DEF Decision, StoredCases
      <4>3. QED
        BY <1>5, <3>1, <3>2, <4>2
    <3>5. QED
      BY <3>3, <3>4
  <2>2. ASSUME status'[s] = "failed"
        PROVE  \E tc \in snapshot[s] : judge0[s][tc] = "rejected"
    <3>1. CASE status[s] = "failed"
      BY <1>1, <3>1 DEF DecisionSound
    <3>2. CASE status[s] # "failed"
      <4>1. Decision(w) = "failed"
        BY <1>4, <2>2, <3>2
      <4>2. PICK tc \in TestCases : rows[w][tc] # "none" /\ rows[w][tc] # "accepted"
        BY <4>1 DEF Decision, StoredCases
      <4>3. QED
        BY <1>2, <4>2
    <3>3. QED
      BY <3>1, <3>2
  <2>3. snapshot' = snapshot /\ testcases' = testcases /\ judge0' = judge0
    OBVIOUS
  <2>4. ASSUME NEW r \in Submissions
        PROVE  /\ status'[r] = "completed" => \A tc \in snapshot'[r] :
                     testcases'[tc] # "deleted" => testResults'[r][tc] = "accepted"
               /\ status'[r] = "failed" => \E tc \in snapshot'[r] : judge0'[r][tc] = "rejected"
    <3>1. CASE r = s
      <4> HIDE DEF CommitDecision
      <4>1. QED
        BY <2>1, <2>2, <2>3, <3>1
    <3>2. CASE r # s
      BY <1>4, <2>3, <3>2 DEF DecisionSound
    <3>3. QED
      BY <3>1, <3>2
  <2>5. QED
    BY <2>4 DEF DecisionSound
<1>11. AllOrNothing'
  BY <1>4 DEF AllOrNothing, StoredCases
<1>12. QED
  BY <1>0, <1>6, <1>7, <1>8, <1>9, <1>10, <1>11

LEMMA WorkerKeepsInv ==
    ASSUME IInv, NEW w \in Workers, WorkerStep(w) \/ ServiceError(w)
    PROVE  IInv'
<1> USE DEF IInv, dbVars, requestVars, queueVars, attemptVars, Proceed
<1>0. TypeOK'
  BY WorkerType
<1>1. ASSUME NEW m \in Messages, FetchMessage(w, m)
      PROVE  IInv'
  <2> USE <1>1 DEF FetchMessage
  <2>1. AttemptInv'
    BY DEF AttemptInv, WorkerInv, TypeOK, Judging, Deciding, Current, StoredCases
  <2>2. NoLostWork'
    <3>1. worker'[w] = "started" /\ message'[w] = m
      BY DEF TypeOK
    <3>2. TaskAlive(m.submission)'
      BY <3>1 DEF TaskAlive, Current
    <3>3. ASSUME NEW s \in Submissions, s # m.submission, TaskAlive(s)
          PROVE  TaskAlive(s)'
      <4>1. CASE \E n \in Messages : n.submission = s /\ queue[n] > 0
        BY <3>3, <4>1 DEF TaskAlive, TypeOK
      <4>2. ASSUME NEW v \in Workers, worker[v] \in Attempting \cup {"nack"}, Current(v) = s
            PROVE  TaskAlive(s)'
        BY <4>2 DEF TaskAlive, Current
      <4>3. QED
        BY <3>3, <4>1, <4>2 DEF TaskAlive
    <3>4. QED
      BY <3>2, <3>3 DEF NoLostWork, GivenUp
  <2>3. QED
    BY <1>0, <2>1, <2>2, FrameRequest, FrameResult, FrameDecision, FrameAtomic
<1>2. CASE NoTestResults(w)
  <2> USE <1>2 DEF NoTestResults
  <2>1. AttemptInv'
    BY DEF AttemptInv, WorkerInv, TypeOK, Judging, Deciding, Current, StoredCases
  <2>2. NoLostWork'
    <3>1. \A v \in Workers \ {w} : worker'[v] = worker[v] /\ message'[v] = message[v]
      BY DEF TypeOK
    <3>2. Current(w) \in warned'
      OBVIOUS
    <3>3. QED
      BY <3>1, <3>2, WorkKept DEF GivenUp
  <2>3. QED
    BY <1>0, <2>1, <2>2, FrameRequest, FrameResult, FrameDecision, FrameAtomic
<1>3. CASE \/ ReadTestResults(w) \/ PollJudge0(w) \/ LoadSubmission(w) \/ EvaluateSubmission(w)
  <2> USE DEF ReadTestResults, PollJudge0, LoadSubmission, EvaluateSubmission
  <2>0. Current(w) \in Submissions /\ WorkerInv(w)
    BY <1>3, BusyWorker DEF AttemptInv
  <2>9. \A v \in Workers \ {w} :
              /\ worker'[v] = worker[v] /\ message'[v] = message[v] /\ rows'[v] = rows[v]
              /\ dirty'[v] = dirty[v] /\ loaded'[v] = loaded[v]
    BY <1>3 DEF TypeOK
  <2>1. ASSUME ReadTestResults(w) PROVE AttemptInv'
    <3>1. WorkerInv(w)'
      BY <2>0, <2>1 DEF WorkerInv, ResultInv, TypeOK, Judging, Deciding, Current, StoredCases
    <3>2. QED
      BY <2>1, <2>9, <3>1, OtherWorkers
  <2>2. ASSUME PollJudge0(w) PROVE AttemptInv'
    <3>1. \A tc \in TestCases :
            /\ rows'[w][tc] = IF tc \in Pending(w) THEN judge0[Current(w)][tc] ELSE rows[w][tc]
            /\ rows'[w][tc] # "queued"
      BY <2>2 DEF TypeOK, Pending
    <3>2. WorkerInv(w)'
      BY <2>0, <2>2, <3>1 DEF WorkerInv, TypeOK, Judging, Deciding, Current, Pending
    <3>3. QED
      BY <2>2, <2>9, <3>2, OtherWorkers
  <2>3. ASSUME LoadSubmission(w) PROVE AttemptInv'
    <3>1. status[Current(w)] \in {"pending"} \cup Decided
      BY <2>0, <2>3 DEF WorkerInv, RequestInv, TypeOK, Judging
    <3>2. WorkerInv(w)'
      BY <2>0, <2>3, <3>1 DEF WorkerInv, TypeOK, Judging, Deciding, Current, StoredCases
    <3>3. QED
      BY <2>3, <2>9, <3>2, OtherWorkers
  <2>4. ASSUME EvaluateSubmission(w) PROVE AttemptInv'
    <3>1. WorkerInv(w)'
      BY <2>0, <2>4 DEF WorkerInv, TypeOK, Judging, Deciding, Current, StoredCases
    <3>2. QED
      BY <2>4, <2>9, <3>1, OtherWorkers
  <2>5. AttemptInv'
    BY <1>3, <2>1, <2>2, <2>3, <2>4
  <2>6. NoLostWork'
    <3>1. worker'[w] \in Attempting /\ message'[w] = message[w]
      BY <1>3, <1>0 DEF TypeOK
    <3>2. \A v \in Workers \ {w} : worker'[v] = worker[v] /\ message'[v] = message[v]
      BY <1>3 DEF TypeOK
    <3>3. \A s \in Submissions : s = Current(w) => TaskAlive(s)'
      BY <3>1 DEF TaskAlive, Current
    <3>4. QED
      BY <1>3, <3>2, <3>3, WorkKept
  <2>7. QED
    BY <1>0, <1>3, <2>5, <2>6, FrameRequest, FrameResult, FrameDecision, FrameAtomic
<1>4. CASE SubmissionOrExerciseGone(w)
  <2> USE <1>4 DEF SubmissionOrExerciseGone
  <2>1. AttemptInv'
    BY DEF AttemptInv, WorkerInv, TypeOK, Judging, Deciding, Current, StoredCases
  <2>2. status[Current(w)] # "pending"
    BY BusyWorker DEF RequestInv
  <2>3. \A v \in Workers \ {w} : worker'[v] = worker[v] /\ message'[v] = message[v]
    BY DEF TypeOK
  <2>4. NoLostWork'
    BY <2>2, <2>3, WorkKept
  <2>5. QED
    BY <1>0, <2>1, <2>4, FrameRequest, FrameResult, FrameDecision, FrameAtomic
<1>5. CASE CommitDecision(w)
  BY <1>5, CommitKeepsInv
<1>6. CASE PollRaises(w) \/ FlushRaises(w) \/ ServiceError(w)
  BY <1>6, RaiseKeepsInv DEF PollRaises, FlushRaises, ServiceError
<1>7. CASE Acknowledge(w) \/ DeadLetter(w)
  <2> USE DEF Acknowledge, DeadLetter
  <2>1. /\ Release(w)
        /\ UNCHANGED <<handler, snapshot, fetched, exercise, testcases, testResults, judge0,
                       status, queue, warned>>
        /\ deadLetters \subseteq deadLetters'
        /\ worker[w] \in {"ack", "nack"}
        /\ worker[w] = "nack" => Current(w) \in deadLetters'
    BY <1>7
  <2>2. \A v \in Workers \ {w} : worker'[v] = worker[v] /\ message'[v] = message[v]
    BY <2>1 DEF Release, TypeOK
  <2>3. NoLostWork'
    BY <2>1, <2>2, WorkKept DEF GivenUp
  <2>4. QED
    BY <1>0, <2>1, <2>3, ReleaseAttempt, FrameRequest, FrameResult, FrameDecision, FrameAtomic
<1>8. QED
  BY <1>1, <1>2, <1>3, <1>4, <1>5, <1>6, <1>7 DEF WorkerStep

LEMMA FaultKeepsInv == ASSUME IInv, FaultStep PROVE IInv'
<1> USE DEF IInv, dbVars, requestVars, queueVars, attemptVars, Fault
<1>0. TypeOK'
  BY FaultType
<1>1. ASSUME NEW w \in Workers, CrashWorker(w) \/ LoseLease(w)
      PROVE  IInv'
  <2> USE DEF CrashWorker, LoseLease
  <2>1. /\ UNCHANGED <<handler, snapshot, fetched, exercise, testcases, testResults, judge0,
                       status, deadLetters, warned>>
        /\ Release(w) \/ UNCHANGED attemptVars
        /\ worker[w] # "idle"
        /\ queue' = [queue EXCEPT ![message[w]] = @ + 1]
    BY <1>1
  <2>2. /\ message[w] \in Messages
        /\ queue'[message[w]] > 0
        /\ \A m \in Messages : queue[m] > 0 => queue'[m] > 0
    BY <2>1 DEF TypeOK
  <2>3. \A v \in Workers \ {w} : worker'[v] = worker[v] /\ message'[v] = message[v]
    BY <2>1 DEF Release, TypeOK
  <2>4. \A s \in Submissions : s = Current(w) => TaskAlive(s)'
    BY <2>2 DEF TaskAlive, Current
  <2>5. NoLostWork'
    BY <2>1, <2>2, <2>3, <2>4, WorkKept
  <2>6. AttemptInv'
    BY <2>1, ReleaseAttempt, FrameAttempt
  <2>7. QED
    BY <1>0, <2>1, <2>5, <2>6, FrameRequest, FrameResult, FrameDecision, FrameAtomic
<1>2. ASSUME NEW m \in Messages, ExpireMessage(m)
      PROVE  IInv'
  <2> USE <1>2 DEF ExpireMessage
  <2>1. NoLostWork'
    <3>1. ASSUME NEW s \in Submissions, s # m.submission, TaskAlive(s)
          PROVE  TaskAlive(s)'
      <4>1. CASE \E n \in Messages : n.submission = s /\ queue[n] > 0
        BY <3>1, <4>1 DEF TaskAlive, TypeOK
      <4>2. CASE \E v \in Workers : worker[v] \in Attempting \cup {"nack"} /\ Current(v) = s
        BY <4>2 DEF TaskAlive, Current
      <4>3. QED
        BY <3>1, <4>1, <4>2 DEF TaskAlive
    <3>2. QED
      BY <3>1 DEF NoLostWork, GivenUp
  <2>2. QED
    BY <1>0, <2>1, FrameRequest, FrameResult, FrameAttempt, FrameDecision, FrameAtomic
<1>3. QED
  BY <1>1, <1>2 DEF FaultStep

-----------------------------------------------------------------------------
(* The theorems.                                                           *)

LEMMA NextKeepsInv == IInv /\ [Next]_vars => IInv'
<1>1. ASSUME IInv, UNCHANGED vars PROVE IInv'
  <2> USE <1>1 DEF IInv, vars, dbVars, requestVars, queueVars, attemptVars
  <2>1. TypeOK'
    BY NextType
  <2>2. QED
    BY <2>1, FrameRequest, FrameResult, FrameAttempt, FrameWork, FrameDecision, FrameAtomic
<1>2. QED
  BY <1>1, RequestKeepsInv, JudgeKeepsInv, EditKeepsInv, WorkerKeepsInv, FaultKeepsInv DEF Next

\* The inductive invariant holds in every behaviour, for any number of submissions, test
\* cases, workers, retries and faults.
THEOREM Inductive == Spec => []IInv
BY InitInv, NextKeepsInv, PTL DEF Spec

\* The task of a pending submission is never lost silently, whatever the worker crashes,
\* duplicated deliveries, retries and deletions.
THEOREM WorkIsNotLost == Spec => []NoLostWork
BY Inductive, PTL DEF IInv

\* A decision is the one that Judge0's verdicts on all the test cases call for.
THEOREM DecisionsAreSound == Spec => []DecisionSound
BY Inductive, PTL DEF IInv

\* Until a submission is decided none of its stored verdicts changes.
THEOREM AttemptsAreAtomic == Spec => []AllOrNothing
BY Inductive, PTL DEF IInv

\* Only the commit of an attempt writes a decision over another one.
LEMMA FlipByCommit ==
    ASSUME TypeOK, Next, NEW s \in Submissions, DecisionFlip(s)
    PROVE  \E w \in Workers : CommitDecision(w) /\ Current(w) = s
<1> USE DEF DecisionFlip, TypeOK, dbVars, requestVars, queueVars, attemptVars
<1>1. status[s] \in Decided /\ status'[s] \in Decided /\ status'[s] # status[s]
  OBVIOUS
<1>2. ASSUME NEW r \in Submissions, RequestStep(r) \/ AbortRequest(r)
      PROVE  FALSE
  BY <1>1, <1>2 DEF RequestStep, ReadTestCases, PostBatch, FetchBatch, CreateSubmission,
       FlushResults, SendPollTask, CommitResults, AbortRequest
<1>3. ASSUME \/ \E r \in Submissions, tc \in TestCases : JudgeToken(r, tc)
             \/ \E tc \in TestCases : CreateTestCase(tc) \/ DeleteTestCase(tc)
             \/ DeleteExercise \/ FaultStep
      PROVE  FALSE
  BY <1>1, <1>3 DEF JudgeToken, CreateTestCase, DeleteTestCase, DeleteExercise, FaultStep,
       CrashWorker, LoseLease, ExpireMessage
<1>4. ASSUME NEW w \in Workers, WorkerStep(w) \/ ServiceError(w)
      PROVE  CommitDecision(w) /\ Current(w) = s
  <2>1. CASE CommitDecision(w)
    <3>1. Current(w) \in Submissions
      BY <2>1, BusyWorker DEF CommitDecision, Proceed
    <3>2. QED
      BY <1>1, <2>1, <3>1 DEF CommitDecision
  <2>2. ASSUME ~ CommitDecision(w)
        PROVE  FALSE
    BY <1>1, <1>4, <2>2 DEF WorkerStep, FetchMessage, NoTestResults, ReadTestResults, PollJudge0,
         LoadSubmission, SubmissionOrExerciseGone, EvaluateSubmission, PollRaises, FlushRaises,
         ServiceError, RaiseUnchanged, Acknowledge, DeadLetter
  <2>3. QED
    BY <2>1, <2>2
<1>5. QED
  BY <1>2, <1>3, <1>4 DEF Next

\* When no test case of s was deleted, both decisions would be read off the same complete
\* set of final verdicts.
LEMMA NoFlip ==
    ASSUME IInv, Next, NEW s \in Submissions, DecisionFlip(s)
    PROVE  \E tc \in snapshot[s] : testcases[tc] = "deleted"
<1> SUFFICES ASSUME \A tc \in snapshot[s] : testcases[tc] # "deleted"
             PROVE  FALSE
  OBVIOUS
<1> USE DEF IInv
<1>1. PICK w \in Workers : CommitDecision(w) /\ Current(w) = s
  BY FlipByCommit
<1>2. /\ worker[w] = "evaluated"
      /\ status[s] \in Decided /\ Decision(w) \in Decided /\ Decision(w) # status[s]
  BY <1>1 DEF CommitDecision, Proceed, DecisionFlip, Decision, TypeOK
<1>3. /\ handler[s] = "done"
      /\ \A tc \in TestCases :
            /\ rows[w][tc] \in {"none"} \cup Final
            /\ rows[w][tc] # "none" => tc \in snapshot[s] /\ judge0[s][tc] = rows[w][tc]
            /\ testResults[s][tc] # "none" => rows[w][tc] # "none"
  BY <1>1, <1>2 DEF AttemptInv, WorkerInv, TypeOK, Judging, Deciding
<1>4. \A tc \in snapshot[s] : tc \in TestCases /\ testResults[s][tc] # "none"
  <2>1. exercise = "live"
    BY <1>2 DEF RequestInv, TypeOK
  <2>2. \A tc \in snapshot[s] : tc \in TestCases /\ testcases[tc] = "live"
    BY DEF RequestInv, TypeOK
  <2>3. QED
    BY <1>3, <2>1, <2>2 DEF ResultInv
<1>5. CASE status[s] = "completed"
  <2>1. \A tc \in snapshot[s] : judge0[s][tc] = "accepted"
    BY <1>4, <1>5 DEF DecisionSound, ResultInv
  <2>2. Decision(w) = "completed"
    BY <1>3, <2>1 DEF Decision, StoredCases
  <2>3. QED
    BY <1>2, <1>5, <2>2
<1>6. CASE status[s] = "failed"
  <2>1. PICK tc \in snapshot[s] : judge0[s][tc] = "rejected"
    BY <1>6 DEF DecisionSound
  <2>2. tc \in TestCases /\ rows[w][tc] = "rejected"
    BY <1>3, <1>4, <2>1
  <2>3. Decision(w) = "failed"
    BY <2>2 DEF Decision, StoredCases
  <2>4. QED
    BY <1>2, <1>6, <2>3
<1>7. QED
  BY <1>2, <1>5, <1>6

\* A decision changes only after one of the test cases it was based on was deleted,
\* however many duplicated or retried attempts decide the submission.
THEOREM DecisionsAreStable == Spec => DecisionStable
<1>1. IInv /\ [Next]_vars =>
        [\A s \in Submissions : DecisionFlip(s) => \E tc \in snapshot[s] : testcases[tc] = "deleted"]_vars
  BY NoFlip
<1>2. QED
  BY <1>1, Inductive, PTL DEF Spec, DecisionStable

-----------------------------------------------------------------------------
(* The pipeline implements SubmissionLifecycle, for any values of the       *)
(* constants.                                                              *)

LEMMA SubmittedInit == Init => SubmittedInv
BY DEF Init, SubmittedInv, Judging, StoredCases

\* A step keeps SubmittedInv when it keeps the handler, Judge0's tokens and the rows a
\* worker has read.
LEMMA SubmittedNext == IInv /\ SubmittedInv /\ [Next]_vars => SubmittedInv'
<1> SUFFICES ASSUME IInv, SubmittedInv, [Next]_vars PROVE SubmittedInv'
  OBVIOUS
<1> USE DEF dbVars, requestVars, queueVars, attemptVars
<1>t. TypeOK
  BY DEF IInv
<1>1. ASSUME NEW s \in Submissions, RequestStep(s) \/ AbortRequest(s)
      PROVE  SubmittedInv'
  <2>1. UNCHANGED <<worker, rows>>
    BY <1>1 DEF RequestStep, ReadTestCases, PostBatch, FetchBatch, CreateSubmission, FlushResults,
         SendPollTask, CommitResults, AbortRequest
  <2>2. \A r \in Submissions \ {s} : /\ handler'[r] = handler[r] /\ judge0'[r] = judge0[r]
                                     /\ fetched'[r] = fetched[r] /\ status'[r] = status[r]
    BY <1>1, <1>t DEF TypeOK, RequestStep, ReadTestCases, PostBatch, FetchBatch, CreateSubmission,
         FlushResults, SendPollTask, CommitResults, AbortRequest, Step
  <2>3. /\ handler'[s] \in {"idle", "read"} => judge0'[s] = NoRows
        /\ handler'[s] \in {"fetched", "created", "flushed", "sent", "done"} =>
              StoredCases(fetched'[s]) = StoredCases(judge0'[s])
        /\ handler'[s] \in {"created", "flushed", "sent"} => status'[s] \in {"pending", "deleted"}
    <3> USE <1>t DEF TypeOK, SubmittedInv, Step
    <3>1. CASE ReadTestCases(s)
      BY <3>1 DEF ReadTestCases
    <3>2. CASE PostBatch(s)
      BY <3>2 DEF PostBatch
    <3>3. CASE FetchBatch(s)
      BY <3>3 DEF FetchBatch
    <3>4. CASE CreateSubmission(s)
      BY <3>4 DEF CreateSubmission
    <3>5. CASE FlushResults(s) \/ SendPollTask(s) \/ CommitResults(s) \/ AbortRequest(s)
      BY <3>5 DEF FlushResults, SendPollTask, CommitResults, AbortRequest
    <3>6. QED
      BY <1>1, <3>1, <3>2, <3>3, <3>4, <3>5 DEF RequestStep
  <2>4. QED
    BY <2>1, <2>2, <2>3 DEF SubmittedInv, StoredCases
<1>2. ASSUME NEW s \in Submissions, NEW tc \in TestCases, JudgeToken(s, tc)
      PROVE  SubmittedInv'
  <2>1. \A r \in Submissions : /\ StoredCases(judge0'[r]) = StoredCases(judge0[r])
                               /\ handler[r] \in {"idle", "read"} => r # s
    BY <1>t, <1>2 DEF TypeOK, JudgeToken, StoredCases, SubmittedInv, NoRows
  <2>2. \A r \in Submissions \ {s} : judge0'[r] = judge0[r]
    BY <1>t, <1>2 DEF TypeOK, JudgeToken
  <2>3. UNCHANGED <<handler, fetched, status, worker, rows>>
    BY <1>2 DEF JudgeToken
  <2>4. \A r \in Submissions :
          /\ handler'[r] \in {"idle", "read"} => judge0'[r] = NoRows
          /\ handler'[r] \in {"fetched", "created", "flushed", "sent", "done"} =>
                StoredCases(fetched'[r]) = StoredCases(judge0'[r])
    BY <2>1, <2>2, <2>3 DEF SubmittedInv
  <2>5. QED
    BY <2>3, <2>4 DEF SubmittedInv, StoredCases
<1>3. ASSUME \/ \E tc \in TestCases : CreateTestCase(tc) \/ DeleteTestCase(tc)
             \/ DeleteExercise
      PROVE  SubmittedInv'
  <2>1. UNCHANGED <<handler, judge0, fetched, worker, rows>>
    BY <1>3 DEF CreateTestCase, DeleteTestCase, DeleteExercise
  <2>2. \A s \in Submissions : status'[s] \in {status[s], "deleted"}
    BY <1>3, <1>t DEF TypeOK, CreateTestCase, DeleteTestCase, DeleteExercise
  <2>3. QED
    BY <2>1, <2>2 DEF SubmittedInv, StoredCases
<1>4. ASSUME NEW w \in Workers, WorkerStep(w) \/ ServiceError(w)
      PROVE  SubmittedInv'
  <2>1. UNCHANGED <<handler, judge0, fetched>>
    BY <1>4 DEF WorkerStep, FetchMessage, NoTestResults, ReadTestResults, PollJudge0, LoadSubmission,
         SubmissionOrExerciseGone, EvaluateSubmission, CommitDecision, PollRaises, FlushRaises,
         ServiceError, RaiseUnchanged, Acknowledge, DeadLetter
  <2>2. \A v \in Workers \ {w} : worker'[v] = worker[v] /\ rows'[v] = rows[v]
    BY <1>4, <1>t DEF TypeOK, WorkerStep, FetchMessage, NoTestResults, ReadTestResults, PollJudge0,
         LoadSubmission, SubmissionOrExerciseGone, EvaluateSubmission, CommitDecision, PollRaises,
         FlushRaises, ServiceError, Raise, RaiseUnchanged, Acknowledge, DeadLetter, Release, Proceed
  <2>3. \A s \in Submissions : handler[s] # "done" => status'[s] = status[s]
    <3>1. CASE CommitDecision(w)
      <4>1. handler[Current(w)] = "done"
        BY <3>1 DEF IInv, AttemptInv, WorkerInv, CommitDecision, Proceed, Judging
      <4>2. QED
        BY <1>t, <3>1, <4>1 DEF TypeOK, CommitDecision
    <3>2. ASSUME ~ CommitDecision(w)
          PROVE  status' = status
      BY <1>4, <3>2 DEF WorkerStep, FetchMessage, NoTestResults, ReadTestResults, PollJudge0,
           LoadSubmission, SubmissionOrExerciseGone, EvaluateSubmission, PollRaises, FlushRaises,
           ServiceError, RaiseUnchanged, Acknowledge, DeadLetter
    <3>3. QED
      BY <3>1, <3>2
  <2>4. worker'[w] \in Judging => StoredCases(rows'[w]) # {}
    <3> USE <1>t DEF TypeOK, Judging, Proceed
    <3>1. CASE ReadTestResults(w)
      BY <3>1, BusyWorker DEF ReadTestResults
    <3>2. CASE PollJudge0(w)
      <4>1. StoredCases(rows[w]) # {}
        BY <3>2 DEF PollJudge0, SubmittedInv
      <4>2. \A tc \in TestCases : rows[w][tc] # "none" => rows'[w][tc] # "none"
        BY <3>2 DEF PollJudge0, Pending
      <4>3. PICK tc \in TestCases : rows[w][tc] # "none"
        BY <4>1 DEF StoredCases
      <4>4. tc \in StoredCases(rows'[w])
        BY <4>2, <4>3 DEF StoredCases
      <4>5. QED
        BY <4>4
    <3>3. CASE LoadSubmission(w) \/ EvaluateSubmission(w)
      BY <3>3 DEF LoadSubmission, EvaluateSubmission, SubmittedInv
    <3>4. ASSUME \/ \E m \in Messages : FetchMessage(w, m)
                 \/ NoTestResults(w) \/ SubmissionOrExerciseGone(w) \/ CommitDecision(w)
                 \/ Acknowledge(w) \/ DeadLetter(w)
          PROVE  worker'[w] \notin Judging
      BY <3>4 DEF FetchMessage, NoTestResults, SubmissionOrExerciseGone, CommitDecision, Acknowledge,
           DeadLetter, Release
    <3>5. ASSUME PollRaises(w) \/ FlushRaises(w) \/ ServiceError(w)
          PROVE  worker'[w] \notin Judging
      BY <3>5 DEF PollRaises, FlushRaises, ServiceError, Raise
    <3>6. QED
      BY <1>4, <3>1, <3>2, <3>3, <3>4, <3>5 DEF WorkerStep
  <2>5. QED
    BY <2>1, <2>2, <2>3, <2>4 DEF SubmittedInv, StoredCases
<1>5. CASE FaultStep
  <2>1. UNCHANGED <<handler, judge0, fetched, status>>
    BY <1>5 DEF FaultStep, CrashWorker, LoseLease, ExpireMessage
  <2>2. \A w \in Workers : worker'[w] \in Judging => worker[w] \in Judging /\ rows'[w] = rows[w]
    BY <1>5, <1>t DEF TypeOK, FaultStep, CrashWorker, LoseLease, ExpireMessage, Release, Judging
  <2>3. QED
    BY <2>1, <2>2 DEF SubmittedInv, StoredCases
<1>6. CASE UNCHANGED vars
  BY <1>6 DEF vars, SubmittedInv, StoredCases
<1>7. QED
  BY <1>1, <1>2, <1>3, <1>4, <1>5, <1>6 DEF Next

THEOREM Submitted == Spec => []SubmittedInv
BY SubmittedInit, SubmittedNext, Inductive, PTL DEF Spec

-----------------------------------------------------------------------------
(* The steps, one lemma for each step of the lifecycle.                    *)

LEMMA InitRefines == Init => Lifecycle!LifecycleInit
BY DEF Init, Lifecycle!LifecycleInit, Lifecycle!Nothing, NoRows

LEMMA RequestRefines ==
    ASSUME IInv, SubmittedInv, NEW s \in Submissions, RequestStep(s) \/ AbortRequest(s)
    PROVE  [Lifecycle!LifecycleNext]_(Lifecycle!lifecycleVars)
<1> USE DEF dbVars, requestVars, queueVars, attemptVars, Lifecycle!lifecycleVars, Step
<1>1. CASE PostBatch(s)
  <2>1. status[s] = "none" /\ judge0[s] = Lifecycle!Nothing
    BY <1>1 DEF PostBatch, IInv, RequestInv, SubmittedInv, NoRows, Lifecycle!Nothing
  <2>2. PICK accepted \in (SUBSET snapshot[s]) \ {{}} :
          judge0' = [judge0 EXCEPT ![s] =
                        [tc \in TestCases |-> IF tc \in accepted THEN "queued" ELSE "none"]]
    BY <1>1 DEF PostBatch
  <2>3. accepted \in (SUBSET TestCases) \ {{}}
    BY <2>2 DEF IInv, TypeOK
  <2>4. Lifecycle!TakeCode(s)
    BY <1>1, <2>1, <2>2, <2>3 DEF PostBatch, Lifecycle!TakeCode
  <2>5. QED
    BY <2>4 DEF Lifecycle!LifecycleNext
<1>2. CASE CreateSubmission(s)
  <2>1. Lifecycle!Create(s)
    BY <1>2 DEF CreateSubmission, IInv, RequestInv, Lifecycle!Create
  <2>2. QED
    BY <2>1 DEF Lifecycle!LifecycleNext
<1>3. CASE CommitResults(s)
  <2>1. status[s] = "pending"
    BY <1>3 DEF CommitResults, SubmittedInv, IInv, RequestInv
  <2>2. Lifecycle!Stored(s) = {}
    BY <1>3 DEF CommitResults, IInv, ResultInv, Lifecycle!Stored
  <2>3. fetched[s] \in [TestCases -> {"none", "queued"} \cup Lifecycle!Final]
    BY DEF IInv, TypeOK, Lifecycle!Final
  <2>4. \A tc \in TestCases :
          /\ fetched[s][tc] = "none" <=> judge0[s][tc] = "none"
          /\ fetched[s][tc] \in Lifecycle!Final => fetched[s][tc] = judge0[s][tc]
    <3>1. StoredCases(fetched[s]) = StoredCases(judge0[s])
      BY <1>3 DEF CommitResults, SubmittedInv
    <3>2. \A tc \in TestCases : tc \in StoredCases(fetched[s]) <=> tc \in StoredCases(judge0[s])
      BY <3>1
    <3>3. QED
      BY <3>2 DEF StoredCases, IInv, ResultInv, Lifecycle!Final
  <2>5. Lifecycle!Store(s)
    BY <1>3, <2>1, <2>2, <2>3, <2>4 DEF CommitResults, Lifecycle!Store
  <2>6. QED
    BY <2>5 DEF Lifecycle!LifecycleNext
<1>4. CASE ReadTestCases(s) \/ FetchBatch(s) \/ FlushResults(s) \/ SendPollTask(s) \/ AbortRequest(s)
  BY <1>4 DEF ReadTestCases, FetchBatch, FlushResults, SendPollTask, AbortRequest
<1>5. QED
  BY <1>1, <1>2, <1>3, <1>4 DEF RequestStep

LEMMA EnvironmentRefines ==
    ASSUME \/ \E s \in Submissions, tc \in TestCases : JudgeToken(s, tc)
           \/ \E tc \in TestCases : CreateTestCase(tc) \/ DeleteTestCase(tc)
           \/ DeleteExercise
    PROVE  [Lifecycle!LifecycleNext]_(Lifecycle!lifecycleVars)
<1> USE DEF dbVars, Lifecycle!lifecycleVars
<1>1. ASSUME NEW s \in Submissions, NEW tc \in TestCases, JudgeToken(s, tc)
      PROVE  Lifecycle!LifecycleNext
  <2>1. Lifecycle!Judge(s, tc)
    BY <1>1 DEF JudgeToken, Lifecycle!Judge, Lifecycle!Final
  <2>2. QED
    BY <2>1 DEF Lifecycle!LifecycleNext
<1>2. ASSUME NEW tc \in TestCases, CreateTestCase(tc)
      PROVE  UNCHANGED Lifecycle!lifecycleVars
  BY <1>2 DEF CreateTestCase
<1>3. ASSUME NEW tc \in TestCases, DeleteTestCase(tc)
      PROVE  Lifecycle!LifecycleNext
  <2>1. Lifecycle!Drop(tc)
    BY <1>3 DEF DeleteTestCase, Lifecycle!Drop
  <2>2. QED
    BY <2>1 DEF Lifecycle!LifecycleNext
<1>4. CASE DeleteExercise
  <2>1. Lifecycle!Erase
    BY <1>4 DEF DeleteExercise, Lifecycle!Erase, Lifecycle!Nothing, NoRows
  <2>2. QED
    BY <2>1 DEF Lifecycle!LifecycleNext
<1>5. QED
  BY <1>1, <1>2, <1>3, <1>4

\* The commit of an attempt is a decision of the lifecycle, or changes nothing.  A decision
\* that agrees with the status once loaded leaves the status, which another attempt may have
\* written since, alone: that status is then the outcome of the stored results, with the
\* rejected test case when it is "failed".
LEMMA CommitRefines ==
    ASSUME IInv, SubmittedInv, NEW w \in Workers, CommitDecision(w)
    PROVE  [Lifecycle!LifecycleNext]_(Lifecycle!lifecycleVars)
<1> DEFINE s == Current(w)
<1>1. TypeOK /\ s \in Submissions
  BY BusyWorker DEF IInv, CommitDecision, Proceed
<1>2. \A tc \in TestCases :
        /\ rows[w][tc] \in {"none"} \cup Final
        /\ testResults[s][tc] # "none" => rows[w][tc] # "none"
        /\ rows[w][tc] # "none" => tc \in snapshot[s] /\ judge0[s][tc] = rows[w][tc]
        /\ tc \in dirty[w] => testResults[s][tc] # "none"
        /\ rows[w][tc] \in Final /\ tc \notin dirty[w] => testResults[s][tc] \in {"none"} \cup Final
  BY <1>1 DEF CommitDecision, Proceed, IInv, AttemptInv, WorkerInv, TypeOK, Judging, Deciding, StoredCases
<1>3. /\ status' = [status EXCEPT ![s] = IF Decision(w) = loaded[w] THEN @ ELSE Decision(w)]
      /\ testResults' = [testResults EXCEPT ![s] = [tc \in TestCases |->
                            IF tc \in dirty[w] THEN rows[w][tc] ELSE testResults[s][tc]]]
      /\ judge0' = judge0
      /\ status[s] # "deleted" \/ Decision(w) = loaded[w]
      /\ loaded[w] \in Decided => status[s] # "pending"
      /\ Decision(w) \in Decided
      /\ status[s] # "none"
  BY <1>1 DEF CommitDecision, Proceed, IInv, AttemptInv, RequestInv, WorkerInv, Judging, Decision
\* What is stored now are Judge0's verdicts.
<1>4. testResults' = [testResults EXCEPT ![s] = [tc \in TestCases |->
          IF tc \in Lifecycle!Stored(s) THEN judge0[s][tc] ELSE "none"]]
  <2>1. ASSUME NEW tc \in TestCases
        PROVE  (IF tc \in dirty[w] THEN rows[w][tc] ELSE testResults[s][tc]) =
               (IF tc \in Lifecycle!Stored(s) THEN judge0[s][tc] ELSE "none")
    <3>1. tc \in Lifecycle!Stored(s) <=> testResults[s][tc] # "none"
      BY DEF Lifecycle!Stored
    <3>2. CASE tc \in dirty[w]
      BY <1>2, <3>1, <3>2
    <3>3. CASE tc \notin dirty[w] /\ testResults[s][tc] = "none"
      BY <3>1, <3>3
    <3>4. CASE tc \notin dirty[w] /\ testResults[s][tc] # "none"
      BY <1>1, <1>2, <3>1, <3>4 DEF IInv, ResultInv
    <3>5. QED
      BY <3>2, <3>3, <3>4
  <2>2. QED
    BY <1>3, <2>1
<1>5. Lifecycle!Stored(s) \subseteq StoredCases(rows[w]) /\ StoredCases(rows[w]) \subseteq Lifecycle!Judged(s)
  BY <1>2 DEF Lifecycle!Stored, Lifecycle!Judged, Lifecycle!Final, StoredCases
<1>6. ASSUME NEW judged \in SUBSET Lifecycle!Judged(s), judged # {}, Lifecycle!Stored(s) \subseteq judged,
             status[s] \in {"pending"} \cup Decided, status'[s] = Lifecycle!Outcome(s, judged)
      PROVE  Lifecycle!LifecycleNext
  <2>1. status' = [status EXCEPT ![s] = Lifecycle!Outcome(s, judged)]
    BY <1>1, <1>3, <1>6 DEF TypeOK
  <2>2. judged \in (SUBSET Lifecycle!Judged(s)) \ {{}}
    BY <1>6
  <2>6. status[s] \in {"pending"} \cup Lifecycle!Decided
    BY <1>6 DEF Decided, Lifecycle!Decided
  <2>3. judge0' = judge0
    BY <1>3
  <2>4. Lifecycle!Decide(s)
    BY <1>4, <1>6, <2>1, <2>2, <2>3, <2>6 DEF Lifecycle!Decide
  <2>5. QED
    BY <1>1, <2>4 DEF Lifecycle!LifecycleNext
<1>7. status[s] \in {"pending", "deleted"} \cup Decided
  BY <1>1, <1>3 DEF TypeOK
<1>8. CASE Decision(w) # loaded[w]
  <2>1. Decision(w) = Lifecycle!Outcome(s, StoredCases(rows[w]))
    BY <1>2 DEF Decision, Lifecycle!Outcome, StoredCases
  <2>2. StoredCases(rows[w]) # {}
    BY DEF SubmittedInv, CommitDecision, Proceed, Judging
  <2>3. status'[s] = Decision(w)
    BY <1>1, <1>3, <1>8 DEF TypeOK
  <2>4. QED
    BY <1>3, <1>5, <1>6, <1>7, <1>8, <2>1, <2>2, <2>3
<1>9. CASE Decision(w) = loaded[w]
  <2>1. status' = status
    BY <1>1, <1>3, <1>9 DEF TypeOK
  <2>2. CASE Lifecycle!Stored(s) = {}
    <3>1. \A tc \in TestCases : testResults[s][tc] = "none"
      BY <2>2 DEF Lifecycle!Stored
    <3>2. testResults' = testResults
      BY <1>1, <1>4, <2>2, <3>1 DEF TypeOK
    <3>3. QED
      BY <1>3, <2>1, <3>2 DEF Lifecycle!lifecycleVars
  <2>3. CASE Lifecycle!Stored(s) # {}
    <3>1. PICK tc \in TestCases : testResults[s][tc] # "none"
      BY <2>3 DEF Lifecycle!Stored
    <3>2. exercise = "live" /\ status[s] # "deleted"
      BY <1>1, <3>1 DEF IInv, ResultInv, RequestInv, LiveCases, TypeOK
    <3>3. CASE status[s] = "completed"
      <4>1. \A c \in Lifecycle!Stored(s) : judge0[s][c] = "accepted"
        BY <1>1, <3>3 DEF IInv, ResultInv, DecisionSound, Lifecycle!Stored
      <4>2. Lifecycle!Outcome(s, Lifecycle!Stored(s)) = "completed"
        BY <4>1 DEF Lifecycle!Outcome
      <4>3. QED
        BY <1>5, <1>6, <2>1, <2>3, <3>3, <4>2
    <3>4. CASE status[s] = "failed"
      <4>1. PICK c \in snapshot[s] : judge0[s][c] = "rejected"
        BY <1>1, <3>4 DEF IInv, DecisionSound
      <4>2. c \in Lifecycle!Judged(s)
        BY <1>1, <4>1 DEF TypeOK, Lifecycle!Judged, Lifecycle!Final
      <4>3. Lifecycle!Outcome(s, Lifecycle!Stored(s) \cup {c}) = "failed"
        BY <4>1 DEF Lifecycle!Outcome
      <4>4. QED
        BY <1>5, <1>6, <2>1, <3>4, <4>2, <4>3
    <3>5. QED
      BY <1>3, <1>7, <1>9, <3>2, <3>3, <3>4
  <2>4. QED
    BY <2>2, <2>3
<1>10. QED
  BY <1>8, <1>9

LEMMA WorkerRefines ==
    ASSUME IInv, SubmittedInv, NEW w \in Workers, WorkerStep(w) \/ ServiceError(w)
    PROVE  [Lifecycle!LifecycleNext]_(Lifecycle!lifecycleVars)
<1>1. CASE CommitDecision(w)
  BY <1>1, CommitRefines
<1>2. ASSUME ~ CommitDecision(w)
      PROVE  UNCHANGED <<status, testResults, judge0>>
  BY <1>2 DEF WorkerStep, FetchMessage, NoTestResults, ReadTestResults, PollJudge0, LoadSubmission,
       SubmissionOrExerciseGone, EvaluateSubmission, PollRaises, FlushRaises, ServiceError,
       RaiseUnchanged, Acknowledge, DeadLetter, dbVars
<1>3. QED
  BY <1>1, <1>2 DEF Lifecycle!lifecycleVars

LEMMA StepRefines ==
    IInv /\ SubmittedInv /\ [Next]_vars => [Lifecycle!LifecycleNext]_(Lifecycle!lifecycleVars)
<1>1. ASSUME FaultStep \/ UNCHANGED vars
      PROVE  UNCHANGED Lifecycle!lifecycleVars
  BY <1>1 DEF FaultStep, CrashWorker, LoseLease, ExpireMessage, vars, dbVars, Lifecycle!lifecycleVars
<1>2. QED
  BY <1>1, RequestRefines, EnvironmentRefines, WorkerRefines DEF Next

\* The rows in Postgres only ever take the steps of SubmissionLifecycle, whatever requests,
\* workers, queue, retries, faults and deletions do.
THEOREM PipelineImplementsLifecycle == Spec => ImplementsLifecycle
BY InitRefines, StepRefines, Inductive, Submitted, PTL
DEF Spec, ImplementsLifecycle, Lifecycle!LifecycleSpec

=============================================================================
