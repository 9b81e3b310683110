------------------------ MODULE SubmissionLifecycle -------------------------
(***************************************************************************)
(* What the judging of submissions promises to a client that reads only    *)
(* the rows of Postgres: the life of a submission and of its stored        *)
(* results, with no handler, queue, worker or retry.                       *)
(*                                                                         *)
(* A submission is created pending, its results are stored once and all    *)
(* together, and it is decided from the final verdicts of a set of test    *)
(* cases that contains every one still stored, in the same step that       *)
(* stores those verdicts.  Deletions are the only other change.            *)
(***************************************************************************)
CONSTANTS Submissions, TestCases

VARIABLES
    status,    \* the submission: "none", "pending", "completed", "failed", "deleted"
    results,   \* stored verdict of each test case, "none" when nothing is stored
    verdicts   \* the verdict Judge0 has on each test case

lifecycleVars == <<status, results, verdicts>>

Final     == {"accepted", "rejected"}
Decided   == {"completed", "failed"}
Nothing   == [tc \in TestCases |-> "none"]
Stored(s) == {tc \in TestCases : results[s][tc] # "none"}
Judged(s) == {tc \in TestCases : verdicts[s][tc] \in Final}

\* models/coding_submission.py:62-65 and the final statement of the poll task: a
\* submission is completed iff all the results it is decided on are accepted.
Outcome(s, judged) ==
    IF \A tc \in judged : verdicts[s][tc] = "accepted" THEN "completed" ELSE "failed"

LifecycleInit ==
    /\ status = [s \in Submissions |-> "none"]
    /\ results = [s \in Submissions |-> Nothing]
    /\ verdicts = [s \in Submissions |-> Nothing]

\* Judge0 takes the code of a submission, and later returns a verdict for good.
TakeCode(s) ==
    /\ status[s] = "none" /\ verdicts[s] = Nothing
    /\ \E taken \in (SUBSET TestCases) \ {{}} :
          verdicts' = [verdicts EXCEPT ![s] =
                          [tc \in TestCases |-> IF tc \in taken THEN "queued" ELSE "none"]]
    /\ UNCHANGED <<status, results>>

Judge(s, tc) ==
    /\ verdicts[s][tc] = "queued"
    /\ \E v \in Final : verdicts' = [verdicts EXCEPT ![s][tc] = v]
    /\ UNCHANGED <<status, results>>

Create(s) ==
    /\ status[s] = "none"
    /\ status' = [status EXCEPT ![s] = "pending"]
    /\ UNCHANGED <<results, verdicts>>

\* Results are stored for every test case Judge0 took, each queued or with its verdict.
Store(s) ==
    /\ status[s] = "pending" /\ Stored(s) = {}
    /\ \E report \in [TestCases -> {"none", "queued"} \cup Final] :
          /\ \A tc \in TestCases :
                /\ report[tc] = "none" <=> verdicts[s][tc] = "none"
                /\ report[tc] \in Final => report[tc] = verdicts[s][tc]
          /\ results' = [results EXCEPT ![s] = report]
    /\ UNCHANGED <<status, verdicts>>

\* The decision, taken on a set of judged test cases that contains the stored ones.
Decide(s) ==
    /\ status[s] \in {"pending"} \cup Decided
    /\ \E judged \in (SUBSET Judged(s)) \ {{}} :
          /\ Stored(s) \subseteq judged
          /\ status' = [status EXCEPT ![s] = Outcome(s, judged)]
    /\ results' = [results EXCEPT ![s] = [tc \in TestCases |->
                      IF tc \in Stored(s) THEN verdicts[s][tc] ELSE "none"]]
    /\ UNCHANGED verdicts

\* A test case is deleted, with its result in every submission.
Drop(tc) ==
    /\ results' = [s \in Submissions |-> [results[s] EXCEPT ![tc] = "none"]]
    /\ UNCHANGED <<status, verdicts>>

\* The exercise is deleted, with everything submitted to it.
Erase ==
    /\ status' = [s \in Submissions |-> IF status[s] = "none" THEN "none" ELSE "deleted"]
    /\ results' = [s \in Submissions |-> Nothing]
    /\ UNCHANGED verdicts

LifecycleNext ==
    \/ \E s \in Submissions : TakeCode(s) \/ Create(s) \/ Store(s) \/ Decide(s)
    \/ \E s \in Submissions, tc \in TestCases : Judge(s, tc)
    \/ \E tc \in TestCases : Drop(tc)
    \/ Erase

LifecycleSpec == LifecycleInit /\ [][LifecycleNext]_lifecycleVars

=============================================================================
