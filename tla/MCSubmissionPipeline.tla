------------------------ MODULE MCSubmissionPipeline ------------------------
(* Instances of SubmissionPipeline for TLC.                                *)
EXTENDS SubmissionPipeline, TLC

CONSTANTS s1, s2, t1, t2, w1, w2

OneSubmission  == {s1}
TwoSubmissions == {s1, s2}
OneCase        == {t1}
TwoCases       == {t1, t2}
OneWorker      == {w1}
TwoWorkers     == {w1, w2}

\* Submissions, test cases and workers are interchangeable in the safety runs.
Symmetry == Permutations(Submissions) \cup Permutations(TestCases) \cup Permutations(Workers)

=============================================================================
