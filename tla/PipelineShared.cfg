SPECIFICATION Spec
CONSTANTS
    s1 = s1
    s2 = s2
    t1 = t1
    t2 = t2
    w1 = w1
    w2 = w2
    Submissions <- TwoSubmissions
    TestCases <- OneCase
    Workers <- TwoWorkers
    MaxRetries = 1
    MaxFaults = 1
SYMMETRY Symmetry
INVARIANT IInv
\* The requests, the retries and the faults are finite: the system may stop.
CHECK_DEADLOCK FALSE
