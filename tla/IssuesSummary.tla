---------------------------- MODULE IssuesSummary ----------------------------
(***************************************************************************)
(* The issues and achievements of one student in one course               *)
(* (student_courses).  Two programs update them: the analysis at the end   *)
(* of a quiz submission (analyze_and_return_issues in                      *)
(* machine/api/v1/module.py) and the actor update_issues_summary_task      *)
(* (tasks/update_issues_summary.py).  Both read the columns, ask a         *)
(* language model, and write the columns whole.                            *)
(*                                                                         *)
(* The quiz analysis stores a JSON object and the actor the text of one:   *)
(* format says which it is, "null" before the first.  The statement that   *)
(* sends the actor its message is commented out                            *)
(* (tasks/update_submission_result.py:108); SendTask is an operator's.     *)
(***************************************************************************)
EXTENDS IssueMerge

CONSTANTS
    Analyses,       \* quiz submissions of the student
    Tasks,          \* decided code submissions of the student
    Types, Descriptions,
    MaxRetries,     \* bound: retries of the actor
    MaxRedeliveries \* bound: how often a message may be delivered again

ASSUME BoundsAssumption == MaxRetries \in Nat /\ MaxRedeliveries \in Nat

\* Quizzes and code submissions differ, and no issue has the type of Raised.
ASSUME ActorsAssumption == Analyses \cap Tasks = {} /\ "raised" \notin Types

VARIABLES
    issues, format, achievements,
    phase,
    local,          \* what each analysis or attempt has read, and its model's answer
    queue,          \* per task, the attempt its message is for, NoMessage or Dead
    triggered,      \* decided submissions whose log says the update was triggered
    redelivered,
    reported,       \* history: per type, how much frequency answers that were written had
    shifted,        \* history: whether an answer was written that process_issues misplaces
    stale           \* history: who read the columns before someone else's last write

columns      == <<issues, format, achievements>>
issueHistory == <<reported, shifted, stale>>
issueVars    == <<columns, phase, local, queue, triggered, redelivered, issueHistory>>

-----------------------------------------------------------------------------
Actors == Analyses \cup Tasks
AllIssues  == [type : Types, description : Descriptions, frequency : {1}]
UpToTwo(S) == {<<>>} \cup {<<x>> : x \in S} \cup (S \X S)
NoMessage == 0
Dead == MaxRetries + 2

NoAnswer   == [new |-> <<>>, resolved |-> <<>>]
Nothing    == [issues |-> <<>>, format |-> "null", achievements |-> <<>>, answer |-> NoAnswer]
Earned     == [type |-> "quiz_completion", description |-> "module"]

\* The frequency of a type in a list of issues.
TypeFrequency(list, t) == TotalOf(Frequencies(list), {i \in DOMAIN list : list[i].type = t})

IssuesTypeOK ==
    /\ \A i \in DOMAIN issues :
         /\ issues[i].type \in Types
         /\ issues[i].description \in Descriptions
         /\ issues[i].frequency \in Nat \ {0}
    /\ format \in {"null", "object", "text"}
    /\ format = "null" => issues = <<>>
    /\ phase \in [Actors -> {"idle", "asked", "answered", "written", "unchanged", "failed"}]
    /\ queue \in [Tasks -> NoMessage..Dead]
    /\ triggered \subseteq Tasks
    /\ redelivered \in 0..MaxRedeliveries
    /\ stale \subseteq Actors

IssuesInit ==
    /\ issues = <<>>
    /\ format = "null"
    /\ achievements = <<>>
    /\ phase = [a \in Actors |-> "idle"]
    /\ local = [a \in Actors |-> Nothing]
    /\ queue = [t \in Tasks |-> NoMessage]
    /\ triggered = {}
    /\ redelivered = 0
    /\ reported = [t \in Types |-> 0]
    /\ shifted = FALSE
    /\ stale = {}

-----------------------------------------------------------------------------
Moves(a, from, to) ==
    /\ phase[a] = from
    /\ phase' = [phase EXCEPT ![a] = to]

Asking == {a \in Actors : phase[a] \in {"asked", "answered"}}

ReadsColumns(a) ==
    /\ Moves(a, "idle", "asked")
    /\ local' = [local EXCEPT ![a] = [issues |-> issues, format |-> format,
                                      achievements |-> achievements, answer |-> NoAnswer]]
    /\ stale' = stale \ {a}

\* Writing leaves everyone else who has read with what was there before.
Wrote(a, new) ==
    /\ stale' = stale \cup (Asking \ {a})
    /\ reported' = [t \in Types |-> reported[t] + TypeFrequency(new, t)]

(* The analysis of a quiz.                                                 *)

ReadCourse(a) ==
    /\ ReadsColumns(a)
    /\ UNCHANGED <<columns, queue, triggered, redelivered, reported, shifted>>

\* The model's answer, two issues of each kind at most.
Answer(a) ==
    /\ Moves(a, "asked", "answered")
    /\ \E new, resolved \in UpToTwo(AllIssues) :
         local' = [local EXCEPT ![a].answer = [new |-> new, resolved |-> resolved]]
    /\ UNCHANGED <<columns, queue, triggered, redelivered, issueHistory>>

\* No answer, or one that is not the JSON asked for: nothing is written.
NoUsefulAnswer(a) ==
    /\ Moves(a, "asked", "unchanged")
    /\ UNCHANGED <<columns, local, queue, triggered, redelivered, issueHistory>>

\* process_issues takes anything but an object for an empty summary.
Held(a) == IF local[a].format = "object" THEN local[a].issues ELSE <<>>

MergedIssues(a) == process_issues(Held(a), local[a].answer.new, local[a].answer.resolved)

WriteAnalysis(a) ==
    /\ Moves(a, "answered", "written")
    /\ MergedIssues(a) # Raised
    /\ issues' = MergedIssues(a)
    /\ format' = "object"
    /\ achievements' =
         process_achievements(local[a].achievements, <<Earned>>, local[a].answer.resolved)
    /\ shifted' = (shifted \/ ~Unambiguous(Held(a), local[a].answer.new, local[a].answer.resolved))
    /\ Wrote(a, local[a].answer.new)
    /\ UNCHANGED <<local, queue, triggered, redelivered>>

\* An index that process_issues took before its pops is beyond the end of the list.
MergeRaises(a) ==
    /\ Moves(a, "answered", "failed")
    /\ MergedIssues(a) = Raised
    /\ UNCHANGED <<columns, local, queue, triggered, redelivered, issueHistory>>

(* The actor.                                                              *)

\* The end of update_submission_result: logged, not sent.
SubmissionDecided(t) ==
    /\ t \notin triggered
    /\ triggered' = triggered \cup {t}
    /\ UNCHANGED <<columns, phase, local, queue, redelivered, issueHistory>>

SendTask(t) ==
    /\ queue[t] = NoMessage
    /\ phase[t] = "idle"
    /\ queue' = [queue EXCEPT ![t] = 1]
    /\ UNCHANGED <<columns, phase, local, triggered, redelivered, issueHistory>>

\* A missing course row is created, with the rest, at the commit.
StartTask(t) ==
    /\ queue[t] \notin {NoMessage, Dead}
    /\ ReadsColumns(t)
    /\ UNCHANGED <<columns, queue, triggered, redelivered, reported, shifted>>

AnswerTask(t) ==
    /\ Moves(t, "asked", "answered")
    /\ \E new \in UpToTwo(AllIssues) :
         local' = [local EXCEPT ![t].answer = [new |-> new, resolved |-> <<>>]]
    /\ UNCHANGED <<columns, queue, triggered, redelivered, issueHistory>>

\* The actor returns without an answer: the message is acknowledged, nothing written.
GiveUp(t) ==
    /\ Moves(t, "asked", "unchanged")
    /\ queue' = [queue EXCEPT ![t] = NoMessage]
    /\ UNCHANGED <<columns, local, triggered, redelivered, issueHistory>>

\* Mutant: a new type counts twice.
AddByType_Twice(list, issue) ==
    LET i == SelectLastInSeq(list, LAMBDA e : e.type = issue.type)
    IN  IF i = 0 THEN Append(list, [issue EXCEPT !.frequency = 2])
        ELSE [list EXCEPT ![i].frequency = @ + 1]

\* The actor looks issues up by their type: the last one of it counts.
AddByType(list, issue) ==
    LET i == SelectLastInSeq(list, LAMBDA e : e.type = issue.type)
    IN  IF i = 0 THEN Append(list, [issue EXCEPT !.frequency = 1])
        ELSE [list EXCEPT ![i].frequency = @ + 1]

\* Mutant: only the new issues are written.
CommitTask_NewOnly(t) ==
    /\ Moves(t, "answered", "written")
    /\ issues' = FoldLeft(AddByType, <<>>, local[t].answer.new)
    /\ format' = "text"
    /\ queue' = [queue EXCEPT ![t] = NoMessage]
    /\ Wrote(t, local[t].answer.new)
    /\ UNCHANGED <<achievements, local, triggered, redelivered, shifted>>

\* A summary that is the text that was read, as when the model reports nothing, is not written.
Unchanged(t) == local[t].format = "text" /\ local[t].answer.new = <<>>

CommitUnchanged(t) ==
    /\ Moves(t, "answered", "unchanged")
    /\ Unchanged(t)
    /\ queue' = [queue EXCEPT ![t] = NoMessage]
    /\ UNCHANGED <<columns, local, triggered, redelivered, issueHistory>>

CommitTask(t) ==
    /\ Moves(t, "answered", "written")
    /\ ~Unchanged(t)
    /\ issues' = FoldLeft(AddByType, local[t].issues, local[t].answer.new)
    /\ format' = "text"
    /\ queue' = [queue EXCEPT ![t] = NoMessage]
    /\ Wrote(t, local[t].answer.new)
    /\ UNCHANGED <<achievements, local, triggered, redelivered, shifted>>

\* An exception: tried again, or given up after the last retry.
TaskRaises(t) ==
    /\ phase[t] \in {"asked", "answered"}
    /\ phase' = [phase EXCEPT ![t] = "idle"]
    /\ queue' = [queue EXCEPT ![t] = @ + 1]
    /\ UNCHANGED <<columns, local, triggered, redelivered, issueHistory>>

\* The message of an attempt that was not acknowledged is delivered again, and an attempt that
\* has not come to its end is over.
Redeliver(t) ==
    /\ redelivered < MaxRedeliveries
    /\ phase[t] \in {"asked", "answered", "written", "unchanged"}
    /\ redelivered' = redelivered + 1
    /\ phase' = [phase EXCEPT ![t] = "idle"]
    /\ queue' = [queue EXCEPT ![t] = 1]
    /\ UNCHANGED <<columns, local, triggered, issueHistory>>

IssuesNext ==
    \/ \E a \in Analyses :
         ReadCourse(a) \/ Answer(a) \/ NoUsefulAnswer(a) \/ WriteAnalysis(a) \/ MergeRaises(a)
    \/ \E t \in Tasks :
         \/ SubmissionDecided(t) \/ SendTask(t)
         \/ StartTask(t) \/ AnswerTask(t) \/ GiveUp(t)
         \/ CommitTask(t) \/ CommitUnchanged(t) \/ TaskRaises(t) \/ Redeliver(t)

IssuesSpec == IssuesInit /\ [][IssuesNext]_issueVars

-----------------------------------------------------------------------------
(* Properties.                                                             *)

\* process_issues does what it is for, on the list it is given: unless the answer names
\* something twice, or resolves one issue and reports another that was there.
MergeIsReference ==
    \A a \in Analyses :
        (phase[a] = "answered" /\ Unambiguous(Held(a), local[a].answer.new, local[a].answer.resolved))
            => AsFunction(MergedIssues(a)) =
               Merged(Held(a), local[a].answer.new, local[a].answer.resolved)

\* The frequencies of a type never exceed what the models reported of it: neither
\* retries, nor redeliveries before the commit, nor lost updates count anything twice,
\* as long as no merge misplaced an issue.
FrequenciesAreReported ==
    ~shifted => \A t \in Types : TypeFrequency(issues, t) <= reported[t]

\* "adding new issues and removing resolved ones" (module.py:689), step by step: an
\* issue disappears only when the writer's model declared it resolved; unless the writer
\* read before the last write, found the actor's text, or was given ambiguous lists.
DisappearResolved ==
    \A k \in Keys(issues) \ Keys(issues') :
       \E a \in Actors :
          /\ phase[a] = "answered" /\ phase'[a] = "written"
          /\ \/ k \in Keys(local[a].answer.resolved)
             \/ a \in stale
             \/ a \in Analyses /\ local[a].format = "text"
             \/ shifted'

\* An achievement once earned stays, whoever writes, unless two analyses overlap.
AchievementsStay ==
    \/ Keys(achievements) \subseteq Keys(achievements')
    \/ \E a \in stale : phase[a] = "answered" /\ phase'[a] = "written"

\* Of issues only what is resolved disappears, and of achievements nothing, but for the
\* writers that read before another wrote (module.py:689).
OnlyResolvedDisappear == [][DisappearResolved /\ AchievementsStay]_issueVars

=============================================================================
