----------------------------- MODULE LessonWork -----------------------------
(***************************************************************************)
(* One recommended lesson of a student and the work that changes it or     *)
(* adds to it (machine/api/v1/ai_routers.py, recommend.py): supplementary  *)
(* content is generated, the study progress is monitored, the bookmark is  *)
(* toggled, quizzes and code exercises are generated for its modules.      *)
(*                                                                         *)
(* Every request reads the lesson's row, awaits or calls a model, and then *)
(* updates some columns of the row with what it worked out.                *)
(***************************************************************************)
EXTENDS Integers, FiniteSetsExt, SequencesExt

CONSTANTS
    Regens,         \* the calls of POST /regenerate-lesson-content
    IssueRegens,    \* the calls of GET /regenerate-lesson-content/{id}
    Monitors,       \* the calls of /monitor-study-progress
    Toggles,        \* the calls of the bookmark handler
    Quizzers,       \* the calls of /generate-quiz
    Coders,         \* the calls of /generate-code-exercise
    Points,         \* the points a model may give a question
    MaxItems,       \* bound: how many items of a kind a model answers with
    Averages        \* the module averages that quizzes bring the lesson to

ASSUME PointsAssumption == Points \subseteq Nat /\ MaxItems \in Nat /\ Averages \subseteq 0..100

\* A request is one call of one handler.
ASSUME KindsAssumption ==
    /\ Regens \cap (IssueRegens \cup Monitors \cup Toggles \cup Quizzers \cup Coders) = {}
    /\ Toggles \cap (IssueRegens \cup Monitors \cup Quizzers \cup Coders) = {}
    /\ Quizzers \cap (IssueRegens \cup Monitors \cup Coders) = {}
    /\ Coders \cap (IssueRegens \cup Monitors) = {}

Requests == Regens \cup IssueRegens \cup Monitors \cup Toggles \cup Quizzers \cup Coders

VARIABLES
    lesson,     \* the row: status, progress, bookmark, and the regenerations whose
                \* supplement its content announces
    extras,     \* the regenerations whose Extra modules are stored
    extraDocs,  \* those whose modules have their documents
    quizzes,    \* per quizzer, the quiz stored: its max_score and its questions' points
    exercises,  \* per coder, the exercise stored: its test cases and language configs
    pc,
    held,       \* per regeneration and toggle, the row as it was read
    answer,     \* per request, what the models answered
    moved,      \* history: the requests whose lesson was written since they read it
    toggled     \* history: the bookmark the last answered toggle reported

work == <<extras, extraDocs, quizzes, exercises>>
vars == <<lesson, work, pc, held, answer, moved, toggled>>

SeqsUpTo(S, n) == UNION {[1..k -> S] : k \in 0..n}
NoQuiz     == [stored |-> FALSE, max |-> 0, questions |-> <<>>]
NoExercise == [stored |-> FALSE, tests |-> 0, configs |-> 0]

TypeOK ==
    /\ lesson \in [status : {"new", "completed"}, progress : 0..100, bookmark : BOOLEAN,
                   supplements : SUBSET Regens]
    /\ extras \subseteq Regens /\ extraDocs \subseteq extras
    /\ \A q \in Quizzers : quizzes[q].max \in Nat /\ (~quizzes[q].stored => quizzes[q] = NoQuiz)
    /\ \A c \in Coders :
         /\ exercises[c].tests \in 0..MaxItems /\ exercises[c].configs \in 0..MaxItems
         /\ ~exercises[c].stored => exercises[c] = NoExercise
    /\ pc \in [Requests -> {"idle", "read", "answered", "created", "scored", "rewritten", "extended",
                            "completed", "repeat", "review", "defaulted", "ok", "failed"}]
    /\ moved \subseteq Regens \cup Toggles

Init ==
    /\ lesson = [status |-> "new", progress |-> 0, bookmark |-> FALSE, supplements |-> {}]
    /\ extras = {}
    /\ extraDocs = {}
    /\ quizzes = [q \in Quizzers |-> NoQuiz]
    /\ exercises = [c \in Coders |-> NoExercise]
    /\ pc = [p \in Requests |-> "idle"]
    /\ held = [p \in Regens \cup Toggles |-> lesson]
    /\ answer = [p \in Requests |-> IF p \in Coders THEN [tests |-> 0, configs |-> 0]
                                 ELSE IF p \in Quizzers THEN <<5>> ELSE 0]
    /\ moved = {}
    /\ toggled = FALSE

Goto(p, from, to) ==
    /\ pc[p] = from
    /\ pc' = [pc EXCEPT ![p] = to]

\* The lesson is written by p: whoever else has read it works on an old row.
Write(p, row) ==
    /\ lesson' = row
    /\ moved' = moved \cup {q \in DOMAIN held \ {p} : pc[q] = "read"}

\* A missing row or role, a model that fails, a lost connection: the request ends with an
\* error and what it committed stays.  (Without questions a quiz request awaits nothing more.)
Fail(p) ==
    /\ pc[p] \in {"idle", "read", "answered", "created", "scored", "rewritten", "extended"}
    /\ p \in Quizzers /\ pc[p] = "answered" => answer[p] # <<>>
    /\ pc' = [pc EXCEPT ![p] = "failed"]
    /\ UNCHANGED <<lesson, work, held, answer, moved, toggled>>

ReadRow(p) ==
    /\ Goto(p, "idle", "read")
    /\ held' = [held EXCEPT ![p] = lesson]
    /\ UNCHANGED <<lesson, work, answer, moved, toggled>>

Difficulties == <<"easy", "medium", "hard">>

-----------------------------------------------------------------------------
(* Regeneration.                                                           *)

\* The endpoint reads the lesson; the second read, in regenerate_lesson_content, returns
\* the same object.  Lesson, modules and prior lessons are awaited before the model is called.
ReadLesson(r) == ReadRow(r)

\* Mutant: the row is written as it was read, bookmark included.
Rewrite_WholeRow(r) ==
    /\ Goto(r, "read", "rewritten")
    /\ Write(r, [held[r] EXCEPT !.supplements = @ \cup {r}, !.status = "new"])
    /\ \E n \in 0..MaxItems : answer' = [answer EXCEPT ![r] = n]
    /\ UNCHANGED <<work, held, toggled>>

\* Mutant: the supplement takes the place of those before.
Rewrite_Replace(r) ==
    /\ Goto(r, "read", "rewritten")
    /\ Write(r, [lesson EXCEPT !.supplements = {r}, !.status = "new", !.progress = held[r].progress])
    /\ \E n \in 0..MaxItems : answer' = [answer EXCEPT ![r] = n]
    /\ UNCHANGED <<work, held, toggled>>

\* The model's supplement is appended to the content read, the status is reset, and the
\* progress read is written back; all in one update.
Rewrite(r) ==
    /\ Goto(r, "read", "rewritten")
    /\ Write(r, [lesson EXCEPT !.supplements = held[r].supplements \cup {r}, !.status = "new",
                               !.progress = held[r].progress])
    /\ \E n \in 0..MaxItems : answer' = [answer EXCEPT ![r] = n]
    /\ UNCHANGED <<work, held, toggled>>

\* Mutant: the Extra modules are not stored before their documents.
ExtraModules_Unlinked(r) ==
    /\ Goto(r, "rewritten", "extended")
    /\ answer[r] > 0
    /\ UNCHANGED <<lesson, work, held, answer, moved, toggled>>

ExtraModules(r) ==
    /\ Goto(r, "rewritten", "extended")
    /\ answer[r] > 0
    /\ extras' = extras \cup {r}
    /\ UNCHANGED <<lesson, extraDocs, quizzes, exercises, held, answer, moved, toggled>>

\* Inserting no modules makes an insert of one row of defaults, which has no lesson.
NoExtraModules(r) ==
    /\ Goto(r, "rewritten", "failed")
    /\ answer[r] = 0
    /\ UNCHANGED <<lesson, work, held, answer, moved, toggled>>

ExtraDocuments(r) ==
    /\ Goto(r, "extended", "ok")
    /\ extraDocs' = extraDocs \cup {r}
    /\ UNCHANGED <<lesson, extras, quizzes, exercises, held, answer, moved, toggled>>

\* The GET handler calls regenerate_lesson_content with four of its seven arguments, the
\* controllers in the wrong places: a TypeError.
RegenerateByIssues(r) ==
    /\ Goto(r, "idle", "failed")
    /\ UNCHANGED <<lesson, work, held, answer, moved, toggled>>

-----------------------------------------------------------------------------
(* Monitoring, and the progress brought by quizzes.                        *)

\* analyze_issues says that the student may proceed when there are no issues or when the
\* model does not answer otherwise, and the lesson is completed.
Complete(m) ==
    /\ Goto(m, "idle", "completed")
    /\ Write(m, [lesson EXCEPT !.status = "completed", !.progress = 100])
    /\ UNCHANGED <<work, held, answer, toggled>>

NotYet(m) ==
    /\ pc[m] = "idle"
    /\ \E v \in {"repeat", "review"} : pc' = [pc EXCEPT ![m] = v]
    /\ UNCHANGED <<lesson, work, held, answer, moved, toggled>>

\* The model fails: the default answer is built, and an error is raised instead of it.
AnalysisUnavailable(m) ==
    /\ Goto(m, "idle", "defaulted")
    /\ UNCHANGED <<lesson, work, held, answer, moved, toggled>>

\* update_recommend_lesson_progress after a quiz: the average of the modules.
QuizProgress ==
    /\ \E p \in Averages : p # lesson.progress /\ Write("quiz", [lesson EXCEPT !.progress = p])
    /\ UNCHANGED <<work, pc, held, answer, toggled>>

-----------------------------------------------------------------------------
(* The bookmark.                                                           *)

\* The opposite of the bookmark read is written and reported.
Toggle(t) ==
    /\ Goto(t, "read", "ok")
    /\ Write(t, [lesson EXCEPT !.bookmark = ~held[t].bookmark])
    /\ toggled' = ~held[t].bookmark
    /\ UNCHANGED <<work, held, answer>>

-----------------------------------------------------------------------------
(* generate_quiz.                                                          *)

Total(qs) == FoldSeq(+, 0, qs)

\* The quiz is committed with its default max_score before any question exists.
CreateQuiz(q) ==
    /\ Goto(q, "idle", "created")
    /\ quizzes' = [quizzes EXCEPT ![q] = [stored |-> TRUE, max |-> 100, questions |-> <<>>]]
    /\ UNCHANGED <<lesson, extras, extraDocs, exercises, held, answer, moved, toggled>>

\* The questions of each difficulty are asked for by a call of their own; one that fails,
\* or that asks for none, adds nothing.  How many come and their points are the model's.
AskQuestions(q) ==
    /\ Goto(q, "created", "answered")
    /\ \E part \in [1..Len(Difficulties) -> SeqsUpTo(Points, MaxItems)] :
         answer' = [answer EXCEPT ![q] = FlattenSeq(part)]
    /\ UNCHANGED <<lesson, work, held, moved, toggled>>

\* Without any question the quiz is to be deleted, but its id is passed for the list of
\* conditions: iterating over a UUID raises, and the quiz stays.
NoQuestions(q) ==
    /\ Goto(q, "answered", "failed")
    /\ answer[q] = <<>>
    /\ UNCHANGED <<lesson, work, held, answer, moved, toggled>>

ScoreQuiz(q) ==
    /\ Goto(q, "answered", "scored")
    /\ answer[q] # <<>>
    /\ quizzes' = [quizzes EXCEPT ![q].max = Total(answer[q])]
    /\ UNCHANGED <<lesson, extras, extraDocs, exercises, held, answer, moved, toggled>>

CreateQuestions(q) ==
    /\ Goto(q, "scored", "ok")
    /\ quizzes' = [quizzes EXCEPT ![q].questions = answer[q]]
    /\ UNCHANGED <<lesson, extras, extraDocs, exercises, held, answer, moved, toggled>>

-----------------------------------------------------------------------------
(* generate_programming_exercise.                                          *)

\* A problem with its boilerplates is generated, then its test cases.
AskExercise(c) ==
    /\ Goto(c, "idle", "answered")
    /\ \E t, b \in 0..MaxItems : answer' = [answer EXCEPT ![c] = [tests |-> t, configs |-> b]]
    /\ UNCHANGED <<lesson, work, held, moved, toggled>>

\* Although the method is transactional, the exercise is committed by itself.
CreateExercise(c) ==
    /\ Goto(c, "answered", "created")
    /\ exercises' = [exercises EXCEPT ![c].stored = TRUE]
    /\ UNCHANGED <<lesson, extras, extraDocs, quizzes, held, answer, moved, toggled>>

\* Mutant: the test cases are committed before the configurations.
CommitParts_TestsFirst(c) ==
    /\ Goto(c, "created", "scored")
    /\ exercises' = [exercises EXCEPT ![c].tests = answer[c].tests]
    /\ UNCHANGED <<lesson, extras, extraDocs, quizzes, held, answer, moved, toggled>>

\* Test cases and language configs are committed together ...
CommitParts(c) ==
    /\ Goto(c, "created", "ok")
    /\ answer[c].tests > 0 /\ answer[c].configs > 0
    /\ exercises' = [exercises EXCEPT ![c].tests = answer[c].tests, ![c].configs = answer[c].configs]
    /\ UNCHANGED <<lesson, extras, extraDocs, quizzes, held, answer, moved, toggled>>

\* ... and rolled back together when one of the lists is empty.
RollBackParts(c) ==
    /\ Goto(c, "created", "failed")
    /\ answer[c].tests = 0 \/ answer[c].configs = 0
    /\ UNCHANGED <<lesson, work, held, answer, moved, toggled>>

Next ==
    \/ \E p \in Requests \ IssueRegens : Fail(p)
    \/ \E r \in Regens :
         ReadLesson(r) \/ Rewrite(r) \/ ExtraModules(r) \/ NoExtraModules(r) \/ ExtraDocuments(r)
    \/ \E r \in IssueRegens : RegenerateByIssues(r)
    \/ \E m \in Monitors : Complete(m) \/ NotYet(m) \/ AnalysisUnavailable(m)
    \/ \E t \in Toggles : ReadRow(t) \/ Toggle(t)
    \/ QuizProgress
    \/ \E q \in Quizzers :
         CreateQuiz(q) \/ AskQuestions(q) \/ NoQuestions(q) \/ ScoreQuiz(q) \/ CreateQuestions(q)
    \/ \E c \in Coders : AskExercise(c) \/ CreateExercise(c) \/ CommitParts(c) \/ RollBackParts(c)

Spec == Init /\ [][Next]_vars

-----------------------------------------------------------------------------
(* Properties.                                                             *)

\* The lesson's content announces exactly the regenerations that rewrote it, and so every
\* batch of Extra modules, as long as no regeneration was overtaken between its read and
\* its update.
SupplementsAnnounced ==
    moved \cap Regens = {} =>
        /\ extras \subseteq lesson.supplements
        /\ \A r \in Regens : pc[r] \in {"rewritten", "extended", "ok"} => r \in lesson.supplements

\* "Keep existing progress": no regeneration changes the progress that is stored.
ProgressKept ==
    [][\A r \in Regens : (pc[r] # "rewritten" /\ pc'[r] = "rewritten")
                            => lesson'.progress = lesson.progress]_vars

\* The bookmark is always the one that the last answered toggle reported, whatever the
\* other writers of the row do; and each toggle turned it if none was overtaken.
BookmarkIsAsReported ==
    /\ lesson.bookmark = toggled
    /\ moved \cap Toggles = {} =>
         (lesson.bookmark <=> Cardinality({t \in Toggles : pc[t] = "ok"}) % 2 = 1)

\* An answered regeneration added modules, and all of its modules have documents; modules
\* without documents are there only because of one that runs or failed.
ExtrasAreDocumented ==
    \A r \in Regens :
        /\ pc[r] = "ok" => r \in extras /\ r \in extraDocs
        /\ r \in extras \ extraDocs => pc[r] \in {"extended", "failed"}

\* A quiz that has questions can be scored in full: its max_score is the sum of their
\* points.  One without questions is that of a request that runs or failed.
QuizzesAddUp ==
    \A q \in Quizzers :
        /\ quizzes[q].questions # <<>> => quizzes[q].max = Total(quizzes[q].questions)
        /\ pc[q] = "ok" => quizzes[q].questions # <<>>
        /\ quizzes[q].stored /\ quizzes[q].questions = <<>> =>
             pc[q] \in {"created", "answered", "scored", "failed"}

\* A generated exercise has both test cases and boilerplates or neither, and has both when
\* its generation was answered.
ExercisesAreWhole ==
    \A c \in Coders :
        /\ exercises[c].tests > 0 <=> exercises[c].configs > 0
        /\ pc[c] = "ok" => exercises[c].stored /\ exercises[c].tests > 0

\* Whatever step a generation fails at, what it leaves is of one piece, and what it reports
\* is complete: extra modules, quizzes and exercises.
GeneratedIsWhole == ExtrasAreDocumented /\ QuizzesAddUp /\ ExercisesAreWhole

=============================================================================
