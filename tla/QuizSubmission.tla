--------------------------- MODULE QuizSubmission ---------------------------
(***************************************************************************)
(* The quizzes of one learning path (machine/api/v1/module.py): a student  *)
(* opens a quiz, submits its answers, and the handler stores each answer,  *)
(* the score, and then, level by level, the progress of the module, of its *)
(* recommended lesson and of the path (machine/repositories).              *)
(*                                                                         *)
(* Each of these is committed on its own.  A handler's SQLAlchemy session  *)
(* keeps the rows it has read: a later SELECT of a row it still holds      *)
(* returns the attributes as first read, and an attribute that is set to   *)
(* the value held is not written.  Scores are hundredths of a percent, as  *)
(* round(..., 2) makes them; progress columns are integers.                *)
(***************************************************************************)
EXTENDS Integers, FiniteSets, FiniteSetsExt, SequencesExt, Collections

CONSTANTS
    Submitters, \* the calls of get_quiz_exercise and submit_quiz_answers, in pairs
    Clears,     \* the calls of clear_quiz_answers
    Questions, Quizzes, Modules, Lessons,
    QuizOf,     \* the quiz of each question
    ModuleOf,   \* the module of each quiz
    LessonOf    \* the recommended lesson of each module

ASSUME TreeAssumption ==
    /\ IsFiniteSet(Questions) /\ IsFiniteSet(Quizzes) /\ IsFiniteSet(Modules) /\ IsFiniteSet(Lessons)
    /\ QuizOf \in [Questions -> Quizzes]
    /\ ModuleOf \in [Quizzes -> Modules]
    /\ LessonOf \in [Modules -> Lessons]

\* The levels above a quiz are rows of different tables.
ASSUME LevelsAssumption == Modules \cap Lessons = {} /\ "path" \notin Modules \cup Lessons

VARIABLES
    choice,     \* per question, whether the stored user_choice is right
    scan,       \* per quiz, the order in which the table yields its questions
    quiz,       \* per quiz, its status and score
    moduleProgress, lessonProgress, pathProgress,
    phase,
    local,      \* what each request holds
    overtaken,  \* history: requests whose questions were written since they were shown
    mixed,      \* history: quizzes whose answers may come from several submissions
    crowded,    \* history: requests that have run at the same time as another
    unsettled   \* history: what several requests, or a failed one, may have aggregated

quizRows    == <<choice, scan, quiz, moduleProgress, lessonProgress, pathProgress>>
quizHistory == <<overtaken, mixed, crowded, unsettled>>
quizVars    == <<quizRows, phase, local, quizHistory>>

-----------------------------------------------------------------------------
(* Rounding.                                                               *)

\* Python's round to an integer: halves go to the even neighbour.
RoundDiv(a, b) ==
    LET q == a \div b
        r == a % b
    IN  IF 2 * r > b \/ (2 * r = b /\ q % 2 = 1) THEN q + 1 ELSE q

\* The average of f over S, rounded; nothing counts as zero.
Average(f, S) == IF S = {} THEN 0 ELSE RoundDiv(TotalOf(f, S), Cardinality(S))

\* A hundred percent, in hundredths of a percent.
Full == 10000

Percent(n, of) == RoundDiv(Full * n, of)

QuestionsOf(z)   == {x \in Questions : QuizOf[x] = z}
QuizzesOf(m)     == {z \in Quizzes : ModuleOf[z] = m}
ModulesOf(l)     == {m \in Modules : LessonOf[m] = l}
Completed(qs, S) == {z \in S : qs[z].status = "completed"}
Scores(qs)       == [z \in Quizzes |-> qs[z].score]

\* update_module_progress: round(total_score / len(completed)), in whole percents.
WholeAverage(qs, S) == RoundDiv(TotalOf(Scores(qs), S), 100 * Cardinality(S))

NewQuiz == [status |-> "new", score |-> 0]
Unread  == [quiz |-> "none"]

QuizTypeOK ==
    /\ choice \in [Questions -> {"none", "right", "wrong"}]
    /\ \A z \in Quizzes : scan[z] \in SetToSeqs(QuestionsOf(z))
    /\ quiz \in [Quizzes -> [status : {"new", "completed"}, score : 0..Full]]
    /\ moduleProgress \in [Modules -> 0..100]
    /\ lessonProgress \in [Lessons -> 0..100]
    /\ pathProgress \in 0..100
    /\ phase \in [Submitters \cup Clears ->
                {"idle", "shown", "loaded", "answers", "read", "average", "analyse",
                 "module", "lesson", "writeLesson", "path", "writePath", "ok", "failed"}]
    /\ \A r \in Submitters \cup Clears :
         local[r] = Unread \/ (local[r].quiz \in Quizzes /\ local[r].module \in 0..Full)
    /\ overtaken \subseteq Submitters
    /\ mixed \subseteq Quizzes
    /\ crowded \subseteq Submitters
    /\ unsettled \subseteq Modules \cup Lessons \cup {"path"}

QuizInit ==
    /\ choice = [x \in Questions |-> "none"]
    /\ scan \in {s \in [Quizzes -> UNION {SetToSeqs(QuestionsOf(z)) : z \in Quizzes}] :
                    \A z \in Quizzes : s[z] \in SetToSeqs(QuestionsOf(z))}
    /\ quiz = [z \in Quizzes |-> NewQuiz]
    /\ moduleProgress = [m \in Modules |-> 0]
    /\ lessonProgress = [l \in Lessons |-> 0]
    /\ pathProgress = 0
    /\ phase = [r \in Submitters \cup Clears |-> "idle"]
    /\ local = [r \in Submitters \cup Clears |-> Unread]
    /\ overtaken = {}
    /\ mixed = {}
    /\ crowded = {}
    /\ unsettled = {}

-----------------------------------------------------------------------------
Proceed(r, from, to) ==
    /\ phase[r] = from
    /\ phase' = [phase EXCEPT ![r] = to]

Ended       == {"idle", "shown", "ok", "failed"}
Active      == {r \in Submitters : phase[r] \notin Ended}
MyModule(r) == ModuleOf[local[r].quiz]
MyLesson(r) == LessonOf[MyModule(r)]
Above(z)    == {ModuleOf[z], LessonOf[ModuleOf[z]], "path"}

\* Mutant: the page shows the questions in an order of its own.
Open_Shuffled(r) ==
    /\ Proceed(r, "idle", "shown")
    /\ \E z \in Quizzes : \E right \in [QuestionsOf(z) -> BOOLEAN], p \in SetToSeqs(QuestionsOf(z)) :
         local' = [local EXCEPT ![r] =
            [quiz |-> z, page |-> p, right |-> right, order |-> p,
             done |-> 0, correct |-> 0, module |-> 0, quizzes |-> quiz,
             lesson |-> 0, lessons |-> lessonProgress, path |-> 0]]
    /\ UNCHANGED <<quizRows, quizHistory>>

\* get_quiz_exercise: the student sees the questions in the order of the table, and
\* answers each of them rightly or not.
Open(r) ==
    /\ Proceed(r, "idle", "shown")
    /\ \E z \in Quizzes : \E right \in [QuestionsOf(z) -> BOOLEAN] :
         local' = [local EXCEPT ![r] =
            [quiz |-> z, page |-> scan[z], right |-> right, order |-> scan[z],
             done |-> 0, correct |-> 0, module |-> 0, quizzes |-> quiz,
             lesson |-> 0, lessons |-> lessonProgress, path |-> 0]]
    /\ UNCHANGED <<quizRows, quizHistory>>

\* submit_quiz_answers reads the quiz, its module, the lesson and the path ...
Load(r) ==
    /\ Proceed(r, "shown", "loaded")
    /\ local' = [local EXCEPT ![r].module = 100 * moduleProgress[MyModule(r)],
                              ![r].lesson = lessonProgress[MyLesson(r)],
                              ![r].path = pathProgress]
    /\ crowded' = IF Active = {} THEN crowded ELSE crowded \cup Active \cup {r}
    /\ unsettled' = IF Active = {} THEN unsettled
                    ELSE unsettled \cup UNION {Above(local[o].quiz) : o \in Active \cup {r}}
    /\ UNCHANGED <<quizRows, overtaken, mixed>>

\* ... and the questions.  The answers come without the questions they are for.
ReadQuestions(r) ==
    /\ Proceed(r, "loaded", "answers")
    /\ local' = [local EXCEPT ![r].order = scan[local[r].quiz]]
    /\ mixed' = IF \E o \in Submitters \ {r} : phase[o] = "answers" /\ local[o].quiz = local[r].quiz
                THEN mixed \cup {local[r].quiz}
                ELSE mixed \ {local[r].quiz}
    /\ UNCHANGED <<quizRows, overtaken, crowded, unsettled>>

\* A row that is written may come anywhere in the table; the others keep their order.
Reordered(s, x) == {t \in SetToSeqs(ToSet(s)) : Remove(t, x) = Remove(s, x)}

\* Mutant: an answer given before is kept.
StoreAnswer_FirstAttemptOnly(r) ==
    LET n == local[r].done + 1
        z == local[r].quiz
        x == local[r].order[n]
        right == local[r].page[n] = x /\ local[r].right[x]
    IN  /\ phase[r] = "answers"
        /\ local[r].done < Len(local[r].order)
        /\ choice' = IF choice[x] # "none" THEN choice
                     ELSE [choice EXCEPT ![x] = IF right THEN "right" ELSE "wrong"]
        /\ \E s \in Reordered(scan[z], x) : scan' = [scan EXCEPT ![z] = s]
        /\ local' = [local EXCEPT ![r].done = n,
                                  ![r].correct = IF right THEN @ + 1 ELSE @]
        /\ overtaken' = overtaken \cup {o \in Submitters \ {r} :
                                /\ phase[o] \in {"shown", "loaded"}
                                /\ local[o].quiz = z}
        /\ UNCHANGED <<quiz, moduleProgress, lessonProgress, pathProgress, phase, mixed, crowded, unsettled>>

\* zip: the next question of the table with the next answer of the page.  An answer
\* meant for another question is a wrong one.  The row is written, and moves.
StoreAnswer(r) ==
    LET n == local[r].done + 1
        z == local[r].quiz
        x == local[r].order[n]
        right == local[r].page[n] = x /\ local[r].right[x]
    IN  /\ phase[r] = "answers"
        /\ local[r].done < Len(local[r].order)
        /\ choice' = [choice EXCEPT ![x] = IF right THEN "right" ELSE "wrong"]
        /\ \E s \in Reordered(scan[z], x) : scan' = [scan EXCEPT ![z] = s]
        /\ local' = [local EXCEPT ![r].done = n,
                                  ![r].correct = IF right THEN @ + 1 ELSE @]
        /\ overtaken' = overtaken \cup {o \in Submitters \ {r} :
                                /\ phase[o] \in {"shown", "loaded"}
                                /\ local[o].quiz = z}
        /\ UNCHANGED <<quiz, moduleProgress, lessonProgress, pathProgress, phase, mixed, crowded, unsettled>>

\* The score of a quiz without questions divides by zero.
StoreScore(r) ==
    LET n == Len(local[r].order)
        z == local[r].quiz
    IN  /\ Proceed(r, "answers", "read")
        /\ n > 0
        /\ local[r].done = n
        /\ quiz' = [quiz EXCEPT ![z] = [status |-> "completed",
                                        score |-> Percent(local[r].correct, n)]]
        /\ local' = [local EXCEPT ![r].quizzes = [@ EXCEPT ![z] = quiz'[z]]]
        /\ UNCHANGED <<choice, scan, moduleProgress, lessonProgress, pathProgress, quizHistory>>

DivideByZero(r) ==
    /\ Proceed(r, "answers", "failed")
    /\ Len(local[r].order) = 0
    /\ UNCHANGED <<quizRows, local, quizHistory>>

\* The module's quizzes as they are now, but for the one the session holds.
ReadQuizzes(r) ==
    /\ Proceed(r, "read", "average")
    /\ local' = [local EXCEPT ![r].quizzes =
                    [quiz EXCEPT ![local[r].quiz] = local[r].quizzes[local[r].quiz]]]
    /\ UNCHANGED <<quizRows, quizHistory>>

\* The average to two decimals, cut off by the column; the session holds it whole.
StoreAverage(r) ==
    LET m   == MyModule(r)
        avg == Average(Scores(local[r].quizzes), Completed(local[r].quizzes, QuizzesOf(m)))
    IN  /\ Proceed(r, "average", "analyse")
        /\ moduleProgress' = [moduleProgress EXCEPT ![m] = avg \div 100]
        /\ local' = [local EXCEPT ![r].module = avg]
        /\ UNCHANGED <<choice, scan, quiz, lessonProgress, pathProgress, quizHistory>>

\* analyze_and_return_issues, whose exceptions are swallowed: it touches none of this.
Analyse(r) ==
    /\ Proceed(r, "analyse", "module")
    /\ UNCHANGED <<quizRows, local, quizHistory>>

\* update_module_progress: the session still holds the module and its quizzes, so this
\* is the average of the quizzes as they were before the analysis.
UpdateModuleProgress(r) ==
    LET m     == MyModule(r)
        qs    == local[r].quizzes
        whole == WholeAverage(qs, Completed(qs, QuizzesOf(m)))
    IN  /\ Proceed(r, "module", "lesson")
        /\ local' = [local EXCEPT ![r].module = 100 * whole]
        /\ moduleProgress' = IF local[r].module = 100 * whole THEN moduleProgress
                             ELSE [moduleProgress EXCEPT ![m] = whole]
        /\ UNCHANGED <<choice, scan, quiz, lessonProgress, pathProgress, quizHistory>>

\* Mutant: the lesson gets the module's progress for the average.
ReadModulesOfLesson_OnlyMine(r) ==
    /\ Proceed(r, "lesson", "writeLesson")
    /\ local' = [local EXCEPT ![r].lessons =
                    [lessonProgress EXCEPT ![MyLesson(r)] = local[r].module \div 100]]
    /\ UNCHANGED <<quizRows, quizHistory>>

\* update_recommend_lesson_progress over all the lesson's modules, its own as held.
ReadModulesOfLesson(r) ==
    /\ Proceed(r, "lesson", "writeLesson")
    /\ local' = [local EXCEPT ![r].lessons =
                    [lessonProgress EXCEPT ![MyLesson(r)] =
                        Average([moduleProgress EXCEPT ![MyModule(r)] = local[r].module \div 100],
                                ModulesOf(MyLesson(r)))]]
    /\ UNCHANGED <<quizRows, quizHistory>>

StoreLessonProgress(r) ==
    LET l   == MyLesson(r)
        new == local[r].lessons[l]
    IN  /\ Proceed(r, "writeLesson", "path")
        /\ lessonProgress' = IF local[r].lesson = new THEN lessonProgress
                             ELSE [lessonProgress EXCEPT ![l] = new]
        /\ local' = [local EXCEPT ![r].lesson = new]
        /\ UNCHANGED <<choice, scan, quiz, moduleProgress, pathProgress, quizHistory>>

\* update_learning_path_progress over all the path's lessons, its own as held.
ReadLessonsOfPath(r) ==
    /\ Proceed(r, "path", "writePath")
    /\ local' = [local EXCEPT ![r].lessons =
                    [lessonProgress EXCEPT ![MyLesson(r)] = local[r].lesson]]
    /\ UNCHANGED <<quizRows, quizHistory>>

StorePathProgress(r) ==
    LET new == Average(local[r].lessons, Lessons)
    IN  /\ Proceed(r, "writePath", "ok")
        /\ pathProgress' = IF local[r].path = new THEN pathProgress ELSE new
        /\ unsettled' = IF r \in crowded THEN unsettled ELSE unsettled \ Above(local[r].quiz)
        /\ UNCHANGED <<choice, scan, quiz, moduleProgress, lessonProgress, local, overtaken, mixed, crowded>>

\* An exception at any await but the analysis: what was committed stays.
SubmissionFails(r) ==
    /\ phase[r] \notin Ended \cup {"analyse"}
    /\ phase' = [phase EXCEPT ![r] = "failed"]
    /\ mixed' = IF phase[r] = "answers" THEN mixed \cup {local[r].quiz} ELSE mixed
    /\ unsettled' = unsettled \cup Above(local[r].quiz)
    /\ UNCHANGED <<quizRows, local, overtaken, crowded>>

\* clear_quiz_answers: its checks pass, and quiz.questions, which was not loaded with the
\* quiz, cannot be loaded outside an await.
ClearRaises(r) ==
    /\ Proceed(r, "idle", "failed")
    /\ \E z \in Quizzes : local' = [local EXCEPT ![r] = [quiz |-> z, module |-> 0]]
    /\ UNCHANGED <<quizRows, quizHistory>>

QuizNext ==
    \/ \E r \in Submitters :
         \/ Open(r) \/ Load(r) \/ ReadQuestions(r)
         \/ StoreAnswer(r) \/ StoreScore(r) \/ DivideByZero(r)
         \/ ReadQuizzes(r) \/ StoreAverage(r) \/ Analyse(r)
         \/ UpdateModuleProgress(r)
         \/ ReadModulesOfLesson(r) \/ StoreLessonProgress(r)
         \/ ReadLessonsOfPath(r) \/ StorePathProgress(r)
         \/ SubmissionFails(r)
    \/ \E r \in Clears : ClearRaises(r)

QuizSpec == QuizInit /\ [][QuizNext]_quizVars

-----------------------------------------------------------------------------
(* Properties.                                                             *)

\* A completed quiz has an answer to each of its questions, and there is at least one.
CompletedMeansAnswered ==
    \A z \in Quizzes :
        quiz[z].status = "completed" =>
            /\ QuestionsOf(z) # {}
            /\ \A x \in QuestionsOf(z) : choice[x] # "none"

\* A quiz's score is the share of the right answers stored with it, although answers and
\* score are committed one by one: except while a submission of it is storing answers,
\* and after several submissions of it at a time or one that failed midway.
ScoreOfStoredAnswers ==
    \A z \in Quizzes \ mixed :
        \/ quiz[z].status # "completed"
        \/ \E r \in Submitters : phase[r] = "answers" /\ local[r].quiz = z
        \/ quiz[z].score = Percent(Cardinality({x \in QuestionsOf(z) : choice[x] = "right"}),
                                   Cardinality(QuestionsOf(z)))

\* A completed quiz is answered, and its score is the share of its right answers.
StoredScores == CompletedMeansAnswered /\ ScoreOfStoredAnswers

\* The student is credited with each right answer, although answers are paired with
\* questions by their position in a result without an order: as long as nobody wrote to
\* the questions between their showing and their judging.
EarnedScore ==
    \A r \in Submitters \ overtaken :
        phase[r] \notin {"idle", "shown", "loaded", "answers", "failed"} =>
            local[r].correct = Cardinality({x \in DOMAIN local[r].right : local[r].right[x]})

\* When no request is running, each level's progress is the rounded average of the level
\* below, except where the last requests ran at the same time or failed: submissions that
\* run alone leave consistent progress, and repair what others left.
SettledProgress ==
    Active = {} =>
        /\ \A m \in Modules \ unsettled :
             LET S == Completed(quiz, QuizzesOf(m))
             IN  moduleProgress[m] = IF S = {} THEN 0 ELSE WholeAverage(quiz, S)
        /\ \A l \in Lessons \ unsettled :
             lessonProgress[l] = Average(moduleProgress, ModulesOf(l))
        /\ "path" \notin unsettled => pathProgress = Average(lessonProgress, Lessons)

=============================================================================
