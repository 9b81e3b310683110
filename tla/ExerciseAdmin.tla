---------------------------- MODULE ExerciseAdmin ----------------------------
(***************************************************************************)
(* The life of exercises: how professors add, edit, read and delete quiz   *)
(* and code exercises, their test cases and their language configurations  *)
(* (machine/api/v1/exercise.py).                                           *)
(*                                                                         *)
(* A handler looks the exercise and the course up, and then commits one    *)
(* statement; anything may be committed between its steps.  An exercise    *)
(* keeps its questions in one JSON column whatever its type, and its test  *)
(* cases for the judge in a table of their own.  SubmissionPipeline has    *)
(* what follows a submission that finds test cases.                        *)
(***************************************************************************)
EXTENDS Integers, Functions

CONSTANTS
    Creations,        \* the calls of add_exercises and add_code_exercise
    Updates,          \* the calls of update_exercise and update_code_exercise
    Deletions,        \* the calls of the three handlers that delete
    Readings,         \* the calls of get_exercise and get_code_exercise
    TestCreations,    \* the calls of create_testcase
    TestChanges,      \* the calls of update_testcase and delete_testcase
    ConfigAdditions,  \* the calls of add_language_config
    Submissions,      \* the calls of submit_code
    Seeds,            \* exercises that exist in the beginning
    Courses,
    Languages,
    Types,            \* the types that a body asks for, of those there are
    MaxQuestions      \* bound: how many questions a body has

ASSUME QuestionsAssumption == MaxQuestions \in Nat
ASSUME TypesAssumption == Types \subseteq {"original", "recommended", "quiz", "code"}

VARIABLES
    exercises,  \* the rows, by their identity
    courses,    \* the courses that exist
    attempts,   \* the exercises that student_exercises rows refer to
    tests,      \* the rows of programming_testcases, by their identity
    configs,    \* the rows of programming_language_configs
    reached,
    ask,        \* per request, its path and body
    held,       \* per request, the exercise as it has read it
    did,        \* history: the requests that have committed a change
    deleted,    \* history: the exercises that were deleted
    carried     \* history: the exercises whose code questions came with test cases

exerciseRows == <<exercises, courses, attempts, tests, configs>>
exerciseVars == <<exercises, courses, attempts, tests, configs, reached, ask, held, did, deleted, carried>>

Callers == Creations \cup Updates \cup Deletions \cup Readings
              \cup TestCreations \cup TestChanges \cup ConfigAdditions \cup Submissions
ExerciseIds == Seeds \cup Creations

\* A request is a call of one handler, and no seed is made by one.
ASSUME KindsAssumption ==
    LET others == Readings \cup TestCreations \cup TestChanges \cup ConfigAdditions \cup Submissions
    IN  /\ Creations \cap (Updates \cup Deletions \cup others) = {}
        /\ Updates \cap (Deletions \cup others) = {}
        /\ Deletions \cap others = {}
        /\ TestChanges \cap (Readings \cup TestCreations \cup ConfigAdditions \cup Submissions) = {}
        /\ Creations \cap Seeds = {} /\ "seed" \notin Callers

Shapes      == {"quiz", "code"}  \* the handler, and the shape of the questions it stores
NoCourse    == "none"            \* an AI-generated exercise belongs to a module
NoRow       == [by |-> "none"]

\* What a professor sends; max is 0 when no maximum is given.
Bodies == [type : Types, course : Courses, questions : 0..MaxQuestions, max : {0, 3}]

Row(r, shape, b) ==
    [by |-> r, type |-> b.type, shape |-> shape, course |-> b.course, questions |-> b.questions,
     max |-> IF b.max # 0 THEN b.max ELSE (IF shape = "code" THEN 10 ELSE 1) * b.questions]

ExerciseTypeOK ==
    /\ DOMAIN exercises \subseteq ExerciseIds
    /\ \A e \in DOMAIN exercises :
         /\ exercises[e].type \in Types \cup Shapes /\ exercises[e].shape \in Shapes
         /\ exercises[e].course \in Courses \cup {NoCourse}
    /\ courses \subseteq Courses
    /\ attempts \subseteq ExerciseIds
    /\ DOMAIN tests \subseteq TestCreations
    /\ \A c \in configs : c.language \in Languages
    /\ reached \in [Callers -> {"idle", "found", "checked", "ok", "refused", "error", "no tests"}]
    /\ \A r \in Callers : held[r] = NoRow \/ (held[r].shape \in Shapes)
    /\ did \subseteq Callers
    /\ deleted \cap DOMAIN exercises = {}

ExerciseInit ==
    /\ courses = Courses
    /\ exercises \in [Seeds -> {[by |-> "seed", type |-> s, shape |-> s, course |-> c, questions |-> 1, max |-> 3] :
                                   s \in Shapes, c \in Courses \cup {NoCourse}}]
    /\ attempts \in SUBSET Seeds
    /\ tests = <<>>
    /\ configs = {}
    /\ reached = [r \in Callers |-> "idle"]
    /\ ask = [r \in Callers |-> <<>>]
    /\ held = [r \in Callers |-> NoRow]
    /\ did = {}
    /\ deleted = {}
    /\ carried = {}

Reach(r, from, to) ==
    /\ reached[r] = from
    /\ reached' = [reached EXCEPT ![r] = to]

\* A later step of the handler that stores questions of this shape.
Step(r, shape, from, to) == reached[r] = from /\ ask[r].shape = shape /\ Reach(r, from, to)

\* A table with one row more.
With(table, id, row) == [x \in DOMAIN table \cup {id} |-> IF x = id THEN row ELSE table[x]]

Exists(e) == e \in DOMAIN exercises
Lookup(e) == IF Exists(e) THEN exercises[e] ELSE NoRow

-----------------------------------------------------------------------------
(* Adding *)

\* Refused on what it asks for: another professor's course, a course that is not
\* there, a question with a part missing.
Refuse(r, from) == Reach(r, from, "refused") /\ UNCHANGED ask

\* The professor and the course are looked up, and the questions gone through.
CheckNew(r, shape) ==
    /\ r \in Creations
    /\ \/ Refuse(r, "idle")
       \/ \E b \in Bodies :
            /\ b.course \in courses
            /\ Reach(r, "idle", "checked")
            /\ ask' = [ask EXCEPT ![r] = [shape |-> shape, body |-> b]]
    /\ UNCHANGED <<exerciseRows, held, did, deleted, carried>>

\* The row is inserted, unless its course has gone; the type is the body's.
Insert(r, shape) ==
    LET a == ask[r] IN
    /\ r \in Creations
    /\ \/ /\ Step(r, shape, "checked", "ok")
          /\ a.body.course \in courses
          /\ exercises' = With(exercises, r, Row(r, shape, a.body))
          /\ did' = did \cup {r}
          /\ carried' = IF shape = "code" /\ a.body.questions > 0 THEN carried \cup {r} ELSE carried
       \/ /\ Step(r, shape, "checked", "error")
          /\ a.body.course \notin courses
          /\ UNCHANGED <<exercises, did, carried>>
    /\ UNCHANGED <<courses, attempts, tests, configs, ask, held, deleted>>

-----------------------------------------------------------------------------
(* Editing *)

\* Only the handlers for code exercises look at the type of what they found.
Accepts(shape, row) == row # NoRow /\ (shape = "code" => row.type = "code")

Find(r, shape) ==
    /\ r \in Updates
    /\ \/ \E e \in ExerciseIds : ~ Accepts(shape, Lookup(e)) /\ Refuse(r, "idle")
       \/ \E b \in Bodies, e \in ExerciseIds :
            /\ Accepts(shape, Lookup(e))
            /\ Reach(r, "idle", "found")
            /\ ask' = [ask EXCEPT ![r] = [shape |-> shape, body |-> b, exercise |-> e]]
    /\ UNCHANGED <<exerciseRows, held, did, deleted, carried>>

CheckBody(r, shape) ==
    /\ r \in Updates
    /\ \/ Step(r, shape, "found", "refused") /\ UNCHANGED ask
       \/ /\ Step(r, shape, "found", "checked")
          /\ ask[r].body.course \in courses
          /\ UNCHANGED ask
    /\ UNCHANGED <<exerciseRows, held, did, deleted, carried>>

\* Mutant: the answer is built from the body, whether or not there was a row.
Write_AnswersOk(r, shape) ==
    LET a == ask[r] IN
    /\ r \in Updates
    /\ Step(r, shape, "checked", "ok")
    /\ IF Exists(a.exercise)
       THEN /\ exercises' = [exercises EXCEPT ![a.exercise] = Row(r, shape, a.body)]
            /\ did' = did \cup {r}
       ELSE UNCHANGED <<exercises, did>>
    /\ UNCHANGED <<courses, attempts, tests, configs, ask, held, deleted, carried>>

\* One statement sets the whole row.  When the row has gone it matches nothing,
\* and the answer is built from no row, which fails; so does a course that has gone.
Write(r, shape) ==
    LET a == ask[r] IN
    /\ r \in Updates
    /\ \/ /\ Step(r, shape, "checked", "ok")
          /\ Exists(a.exercise)
          /\ a.body.course \in courses
          /\ exercises' = [exercises EXCEPT ![a.exercise] = Row(r, shape, a.body)]
          /\ did' = did \cup {r}
          /\ carried' = IF shape = "code" /\ a.body.questions > 0
                        THEN carried \cup {a.exercise} ELSE carried \ {a.exercise}
       \/ /\ Step(r, shape, "checked", "error")
          /\ ~ (Exists(a.exercise) /\ a.body.course \in courses)
          /\ UNCHANGED <<exercises, did, carried>>
    /\ UNCHANGED <<courses, attempts, tests, configs, ask, held, deleted>>

-----------------------------------------------------------------------------
(* Deleting: a row takes its attempts, test cases and configurations with it *)

FindDeleted(r, by) ==
    /\ r \in Deletions
    /\ \/ Refuse(r, "idle") /\ UNCHANGED held
       \/ \E e \in ExerciseIds :
            /\ \/ by = "ai-generated"
               \/ Accepts(by, Lookup(e)) /\ Lookup(e).course # NoCourse
            /\ Reach(r, "idle", "checked")
            /\ ask' = [ask EXCEPT ![r] = [shape |-> by, exercise |-> e]]
            /\ held' = [held EXCEPT ![r] = Lookup(e)]
    /\ UNCHANGED <<exerciseRows, did, deleted, carried>>

\* The answer is built from the questions read before, after the commit; the one
\* for quizzes needs the parts of a quiz question.
Answered(by, row) == by = "quiz" => (row.shape = "quiz" \/ row.questions = 0)

\* Mutant: test cases and configurations of the exercise are left where they are.
Delete_KeepParts(r, by) ==
    LET e == ask[r].exercise IN
    /\ r \in Deletions
    /\ Step(r, by, "checked", IF Answered(by, held[r]) THEN "ok" ELSE "error")
    /\ exercises' = Restrict(exercises, DOMAIN exercises \ {e})
    /\ attempts' = attempts \ {e}
    /\ did' = did \cup {r}
    /\ deleted' = IF Exists(e) THEN deleted \cup {e} ELSE deleted
    /\ carried' = carried \ {e}
    /\ UNCHANGED <<courses, tests, configs, ask, held>>

\* Deleting a row that has gone deletes nothing.
Delete(r, by) ==
    LET e == ask[r].exercise IN
    /\ r \in Deletions
    /\ Step(r, by, "checked", IF Answered(by, held[r]) THEN "ok" ELSE "error")
    /\ exercises' = Restrict(exercises, DOMAIN exercises \ {e})
    /\ attempts' = attempts \ {e}
    /\ tests' = Restrict(tests, {t \in DOMAIN tests : tests[t].exercise # e})
    /\ configs' = {c \in configs : c.exercise # e}
    /\ did' = IF Exists(e) THEN did \cup {r} ELSE did
    /\ deleted' = IF Exists(e) THEN deleted \cup {e} ELSE deleted
    /\ carried' = carried \ {e}
    /\ UNCHANGED <<courses, ask, held>>

\* delete_course of machine/api/v1/courses.py: an exercise holds its course.
DeleteCourse(c) ==
    /\ c \in courses
    /\ \A e \in DOMAIN exercises : exercises[e].course # c
    /\ courses' = courses \ {c}
    /\ UNCHANGED <<exercises, attempts, tests, configs, reached, ask, held, did, deleted, carried>>

-----------------------------------------------------------------------------
(* Reading *)

\* A quiz needs a course and quiz questions to be answered; a code exercise its type.
Read(r, shape) ==
    /\ r \in Readings
    /\ \E e \in ExerciseIds :
         LET row == Lookup(e) IN
         /\ ask' = [ask EXCEPT ![r] = [shape |-> shape, exercise |-> e]]
         /\ held' = [held EXCEPT ![r] = row]
         /\ \/ Reach(r, "idle", "refused") /\ ~ Accepts(shape, row)
            \/ Reach(r, "idle", "error") /\ Accepts(shape, row) /\ shape = "quiz"
                 /\ (row.course = NoCourse \/ ~ Answered(shape, row))
            \/ Reach(r, "idle", "ok") /\ Accepts(shape, row)
                 /\ (shape = "quiz" => row.course # NoCourse /\ Answered(shape, row))
    /\ UNCHANGED <<exerciseRows, did, deleted, carried>>

-----------------------------------------------------------------------------
(* Test cases and language configurations *)

CreateTestcase(r) ==
    /\ r \in TestCreations
    /\ \E e \in ExerciseIds, public \in BOOLEAN :
         \/ /\ Reach(r, "idle", "ok")
            /\ Exists(e)
            /\ tests' = With(tests, r, [exercise |-> e, public |-> public, by |-> r])
            /\ did' = did \cup {r}
         \/ /\ Reach(r, "idle", "error")
            /\ ~ Exists(e)
            /\ UNCHANGED <<tests, did>>
    /\ UNCHANGED <<exercises, courses, attempts, configs, ask, held, deleted, carried>>

\* The row must be the one of the path, test case and exercise.
UpdateTestcase(r) ==
    /\ r \in TestChanges
    /\ \E t \in TestCreations, e \in ExerciseIds, public \in BOOLEAN :
         \/ /\ Reach(r, "idle", "ok")
            /\ t \in DOMAIN tests /\ tests[t].exercise = e
            /\ tests' = [tests EXCEPT ![t].public = public, ![t].by = r]
            /\ did' = did \cup {r}
         \/ /\ Reach(r, "idle", "refused")
            /\ t \in DOMAIN tests => tests[t].exercise # e
            /\ UNCHANGED <<tests, did>>
    /\ UNCHANGED <<exercises, courses, attempts, configs, ask, held, deleted, carried>>

\* Looked up first, deleted afterwards, whether or not it is still there.
FindTestcase(r) ==
    /\ r \in TestChanges
    /\ \E t \in TestCreations, e \in ExerciseIds :
         \/ /\ t \in DOMAIN tests /\ tests[t].exercise = e
            /\ Reach(r, "idle", "checked")
            /\ ask' = [ask EXCEPT ![r] = [test |-> t]]
         \/ /\ t \in DOMAIN tests => tests[t].exercise # e
            /\ Refuse(r, "idle")
    /\ UNCHANGED <<exerciseRows, held, did, deleted, carried>>

DeleteTestcase(r) ==
    /\ r \in TestChanges
    /\ Reach(r, "checked", "ok")
    /\ tests' = Restrict(tests, DOMAIN tests \ {ask[r].test})
    /\ did' = IF ask[r].test \in DOMAIN tests THEN did \cup {r} ELSE did
    /\ UNCHANGED <<exercises, courses, attempts, configs, ask, held, deleted, carried>>

\* An exercise has one configuration per language.
AddLanguageConfig(r) ==
    /\ r \in ConfigAdditions
    /\ \E e \in ExerciseIds, l \in Languages :
         LET taken == \E c \in configs : c.exercise = e /\ c.language = l IN
         \/ /\ Reach(r, "idle", "ok")
            /\ Exists(e) /\ ~ taken
            /\ configs' = configs \cup {[by |-> r, exercise |-> e, language |-> l]}
            /\ did' = did \cup {r}
         \/ /\ Reach(r, "idle", "error")
            /\ ~ Exists(e) \/ taken
            /\ UNCHANGED <<configs, did>>
    /\ UNCHANGED <<exercises, courses, attempts, tests, ask, held, deleted, carried>>

\* A submission is looked at only as far as its test cases.
FindExercise(r) ==
    /\ r \in Submissions
    /\ \E e \in ExerciseIds :
         /\ ask' = [ask EXCEPT ![r] = [exercise |-> e]]
         /\ Reach(r, "idle", IF Exists(e) THEN "checked" ELSE "refused")
    /\ UNCHANGED <<exerciseRows, held, did, deleted, carried>>

FindTests(r) ==
    /\ r \in Submissions
    /\ Reach(r, "checked", IF \E t \in DOMAIN tests : tests[t].exercise = ask[r].exercise THEN "ok" ELSE "no tests")
    /\ UNCHANGED <<exerciseRows, ask, held, did, deleted, carried>>

-----------------------------------------------------------------------------
(* The handlers *)

add_exercises(r)        == CheckNew(r, "quiz") \/ Insert(r, "quiz")
add_code_exercise(r)    == CheckNew(r, "code") \/ Insert(r, "code")
get_exercise(r)         == Read(r, "quiz")
get_code_exercise(r)    == Read(r, "code")
update_exercise(r)      == Find(r, "quiz") \/ CheckBody(r, "quiz") \/ Write(r, "quiz")
update_code_exercise(r) == Find(r, "code") \/ CheckBody(r, "code") \/ Write(r, "code")
delete_exercise(r)      == FindDeleted(r, "quiz") \/ Delete(r, "quiz")
delete_code_exercise(r) == FindDeleted(r, "code") \/ Delete(r, "code")
delete_ai_generated_code_exercise(r) == FindDeleted(r, "ai-generated") \/ Delete(r, "ai-generated")
delete_testcase(r)      == FindTestcase(r) \/ DeleteTestcase(r)
submit_code(r)          == FindExercise(r) \/ FindTests(r)

Serve(r) ==
    \/ add_exercises(r) \/ add_code_exercise(r)
    \/ get_exercise(r) \/ get_code_exercise(r)
    \/ update_exercise(r) \/ update_code_exercise(r)
    \/ delete_exercise(r) \/ delete_code_exercise(r) \/ delete_ai_generated_code_exercise(r)
    \/ CreateTestcase(r) \/ UpdateTestcase(r) \/ delete_testcase(r)
    \/ AddLanguageConfig(r) \/ submit_code(r)

ExerciseNext == (\E r \in Callers : Serve(r)) \/ \E c \in Courses : DeleteCourse(c)

ExerciseSpec == ExerciseInit /\ [][ExerciseNext]_exerciseVars

-----------------------------------------------------------------------------
(* Properties *)

\* An exercise has one configuration per language, whatever is added at once.
OneConfigPerLanguage ==
    \A c, d \in configs : c.exercise = d.exercise /\ c.language = d.language => c = d

\* No row outlives what it belongs to: test cases, configurations and attempts
\* have their exercise and exercises their course, and a language has one
\* configuration, although a handler writes on what it has looked up before (the
\* foreign keys and keys of models/exercises.py, student_exercises.py and
\* coding_submission.py; exercise.py:763).
PartsHaveTheirWhole ==
    /\ \A e \in DOMAIN exercises : exercises[e].course \in courses \cup {NoCourse}
    /\ attempts \subseteq DOMAIN exercises
    /\ \A t \in DOMAIN tests : Exists(tests[t].exercise)
    /\ \A c \in configs : Exists(c.exercise)
    /\ OneConfigPerLanguage

\* A stored exercise is what one request sent, with the maximum that belongs to
\* its own questions: two edits are never mixed.
ExercisesAreOfOneRequest ==
    \A e \in DOMAIN exercises :
      exercises[e].by \in Callers =>
        LET a == ask[exercises[e].by] IN exercises[e] = Row(exercises[e].by, a.shape, a.body)

\* An error answered means that nothing was changed, but for the quiz handler
\* that deletes an exercise with code questions and then cannot show it.
ErrorsChangeNothing ==
    \A r \in Callers :
      reached[r] \in {"refused", "error"} /\ r \in did =>
        r \in Deletions /\ ask[r].shape = "quiz" /\ held[r].shape = "code"

\* A deletion of what someone else has deleted since it was looked up, or of an AI-generated
\* exercise that was not there.
LateDeletion(r) ==
    \/ r \in Deletions /\ (held[r] = NoRow \/ ask[r].exercise \in deleted)
    \/ r \in TestChanges /\ ask[r].test \notin DOMAIN tests

\* An "ok" to a request that creates, edits or deletes means that this very request changed
\* the rows, unless it is a late deletion.
AnswersMeanChanges ==
    \A r \in Callers \ (Readings \cup Submissions) :
      reached[r] = "ok" => r \in did \/ LateDeletion(r)

\* After an edit was answered "ok", its exercise bears it or another edit answered so, until
\* the exercise is deleted.
EditsStand ==
    \A r \in Updates :
      reached[r] = "ok" =>
        LET e == ask[r].exercise IN
        \/ e \in deleted
        \/ Exists(e) /\ \E q \in Updates : reached[q] = "ok" /\ ask[q].exercise = e /\ exercises[e].by = q

\* Of the edits and deletions of one exercise that overlap, each is stored whole or
\* changes nothing and is answered with an error, but for the deletion that comes second
\* (exercise.py:310, 380).
EditsAreWhole ==
    ErrorsChangeNothing /\ AnswersMeanChanges /\ EditsStand /\ ExercisesAreOfOneRequest

=============================================================================
