----------------------------- MODULE MCLearning -----------------------------
(***************************************************************************)
(* LessonWork, PathGeneration and QuizSubmission for TLC.  A behaviour     *)
(* plays one scene, in which a cast of one of them acts and all else rests.*)
(***************************************************************************)
EXTENDS LessonWork, PathGeneration, QuizSubmission, TLC

CONSTANT Scenes   \* the scenes that the run plays

VARIABLE scene

\* Of LessonWork: the writers of the row, the bookmark, and the generation of quizzes and
\* exercises.
Cast == [row |-> Monitors \cup Regens, bookmark |-> {"r1"} \cup Toggles,
         made |-> IssueRegens \cup Quizzers \cup Coders]

\* Of PathGeneration: a generation alone, and beside the planner and a reader of the newest
\* path; the latter with at most as many modules for a lesson.
PathCast == [paths |-> Generations, plans |-> Makers \cup Views]
ModulesIn == [paths |-> MaxModules, plans |-> 1]

\* The tree of quizzes.  In the scene "shared", of two submissions, two quizzes share a
\* module, and the lesson has another module, with a quiz without questions.  In "thirds", of
\* one submission and a clearing, a quiz has three questions, so that its score is no whole
\* percentage, and the lesson has another module.
QuizOfQuestion == [x \in {"a", "b", "c", "d", "e", "f", "g"} |->
    CASE x \in {"a", "b"} -> "z1" [] x = "c" -> "z2" [] x = "g" -> "z5" [] OTHER -> "z4"]
ModuleOfQuiz   == [z \in {"z1", "z2", "z3", "z4", "z5"} |->
    CASE z = "z3" -> "m2" [] z = "z4" -> "m3" [] z = "z5" -> "m4" [] OTHER -> "m1"]
LessonOfModule == [m \in {"m1", "m2", "m3", "m4"} |-> IF m \in {"m1", "m2"} THEN "l1" ELSE "l2"]
QuizzesIn      == [shared |-> {"z1", "z2", "z3"}, thirds |-> {"z4", "z5"}]

MCInit ==
    /\ scene \in Scenes
    /\ Init /\ PathInit /\ QuizInit
    /\ \A z \in Quizzes :
         (scene \in DOMAIN QuizzesIn => z \notin QuizzesIn[scene]) =>
             scan[z] = CHOOSE s \in SetToSeqs(QuestionsOf(z)) : TRUE

\* Quizzes bring progress where the progress is written.
LessonScene ==
    /\ scene \in DOMAIN Cast
    /\ Next
    /\ \A p \in Requests \ Cast[scene] : pc'[p] = pc[p]
    /\ scene = "made" => lesson' = lesson

PathScene ==
    /\ scene \in DOMAIN PathCast
    /\ PathNext
    /\ \A p \in (Makers \cup Views) \ PathCast[scene] : stage'[p] = stage[p]
    /\ \A m \in Makers : \A k \in DOMAIN proposal'[m] : proposal'[m][k].made <= ModulesIn[scene]

QuizScene ==
    /\ scene \in DOMAIN QuizzesIn
    /\ QuizNext
    /\ \A r \in Submitters \cup Clears :
         phase'[r] # "idle" => local'[r].quiz \in QuizzesIn[scene]
    /\ scene = "shared" => \A r \in Clears : phase'[r] = "idle"
    /\ scene = "thirds" => Cardinality({r \in Submitters : phase'[r] # "idle"}) <= 1

MCNext ==
    \/ LessonScene /\ UNCHANGED <<scene, pathVars, quizVars>>
    \/ PathScene   /\ UNCHANGED <<scene, vars, quizVars>>
    \/ QuizScene   /\ UNCHANGED <<scene, vars, pathVars>>

MCSpec == MCInit /\ [][MCNext]_<<scene, vars, pathVars, quizVars>>

\* Submissions and lessons of the course are never compared but for equality.
Symmetry == Permutations(Submitters) \cup Permutations(Catalog)

\* Every variable of every component has its type.
TypesOK == TypeOK /\ PathTypeOK /\ QuizTypeOK

=============================================================================
