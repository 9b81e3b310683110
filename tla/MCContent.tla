----------------------------- MODULE MCContent -----------------------------
(***************************************************************************)
(* LessonMaterial and ExerciseAdmin for TLC.  A behaviour plays one scene, *)
(* in which one of them acts and the other rests.                          *)
(***************************************************************************)
EXTENDS LessonMaterial, ExerciseAdmin, TLC

CONSTANT Scenes   \* the scenes that the run plays

VARIABLE scene

\* Two uploads of two files each, of which three have the same name.
TwoUploads == [u1 |-> <<"f4", "f1">>, u2 |-> <<"f2", "f3">>]
SharedName == [f1 |-> "notes", f2 |-> "notes", f3 |-> "notes", f4 |-> "slides"]

\* Of ExerciseAdmin: the edits and a deletion of an exercise of any shape; a creation, a
\* reading, a deletion and two configurations of the same language; test cases that come and
\* go beside a deletion and a submission.
Cast == [edited |-> Updates \cup Deletions,
         parts  |-> Creations \cup Readings \cup Deletions \cup ConfigAdditions,
         tested |-> TestCreations \cup TestChanges \cup Deletions \cup Submissions]

MCInit == scene \in Scenes /\ Init /\ ExerciseInit

LessonScene == scene = "uploaded" /\ Next

ExerciseScene ==
    /\ scene \in DOMAIN Cast
    /\ \/ \E r \in Cast[scene] : Serve(r)
       \/ \E c \in Courses : DeleteCourse(c)

MCNext ==
    \/ LessonScene   /\ UNCHANGED <<scene, exerciseVars>>
    \/ ExerciseScene /\ UNCHANGED <<scene, vars>>

MCSpec == MCInit /\ [][MCNext]_<<scene, vars, exerciseVars>>

\* Every variable of every component has its type.
TypesOK == TypeOK /\ ExerciseTypeOK

=============================================================================
