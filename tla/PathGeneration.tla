--------------------------- MODULE PathGeneration ---------------------------
(***************************************************************************)
(* The learning paths of one student in one course: how they are generated *)
(* (generate_learning_path in machine/api/v1/ai_routers.py, and            *)
(* invoke_lp_planner in machine/controllers/ai/lp_planning.py) and how the *)
(* newest one is read back (machine/controllers/recommend.py).             *)
(*                                                                         *)
(* A generation commits the path, its lessons, their modules and the       *)
(* modules' documents one after the other; the planner commits its path    *)
(* whole.  A path's place in newest-first order is its identity column.    *)
(***************************************************************************)
EXTENDS Integers, FiniteSetsExt, SequencesExt

CONSTANTS
    Generations,    \* the calls of generate_learning_path
    Plans,          \* the calls of invoke_lp_planner
    Views,          \* the calls of get_recommended_lessons
    Catalog,        \* the lessons of the course
    MaxLessons,     \* bound: how many lessons an answer selects
    MaxModules      \* bound: how many modules an answer has for a lesson

\* They are different calls.
ASSUME CallsAssumption == Generations \cap Plans = {} /\ Views \cap (Generations \cup Plans) = {}

ASSUME BoundsAssumption == MaxLessons \in Nat /\ MaxModules \in Nat

Makers == Generations \cup Plans

VARIABLES
    paths,      \* the makers of the stored paths, oldest first
    lessonsOf,  \* per maker, the stored recommended lessons of its path, in order
    modulesOf,  \* per maker, the stored modules: the lesson each is under, and was made for
    docsOf,     \* per maker, the stored documents: the module each is of, and was made for
    stage,
    proposal,   \* per maker, what the models answered
    view,       \* per view, the path found and what was read of it
    expected    \* history: per view, the number of paths there were when it began

stored == <<paths, lessonsOf, modulesOf, docsOf>>
pathVars   == <<stored, stage, proposal, view, expected>>

-----------------------------------------------------------------------------
(* Answers.                                                                *)

\* A lesson that is not in the course: the id is the model's, and nothing checks it.
Unknown == "unknown"

\* select_relevant_lessons and the lessons part of generate_detailed_learning_path: for
\* each lesson, the number of modules asked for, which is made 2 unless it is 2 or 3, and
\* the number the model then answers with.
GeneratedLesson == [lesson : Catalog \cup {Unknown}, asked : {2, 3}, made : 0..MaxModules]
PlannedLesson   == [lesson : Catalog \cup {Unknown}, asked : {0}, made : 0..MaxModules]

ListsUpTo(S, n) == UNION {[1..k -> S] : k \in 0..n}

\* modules.extend: the modules of the lessons, one lesson after the other.
MadeFor(ls) == FlattenSeq([k \in DOMAIN ls |-> [i \in 1..ls[k].made |-> k]])

\* The modules that the first k lessons were asked to have.
AskedBefore(ls, k) ==
    LET asked == [j \in DOMAIN ls |-> ls[j].asked]
    IN  MapThenSumSet(LAMBDA j : asked[j], 1..k)

\* Mutant: a lesson gets one module more than was asked for.
LessonFor_OneLate(ls, i) ==
    CHOOSE k \in 1..Len(ls) :
        AskedBefore(ls, k - 1) + k - 1 < i /\ i <= AskedBefore(ls, k) + k

\* assign_recommend_lesson_id moves to the next lesson once as many modules went to this
\* one as it was asked to have; past the last lesson its index is out of range.
Assignable(ls)   == Len(MadeFor(ls)) <= AskedBefore(ls, Len(ls))
LessonFor(ls, i) ==
    CHOOSE k \in 1..Len(ls) : AskedBefore(ls, k - 1) < i /\ i <= AskedBefore(ls, k)

\* The planner maps the lesson of an item to the last row made for it.
RowFor(ls, i) ==
    CHOOSE k \in 1..Len(ls) :
        /\ ls[k].lesson = ls[i].lesson
        /\ \A j \in 1..Len(ls) : ls[j].lesson = ls[i].lesson => j <= k

Known(ls) == ls # <<>> /\ \A k \in 1..Len(ls) : ls[k].lesson # Unknown

PathTypeOK ==
    /\ \A i \in DOMAIN paths : paths[i] \in Makers
    /\ \A m \in Makers :
         /\ Len(proposal[m]) <= MaxLessons
         /\ \A k \in DOMAIN proposal[m] : proposal[m][k] \in GeneratedLesson \cup PlannedLesson
         /\ lessonsOf[m] \in {<<>>, proposal[m]}
         /\ \A i \in DOMAIN modulesOf[m] :
              modulesOf[m][i].under \in 1..MaxLessons /\ modulesOf[m][i].for \in 1..MaxLessons
         /\ \A i \in DOMAIN docsOf[m] : docsOf[m][i].of \in Nat /\ docsOf[m][i].for \in Nat
    /\ stage \in [Makers \cup Views ->
                {"idle", "answered", "path", "lessons", "modules", "newest", "read", "ok", "failed"}]
    /\ \A v \in Views : view[v].at \in 0..Len(paths) /\ expected[v] \in 0..Len(paths)

PathInit ==
    /\ paths = <<>>
    /\ lessonsOf = [m \in Makers |-> <<>>]
    /\ modulesOf = [m \in Makers |-> <<>>]
    /\ docsOf = [m \in Makers |-> <<>>]
    /\ stage = [p \in Makers \cup Views |-> "idle"]
    /\ proposal = [m \in Makers |-> <<>>]
    /\ view = [v \in Views |-> [at |-> 0, lessons |-> 0, modules |-> 0]]
    /\ expected = [v \in Views |-> 0]

-----------------------------------------------------------------------------
(* generate_learning_path.                                                 *)

Advance(p, from, to) ==
    /\ stage[p] = from
    /\ stage' = [stage EXCEPT ![p] = to]

\* The course, its professor or its lessons are missing, the goal is too short, or the
\* model rejects it (analyze_goal_and_timeline), or the planner's agent raises: nothing
\* has been stored.
Reject(r) ==
    /\ Advance(r, "idle", "failed")
    /\ UNCHANGED <<stored, proposal, view, expected>>

\* The course, its lessons and their texts are read; the models are called one after the
\* other without an await.
Answer(r) ==
    /\ Advance(r, "idle", "answered")
    /\ \E ls \in ListsUpTo(GeneratedLesson, MaxLessons) : proposal' = [proposal EXCEPT ![r] = ls]
    /\ UNCHANGED <<stored, view, expected>>

CreatePath(r) ==
    /\ Advance(r, "answered", "path")
    /\ paths' = Append(paths, r)
    /\ UNCHANGED <<lessonsOf, modulesOf, docsOf, proposal, view, expected>>

CreateLessons(r) ==
    /\ Advance(r, "path", "lessons")
    /\ Known(proposal[r])
    /\ lessonsOf' = [lessonsOf EXCEPT ![r] = proposal[r]]
    /\ UNCHANGED <<paths, modulesOf, docsOf, proposal, view, expected>>

\* A lesson that does not exist breaks the foreign key; an empty list makes an insert of
\* one row of defaults, which breaks a NOT NULL.  The path stays.
LessonsRaise(r) ==
    /\ Advance(r, "path", "failed")
    /\ ~Known(proposal[r])
    /\ UNCHANGED <<stored, proposal, view, expected>>

CreateModules(r) ==
    LET for == MadeFor(proposal[r])
    IN  /\ Advance(r, "lessons", "modules")
        /\ for # <<>>
        /\ Assignable(proposal[r])
        /\ modulesOf' = [modulesOf EXCEPT ![r] =
                [i \in DOMAIN for |-> [under |-> LessonFor(proposal[r], i), for |-> for[i]]]]
        /\ UNCHANGED <<paths, lessonsOf, docsOf, proposal, view, expected>>

\* More modules than the lessons were asked to have: recommend_lessons[current] is out of
\* range.  None at all: the insert of nothing.  Path and lessons stay.
ModulesRaise(r) ==
    /\ Advance(r, "lessons", "failed")
    /\ MadeFor(proposal[r]) = <<>> \/ ~Assignable(proposal[r])
    /\ UNCHANGED <<stored, proposal, view, expected>>

\* The reading material set aside with each module gets the module's id by position.
CreateDocuments(r) ==
    /\ Advance(r, "modules", "ok")
    /\ docsOf' = [docsOf EXCEPT ![r] = [i \in DOMAIN modulesOf[r] |-> [of |-> i, for |-> i]]]
    /\ UNCHANGED <<paths, lessonsOf, modulesOf, proposal, view, expected>>

\* An exception at an await, or a field that the answer lacks: what was committed stays.
GenerationFails(r) ==
    /\ stage[r] \in {"answered", "path", "lessons", "modules"}
    /\ stage' = [stage EXCEPT ![r] = "failed"]
    /\ UNCHANGED <<stored, proposal, view, expected>>

-----------------------------------------------------------------------------
(* invoke_lp_planner, in one transaction.                                  *)

\* The agent's last tool call carries the plan (without one, tool_calls[0] raises).
Plan(r) ==
    /\ Advance(r, "idle", "answered")
    /\ \E ls \in ListsUpTo(PlannedLesson, MaxLessons) : proposal' = [proposal EXCEPT ![r] = ls]
    /\ UNCHANGED <<stored, view, expected>>

StorePlan(r) ==
    LET ls  == proposal[r]
        for == MadeFor(ls)
    IN  /\ Advance(r, "answered", "ok")
        /\ Known(ls)
        /\ for # <<>>
        /\ paths' = Append(paths, r)
        /\ lessonsOf' = [lessonsOf EXCEPT ![r] = ls]
        /\ modulesOf' = [modulesOf EXCEPT ![r] =
                [i \in DOMAIN for |-> [under |-> RowFor(ls, for[i]), for |-> for[i]]]]
        /\ UNCHANGED <<docsOf, proposal, view, expected>>

\* Mutant: the path was committed before its lessons and modules.
RollBack_KeepPath(r) ==
    /\ Advance(r, "answered", "failed")
    /\ paths' = Append(paths, r)
    /\ UNCHANGED <<lessonsOf, modulesOf, docsOf, proposal, view, expected>>

\* Any of the three inserts, or the commit, raises.
RollBack(r) ==
    /\ Advance(r, "answered", "failed")
    /\ UNCHANGED <<stored, proposal, view, expected>>

-----------------------------------------------------------------------------
(* get_recommended_lessons.                                                *)

NoPath(v) ==
    /\ Advance(v, "idle", "failed")
    /\ paths = <<>>
    /\ UNCHANGED <<stored, proposal, view, expected>>

\* Of all the paths, ordered by version, descending, the first.
FindNewest(v) ==
    /\ Advance(v, "idle", "newest")
    /\ paths # <<>>
    /\ view' = [view EXCEPT ![v].at = Len(paths)]
    /\ expected' = [expected EXCEPT ![v] = Len(paths)]
    /\ UNCHANGED <<stored, proposal>>

\* Then that path by its version, with its lessons ...
ReadLessons(v) ==
    /\ Advance(v, "newest", "read")
    /\ view' = [view EXCEPT ![v].lessons = Len(lessonsOf[paths[view[v].at]])]
    /\ UNCHANGED <<stored, proposal, expected>>

\* ... and, when asked to expand them, the modules of the lessons found.
ReadModules(v) ==
    /\ Advance(v, "read", "ok")
    /\ view' = [view EXCEPT ![v].modules =
                    IF view[v].lessons = 0 THEN 0 ELSE Len(modulesOf[paths[view[v].at]])]
    /\ UNCHANGED <<stored, proposal, expected>>

PathNext ==
    \/ \E r \in Makers : Reject(r)
    \/ \E r \in Generations :
         \/ Answer(r) \/ CreatePath(r)
         \/ CreateLessons(r) \/ LessonsRaise(r)
         \/ CreateModules(r) \/ ModulesRaise(r)
         \/ CreateDocuments(r) \/ GenerationFails(r)
    \/ \E r \in Plans : Plan(r) \/ StorePlan(r) \/ RollBack(r)
    \/ \E v \in Views : NoPath(v) \/ FindNewest(v) \/ ReadLessons(v) \/ ReadModules(v)

PathSpec == PathInit /\ [][PathNext]_pathVars

-----------------------------------------------------------------------------
(* Properties.                                                             *)

AnsweredAsAsked(m) ==
    IF m \in Generations
    THEN \A k \in DOMAIN proposal[m] : proposal[m][k].made = proposal[m][k].asked
    ELSE \A j, k \in DOMAIN proposal[m] : proposal[m][j].lesson = proposal[m][k].lesson => j = k

InPlace(m) == \A i \in DOMAIN modulesOf[m] : modulesOf[m][i].under = modulesOf[m][i].for

\* Each module is under the lesson it was made for: when the model gave each lesson the
\* modules it was asked for, and when a plan has no lesson twice.
ModulesUnderTheirLesson == \A m \in Makers : AnsweredAsAsked(m) => InPlace(m)

\* A path that its maker reported as generated is complete: the lessons of the answer, a
\* module for each one made, and, but for a plan, the document made for each module with it.
ReportedPathsAreWhole ==
    \A m \in Makers :
        stage[m] = "ok" =>
            /\ \E i \in DOMAIN paths : paths[i] = m
            /\ lessonsOf[m] = proposal[m]
            /\ \A k \in DOMAIN proposal[m] :
                 Cardinality({i \in DOMAIN modulesOf[m] : modulesOf[m][i].for = k}) = proposal[m][k].made
            /\ m \in Generations =>
                 \A i \in DOMAIN modulesOf[m] : \E j \in DOMAIN docsOf[m] : docsOf[m][j] = [of |-> i, for |-> i]

\* The student's current path is only ever without lessons or modules because of a
\* generation that is running or has failed; a plan is never seen in part.
CurrentPathIsWhole ==
    paths # <<>> =>
        LET m == paths[Len(paths)]
        IN  \/ m \in Generations /\ stage[m] \in {"path", "lessons", "failed"}
            \/ lessonsOf[m] # <<>> /\ modulesOf[m] # <<>>

\* A view that was answered shows a path no older than any that was stored when it began,
\* and shows modules only under lessons.
ViewsAreRecent ==
    \A v \in Views :
        stage[v] = "ok" =>
            /\ view[v].at >= expected[v]
            /\ view[v].modules > 0 => view[v].lessons > 0

\* What is reported and shown of a path is whole although a generation commits it in four
\* parts: the path of an answered request, and the current one unless its maker runs or failed.
PathsAreWhole == ReportedPathsAreWhole /\ CurrentPathIsWhole /\ ViewsAreRecent

=============================================================================
