------------------------ MODULE CourseAdministration ------------------------
(***************************************************************************)
(* Courses, who is enrolled in them, and their images: the administrators' *)
(* and professors' handlers of machine/api/v1/courses.py and professor.py. *)
(*                                                                         *)
(* Requests check first and write later, and a creation commits its        *)
(* courses before the enrolments of each.  What depends on a course in the *)
(* database (learning paths, exercises, feedback) forbids its removal; its *)
(* enrolments go with it.                                                  *)
(***************************************************************************)
EXTENDS Integers, FiniteSetsExt, SequencesExt

CONSTANTS
    Creations,      \* the calls of create_course
    Additions,      \* the calls of add_students_to_course
    Updates,        \* the calls of update_course
    Deletions,      \* the calls of delete_course
    PathDeletions,  \* the calls of delete_learning_path
    Imagings,       \* the calls of update_course_image
    Keys,           \* course numbers with semester and class name
    Students,       \* the registered students
    Strangers,      \* student numbers that nobody is registered under
    Professors,     \* the registered professors
    Nobody,         \* a professor number that nobody is registered under
    Seeds,          \* courses that may exist in the beginning
    MaxBatch        \* bound: how many courses a request creates

ASSUME BatchAssumption == MaxBatch \in Nat \ {0}

\* A request is one call of one handler, and what it creates is not there before.
ASSUME KindsAssumption ==
    /\ Creations \cap (Additions \cup Updates \cup Deletions \cup PathDeletions \cup Imagings) = {}
    /\ Additions \cap (Updates \cup Deletions \cup PathDeletions \cup Imagings) = {}
    /\ Imagings \cap (Updates \cup Deletions \cup PathDeletions) = {}
    /\ Creations \cap Seeds = {}

Requests == Creations \cup Additions \cup Updates \cup Deletions \cup PathDeletions \cup Imagings

VARIABLES
    courses,    \* the rows: what created it, in which position, its key and its professor
    enrolled,   \* the pairs of a course's identity and a student
    depended,   \* the identities of courses that paths, exercises or feedback refer to
    image,      \* per seed, the image key in its row
    bucket,     \* the image keys that S3 holds
    pc,
    work,       \* per request, what it asks for and has read
    removed,    \* history: the identities of deleted courses
    clashing    \* history: the creations that another's insert, or an update, overtook

vars == <<courses, enrolled, depended, image, bucket, pc, work, removed, clashing>>

Id(c) == <<c.by, c.pos>>
Ids   == {Id(c) : c \in courses}
Asked == [key : Keys, professor : Professors \cup {Nobody}, students : SUBSET (Students \cup Strangers)]
SeqsFromOne(S, n) == UNION {[1..k -> S] : k \in 1..n}
NoImage == "none"

ASSUME ImageAssumption == NoImage \notin Imagings

TypeOK ==
    /\ \A c \in courses :
         /\ c.by \in Creations \cup Seeds /\ c.pos \in 1..MaxBatch
         /\ c.key \in Keys /\ c.professor \in Professors
    /\ \A e \in enrolled : e[2] \in Students
    /\ \A s \in Seeds : image[s] \in {NoImage} \cup Imagings
    /\ bucket \subseteq Imagings
    /\ pc \in [Requests -> {"idle", "checked", "inserted", "put", "ok", "unchanged", "failed", "conflict"}]
    /\ removed \cap Ids = {}

Init ==
    /\ \E there \in SUBSET Seeds : \E k \in [there -> Keys], p \in Professors :
         courses = {[by |-> s, pos |-> 1, key |-> k[s], professor |-> p] : s \in there}
    /\ enrolled \in SUBSET (Ids \X Students)
    /\ depended = {}
    /\ image = [s \in Seeds |-> NoImage]
    /\ bucket = {}
    /\ pc = [r \in Requests |-> "idle"]
    /\ work = [r \in Requests |-> <<>>]
    /\ removed = {}
    /\ clashing = {}

Goto(r, from, to) ==
    /\ pc[r] = from
    /\ pc' = [pc EXCEPT ![r] = to]

\* Whoever has checked the keys and not yet inserted has checked too early now.
Overtake(r) == clashing' = clashing \cup {q \in Creations \ {r} : pc[q] = "checked"}

images == <<image, bucket>>

\* An error ends the request; what it committed stays.
Fail(r) ==
    /\ pc[r] \in {"idle", "checked", "inserted", "put"}
    /\ pc' = [pc EXCEPT ![r] = "failed"]
    /\ UNCHANGED <<courses, enrolled, depended, image, bucket, work, removed, clashing>>

-----------------------------------------------------------------------------
(* create_course.                                                          *)

Exists(k) == \E c \in courses : c.key = k

\* Mutant: the keys are not looked up.
Check_Unchecked(r) ==
    /\ Goto(r, "idle", "checked")
    /\ \E batch \in SeqsFromOne(Asked, MaxBatch) :
         /\ \A i \in DOMAIN batch : batch[i].professor # Nobody
         /\ work' = [work EXCEPT ![r] = [asked |-> batch, next |-> 1,
                        professors |-> [i \in DOMAIN batch |-> batch[i].professor]]]
    /\ UNCHANGED <<courses, enrolled, depended, images, removed, clashing>>

\* Each key of the request is looked up in the database.  Of several courses each gets the
\* professor asked for; of a single one the lookup passes its condition in the place of the
\* fields, where it counts as false: the first professor of the table is taken.
Check(r) ==
    /\ Goto(r, "idle", "checked")
    /\ \E batch \in SeqsFromOne(Asked, MaxBatch), first \in Professors :
         /\ \A i \in DOMAIN batch : ~Exists(batch[i].key)
         /\ Len(batch) > 1 => \A i \in DOMAIN batch : batch[i].professor # Nobody
         /\ work' = [work EXCEPT ![r] =
                [asked |-> batch, next |-> 1,
                 professors |-> IF Len(batch) = 1 THEN <<first>>
                                ELSE [i \in DOMAIN batch |-> batch[i].professor]]]
    /\ UNCHANGED <<courses, enrolled, depended, images, removed, clashing>>

\* All courses of the request in one commit.
InsertCourses(r) ==
    /\ Goto(r, "checked", "inserted")
    /\ courses' = courses \cup {[by |-> r, pos |-> i, key |-> work[r].asked[i].key,
                                 professor |-> work[r].professors[i]] : i \in DOMAIN work[r].asked}
    /\ Overtake(r)
    /\ UNCHANGED <<enrolled, depended, images, work, removed>>

\* Mutant: the request ends with the first course.
EnrolNext_First(r) ==
    /\ Goto(r, "inserted", "ok")
    /\ enrolled' = enrolled \cup ({<<r, 1>>} \X (work[r].asked[1].students \cap Students))
    /\ UNCHANGED <<courses, depended, images, work, removed, clashing>>

\* The registered students of the next course, in a commit of their own.  The course may
\* have been deleted meanwhile, and an empty list inserts one row of defaults: both raise.
EnrolNext(r) ==
    LET i   == work[r].next
        who == work[r].asked[i].students \cap Students
    IN  /\ pc[r] = "inserted"
        /\ who # {} /\ <<r, i>> \in Ids
        /\ enrolled' = enrolled \cup ({<<r, i>>} \X who)
        /\ work' = [work EXCEPT ![r].next = i + 1]
        /\ pc' = [pc EXCEPT ![r] = IF i = Len(work[r].asked) THEN "ok" ELSE "inserted"]
        /\ UNCHANGED <<courses, depended, images, removed, clashing>>

EnrolRaises(r) ==
    LET i == work[r].next
    IN  /\ Goto(r, "inserted", "failed")
        /\ work[r].asked[i].students \cap Students = {} \/ <<r, i>> \notin Ids
        /\ UNCHANGED <<courses, enrolled, depended, images, work, removed, clashing>>

-----------------------------------------------------------------------------
(* add_students_to_course.                                                 *)

EnrolledIn(id) == {s \in Students : <<id, s>> \in enrolled}

\* The course, the registered students asked for and those enrolled already are read.
ReadEnrolled(a) ==
    /\ pc[a] = "idle"
    /\ \E id \in Ids, asked \in SUBSET (Students \cup Strangers) :
         LET new == (asked \cap Students) \ EnrolledIn(id)
         IN  /\ asked \cap Students # {}
             /\ work' = [work EXCEPT ![a] = [course |-> id, asked |-> asked, new |-> new]]
             /\ pc' = [pc EXCEPT ![a] = IF new = {} THEN "unchanged" ELSE "checked"]
    /\ UNCHANGED <<courses, enrolled, depended, images, removed, clashing>>

\* Mutant: numbers that nobody is registered under are enrolled, too.
InsertMissing_Anyone(a) ==
    /\ Goto(a, "checked", "ok")
    /\ work[a].course \in Ids
    /\ enrolled' = enrolled \cup ({work[a].course} \X work[a].asked)
    /\ UNCHANGED <<courses, depended, images, work, removed, clashing>>

\* Those found to be missing are inserted in one commit ...
InsertMissing(a) ==
    /\ Goto(a, "checked", "ok")
    /\ work[a].course \in Ids
    /\ work[a].new \cap EnrolledIn(work[a].course) = {}
    /\ enrolled' = enrolled \cup ({work[a].course} \X work[a].new)
    /\ UNCHANGED <<courses, depended, images, work, removed, clashing>>

\* ... which the primary key refuses, for all of them, when one was enrolled meanwhile, and
\* the foreign key when the course is gone.
InsertConflict(a) ==
    /\ Goto(a, "checked", "conflict")
    /\ work[a].course \notin Ids \/ work[a].new \cap EnrolledIn(work[a].course) # {}
    /\ UNCHANGED <<courses, enrolled, depended, images, work, removed, clashing>>

-----------------------------------------------------------------------------
(* update_course, delete_course, delete_learning_path.                     *)

\* Any columns are written, the key among them, without looking for a course that has it.
UpdateCourse(u) ==
    /\ Goto(u, "idle", "ok")
    /\ \E c \in courses, k \in Keys, p \in Professors :
         courses' = (courses \ {c}) \cup {[c EXCEPT !.key = k, !.professor = p]}
    /\ clashing' = clashing \cup Creations
    /\ UNCHANGED <<enrolled, depended, images, work, removed>>

\* A student generates a path, or an exercise or feedback is stored.
Depend ==
    /\ \E id \in Ids \ depended : depended' = depended \cup {id}
    /\ UNCHANGED <<courses, enrolled, images, pc, work, removed, clashing>>

\* Course and enrolments in one transaction.
DeleteCourse(d) ==
    /\ Goto(d, "idle", "ok")
    /\ \E c \in courses :
         /\ Id(c) \notin depended
         /\ courses' = courses \ {c}
         /\ enrolled' = {e \in enrolled : e[1] # Id(c)}
         /\ removed' = removed \cup {Id(c)}
         /\ UNCHANGED <<depended, images, work, clashing>>

\* A foreign key without ON DELETE refuses it, and nothing is deleted.
DeleteRefused(d) ==
    /\ Goto(d, "idle", "conflict")
    /\ \E c \in courses : Id(c) \in depended
    /\ UNCHANGED <<courses, enrolled, depended, images, work, removed, clashing>>

\* A path is deleted through the session, which by LearningPaths.course with cascade="all"
\* deletes the course with it.  The rows that refer to the course would lose it: an
\* enrolment's course is in its primary key, so the flush raises.  (A path whose course has
\* no enrolments is not modelled.)
DeletePath(d) ==
    /\ Goto(d, "idle", "conflict")
    /\ \E id \in depended : EnrolledIn(id) # {}
    /\ UNCHANGED <<courses, enrolled, depended, images, work, removed, clashing>>

-----------------------------------------------------------------------------
(* update_course_image.                                                    *)

\* The row is read, the image it names is deleted from S3, the new one is put.
PutImage(m) ==
    /\ Goto(m, "idle", "put")
    /\ \E s \in {s \in Seeds : <<s, 1>> \in Ids} :
         /\ work' = [work EXCEPT ![m] = [course |-> s, old |-> image[s]]]
         /\ bucket' = (bucket \ {image[s]}) \cup {m}
    /\ UNCHANGED <<courses, enrolled, depended, image, removed, clashing>>

\* The old image is deleted and the upload raises.
PutFails(m) ==
    /\ Goto(m, "idle", "failed")
    /\ \E s \in {s \in Seeds : <<s, 1>> \in Ids} : bucket' = bucket \ {image[s]}
    /\ UNCHANGED <<courses, enrolled, depended, image, work, removed, clashing>>

StoreImage(m) ==
    /\ Goto(m, "put", "ok")
    /\ image' = [image EXCEPT ![work[m].course] = m]
    /\ UNCHANGED <<courses, enrolled, depended, bucket, work, removed, clashing>>

Next ==
    \/ \E r \in Requests : Fail(r)
    \/ \E r \in Creations : Check(r) \/ InsertCourses(r) \/ EnrolNext(r) \/ EnrolRaises(r)
    \/ \E a \in Additions : ReadEnrolled(a) \/ InsertMissing(a) \/ InsertConflict(a)
    \/ \E u \in Updates : UpdateCourse(u)
    \/ Depend
    \/ \E d \in Deletions : DeleteCourse(d) \/ DeleteRefused(d)
    \/ \E d \in PathDeletions : DeletePath(d)
    \/ \E m \in Imagings : PutImage(m) \/ PutFails(m) \/ StoreImage(m)

Spec == Init /\ [][Next]_vars

-----------------------------------------------------------------------------
(* Properties.                                                             *)

\* A creation that was answered made every course it was asked for, with every registered
\* student, except for courses deleted since; a course it made without its students is
\* that of a creation that runs or failed.
AnsweredCreationsAreWhole ==
    \A r \in Creations :
        /\ pc[r] = "ok" =>
             \A i \in DOMAIN work[r].asked :
                 <<r, i>> \in Ids => work[r].asked[i].students \cap Students \subseteq EnrolledIn(<<r, i>>)
        /\ pc[r] = "ok" => \A i \in DOMAIN work[r].asked : <<r, i>> \in Ids \cup removed
        /\ \A c \in courses : c.by = r /\ EnrolledIn(Id(c)) = {} => pc[r] \in {"inserted", "failed"}

\* Two courses have the same number, semester and class only if one request created both,
\* or an insert or an update came between the check and the insert of one of them.
DuplicatesComeFromOvertaking ==
    \A c, d \in courses :
        c # d /\ c.key = d.key /\ c.by \in Creations /\ d.by \in Creations \cup Seeds =>
            c.by = d.by \/ {c.by, d.by} \cap clashing # {}

\* Once an addition was answered every registered student it named is enrolled, whoever
\* else adds students, unless the course was deleted.
EnrolledAsAnswered ==
    \A a \in Additions :
        pc[a] \in {"ok", "unchanged"} =>
            \/ work[a].course \in removed
            \/ work[a].asked \cap Students \subseteq EnrolledIn(work[a].course)

\* The image that a course names is in S3, unless an upload that deleted it runs or failed.
ImageIsStored ==
    \A s \in Seeds :
        image[s] \in {NoImage} \cup bucket \/ \E m \in Imagings : pc[m] \in {"put", "failed"}

\* What the administrator has been told stays: the courses that were created, the students
\* that were enrolled and the image that was put.
AnswersAreKept == AnsweredCreationsAreWhole /\ EnrolledAsAnswered /\ ImageIsStored

=============================================================================
