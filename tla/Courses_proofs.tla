---------------------------- MODULE Courses_proofs ----------------------------
(***************************************************************************)
(* Proofs about CourseAdministration, Dashboards and CourseListings, for   *)
(* any sets of requests, students and courses, any length of the batches,  *)
(* any exercises and dates, and any length of the lists and pages.         *)
(***************************************************************************)
EXTENDS MCCourses, FiniteSetTheorems, SequenceTheorems, TLAPS

-----------------------------------------------------------------------------
(* The inductive invariant of the administration.                          *)

Rows == [by : Creations \cup Seeds, pos : 1..MaxBatch, key : Keys, professor : Professors]
Places == {"idle", "checked", "inserted", "put", "ok", "unchanged", "failed", "conflict"}

ShapeInv ==
    /\ courses \subseteq Rows
    /\ \A c, d \in courses : Id(c) = Id(d) => c = d
    /\ removed \cap Ids = {}
    /\ \A e \in enrolled : e[2] \in Students
    /\ image \in [Seeds -> {NoImage} \cup Imagings]
    /\ bucket \subseteq Imagings
    /\ pc \in [Requests -> Places]
    /\ DOMAIN work = Requests

\* The registered students that a creation was asked to enrol in its i-th course.
Named(r, i) == work[r].asked[i].students \cap Students

CreationWork == [asked : Seq(Asked), next : Nat, professors : Seq(Professors)]

\* What a creation holds while it is under way.
WorkOf(r) ==
    /\ work[r] \in CreationWork
    /\ Len(work[r].asked) \in 1..MaxBatch /\ Len(work[r].professors) = Len(work[r].asked)
    /\ pc[r] = "checked" => work[r].next = 1
    /\ pc[r] = "inserted" => work[r].next \in 1..Len(work[r].asked)

\* Its courses have been made, and of those before the next all students were enrolled.
MadeOf(r) ==
    \A i \in DOMAIN work[r].asked :
        /\ <<r, i>> \in Ids \cup removed
        /\ pc[r] = "ok" \/ i < work[r].next =>
             Named(r, i) # {} /\ (<<r, i>> \in Ids => Named(r, i) \subseteq EnrolledIn(<<r, i>>))

CreationInv(r) ==
    /\ pc[r] \in {"idle", "checked", "inserted", "ok", "failed"}
    /\ pc[r] \in {"checked", "inserted", "ok"} => WorkOf(r)
    /\ pc[r] \in {"idle", "checked"} => \A id \in Ids \cup removed : id[1] # r
    /\ pc[r] \in {"inserted", "ok"} =>
         MadeOf(r) /\ \A id \in Ids : id[1] = r => id[2] \in DOMAIN work[r].asked
    /\ pc[r] = "checked" /\ r \notin clashing =>
         \A i \in DOMAIN work[r].asked : ~ Exists(work[r].asked[i].key)

\* What an addition has seen enrolled stays so while the course does.
AdditionInv(a) ==
    /\ pc[a] \in {"idle", "checked", "ok", "unchanged", "conflict", "failed"}
    /\ pc[a] = "checked" => work[a].new \subseteq Students
    /\ pc[a] \in {"checked", "ok", "unchanged"} =>
         \/ work[a].course \in removed
         \/ /\ work[a].course \in Ids
            /\ \A s \in work[a].asked \cap Students :
                 s \in EnrolledIn(work[a].course) \/ (pc[a] = "checked" /\ s \in work[a].new)

\* An image is named by the course that it was put for, after it was put, and until then
\* nothing deletes it.
ImagingInv(m) ==
    /\ pc[m] = "put" => m \in bucket /\ work[m].course \in Seeds
    /\ \A s \in Seeds : image[s] = m => pc[m] = "ok" /\ work[m].course = s

\* A deleted image is named by the course of an upload that runs, or one failed.
ImageInv ==
    \A s \in Seeds :
        \/ image[s] \in {NoImage} \cup bucket
        \/ \E m \in Imagings : pc[m] = "failed" \/ (pc[m] = "put" /\ work[m].course = s)

RequestsInv ==
    /\ \A r \in Creations : CreationInv(r)
    /\ \A a \in Additions : AdditionInv(a)
    /\ \A m \in Imagings : ImagingInv(m)

IInv == ShapeInv /\ RequestsInv /\ ImageInv /\ DuplicatesComeFromOvertaking

-----------------------------------------------------------------------------
(* What the invariant says, and what others' steps leave of it.            *)

\* Rows and their identities.
LEMMA IdsOfRows ==
    ASSUME NEW c \in courses
    PROVE  Id(c) \in Ids /\ Id(c)[1] = c.by /\ Id(c)[2] = c.pos
BY DEF Ids, Id

LEMMA BatchIsSeq ==
    ASSUME NEW S, NEW n \in Nat, NEW batch \in SeqsFromOne(S, n)
    PROVE  batch \in Seq(S) /\ Len(batch) \in 1..n /\ DOMAIN batch = 1..Len(batch)
<1>1. PICK k \in 1..n : batch \in [1..k -> S]
  BY DEF SeqsFromOne
<1>2. batch \in Seq(S)
  BY <1>1, SeqDef
<1>3. QED
  BY <1>1, <1>2

LEMMA InitInv == Init => IInv
<1> SUFFICES ASSUME Init PROVE IInv
  OBVIOUS
<1>1. ShapeInv
  <2>1. PICK there \in SUBSET Seeds : \E k \in [there -> Keys], p \in Professors :
          courses = {[by |-> s, pos |-> 1, key |-> k[s], professor |-> p] : s \in there}
    BY DEF Init
  <2>2. PICK k \in [there -> Keys], p \in Professors :
          courses = {[by |-> s, pos |-> 1, key |-> k[s], professor |-> p] : s \in there}
    BY <2>1
  <2>3. courses \subseteq Rows
    BY <2>2, BatchAssumption DEF Rows
  <2>4. \A c, d \in courses : Id(c) = Id(d) => c = d
    BY <2>2 DEF Id
  <2>5. QED
    BY <2>3, <2>4 DEF Init, ShapeInv, Places
<1>2. \A c \in courses : c.by \in Seeds
  BY DEF Init
<1>3. RequestsInv
  <2>1. \A id \in Ids \cup removed : id[1] \in Seeds
    BY <1>2 DEF Init, Ids, Id
  <2>2. \A r \in Creations : CreationInv(r)
    BY <2>1, KindsAssumption DEF Init, CreationInv, Requests
  <2>3. \A a \in Additions : AdditionInv(a)
    BY DEF Init, AdditionInv, Requests
  <2>4. \A m \in Imagings : ImagingInv(m)
    BY ImageAssumption DEF Init, ImagingInv, Requests
  <2>5. QED
    BY <2>2, <2>3, <2>4 DEF RequestsInv
<1>4. ImageInv
  BY DEF Init, ImageInv
<1>5. DuplicatesComeFromOvertaking
  BY <1>2, KindsAssumption DEF DuplicatesComeFromOvertaking
<1>6. QED
  BY <1>1, <1>3, <1>4, <1>5 DEF IInv

\* A request's step is its own.
LEMMA Moved ==
    ASSUME ShapeInv, NEW r \in Requests, NEW to \in Places, pc' = [pc EXCEPT ![r] = to]
    PROVE  /\ pc' \in [Requests -> Places] /\ pc'[r] = to
           /\ \A q \in Requests \ {r} : pc'[q] = pc[q]
BY DEF ShapeInv

\* What others do leaves a creation as it is: its courses are made by itself, or deleted,
\* and enrolments go only with their course.
LEMMA CreationKeeps ==
    ASSUME NEW q \in Creations, CreationInv(q), pc'[q] = pc[q], work'[q] = work[q],
           Ids \cup removed \subseteq Ids' \cup removed',
           \A id \in Ids' : id[1] = q => id \in Ids,
           removed' \subseteq Ids \cup removed,
           \A id \in Ids' : EnrolledIn(id) \subseteq EnrolledIn(id)',
           clashing \subseteq clashing',
           pc[q] = "checked" /\ q \notin clashing' => \A k : Exists(k)' => Exists(k)
    PROVE  CreationInv(q)'
<1>1. WorkOf(q) => WorkOf(q)'
  BY DEF WorkOf
<1>2. MadeOf(q) => MadeOf(q)'
  BY DEF MadeOf, Named
<1>3. QED
  BY <1>1, <1>2 DEF CreationInv

LEMMA AdditionKeeps ==
    ASSUME NEW a \in Additions, AdditionInv(a), pc'[a] = pc[a], work'[a] = work[a],
           removed \subseteq removed', Ids \subseteq Ids' \cup removed',
           \A id \in Ids' : EnrolledIn(id) \subseteq EnrolledIn(id)'
    PROVE  AdditionInv(a)'
BY DEF AdditionInv

\* A step of one request that at most enrols more.
LEMMA QuietStep ==
    ASSUME IInv, NEW r \in Requests,
           courses' = courses, removed' = removed, clashing' = clashing, images' = images,
           enrolled \subseteq enrolled', \A e \in enrolled' : e[2] \in Students,
           pc' \in [Requests -> Places], DOMAIN work' = Requests,
           \A q \in Requests \ {r} : pc'[q] = pc[q] /\ work'[q] = work[q],
           r \in Creations => CreationInv(r)', r \in Additions => AdditionInv(r)',
           r \in Imagings => pc[r] # "ok" /\ pc'[r] = "failed"
    PROVE  IInv'
<1> USE DEF IInv
<1>1. Ids' = Ids /\ (\A k : Exists(k)' <=> Exists(k)) /\ image' = image /\ bucket' = bucket
  BY DEF Ids, Exists, images
<1>2. \A id : EnrolledIn(id) \subseteq EnrolledIn(id)'
  BY DEF EnrolledIn
<1>3. ShapeInv'
  BY <1>1 DEF ShapeInv
<1>4. ASSUME NEW q \in Creations PROVE CreationInv(q)'
  <2>1. CASE q = r
    BY <2>1
  <2>2. CASE q # r
    <3>1. pc'[q] = pc[q] /\ work'[q] = work[q]
      BY <2>2 DEF Requests
    <3>2. QED
      BY <1>1, <1>2, <3>1, CreationKeeps DEF RequestsInv
  <2>3. QED
    BY <2>1, <2>2
<1>5. ASSUME NEW a \in Additions PROVE AdditionInv(a)'
  <2>1. CASE a = r
    BY <2>1
  <2>2. CASE a # r
    <3>1. pc'[a] = pc[a] /\ work'[a] = work[a]
      BY <2>2 DEF Requests
    <3>2. QED
      BY <1>1, <1>2, <3>1, AdditionKeeps DEF RequestsInv
  <2>3. QED
    BY <2>1, <2>2
<1>6. \A m \in Imagings : ImagingInv(m)'
  BY <1>1 DEF RequestsInv, ImagingInv, Requests
<1>7. ImageInv'
  BY <1>1 DEF ImageInv, Requests
<1>8. DuplicatesComeFromOvertaking'
  BY <1>1 DEF DuplicatesComeFromOvertaking
<1>9. QED
  BY <1>3, <1>4, <1>5, <1>6, <1>7, <1>8 DEF RequestsInv

-----------------------------------------------------------------------------
(* The steps that change no row of a course.                               *)

LEMMA FailInv ==
    ASSUME IInv, NEW r \in Requests, Fail(r)
    PROVE  IInv'
<1> USE DEF IInv
<1>1. /\ courses' = courses /\ removed' = removed /\ clashing' = clashing /\ images' = images
      /\ enrolled' = enrolled /\ work' = work /\ Ids' = Ids
      /\ \A e \in enrolled' : e[2] \in Students
      /\ DOMAIN work' = Requests
  BY DEF Fail, images, Ids, ShapeInv
<1>2. /\ pc' \in [Requests -> Places] /\ pc'[r] = "failed" /\ pc[r] # "ok"
      /\ \A q \in Requests \ {r} : pc'[q] = pc[q]
  BY Moved DEF Fail, Places
<1>3. r \in Creations => CreationInv(r)'
  BY <1>1, <1>2 DEF CreationInv
<1>4. r \in Additions => AdditionInv(r)'
  BY <1>2 DEF AdditionInv
<1>5. QED
  BY <1>1, <1>2, <1>3, <1>4, QuietStep

\* A creation that is checked has no course, and no other has its keys.
LEMMA CheckInv ==
    ASSUME IInv, NEW r \in Creations, Check(r)
    PROVE  IInv'
<1> USE DEF IInv
<1>1. r \in Requests /\ r \notin Additions /\ r \notin Imagings
  BY KindsAssumption DEF Requests
<1>2. /\ courses' = courses /\ removed' = removed /\ clashing' = clashing /\ images' = images
      /\ enrolled' = enrolled /\ Ids' = Ids
      /\ \A e \in enrolled' : e[2] \in Students
  BY DEF Check, images, Ids, ShapeInv
<1>3. /\ pc[r] = "idle" /\ pc' \in [Requests -> Places] /\ pc'[r] = "checked"
      /\ \A q \in Requests \ {r} : pc'[q] = pc[q]
  BY <1>1, Moved DEF Check, Goto, Places
<1>4. PICK batch \in SeqsFromOne(Asked, MaxBatch), first \in Professors :
        /\ \A i \in DOMAIN batch : ~Exists(batch[i].key)
        /\ Len(batch) > 1 => \A i \in DOMAIN batch : batch[i].professor # Nobody
        /\ work' = [work EXCEPT ![r] =
               [asked |-> batch, next |-> 1,
                professors |-> IF Len(batch) = 1 THEN <<first>>
                               ELSE [i \in DOMAIN batch |-> batch[i].professor]]]
  BY DEF Check
<1>5. batch \in Seq(Asked) /\ Len(batch) \in 1..MaxBatch /\ DOMAIN batch = 1..Len(batch)
  BY BatchIsSeq, BatchAssumption
<1> DEFINE named == IF Len(batch) = 1 THEN <<first>> ELSE [i \in DOMAIN batch |-> batch[i].professor]
<1>6. named \in Seq(Professors) /\ Len(named) = Len(batch)
  <2>1. CASE Len(batch) = 1
    BY <2>1
  <2>2. CASE Len(batch) # 1
    <3>1. Len(batch) > 1
      BY <1>5, <2>2
    <3>2. \A i \in DOMAIN batch : batch[i] \in Asked
      BY <1>5
    <3>3. \A i \in DOMAIN batch : batch[i].professor \in Professors
      BY <1>4, <3>1, <3>2 DEF Asked
    <3>4. named = [i \in 1..Len(batch) |-> batch[i].professor]
      BY <1>5, <2>2
    <3>5. named \in [1..Len(batch) -> Professors]
      BY <1>5, <3>3, <3>4
    <3>6. named \in Seq(Professors)
      BY <1>5, <3>5, SeqDef
    <3>7. QED
      BY <1>5, <3>5, <3>6
  <2>3. QED
    BY <2>1, <2>2
<1> HIDE DEF named
<1>7. /\ work'[r] = [asked |-> batch, next |-> 1, professors |-> named]
      /\ \A q \in Requests \ {r} : work'[q] = work[q]
      /\ DOMAIN work' = Requests
  BY <1>1, <1>4 DEF ShapeInv, named
<1>8. CreationInv(r)'
  <2>1. WorkOf(r)'
    BY <1>5, <1>6, <1>7 DEF WorkOf, CreationWork
  <2>2. \A i \in DOMAIN batch : ~ Exists(batch[i].key)'
    BY <1>2, <1>4 DEF Exists
  <2>3. \A id \in Ids \cup removed : id[1] # r
    BY <1>3 DEF RequestsInv, CreationInv
  <2>4. QED
    BY <1>2, <1>3, <1>7, <2>1, <2>2, <2>3 DEF CreationInv
<1>9. QED
  BY <1>1, <1>2, <1>3, <1>7, <1>8, QuietStep

\* The next course has its students, and they stay.
LEMMA EnrolNextInv ==
    ASSUME IInv, NEW r \in Creations, EnrolNext(r)
    PROVE  IInv'
<1> USE DEF IInv
<1> DEFINE i == work[r].next
<1>1. r \in Requests /\ r \notin Additions /\ r \notin Imagings
  BY KindsAssumption DEF Requests
<1>2. /\ courses' = courses /\ removed' = removed /\ clashing' = clashing /\ images' = images
      /\ Ids' = Ids /\ pc[r] = "inserted" /\ Named(r, i) # {}
      /\ enrolled' = enrolled \cup ({<<r, i>>} \X Named(r, i))
      /\ work' = [work EXCEPT ![r] = [work[r] EXCEPT !.next = i + 1]]
      /\ pc' = [pc EXCEPT ![r] = IF i = Len(work[r].asked) THEN "ok" ELSE "inserted"]
  BY DEF EnrolNext, images, Ids, Named
<1>3. /\ WorkOf(r) /\ MadeOf(r) /\ i \in 1..Len(work[r].asked)
      /\ \A id \in Ids : id[1] = r => id[2] \in DOMAIN work[r].asked
  BY <1>2 DEF RequestsInv, CreationInv, WorkOf
<1>4. enrolled \subseteq enrolled' /\ \A e \in enrolled' : e[2] \in Students
  BY <1>2 DEF ShapeInv, Named
<1>5. /\ pc' \in [Requests -> Places]
      /\ pc'[r] = IF i = Len(work[r].asked) THEN "ok" ELSE "inserted"
      /\ \A q \in Requests \ {r} : pc'[q] = pc[q]
  BY <1>1, <1>2 DEF ShapeInv, Places
<1>6. /\ work'[r] \in CreationWork /\ work'[r].asked = work[r].asked
      /\ work'[r].next = i + 1 /\ work'[r].professors = work[r].professors
      /\ \A q \in Requests \ {r} : work'[q] = work[q]
      /\ DOMAIN work' = Requests
  BY <1>1, <1>2, <1>3, SMTT(30) DEF ShapeInv, WorkOf, CreationWork
<1> HIDE DEF i
<1>7. WorkOf(r)'
  <2>1. pc'[r] # "checked" /\ (pc'[r] = "inserted" => i # Len(work[r].asked))
    BY <1>5
  <2>2. QED
    BY <1>3, <1>6, <2>1 DEF WorkOf
<1>8. MadeOf(r)'
  <2>1. ASSUME NEW j \in DOMAIN work[r].asked, pc'[r] = "ok" \/ j < i + 1
        PROVE  Named(r, j) # {} /\ (<<r, j>> \in Ids => Named(r, j) \subseteq EnrolledIn(<<r, j>>)')
    <3>1. CASE j < i
      <4>1. Named(r, j) # {} /\ (<<r, j>> \in Ids => Named(r, j) \subseteq EnrolledIn(<<r, j>>))
        BY <1>3, <3>1 DEF MadeOf, i
      <4>2. QED
        BY <1>4, <4>1 DEF EnrolledIn
    <3>2. CASE j = i
      BY <1>2, <3>2 DEF EnrolledIn, Named
    <3>3. j \in 1..Len(work[r].asked)
      BY <1>3 DEF WorkOf, CreationWork
    <3>4. QED
      BY <1>3, <1>5, <2>1, <3>1, <3>2, <3>3
  <2>2. \A j : Named(r, j)' = Named(r, j)
    BY <1>6 DEF Named
  <2>3. QED
    BY <1>2, <1>3, <1>6, <2>1, <2>2 DEF MadeOf
<1>9. CreationInv(r)'
  BY <1>2, <1>3, <1>5, <1>6, <1>7, <1>8 DEF CreationInv
<1>10. QED
  BY <1>1, <1>2, <1>4, <1>5, <1>6, <1>9, QuietStep

LEMMA EnrolRaisesInv ==
    ASSUME IInv, NEW r \in Creations, EnrolRaises(r)
    PROVE  IInv'
<1> USE DEF IInv
<1>1. r \in Requests /\ r \notin Additions /\ r \notin Imagings
  BY KindsAssumption DEF Requests
<1>2. /\ courses' = courses /\ removed' = removed /\ clashing' = clashing /\ images' = images
      /\ enrolled' = enrolled /\ work' = work /\ Ids' = Ids
      /\ \A e \in enrolled' : e[2] \in Students
      /\ DOMAIN work' = Requests
  BY DEF EnrolRaises, images, Ids, ShapeInv
<1>3. /\ pc' \in [Requests -> Places] /\ pc'[r] = "failed"
      /\ \A q \in Requests \ {r} : pc'[q] = pc[q]
  BY <1>1, Moved DEF EnrolRaises, Goto, Places
<1>4. CreationInv(r)'
  BY <1>2, <1>3 DEF CreationInv
<1>5. QED
  BY <1>1, <1>2, <1>3, <1>4, QuietStep

LEMMA ReadEnrolledInv ==
    ASSUME IInv, NEW a \in Additions, ReadEnrolled(a)
    PROVE  IInv'
<1> USE DEF IInv
<1>1. a \in Requests /\ a \notin Creations /\ a \notin Imagings
  BY KindsAssumption DEF Requests
<1>2. /\ courses' = courses /\ removed' = removed /\ clashing' = clashing /\ images' = images
      /\ enrolled' = enrolled /\ Ids' = Ids
      /\ \A e \in enrolled' : e[2] \in Students
  BY DEF ReadEnrolled, images, Ids, ShapeInv
<1>3. PICK id \in Ids, asked \in SUBSET (Students \cup Strangers) :
        LET new == (asked \cap Students) \ EnrolledIn(id)
        IN  /\ work' = [work EXCEPT ![a] = [course |-> id, asked |-> asked, new |-> new]]
            /\ pc' = [pc EXCEPT ![a] = IF new = {} THEN "unchanged" ELSE "checked"]
  BY DEF ReadEnrolled
<1> DEFINE new == (asked \cap Students) \ EnrolledIn(id)
<1>4. /\ work'[a] = [course |-> id, asked |-> asked, new |-> new] /\ DOMAIN work' = Requests
      /\ \A q \in Requests \ {a} : work'[q] = work[q]
  BY <1>1, <1>3 DEF ShapeInv
<1>5. /\ pc' \in [Requests -> Places] /\ pc'[a] = IF new = {} THEN "unchanged" ELSE "checked"
      /\ \A q \in Requests \ {a} : pc'[q] = pc[q]
  BY <1>1, <1>3 DEF ShapeInv, Places
<1>6. EnrolledIn(id)' = EnrolledIn(id)
  BY <1>2 DEF EnrolledIn
<1>7. AdditionInv(a)'
  <2>1. \A s \in asked \cap Students : s \in EnrolledIn(id)' \/ (pc'[a] = "checked" /\ s \in new)
    BY <1>5, <1>6
  <2>2. pc'[a] \in {"checked", "unchanged"} /\ new \subseteq Students
    BY <1>5
  <2>3. work'[a].course = id /\ work'[a].asked = asked /\ work'[a].new = new
    BY <1>4
  <2>4. QED
    BY <1>2, <2>1, <2>2, <2>3 DEF AdditionInv
<1>8. QED
  BY <1>1, <1>2, <1>4, <1>5, <1>7, QuietStep

\* Who was missing is enrolled, or the course is gone.
LEMMA InsertMissingInv ==
    ASSUME IInv, NEW a \in Additions, InsertMissing(a)
    PROVE  IInv'
<1> USE DEF IInv
<1>1. a \in Requests /\ a \notin Creations /\ a \notin Imagings
  BY KindsAssumption DEF Requests
<1>2. /\ courses' = courses /\ removed' = removed /\ clashing' = clashing /\ images' = images
      /\ Ids' = Ids /\ work' = work /\ DOMAIN work' = Requests
      /\ enrolled' = enrolled \cup ({work[a].course} \X work[a].new)
  BY DEF InsertMissing, images, Ids, ShapeInv
<1>3. /\ pc[a] = "checked" /\ pc' \in [Requests -> Places] /\ pc'[a] = "ok"
      /\ \A q \in Requests \ {a} : pc'[q] = pc[q]
  BY <1>1, Moved DEF InsertMissing, Goto, Places
<1>4. AdditionInv(a)
  BY DEF RequestsInv
<1>5. enrolled \subseteq enrolled' /\ \A e \in enrolled' : e[2] \in Students
  BY <1>2, <1>3, <1>4 DEF ShapeInv, AdditionInv
<1>6. AdditionInv(a)'
  <2>1. \A s \in work[a].new \cap Students : s \in EnrolledIn(work[a].course)'
    BY <1>2 DEF EnrolledIn
  <2>2. EnrolledIn(work[a].course) \subseteq EnrolledIn(work[a].course)'
    BY <1>2, <1>5 DEF EnrolledIn
  <2>3. QED
    BY <1>2, <1>3, <1>4, <2>1, <2>2 DEF AdditionInv
<1>7. QED
  BY <1>1, <1>2, <1>3, <1>5, <1>6, QuietStep

\* The refusals.
LEMMA RefusedInv ==
    ASSUME IInv, NEW r \in Additions \cup Deletions \cup PathDeletions, NEW from,
           Goto(r, from, "conflict"),
           UNCHANGED <<courses, enrolled, depended, images, work, removed, clashing>>
    PROVE  IInv'
<1> USE DEF IInv
<1>1. r \in Requests /\ r \notin Creations /\ r \notin Imagings
  BY KindsAssumption DEF Requests
<1>2. DOMAIN work = Requests /\ \A e \in enrolled : e[2] \in Students
  BY DEF ShapeInv
<1>3. /\ pc' \in [Requests -> Places] /\ pc'[r] = "conflict"
      /\ \A q \in Requests \ {r} : pc'[q] = pc[q]
  BY <1>1, Moved DEF Goto, Places
<1>4. r \in Additions => AdditionInv(r)'
  BY <1>3 DEF AdditionInv
<1>5. QED
  BY <1>1, <1>2, <1>3, <1>4, QuietStep

LEMMA DependInv ==
    ASSUME IInv, Depend
    PROVE  IInv'
BY DEF Depend, images, IInv, ShapeInv, RequestsInv, CreationInv, WorkOf, MadeOf, Named,
       AdditionInv, ImagingInv, ImageInv, DuplicatesComeFromOvertaking, Ids, EnrolledIn, Exists

-----------------------------------------------------------------------------
(* The steps that change the rows of courses.                              *)

\* The courses of a creation are new; who has checked meanwhile is overtaken.
LEMMA InsertCoursesInv ==
    ASSUME IInv, NEW r \in Creations, InsertCourses(r)
    PROVE  IInv'
<1> USE DEF IInv
<1> DEFINE Made == {[by |-> r, pos |-> i, key |-> work[r].asked[i].key,
                     professor |-> work[r].professors[i]] : i \in DOMAIN work[r].asked}
<1>1. r \in Requests /\ r \notin Additions /\ r \notin Imagings
  BY KindsAssumption DEF Requests
<1>2. /\ courses' = courses \cup Made /\ removed' = removed /\ work' = work
      /\ enrolled' = enrolled /\ image' = image /\ bucket' = bucket
      /\ clashing' = clashing \cup {q \in Creations \ {r} : pc[q] = "checked"}
  BY DEF InsertCourses, images, Overtake
<1>3. /\ pc[r] = "checked" /\ pc' \in [Requests -> Places] /\ pc'[r] = "inserted"
      /\ \A q \in Requests \ {r} : pc'[q] = pc[q]
  BY <1>1, Moved DEF InsertCourses, Goto, Places
<1>4. /\ WorkOf(r) /\ \A id \in Ids \cup removed : id[1] # r
      /\ r \notin clashing => \A i \in DOMAIN work[r].asked : ~ Exists(work[r].asked[i].key)
  BY <1>3 DEF RequestsInv, CreationInv
<1>5. /\ DOMAIN work[r].asked = 1..Len(work[r].asked)
      /\ \A i \in DOMAIN work[r].asked : work[r].asked[i] \in Asked
      /\ \A i \in DOMAIN work[r].asked : work[r].professors[i] \in Professors
      /\ work[r].next \in Nat /\ Len(work[r].asked) \in 1..MaxBatch
  BY <1>4 DEF WorkOf, CreationWork
<1>6. Made \subseteq Rows
  BY <1>5, BatchAssumption DEF Asked, Rows
<1>7. \A c \in Made : c.by = r /\ c.pos \in DOMAIN work[r].asked /\ Id(c) = <<r, c.pos>>
  BY DEF Id
<1>8. \A c, d \in Made : c.pos = d.pos => c = d
  OBVIOUS
<1>9. \A c \in Made : \E i \in DOMAIN work[r].asked : c.key = work[r].asked[i].key
  OBVIOUS
<1>10. /\ \A id \in Ids' : id \in Ids \/ (id[1] = r /\ id[2] \in DOMAIN work[r].asked)
       /\ Ids \subseteq Ids'
       /\ \A i \in DOMAIN work[r].asked : <<r, i>> \in Ids'
  <2>1. \A id \in Ids' : id \in Ids \/ (id[1] = r /\ id[2] \in DOMAIN work[r].asked)
    BY <1>2, <1>7 DEF Ids
  <2>2. Ids \subseteq Ids'
    BY <1>2 DEF Ids
  <2>3. ASSUME NEW i \in DOMAIN work[r].asked PROVE <<r, i>> \in Ids'
    <3> DEFINE c == [by |-> r, pos |-> i, key |-> work[r].asked[i].key,
                     professor |-> work[r].professors[i]]
    <3>1. c \in Made /\ c.by = r /\ c.pos = i
      OBVIOUS
    <3>2. c \in courses' /\ Id(c) = <<r, i>>
      BY <1>2, <3>1 DEF Id
    <3>3. QED
      BY <3>2 DEF Ids
  <2>4. QED
    BY <2>1, <2>2, <2>3
<1>11. \A c \in courses : c.by # r
  BY <1>4, IdsOfRows
<1> HIDE DEF Made
<1>12. ShapeInv'
  <2>1. courses' \subseteq Rows
    BY <1>2, <1>6 DEF ShapeInv
  <2>2. \A c, d \in courses' : Id(c) = Id(d) => c = d
    <3>1. \A c, d \in courses' : Id(c) = Id(d) => c.by = d.by /\ c.pos = d.pos
      BY DEF Id
    <3>2. QED
      BY <1>2, <1>7, <1>8, <1>11, <3>1 DEF ShapeInv
  <2>3. removed' \cap Ids' = {}
    BY <1>2, <1>4, <1>10 DEF ShapeInv
  <2>4. QED
    BY <1>2, <1>3, <2>1, <2>2, <2>3 DEF ShapeInv
<1>13. CreationInv(r)'
  <2>1. WorkOf(r)'
    BY <1>2, <1>3, <1>4 DEF WorkOf
  <2>2. MadeOf(r)'
    <3>1. Len(work[r].asked) >= 1 /\ pc'[r] # "ok"
      BY <1>3, <1>5
    <3>2. \A i \in DOMAIN work[r].asked : ~ i < work[r].next
      BY <1>3, <1>4, <1>5 DEF WorkOf
    <3>3. QED
      BY <1>2, <1>10, <3>1, <3>2 DEF MadeOf
  <2>3. \A id \in Ids' : id[1] = r => id[2] \in DOMAIN work[r].asked
    BY <1>4, <1>10
  <2>4. QED
    BY <1>2, <1>3, <2>1, <2>2, <2>3 DEF CreationInv
<1>14. \A id : EnrolledIn(id)' = EnrolledIn(id)
  BY <1>2 DEF EnrolledIn
<1>15. ASSUME NEW q \in Creations \ {r} PROVE CreationInv(q)'
  <2>1. pc'[q] = pc[q] /\ work'[q] = work[q]
    BY <1>2, <1>3 DEF Requests
  <2>2. pc[q] = "checked" => q \in clashing'
    BY <1>2
  <2>3. \A id \in Ids' : id[1] = q => id \in Ids
    BY <1>10
  <2>4. QED
    BY <1>2, <1>10, <1>14, <2>1, <2>2, <2>3, CreationKeeps DEF RequestsInv
<1>16. \A a \in Additions : AdditionInv(a)'
  BY <1>1, <1>2, <1>3, <1>10, <1>14, AdditionKeeps DEF RequestsInv, Requests
<1>17. \A m \in Imagings : ImagingInv(m)'
  BY <1>1, <1>2, <1>3 DEF RequestsInv, ImagingInv, Requests
<1>18. ImageInv'
  BY <1>1, <1>2, <1>3 DEF ImageInv, Requests
<1>19. DuplicatesComeFromOvertaking'
  <2> SUFFICES ASSUME NEW c \in courses', NEW d \in courses',
                      c # d, c.key = d.key, c.by \in Creations, d.by \in Creations \cup Seeds
               PROVE  c.by = d.by \/ {c.by, d.by} \cap clashing' # {}
    BY DEF DuplicatesComeFromOvertaking
  <2>1. CASE c \in courses /\ d \in courses
    BY <1>2, <2>1 DEF DuplicatesComeFromOvertaking
  <2>2. CASE c \in Made /\ d \in courses
    BY <1>2, <1>4, <1>7, <1>9, <2>2 DEF Exists
  <2>3. CASE c \in courses /\ d \in Made
    BY <1>2, <1>4, <1>7, <1>9, <2>3 DEF Exists
  <2>4. CASE c \in Made /\ d \in Made
    BY <1>7, <2>4
  <2>5. QED
    BY <1>2, <2>1, <2>2, <2>3, <2>4
<1>20. QED
  BY <1>12, <1>13, <1>15, <1>16, <1>17, <1>18, <1>19 DEF RequestsInv

\* An update keeps which courses there are, and overtakes every creation.
LEMMA UpdateCourseInv ==
    ASSUME IInv, NEW u \in Updates, UpdateCourse(u)
    PROVE  IInv'
<1> USE DEF IInv
<1>1. u \in Requests /\ u \notin Creations /\ u \notin Additions /\ u \notin Imagings
  BY KindsAssumption DEF Requests
<1>2. /\ clashing' = clashing \cup Creations /\ removed' = removed /\ work' = work
      /\ enrolled' = enrolled /\ image' = image /\ bucket' = bucket
  BY DEF UpdateCourse, images
<1>3. /\ pc' \in [Requests -> Places] /\ \A q \in Requests \ {u} : pc'[q] = pc[q]
  BY <1>1, Moved DEF UpdateCourse, Goto, Places
<1>4. PICK c \in courses, k \in Keys, p \in Professors :
        courses' = (courses \ {c}) \cup {[c EXCEPT !.key = k, !.professor = p]}
  BY DEF UpdateCourse
<1> DEFINE new == [c EXCEPT !.key = k, !.professor = p]
<1>5. new \in Rows /\ Id(new) = Id(c)
  BY DEF ShapeInv, Rows, Id
<1> HIDE DEF new
<1>6. courses' = (courses \ {c}) \cup {new}
  BY <1>4 DEF new
<1>7. Ids' = Ids
  BY <1>5, <1>6 DEF Ids
<1>8. ShapeInv'
  <2>1. courses' \subseteq Rows
    BY <1>5, <1>6 DEF ShapeInv
  <2>2. \A a, b \in courses' : Id(a) = Id(b) => a = b
    BY <1>5, <1>6 DEF ShapeInv
  <2>3. QED
    BY <1>2, <1>3, <1>7, <2>1, <2>2 DEF ShapeInv
<1>9. \A id : EnrolledIn(id)' = EnrolledIn(id)
  BY <1>2 DEF EnrolledIn
<1>10. ASSUME NEW q \in Creations PROVE CreationInv(q)'
  <2>1. pc'[q] = pc[q] /\ work'[q] = work[q] /\ q \in clashing' /\ CreationInv(q)
    BY <1>1, <1>2, <1>3 DEF Requests, RequestsInv
  <2>2. QED
    BY <1>2, <1>7, <1>9, <2>1, CreationKeeps
<1>11. \A a \in Additions : AdditionInv(a)'
  BY <1>1, <1>2, <1>3, <1>7, <1>9, AdditionKeeps DEF RequestsInv, Requests
<1>12. \A m \in Imagings : ImagingInv(m)'
  BY <1>1, <1>2, <1>3 DEF RequestsInv, ImagingInv, Requests
<1>13. ImageInv'
  BY <1>1, <1>2, <1>3 DEF ImageInv, Requests
<1>14. DuplicatesComeFromOvertaking'
  BY <1>2 DEF DuplicatesComeFromOvertaking
<1>15. QED
  BY <1>8, <1>10, <1>11, <1>12, <1>13, <1>14 DEF RequestsInv

\* A deletion takes one course and its enrolments.
LEMMA DeleteCourseInv ==
    ASSUME IInv, NEW d \in Deletions, DeleteCourse(d)
    PROVE  IInv'
<1> USE DEF IInv
<1>1. d \in Requests /\ d \notin Creations /\ d \notin Additions /\ d \notin Imagings
  BY KindsAssumption DEF Requests
<1>2. PICK c \in courses :
        /\ courses' = courses \ {c}
        /\ enrolled' = {e \in enrolled : e[1] # Id(c)}
        /\ removed' = removed \cup {Id(c)}
        /\ image' = image /\ bucket' = bucket /\ work' = work /\ clashing' = clashing
  BY DEF DeleteCourse, images
<1>3. /\ pc' \in [Requests -> Places] /\ \A q \in Requests \ {d} : pc'[q] = pc[q]
  BY <1>1, Moved DEF DeleteCourse, Goto, Places
<1>4. Ids' = Ids \ {Id(c)} /\ Id(c) \in Ids
  BY <1>2 DEF Ids, ShapeInv
<1>5. ShapeInv'
  BY <1>2, <1>3, <1>4 DEF ShapeInv
<1>6. \A id \in Ids' : EnrolledIn(id)' = EnrolledIn(id)
  BY <1>2, <1>4 DEF EnrolledIn
<1>7. \A k : Exists(k)' => Exists(k)
  BY <1>2 DEF Exists
<1>8. ASSUME NEW q \in Creations PROVE CreationInv(q)'
  <2>1. pc'[q] = pc[q] /\ work'[q] = work[q] /\ CreationInv(q)
    BY <1>1, <1>2, <1>3 DEF Requests, RequestsInv
  <2>2. QED
    BY <1>2, <1>4, <1>6, <1>7, <2>1, CreationKeeps
<1>9. \A a \in Additions : AdditionInv(a)'
  BY <1>1, <1>2, <1>3, <1>4, <1>6, AdditionKeeps DEF RequestsInv, Requests
<1>10. \A m \in Imagings : ImagingInv(m)'
  BY <1>1, <1>2, <1>3 DEF RequestsInv, ImagingInv, Requests
<1>11. ImageInv'
  BY <1>1, <1>2, <1>3 DEF ImageInv, Requests
<1>12. DuplicatesComeFromOvertaking'
  BY <1>2 DEF DuplicatesComeFromOvertaking
<1>13. QED
  BY <1>5, <1>8, <1>9, <1>10, <1>11, <1>12 DEF RequestsInv

-----------------------------------------------------------------------------
(* The images.                                                             *)

\* A step of an upload, as far as courses and their creations are concerned.
LEMMA ImagingStep ==
    ASSUME IInv, NEW m \in Imagings,
           courses' = courses, removed' = removed, clashing' = clashing, enrolled' = enrolled,
           image' \in [Seeds -> {NoImage} \cup Imagings], bucket' \subseteq Imagings,
           pc' \in [Requests -> Places], DOMAIN work' = Requests,
           \A q \in Requests \ {m} : pc'[q] = pc[q] /\ work'[q] = work[q],
           \A q \in Imagings : ImagingInv(q)', ImageInv'
    PROVE  IInv'
<1> USE DEF IInv
<1>1. Ids' = Ids /\ (\A k : Exists(k)' <=> Exists(k)) /\ \A id : EnrolledIn(id)' = EnrolledIn(id)
  BY DEF Ids, Exists, EnrolledIn
<1>2. ShapeInv'
  BY <1>1 DEF ShapeInv
<1>3. ASSUME NEW q \in Creations PROVE CreationInv(q)'
  <2>1. pc'[q] = pc[q] /\ work'[q] = work[q] /\ CreationInv(q)
    BY KindsAssumption DEF Requests, RequestsInv
  <2>2. QED
    BY <1>1, <2>1, CreationKeeps
<1>4. ASSUME NEW a \in Additions PROVE AdditionInv(a)'
  <2>1. pc'[a] = pc[a] /\ work'[a] = work[a] /\ AdditionInv(a)
    BY KindsAssumption DEF Requests, RequestsInv
  <2>2. QED
    BY <1>1, <2>1, AdditionKeeps
<1>5. DuplicatesComeFromOvertaking'
  BY DEF DuplicatesComeFromOvertaking
<1>6. QED
  BY <1>2, <1>3, <1>4, <1>5 DEF RequestsInv

\* The image that goes is the course's own: no upload has put it that still runs.
LEMMA PutImageInv ==
    ASSUME IInv, NEW m \in Imagings, PutImage(m)
    PROVE  IInv'
<1> USE DEF IInv
<1>1. m \in Requests
  BY DEF Requests
<1>2. PICK s \in Seeds :
        /\ work' = [work EXCEPT ![m] = [course |-> s, old |-> image[s]]]
        /\ bucket' = (bucket \ {image[s]}) \cup {m}
  BY DEF PutImage
<1>3. /\ courses' = courses /\ removed' = removed /\ clashing' = clashing
      /\ enrolled' = enrolled /\ image' = image
  BY DEF PutImage
<1>4. /\ pc[m] = "idle" /\ pc' \in [Requests -> Places] /\ pc'[m] = "put"
      /\ \A q \in Requests \ {m} : pc'[q] = pc[q]
  BY <1>1, Moved DEF PutImage, Goto, Places
<1>5. /\ work'[m].course = s /\ DOMAIN work' = Requests
      /\ \A q \in Requests \ {m} : work'[q] = work[q]
  BY <1>1, <1>2 DEF ShapeInv
<1>6. ImagingInv(m)'
  BY <1>2, <1>3, <1>4, <1>5 DEF RequestsInv, ImagingInv
<1>7. ASSUME NEW q \in Imagings \ {m} PROVE ImagingInv(q)'
  <2>1. ImagingInv(q) /\ pc'[q] = pc[q] /\ work'[q] = work[q]
    BY <1>4, <1>5 DEF RequestsInv, Requests
  <2>2. pc[q] = "put" => image[s] # q
    BY <2>1 DEF ImagingInv
  <2>3. QED
    BY <1>2, <1>3, <2>1, <2>2 DEF ImagingInv
<1>8. ImageInv'
  <2> SUFFICES ASSUME NEW t \in Seeds
               PROVE  \/ image[t] \in {NoImage} \cup bucket'
                      \/ \E q \in Imagings : pc'[q] = "failed" \/ (pc'[q] = "put" /\ work'[q].course = t)
    BY <1>3 DEF ImageInv
  <2>1. CASE t = s
    BY <1>4, <1>5, <2>1
  <2>2. CASE t # s /\ image[t] \in {NoImage} \cup bucket
    <3>1. CASE image[t] = NoImage
      BY <3>1
    <3>2. CASE image[t] \in bucket
      <4>1. image[t] \in Imagings
        BY <3>2 DEF ShapeInv
      <4>2. image[t] # image[s]
        BY <2>2, <4>1 DEF RequestsInv, ImagingInv
      <4>3. QED
        BY <1>2, <3>2, <4>2
    <3>3. QED
      BY <2>2, <3>1, <3>2
  <2>3. ASSUME NEW q \in Imagings, pc[q] = "failed" \/ (pc[q] = "put" /\ work[q].course = t)
        PROVE  pc'[q] = "failed" \/ (pc'[q] = "put" /\ work'[q].course = t)
    BY <1>4, <1>5, <2>3 DEF Requests
  <2>4. QED
    BY <2>1, <2>2, <2>3 DEF ImageInv
<1>9. image' \in [Seeds -> {NoImage} \cup Imagings] /\ bucket' \subseteq Imagings
  BY <1>2, <1>3 DEF ShapeInv
<1>10. QED
  BY <1>3, <1>4, <1>5, <1>6, <1>7, <1>8, <1>9, ImagingStep

LEMMA PutFailsInv ==
    ASSUME IInv, NEW m \in Imagings, PutFails(m)
    PROVE  IInv'
<1> USE DEF IInv
<1>1. m \in Requests
  BY DEF Requests
<1>2. PICK s \in Seeds : bucket' = bucket \ {image[s]}
  BY DEF PutFails
<1>3. /\ courses' = courses /\ removed' = removed /\ clashing' = clashing
      /\ enrolled' = enrolled /\ image' = image /\ work' = work
  BY DEF PutFails
<1>4. /\ pc[m] = "idle" /\ pc' \in [Requests -> Places] /\ pc'[m] = "failed"
      /\ \A q \in Requests \ {m} : pc'[q] = pc[q]
  BY <1>1, Moved DEF PutFails, Goto, Places
<1>5. ImagingInv(m)'
  BY <1>3, <1>4 DEF RequestsInv, ImagingInv
<1>6. ASSUME NEW q \in Imagings \ {m} PROVE ImagingInv(q)'
  <2>1. ImagingInv(q) /\ pc'[q] = pc[q]
    BY <1>4 DEF RequestsInv, Requests
  <2>2. pc[q] = "put" => image[s] # q
    BY <2>1 DEF ImagingInv
  <2>3. QED
    BY <1>2, <1>3, <2>1, <2>2 DEF ImagingInv
<1>7. ImageInv'
  BY <1>4 DEF ImageInv
<1>8. /\ image' \in [Seeds -> {NoImage} \cup Imagings] /\ bucket' \subseteq Imagings
      /\ DOMAIN work' = Requests
  BY <1>2, <1>3 DEF ShapeInv
<1>9. QED
  BY <1>3, <1>4, <1>5, <1>6, <1>7, <1>8, ImagingStep

LEMMA StoreImageInv ==
    ASSUME IInv, NEW m \in Imagings, StoreImage(m)
    PROVE  IInv'
<1> USE DEF IInv
<1> DEFINE s == work[m].course
<1>1. m \in Requests
  BY DEF Requests
<1>2. /\ image' = [image EXCEPT ![s] = m]
      /\ courses' = courses /\ removed' = removed /\ clashing' = clashing
      /\ enrolled' = enrolled /\ bucket' = bucket /\ work' = work
  BY DEF StoreImage
<1>3. /\ pc[m] = "put" /\ pc' \in [Requests -> Places] /\ pc'[m] = "ok"
      /\ \A q \in Requests \ {m} : pc'[q] = pc[q]
  BY <1>1, Moved DEF StoreImage, Goto, Places
<1>4. m \in bucket /\ s \in Seeds /\ \A t \in Seeds : image[t] # m
  BY <1>3 DEF RequestsInv, ImagingInv
<1>5. /\ image' \in [Seeds -> {NoImage} \cup Imagings] /\ image'[s] = m
      /\ \A t \in Seeds \ {s} : image'[t] = image[t]
  BY <1>2, <1>4 DEF ShapeInv
<1>6. ImagingInv(m)'
  BY <1>2, <1>3, <1>4, <1>5 DEF ImagingInv
<1>7. ASSUME NEW q \in Imagings \ {m} PROVE ImagingInv(q)'
  <2>1. ImagingInv(q) /\ pc'[q] = pc[q]
    BY <1>3 DEF RequestsInv, Requests
  <2>2. QED
    BY <1>2, <1>5, <2>1 DEF ImagingInv
<1>8. ImageInv'
  <2> SUFFICES ASSUME NEW t \in Seeds
               PROVE  \/ image'[t] \in {NoImage} \cup bucket
                      \/ \E q \in Imagings : pc'[q] = "failed" \/ (pc'[q] = "put" /\ work[q].course = t)
    BY <1>2 DEF ImageInv
  <2>1. CASE t = s
    BY <1>4, <1>5, <2>1
  <2>2. CASE t # s
    <3>1. \A q \in Imagings : pc[q] = "put" /\ work[q].course = t => q # m
      BY <2>2
    <3>2. QED
      BY <1>3, <1>5, <2>2, <3>1 DEF ImageInv, Requests
  <2>3. QED
    BY <2>1, <2>2
<1>9. bucket' \subseteq Imagings /\ DOMAIN work' = Requests
  BY <1>2 DEF ShapeInv
<1>10. QED
  BY <1>2, <1>3, <1>5, <1>6, <1>7, <1>8, <1>9, ImagingStep

-----------------------------------------------------------------------------
LEMMA NextInv == IInv /\ [Next]_vars => IInv'
<1> SUFFICES ASSUME IInv, [Next]_vars PROVE IInv'
  OBVIOUS
<1>1. CASE UNCHANGED vars
  BY <1>1 DEF vars, IInv, ShapeInv, RequestsInv, CreationInv, WorkOf, MadeOf, Named,
              AdditionInv, ImagingInv, ImageInv, DuplicatesComeFromOvertaking, Ids, EnrolledIn, Exists
<1>2. ASSUME NEW a \in Additions, InsertConflict(a)
      PROVE  IInv'
  BY <1>2, RefusedInv DEF InsertConflict
<1>3. ASSUME NEW d \in Deletions, DeleteRefused(d)
      PROVE  IInv'
  BY <1>3, RefusedInv DEF DeleteRefused
<1>4. ASSUME NEW d \in PathDeletions, DeletePath(d)
      PROVE  IInv'
  BY <1>4, RefusedInv DEF DeletePath
<1>5. QED
  BY <1>1, <1>2, <1>3, <1>4, FailInv, CheckInv, InsertCoursesInv, EnrolNextInv, EnrolRaisesInv,
     ReadEnrolledInv, InsertMissingInv, UpdateCourseInv, DependInv, DeleteCourseInv,
     PutImageInv, PutFailsInv, StoreImageInv DEF Next

\* Every variable keeps its type, and no course that was deleted comes back
\* (api/v1/courses.py and api/v1/professor.py), for any number of requests and courses.
THEOREM TypeCorrect == Spec => []TypeOK
<1>1. IInv => TypeOK
  BY DEF IInv, ShapeInv, Rows, Places, TypeOK
<1>2. QED
  BY <1>1, InitInv, NextInv, PTL DEF Spec

\* However creations, additions, updates, deletions and uploads interleave and fail, what was
\* answered stays: every course of a creation with its students (api/v1/courses.py), every
\* student of an addition, and the image of a course in S3, unless an upload of it is under
\* way or one failed.
THEOREM AnswersStay == Spec => []AnswersAreKept
<1>1. IInv => AnsweredCreationsAreWhole
  <2> SUFFICES ASSUME IInv, NEW r \in Creations
               PROVE  /\ pc[r] = "ok" => MadeOf(r)
                      /\ \A c \in courses : c.by = r /\ EnrolledIn(Id(c)) = {} => pc[r] \in {"inserted", "failed"}
    BY DEF AnsweredCreationsAreWhole, MadeOf, Named
  <2>1. CreationInv(r)
    BY DEF IInv, RequestsInv
  <2>2. ASSUME NEW c \in courses, c.by = r, EnrolledIn(Id(c)) = {}
        PROVE  pc[r] \in {"inserted", "failed"}
    <3>1. Id(c) \in Ids /\ Id(c)[1] = r /\ Id(c) = <<r, Id(c)[2]>>
      BY <2>2, IdsOfRows DEF Id
    <3>2. QED
      BY <2>1, <2>2, <3>1 DEF CreationInv, MadeOf
  <2>3. QED
    BY <2>1, <2>2 DEF CreationInv
<1>2. IInv => EnrolledAsAnswered
  BY DEF IInv, RequestsInv, AdditionInv, EnrolledAsAnswered
<1>3. IInv => ImageIsStored
  BY DEF IInv, ImageInv, ImageIsStored
<1>4. IInv => AnswersAreKept
  BY <1>1, <1>2, <1>3 DEF AnswersAreKept
<1>5. QED
  BY <1>4, InitInv, NextInv, PTL DEF Spec

\* Two courses of one number, semester and class are only ever made by one request, or when
\* an insert or an update comes between another's lookup of the key and its insert
\* (api/v1/courses.py create_course): the lookup excludes every other way.
THEOREM OnlyOvertakingDuplicates == Spec => []DuplicatesComeFromOvertaking
<1>1. IInv => DuplicatesComeFromOvertaking
  BY DEF IInv
<1>2. QED
  BY <1>1, InitInv, NextInv, PTL DEF Spec

-----------------------------------------------------------------------------
(* The lists of a finite set.                                              *)

\* Every element of a finite set has one place in each of its lists.
LEMMA ListsOfASet ==
    ASSUME NEW S, IsFiniteSet(S), NEW s \in SetToSeqs(S)
    PROVE  /\ Cardinality(S) \in Nat
           /\ s \in [1..Cardinality(S) -> S] /\ DOMAIN s = 1..Cardinality(S)
           /\ \A i, j \in 1..Cardinality(S) : s[i] = s[j] => i = j
           /\ \A x \in S : \E i \in 1..Cardinality(S) : s[i] = x
           /\ s \in Seq(S) /\ Len(s) = Cardinality(S)
<1>1. Cardinality(S) \in Nat
  BY FS_CardinalityType
<1> DEFINE n == Cardinality(S)
<1>2. s \in [1..n -> S] /\ \A i, j \in 1..n : i # j => s[i] # s[j]
  BY DEF SetToSeqs
<1> HIDE DEF n
<1>3. s \in Injection(1..n, S)
  BY <1>2 DEF Injection, IsInjective
<1>4. Cardinality(1..n) = n
  BY <1>1, FS_Interval DEF n
<1>5. s \in Surjection(1..n, S)
  BY <1>3, <1>4, FS_Injection DEF n
<1>6. \A x \in S : \E i \in 1..n : s[i] = x
  BY <1>5 DEF Surjection
<1>7. n \in Nat
  BY <1>1 DEF n
<1>8. s \in Seq(S) /\ Len(s) = n
  BY <1>2, <1>7
<1>9. QED
  BY <1>2, <1>6, <1>7, <1>8 DEF n

\* The first k of a list are k.
LEMMA FirstsAreSoMany ==
    ASSUME NEW S, IsFiniteSet(S), NEW s \in SetToSeqs(S), NEW k \in 0..Cardinality(S)
    PROVE  IsFiniteSet({s[i] : i \in 1..k}) /\ Cardinality({s[i] : i \in 1..k}) = k
<1> DEFINE n == Cardinality(S)
           T == {s[i] : i \in 1..k}
           f == [i \in 1..k |-> s[i]]
<1>1. n \in Nat /\ \A i, j \in 1..n : s[i] = s[j] => i = j
  BY ListsOfASet
<1>2. k \in Nat /\ k <= n
  BY <1>1
<1> HIDE DEF n
<1>3. \A i, j \in 1..k : s[i] = s[j] => i = j
  BY <1>1, <1>2
<1>4. f \in Bijection(1..k, T)
  BY <1>3 DEF Bijection, Injection, Surjection, IsInjective
<1>5. ExistsBijection(1..k, T)
  BY <1>4 DEF ExistsBijection
<1>6. IsFiniteSet(1..k) /\ Cardinality(1..k) = k
  BY <1>2, FS_Interval
<1>7. QED
  BY <1>5, <1>6, FS_Bijection

-----------------------------------------------------------------------------
(* The inductive invariant of the dashboards.                              *)

Closings == Times \cup {Gone, Never}

DashboardShape ==
    /\ now \in Times
    /\ spent \subseteq Adds /\ met \subseteq Adds
    /\ close \in [Exercises -> Closings]
    /\ accessed \in [Taught -> 0..now] /\ opened \in [Taught -> 0..now]
    /\ viewing = [r \in Viewers |-> viewing[r]] /\ seen = [r \in Viewers |-> seen[r]]
    /\ left \in [Readers -> SUBSET Taught]
    /\ began \in [Readers -> Nat]
    /\ before \in [Readers -> [Exercises -> Closings]]
    /\ touched \in [Readers -> SUBSET Exercises]
    /\ edits \in 0..MaxEdits

\* What an addition has read lacks no answered addition that it has not met.
AdditionsFit ==
    /\ TimeIsOfAdditions
    /\ \A r \in Adds : viewing[r] = "read" =>
         seen[r] \subseteq Answered(Adds) /\ Answered(Adds) \ met \subseteq seen[r]
    /\ \A q, r \in Adds : viewing[q] = "read" /\ viewing[r] = "read" /\ q # r => r \in met

RecentsFit == \A r \in Recents : \A c \in seen[r] : c \in Taught /\ accessed[c] # 0

\* A view that reads has what stayed of the courses behind it.
ReadingFits(r) ==
    /\ seen[r] \subseteq Closings \X Exercises
    /\ r \in Views => \A x \in seen[r] : x[1] > began[r]
    /\ \A e \in Exercises \ touched[r] : close[e] = before[r][e]
    /\ \A e \in Exercises \ touched[r] :
         /\ before[r][e] # Gone /\ CourseOf[e] \notin left[r]
         /\ r \in Views => before[r][e] > began[r]
         => <<before[r][e], e>> \in seen[r]

ShowsTheNext(r) ==
    /\ Cardinality(seen[r]) <= Shown
    /\ \A e \in seen[r] : e[1] > began[r]
    /\ \A e \in Exercises :
         LET t == before[r][e] IN
         e \notin touched[r] /\ t > began[r] =>
           \/ <<t, e>> \in seen[r]
           \/ Cardinality(seen[r]) = Shown /\ \A s \in seen[r] : s[1] <= t

IsWhole(r) ==
    \A e \in Exercises :
      e \notin touched[r] /\ before[r][e] # Gone => <<before[r][e], e>> \in seen[r]

ViewFits(r) ==
    /\ viewing[r] = "idle" => seen[r] = {}
    /\ viewing[r] = "reading" => ReadingFits(r)
    /\ viewing[r] = "answered" => /\ r \in Views => ShowsTheNext(r)
                                  /\ r \in Schedules => IsWhole(r)

DashboardInv ==
    /\ DashboardShape /\ AdditionsFit /\ RecentsFit
    /\ \A r \in Readers : ViewFits(r)

-----------------------------------------------------------------------------
(* The steps of the dashboards.                                            *)

LEMMA ViewersApart ==
    /\ Adds \subseteq Viewers /\ Recents \subseteq Viewers /\ Readers \subseteq Viewers
    /\ Views \subseteq Readers /\ Schedules \subseteq Readers
    /\ \A r \in Adds : r \notin Readers \cup Recents
    /\ \A r \in Recents : r \notin Readers
    /\ \A r \in Views : r \notin Schedules
BY ViewersAssumption DEF Viewers, Readers

LEMMA ViewKept ==
    ASSUME DashboardInv, NEW r \in Readers, viewing'[r] = viewing[r], seen'[r] = seen[r],
           began'[r] = began[r], before'[r] = before[r], left'[r] = left[r], touched'[r] = touched[r],
           close' = close
    PROVE  ViewFits(r)'
BY DEF DashboardInv, ViewFits, ReadingFits, ShowsTheNext, IsWhole

LEMMA DashboardInitInv == DashboardInit => DashboardInv
<1> SUFFICES ASSUME DashboardInit
             PROVE  DashboardInv
  OBVIOUS
<1>1. now \in Times /\ edits \in 0..MaxEdits
  BY BoundAssumption DEF DashboardInit, Times
<1>2. DashboardShape
  BY <1>1, ViewersApart DEF DashboardInit, DashboardShape, Closings, Times
<1>3. \A r \in Viewers : viewing[r] = "idle" /\ seen[r] = {}
  BY DEF DashboardInit
<1>4. AdditionsFit
  BY <1>3, ViewersApart DEF AdditionsFit, TimeIsOfAdditions, Answered, DashboardInit
<1>5. RecentsFit /\ \A r \in Readers : ViewFits(r)
  BY <1>3, ViewersApart DEF RecentsFit, ViewFits
<1>6. QED
  BY <1>2, <1>4, <1>5 DEF DashboardInv

LEMMA ReadTimeKeeps ==
    ASSUME DashboardInv, NEW r \in Adds, ReadTime(r)
    PROVE  DashboardInv'
<1>1. DashboardShape /\ AdditionsFit /\ RecentsFit
  BY DEF DashboardInv
<1> DEFINE others == {a \in Adds \ {r} : viewing[a] = "read"}
<1>2. /\ viewing[r] = "idle" /\ viewing' = [viewing EXCEPT ![r] = "read"]
      /\ seen' = [seen EXCEPT ![r] = spent]
      /\ met' = IF others = {} THEN met ELSE met \cup others \cup {r}
      /\ UNCHANGED <<now, spent, close, accessed, left, began, opened, before, touched, edits>>
  BY DEF ReadTime, Pass, dataVars
<1>3. /\ viewing'[r] = "read" /\ seen'[r] = spent
      /\ \A x \in Viewers \ {r} : viewing'[x] = viewing[x] /\ seen'[x] = seen[x]
  BY <1>1, <1>2, ViewersApart DEF DashboardShape
<1>4. met \subseteq met' /\ met' \subseteq Adds
  BY <1>1, <1>2 DEF DashboardShape
<1>5. DashboardShape'
  BY <1>1, <1>2, <1>4 DEF DashboardShape
<1>6. Answered(Adds)' = Answered(Adds)
  BY <1>2, <1>3, ViewersApart DEF Answered
<1>7. ASSUME NEW q \in Adds, NEW p \in Adds, viewing'[q] = "read", viewing'[p] = "read", q # p
      PROVE  p \in met'
  <2>1. CASE p = r
    <3>1. q \in others
      BY <1>3, <1>7, <2>1, ViewersApart
    <3>2. QED
      BY <1>2, <2>1, <3>1
  <2>2. CASE p # r
    <3>1. p \in others
      BY <1>3, <1>7, <2>2, ViewersApart
    <3>2. QED
      BY <1>2, <3>1
  <2>3. QED
    BY <2>1, <2>2
<1>8. TimeIsOfAdditions'
  BY <1>1, <1>2, <1>4, <1>6 DEF AdditionsFit, TimeIsOfAdditions
<1>9. ASSUME NEW q \in Adds, viewing'[q] = "read"
      PROVE  seen'[q] \subseteq Answered(Adds) /\ Answered(Adds) \ met' \subseteq seen'[q]
  <2>1. CASE q = r
    BY <1>1, <1>3, <1>4, <2>1 DEF AdditionsFit, TimeIsOfAdditions
  <2>2. CASE q # r
    BY <1>1, <1>3, <1>4, <1>9, <2>2, ViewersApart DEF AdditionsFit
  <2>3. QED
    BY <2>1, <2>2
<1>10. AdditionsFit'
  BY <1>6, <1>7, <1>8, <1>9 DEF AdditionsFit
<1>11. RecentsFit'
  BY <1>1, <1>2, <1>3, ViewersApart DEF RecentsFit
<1>12. \A x \in Readers : ViewFits(x)'
  BY <1>2, <1>3, ViewKept, ViewersApart
<1>13. QED
  BY <1>5, <1>10, <1>11, <1>12 DEF DashboardInv

LEMMA WriteTimeKeeps ==
    ASSUME DashboardInv, NEW r \in Adds, WriteTime(r)
    PROVE  DashboardInv'
<1>1. DashboardShape /\ AdditionsFit /\ RecentsFit
  BY DEF DashboardInv
<1>2. /\ viewing[r] = "read" /\ viewing' = [viewing EXCEPT ![r] = "answered"]
      /\ spent' = seen[r] \cup {r}
      /\ UNCHANGED <<now, close, accessed, seen, left, began, opened, before, touched, met, edits>>
  BY DEF WriteTime, Pass, history
<1>3. viewing'[r] = "answered" /\ \A x \in Viewers \ {r} : viewing'[x] = viewing[x]
  BY <1>1, <1>2, ViewersApart DEF DashboardShape
<1>4. Answered(Adds)' = Answered(Adds) \cup {r}
  BY <1>3, ViewersApart DEF Answered
<1>5. seen[r] \subseteq Answered(Adds) /\ Answered(Adds) \ met \subseteq seen[r] /\ Answered(Adds) \subseteq Adds
  BY <1>1, <1>2 DEF AdditionsFit, Answered
<1>6. DashboardShape'
  BY <1>1, <1>2, <1>5 DEF DashboardShape
<1>7. TimeIsOfAdditions'
  BY <1>2, <1>4, <1>5 DEF TimeIsOfAdditions
<1>8. ASSUME NEW q \in Adds, viewing'[q] = "read"
      PROVE  seen[q] \subseteq Answered(Adds)' /\ Answered(Adds)' \ met \subseteq seen[q]
  <2>1. q # r /\ viewing[q] = "read"
    BY <1>3, <1>8, ViewersApart
  <2>2. r \in met
    BY <1>1, <1>2, <2>1 DEF AdditionsFit
  <2>3. seen[q] \subseteq Answered(Adds) /\ Answered(Adds) \ met \subseteq seen[q]
    BY <1>1, <2>1 DEF AdditionsFit
  <2>4. QED
    BY <1>4, <2>2, <2>3
<1>9. \A q, p \in Adds : viewing'[q] = "read" /\ viewing'[p] = "read" /\ q # p => p \in met
  BY <1>1, <1>3, ViewersApart DEF AdditionsFit
<1>10. AdditionsFit'
  BY <1>2, <1>7, <1>8, <1>9 DEF AdditionsFit
<1>11. RecentsFit'
  BY <1>1, <1>2 DEF RecentsFit
<1>12. \A x \in Readers : ViewFits(x)'
  BY <1>2, <1>3, ViewKept, ViewersApart
<1>13. QED
  BY <1>6, <1>10, <1>11, <1>12 DEF DashboardInv

\* The steps of others leave the additions as they are.
LEMMA AdditionsKept ==
    ASSUME DashboardInv, spent' = spent, met' = met, \A a \in Adds : viewing'[a] = viewing[a] /\ seen'[a] = seen[a]
    PROVE  AdditionsFit'
<1>1. Answered(Adds)' = Answered(Adds)
  BY DEF Answered
<1>2. QED
  BY <1>1 DEF DashboardInv, AdditionsFit, TimeIsOfAdditions

LEMMA VisitsKeep ==
    ASSUME DashboardInv, NEW c \in Visited, Join(c) \/ Open(c)
    PROVE  DashboardInv'
<1>1. DashboardShape /\ RecentsFit /\ c \in Taught
  BY CourseAssumption DEF DashboardInv
<1>2. /\ UNCHANGED <<now, spent, close, viewing, seen, left, began, before, touched, met, edits>>
      /\ \/ accessed' = [accessed EXCEPT ![c] = now] /\ opened' = opened
         \/ accessed' = accessed /\ opened' = [opened EXCEPT ![c] = now]
  BY DEF Join, Open, dataVars, requestVars, history
<1>3. now \in 0..now /\ now # 0
  BY <1>1, BoundAssumption DEF DashboardShape, Times
<1>4. DashboardShape'
  BY <1>1, <1>2, <1>3 DEF DashboardShape
<1>5. RecentsFit'
  BY <1>1, <1>2, <1>3 DEF RecentsFit, DashboardShape
<1>6. AdditionsFit'
  BY <1>2, AdditionsKept
<1>7. \A x \in Readers : ViewFits(x)'
  BY <1>2, ViewKept
<1>8. QED
  BY <1>4, <1>5, <1>6, <1>7 DEF DashboardInv

LEMMA RecentKeeps ==
    ASSUME DashboardInv, NEW r \in Recents, Recent(r)
    PROVE  DashboardInv'
<1>1. DashboardShape /\ RecentsFit
  BY DEF DashboardInv
<1>2. /\ viewing' = [viewing EXCEPT ![r] = "answered"]
      /\ UNCHANGED <<now, spent, close, accessed, left, began, opened, before, touched, met, edits>>
      /\ seen' = seen \/ \E c \in Taught : accessed[c] # 0 /\ seen' = [seen EXCEPT ![r] = {c}]
  BY DEF Recent, Pass, dataVars, history
<1>3. /\ \A x \in Viewers \ {r} : viewing'[x] = viewing[x] /\ seen'[x] = seen[x]
      /\ \A c \in seen'[r] : c \in seen[r] \/ (c \in Taught /\ accessed[c] # 0)
  BY <1>1, <1>2, ViewersApart DEF DashboardShape
<1>4. DashboardShape'
  BY <1>1, <1>2 DEF DashboardShape
<1>5. RecentsFit'
  <2>1. ASSUME NEW x \in Recents, NEW c \in seen'[x]
        PROVE  c \in Taught /\ accessed[c] # 0
    <3>1. CASE x = r
      BY <1>1, <1>3, <2>1, <3>1 DEF RecentsFit
    <3>2. CASE x # r
      BY <1>1, <1>3, <2>1, <3>2, ViewersApart DEF RecentsFit
    <3>3. QED
      BY <3>1, <3>2
  <2>2. QED
    BY <1>2, <2>1 DEF RecentsFit
<1>6. AdditionsFit'
  BY <1>2, <1>3, AdditionsKept, ViewersApart
<1>7. \A x \in Readers : ViewFits(x)'
  BY <1>2, <1>3, ViewKept, ViewersApart
<1>8. QED
  BY <1>4, <1>5, <1>6, <1>7 DEF DashboardInv

\* What is the same in the steps of a view.
LEMMA ViewStep ==
    ASSUME DashboardInv, NEW r \in Readers,
           viewing' = [viewing EXCEPT ![r] = viewing'[r]],
           seen' = [seen EXCEPT ![r] = seen'[r]],
           left' = [left EXCEPT ![r] = left'[r]], left'[r] \subseteq Taught,
           began' = [began EXCEPT ![r] = began'[r]], began'[r] \in Nat,
           before' = [before EXCEPT ![r] = before'[r]], before'[r] \in [Exercises -> Closings],
           UNCHANGED <<now, spent, close, accessed, opened, touched, met, edits>>,
           ViewFits(r)'
    PROVE  DashboardInv'
<1>1. DashboardShape /\ RecentsFit
  BY DEF DashboardInv
<1>2. \A x \in Viewers \ {r} : viewing'[x] = viewing[x] /\ seen'[x] = seen[x]
  BY <1>1, ViewersApart DEF DashboardShape
<1>3. \A x \in Readers \ {r} : left'[x] = left[x] /\ began'[x] = began[x] /\ before'[x] = before[x]
  BY <1>1 DEF DashboardShape
<1>4. DashboardShape'
  <2>1. viewing' = [x \in Viewers |-> viewing'[x]] /\ seen' = [x \in Viewers |-> seen'[x]]
    BY <1>1, ViewersApart DEF DashboardShape
  <2>2. left' \in [Readers -> SUBSET Taught] /\ began' \in [Readers -> Nat]
    BY <1>1 DEF DashboardShape
  <2>3. before' \in [Readers -> [Exercises -> Closings]]
    BY <1>1 DEF DashboardShape
  <2>4. QED
    BY <1>1, <2>1, <2>2, <2>3 DEF DashboardShape
<1>5. RecentsFit'
  BY <1>1, <1>2, ViewersApart DEF RecentsFit
<1>6. AdditionsFit'
  BY <1>2, AdditionsKept, ViewersApart
<1>7. \A x \in Readers : ViewFits(x)'
  <2>1. ASSUME NEW x \in Readers, x # r
        PROVE  ViewFits(x)'
    BY <1>2, <1>3, <2>1, ViewKept, ViewersApart
  <2>2. QED
    BY <2>1
<1>8. QED
  BY <1>4, <1>5, <1>6, <1>7 DEF DashboardInv

LEMMA BeginViewKeeps ==
    ASSUME DashboardInv, NEW r \in Readers, BeginView(r)
    PROVE  DashboardInv'
<1>1. DashboardShape /\ ViewFits(r)
  BY DEF DashboardInv
<1>2. /\ viewing[r] = "idle" /\ viewing' = [viewing EXCEPT ![r] = "reading"]
      /\ left' = [left EXCEPT ![r] = Taught]
      /\ began' = [began EXCEPT ![r] = now]
      /\ before' = [before EXCEPT ![r] = close]
      /\ UNCHANGED <<now, spent, close, accessed, seen, opened, touched, met, edits>>
  BY DEF BeginView, Pass, dataVars
<1>3. /\ viewing'[r] = "reading" /\ left'[r] = Taught /\ began'[r] = now /\ before'[r] = close
      /\ seen' = [seen EXCEPT ![r] = seen'[r]]
  BY <1>1, <1>2, ViewersApart DEF DashboardShape
<1>4. now \in Nat /\ close \in [Exercises -> Closings]
  BY <1>1, BoundAssumption DEF DashboardShape, Times
<1>5. seen'[r] = {}
  BY <1>1, <1>2 DEF ViewFits
<1>6. \A e \in Exercises : CourseOf[e] \in left'[r]
  BY <1>3, CourseAssumption
<1>7. ViewFits(r)'
  BY <1>2, <1>3, <1>5, <1>6 DEF ViewFits, ReadingFits
<1>8. QED
  BY <1>2, <1>3, <1>4, <1>7, ViewStep

LEMMA ReadCourseKeeps ==
    ASSUME DashboardInv, NEW r \in Readers, NEW c \in Taught, ReadCourse(r, c)
    PROVE  DashboardInv'
<1> DEFINE new == {<<close[e], e>> : e \in Listed(r, c)}
<1>1. DashboardShape /\ ViewFits(r) /\ r \in Viewers
  BY ViewersApart DEF DashboardInv
<1>2. /\ viewing[r] = "reading" /\ viewing' = viewing
      /\ left' = [left EXCEPT ![r] = left[r] \ {c}]
      /\ seen' = [seen EXCEPT ![r] = seen[r] \cup new]
      /\ UNCHANGED <<now, spent, close, accessed, began, opened, before, touched, met, edits>>
  BY DEF ReadCourse, dataVars, history
<1>3. \A e \in Exercises : e \in Listed(r, c) <=>
        CourseOf[e] = c /\ close[e] # Gone /\ (r \in Views => close[e] > began[r])
  BY DEF Listed, Of
<1>4. \A x \in new : \E e \in Exercises : x = <<close[e], e>> /\ e \in Listed(r, c)
  BY DEF Listed, Of
<1>5. \A e \in Exercises : e \in Listed(r, c) => <<close[e], e>> \in new
  OBVIOUS
<1> HIDE DEF new
<1>6. left'[r] = left[r] \ {c} /\ seen'[r] = seen[r] \cup new
  BY <1>1, <1>2 DEF DashboardShape
<1>7. ReadingFits(r)
  BY <1>1, <1>2 DEF ViewFits
<1>8. seen[r] \cup new \subseteq Closings \X Exercises
  <2>1. \A e \in Exercises : close[e] \in Closings
    BY <1>1 DEF DashboardShape
  <2>2. new \subseteq Closings \X Exercises
    BY <1>4, <2>1
  <2>3. QED
    BY <1>7, <2>2 DEF ReadingFits
<1>9. r \in Views => \A x \in seen[r] \cup new : x[1] > began[r]
  <2>1. ASSUME r \in Views, NEW x \in new
        PROVE  x[1] > began[r]
    BY <1>3, <1>4, <2>1
  <2>2. QED
    BY <1>7, <2>1 DEF ReadingFits
<1>10. ASSUME NEW e \in Exercises \ touched[r], before[r][e] # Gone, CourseOf[e] \notin left'[r],
              r \in Views => before[r][e] > began[r]
       PROVE  <<before[r][e], e>> \in seen[r] \cup new
  <2>1. close[e] = before[r][e]
    BY <1>7 DEF ReadingFits
  <2>2. CASE CourseOf[e] \notin left[r]
    BY <1>7, <1>10, <2>2 DEF ReadingFits
  <2>3. CASE CourseOf[e] \in left[r]
    <3>1. CourseOf[e] = c
      BY <1>6, <1>10, <2>3
    <3>2. e \in Listed(r, c)
      BY <1>3, <1>10, <2>1, <3>1
    <3>3. QED
      BY <1>5, <2>1, <3>2
  <2>4. QED
    BY <2>2, <2>3
<1>11. ReadingFits(r)'
  BY <1>2, <1>6, <1>7, <1>8, <1>9, <1>10 DEF ReadingFits
<1>12. ViewFits(r)'
  BY <1>2, <1>11 DEF ViewFits
<1>13. /\ viewing' = [viewing EXCEPT ![r] = viewing'[r]]
       /\ seen' = [seen EXCEPT ![r] = seen'[r]]
       /\ left' = [left EXCEPT ![r] = left'[r]] /\ left'[r] \subseteq Taught
       /\ began' = [began EXCEPT ![r] = began'[r]] /\ began'[r] \in Nat
       /\ before' = [before EXCEPT ![r] = before'[r]] /\ before'[r] \in [Exercises -> Closings]
  BY <1>1, <1>2, <1>6 DEF DashboardShape
<1>14. QED
  BY <1>2, <1>12, <1>13, ViewStep

LEMMA ChangeExerciseKeeps ==
    ASSUME DashboardInv, NEW e \in Exercises, ChangeExercise(e)
    PROVE  DashboardInv'
<1>1. DashboardShape /\ RecentsFit
  BY DEF DashboardInv
<1>2. PICK t \in Closings : close' = [close EXCEPT ![e] = t]
  BY DEF ChangeExercise, Closings
<1>3. /\ edits < MaxEdits /\ edits' = edits + 1
      /\ touched' = [r \in Readers |-> IF viewing[r] = "reading" THEN touched[r] \cup {e} ELSE touched[r]]
      /\ UNCHANGED <<now, spent, accessed, viewing, seen, left, began, opened, before, met>>
  BY DEF ChangeExercise, requestVars
<1>4. DashboardShape'
  BY <1>1, <1>2, <1>3, BoundAssumption DEF DashboardShape
<1>5. RecentsFit'
  BY <1>1, <1>3 DEF RecentsFit
<1>6. AdditionsFit'
  BY <1>3, AdditionsKept
<1>7. ASSUME NEW r \in Readers
      PROVE  ViewFits(r)'
  <2>1. ViewFits(r)
    BY DEF DashboardInv
  <2>2. CASE viewing[r] = "reading"
    <3>1. ReadingFits(r) /\ touched'[r] = touched[r] \cup {e}
      BY <1>3, <2>1, <2>2 DEF ViewFits
    <3>2. \A x \in Exercises \ touched'[r] : close'[x] = close[x] /\ x \notin touched[r]
      BY <1>1, <1>2, <3>1 DEF DashboardShape
    <3>3. ReadingFits(r)'
      BY <1>3, <3>1, <3>2 DEF ReadingFits
    <3>4. QED
      BY <1>3, <2>2, <3>3 DEF ViewFits
  <2>3. CASE viewing[r] # "reading"
    <3>1. touched'[r] = touched[r]
      BY <1>3, <2>3
    <3>2. QED
      BY <1>3, <2>1, <2>3, <3>1 DEF ViewFits, ShowsTheNext, IsWhole
  <2>4. QED
    BY <2>2, <2>3
<1>8. QED
  BY <1>4, <1>5, <1>6, <1>7 DEF DashboardInv

LEMMA TickKeeps ==
    ASSUME DashboardInv, Tick
    PROVE  DashboardInv'
<1>1. DashboardShape /\ RecentsFit
  BY DEF DashboardInv
<1>2. /\ now < MaxTime /\ now' = now + 1
      /\ UNCHANGED <<spent, close, accessed, viewing, seen, left, began, opened, before, touched, met, edits>>
  BY DEF Tick, requestVars, history
<1>3. DashboardShape'
  <2>1. now \in Nat /\ now' \in Times /\ 0..now \subseteq 0..now'
    BY <1>1, <1>2, BoundAssumption DEF DashboardShape, Times
  <2>2. accessed \in [Taught -> 0..now'] /\ opened \in [Taught -> 0..now']
    BY <1>1, <2>1 DEF DashboardShape
  <2>3. QED
    BY <1>1, <1>2, <2>1, <2>2 DEF DashboardShape
<1>4. RecentsFit'
  BY <1>1, <1>2 DEF RecentsFit
<1>5. AdditionsFit'
  BY <1>2, AdditionsKept
<1>6. \A x \in Readers : ViewFits(x)'
  BY <1>2, ViewKept
<1>7. QED
  BY <1>3, <1>4, <1>5, <1>6 DEF DashboardInv

\* The events of a view are finitely many.
LEMMA EventsAreFinite == IsFiniteSet(Closings \X Exercises)
<1>1. IsFiniteSet(Times)
  BY BoundAssumption, FS_Interval DEF Times
<1>2. IsFiniteSet({Gone, Never})
  <2>1. IsFiniteSet({} \cup {Gone})
    BY FS_EmptySet, FS_AddElement
  <2>2. {Gone} = {} \cup {Gone} /\ {Gone, Never} = {Gone} \cup {Never}
    OBVIOUS
  <2>3. QED
    BY <2>1, <2>2, FS_AddElement
<1>3. IsFiniteSet(Closings)
  BY <1>1, <1>2, FS_Union DEF Closings
<1>4. QED
  BY <1>3, ViewersAssumption, FS_Product

\* The first of a sorted list: not more than there is place for, and what is not among
\* them closes no earlier.
LEMMA FirstsOfSorted ==
    ASSUME NEW S, S \subseteq Closings \X Exercises, NEW s \in Sorted(S), NEW T,
           T = {s[i] : i \in {i \in DOMAIN s : i <= Shown}}
    PROVE  /\ T \subseteq S /\ Cardinality(T) <= Shown
           /\ \A x \in S \ T : Cardinality(T) = Shown /\ \A y \in T : y[1] <= x[1]
<1> DEFINE n == Cardinality(S)
           k == IF n <= Shown THEN n ELSE Shown
<1>1. IsFiniteSet(S)
  BY EventsAreFinite, FS_Subset
<1>2. s \in SetToSeqs(S) /\ \A i, j \in DOMAIN s : i < j => s[i][1] <= s[j][1]
  BY DEF Sorted
<1>3. /\ n \in Nat /\ s \in [1..n -> S] /\ DOMAIN s = 1..n
      /\ \A x \in S : \E i \in 1..n : s[i] = x
  BY <1>1, <1>2, ListsOfASet
<1>4. Shown \in Nat
  BY BoundAssumption
<1>5. k \in 0..n /\ {i \in DOMAIN s : i <= Shown} = 1..k
  BY <1>3, <1>4
<1>6. T = {s[i] : i \in 1..k}
  BY <1>5
<1>7. Cardinality(T) = k
  <2>1. s \in SetToSeqs(S) /\ k \in 0..Cardinality(S)
    BY <1>2, <1>5
  <2> HIDE DEF k
  <2>2. Cardinality({s[i] : i \in 1..k}) = k
    BY ONLY <1>1, <2>1, FirstsAreSoMany
  <2>3. QED
    BY ONLY <1>6, <2>2
<1> HIDE DEF n
<1>8. T \subseteq S
  BY <1>3, <1>5, <1>6
<1>9. ASSUME NEW x \in S \ T
      PROVE  k = Shown /\ \A y \in T : y[1] <= x[1]
  <2>1. PICK j \in 1..n : s[j] = x
    BY <1>3
  <2>2. j \notin 1..k
    BY <1>6, <1>9, <2>1
  <2>3. k = Shown /\ \A i \in 1..k : i < j /\ i \in DOMAIN s
    BY <1>3, <1>4, <2>2
  <2>4. \A y \in T : y[1] <= x[1]
    BY <1>2, <1>3, <1>6, <2>1, <2>3
  <2>5. QED
    BY <2>3, <2>4
<1>10. k <= Shown
  BY <1>3, <1>4
<1>11. QED
  BY <1>7, <1>8, <1>9, <1>10

LEMMA FinishKeeps ==
    ASSUME DashboardInv, NEW r \in Readers, Finish(r)
    PROVE  DashboardInv'
<1>1. DashboardShape /\ ViewFits(r) /\ r \in Viewers
  BY ViewersApart DEF DashboardInv
<1>2. left[r] = {} /\ UNCHANGED <<now, spent, close, accessed, left, began, opened, before, touched, met, edits>>
  BY DEF Finish, dataVars, history
<1>3. /\ left' = [left EXCEPT ![r] = left'[r]] /\ left'[r] \subseteq Taught
      /\ began' = [began EXCEPT ![r] = began'[r]] /\ began'[r] \in Nat
      /\ before' = [before EXCEPT ![r] = before'[r]] /\ before'[r] \in [Exercises -> Closings]
  BY <1>1, <1>2 DEF DashboardShape
<1>4. viewing[r] = "reading"
  BY DEF Finish, Pass
<1>5. ReadingFits(r)
  BY <1>1, <1>4 DEF ViewFits
<1>6. CASE viewing' = [viewing EXCEPT ![r] = "failed"] /\ seen' = seen
  <2>1. viewing'[r] = "failed" /\ seen' = [seen EXCEPT ![r] = seen'[r]]
    BY <1>1, <1>6 DEF DashboardShape
  <2>2. ViewFits(r)'
    BY <2>1 DEF ViewFits
  <2>3. viewing' = [viewing EXCEPT ![r] = viewing'[r]]
    BY <1>6, <2>1
  <2>4. QED
    BY <1>2, <1>3, <2>1, <2>2, <2>3, ViewStep
<1>7. ASSUME viewing' = [viewing EXCEPT ![r] = "answered"],
             NEW s \in Sorted(seen[r]),
             seen' = [seen EXCEPT ![r] = {s[i] : i \in {i \in DOMAIN s : r \in Views => i <= Shown}}]
      PROVE  DashboardInv'
  <2> DEFINE T == {s[i] : i \in {i \in DOMAIN s : r \in Views => i <= Shown}}
  <2>1. viewing'[r] = "answered" /\ seen'[r] = T
    BY <1>1, <1>7 DEF DashboardShape
  <2>2. r \in Views => T = {s[i] : i \in {i \in DOMAIN s : i <= Shown}}
    OBVIOUS
  <2>3. r \notin Views => T = {s[i] : i \in DOMAIN s}
    OBVIOUS
  <2> HIDE DEF T
  <2>4. seen[r] \subseteq Closings \X Exercises
    BY <1>5 DEF ReadingFits
  <2>5. \A e \in Exercises : CourseOf[e] \notin left[r]
    BY <1>2
  <2>6. r \in Views => ShowsTheNext(r)'
    <3>1. SUFFICES ASSUME r \in Views
                   PROVE  ShowsTheNext(r)'
      OBVIOUS
    <3>2. /\ T \subseteq seen[r] /\ Cardinality(T) <= Shown
          /\ \A x \in seen[r] \ T : Cardinality(T) = Shown /\ \A y \in T : y[1] <= x[1]
      <4>1. s \in Sorted(seen[r]) /\ T = {s[i] : i \in {i \in DOMAIN s : i <= Shown}}
        BY <1>7, <2>2, <3>1
      <4>2. QED
        BY <2>4, <4>1, FirstsOfSorted
    <3>3. \A e \in T : e[1] > began[r]
      BY <1>5, <3>1, <3>2 DEF ReadingFits
    <3>4. ASSUME NEW e \in Exercises, e \notin touched[r], before[r][e] > began[r]
          PROVE  \/ <<before[r][e], e>> \in T
                 \/ Cardinality(T) = Shown /\ \A y \in T : y[1] <= before[r][e]
      <4>1. before[r][e] # Gone
        <5>1. before[r][e] \in Closings /\ began[r] \in Nat
          BY <1>1 DEF DashboardShape
        <5>2. Gone < 0
          BY DEF Gone
        <5>3. QED
          BY <3>4, <5>1, <5>2 DEF Closings, Times, Gone, Never
      <4>2. <<before[r][e], e>> \in seen[r]
        BY <1>5, <2>5, <3>4, <4>1 DEF ReadingFits
      <4>3. QED
        BY <3>2, <4>2
    <3>5. QED
      BY <1>2, <2>1, <3>2, <3>3, <3>4 DEF ShowsTheNext
  <2>7. r \in Schedules => IsWhole(r)'
    <3>1. SUFFICES ASSUME r \in Schedules
                   PROVE  IsWhole(r)'
      OBVIOUS
    <3>2. r \notin Views
      BY <3>1, ViewersApart
    <3>3. T = seen[r]
      <4>1. IsFiniteSet(seen[r]) /\ s \in SetToSeqs(seen[r])
        BY <1>7, <2>4, EventsAreFinite, FS_Subset DEF Sorted
      <4>2. T = {s[i] : i \in DOMAIN s}
        BY <2>3, <3>2
      <4>3. DOMAIN s = 1..Cardinality(seen[r]) /\ s \in [1..Cardinality(seen[r]) -> seen[r]]
        BY <4>1, ListsOfASet
      <4>4. \A x \in seen[r] : \E i \in DOMAIN s : s[i] = x
        BY <4>1, <4>3, ListsOfASet
      <4>5. QED
        BY <4>2, <4>3, <4>4
    <3>4. \A e \in Exercises : e \notin touched[r] /\ before[r][e] # Gone => <<before[r][e], e>> \in T
      BY <1>5, <2>5, <3>2, <3>3 DEF ReadingFits
    <3>5. QED
      BY <1>2, <2>1, <3>4 DEF IsWhole
  <2>8. ViewFits(r)'
    BY <2>1, <2>6, <2>7 DEF ViewFits
  <2>9. viewing' = [viewing EXCEPT ![r] = viewing'[r]] /\ seen' = [seen EXCEPT ![r] = seen'[r]]
    BY <1>7, <2>1 DEF T
  <2>10. QED
    BY <1>2, <1>3, <2>8, <2>9, ViewStep
<1>8. QED
  BY <1>6, <1>7 DEF Finish, Pass

LEMMA DashboardNextInv == DashboardInv /\ [DashboardNext]_dashboardVars => DashboardInv'
<1> SUFFICES ASSUME DashboardInv, [DashboardNext]_dashboardVars
             PROVE  DashboardInv'
  OBVIOUS
<1>1. CASE \E r \in Viewers : ReadTime(r) \/ WriteTime(r) \/ Recent(r) \/ BeginView(r)
  BY <1>1, ReadTimeKeeps, WriteTimeKeeps, RecentKeeps, BeginViewKeeps
     DEF ReadTime, WriteTime, Recent, BeginView
<1>2. CASE \E c \in Visited : Join(c) \/ Open(c)
  BY <1>2, VisitsKeep
<1>3. CASE \E r \in Readers : Finish(r) \/ \E c \in Taught : ReadCourse(r, c)
  BY <1>3, FinishKeeps, ReadCourseKeeps
<1>4. CASE \E e \in Exercises : ChangeExercise(e)
  BY <1>4, ChangeExerciseKeeps
<1>5. CASE Tick
  BY <1>5, TickKeeps
<1>6. CASE UNCHANGED dashboardVars
  <2>1. UNCHANGED <<now, spent, close, accessed, viewing, seen, left, began, opened, before, touched, met, edits>>
    BY <1>6 DEF dashboardVars, dataVars, requestVars, history
  <2>2. DashboardShape' /\ RecentsFit'
    BY <2>1 DEF DashboardInv, DashboardShape, RecentsFit
  <2>3. AdditionsFit'
    BY <2>1, AdditionsKept
  <2>4. \A r \in Readers : ViewFits(r)'
    BY <2>1, ViewKept
  <2>5. QED
    BY <2>2, <2>3, <2>4 DEF DashboardInv
<1>7. QED
  BY <1>1, <1>2, <1>3, <1>4, <1>5, <1>6 DEF DashboardNext

\* The variables of the dashboards keep their types; what a recent course shows is enrolled in.
THEOREM DashboardTypesHold == DashboardSpec => []DashboardTypeOK
<1>1. DashboardSpec => []DashboardInv
  BY DashboardInitInv, DashboardNextInv, PTL DEF DashboardSpec
<1>2. DashboardInv => DashboardTypeOK
  <2> SUFFICES ASSUME DashboardInv
               PROVE  DashboardTypeOK
    OBVIOUS
  <2>1. DashboardShape /\ RecentsFit
    BY DEF DashboardInv
  <2>2. \A c \in Taught : accessed[c] <= now /\ opened[c] <= now
    BY <2>1, BoundAssumption DEF DashboardShape, Times
  <2>3. \A r \in Readers : left[r] \subseteq Taught
    BY <2>1 DEF DashboardShape
  <2>4. QED
    BY <2>1, <2>2, <2>3 DEF DashboardTypeOK, DashboardShape, RecentsFit, Closings
<1>3. QED
  BY <1>1, <1>2, PTL

\* Of any exercises, changed as often as may be while a view reads course by course, a
\* dashboard shows those that close next and a schedule all (dashboard.py:158,
\* schedule.py:20); and of any additions of time none is lost that did not overlap with
\* another (progress_tracking.py:157).
THEOREM WhatIsShownIsWhole == DashboardSpec => []ShownIsWhole
<1>1. DashboardSpec => []DashboardInv
  BY DashboardInitInv, DashboardNextInv, PTL DEF DashboardSpec
<1>2. DashboardInv => ShownIsWhole
  <2> SUFFICES ASSUME DashboardInv
               PROVE  ShownIsWhole
    OBVIOUS
  <2>1. \A r \in Answered(Views) : ShowsTheNext(r)
    BY ViewersApart DEF DashboardInv, ViewFits, Answered
  <2>2. \A r \in Answered(Schedules) : IsWhole(r)
    BY ViewersApart DEF DashboardInv, ViewFits, Answered
  <2>3. TimeIsOfAdditions
    BY DEF DashboardInv, AdditionsFit
  <2>4. DashboardsShowTheNext
    BY <2>1 DEF DashboardsShowTheNext, ShowsTheNext
  <2>5. SchedulesAreWhole
    BY <2>2 DEF SchedulesAreWhole, IsWhole
  <2>6. QED
    BY <2>3, <2>4, <2>5 DEF ShownIsWhole
<1>3. QED
  BY <1>1, <1>2, PTL

-----------------------------------------------------------------------------
(* The inductive invariant of the listings.                                *)

ListingShape ==
    /\ rows = [c \in DOMAIN rows |-> rows[c]] /\ DOMAIN rows \subseteq Catalogue
    /\ \A c \in DOMAIN rows : rows[c].date \in Dates /\ rows[c].own \in BOOLEAN /\ rows[c].since \in 0..clock
    /\ \A c \in DOMAIN rows : DOMAIN rows[c] = {"date", "own", "since"}
    /\ clock \in 0..MaxChanges
    /\ DOMAIN walk = {"list", "stop", "page", "pages", "seen", "content"}
    /\ walk.list \in Lists /\ walk.stop \in Stops
    /\ walk.page \in 1..MaxPage + 1 /\ walk.pages \in Nat
    /\ walk.seen \subseteq Catalogue
    /\ walk.content \in Seq(Catalogue) /\ Len(walk.content) <= PageSize
    /\ reading \in {"start", "asking", "fetched", "done", "failed"}
    /\ wanted \subseteq Catalogue
    /\ tied \in BOOLEAN /\ shrunk \in BOOLEAN /\ repeated \in BOOLEAN

\* The courses before one in a list: their number is its place.
AheadOf(list, c) ==
    {d \in Members(list) : IF list = "student" THEN rows[d].since < rows[c].since ELSE rows[d].date > rows[c].date}
Place(list, c) == Cardinality(AheadOf(list, c))

\* How many courses are on the pages before the next.
Behind(page) == (page - 1) * PageSize

\* While a client reads, nothing is known of a course but what its list says; before, nothing.
WalkFits ==
    /\ reading = "start" => walk.page = 1 /\ walk.seen = {} /\ ~ shrunk /\ ~ repeated /\ wanted = {}
    /\ reading \in {"asking", "fetched"} => walk.page <= MaxPage
    /\ reading = "fetched" => walk.list = "admin"
    /\ wanted \subseteq DOMAIN rows
    /\ reading # "start" /\ ~ tied => ~ Ties(rows)

\* An administrator has seen whoever has a place on the pages behind.
AdminFits ==
    walk.list = "admin" /\ walk.stop = "by totals" /\ ~ tied /\ ~ shrunk =>
      /\ reading = "asking" => \A c \in wanted : Place("admin", c) < Behind(walk.page) => c \in walk.seen
      /\ reading = "fetched" => \A c \in wanted : Place("admin", c) < Behind(walk.page + 1) =>
                                  c \in walk.seen \cup ToSet(walk.content)
      /\ reading = "done" /\ walk.page <= MaxPage => wanted \subseteq walk.seen

\* Enrolments come one after the other, and each at the end of the student's list.
EnrolmentsDiffer ==
    \A c, d \in Members("student") : rows[c].since = rows[d].since => c = d

\* A student has seen those on the pages behind, and nobody else.
StudentFits ==
    walk.list = "student" /\ walk.stop = "by an empty page" /\ ~ shrunk =>
      /\ wanted \subseteq Members("student") /\ walk.seen \subseteq Members("student")
      /\ reading = "asking" =>
           /\ ~ repeated
           /\ \A c \in walk.seen : Place("student", c) < Behind(walk.page)
           /\ \A c \in wanted : Place("student", c) < Behind(walk.page) => c \in walk.seen
      /\ reading = "done" /\ walk.page <= MaxPage => wanted \subseteq walk.seen /\ ~ repeated

ListingInv == ListingShape /\ WalkFits /\ AdminFits /\ EnrolmentsDiffer /\ StudentFits

-----------------------------------------------------------------------------
(* Pages.                                                                  *)

\* The arithmetic of pages.
LEMMA PageNumbers ==
    ASSUME NEW page \in Nat \ {0}
    PROVE  /\ Behind(page) \in Nat /\ Behind(page + 1) = Behind(page) + PageSize
           /\ Behind(page + 1) = page * PageSize /\ Behind(1) = 0
<1>1. PageSize \in Nat \ {0}
  BY SizeAssumption
<1>2. (page + 1) - 1 = page /\ page - 1 \in Nat /\ 1 - 1 = 0
  OBVIOUS
<1>3. \A a \in Nat : a * PageSize \in Nat /\ (a + 1) * PageSize = a * PageSize + PageSize
  BY <1>1
<1>4. 0 * PageSize = 0
  BY <1>1
<1>5. page * PageSize = (page - 1) * PageSize + PageSize /\ (page - 1) * PageSize \in Nat
  <2>1. page = (page - 1) + 1
    OBVIOUS
  <2>2. QED
    BY <1>2, <1>3, <2>1
<1>6. QED
  BY <1>2, <1>4, <1>5 DEF Behind

\* So many pages as the totals announce hold all.
LEMMA AllPagesHoldAll ==
    ASSUME NEW n \in Nat
    PROVE  /\ Ceil(n) \in Nat
           /\ \A page \in Nat \ {0} : ~ (page < Ceil(n)) => n <= Behind(page + 1)
<1> DEFINE a == n + PageSize - 1
           q == a \div PageSize
           r == a % PageSize
<1>1. PageSize \in Nat \ {0} /\ a \in Nat
  BY SizeAssumption
<1> HIDE DEF a
<1>2. q \in Nat /\ r \in 0..(PageSize - 1) /\ a = PageSize * q + r
  BY <1>1
<1> HIDE DEF q, r
<1>3. Ceil(n) = q
  BY DEF Ceil, q, a
<1>4. ASSUME NEW page \in Nat \ {0}, ~ (page < q)
      PROVE  n <= page * PageSize
  <2>1. PageSize * q <= page * PageSize
    <3>1. PICK k \in Nat : page = q + k
      <4>1. page - q \in Nat /\ page = q + (page - q)
        BY <1>2, <1>4
      <4>2. QED
        BY <4>1
    <3>2. page * PageSize = PageSize * q + k * PageSize
      BY <1>1, <1>2, <3>1
    <3>3. k * PageSize \in Nat /\ PageSize * q \in Nat
      BY <1>1, <1>2
    <3>4. QED
      BY <3>2, <3>3
  <2>2. PageSize * q \in Nat /\ page * PageSize \in Nat
    BY <1>1, <1>2
  <2> DEFINE u == PageSize * q
             v == page * PageSize
  <2>3. u <= v /\ u \in Nat /\ v \in Nat /\ n + PageSize - 1 = u + r
    BY <1>2, <2>1, <2>2 DEF a
  <2> HIDE DEF u, v
  <2>4. n <= v
    BY <1>1, <1>2, <2>3
  <2>5. QED
    BY <2>4 DEF v
<1>5. QED
  BY <1>2, <1>3, <1>4, PageNumbers

\* A page of a sequence.
LEMMA SliceFacts ==
    ASSUME NEW X, NEW t \in Seq(X), NEW page \in Nat \ {0}
    PROVE  /\ Slice(t, page) \in Seq(X) /\ Len(Slice(t, page)) <= PageSize
           /\ ToSet(Slice(t, page)) = {t[i] : i \in {i \in 1..Len(t) : Behind(page) < i /\ i <= Behind(page + 1)}}
           /\ Slice(t, page) = <<>> <=> Len(t) <= Behind(page)
<1> DEFINE b == Behind(page)
           e == Behind(page + 1)
           n == Len(t)
           z == Min({page * PageSize, n})
<1>1. b \in Nat /\ e = b + PageSize /\ e = page * PageSize /\ n \in Nat /\ PageSize \in Nat \ {0}
  <2>1. n \in Nat
    OBVIOUS
  <2> HIDE DEF n
  <2>2. QED
    BY <2>1, PageNumbers, SizeAssumption
<1>2. (page - 1) * PageSize = b
  BY DEF Behind
<1> HIDE DEF b, e, n
<1>3. z = IF e <= n THEN e ELSE n
  <2>1. z = Min({e, n})
    BY <1>1
  <2>2. e \in Int /\ n \in Int
    BY <1>1
  <2> DEFINE S == {e, n}
             m == IF e <= n THEN e ELSE n
  <2>3. m \in S /\ \A y \in S : m <= y
    BY <2>2
  <2>4. \A x \in S : (\A y \in S : x <= y) => x = m
    BY <2>2
  <2>5. Min(S) = CHOOSE x \in S : \A y \in S : x <= y
    BY DEF Min
  <2> HIDE DEF S, m
  <2>6. Min(S) = m
    BY <2>3, <2>4, <2>5
  <2>7. QED
    BY <2>1, <2>6 DEF S, m
<1>4. Slice(t, page) = SubSeq(t, b + 1, z)
  BY <1>2 DEF Slice, n
<1> HIDE DEF z
<1>5. \A i \in (b + 1)..z : i \in 1..n /\ t[i] \in X
  <2>1. \A i \in 1..n : t[i] \in X
    BY DEF n
  <2>2. QED
    BY <1>1, <1>3, <2>1
<1> DEFINE s == SubSeq(t, b + 1, z)
<1>6. b + 1 \in Int /\ z \in Int
  BY <1>1, <1>3
<1>7. /\ s \in Seq(X) /\ Len(s) = IF b + 1 <= z THEN z - (b + 1) + 1 ELSE 0
      /\ \A i \in 1..(z - (b + 1) + 1) : s[i] = t[(b + 1) + i - 1]
  BY <1>5, <1>6, SubSeqProperties
<1> HIDE DEF s
<1>8. Len(s) <= PageSize
  BY <1>1, <1>3, <1>7
<1>9. s = <<>> <=> n <= b
  <2>1. s = <<>> <=> Len(s) = 0
    BY <1>7
  <2>2. Len(s) = 0 <=> n <= b
    BY <1>1, <1>3, <1>7
  <2>3. QED
    BY <2>1, <2>2
<1>10. DOMAIN s = 1..Len(s) /\ Len(s) \in Nat
  BY <1>7
<1>11. ASSUME NEW i \in {i \in 1..n : b < i /\ i <= e}
       PROVE  i - b \in 1..Len(s) /\ s[i - b] = t[i]
  <2>1. i \in Nat /\ b < i /\ i <= z /\ i - b \in 1..(z - (b + 1) + 1)
    BY <1>1, <1>3, <1>11
  <2>2. (b + 1) + (i - b) - 1 = i
    BY <1>1, <2>1
  <2>3. QED
    BY <1>1, <1>6, <1>7, <2>1, <2>2
<1>12. ASSUME NEW j \in 1..Len(s)
       PROVE  \E i \in {i \in 1..n : b < i /\ i <= e} : s[j] = t[i]
  <2>1. j \in 1..(z - (b + 1) + 1) /\ b + j \in (b + 1)..z /\ (b + 1) + j - 1 = b + j
    BY <1>1, <1>6, <1>7, <1>12
  <2>2. b + j \in 1..n /\ b < b + j /\ b + j <= e
    BY <1>1, <1>3, <1>5, <2>1
  <2>3. s[j] = t[b + j]
    BY <1>7, <2>1
  <2>4. QED
    BY <2>2, <2>3
<1>13. ToSet(s) = {t[i] : i \in {i \in 1..n : b < i /\ i <= e}}
  BY <1>10, <1>11, <1>12, SMTT(30) DEF ToSet
<1>14. QED
  BY <1>4, <1>7, <1>8, <1>9, <1>13 DEF b, e, n, s

-----------------------------------------------------------------------------
(* Places in a list.                                                       *)

\* No two of a list are at one place of its order.
Strict(list) ==
    \A c, d \in Members(list) :
      c # d => IF list = "student" THEN rows[c].since # rows[d].since ELSE rows[c].date # rows[d].date

LEMMA RowNumbers ==
    ASSUME ListingShape
    PROVE  /\ \A c \in DOMAIN rows : rows[c].date \in Int /\ rows[c].since \in Int
           /\ \A list : Members(list) \subseteq DOMAIN rows /\ IsFiniteSet(Members(list))
           /\ \A list, c : AheadOf(list, c) \subseteq Members(list) /\ IsFiniteSet(AheadOf(list, c))
                           /\ Place(list, c) \in Nat
<1>1. \A c \in DOMAIN rows : rows[c].date \in Int /\ rows[c].since \in Int
  BY SizeAssumption DEF ListingShape
<1>2. \A list : Members(list) \subseteq DOMAIN rows /\ Members(list) \subseteq Catalogue
  BY DEF Members, ListingShape
<1>3. \A list, c : AheadOf(list, c) \subseteq Members(list)
  BY DEF AheadOf
<1>4. \A S : S \subseteq Catalogue => IsFiniteSet(S) /\ Cardinality(S) \in Nat
  BY CatalogueAssumption, FS_Subset, FS_CardinalityType
<1>5. \A list, c : AheadOf(list, c) \subseteq Catalogue
  BY <1>2, <1>3
<1>6. \A list, c : IsFiniteSet(AheadOf(list, c)) /\ Place(list, c) \in Nat
  BY <1>4, <1>5 DEF Place
<1>7. QED
  BY <1>1, <1>2, <1>3, <1>4, <1>6

\* In a list in which no two are at one place of the order, the i-th has i - 1 before it.
LEMMA PlaceInList ==
    ASSUME ListingShape, NEW list, Strict(list), NEW s \in Ordered(list),
           NEW i \in 1..Cardinality(Members(list))
    PROVE  Place(list, s[i]) = i - 1
<1> DEFINE M == Members(list)
           n == Cardinality(M)
<1>1. IsFiniteSet(M) /\ M \subseteq DOMAIN rows
  BY RowNumbers
<1>2. s \in SetToSeqs(M) /\ \A j, k \in DOMAIN s : j < k => Before(list, s[j], s[k])
  BY DEF Ordered
<1>3. /\ n \in Nat /\ s \in [1..n -> M] /\ DOMAIN s = 1..n
      /\ \A j, k \in 1..n : s[j] = s[k] => j = k
      /\ \A x \in M : \E j \in 1..n : s[j] = x
  BY <1>1, <1>2, ListsOfASet
<1>4. i - 1 \in 0..n
  BY <1>3
<1>a. s \in SetToSeqs(M) /\ i - 1 \in 0..Cardinality(M) /\ IsFiniteSet(M)
  BY <1>1, <1>2, <1>4
<1> HIDE DEF M, n
<1>5. IsFiniteSet({s[j] : j \in 1..(i - 1)}) /\ Cardinality({s[j] : j \in 1..(i - 1)}) = i - 1
  <2> DEFINE k == i - 1
  <2>1. s \in SetToSeqs(M) /\ k \in 0..Cardinality(M) /\ IsFiniteSet(M)
    BY <1>a
  <2> HIDE DEF k
  <2>2. IsFiniteSet({s[j] : j \in 1..k}) /\ Cardinality({s[j] : j \in 1..k}) = k
    BY ONLY <2>1, FirstsAreSoMany, ZenonT(40)
  <2>3. QED
    BY ONLY <2>2, Zenon DEF k
<1>6. ASSUME NEW j \in 1..n, NEW k \in 1..n, j < k
      PROVE  s[j] \in AheadOf(list, s[k]) /\ s[k] \notin AheadOf(list, s[j])
  <2>1. Before(list, s[j], s[k]) /\ s[j] # s[k] /\ s[j] \in M /\ s[k] \in M
    BY <1>2, <1>3, <1>6
  <2>2. s[j] \in DOMAIN rows /\ s[k] \in DOMAIN rows
    BY <1>1, <2>1
  <2>3. /\ rows[s[j]].date \in Int /\ rows[s[j]].since \in Int
        /\ rows[s[k]].date \in Int /\ rows[s[k]].since \in Int
    BY <2>2, RowNumbers
  <2>4. IF list = "student" THEN rows[s[j]].since # rows[s[k]].since ELSE rows[s[j]].date # rows[s[k]].date
    BY <2>1 DEF Strict, M
  <2>5. CASE list = "student"
    BY <2>1, <2>3, <2>4, <2>5 DEF Before, AheadOf, M
  <2>6. CASE list # "student"
    BY <2>1, <2>3, <2>4, <2>6 DEF Before, AheadOf, M
  <2>7. QED
    BY <2>5, <2>6
<1>7. i \in 1..n
  BY DEF n, M
<1>8. s[i] \notin AheadOf(list, s[i])
  <2>1. s[i] \in DOMAIN rows
    BY <1>1, <1>3, <1>7
  <2>2. rows[s[i]].date \in Int /\ rows[s[i]].since \in Int
    BY <2>1, RowNumbers
  <2>3. QED
    BY <2>2 DEF AheadOf
<1>9. AheadOf(list, s[i]) = {s[j] : j \in 1..(i - 1)}
  <2>1. \A j \in 1..(i - 1) : j \in 1..n /\ j < i
    BY <1>3, <1>7
  <2>2. {s[j] : j \in 1..(i - 1)} \subseteq AheadOf(list, s[i])
    BY <1>6, <1>7, <2>1
  <2>3. ASSUME NEW d \in AheadOf(list, s[i])
        PROVE  d \in {s[j] : j \in 1..(i - 1)}
    <3>1. d \in M
      BY RowNumbers DEF M
    <3>2. PICK j \in 1..n : s[j] = d
      BY <1>3, <3>1
    <3>3. j # i
      BY <1>8, <2>3, <3>2
    <3>4. ~ (i < j)
      BY <1>6, <1>7, <2>3, <3>2
    <3>5. j \in 1..(i - 1)
      BY <1>3, <1>7, <3>2, <3>3, <3>4
    <3>6. QED
      BY <3>2, <3>5
  <2>4. QED
    BY <2>2, <2>3
<1>10. QED
  BY <1>5, <1>9 DEF Place

\* A page has who has a place on it, and it is empty when all have a place before it.
LEMMA PageOfList ==
    ASSUME ListingShape, NEW list, Strict(list), NEW s \in Ordered(list), NEW page \in Nat \ {0}
    PROVE  /\ \A c \in Members(list) : Place(list, c) < Cardinality(Members(list))
           /\ Cardinality(Members(list)) \in Nat
           /\ ToSet(Slice(s, page)) \subseteq Members(list)
           /\ \A c \in Members(list) :
                c \in ToSet(Slice(s, page)) <=> Behind(page) <= Place(list, c) /\ Place(list, c) < Behind(page + 1)
           /\ Slice(s, page) = <<>> <=> Cardinality(Members(list)) <= Behind(page)
<1> DEFINE M == Members(list)
           n == Cardinality(M)
           b == Behind(page)
           e == Behind(page + 1)
           P(c) == Place(list, c)
<1>1. IsFiniteSet(M)
  BY RowNumbers
<1>2. s \in SetToSeqs(M)
  BY DEF Ordered
<1>3. /\ n \in Nat /\ s \in [1..n -> M]
      /\ \A x \in M : \E j \in 1..n : s[j] = x
      /\ s \in Seq(M) /\ Len(s) = n
  BY <1>1, <1>2, ListsOfASet
<1>4. /\ ToSet(Slice(s, page)) = {s[i] : i \in {i \in 1..n : b < i /\ i <= e}}
      /\ Slice(s, page) = <<>> <=> n <= b
  <2>1. s \in Seq(M) /\ Len(s) = n
    BY <1>3
  <2> HIDE DEF M, n
  <2>2. ToSet(Slice(s, page)) = {s[i] : i \in {i \in 1..Len(s) : Behind(page) < i /\ i <= Behind(page + 1)}}
    BY ONLY <2>1, page \in Nat \ {0}, SliceFacts, Zenon
  <2>3. Slice(s, page) = <<>> <=> Len(s) <= Behind(page)
    BY <2>1, SliceFacts
  <2>4. QED
    BY <2>1, <2>2, <2>3
<1>5. \A i \in 1..n : P(s[i]) = i - 1
  BY PlaceInList
<1>6. b \in Nat /\ e \in Nat
  BY PageNumbers, SizeAssumption, SMTT(30)
<1> HIDE DEF M, n, b, e, P
<1>7. \A c \in M : \E i \in 1..n : s[i] = c /\ P(c) = i - 1
  BY <1>3, <1>5
<1>8. \A c \in M : P(c) < n
  BY <1>3, <1>7
<1>9. ASSUME NEW c \in M
      PROVE  c \in ToSet(Slice(s, page)) <=> b <= P(c) /\ P(c) < e
  <2>1. PICK i \in 1..n : s[i] = c /\ P(c) = i - 1
    BY <1>7
  <2>2. c \in ToSet(Slice(s, page)) => b <= P(c) /\ P(c) < e
    <3>1. SUFFICES ASSUME c \in ToSet(Slice(s, page))
                   PROVE  b <= P(c) /\ P(c) < e
      OBVIOUS
    <3>2. PICK j \in 1..n : b < j /\ j <= e /\ s[j] = c
      BY <1>4, <3>1
    <3>3. P(c) = j - 1
      BY <1>5, <3>2
    <3>4. QED
      BY <1>3, <1>6, <3>2, <3>3
  <2>3. b <= P(c) /\ P(c) < e => c \in ToSet(Slice(s, page))
    <3>1. b <= P(c) /\ P(c) < e => b < i /\ i <= e
      BY <1>3, <1>6, <2>1
    <3>2. QED
      BY <1>4, <2>1, <3>1
  <2>4. QED
    BY <2>2, <2>3
<1>10. ToSet(Slice(s, page)) \subseteq M
  BY <1>3, <1>4
<1>11. QED
  BY <1>3, <1>4, <1>8, <1>9, <1>10 DEF M, n, b, e, P

\* What is within the catalogue is finite, and no more than what it is within.
LEMMA FewerAreLess ==
    ASSUME NEW T, T \subseteq Catalogue, NEW S, S \subseteq T
    PROVE  /\ IsFiniteSet(T) /\ Cardinality(T) \in Nat
           /\ IsFiniteSet(S) /\ Cardinality(S) \in Nat
           /\ Cardinality(S) <= Cardinality(T)
           /\ Cardinality(S) = Cardinality(T) => S = T
<1>1. IsFiniteSet(T)
  BY CatalogueAssumption, FS_Subset
<1>2. IsFiniteSet(S) /\ Cardinality(S) <= Cardinality(T) /\ (Cardinality(S) = Cardinality(T) => S = T)
  BY <1>1, FS_Subset
<1>3. QED
  BY <1>1, <1>2, FS_CardinalityType

\* The place of a listed course is within the list.
LEMMA PlaceIsInTheList ==
    ASSUME ListingShape, NEW list, NEW c \in Members(list)
    PROVE  Place(list, c) < Cardinality(Members(list)) /\ Cardinality(Members(list)) \in Nat
<1> DEFINE M == Members(list)
           A == AheadOf(list, c)
<1>1. M \subseteq Catalogue /\ c \in M /\ c \in DOMAIN rows
  BY DEF Members, ListingShape
<1>2. rows[c].date \in Int /\ rows[c].since \in Int
  BY <1>1, RowNumbers
<1>3. A \subseteq M /\ c \notin A
  BY <1>2 DEF AheadOf
<1> HIDE DEF M, A
<1>4. A # M
  BY <1>1, <1>3
<1>5. /\ Cardinality(A) \in Nat /\ Cardinality(M) \in Nat
      /\ Cardinality(A) <= Cardinality(M) /\ Cardinality(A) # Cardinality(M)
  BY <1>1, <1>3, <1>4, FewerAreLess
<1>6. Cardinality(A) < Cardinality(M)
  BY <1>5
<1>7. QED
  BY <1>5, <1>6 DEF Place, M, A

\* What is listed, and where, depends on the rows.
LEMMA SamePlaces ==
    ASSUME UNCHANGED rows, NEW list
    PROVE  /\ Members(list)' = Members(list)
           /\ \A c : AheadOf(list, c)' = AheadOf(list, c) /\ Place(list, c)' = Place(list, c)
<1>1. \A c : Member(list, c)' = Member(list, c)
  BY DEF Member
<1>2. Members(list)' = Members(list)
  BY <1>1 DEF Members
<1>3. \A c : AheadOf(list, c)' = AheadOf(list, c)
  BY <1>2 DEF AheadOf
<1>4. \A c : Place(list, c)' = Place(list, c)
  BY <1>3 DEF Place
<1>5. QED
  BY <1>2, <1>3, <1>4

-----------------------------------------------------------------------------
(* The walk of the client.                                                 *)

LEMMA ListingInitInv == ListingInit => ListingInv
<1> SUFFICES ASSUME ListingInit PROVE ListingInv
  OBVIOUS
<1>1. /\ rows \in [Offered -> [date : Dates, own : {TRUE}, since : {NotEnrolled}]]
      /\ clock = 0 /\ reading = "start" /\ wanted = {} /\ tied = FALSE /\ shrunk = FALSE /\ repeated = FALSE
  BY DEF ListingInit
<1>2. PICK list \in Lists, stop \in Stops :
        walk = [list |-> list, stop |-> stop, page |-> 1, pages |-> 0, seen |-> {}, content |-> <<>>]
  BY DEF ListingInit
<1>3. \A c \in DOMAIN rows : /\ rows[c].date \in Dates /\ rows[c].own = TRUE /\ rows[c].since = 0
                             /\ DOMAIN rows[c] = {"date", "own", "since"}
  BY <1>1 DEF NotEnrolled
<1>4. /\ walk.list = list /\ walk.stop = stop /\ walk.page = 1 /\ walk.pages = 0 /\ walk.seen = {}
      /\ walk.content = <<>> /\ DOMAIN walk = {"list", "stop", "page", "pages", "seen", "content"}
  BY <1>2
<1>5. rows = [c \in DOMAIN rows |-> rows[c]] /\ DOMAIN rows = Offered
  BY <1>1
<1>6. walk.content \in Seq(Catalogue) /\ Len(walk.content) = 0
  BY <1>4
<1>7. ListingShape
  <2>1. MaxPage \in Nat \ {0} /\ PageSize \in Nat \ {0} /\ MaxChanges \in Nat /\ Offered \subseteq Catalogue
    BY SizeAssumption, CatalogueAssumption
  <2>2. rows = [c \in DOMAIN rows |-> rows[c]] /\ DOMAIN rows \subseteq Catalogue
    BY <1>5, <2>1
  <2>3. \A c \in DOMAIN rows : rows[c].date \in Dates /\ rows[c].own \in BOOLEAN /\ rows[c].since \in 0..clock
    <3>1. \A c \in DOMAIN rows : rows[c].date \in Dates
      BY <1>3
    <3>2. \A c \in DOMAIN rows : rows[c].own \in BOOLEAN
      BY <1>3
    <3>3. 0 \in 0..clock
      BY <1>1
    <3>4. \A c \in DOMAIN rows : rows[c].since \in 0..clock
      BY <1>3, <3>3
    <3>5. QED
      BY <3>1, <3>2, <3>4
  <2>4. /\ DOMAIN walk = {"list", "stop", "page", "pages", "seen", "content"}
        /\ walk.list \in Lists /\ walk.stop \in Stops
        /\ walk.page \in 1..MaxPage + 1 /\ walk.pages \in Nat
        /\ walk.seen \subseteq Catalogue
    BY <1>2, <1>4, <2>1
  <2>5. walk.content \in Seq(Catalogue) /\ Len(walk.content) <= PageSize
    BY <1>6, <2>1
  <2>6. clock \in 0..MaxChanges
    BY <1>1, <2>1
  <2>7. QED
    BY <1>1, <1>3, <2>2, <2>3, <2>4, <2>5, <2>6 DEF ListingShape
<1>8. WalkFits
  BY <1>1, <1>4 DEF WalkFits
<1>9. AdminFits
  BY <1>1 DEF AdminFits
<1>10. EnrolmentsDiffer
  BY <1>3 DEF EnrolmentsDiffer, Members, Member, NotEnrolled
<1>11. StudentFits
  BY <1>1, <1>4 DEF StudentFits
<1>12. QED
  BY <1>7, <1>8, <1>9, <1>10, <1>11 DEF ListingInv

LEMMA BeginWalkStep == ListingInv /\ BeginWalk => ListingInv'
<1> SUFFICES ASSUME ListingInv, BeginWalk PROVE ListingInv'
  OBVIOUS
<1>1. /\ reading = "start" /\ reading' = "asking" /\ wanted' = Members(walk.list) /\ tied' = Ties(rows)
      /\ rows' = rows /\ clock' = clock /\ walk' = walk /\ shrunk' = shrunk /\ repeated' = repeated
  BY DEF BeginWalk
<1>2. ListingShape /\ WalkFits /\ EnrolmentsDiffer
  BY DEF ListingInv
<1>3. walk.page = 1 /\ walk.seen = {} /\ ~ repeated
  BY <1>1, <1>2 DEF WalkFits
<1>4. Members(walk.list) \subseteq DOMAIN rows /\ Members(walk.list) \subseteq Catalogue
  BY <1>2 DEF Members, ListingShape
<1>5. ListingShape'
  BY <1>1, <1>2, <1>4 DEF ListingShape, Ties
<1>6. WalkFits'
  BY <1>1, <1>3, <1>4, SizeAssumption DEF WalkFits, Ties
<1>7. \A list, c : Place(list, c)' = Place(list, c) /\ Place(list, c) \in Nat
  BY <1>1, <1>2, RowNumbers, SamePlaces
<1>8. Behind(walk.page) = 0 /\ Behind(walk.page)' = 0
  BY <1>1, <1>3, PageNumbers
<1>9. \A list, c : ~ (Place(list, c)' < Behind(walk.page)')
  BY <1>7, <1>8
<1>10. AdminFits'
  BY <1>1, <1>9 DEF AdminFits
<1>11. EnrolmentsDiffer'
  BY <1>1, <1>2 DEF EnrolmentsDiffer, Members, Member
<1>12. Members("student")' = Members("student")
  BY <1>1 DEF Members, Member
<1>13. StudentFits'
  BY <1>1, <1>3, <1>9, <1>12 DEF StudentFits
<1>14. QED
  BY <1>5, <1>6, <1>10, <1>11, <1>13 DEF ListingInv

\* The walk after a page.
LEMMA ShownPage ==
    ASSUME ListingShape, NEW content \in Seq(Catalogue), Len(content) <= PageSize, NEW pages \in Nat,
           Show(content, pages), walk.page <= MaxPage, UNCHANGED <<rows, clock, wanted, tied, shrunk>>
    PROVE  /\ ListingShape'
           /\ walk'.list = walk.list /\ walk'.stop = walk.stop /\ walk'.content = content
           /\ walk'.seen = walk.seen \cup ToSet(content)
           /\ walk'.page = IF GoesOn(pages, content) THEN walk.page + 1 ELSE walk.page
           /\ reading' = IF GoesOn(pages, content) /\ walk.page < MaxPage THEN "asking" ELSE "done"
           /\ repeated' = (repeated \/ ToSet(content) \cap walk.seen # {})
<1> DEFINE on == GoesOn(pages, content)
           z == walk.seen \cup ToSet(content)
           n == IF on THEN walk.page + 1 ELSE walk.page
<1>1. /\ repeated' = (repeated \/ ToSet(content) \cap walk.seen # {})
      /\ walk' = [walk EXCEPT !.seen = z, !.content = content, !.pages = pages, !.page = n]
      /\ reading' = IF on /\ walk.page < MaxPage THEN "asking" ELSE "done"
  BY DEF Show
<1>2. walk.page \in Nat \ {0} /\ MaxPage \in Nat /\ walk.page <= MaxPage
  BY SizeAssumption DEF ListingShape
<1>3. n \in 1..MaxPage + 1
  BY <1>2
<1>4. ToSet(content) \subseteq Catalogue
  BY DEF ToSet
<1>5. z \subseteq Catalogue
  BY <1>4 DEF ListingShape
<1>6. repeated' \in BOOLEAN
  BY <1>1
<1> HIDE DEF on, z, n
<1>7. DOMAIN walk = {"list", "stop", "page", "pages", "seen", "content"}
  BY DEF ListingShape
<1>8. /\ DOMAIN walk' = DOMAIN walk /\ walk'.list = walk.list /\ walk'.stop = walk.stop /\ walk'.page = n
      /\ walk'.pages = pages /\ walk'.seen = z /\ walk'.content = content
  BY <1>1, <1>7
<1>9. reading' \in {"asking", "done"}
  BY <1>1
<1>10. ListingShape'
  BY <1>3, <1>5, <1>6, <1>7, <1>8, <1>9 DEF ListingShape
<1>11. QED
  BY <1>1, <1>8, <1>10 DEF on, z, n

\* A page that shows what is in the catalogue keeps what else is known of the walk.
LEMMA ShownPageFits ==
    ASSUME ListingInv, NEW content \in Seq(Catalogue), Len(content) <= PageSize, NEW pages \in Nat,
           Show(content, pages), reading \in {"asking", "fetched"}, UNCHANGED <<rows, clock, wanted, tied, shrunk>>
    PROVE  ListingShape' /\ WalkFits' /\ EnrolmentsDiffer'
<1>1. ListingShape /\ WalkFits /\ EnrolmentsDiffer /\ walk.page <= MaxPage
  BY DEF ListingInv, WalkFits
<1>2. /\ ListingShape'
      /\ walk'.page = IF GoesOn(pages, content) THEN walk.page + 1 ELSE walk.page
      /\ reading' = IF GoesOn(pages, content) /\ walk.page < MaxPage THEN "asking" ELSE "done"
  BY <1>1, ShownPage
<1>3. walk.page \in Nat /\ MaxPage \in Nat
  BY <1>1, SizeAssumption DEF ListingShape
<1>4. reading' \in {"asking", "fetched"} => walk'.page <= MaxPage
  BY <1>2, <1>3
<1>5. WalkFits'
  BY <1>1, <1>2, <1>4 DEF WalkFits, Ties
<1>6. EnrolmentsDiffer'
  BY <1>1 DEF EnrolmentsDiffer, Members, Member
<1>7. QED
  BY <1>2, <1>5, <1>6

\* Without ties no two courses are at one place of an administrator's list, and enrolments differ.
LEMMA ListsAreStrict ==
    /\ ~ Ties(rows) => Strict("admin")
    /\ EnrolmentsDiffer => Strict("student")
<1>1. ~ Ties(rows) => Strict("admin")
  BY DEF Ties, Strict, Members
<1>2. EnrolmentsDiffer => Strict("student")
  BY DEF EnrolmentsDiffer, Strict
<1>3. QED
  BY <1>1, <1>2

\* Whatever the order, a page is a sequence of courses.
LEMMA PagesAreOfCourses ==
    ASSUME ListingShape, NEW list, NEW s \in Ordered(list), NEW page \in Nat \ {0}
    PROVE  /\ s \in Seq(Catalogue) /\ Slice(s, page) \in Seq(Catalogue)
           /\ Len(Slice(s, page)) \in Nat /\ Len(Slice(s, page)) <= PageSize
<1> DEFINE M == Members(list)
<1>1. M \subseteq Catalogue /\ IsFiniteSet(M)
  BY RowNumbers DEF Members, ListingShape
<1>2. s \in SetToSeqs(M)
  BY DEF Ordered
<1> HIDE DEF M
<1>3. s \in Seq(M)
  BY <1>1, <1>2, ListsOfASet
<1>4. s \in Seq(Catalogue)
  BY <1>1, <1>3
<1>5. Slice(s, page) \in Seq(Catalogue) /\ Len(Slice(s, page)) <= PageSize
  BY <1>4, SliceFacts
<1>6. QED
  BY <1>4, <1>5

LEMMA AdminPageStep == ListingInv /\ AdminPage => ListingInv'
<1> SUFFICES ASSUME ListingInv, AdminPage PROVE ListingInv'
  OBVIOUS
<1>1. PICK s \in Ordered("admin") :
        LET content == Slice(s, walk.page) IN
        IF content = <<>> THEN Show(<<>>, 0)
        ELSE /\ reading' = "fetched"
             /\ walk' = [walk EXCEPT !.content = content]
             /\ UNCHANGED repeated
  BY DEF AdminPage
<1> DEFINE content == Slice(s, walk.page)
<1>2. /\ reading = "asking" /\ walk.list = "admin"
      /\ rows' = rows /\ clock' = clock /\ wanted' = wanted /\ tied' = tied /\ shrunk' = shrunk
  BY DEF AdminPage
<1>3. ListingShape /\ WalkFits /\ AdminFits /\ EnrolmentsDiffer
  BY DEF ListingInv
<1>4. /\ walk.page \in Nat \ {0} /\ walk.page <= MaxPage /\ walk.stop \in Stops
      /\ DOMAIN walk = {"list", "stop", "page", "pages", "seen", "content"}
  BY <1>2, <1>3 DEF ListingShape, WalkFits
<1>5. content \in Seq(Catalogue) /\ Len(content) <= PageSize
  BY <1>3, <1>4, PagesAreOfCourses
<1>6. Members("admin") = DOMAIN rows /\ wanted \subseteq Members("admin")
  BY <1>3 DEF Members, Member, WalkFits
<1>7. ASSUME ~ tied
      PROVE  /\ \A c \in Members("admin") : Place("admin", c) < Cardinality(Members("admin"))
             /\ Cardinality(Members("admin")) \in Nat
             /\ \A c \in Members("admin") :
                  c \in ToSet(content) <=> Behind(walk.page) <= Place("admin", c)
                                           /\ Place("admin", c) < Behind(walk.page + 1)
             /\ content = <<>> <=> Cardinality(Members("admin")) <= Behind(walk.page)
  <2>1. Strict("admin")
    BY <1>2, <1>3, <1>7, ListsAreStrict DEF WalkFits
  <2>2. QED
    BY <1>3, <1>4, <2>1, PageOfList
<1>8. \A c : Place("admin", c)' = Place("admin", c) /\ Place("admin", c) \in Nat
  BY <1>2, <1>3, SamePlaces, RowNumbers
<1>9. Behind(walk.page) \in Nat /\ Behind(walk.page + 1) \in Nat
  BY <1>4, PageNumbers, SizeAssumption, SMTT(30)
<1> HIDE DEF content
<1>10. CASE content = <<>>
  <2>1. Show(<<>>, 0)
    BY <1>1, <1>10 DEF content
  <2>2. <<>> \in Seq(Catalogue) /\ Len(<<>>) = 0 /\ ToSet(<<>>) = {}
    BY DEF ToSet
  <2>3. Len(<<>>) <= PageSize
    BY <2>2, SizeAssumption
  <2>4. ListingShape' /\ WalkFits' /\ EnrolmentsDiffer'
    BY <1>2, <2>1, <2>2, <2>3, ShownPageFits
  <2>5. ~ GoesOn(0, <<>>)
    <3>1. ~ (walk.page < 0)
      BY <1>4
    <3>2. QED
      BY <3>1 DEF GoesOn
  <2>6. /\ walk'.list = "admin" /\ walk'.seen = walk.seen /\ reading' = "done" /\ walk'.stop = walk.stop
    BY <1>2, <1>3, <1>4, <2>1, <2>2, <2>3, <2>5, ShownPage
  <2>7. AdminFits'
    <3>1. SUFFICES ASSUME walk.stop = "by totals", ~ tied, ~ shrunk
                   PROVE  wanted \subseteq walk.seen
      BY <1>2, <2>6 DEF AdminFits
    <3>2. \A c \in wanted : Place("admin", c) < Behind(walk.page)
      <4> DEFINE P(c) == Place("admin", c)
                 n == Cardinality(Members("admin"))
                 b == Behind(walk.page)
      <4>1. /\ \A c \in wanted : P(c) < n /\ P(c) \in Nat
            /\ n \in Nat /\ n <= b /\ b \in Nat
        BY <1>6, <1>7, <1>8, <1>9, <1>10, <3>1
      <4> HIDE DEF P, n, b
      <4>2. \A c \in wanted : P(c) < b
        BY <4>1
      <4>3. QED
        BY <4>2 DEF P, b
    <3>3. QED
      BY <1>2, <1>3, <3>1, <3>2 DEF AdminFits
  <2>8. StudentFits'
    BY <2>6 DEF StudentFits
  <2>9. QED
    BY <2>4, <2>7, <2>8 DEF ListingInv
<1>11. CASE content # <<>>
  <2>1. reading' = "fetched" /\ walk' = [walk EXCEPT !.content = content] /\ repeated' = repeated
    BY <1>1, <1>11 DEF content
  <2>2. /\ DOMAIN walk' = DOMAIN walk /\ walk'.list = walk.list /\ walk'.stop = walk.stop
        /\ walk'.page = walk.page /\ walk'.pages = walk.pages /\ walk'.seen = walk.seen /\ walk'.content = content
    BY <1>4, <2>1
  <2>3. ListingShape'
    BY <1>2, <1>3, <1>5, <2>1, <2>2 DEF ListingShape
  <2>4. WalkFits'
    BY <1>2, <1>3, <1>4, <2>1, <2>2 DEF WalkFits, Ties
  <2>5. AdminFits'
    <3>1. Behind(walk.page + 1)' = Behind(walk.page + 1)
      BY <2>2 DEF Behind
    <3>2. SUFFICES ASSUME walk.stop = "by totals", ~ tied, ~ shrunk
                   PROVE  \A c \in wanted : Place("admin", c) < Behind(walk.page + 1) =>
                                              c \in walk.seen \cup ToSet(content)
      BY <1>2, <1>8, <2>1, <2>2, <3>1 DEF AdminFits, ToSet
    <3>3. ASSUME NEW c \in wanted, Place("admin", c) < Behind(walk.page + 1)
          PROVE  c \in walk.seen \cup ToSet(content)
      <4>1. CASE Place("admin", c) < Behind(walk.page)
        BY <1>2, <1>3, <3>2, <3>3, <4>1 DEF AdminFits
      <4>2. CASE ~ (Place("admin", c) < Behind(walk.page))
        <5> DEFINE p == Place("admin", c)
                   b == Behind(walk.page)
        <5>1. p \in Nat /\ b \in Nat /\ ~ (p < b)
          BY <1>8, <1>9, <4>2
        <5> HIDE DEF p, b
        <5>2. b <= p
          BY <5>1
        <5>3. c \in Members("admin")
          BY <1>6, <3>3
        <5>4. c \in ToSet(content)
          BY <1>7, <3>2, <3>3, <5>2, <5>3 DEF p, b
        <5>5. QED
          BY <5>4
      <4>3. QED
        BY <4>1, <4>2
    <3>4. QED
      BY <3>3
  <2>6. EnrolmentsDiffer'
    BY <1>2, <1>3 DEF EnrolmentsDiffer, Members, Member
  <2>7. StudentFits'
    BY <1>2, <2>2 DEF StudentFits
  <2>8. QED
    BY <2>3, <2>4, <2>5, <2>6, <2>7 DEF ListingInv
<1>12. QED
  BY <1>10, <1>11

LEMMA AdminTotalsStep == ListingInv /\ AdminTotals => ListingInv'
<1> SUFFICES ASSUME ListingInv, AdminTotals PROVE ListingInv'
  OBVIOUS
<1> DEFINE M == Members("admin")
           n == Cardinality(M)
           pages == Ceil(n)
           content == walk.content
<1>1. /\ reading = "fetched" /\ Show(content, pages)
      /\ rows' = rows /\ clock' = clock /\ wanted' = wanted /\ tied' = tied /\ shrunk' = shrunk
  BY DEF AdminTotals
<1>2. ListingShape /\ WalkFits /\ AdminFits /\ EnrolmentsDiffer
  BY DEF ListingInv
<1>3. walk.list = "admin" /\ walk.page \in Nat \ {0} /\ walk.page <= MaxPage /\ walk.stop \in Stops
  BY <1>1, <1>2 DEF ListingShape, WalkFits
<1>4. content \in Seq(Catalogue) /\ Len(content) <= PageSize
  BY <1>2 DEF ListingShape
<1>5. M = DOMAIN rows /\ wanted \subseteq M /\ IsFiniteSet(M) /\ M \subseteq Catalogue
  BY <1>2, RowNumbers DEF Members, Member, WalkFits, ListingShape
<1>6. n \in Nat
  BY <1>5, FS_CardinalityType
<1>7. pages \in Nat /\ (~ (walk.page < pages) => n <= Behind(walk.page + 1))
  BY <1>3, <1>6, AllPagesHoldAll
<1>8. \A c \in M : Place("admin", c) < n
  BY <1>2, PlaceIsInTheList
<1>9. \A c : Place("admin", c)' = Place("admin", c) /\ Place("admin", c) \in Nat
  BY <1>1, <1>2, SamePlaces, RowNumbers
<1>10. Behind(walk.page + 1) \in Nat
  BY <1>3, PageNumbers, SizeAssumption, SMTT(30)
<1> HIDE DEF M, n, pages, content
<1>11. ListingShape' /\ WalkFits' /\ EnrolmentsDiffer'
  BY <1>1, <1>4, <1>7, ShownPageFits
<1>12. /\ walk'.list = walk.list /\ walk'.stop = walk.stop
       /\ walk'.seen = walk.seen \cup ToSet(content)
       /\ walk'.page = IF GoesOn(pages, content) THEN walk.page + 1 ELSE walk.page
       /\ reading' = IF GoesOn(pages, content) /\ walk.page < MaxPage THEN "asking" ELSE "done"
  BY <1>1, <1>2, <1>3, <1>4, <1>7, ShownPage
<1>13. AdminFits'
  <2>1. SUFFICES ASSUME walk.stop = "by totals", ~ tied, ~ shrunk
                 PROVE  /\ reading' = "asking" => \A c \in wanted :
                             Place("admin", c) < Behind(walk.page)' => c \in walk'.seen
                        /\ reading' = "done" /\ walk'.page <= MaxPage => wanted \subseteq walk'.seen
    <3>1. reading' # "fetched"
      BY <1>12
    <3>2. QED
      BY <1>1, <1>9, <1>12, <2>1, <3>1 DEF AdminFits
  <2>2. \A c \in wanted : Place("admin", c) < Behind(walk.page + 1) => c \in walk'.seen
    BY <1>1, <1>2, <1>3, <1>12, <2>1 DEF AdminFits, content
  <2>3. GoesOn(pages, content) <=> walk.page < pages
    BY <2>1 DEF GoesOn
  <2>4. ASSUME reading' = "asking"
        PROVE  Behind(walk.page)' = Behind(walk.page + 1)
    BY <1>12, <2>4 DEF Behind
  <2>5. ASSUME reading' = "done", walk'.page <= MaxPage
        PROVE  wanted \subseteq walk'.seen
    <3>1. ~ (walk.page < pages)
      <4>1. walk.page \in Nat /\ MaxPage \in Nat
        BY <1>3, SizeAssumption
      <4>2. QED
        BY <1>12, <2>3, <2>5, <4>1
    <3>2. n <= Behind(walk.page + 1)
      BY <1>7, <3>1
    <3>3. ASSUME NEW c \in wanted
          PROVE  c \in walk'.seen
      <4> DEFINE p == Place("admin", c)
                 e == Behind(walk.page + 1)
      <4>1. p < n /\ n <= e /\ p \in Nat /\ n \in Nat /\ e \in Nat
        BY <1>5, <1>6, <1>8, <1>9, <1>10, <3>2, <3>3
      <4> HIDE DEF p, e
      <4>2. p < e
        BY <4>1
      <4>3. QED
        BY <2>2, <3>3, <4>2 DEF p, e
    <3>4. QED
      BY <3>3
  <2>6. QED
    BY <2>2, <2>4, <2>5
<1>14. StudentFits'
  BY <1>3, <1>12 DEF StudentFits
<1>15. QED
  BY <1>11, <1>13, <1>14 DEF ListingInv

LEMMA StudentPageStep == ListingInv /\ StudentPage => ListingInv'
<1> SUFFICES ASSUME ListingInv, StudentPage PROVE ListingInv'
  OBVIOUS
<1>1. PICK s \in Ordered("student") :
        LET content == Slice(s, walk.page) IN Show(content, Ceil(Len(content)))
  BY DEF StudentPage
<1> DEFINE M == Members("student")
           n == Cardinality(M)
           P(c) == Place("student", c)
           content == Slice(s, walk.page)
           pages == Ceil(Len(content))
           b == Behind(walk.page)
           e == Behind(walk.page + 1)
<1>2. /\ reading = "asking" /\ walk.list = "student"
      /\ rows' = rows /\ clock' = clock /\ wanted' = wanted /\ tied' = tied /\ shrunk' = shrunk
  BY DEF StudentPage
<1>3. ListingShape /\ WalkFits /\ StudentFits /\ EnrolmentsDiffer
  BY DEF ListingInv
<1>4. walk.page \in Nat \ {0} /\ walk.page <= MaxPage
  BY <1>2, <1>3 DEF ListingShape, WalkFits
<1>5. content \in Seq(Catalogue) /\ Len(content) \in Nat /\ Len(content) <= PageSize
  BY <1>3, <1>4, PagesAreOfCourses
<1>6. pages \in Nat
  BY <1>5, AllPagesHoldAll
<1>7. /\ \A c \in M : P(c) < n
      /\ n \in Nat
      /\ ToSet(content) \subseteq M
      /\ \A c \in M : c \in ToSet(content) <=> b <= P(c) /\ P(c) < e
      /\ content = <<>> <=> n <= b
  BY <1>3, <1>4, ListsAreStrict, PageOfList
<1>8. M' = M /\ \A c : P(c)' = P(c) /\ P(c) \in Nat
  BY <1>2, <1>3, SamePlaces, RowNumbers
<1>9. b \in Nat /\ e \in Nat /\ b <= e
  <2>1. b \in Nat /\ e = b + PageSize
    BY <1>4, PageNumbers
  <2> HIDE DEF b, e
  <2>2. QED
    BY <2>1, SizeAssumption
<1>10. Show(content, pages)
  BY <1>1
<1> HIDE DEF content, pages
<1>11. ListingShape' /\ WalkFits' /\ EnrolmentsDiffer'
  BY <1>2, <1>5, <1>6, <1>10, ShownPageFits
<1>12. /\ walk'.list = walk.list /\ walk'.stop = walk.stop
       /\ walk'.seen = walk.seen \cup ToSet(content)
       /\ walk'.page = IF GoesOn(pages, content) THEN walk.page + 1 ELSE walk.page
       /\ reading' = IF GoesOn(pages, content) /\ walk.page < MaxPage THEN "asking" ELSE "done"
       /\ repeated' = (repeated \/ ToSet(content) \cap walk.seen # {})
  BY <1>2, <1>3, <1>4, <1>5, <1>6, <1>10, ShownPage
<1>13. AdminFits'
  BY <1>2, <1>12 DEF AdminFits
<1>14. StudentFits'
  <2>1. SUFFICES ASSUME walk.stop = "by an empty page", ~ shrunk
                 PROVE  /\ wanted \subseteq M /\ walk'.seen \subseteq M
                        /\ reading' = "asking" =>
                             /\ ~ repeated'
                             /\ \A c \in walk'.seen : P(c) < Behind(walk.page)'
                             /\ \A c \in wanted : P(c) < Behind(walk.page)' => c \in walk'.seen
                        /\ reading' = "done" /\ walk'.page <= MaxPage => wanted \subseteq walk'.seen /\ ~ repeated'
    BY <1>2, <1>8, <1>12 DEF StudentFits
  <2>2. /\ wanted \subseteq M /\ walk.seen \subseteq M /\ ~ repeated
        /\ \A c \in walk.seen : P(c) < b
        /\ \A c \in wanted : P(c) < b => c \in walk.seen
    BY <1>2, <1>3, <2>1 DEF StudentFits
  <2>3. GoesOn(pages, content) <=> content # <<>>
    BY <2>1 DEF GoesOn
  <2>4. reading' = "asking" => Behind(walk.page)' = e
    BY <1>12 DEF Behind
  <2>5. reading' = "done" /\ walk'.page <= MaxPage => content = <<>>
    <3>1. walk.page \in Nat /\ MaxPage \in Nat
      BY <1>4, SizeAssumption
    <3>2. QED
      BY <1>4, <1>12, <2>3, <3>1
  <2> HIDE DEF M, n, P, b, e
  <2>6. ToSet(content) \cap walk.seen = {}
    <3>1. ASSUME NEW c \in ToSet(content), c \in walk.seen
          PROVE  FALSE
      <4>1. P(c) < b /\ b <= P(c) /\ P(c) \in Nat
        BY <1>7, <1>8, <2>2, <3>1
      <4>2. QED
        BY <1>9, <4>1
    <3>2. QED
      BY <3>1
  <2>7. ~ repeated'
    BY <1>12, <2>2, <2>6
  <2>8. walk'.seen \subseteq M
    BY <1>7, <1>12, <2>2
  <2>9. \A c \in walk'.seen : P(c) < e
    <3>1. ASSUME NEW c \in walk'.seen
          PROVE  P(c) < e
      <4>1. CASE c \in walk.seen
        BY <1>8, <1>9, <2>2, <4>1
      <4>2. CASE c \in ToSet(content)
        BY <1>7, <4>2
      <4>3. QED
        BY <1>12, <3>1, <4>1, <4>2
    <3>2. QED
      BY <3>1
  <2>10. \A c \in wanted : P(c) < e => c \in walk'.seen
    <3>1. ASSUME NEW c \in wanted, P(c) < e
          PROVE  c \in walk'.seen
      <4>1. CASE P(c) < b
        BY <1>12, <2>2, <3>1, <4>1
      <4>2. CASE ~ (P(c) < b)
        <5>1. b <= P(c)
          BY <1>8, <1>9, <4>2
        <5>2. c \in ToSet(content)
          BY <1>7, <2>2, <3>1, <5>1
        <5>3. QED
          BY <1>12, <5>2
      <4>3. QED
        BY <4>1, <4>2
    <3>2. QED
      BY <3>1
  <2>11. content = <<>> => wanted \subseteq walk'.seen
    <3>1. ASSUME content = <<>>, NEW c \in wanted
          PROVE  c \in walk'.seen
      <4>1. P(c) < n /\ n <= b /\ P(c) \in Nat
        BY <1>7, <1>8, <2>2, <3>1
      <4>2. P(c) < b
        BY <1>7, <1>9, <4>1
      <4>3. QED
        BY <1>12, <2>2, <3>1, <4>2
    <3>2. QED
      BY <3>1
  <2>12. QED
    BY <2>2, <2>4, <2>5, <2>7, <2>8, <2>9, <2>10, <2>11
<1>15. QED
  BY <1>11, <1>13, <1>14 DEF ListingInv

\* A page of a listing whose pages tell nothing.
LEMMA ProfessorPageStep == ListingInv /\ ProfessorPage => ListingInv'
<1> SUFFICES ASSUME ListingInv, ProfessorPage PROVE ListingInv'
  OBVIOUS
<1>1. PICK s \in Ordered("professor") :
        LET fetched == Slice(s, walk.page) IN Show(Slice(fetched, walk.page), Ceil(Len(fetched)))
  BY DEF ProfessorPage
<1> DEFINE fetched == Slice(s, walk.page)
           content == Slice(fetched, walk.page)
           pages == Ceil(Len(fetched))
<1>2. /\ reading = "asking" /\ walk.list = "professor"
      /\ rows' = rows /\ clock' = clock /\ wanted' = wanted /\ tied' = tied /\ shrunk' = shrunk
  BY DEF ProfessorPage
<1>3. ListingShape /\ WalkFits
  BY DEF ListingInv
<1>4. walk.page \in Nat \ {0} /\ walk.page <= MaxPage
  BY <1>2, <1>3 DEF ListingShape, WalkFits
<1>5. fetched \in Seq(Catalogue) /\ Len(fetched) \in Nat
  BY <1>3, <1>4, PagesAreOfCourses
<1>6. pages \in Nat
  BY <1>5, AllPagesHoldAll
<1>7. Show(content, pages)
  BY <1>1
<1> HIDE DEF fetched, pages
<1>8. content \in Seq(Catalogue) /\ Len(content) <= PageSize
  BY <1>4, <1>5, SliceFacts
<1> HIDE DEF content
<1>9. ListingShape' /\ WalkFits' /\ EnrolmentsDiffer'
  BY <1>2, <1>6, <1>7, <1>8, ShownPageFits
<1>10. walk'.list = "professor"
  BY <1>2, <1>3, <1>4, <1>6, <1>7, <1>8, ShownPage
<1>11. AdminFits' /\ StudentFits'
  BY <1>10 DEF AdminFits, StudentFits
<1>12. QED
  BY <1>9, <1>11 DEF ListingInv

LEMMA ListAllStep == ListingInv /\ ListAll => ListingInv'
<1> SUFFICES ASSUME ListingInv, ListAll PROVE ListingInv'
  OBVIOUS
<1>1. /\ reading = "asking" /\ walk.list \in {"all of professor", "all of student"}
      /\ rows' = rows /\ clock' = clock /\ wanted' = wanted /\ tied' = tied /\ shrunk' = shrunk /\ repeated' = repeated
      /\ \/ reading' = "done" /\ walk' = [walk EXCEPT !.seen = Members(walk.list)]
         \/ reading' = "failed" /\ walk' = walk
  BY DEF ListAll
<1>2. ListingShape /\ WalkFits /\ EnrolmentsDiffer
  BY DEF ListingInv
<1>3. DOMAIN walk = {"list", "stop", "page", "pages", "seen", "content"}
  BY <1>2 DEF ListingShape
<1> DEFINE z == Members(walk.list)
<1>4. z \subseteq Catalogue
  BY <1>2 DEF Members, ListingShape
<1>5. /\ reading' \in {"done", "failed"} /\ DOMAIN walk' = DOMAIN walk
      /\ walk'.list = walk.list /\ walk'.stop = walk.stop /\ walk'.page = walk.page
      /\ walk'.pages = walk.pages /\ walk'.content = walk.content /\ walk'.seen \subseteq Catalogue
  <2> HIDE DEF z
  <2>1. CASE reading' = "done" /\ walk' = [walk EXCEPT !.seen = z]
    BY <1>3, <1>4, <2>1
  <2>2. CASE reading' = "failed" /\ walk' = walk
    BY <1>2, <2>2 DEF ListingShape
  <2>3. QED
    BY <1>1, <2>1, <2>2 DEF z
<1> HIDE DEF z
<1>6. ListingShape'
  BY <1>1, <1>2, <1>3, <1>5, ZenonT(40) DEF ListingShape
<1>7. WalkFits'
  BY <1>1, <1>2, <1>5 DEF WalkFits, Ties
<1>8. EnrolmentsDiffer'
  BY <1>1, <1>2 DEF EnrolmentsDiffer, Members, Member
<1>9. walk'.list # "admin" /\ walk'.list # "student"
  BY <1>1, <1>5
<1>10. AdminFits' /\ StudentFits'
  BY <1>9 DEF AdminFits, StudentFits
<1>11. QED
  BY <1>6, <1>7, <1>8, <1>10 DEF ListingInv

-----------------------------------------------------------------------------
(* Meanwhile the catalogue changes.                                        *)

\* A course that is in more rows than before has no earlier place.
LEMMA LaterPlaces ==
    ASSUME ListingShape, ListingShape', NEW list, NEW c, AheadOf(list, c) \subseteq AheadOf(list, c)'
    PROVE  /\ Place(list, c) \in Nat /\ Place(list, c)' \in Nat
           /\ Place(list, c) <= Place(list, c)'
<1>1. AheadOf(list, c)' \subseteq Catalogue
  BY DEF AheadOf, Members, ListingShape
<1> DEFINE S == AheadOf(list, c)
           T == AheadOf(list, c)'
<1>2. Place(list, c) = Cardinality(S) /\ Place(list, c)' = Cardinality(T)
  BY DEF Place
<1> HIDE DEF S, T
<1>3. T \subseteq Catalogue /\ S \subseteq T
  BY <1>1 DEF S, T
<1>4. QED
  BY <1>2, <1>3, FewerAreLess

LEMMA OfferStep == ASSUME NEW c \in Catalogue PROVE ListingInv /\ Offer(c) => ListingInv'
<1> SUFFICES ASSUME ListingInv, Offer(c) PROVE ListingInv'
  OBVIOUS
<1>1. PICK d \in Dates, own \in BOOLEAN :
        rows' = [e \in DOMAIN rows \cup {c} |->
                   IF e = c THEN [date |-> d, own |-> own, since |-> NotEnrolled] ELSE rows[e]]
  BY DEF Offer
<1>2. /\ clock < MaxChanges /\ clock' = clock + 1 /\ c \notin DOMAIN rows
      /\ tied' = (tied \/ Ties(rows')) /\ walk' = walk /\ reading' = reading
      /\ wanted' = wanted /\ shrunk' = shrunk /\ repeated' = repeated
  BY DEF Offer, CatalogueChanges
<1>3. ListingShape /\ WalkFits /\ AdminFits /\ EnrolmentsDiffer /\ StudentFits
  BY DEF ListingInv
<1>4. /\ DOMAIN rows' = DOMAIN rows \cup {c} /\ \A e \in DOMAIN rows : rows'[e] = rows[e]
      /\ rows'[c].date = d /\ rows'[c].own = own /\ rows'[c].since = 0
      /\ DOMAIN rows'[c] = {"date", "own", "since"}
      /\ rows' = [e \in DOMAIN rows' |-> rows'[e]]
  <2> DEFINE row == [date |-> d, own |-> own, since |-> NotEnrolled]
  <2>1. row.date = d /\ row.own = own /\ row.since = 0 /\ DOMAIN row = {"date", "own", "since"}
    BY DEF NotEnrolled
  <2>2. rows' = [e \in DOMAIN rows \cup {c} |-> IF e = c THEN row ELSE rows[e]]
    BY <1>1
  <2> HIDE DEF row
  <2>3. DOMAIN rows' = DOMAIN rows \cup {c} /\ rows'[c] = row
    BY <2>2
  <2>4. \A e \in DOMAIN rows : rows'[e] = rows[e]
    BY <1>2, <2>2
  <2>5. rows' = [e \in DOMAIN rows' |-> rows'[e]]
    BY <2>2
  <2>6. QED
    BY <2>1, <2>3, <2>4, <2>5
<1>5. clock \in Nat /\ clock' \in 0..MaxChanges /\ \A i \in 0..clock : i \in 0..clock'
  BY <1>2, <1>3, SizeAssumption DEF ListingShape
<1>6. ListingShape'
  <2>1. \A e \in DOMAIN rows' : rows'[e].date \in Dates /\ rows'[e].own \in BOOLEAN /\ rows'[e].since \in 0..clock'
    <3>1. \A e \in DOMAIN rows : rows'[e].date \in Dates /\ rows'[e].own \in BOOLEAN /\ rows'[e].since \in 0..clock'
      BY <1>3, <1>4, <1>5 DEF ListingShape
    <3>2. 0 \in 0..clock'
      BY <1>5
    <3>3. QED
      BY <1>1, <1>4, <3>1, <3>2
  <2>2. DOMAIN rows' \subseteq Catalogue
    BY <1>3, <1>4 DEF ListingShape
  <2>3. tied' \in BOOLEAN
    BY <1>2
  <2>4. \A e \in DOMAIN rows' : DOMAIN rows'[e] = {"date", "own", "since"}
    BY <1>3, <1>4 DEF ListingShape
  <2>5. QED
    BY <1>2, <1>3, <1>4, <1>5, <2>1, <2>2, <2>3, <2>4 DEF ListingShape
<1>7. WalkFits'
  BY <1>2, <1>3, <1>4 DEF WalkFits
<1>8. DOMAIN rows \subseteq DOMAIN rows' /\ wanted \subseteq DOMAIN rows
  BY <1>3, <1>4 DEF WalkFits
<1>9. AdminFits'
  <2>1. ASSUME NEW e \in wanted
        PROVE  /\ Place("admin", e) \in Nat /\ Place("admin", e)' \in Nat
               /\ Place("admin", e) <= Place("admin", e)'
    <3>1. e \in DOMAIN rows
      BY <1>8, <2>1
    <3>2. AheadOf("admin", e) \subseteq AheadOf("admin", e)'
      BY <1>4, <1>8, <3>1 DEF AheadOf, Members, Member
    <3>3. QED
      BY <1>3, <1>6, <3>2, LaterPlaces
  <2>2. ASSUME reading \in {"asking", "fetched"}
        PROVE  Behind(walk.page) \in Nat /\ Behind(walk.page + 1) \in Nat
    <3>1. walk.page \in Nat \ {0}
      BY <1>3, SizeAssumption DEF ListingShape
    <3>2. PageSize \in Nat
      BY SizeAssumption
    <3>3. Behind(walk.page) \in Nat /\ Behind(walk.page + 1) = Behind(walk.page) + PageSize
      BY <3>1, PageNumbers
    <3>4. QED
      BY <3>2, <3>3
  <2>3. ASSUME NEW e \in wanted, NEW b \in Nat, Place("admin", e)' < b
        PROVE  Place("admin", e) < b
    <3> DEFINE p == Place("admin", e)
               q == Place("admin", e)'
    <3>1. p \in Nat /\ q \in Nat /\ p <= q /\ q < b
      BY <2>1, <2>3
    <3> HIDE DEF p, q
    <3>2. p < b
      BY <3>1, <2>3
    <3>3. QED
      BY <3>2 DEF p
  <2>4. SUFFICES ASSUME walk.list = "admin", walk.stop = "by totals", ~ tied, ~ shrunk
                 PROVE  /\ reading = "asking" => \A e \in wanted : Place("admin", e)' < Behind(walk.page) => e \in walk.seen
                        /\ reading = "fetched" => \A e \in wanted : Place("admin", e)' < Behind(walk.page + 1) =>
                                                    e \in walk.seen \cup ToSet(walk.content)
                        /\ reading = "done" /\ walk.page <= MaxPage => wanted \subseteq walk.seen
    BY <1>2 DEF AdminFits, Behind
  <2>5. /\ reading = "asking" => \A e \in wanted : Place("admin", e) < Behind(walk.page) => e \in walk.seen
        /\ reading = "fetched" => \A e \in wanted : Place("admin", e) < Behind(walk.page + 1) =>
                                    e \in walk.seen \cup ToSet(walk.content)
        /\ reading = "done" /\ walk.page <= MaxPage => wanted \subseteq walk.seen
    BY <1>3, <2>4 DEF AdminFits
  <2>6. QED
    BY <2>2, <2>3, <2>5
<1>10. Members("student")' = Members("student")
  BY <1>4 DEF Members, Member, NotEnrolled
<1>11. EnrolmentsDiffer'
  <2>1. \A e \in Members("student") : rows'[e] = rows[e]
    BY <1>4 DEF Members
  <2>2. QED
    BY <1>3, <1>10, <2>1 DEF EnrolmentsDiffer
<1>12. \A e \in Members("student") : Place("student", e)' = Place("student", e)
  <2>1. \A e \in Members("student") : rows'[e] = rows[e]
    BY <1>4 DEF Members
  <2>2. \A e \in Members("student") : AheadOf("student", e)' = AheadOf("student", e)
    BY <1>10, <2>1 DEF AheadOf
  <2>3. QED
    BY <2>2 DEF Place
<1>13. StudentFits'
  BY <1>2, <1>3, <1>10, <1>12 DEF StudentFits, Behind
<1>14. QED
  BY <1>6, <1>7, <1>9, <1>11, <1>13 DEF ListingInv

LEMMA EnrolInStep == ASSUME NEW c \in Catalogue PROVE ListingInv /\ EnrolIn(c) => ListingInv'
<1> SUFFICES ASSUME ListingInv, EnrolIn(c) PROVE ListingInv'
  OBVIOUS
<1>1. /\ c \in DOMAIN rows /\ rows[c].since = 0 /\ clock < MaxChanges /\ clock' = clock + 1
      /\ rows' = [rows EXCEPT ![c].since = clock'] /\ walk' = walk /\ reading' = reading
      /\ wanted' = wanted /\ tied' = tied /\ shrunk' = shrunk /\ repeated' = repeated
  BY DEF EnrolIn, CatalogueChanges, NotEnrolled
<1>2. ListingShape /\ WalkFits /\ AdminFits /\ EnrolmentsDiffer /\ StudentFits
  BY DEF ListingInv
<1>3. clock \in Nat /\ clock' \in 0..MaxChanges /\ \A i \in 0..clock : i \in 0..clock' /\ i < clock'
  BY <1>1, <1>2, SizeAssumption, SMTT(30) DEF ListingShape
<1>4. /\ DOMAIN rows' = DOMAIN rows /\ \A e \in DOMAIN rows \ {c} : rows'[e] = rows[e]
      /\ rows' = [e \in DOMAIN rows' |-> rows'[e]]
      /\ rows'[c] = [rows[c] EXCEPT !.since = clock']
  BY <1>1, <1>2 DEF ListingShape
<1>5. \A e \in DOMAIN rows : rows[e].since \in 0..clock /\ rows[e].since \in Int /\ rows[e].date \in Int
  BY <1>2, RowNumbers DEF ListingShape
<1>6. DOMAIN rows[c] = {"date", "own", "since"}
  BY <1>1, <1>2 DEF ListingShape
<1>7. /\ rows'[c].date = rows[c].date /\ rows'[c].own = rows[c].own /\ rows'[c].since = clock'
      /\ DOMAIN rows'[c] = {"date", "own", "since"}
  BY <1>4, <1>6
<1>8. \A e \in DOMAIN rows : rows'[e].date = rows[e].date
  BY <1>4, <1>7
<1>9. Members("student")' = Members("student") \cup {c} /\ c \notin Members("student")
  <2>1. Members("student") = {e \in DOMAIN rows : rows[e].since # 0}
    BY DEF Members, Member, NotEnrolled
  <2>2. Members("student")' = {e \in DOMAIN rows' : rows'[e].since # 0}
    BY DEF Members, Member, NotEnrolled
  <2>3. clock' # 0
    BY <1>1, <1>3
  <2>4. QED
    BY <1>1, <1>4, <1>7, <2>1, <2>2, <2>3
<1>10. ListingShape'
  <2>1. clock' \in 0..clock'
    BY <1>1, <1>3
  <2>2. \A e \in DOMAIN rows' : /\ rows'[e].date \in Dates /\ rows'[e].own \in BOOLEAN
                               /\ rows'[e].since \in 0..clock'
                               /\ DOMAIN rows'[e] = {"date", "own", "since"}
    <3>1. ASSUME NEW e \in DOMAIN rows
          PROVE  /\ rows'[e].date \in Dates /\ rows'[e].own \in BOOLEAN
                 /\ rows'[e].since \in 0..clock'
                 /\ DOMAIN rows'[e] = {"date", "own", "since"}
      <4>1. CASE e = c
        BY <1>1, <1>2, <1>7, <2>1, <4>1 DEF ListingShape
      <4>2. CASE e # c
        <5>1. rows'[e] = rows[e]
          BY <1>4, <4>2
        <5>2. /\ rows[e].date \in Dates /\ rows[e].own \in BOOLEAN /\ rows[e].since \in 0..clock
              /\ DOMAIN rows[e] = {"date", "own", "since"}
          BY <1>2 DEF ListingShape
        <5>3. QED
          BY <1>3, <5>1, <5>2
      <4>3. QED
        BY <4>1, <4>2
    <3>2. QED
      BY <1>4, <3>1
  <2>3. QED
    BY <1>1, <1>2, <1>3, <1>4, <2>2 DEF ListingShape
<1>11. WalkFits'
  BY <1>1, <1>2, <1>4, <1>8 DEF WalkFits, Ties
<1>12. AdminFits'
  <2>1. \A e : AheadOf("admin", e)' = AheadOf("admin", e) \/ e \notin DOMAIN rows
    <3>1. ASSUME NEW e \in DOMAIN rows
          PROVE  AheadOf("admin", e)' = AheadOf("admin", e)
      BY <1>4, <1>8 DEF AheadOf, Members, Member
    <3>2. QED
      BY <3>1
  <2>2. \A e \in wanted : Place("admin", e)' = Place("admin", e)
    BY <1>2, <2>1 DEF Place, WalkFits
  <2>3. QED
    BY <1>1, <1>2, <2>2 DEF AdminFits, Behind
<1>13. EnrolmentsDiffer'
  <2>1. SUFFICES ASSUME NEW e \in Members("student") \cup {c}, NEW f \in Members("student") \cup {c},
                        rows'[e].since = rows'[f].since
                 PROVE  e = f
    BY <1>9 DEF EnrolmentsDiffer
  <2>2. ASSUME NEW x \in Members("student")
        PROVE  rows'[x].since = rows[x].since /\ rows'[x].since # clock'
    <3>1. x \in DOMAIN rows /\ x # c
      BY <1>9 DEF Members
    <3>2. rows'[x] = rows[x] /\ rows[x].since \in 0..clock
      BY <1>4, <1>5, <3>1
    <3>3. QED
      BY <1>3, <3>2
  <2>3. CASE e = c \/ f = c
    BY <1>7, <2>1, <2>2, <2>3
  <2>4. CASE e # c /\ f # c
    BY <1>2, <2>1, <2>2, <2>4 DEF EnrolmentsDiffer
  <2>5. QED
    BY <2>3, <2>4
<1>14. \A e \in Members("student") : Place("student", e)' = Place("student", e)
  <2>1. ASSUME NEW e \in Members("student")
        PROVE  AheadOf("student", e)' = AheadOf("student", e)
    <3>1. e \in DOMAIN rows /\ rows'[e] = rows[e] /\ rows[e].since \in 0..clock
      BY <1>4, <1>5, <1>9 DEF Members
    <3>2. ~ (rows'[c].since < rows'[e].since)
      BY <1>3, <1>7, <3>1
    <3>3. \A d \in Members("student") : rows'[d] = rows[d]
      BY <1>4, <1>9 DEF Members
    <3>4. QED
      BY <1>9, <3>1, <3>2, <3>3 DEF AheadOf
  <2>2. QED
    BY <2>1 DEF Place
<1>15. StudentFits'
  <2>1. SUFFICES ASSUME walk.list = "student", walk.stop = "by an empty page", ~ shrunk
                 PROVE  /\ wanted \subseteq Members("student")' /\ walk.seen \subseteq Members("student")'
                        /\ reading = "asking" =>
                             /\ ~ repeated
                             /\ \A e \in walk.seen : Place("student", e)' < Behind(walk.page)
                             /\ \A e \in wanted : Place("student", e)' < Behind(walk.page) => e \in walk.seen
                        /\ reading = "done" /\ walk.page <= MaxPage => wanted \subseteq walk.seen /\ ~ repeated
    BY <1>1 DEF StudentFits, Behind
  <2>2. wanted \subseteq Members("student") /\ walk.seen \subseteq Members("student")
    BY <1>2, <2>1 DEF StudentFits
  <2>3. QED
    BY <1>2, <1>9, <1>14, <2>1, <2>2 DEF StudentFits
<1>16. QED
  BY <1>10, <1>11, <1>12, <1>13, <1>15 DEF ListingInv

LEMMA WithdrawStep == ASSUME NEW c \in Catalogue PROVE ListingInv /\ Withdraw(c) => ListingInv'
<1> SUFFICES ASSUME ListingInv, Withdraw(c) PROVE ListingInv'
  OBVIOUS
<1>1. /\ clock < MaxChanges /\ clock' = clock + 1 /\ c \in DOMAIN rows
      /\ rows' = Restrict(rows, DOMAIN rows \ {c}) /\ wanted' = wanted \ {c}
      /\ shrunk' = (shrunk \/ reading # "start") /\ walk' = walk /\ reading' = reading
      /\ tied' = tied /\ repeated' = repeated
  BY DEF Withdraw, CatalogueChanges
<1>2. ListingShape /\ WalkFits /\ EnrolmentsDiffer
  BY DEF ListingInv
<1>3. clock \in Nat /\ clock' \in 0..MaxChanges /\ \A i \in 0..clock : i \in 0..clock'
  BY <1>1, <1>2, SizeAssumption, SMTT(30) DEF ListingShape
<1>4. /\ DOMAIN rows' = DOMAIN rows \ {c} /\ \A e \in DOMAIN rows' : rows'[e] = rows[e]
      /\ rows' = [e \in DOMAIN rows' |-> rows'[e]]
  BY <1>1 DEF Restrict
<1>5. ListingShape'
  <2>1. \A e \in DOMAIN rows' : /\ rows'[e].date \in Dates /\ rows'[e].own \in BOOLEAN
                               /\ rows'[e].since \in 0..clock'
                               /\ DOMAIN rows'[e] = {"date", "own", "since"}
    BY <1>2, <1>3, <1>4 DEF ListingShape
  <2>2. shrunk' \in BOOLEAN /\ wanted' \subseteq Catalogue /\ DOMAIN rows' \subseteq Catalogue
    BY <1>1, <1>2, <1>4 DEF ListingShape
  <2>3. QED
    BY <1>1, <1>2, <1>3, <1>4, <2>1, <2>2 DEF ListingShape
<1>6. Ties(rows)' => Ties(rows)
  BY <1>4 DEF Ties
<1>7. WalkFits'
  BY <1>1, <1>2, <1>4, <1>6 DEF WalkFits
<1>8. EnrolmentsDiffer'
  <2>1. \A e \in Members("student")' : e \in Members("student") /\ rows'[e] = rows[e]
    BY <1>4 DEF Members, Member
  <2>2. QED
    BY <1>2, <2>1 DEF EnrolmentsDiffer
<1>9. AdminFits' /\ StudentFits'
  <2>1. CASE reading = "start"
    <3>1. walk.page = 1 /\ walk.seen = {} /\ wanted' = {}
      BY <1>1, <1>2, <2>1 DEF WalkFits
    <3>2. QED
      BY <1>1, <2>1, <3>1 DEF AdminFits, StudentFits
  <2>2. CASE reading # "start"
    BY <1>1, <2>2 DEF AdminFits, StudentFits
  <2>3. QED
    BY <2>1, <2>2
<1>10. QED
  BY <1>5, <1>7, <1>8, <1>9 DEF ListingInv

-----------------------------------------------------------------------------
LEMMA ListingStill == ListingInv /\ UNCHANGED listingVars => ListingInv'
<1> SUFFICES ASSUME ListingInv, UNCHANGED listingVars PROVE ListingInv'
  OBVIOUS
<1>1. /\ rows' = rows /\ clock' = clock /\ walk' = walk /\ reading' = reading /\ wanted' = wanted
      /\ tied' = tied /\ shrunk' = shrunk /\ repeated' = repeated
  BY DEF listingVars
<1>2. ListingShape' /\ WalkFits'
  BY <1>1 DEF ListingInv, ListingShape, WalkFits, Ties
<1>3. \A list : Members(list)' = Members(list) /\ \A c : Place(list, c)' = Place(list, c)
  BY <1>1, SamePlaces
<1>4. EnrolmentsDiffer'
  BY <1>1, <1>3 DEF ListingInv, EnrolmentsDiffer
<1>5. AdminFits'
  BY <1>1, <1>3 DEF ListingInv, AdminFits, Behind
<1>6. StudentFits'
  BY <1>1, <1>3 DEF ListingInv, StudentFits, Behind
<1>7. QED
  BY <1>2, <1>4, <1>5, <1>6 DEF ListingInv

LEMMA ListingNextInv == ListingInv /\ [ListingNext]_listingVars => ListingInv'
<1> SUFFICES ASSUME ListingInv, [ListingNext]_listingVars PROVE ListingInv'
  OBVIOUS
<1>1. CASE BeginWalk
  BY <1>1, BeginWalkStep
<1>2. CASE AdminPage
  BY <1>2, AdminPageStep
<1>3. CASE AdminTotals
  BY <1>3, AdminTotalsStep
<1>4. CASE StudentPage
  BY <1>4, StudentPageStep
<1>5. CASE ProfessorPage
  BY <1>5, ProfessorPageStep
<1>6. CASE ListAll
  BY <1>6, ListAllStep
<1>7. CASE \E c \in Catalogue : Offer(c) \/ EnrolIn(c) \/ Withdraw(c)
  BY <1>7, OfferStep, EnrolInStep, WithdrawStep
<1>8. CASE UNCHANGED listingVars
  BY <1>8, ListingStill
<1>9. QED
  BY <1>1, <1>2, <1>3, <1>4, <1>5, <1>6, <1>7, <1>8 DEF ListingNext

\* What a client has read and what it is told of the courses stays in its types: its page, its
\* content, and the times of enrolment, which no change of the catalogue sets back.
THEOREM ListingTypesHold == ListingSpec => []ListingTypeOK
<1>1. ListingInv => ListingTypeOK
  BY DEF ListingInv, ListingShape, ListingTypeOK
<1>2. QED
  BY <1>1, ListingInitInv, ListingNextInv, PTL DEF ListingSpec

\* Who turns the pages to the end sees every course that was there all the while, and a student
\* sees none twice, however many courses are created and enrolled in between two pages or between
\* a page and its totals (get_courses and get_student_courses, courses.py).
THEOREM WalksShowAll == ListingSpec => []PagesShowAll
<1>1. ListingInv => PagesShowAll
  <2>1. SUFFICES ASSUME ListingInv PROVE AdministratorsSeeAll /\ StudentsSeeAllOnce
    BY DEF PagesShowAll
  <2>2. ~ Bounded => walk.page <= MaxPage
    <3>1. walk.page \in Nat /\ MaxPage \in Nat
      BY <2>1, SizeAssumption DEF ListingInv, ListingShape
    <3>2. QED
      BY <3>1 DEF Bounded
  <2>3. AdministratorsSeeAll
    BY <2>1, <2>2 DEF ListingInv, AdminFits, AdministratorsSeeAll, Finished
  <2>4. StudentsSeeAllOnce
    BY <2>1, <2>2 DEF ListingInv, StudentFits, StudentsSeeAllOnce, Finished
  <2>5. QED
    BY <2>3, <2>4
<1>2. QED
  BY <1>1, ListingInitInv, ListingNextInv, PTL DEF ListingSpec
-----------------------------------------------------------------------------
(* The scenes.                                                             *)

\* Whichever scene is played, courses, lists, dashboards and their requests keep their types
\* (machine/api/v1/courses.py, dashboard.py): a scene is a behaviour of one component beside
\* which the others rest.
THEOREM ScenesKeepTypes == MCSpec => []TypesOK
<1>1. MCSpec => Spec
  <2>1. MCInit => Init
    BY DEF MCInit
  <2>2. [MCNext]_<<scene, vars, listingVars, dashboardVars>> => [Next]_vars
    BY DEF MCNext, CourseScene
  <2>3. QED
    BY <2>1, <2>2, PTL DEF MCSpec, Spec
<1>2. MCSpec => ListingSpec
  <2>1. MCInit => ListingInit
    <3>1. ListingsBegin => ListingInit
      BY Zenon DEF ListingsBegin
    <3>2. QED
      BY <3>1 DEF MCInit
  <2>2. [MCNext]_<<scene, vars, listingVars, dashboardVars>> => [ListingNext]_listingVars
    BY DEF MCNext, ListingScene
  <2>3. QED
    BY <2>1, <2>2, PTL DEF MCSpec, ListingSpec
<1>3. MCSpec => DashboardSpec
  <2>1. MCInit => DashboardInit
    BY DEF MCInit, DashboardsBegin
  <2>2. [MCNext]_<<scene, vars, listingVars, dashboardVars>> => [DashboardNext]_dashboardVars
    BY DEF MCNext, DashboardScene
  <2>3. QED
    BY <2>1, <2>2, PTL DEF MCSpec, DashboardSpec
<1>4. TypeOK /\ ListingTypeOK /\ DashboardTypeOK => TypesOK
  BY DEF TypesOK
<1>5. QED
  BY <1>1, <1>2, <1>3, <1>4, TypeCorrect, ListingTypesHold, DashboardTypesHold, PTL

=============================================================================
