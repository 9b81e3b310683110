--------------------------- MODULE LessonWork_proofs ---------------------------
(***************************************************************************)
(* Proofs about LessonWork, for any sets of requests and any bounds.       *)
(*                                                                         *)
(* IInv is inductive.  PointsInv is inductive beside it: what a model      *)
(* answers with has points, so that their sum, which a quiz stores as its  *)
(* maximum, is a natural number.                                           *)
(***************************************************************************)
EXTENDS LessonWork, Collections_proofs, FiniteSetTheorems, SequenceTheorems, TLAPS

-----------------------------------------------------------------------------
(* The inductive invariant.                                                *)

Row == [status : {"new", "completed"}, progress : 0..100, bookmark : BOOLEAN,
        supplements : SUBSET Regens]
Places == {"idle", "read", "answered", "created", "scored", "rewritten", "extended",
           "completed", "repeat", "review", "defaulted", "ok", "failed"}

ShapeInv ==
    /\ lesson \in Row
    /\ held \in [Regens \cup Toggles -> Row]
    /\ extras \subseteq Regens /\ extraDocs \subseteq extras
    /\ moved \subseteq Regens \cup Toggles
    /\ pc \in [Requests -> Places]
    /\ DOMAIN answer = Requests /\ DOMAIN quizzes = Quizzers
    /\ exercises \in [Coders -> [stored : BOOLEAN, tests : 0..MaxItems, configs : 0..MaxItems]]

\* Who was not overtaken has read what is still there, but for status and progress, which a
\* regeneration overwrites and a toggle leaves.
HeldInv ==
    \A p \in Regens \cup Toggles :
        pc[p] = "read" /\ p \notin moved =>
            held[p].supplements = lesson.supplements /\ held[p].bookmark = lesson.bookmark

\* How far a regeneration is, and what is stored of it.
RegenInv(r) ==
    /\ pc[r] = "extended" => r \in extras
    /\ pc[r] = "ok" => r \in extraDocs
    /\ r \in extras \ extraDocs => pc[r] \in {"extended", "failed"}

\* The toggles that were answered.
Toggled == {t \in Toggles : pc[t] = "ok"}

LessonRowInv ==
    /\ HeldInv
    /\ \A r \in Regens : RegenInv(r)
    /\ SupplementsAnnounced
    /\ IsFiniteSet(Toggled) /\ BookmarkIsAsReported

\* A quiz has its maximum before its questions, and questions only when it was answered.
QuizMadeInv(q) ==
    /\ pc[q] \in {"idle", "created", "answered", "scored", "ok", "failed"}
    /\ quizzes[q] = [stored |-> quizzes[q].stored, max |-> quizzes[q].max,
                     questions |-> quizzes[q].questions]
    /\ quizzes[q].stored \in BOOLEAN
    /\ ~ quizzes[q].stored => quizzes[q] = NoQuiz /\ pc[q] \in {"idle", "failed"}
    /\ quizzes[q].stored => pc[q] # "idle"
    /\ pc[q] # "ok" => quizzes[q].questions = <<>>
    /\ pc[q] = "scored" => answer[q] # <<>> /\ quizzes[q].max = Total(answer[q])
    /\ pc[q] = "ok" => quizzes[q].questions # <<>> /\ quizzes[q].max = Total(quizzes[q].questions)

\* The parts of an exercise come together, at the end.
CoderInv(c) ==
    /\ pc[c] \in {"idle", "answered", "created", "ok", "failed"}
    /\ pc[c] \in {"answered", "created"} => answer[c] \in [tests : 0..MaxItems, configs : 0..MaxItems]
    /\ pc[c] \in {"created", "ok"} => exercises[c].stored
    /\ pc[c] = "ok" => exercises[c].tests > 0 /\ exercises[c].configs > 0
    /\ pc[c] # "ok" => exercises[c].tests = 0 /\ exercises[c].configs = 0

MadeInv ==
    /\ \A q \in Quizzers : QuizMadeInv(q)
    /\ \A c \in Coders : CoderInv(c)

IInv == ShapeInv /\ LessonRowInv /\ MadeInv

-----------------------------------------------------------------------------
LEMMA InitInv == Init => IInv
<1> SUFFICES ASSUME Init PROVE IInv
  OBVIOUS
<1> DEFINE row == [status |-> "new", progress |-> 0, bookmark |-> FALSE, supplements |-> {}]
<1>1. row \in Row
  BY DEF Row
<1>2. lesson = row /\ held = [p \in Regens \cup Toggles |-> row]
  BY DEF Init
<1>3. /\ pc = [p \in Requests |-> "idle"]
      /\ \A p \in Regens \cup Toggles \cup Quizzers \cup Coders : pc[p] = "idle"
  BY DEF Init, Requests
<1>4. ShapeInv
  BY <1>1, <1>2, <1>3, PointsAssumption DEF Init, ShapeInv, Places, NoExercise
<1>5. LessonRowInv
  <2>1. Toggled = {}
    BY <1>3 DEF Toggled
  <2>2. IsFiniteSet(Toggled) /\ Cardinality(Toggled) = 0
    BY <2>1, FS_EmptySet
  <2>3. BookmarkIsAsReported
    <3>1. lesson.bookmark = FALSE /\ toggled = FALSE
      BY <1>2 DEF Init
    <3>2. ~ (Cardinality(Toggled) % 2 = 1)
      BY <2>2
    <3>3. QED
      BY <3>1, <3>2 DEF BookmarkIsAsReported, Toggled
  <2>4. QED
    BY <1>2, <1>3, <2>2, <2>3 DEF Init, LessonRowInv, HeldInv, RegenInv, SupplementsAnnounced
<1>6. MadeInv
  BY <1>3 DEF Init, MadeInv, QuizMadeInv, CoderInv, NoQuiz, NoExercise
<1>7. QED
  BY <1>4, <1>5, <1>6 DEF IInv

-----------------------------------------------------------------------------
(* What a step leaves alone.                                               *)

LEMMA Moved ==
    ASSUME ShapeInv, NEW p \in Requests, NEW to \in Places, pc' = [pc EXCEPT ![p] = to]
    PROVE  /\ pc' \in [Requests -> Places] /\ pc'[p] = to
           /\ \A q \in Requests \ {p} : pc'[q] = pc[q]
BY DEF ShapeInv

LEMMA QuizKeeps ==
    ASSUME NEW q \in Quizzers, QuizMadeInv(q),
           quizzes'[q] = quizzes[q], pc'[q] = pc[q], answer'[q] = answer[q]
    PROVE  QuizMadeInv(q)'
BY DEF QuizMadeInv

LEMMA CoderKeeps ==
    ASSUME NEW c \in Coders, CoderInv(c),
           exercises'[c] = exercises[c], pc'[c] = pc[c], answer'[c] = answer[c]
    PROVE  CoderInv(c)'
BY DEF CoderInv

\* The steps of one who makes neither quizzes nor exercises.
LEMMA MadeKeeps ==
    ASSUME MadeInv, quizzes' = quizzes, exercises' = exercises,
           \A q \in Quizzers \cup Coders : pc'[q] = pc[q] /\ answer'[q] = answer[q]
    PROVE  MadeInv'
BY QuizKeeps, CoderKeeps DEF MadeInv

\* The steps of one who neither reads nor writes the row.
LEMMA RowKeeps ==
    ASSUME LessonRowInv, lesson' = lesson, held' = held, moved' = moved, toggled' = toggled,
           extras' = extras, extraDocs' = extraDocs,
           \A q \in Regens \cup Toggles : pc'[q] = pc[q]
    PROVE  LessonRowInv'
<1>1. Toggled' = Toggled
  BY DEF Toggled
<1>2. BookmarkIsAsReported'
  BY <1>1 DEF LessonRowInv, BookmarkIsAsReported, Toggled
<1>3. QED
  BY <1>1, <1>2 DEF LessonRowInv, HeldInv, RegenInv, SupplementsAnnounced

\* The bookmark and what is known of it, when no toggle moves.
LEMMA BookmarkKeeps ==
    ASSUME IsFiniteSet(Toggled), BookmarkIsAsReported,
           lesson'.bookmark = lesson.bookmark, toggled' = toggled, moved \subseteq moved',
           \A t \in Toggles : pc'[t] = "ok" <=> pc[t] = "ok"
    PROVE  IsFiniteSet(Toggled') /\ BookmarkIsAsReported'
<1>1. Toggled' = Toggled
  BY DEF Toggled
<1>2. QED
  BY <1>1 DEF BookmarkIsAsReported, Toggled

\* Who writes the row makes everyone else's reading old.
LEMMA WriteOvertakes ==
    ASSUME ShapeInv, NEW p, NEW row, Write(p, row)
    PROVE  /\ lesson' = row /\ moved \subseteq moved' /\ moved' \subseteq Regens \cup Toggles
           /\ \A q \in Regens \cup Toggles : q # p /\ pc[q] = "read" => q \in moved'
BY DEF Write, ShapeInv

\* Each second toggle turns the bookmark back.
LEMMA Parity == \A n \in Nat : (n + 1) % 2 = 1 <=> ~ (n % 2 = 1)
OBVIOUS

-----------------------------------------------------------------------------
(* Steps of any request, and of those that only work on the row.           *)

LEMMA FailInv ==
    ASSUME IInv, NEW p \in Requests, Fail(p)
    PROVE  IInv'
<1> USE DEF IInv
<1>1. /\ lesson' = lesson /\ held' = held /\ answer' = answer /\ moved' = moved /\ toggled' = toggled
      /\ extras' = extras /\ extraDocs' = extraDocs /\ quizzes' = quizzes /\ exercises' = exercises
  BY DEF Fail, work
<1>2. /\ pc[p] # "ok" /\ pc' \in [Requests -> Places] /\ pc'[p] = "failed"
      /\ \A q \in Requests \ {p} : pc'[q] = pc[q]
  BY Moved DEF Fail, Places
<1>3. ShapeInv'
  BY <1>1, <1>2 DEF ShapeInv
<1>4. LessonRowInv'
  <2>1. \A t \in Toggles : pc'[t] = "ok" <=> pc[t] = "ok"
    BY <1>2 DEF Requests
  <2>2. IsFiniteSet(Toggled') /\ BookmarkIsAsReported'
    BY <1>1, <2>1, BookmarkKeeps DEF LessonRowInv
  <2>3. HeldInv'
    BY <1>1, <1>2 DEF LessonRowInv, HeldInv, Requests
  <2>4. \A r \in Regens : RegenInv(r)'
    BY <1>1, <1>2 DEF LessonRowInv, RegenInv, Requests
  <2>5. SupplementsAnnounced'
    BY <1>1, <1>2 DEF LessonRowInv, SupplementsAnnounced, Requests
  <2>6. QED
    BY <2>2, <2>3, <2>4, <2>5 DEF LessonRowInv
<1>5. MadeInv'
  <2>1. ASSUME NEW q \in Quizzers PROVE QuizMadeInv(q)'
    <3>1. CASE q = p
      BY <1>1, <1>2, <3>1 DEF MadeInv, QuizMadeInv
    <3>2. CASE q # p
      BY <1>1, <1>2, <3>2, QuizKeeps DEF MadeInv, Requests
    <3>3. QED
      BY <3>1, <3>2
  <2>2. ASSUME NEW c \in Coders PROVE CoderInv(c)'
    <3>1. CASE c = p
      BY <1>1, <1>2, <3>1 DEF MadeInv, CoderInv
    <3>2. CASE c # p
      BY <1>1, <1>2, <3>2, CoderKeeps DEF MadeInv, Requests
    <3>3. QED
      BY <3>1, <3>2
  <2>3. QED
    BY <2>1, <2>2 DEF MadeInv
<1>6. QED
  BY <1>3, <1>4, <1>5

LEMMA ReadRowInv ==
    ASSUME IInv, NEW p \in Regens \cup Toggles, ReadRow(p)
    PROVE  IInv'
<1> USE DEF IInv
<1>1. /\ lesson' = lesson /\ answer' = answer /\ moved' = moved /\ toggled' = toggled
      /\ extras' = extras /\ extraDocs' = extraDocs /\ quizzes' = quizzes /\ exercises' = exercises
      /\ held' = [held EXCEPT ![p] = lesson]
  BY DEF ReadRow, work
<1>2. p \in Requests /\ p \notin Quizzers \cup Coders
  BY KindsAssumption DEF Requests
<1>3. /\ pc[p] = "idle" /\ pc' \in [Requests -> Places] /\ pc'[p] = "read"
      /\ \A q \in Requests \ {p} : pc'[q] = pc[q]
  BY <1>2, Moved DEF ReadRow, Goto, Places
<1>4. ShapeInv'
  BY <1>1, <1>3 DEF ShapeInv
<1>5. LessonRowInv'
  <2>1. \A t \in Toggles : pc'[t] = "ok" <=> pc[t] = "ok"
    BY <1>3 DEF Requests
  <2>2. IsFiniteSet(Toggled') /\ BookmarkIsAsReported'
    BY <1>1, <2>1, BookmarkKeeps DEF LessonRowInv
  <2>3. HeldInv'
    BY <1>1, <1>3 DEF LessonRowInv, HeldInv, Requests, ShapeInv
  <2>4. \A r \in Regens : RegenInv(r)'
    BY <1>1, <1>3 DEF LessonRowInv, RegenInv, Requests
  <2>5. SupplementsAnnounced'
    BY <1>1, <1>3 DEF LessonRowInv, SupplementsAnnounced, Requests
  <2>6. QED
    BY <2>2, <2>3, <2>4, <2>5 DEF LessonRowInv
<1>6. MadeInv'
  BY <1>1, <1>2, <1>3, MadeKeeps DEF Requests
<1>7. QED
  BY <1>4, <1>5, <1>6

\* A regeneration that was not overtaken adds to the supplements that are there.
LEMMA RewriteInv ==
    ASSUME IInv, NEW r \in Regens, Rewrite(r)
    PROVE  IInv'
<1> USE DEF IInv
<1> DEFINE row == [lesson EXCEPT !.supplements = held[r].supplements \cup {r}, !.status = "new",
                                 !.progress = held[r].progress]
<1>1. /\ held' = held /\ toggled' = toggled
      /\ extras' = extras /\ extraDocs' = extraDocs /\ quizzes' = quizzes /\ exercises' = exercises
      /\ Write(r, row)
  BY DEF Rewrite, work
<1>2. r \in Requests /\ r \notin Quizzers \cup Coders \cup Toggles
  BY KindsAssumption DEF Requests
<1>3. /\ pc[r] = "read" /\ pc' \in [Requests -> Places] /\ pc'[r] = "rewritten"
      /\ \A q \in Requests \ {r} : pc'[q] = pc[q]
  BY <1>2, Moved DEF Rewrite, Goto, Places
<1>4. DOMAIN answer' = Requests /\ \A q \in Requests \ {r} : answer'[q] = answer[q]
  BY DEF Rewrite, ShapeInv
<1>5. /\ row \in Row /\ row.bookmark = lesson.bookmark
      /\ row.supplements = held[r].supplements \cup {r}
  BY DEF ShapeInv, Row
<1> HIDE DEF row
<1>6. /\ lesson' = row /\ moved \subseteq moved' /\ moved' \subseteq Regens \cup Toggles
      /\ \A q \in Regens \cup Toggles : q # r /\ pc[q] = "read" => q \in moved'
  BY <1>1, WriteOvertakes
<1>7. ShapeInv'
  BY <1>1, <1>3, <1>4, <1>5, <1>6 DEF ShapeInv
<1>8. LessonRowInv'
  <2>1. \A t \in Toggles : pc'[t] = "ok" <=> pc[t] = "ok"
    BY <1>2, <1>3 DEF Requests
  <2>2. IsFiniteSet(Toggled') /\ BookmarkIsAsReported'
    BY <1>1, <1>5, <1>6, <2>1, BookmarkKeeps DEF LessonRowInv
  <2>3. HeldInv'
    BY <1>3, <1>6 DEF HeldInv, Requests
  <2>4. \A q \in Regens : RegenInv(q)'
    BY <1>1, <1>3 DEF LessonRowInv, RegenInv, Requests
  <2>5. SupplementsAnnounced'
    <3> SUFFICES ASSUME moved' \cap Regens = {}
                 PROVE  /\ extras \subseteq row.supplements
                        /\ \A q \in Regens : pc'[q] \in {"rewritten", "extended", "ok"} => q \in row.supplements
      BY <1>1, <1>6 DEF SupplementsAnnounced
    <3>1. moved \cap Regens = {} /\ r \notin moved
      BY <1>6
    <3>2. row.supplements = lesson.supplements \cup {r}
      BY <1>3, <1>5, <3>1 DEF LessonRowInv, HeldInv
    <3>3. QED
      BY <1>3, <3>1, <3>2 DEF LessonRowInv, SupplementsAnnounced, Requests
  <2>6. QED
    BY <2>2, <2>3, <2>4, <2>5 DEF LessonRowInv
<1>9. MadeInv'
  BY <1>1, <1>2, <1>3, <1>4, MadeKeeps DEF Requests
<1>10. QED
  BY <1>7, <1>8, <1>9

\* The other steps of a regeneration.
LEMMA RegenStep ==
    ASSUME IInv, NEW r \in Regens, NEW to \in Places, pc' = [pc EXCEPT ![r] = to],
           lesson' = lesson, held' = held, answer' = answer, moved' = moved, toggled' = toggled,
           quizzes' = quizzes, exercises' = exercises,
           to # "read", extras' \in {extras, extras \cup {r}}, extraDocs' \subseteq extras',
           extraDocs' \in {extraDocs, extraDocs \cup {r}},
           pc[r] \in {"rewritten", "extended"}, RegenInv(r)'
    PROVE  IInv'
<1> USE DEF IInv
<1>1. r \in Requests /\ r \notin Quizzers \cup Coders \cup Toggles
  BY KindsAssumption DEF Requests
<1>2. /\ pc' \in [Requests -> Places] /\ pc'[r] = to
      /\ \A q \in Requests \ {r} : pc'[q] = pc[q]
  BY <1>1, Moved
<1>3. ShapeInv'
  BY <1>2 DEF ShapeInv
<1>4. LessonRowInv'
  <2>1. \A t \in Toggles : pc'[t] = "ok" <=> pc[t] = "ok"
    BY <1>1, <1>2 DEF Requests
  <2>2. IsFiniteSet(Toggled') /\ BookmarkIsAsReported'
    BY <2>1, BookmarkKeeps DEF LessonRowInv
  <2>3. HeldInv'
    BY <1>2 DEF LessonRowInv, HeldInv, Requests
  <2>4. \A q \in Regens : RegenInv(q)'
    BY <1>2 DEF LessonRowInv, RegenInv, Requests
  <2>5. SupplementsAnnounced'
    BY <1>2 DEF LessonRowInv, SupplementsAnnounced, Requests
  <2>6. QED
    BY <2>2, <2>3, <2>4, <2>5 DEF LessonRowInv
<1>5. MadeInv'
  BY <1>1, <1>2, MadeKeeps DEF Requests
<1>6. QED
  BY <1>3, <1>4, <1>5

LEMMA ExtraModulesInv ==
    ASSUME IInv, NEW r \in Regens, ExtraModules(r)
    PROVE  IInv'
<1>1. r \in Requests /\ RegenInv(r) /\ extraDocs \subseteq extras /\ pc'[r] = "extended"
  BY DEF Requests, IInv, LessonRowInv, ShapeInv, ExtraModules, Goto
<1>2. RegenInv(r)'
  BY <1>1 DEF ExtraModules, RegenInv
<1>3. QED
  BY <1>1, <1>2, RegenStep DEF ExtraModules, Goto, Places

LEMMA NoExtraModulesInv ==
    ASSUME IInv, NEW r \in Regens, NoExtraModules(r)
    PROVE  IInv'
<1>1. r \in Requests /\ RegenInv(r) /\ extraDocs \subseteq extras /\ pc'[r] = "failed"
  BY DEF Requests, IInv, LessonRowInv, ShapeInv, NoExtraModules, Goto
<1>2. RegenInv(r)'
  BY <1>1 DEF NoExtraModules, RegenInv, work
<1>3. QED
  BY <1>1, <1>2, RegenStep DEF NoExtraModules, Goto, Places, work

LEMMA ExtraDocumentsInv ==
    ASSUME IInv, NEW r \in Regens, ExtraDocuments(r)
    PROVE  IInv'
<1>1. r \in Requests /\ RegenInv(r) /\ extraDocs \subseteq extras /\ pc'[r] = "ok" /\ pc[r] = "extended"
  BY DEF Requests, IInv, LessonRowInv, ShapeInv, ExtraDocuments, Goto
<1>2. r \in extras /\ RegenInv(r)'
  BY <1>1 DEF ExtraDocuments, RegenInv
<1>3. QED
  BY <1>1, <1>2, RegenStep DEF ExtraDocuments, Goto, Places

\* A writer that leaves supplements and bookmark as they are.
LEMMA ProgressMovesInv ==
    ASSUME IInv, NEW p, p \notin Regens \cup Toggles \cup Quizzers \cup Coders,
           NEW row \in Row, row.bookmark = lesson.bookmark, row.supplements = lesson.supplements,
           Write(p, row), UNCHANGED <<work, held, answer, toggled>>,
           pc' \in [Requests -> Places], \A q \in Requests \ {p} : pc'[q] = pc[q]
    PROVE  IInv'
<1> USE DEF IInv
<1>1. /\ held' = held /\ toggled' = toggled /\ answer' = answer
      /\ extras' = extras /\ extraDocs' = extraDocs /\ quizzes' = quizzes /\ exercises' = exercises
  BY DEF work
<1>2. \A q \in Regens \cup Toggles \cup Quizzers \cup Coders : pc'[q] = pc[q]
  BY DEF Requests
<1>3. lesson' = row /\ moved \subseteq moved' /\ moved' \subseteq Regens \cup Toggles
  BY WriteOvertakes
<1>4. ShapeInv'
  BY <1>1, <1>3 DEF ShapeInv
<1>5. LessonRowInv'
  <2>1. IsFiniteSet(Toggled') /\ BookmarkIsAsReported'
    BY <1>1, <1>2, <1>3, BookmarkKeeps DEF LessonRowInv
  <2>2. HeldInv' /\ SupplementsAnnounced'
    BY <1>1, <1>2, <1>3 DEF LessonRowInv, HeldInv, SupplementsAnnounced
  <2>3. \A r \in Regens : RegenInv(r)'
    BY <1>1, <1>2 DEF LessonRowInv, RegenInv
  <2>4. QED
    BY <2>1, <2>2, <2>3 DEF LessonRowInv
<1>6. MadeInv'
  BY <1>1, <1>2, MadeKeeps
<1>7. QED
  BY <1>4, <1>5, <1>6

\* A row with another status and progress.
LEMMA RowWith ==
    ASSUME NEW r \in Row, NEW s \in {"new", "completed"}, NEW p \in 0..100
    PROVE  LET row == [r EXCEPT !.status = s, !.progress = p]
           IN  row \in Row /\ row.bookmark = r.bookmark /\ row.supplements = r.supplements
BY DEF Row

LEMMA CompleteInv ==
    ASSUME IInv, NEW m \in Monitors, Complete(m)
    PROVE  IInv'
<1> DEFINE row == [lesson EXCEPT !.status = "completed", !.progress = 100]
<1>1. row \in Row /\ row.bookmark = lesson.bookmark /\ row.supplements = lesson.supplements
  <2>1. lesson \in Row /\ "completed" \in {"new", "completed"}
    BY DEF IInv, ShapeInv
  <2>2. 100 \in 0..100
    OBVIOUS
  <2>3. QED
    BY <2>1, <2>2, RowWith
<1>2. m \in Requests /\ m \notin Regens \cup Toggles \cup Quizzers \cup Coders
  BY KindsAssumption DEF Requests
<1>3. Write(m, row) /\ UNCHANGED <<work, held, answer, toggled>>
  BY DEF Complete
<1>4. pc' \in [Requests -> Places] /\ \A q \in Requests \ {m} : pc'[q] = pc[q]
  BY <1>2, Moved DEF IInv, Complete, Goto, Places
<1> HIDE DEF row
<1>5. QED
  BY <1>1, <1>2, <1>3, <1>4, ProgressMovesInv

\* The progress that quizzes bring.
LEMMA QuizProgressInv ==
    ASSUME IInv, QuizProgress
    PROVE  IInv'
<1> USE DEF IInv
<1>1. PICK p \in Averages : Write("quiz", [lesson EXCEPT !.progress = p])
  BY DEF QuizProgress
<1> DEFINE row == [lesson EXCEPT !.progress = p]
<1>2. row \in Row /\ row.bookmark = lesson.bookmark /\ row.supplements = lesson.supplements
  BY PointsAssumption DEF ShapeInv, Row
<1>3. /\ held' = held /\ toggled' = toggled /\ answer' = answer /\ pc' = pc
      /\ extras' = extras /\ extraDocs' = extraDocs /\ quizzes' = quizzes /\ exercises' = exercises
  BY DEF QuizProgress, work
<1>4. lesson' = row /\ moved \subseteq moved' /\ moved' \subseteq Regens \cup Toggles
  BY <1>1, WriteOvertakes
<1> HIDE DEF row
<1>5. ShapeInv'
  BY <1>2, <1>3, <1>4 DEF ShapeInv
<1>6. LessonRowInv'
  <2>1. IsFiniteSet(Toggled') /\ BookmarkIsAsReported'
    BY <1>2, <1>3, <1>4, BookmarkKeeps DEF LessonRowInv
  <2>2. HeldInv' /\ SupplementsAnnounced'
    BY <1>2, <1>3, <1>4 DEF LessonRowInv, HeldInv, SupplementsAnnounced
  <2>3. \A r \in Regens : RegenInv(r)'
    BY <1>3 DEF LessonRowInv, RegenInv
  <2>4. QED
    BY <2>1, <2>2, <2>3 DEF LessonRowInv
<1>7. MadeInv'
  BY <1>3, MadeKeeps
<1>8. QED
  BY <1>5, <1>6, <1>7

\* A toggle that was not overtaken turns the bookmark that is there.
LEMMA ToggleInv ==
    ASSUME IInv, NEW t \in Toggles, Toggle(t)
    PROVE  IInv'
<1> USE DEF IInv
<1> DEFINE row == [lesson EXCEPT !.bookmark = ~held[t].bookmark]
<1>1. /\ held' = held /\ answer' = answer /\ toggled' = ~held[t].bookmark
      /\ extras' = extras /\ extraDocs' = extraDocs /\ quizzes' = quizzes /\ exercises' = exercises
      /\ Write(t, row)
  BY DEF Toggle, work
<1>2. t \in Requests /\ t \notin Quizzers \cup Coders \cup Regens
  BY KindsAssumption DEF Requests
<1>3. /\ pc[t] = "read" /\ pc' \in [Requests -> Places] /\ pc'[t] = "ok"
      /\ \A q \in Requests \ {t} : pc'[q] = pc[q]
  BY <1>2, Moved DEF Toggle, Goto, Places
<1>4. row \in Row /\ row.bookmark = ~held[t].bookmark /\ row.supplements = lesson.supplements
  BY DEF ShapeInv, Row
<1> HIDE DEF row
<1>5. /\ lesson' = row /\ moved \subseteq moved' /\ moved' \subseteq Regens \cup Toggles
      /\ \A q \in Regens \cup Toggles : q # t /\ pc[q] = "read" => q \in moved'
  BY <1>1, WriteOvertakes
<1>6. ShapeInv'
  BY <1>1, <1>3, <1>4, <1>5 DEF ShapeInv
<1>7. Toggled' = Toggled \cup {t} /\ t \notin Toggled
  BY <1>3 DEF Toggled, Requests
<1>8. /\ IsFiniteSet(Toggled') /\ Cardinality(Toggled) \in Nat
      /\ Cardinality(Toggled') = Cardinality(Toggled) + 1
  BY <1>7, FS_AddElement, FS_CardinalityType DEF LessonRowInv
<1>9. BookmarkIsAsReported'
  <2>1. lesson'.bookmark = toggled'
    BY <1>1, <1>4, <1>5
  <2>2. ASSUME moved' \cap Toggles = {}
        PROVE  lesson'.bookmark <=> Cardinality(Toggled') % 2 = 1
    <3>1. held[t].bookmark = lesson.bookmark /\ moved \cap Toggles = {}
      BY <1>3, <1>5, <2>2 DEF LessonRowInv, HeldInv
    <3>2. lesson.bookmark <=> Cardinality(Toggled) % 2 = 1
      BY <3>1 DEF LessonRowInv, BookmarkIsAsReported, Toggled
    <3>3. Cardinality(Toggled') % 2 = 1 <=> ~ (Cardinality(Toggled) % 2 = 1)
      BY <1>8, Parity
    <3>4. lesson'.bookmark <=> ~ lesson.bookmark
      BY <1>4, <1>5, <3>1
    <3>5. QED
      BY <3>2, <3>3, <3>4
  <2>3. QED
    BY <2>1, <2>2 DEF BookmarkIsAsReported, Toggled
<1>10. HeldInv'
  BY <1>3, <1>5 DEF HeldInv, Requests
<1>11. (\A r \in Regens : RegenInv(r)') /\ SupplementsAnnounced'
  BY <1>1, <1>2, <1>3, <1>4, <1>5 DEF LessonRowInv, RegenInv, SupplementsAnnounced, Requests
<1>12. LessonRowInv'
  BY <1>8, <1>9, <1>10, <1>11 DEF LessonRowInv
<1>13. MadeInv'
  BY <1>1, <1>2, <1>3, MadeKeeps DEF Requests
<1>14. QED
  BY <1>6, <1>12, <1>13

-----------------------------------------------------------------------------
(* Quizzes and exercises.                                                  *)

\* A step of one quiz or exercise; and those of requests that change nothing.
LEMMA QuizOrCoderStep ==
    ASSUME IInv, NEW p \in IssueRegens \cup Monitors \cup Quizzers \cup Coders,
           lesson' = lesson, held' = held, moved' = moved, toggled' = toggled,
           extras' = extras, extraDocs' = extraDocs,
           NEW to \in Places, pc' = [pc EXCEPT ![p] = to],
           DOMAIN answer' = Requests, \A q \in Requests \ {p} : answer'[q] = answer[q],
           DOMAIN quizzes' = Quizzers, \A q \in Quizzers \ {p} : quizzes'[q] = quizzes[q],
           exercises' \in [Coders -> [stored : BOOLEAN, tests : 0..MaxItems, configs : 0..MaxItems]],
           \A c \in Coders \ {p} : exercises'[c] = exercises[c],
           p \in Quizzers => QuizMadeInv(p)', p \in Coders => CoderInv(p)'
    PROVE  IInv'
<1> USE DEF IInv
<1>1. p \in Requests /\ p \notin Regens \cup Toggles
  BY KindsAssumption DEF Requests
<1>2. /\ pc' \in [Requests -> Places]
      /\ \A q \in Requests \ {p} : pc'[q] = pc[q]
  BY <1>1, Moved
<1>3. ShapeInv'
  BY <1>2 DEF ShapeInv
<1>4. LessonRowInv'
  BY <1>1, <1>2, RowKeeps DEF Requests
<1>5. ASSUME NEW q \in Quizzers PROVE QuizMadeInv(q)'
  <2>1. CASE q = p
    BY <2>1
  <2>2. CASE q # p
    BY <1>2, <2>2, QuizKeeps DEF MadeInv, Requests
  <2>3. QED
    BY <2>1, <2>2
<1>6. ASSUME NEW c \in Coders PROVE CoderInv(c)'
  <2>1. CASE c = p
    BY <2>1
  <2>2. CASE c # p
    BY <1>2, <2>2, CoderKeeps DEF MadeInv, Requests
  <2>3. QED
    BY <2>1, <2>2
<1>7. QED
  BY <1>3, <1>4, <1>5, <1>6 DEF MadeInv

\* The requests that end without a change.
LEMMA IdleStepInv ==
    ASSUME IInv, NEW p \in IssueRegens \cup Monitors, NEW to \in Places,
           pc' = [pc EXCEPT ![p] = to], UNCHANGED <<lesson, work, held, answer, moved, toggled>>
    PROVE  IInv'
<1>1. p \notin Quizzers \cup Coders
  BY KindsAssumption
<1>2. QED
  BY <1>1, QuizOrCoderStep DEF IInv, ShapeInv, work

LEMMA QuizStepInv ==
    ASSUME IInv, NEW q \in Quizzers,
           CreateQuiz(q) \/ AskQuestions(q) \/ NoQuestions(q) \/ ScoreQuiz(q) \/ CreateQuestions(q)
    PROVE  IInv'
<1>1. q \in Requests /\ q \notin Coders /\ QuizMadeInv(q)
  BY KindsAssumption DEF Requests, IInv, MadeInv
<1>2. pc \in [Requests -> Places] /\ DOMAIN quizzes = Quizzers /\ DOMAIN answer = Requests
      /\ exercises \in [Coders -> [stored : BOOLEAN, tests : 0..MaxItems, configs : 0..MaxItems]]
  BY DEF IInv, ShapeInv
<1>3. CASE CreateQuiz(q)
  <2>1. QuizMadeInv(q)'
    BY <1>1, <1>2, <1>3 DEF CreateQuiz, Goto, QuizMadeInv
  <2>2. QED
    BY <1>1, <1>2, <1>3, <2>1, QuizOrCoderStep DEF CreateQuiz, Goto, Places
<1>4. CASE AskQuestions(q)
  <2>1. QuizMadeInv(q)'
    BY <1>1, <1>2, <1>4 DEF AskQuestions, Goto, QuizMadeInv, work
  <2>2. DOMAIN answer' = Requests /\ \A p \in Requests \ {q} : answer'[p] = answer[p]
    BY <1>2, <1>4 DEF AskQuestions
  <2>3. QED
    BY <1>1, <1>2, <1>4, <2>1, <2>2, QuizOrCoderStep DEF AskQuestions, Goto, Places, work
<1>5. CASE NoQuestions(q)
  <2>1. QuizMadeInv(q)'
    BY <1>1, <1>2, <1>5 DEF NoQuestions, Goto, QuizMadeInv, work
  <2>2. QED
    BY <1>1, <1>2, <1>5, <2>1, QuizOrCoderStep DEF NoQuestions, Goto, Places, work
<1>6. CASE ScoreQuiz(q)
  <2> DEFINE new == [quizzes[q] EXCEPT !.max = Total(answer[q])]
  <2>1. pc[q] = "answered" /\ pc'[q] = "scored" /\ answer' = answer /\ quizzes' = [quizzes EXCEPT ![q] = new]
    BY <1>1, <1>2, <1>6 DEF ScoreQuiz, Goto
  <2>2. new = [stored |-> quizzes[q].stored, max |-> Total(answer[q]), questions |-> quizzes[q].questions]
    BY <1>1 DEF QuizMadeInv
  <2>3. quizzes'[q] = new
    BY <1>2, <2>1
  <2>4. QuizMadeInv(q)'
    BY <1>1, <1>6, <2>1, <2>2, <2>3 DEF ScoreQuiz, QuizMadeInv
  <2>5. QED
    BY <1>1, <1>2, <1>6, <2>4, QuizOrCoderStep DEF ScoreQuiz, Goto, Places
<1>7. CASE CreateQuestions(q)
  <2> DEFINE new == [quizzes[q] EXCEPT !.questions = answer[q]]
  <2>1. pc[q] = "scored" /\ pc'[q] = "ok" /\ answer' = answer /\ quizzes' = [quizzes EXCEPT ![q] = new]
    BY <1>1, <1>2, <1>7 DEF CreateQuestions, Goto
  <2>2. new = [stored |-> quizzes[q].stored, max |-> quizzes[q].max, questions |-> answer[q]]
    BY <1>1 DEF QuizMadeInv
  <2>3. quizzes'[q] = new
    BY <1>2, <2>1
  <2>4. QuizMadeInv(q)'
    BY <1>1, <2>1, <2>2, <2>3 DEF QuizMadeInv
  <2>5. QED
    BY <1>1, <1>2, <1>7, <2>4, QuizOrCoderStep DEF CreateQuestions, Goto, Places
<1>8. QED
  BY <1>3, <1>4, <1>5, <1>6, <1>7

LEMMA CoderStepInv ==
    ASSUME IInv, NEW c \in Coders,
           AskExercise(c) \/ CreateExercise(c) \/ CommitParts(c) \/ RollBackParts(c)
    PROVE  IInv'
<1>1. c \in Requests /\ c \notin Quizzers /\ CoderInv(c)
  BY KindsAssumption DEF Requests, IInv, MadeInv
<1>2. pc \in [Requests -> Places] /\ DOMAIN quizzes = Quizzers /\ DOMAIN answer = Requests
      /\ exercises \in [Coders -> [stored : BOOLEAN, tests : 0..MaxItems, configs : 0..MaxItems]]
  BY DEF IInv, ShapeInv
<1>3. CASE AskExercise(c)
  <2>1. PICK t \in 0..MaxItems, b \in 0..MaxItems :
          answer' = [answer EXCEPT ![c] = [tests |-> t, configs |-> b]]
    BY <1>3 DEF AskExercise
  <2>2. /\ DOMAIN answer' = Requests /\ \A p \in Requests \ {c} : answer'[p] = answer[p]
        /\ answer'[c] \in [tests : 0..MaxItems, configs : 0..MaxItems]
    BY <1>1, <1>2, <2>1
  <2>3. CoderInv(c)'
    BY <1>1, <1>2, <1>3, <2>2 DEF AskExercise, Goto, CoderInv, work
  <2>4. QED
    BY <1>1, <1>2, <1>3, <2>2, <2>3, QuizOrCoderStep DEF AskExercise, Goto, Places, work
<1>4. CASE CreateExercise(c)
  <2> DEFINE new == [exercises[c] EXCEPT !.stored = TRUE]
  <2>1. /\ pc[c] = "answered" /\ pc'[c] = "created" /\ answer' = answer
        /\ exercises' = [exercises EXCEPT ![c] = new]
    BY <1>1, <1>2, <1>4 DEF CreateExercise, Goto
  <2>2. /\ new \in [stored : BOOLEAN, tests : 0..MaxItems, configs : 0..MaxItems]
        /\ new.stored /\ new.tests = exercises[c].tests /\ new.configs = exercises[c].configs
    BY <1>2
  <2> HIDE DEF new
  <2>3. /\ exercises' \in [Coders -> [stored : BOOLEAN, tests : 0..MaxItems, configs : 0..MaxItems]]
        /\ exercises'[c] = new /\ \A d \in Coders \ {c} : exercises'[d] = exercises[d]
    BY <1>2, <2>1, <2>2
  <2>4. CoderInv(c)'
    BY <1>1, <2>1, <2>2, <2>3, SMTT(30) DEF CoderInv
  <2>5. QED
    BY <1>1, <1>2, <1>4, <2>3, <2>4, QuizOrCoderStep DEF CreateExercise, Goto, Places
<1>5. CASE CommitParts(c)
  <2> DEFINE new == [exercises[c] EXCEPT !.tests = answer[c].tests, !.configs = answer[c].configs]
  <2>1. /\ pc[c] = "created" /\ pc'[c] = "ok" /\ answer' = answer
        /\ answer[c].tests > 0 /\ answer[c].configs > 0
        /\ exercises' = [exercises EXCEPT ![c] = new]
    BY <1>1, <1>2, <1>5 DEF CommitParts, Goto
  <2>2. /\ new \in [stored : BOOLEAN, tests : 0..MaxItems, configs : 0..MaxItems]
        /\ new.stored = exercises[c].stored /\ new.tests = answer[c].tests /\ new.configs = answer[c].configs
    BY <1>1, <1>2, <2>1 DEF CoderInv
  <2> HIDE DEF new
  <2>3. /\ exercises' \in [Coders -> [stored : BOOLEAN, tests : 0..MaxItems, configs : 0..MaxItems]]
        /\ exercises'[c] = new /\ \A d \in Coders \ {c} : exercises'[d] = exercises[d]
    BY <1>2, <2>1, <2>2
  <2>4. CoderInv(c)'
    BY <1>1, <2>1, <2>2, <2>3 DEF CoderInv
  <2>5. QED
    BY <1>1, <1>2, <1>5, <2>3, <2>4, QuizOrCoderStep DEF CommitParts, Goto, Places
<1>6. CASE RollBackParts(c)
  <2>1. CoderInv(c)'
    BY <1>1, <1>2, <1>6 DEF RollBackParts, Goto, CoderInv, work
  <2>2. QED
    BY <1>1, <1>2, <1>6, <2>1, QuizOrCoderStep DEF RollBackParts, Goto, Places, work
<1>7. QED
  BY <1>3, <1>4, <1>5, <1>6

-----------------------------------------------------------------------------
LEMMA NextInv == IInv /\ [Next]_vars => IInv'
<1> SUFFICES ASSUME IInv, [Next]_vars PROVE IInv'
  OBVIOUS
<1>1. CASE UNCHANGED vars
  <2>1. /\ lesson' = lesson /\ held' = held /\ answer' = answer /\ moved' = moved /\ toggled' = toggled
        /\ extras' = extras /\ extraDocs' = extraDocs /\ quizzes' = quizzes /\ exercises' = exercises
        /\ pc' = pc
    BY <1>1 DEF vars, work
  <2>2. QED
    BY <2>1, RowKeeps, MadeKeeps DEF IInv, ShapeInv
<1>2. ASSUME NEW r \in IssueRegens, RegenerateByIssues(r)
      PROVE  IInv'
  BY <1>2, IdleStepInv DEF RegenerateByIssues, Goto, Places
<1>3. ASSUME NEW m \in Monitors, NotYet(m)
      PROVE  IInv'
  BY <1>3, IdleStepInv DEF NotYet, Places
<1>4. ASSUME NEW m \in Monitors, AnalysisUnavailable(m)
      PROVE  IInv'
  BY <1>4, IdleStepInv DEF AnalysisUnavailable, Goto, Places
<1>5. ASSUME NEW r \in Regens, ReadLesson(r)
      PROVE  IInv'
  BY <1>5, ReadRowInv DEF ReadLesson
<1>6. QED
  BY <1>1, <1>2, <1>3, <1>4, <1>5, FailInv, ReadRowInv, RewriteInv, ExtraModulesInv, NoExtraModulesInv,
     ExtraDocumentsInv, CompleteInv, QuizProgressInv, ToggleInv, QuizStepInv, CoderStepInv DEF Next

-----------------------------------------------------------------------------
(* The maximum of a quiz is a sum of points.                               *)

PointsInv ==
    \A q \in Quizzers :
        /\ quizzes[q].max \in Nat
        /\ pc[q] \in {"answered", "scored"} => answer[q] \in Seq(Points)

LEMMA PointsAddUp ==
    ASSUME NEW s \in Seq(Points)
    PROVE  Total(s) \in Nat
<1>1. Total(s) = TotalOf(s, DOMAIN s)
  BY DEF Total, FoldSeq, FoldFunction, FoldFunctionOnSet, TotalOf, MapThenSumSet
<1>2. Len(s) \in Nat /\ DOMAIN s = 1..Len(s) /\ \A i \in DOMAIN s : s[i] \in Nat
  <2>1. Len(s) \in Nat /\ DOMAIN s = 1..Len(s) /\ \A i \in 1..Len(s) : s[i] \in Points
    OBVIOUS
  <2>2. QED
    BY <2>1, PointsAssumption
<1>3. IsFiniteSet(1..Len(s))
  BY <1>2, FS_Interval
<1>4. TotalOf(s, DOMAIN s) \in Nat
  BY <1>2, <1>3, TotalIsNat
<1>5. QED
  BY <1>1, <1>4

LEMMA PointsKeep ==
    ASSUME PointsInv, quizzes' = quizzes,
           \A q \in Quizzers : answer'[q] = answer[q] /\ pc'[q] \in {pc[q], "failed"}
    PROVE  PointsInv'
BY DEF PointsInv

\* The steps of who makes no quiz.
LEMMA OthersLeavePoints ==
    ASSUME IInv, PointsInv, NEW p \in Requests \ Quizzers, quizzes' = quizzes,
           \E to : pc' = [pc EXCEPT ![p] = to],
           answer' = answer \/ \E a : answer' = [answer EXCEPT ![p] = a]
    PROVE  PointsInv'
<1>1. DOMAIN pc = Requests /\ DOMAIN answer = Requests /\ Quizzers \subseteq Requests
  BY DEF IInv, ShapeInv, Requests
<1>2. \A q \in Quizzers : answer'[q] = answer[q] /\ pc'[q] = pc[q]
  BY <1>1
<1>3. QED
  BY <1>2, PointsKeep

LEMMA QuizStepPoints ==
    ASSUME IInv, PointsInv, NEW q \in Quizzers,
           CreateQuiz(q) \/ AskQuestions(q) \/ NoQuestions(q) \/ ScoreQuiz(q) \/ CreateQuestions(q)
    PROVE  PointsInv'
<1>1. /\ DOMAIN pc = Requests /\ DOMAIN answer = Requests /\ DOMAIN quizzes = Quizzers
      /\ Quizzers \subseteq Requests /\ quizzes[q].max \in Nat
      /\ quizzes[q] = [stored |-> quizzes[q].stored, max |-> quizzes[q].max,
                       questions |-> quizzes[q].questions]
  BY DEF IInv, ShapeInv, MadeInv, QuizMadeInv, Requests, PointsInv
<1>2. SUFFICES /\ quizzes'[q].max \in Nat
               /\ pc'[q] \in {"answered", "scored"} => answer'[q] \in Seq(Points)
               /\ \A r \in Quizzers \ {q} :
                    pc'[r] = pc[r] /\ answer'[r] = answer[r] /\ quizzes'[r] = quizzes[r]
  BY DEF PointsInv
<1>3. CASE CreateQuiz(q)
  BY <1>1, <1>3 DEF CreateQuiz, Goto
<1>4. CASE AskQuestions(q)
  <2>1. PICK part \in [1..Len(Difficulties) -> SeqsUpTo(Points, MaxItems)] :
          answer' = [answer EXCEPT ![q] = FlattenSeq(part)]
    BY <1>4 DEF AskQuestions
  <2>2. SeqsUpTo(Points, MaxItems) \subseteq Seq(Points)
    BY PointsAssumption DEF SeqsUpTo
  <2>3. Len(Difficulties) = 3
    BY DEF Difficulties
  <2>4. part \in Seq(Seq(Points))
    <3>1. part \in [1..3 -> Seq(Points)]
      BY <2>2, <2>3
    <3>2. 3 \in Nat
      OBVIOUS
    <3>3. [1..3 -> Seq(Points)] \subseteq UNION {[1..n -> Seq(Points)] : n \in Nat}
      BY <3>2, Zenon
    <3>4. QED
      BY <3>1, <3>3, SeqDef, Zenon
  <2>5. FlattenSeq(part) \in Seq(Points)
    BY <2>4, FlattenAppend
  <2>6. QED
    BY <1>1, <1>4, <2>1, <2>5 DEF AskQuestions, Goto, work
<1>5. CASE NoQuestions(q)
  BY <1>1, <1>5 DEF NoQuestions, Goto, work
<1>6. CASE ScoreQuiz(q)
  <2> DEFINE new == [quizzes[q] EXCEPT !.max = Total(answer[q])]
  <2>1. /\ pc[q] = "answered" /\ pc' = [pc EXCEPT ![q] = "scored"] /\ answer' = answer
        /\ quizzes' = [quizzes EXCEPT ![q] = new]
    BY <1>1, <1>6 DEF ScoreQuiz, Goto
  <2>2. answer[q] \in Seq(Points)
    BY <2>1 DEF PointsInv
  <2>3. new.max = Total(answer[q])
    BY <1>1
  <2>4. Total(answer[q]) \in Nat
    BY <2>2, PointsAddUp
  <2> HIDE DEF new
  <2>5. QED
    BY <1>1, <2>1, <2>2, <2>3, <2>4
<1>7. CASE CreateQuestions(q)
  <2> DEFINE new == [quizzes[q] EXCEPT !.questions = answer[q]]
  <2>1. /\ pc' = [pc EXCEPT ![q] = "ok"] /\ answer' = answer
        /\ quizzes' = [quizzes EXCEPT ![q] = new]
    BY <1>1, <1>7 DEF CreateQuestions, Goto
  <2>2. new.max = quizzes[q].max
    BY <1>1
  <2> HIDE DEF new
  <2>3. QED
    BY <1>1, <2>1, <2>2
<1>8. QED
  BY <1>3, <1>4, <1>5, <1>6, <1>7

LEMMA PointsStep == IInv /\ PointsInv /\ [Next]_vars => PointsInv'
<1> SUFFICES ASSUME IInv, PointsInv, [Next]_vars PROVE PointsInv'
  OBVIOUS
<1>1. CASE UNCHANGED vars
  BY <1>1, PointsKeep DEF vars, work
<1>2. ASSUME NEW p \in Requests, Fail(p) PROVE PointsInv'
  <2>1. /\ quizzes' = quizzes /\ answer' = answer /\ pc' = [pc EXCEPT ![p] = "failed"]
        /\ DOMAIN pc = Requests /\ Quizzers \subseteq Requests
    BY <1>2 DEF Fail, work, IInv, ShapeInv, Requests
  <2>2. QED
    BY <2>1, PointsKeep
<1>3. ASSUME NEW r \in Regens,
             ReadLesson(r) \/ Rewrite(r) \/ ExtraModules(r) \/ NoExtraModules(r) \/ ExtraDocuments(r)
      PROVE  PointsInv'
  <2>1. r \in Requests \ Quizzers
    BY KindsAssumption DEF Requests
  <2>2. /\ quizzes' = quizzes /\ \E to : pc' = [pc EXCEPT ![r] = to]
        /\ answer' = answer \/ \E a : answer' = [answer EXCEPT ![r] = a]
    BY <1>3 DEF ReadLesson, ReadRow, Rewrite, ExtraModules, NoExtraModules, ExtraDocuments, Goto, work
  <2>3. QED
    BY <2>1, <2>2, OthersLeavePoints
<1>4. ASSUME NEW p \in IssueRegens \cup Monitors \cup Toggles,
             \/ RegenerateByIssues(p)
             \/ Complete(p) \/ NotYet(p) \/ AnalysisUnavailable(p)
             \/ ReadRow(p) \/ Toggle(p)
      PROVE  PointsInv'
  <2>1. p \in Requests \ Quizzers
    BY KindsAssumption DEF Requests
  <2>2. quizzes' = quizzes /\ answer' = answer /\ \E to : pc' = [pc EXCEPT ![p] = to]
    BY <1>4 DEF RegenerateByIssues, Complete, NotYet, AnalysisUnavailable, ReadRow, Toggle, Goto, work
  <2>3. QED
    BY <2>1, <2>2, OthersLeavePoints
<1>5. CASE QuizProgress
  BY <1>5, PointsKeep DEF QuizProgress, work
<1>6. ASSUME NEW c \in Coders,
             AskExercise(c) \/ CreateExercise(c) \/ CommitParts(c) \/ RollBackParts(c)
      PROVE  PointsInv'
  <2>1. c \in Requests \ Quizzers
    BY KindsAssumption DEF Requests
  <2>2. /\ quizzes' = quizzes /\ \E to : pc' = [pc EXCEPT ![c] = to]
        /\ answer' = answer \/ \E a : answer' = [answer EXCEPT ![c] = a]
    BY <1>6 DEF AskExercise, CreateExercise, CommitParts, RollBackParts, Goto, work
  <2>3. QED
    BY <2>1, <2>2, OthersLeavePoints
<1>7. QED
  BY <1>1, <1>2, <1>3, <1>4, <1>5, <1>6, QuizStepPoints DEF Next

\* Every column of a lesson, of its quizzes and of its exercises keeps its type, and what
\* is not stored has no parts; the max_score of a quiz is a natural number whatever points
\* the model gives its questions (ai_routers.py, generate_quiz).
THEOREM TypeCorrect == Spec => []TypeOK
<1>1. Init => PointsInv
  BY DEF Init, PointsInv, NoQuiz, Requests
<1>2. IInv /\ PointsInv => TypeOK
  BY ZenonT(40) DEF IInv, ShapeInv, MadeInv, QuizMadeInv, CoderInv, PointsInv, Row, Places, NoExercise, TypeOK
<1>3. QED
  BY <1>1, <1>2, InitInv, NextInv, PointsStep, PTL DEF Spec

\* Unless a regeneration was overtaken between its read and its update, the content of a
\* lesson announces every batch of extra modules (ai_routers.py, recommend.py), however
\* many regenerations, monitors, toggles and quizzes write the row.
THEOREM SupplementsStay == Spec => []SupplementsAnnounced
<1>1. IInv => SupplementsAnnounced
  BY DEF IInv, LessonRowInv
<1>2. QED
  BY <1>1, InitInv, NextInv, PTL DEF Spec

\* The bookmark is the one last reported although other requests write the row back, and
\* has been turned by every toggle if none was overtaken, for any number of toggles.
THEOREM BookmarkReported == Spec => []BookmarkIsAsReported
<1>1. IInv => BookmarkIsAsReported
  BY DEF IInv, LessonRowInv
<1>2. QED
  BY <1>1, InitInv, NextInv, PTL DEF Spec

\* Wherever the generation of modules, of a quiz or of an exercise fails between its commits,
\* what is reported as made is whole, and what has questions can be scored in full.
THEOREM GeneratedStaysWhole == Spec => []GeneratedIsWhole
<1>1. IInv => ExtrasAreDocumented
  BY DEF IInv, LessonRowInv, RegenInv, ShapeInv, ExtrasAreDocumented
<1>2. IInv => QuizzesAddUp
  <2> SUFFICES ASSUME NEW q \in Quizzers, QuizMadeInv(q)
               PROVE  /\ quizzes[q].questions # <<>> => quizzes[q].max = Total(quizzes[q].questions)
                      /\ pc[q] = "ok" => quizzes[q].questions # <<>>
                      /\ quizzes[q].stored /\ quizzes[q].questions = <<>> =>
                           pc[q] \in {"created", "answered", "scored", "failed"}
    BY DEF IInv, MadeInv, QuizzesAddUp
  <2>1. QED
    BY DEF QuizMadeInv
<1>3. IInv => ExercisesAreWhole
  BY DEF IInv, MadeInv, CoderInv, ExercisesAreWhole
<1>4. IInv => GeneratedIsWhole
  BY <1>1, <1>2, <1>3 DEF GeneratedIsWhole
<1>5. QED
  BY <1>4, InitInv, NextInv, PTL DEF Spec

=============================================================================
