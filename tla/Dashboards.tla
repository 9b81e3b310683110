----------------------------- MODULE Dashboards -----------------------------
(***************************************************************************)
(* What a student and a professor see of their courses: the course of the  *)
(* student's last visit and the professor's dashboard                      *)
(* (machine/api/v1/dashboard.py), the schedule of exercises                *)
(* (machine/api/v1/schedule.py), and the time a student has spent on a     *)
(* lesson (machine/api/v1/progress_tracking.py).                           *)
(*                                                                         *)
(* All courses are of one professor, and one student visits them.  The     *)
(* views read course by course while exercises are created, changed and    *)
(* deleted.  Every addition of time has an amount of its own, so that a    *)
(* time is the set of the additions in it.                                 *)
(***************************************************************************)
EXTENDS Integers, FiniteSets, FiniteSetsExt, SequencesExt

CONSTANTS
    Taught, Exercises,
    Visited,      \* the courses that the student may come to visit
    CourseOf,     \* to which course each exercise belongs
    Adds,         \* the requests that add time
    Views,        \* the requests for a professor's dashboard
    Schedules,    \* the requests for the schedule
    Recents,      \* the requests for the recent course
    Shown,        \* how many events a dashboard shows
    MaxTime,      \* bound on the clock
    MaxEdits      \* bound on the changes of exercises

ASSUME CourseAssumption == Visited \subseteq Taught /\ CourseOf \in [Exercises -> Taught]
ASSUME BoundAssumption == Shown \in Nat \ {0} /\ MaxTime \in Nat \ {0} /\ MaxEdits \in Nat

\* The rows of a table are finitely many, and the requests different calls.
ASSUME ViewersAssumption ==
    /\ IsFiniteSet(Exercises)
    /\ Adds \cap (Views \cup Schedules \cup Recents) = {}
    /\ Views \cap (Schedules \cup Recents) = {} /\ Schedules \cap Recents = {}

VARIABLES
    now,
    spent,      \* the additions that are in the time spent
    close,      \* when each exercise closes, or that it does not, or that it is not there
    accessed,   \* last_accessed of the student in each course, 0 when not enrolled
    viewing,
    seen,       \* per request, what it has read
    left,       \* per view, the courses it has still to read
    began,      \* per view, its current time
    opened,     \* history: when the student opened each course
    before,     \* history: per view, the exercises when it began
    touched,    \* history: per view, the exercises that changed while it was read
    met,        \* history: the additions that overlapped with another
    edits       \* history: the number of changes of exercises

dataVars == <<now, spent, close, accessed>>
requestVars == <<viewing, seen, left, began>>
history == <<opened, before, touched, met, edits>>
dashboardVars == <<dataVars, requestVars, history>>

Viewers == Adds \cup Views \cup Schedules \cup Recents
Readers  == Views \cup Schedules

Gone  == -2
Never == -1    \* time_close is null
Times == 1..MaxTime

DashboardTypeOK ==
    /\ now \in Times
    /\ spent \subseteq Adds
    /\ close \in [Exercises -> Times \cup {Gone, Never}]
    /\ \A c \in Taught : accessed[c] <= now /\ opened[c] <= now
    /\ \A r \in Readers : left[r] \subseteq Taught
    /\ \A r \in Recents : \A c \in seen[r] : accessed[c] # 0
    /\ edits \in 0..MaxEdits

DashboardInit ==
    /\ now = 1
    /\ spent = {}
    /\ close \in [Exercises -> Times \cup {Gone, Never}]
    /\ accessed = [c \in Taught |-> 0]
    /\ viewing = [r \in Viewers |-> "idle"]
    /\ seen = [r \in Viewers |-> {}]
    /\ left = [r \in Readers |-> {}]
    /\ began = [r \in Readers |-> 0]
    /\ opened = [c \in Taught |-> 0]
    /\ before = [r \in Readers |-> close]
    /\ touched = [r \in Readers |-> {}]
    /\ met = {}
    /\ edits = 0

Pass(r, from, to) == viewing[r] = from /\ viewing' = [viewing EXCEPT ![r] = to]

-----------------------------------------------------------------------------
(* Time spent *)

ReadTime(r) ==
    /\ r \in Adds
    /\ Pass(r, "idle", "read")
    /\ seen' = [seen EXCEPT ![r] = spent]
    /\ LET others == {a \in Adds \ {r} : viewing[a] = "read"} IN
       met' = IF others = {} THEN met ELSE met \cup others \cup {r}
    /\ UNCHANGED <<dataVars, left, began, opened, before, touched, edits>>

WriteTime(r) ==
    /\ r \in Adds
    /\ Pass(r, "read", "answered")
    /\ spent' = seen[r] \cup {r}
    /\ UNCHANGED <<now, close, accessed, seen, left, began, history>>

-----------------------------------------------------------------------------
(* The student's courses *)

\* A row of student_courses is created with the time of its creation.
Join(c) ==
    /\ accessed[c] = 0
    /\ accessed' = [accessed EXCEPT ![c] = now]
    /\ UNCHANGED <<now, spent, close, requestVars, history>>

\* The student reads a course; nothing is written.
Open(c) ==
    /\ accessed[c] # 0
    /\ opened' = [opened EXCEPT ![c] = now]
    /\ UNCHANGED <<dataVars, requestVars, before, touched, met, edits>>

Recent(r) ==
    /\ r \in Recents
    /\ Pass(r, "idle", "answered")
    /\ LET latest == {c \in Taught : accessed[c] # 0 /\ \A d \in Taught : accessed[d] <= accessed[c]} IN
       IF latest = {} THEN UNCHANGED seen ELSE \E c \in latest : seen' = [seen EXCEPT ![r] = {c}]
    /\ UNCHANGED <<dataVars, left, began, history>>

-----------------------------------------------------------------------------
(* The views *)

\* The courses are read, and the time is taken.
BeginView(r) ==
    /\ r \in Readers
    /\ Pass(r, "idle", "reading")
    /\ left' = [left EXCEPT ![r] = Taught]
    /\ began' = [began EXCEPT ![r] = now]
    /\ before' = [before EXCEPT ![r] = close]
    /\ UNCHANGED <<dataVars, seen, opened, touched, met, edits>>

Of(c) == {e \in Exercises : CourseOf[e] = c /\ close[e] # Gone}

\* A dashboard lists what closes after its time, a schedule everything.
Listed(r, c) == {e \in Of(c) : r \in Views => close[e] > began[r]}

\* The exercises of the next course, with their time of closing.
ReadCourse(r, c) ==
    /\ viewing[r] = "reading"
    /\ c \in left[r]
    /\ left' = [left EXCEPT ![r] = @ \ {c}]
    /\ seen' = [seen EXCEPT ![r] = @ \cup {<<close[e], e>> : e \in Listed(r, c)}]
    /\ UNCHANGED <<dataVars, viewing, began, history>>

\* All lists of the events by their closing.
Sorted(events) ==
    {s \in SetToSeqs(events) : \A i, j \in DOMAIN s : i < j => s[i][1] <= s[j][1]}

\* Mutant: the events are cut before they are sorted.
Finish_CutsFirst(r) ==
    /\ Pass(r, "reading", "answered")
    /\ left[r] = {}
    /\ \E some \in SUBSET seen[r] :
         /\ Cardinality(some) = IF Cardinality(seen[r]) < Shown THEN Cardinality(seen[r]) ELSE Shown
         /\ seen' = [seen EXCEPT ![r] = some]
    /\ UNCHANGED <<dataVars, left, began, history>>

\* The events are sorted; an exercise that never closes cannot be compared, and one that has
\* no time of opening cannot be shown.  A dashboard shows the first few.
Finish(r) ==
    /\ left[r] = {}
    /\ \/ /\ seen[r] # {}
          /\ Pass(r, "reading", "failed")
          /\ UNCHANGED seen
       \/ /\ \A e \in seen[r] : e[1] # Never
          /\ Pass(r, "reading", "answered")
          /\ \E s \in Sorted(seen[r]) :
               seen' = [seen EXCEPT ![r] = {s[i] : i \in {i \in DOMAIN s : r \in Views => i <= Shown}}]
    /\ UNCHANGED <<dataVars, left, began, history>>

-----------------------------------------------------------------------------
(* Around them *)

ChangeExercise(e) ==
    /\ edits < MaxEdits
    /\ edits' = edits + 1
    /\ \E t \in Times \cup {Gone, Never} : t # close[e] /\ close' = [close EXCEPT ![e] = t]
    /\ touched' = [r \in Readers |-> IF viewing[r] = "reading" THEN touched[r] \cup {e} ELSE touched[r]]
    /\ UNCHANGED <<now, spent, accessed, requestVars, opened, before, met>>

Tick ==
    /\ now < MaxTime
    /\ now' = now + 1
    /\ UNCHANGED <<spent, close, accessed, requestVars, history>>

DashboardNext ==
    \/ \E r \in Viewers : ReadTime(r) \/ WriteTime(r) \/ Recent(r) \/ BeginView(r)
    \/ \E c \in Visited : Join(c) \/ Open(c)
    \/ \E r \in Readers : Finish(r) \/ \E c \in Taught : ReadCourse(r, c)
    \/ \E e \in Exercises : ChangeExercise(e)
    \/ Tick

DashboardSpec == DashboardInit /\ [][DashboardNext]_dashboardVars

-----------------------------------------------------------------------------
(* Correctness *)

Answered(set) == {r \in set : viewing[r] = "answered"}

\* The time spent is made of answered additions, and has every one that did not
\* overlap with another, however many came after it.
TimeIsOfAdditions == spent \subseteq Answered(Adds) /\ Answered(Adds) \ met \subseteq spent

\* A dashboard shows the exercises that close next: one that stayed as it was while
\* the dashboard was read and closes after its time is shown, or all places are taken
\* by exercises that close no later.
DashboardsShowTheNext ==
    \A r \in Answered(Views) :
      /\ Cardinality(seen[r]) <= Shown
      /\ \A e \in seen[r] : e[1] > began[r]
      /\ \A e \in Exercises :
           LET t == before[r][e] IN
           e \notin touched[r] /\ t > began[r] =>
             \/ <<t, e>> \in seen[r]
             \/ Cardinality(seen[r]) = Shown /\ \A s \in seen[r] : s[1] <= t

\* A schedule that is answered has every exercise that stayed as it was.
SchedulesAreWhole ==
    \A r \in Answered(Schedules) : \A e \in Exercises :
      e \notin touched[r] /\ before[r][e] # Gone => <<before[r][e], e>> \in seen[r]

\* What a professor's dashboard, a schedule and the time spent show is whole, although they
\* are read course by course and written without a lock (dashboard.py:66).
ShownIsWhole == DashboardsShowTheNext /\ SchedulesAreWhole /\ TimeIsOfAdditions

=============================================================================
