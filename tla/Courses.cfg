SPECIFICATION MCSpec
CONSTANTS
    Scenes = {"created", "enrolled", "imaged", "pages", "walks", "events", "schedule", "time"}
    Creations = {"r1", "r2"}
    Additions = {"a1", "a2"}
    Updates = {"u1"}
    Deletions = {"d1"}
    PathDeletions = {"t1"}
    Imagings = {"m1", "m2", "m3"}
    Keys = {"k1"}
    Students = {"s1", "s2"}
    Strangers = {"x"}
    Professors = {"p1"}
    Nobody = "nobody"
    Seeds = {"c1"}
    MaxBatch = 2
    Catalogue = {"c1", "c2", "c3", "c4"}
    Offered = {"c1", "c2", "c3"}
    Lists = {"admin", "student", "professor", "all of professor", "all of student"}
    PageSize = 2
    Dates = {1, 2, 3, 4}
    MaxPage = 4
    MaxChanges = 5
    Taught = {"k1", "k2"}
    Exercises = {"e1", "e2", "e3"}
    Visited = {"k1", "k2"}
    CourseOf <- InCourses
    Adds = {"add1", "add2", "add3"}
    Views = {"view1"}
    Schedules = {"schedule1"}
    Recents = {"recent1"}
    Shown = 2
    MaxTime = 3
    MaxEdits = 1
INVARIANT TypesOK
INVARIANT AnswersAreKept
INVARIANT DuplicatesComeFromOvertaking
INVARIANT PagesShowAll
INVARIANT ShownIsWhole
\* Each request is one call: all of them end.
CHECK_DEADLOCK FALSE
