SPECIFICATION MCSpec
CONSTANTS
    Scenes = {"row", "bookmark", "made", "paths", "plans", "shared", "thirds"}
    Regens = {"r1", "r2"}
    IssueRegens = {"g1"}
    Monitors = {"m1"}
    Toggles = {"t1", "t2"}
    Quizzers = {"q1"}
    Coders = {"c1"}
    Points = {5, 10}
    MaxItems = 2
    Averages = {50}
    Generations = {"g1"}
    Plans = {"p1"}
    Views = {"v1"}
    Catalog = {l1, l2}
    MaxLessons = 2
    MaxModules = 3
    Submitters = {s1, s2}
    Clears = {"c1"}
    Questions = {"a", "b", "c", "d", "e", "f", "g"}
    Quizzes = {"z1", "z2", "z3", "z4", "z5"}
    Modules = {"m1", "m2", "m3", "m4"}
    Lessons = {"l1", "l2"}
    QuizOf <- QuizOfQuestion
    ModuleOf <- ModuleOfQuiz
    LessonOf <- LessonOfModule
INVARIANT TypesOK
INVARIANT SupplementsAnnounced
INVARIANT BookmarkIsAsReported
INVARIANT GeneratedIsWhole
INVARIANT ModulesUnderTheirLesson
INVARIANT PathsAreWhole
INVARIANT StoredScores
INVARIANT EarnedScore
INVARIANT SettledProgress
SYMMETRY Symmetry
\* Each request is one call: all of them end.
CHECK_DEADLOCK FALSE
