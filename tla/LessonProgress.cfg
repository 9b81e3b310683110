SPECIFICATION MCSpec
CONSTANTS
    Scenes = {"row"}
    Regens = {"r1"}
    IssueRegens = {}
    Monitors = {"m1"}
    Toggles = {}
    Quizzers = {}
    Coders = {}
    Points = {5, 10}
    MaxItems = 2
    Averages = {50}
    Generations = {"g1"}
    Plans = {"p1"}
    Views = {"v1"}
    Catalog = {l1, l2}
    MaxLessons = 2
    MaxModules = 3
    Submitters = {s1}
    Clears = {"c1"}
    Questions = {"a", "b", "c", "d", "e", "f", "g"}
    Quizzes = {"z1", "z2", "z3", "z4", "z5"}
    Modules = {"m1", "m2", "m3", "m4"}
    Lessons = {"l1", "l2"}
    QuizOf <- QuizOfQuestion
    ModuleOf <- ModuleOfQuiz
    LessonOf <- LessonOfModule
PROPERTY ProgressKept
\* Each request is one call: all of them end.
CHECK_DEADLOCK FALSE
