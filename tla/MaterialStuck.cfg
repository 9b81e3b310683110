SPECIFICATION MCSpec
CONSTANTS
    Scenes = {"uploaded"}
    Files = {"f1", "f2", "f3", "f4"}
    Uploads = {"u1", "u2"}
    Batch <- TwoUploads
    Names = {"notes", "slides"}
    NameOf <- SharedName
    Pdfs = {"f1"}
    Deleters = {}
    Readers = {}
    Creations = {}
    Updates = {}
    Deletions = {}
    Readings = {}
    TestCreations = {}
    TestChanges = {}
    ConfigAdditions = {}
    Submissions = {}
    Seeds = {}
    Courses = {"c1"}
    Languages = {"l1"}
    Types = {"quiz", "code"}
    MaxQuestions = 1
INVARIANT ErrorsAreRecorded
\* Each request is one call: all of them end.
CHECK_DEADLOCK FALSE
