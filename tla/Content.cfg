SPECIFICATION MCSpec
CONSTANTS
    Scenes = {"uploaded", "edited", "parts", "tested"}
    Files = {"f1", "f2", "f3", "f4"}
    Uploads = {"u1", "u2"}
    Batch <- TwoUploads
    Names = {"notes", "slides"}
    NameOf <- SharedName
    Pdfs = {"f1"}
    Deleters = {"d1"}
    Readers = {"v1"}
    Creations = {"add"}
    Updates = {"edit1", "edit2"}
    Deletions = {"delete"}
    Readings = {"get"}
    TestCreations = {"test1", "test2"}
    TestChanges = {"change1", "change2"}
    ConfigAdditions = {"config1", "config2"}
    Submissions = {"submit"}
    Seeds = {"e1"}
    Courses = {"c1"}
    Languages = {"l1"}
    Types = {"quiz", "code"}
    MaxQuestions = 1
INVARIANT TypesOK
INVARIANT DocumentsAreAsReported
INVARIANT TempFilesAreSound
INVARIANT EditsAreWhole
INVARIANT PartsHaveTheirWhole
\* Each request is one call: all of them end.
CHECK_DEADLOCK FALSE
