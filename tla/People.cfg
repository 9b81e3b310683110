SPECIFICATION MCSpec
CONSTANTS
    Scenes = {"accounts", "edited", "created", "listed"}
    Requests = {q1, q2}
    Codes = {c1, c2}
    Passwords = {pw1, pw2}
    BuiltIn = FALSE
    Students = {"s1", "s2"}
    Professors = {"p1"}
    Admins = {"a1"}
    Known = {"s1", "a1"}
    Creates = {"new1", "new2"}
    Edits = {"edit1", "edit2"}
    Toggles = {"toggle1"}
    Shows = {"show1"}
    Lists = {"list1"}
    Counts = {"count1"}
INVARIANT TypesOK
INVARIANT MailedCodes
INVARIANT UsersAreAsAnswered
INVARIANT UsersAreRead
PROPERTY UndoneOnlyByStaleReads
SYMMETRY Symmetry
\* Each request is one call: all of them end.
CHECK_DEADLOCK FALSE
