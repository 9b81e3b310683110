SPECIFICATION MCSpec
CONSTANTS
    Scenes = {"accounts"}
    Requests = {q1, q2}
    Codes = {c1, c2}
    Passwords = {pw1}
    BuiltIn = FALSE
    Students = {"s1"}
    Professors = {}
    Admins = {"a1"}
    Known = {"s1", "a1"}
    Creates = {}
    Edits = {}
    Toggles = {}
    Shows = {}
    Lists = {}
    Counts = {}
PROPERTY VerifiedStays
SYMMETRY Symmetry
\* Each request is one call: all of them end.
CHECK_DEADLOCK FALSE
