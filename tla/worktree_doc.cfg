SPECIFICATION Spec
CONSTANTS
    Sessions = {s1, s2}
    Names = {a}
    Commits = {}
    NoOne = NoOne
SYMMETRY Symmetry
PROPERTIES NoOrphanMade
