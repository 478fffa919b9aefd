SPECIFICATION FairSpec
CONSTANTS
    Sessions = {s1}
    Names = {a}
    Commits = {c1, c2}
    NoOne = NoOne
PROPERTIES CleanupSucceeds
