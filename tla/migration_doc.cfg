SPECIFICATION Spec
CONSTANTS
    Processes = {p1}
    Rows = {t}
    Unclean = {}
    NoOne = NoOne
INVARIANTS KnownIsRecognized
