SPECIFICATION MCSpec
CONSTANTS
    yaml = yaml
    document = document
    gitkeep = gitkeep
    Keep = gitkeep
    Order <- ThreeFiles
    Absent = Absent
    Processes = {p1, p2}
    Rows = {t, w}
    Unclean = {w}
    NoOne = NoOne
SYMMETRY Symmetry
INVARIANTS TypeOK MigratedIsCurrent AnswerIsOnDisk SetupIsComplete
PROPERTIES NothingDropped UncleanStay CurrentIsKept NothingOverwritten
