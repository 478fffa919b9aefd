SPECIFICATION MCSpec
CONSTANTS
    a = a
    Sessions = {s1, s2}
    Names = {a}
    Commits = {c1, c2}
    NoOne = NoOne
    Main = Main
    Outside = Outside
    NoCall = NoCall
    Operations <- SevenOperations
    root = root
    git = git
    sub = sub
    yaml = yaml
    Root = root
    Paths <- ThreePaths
    Parent <- TwoLevels
    Protected = {git, yaml}
    DotGit = git
    ProjectYaml = yaml
SYMMETRY Symmetry
INVARIANTS GateTypeOK CheckedIsRight
PROPERTIES WorkSurvives LetThroughIsPermitted DeniedHasReason
