SPECIFICATION GatesSpec
CONSTANTS
    origin = origin
    fork = fork
    r1 = r1
    r2 = r2
    None = None
    Remotes = {origin, fork}
    Allowed = {origin, fork}
    Unsteady = {fork}
    Configs <- TwoConfigs
    Kinds = {"copy"}
    Research <- TwoDocuments
    Requests <- ThreeRequests
    Approvers = {a1, a2}
    Checkers = {g1}
    Scopes = {s1}
    Asked = {s1, s2}
    Texts = {t1, t2}
    DefaultText = t1
    Prototypes = {p1, p2}
    Missing = Missing
    MaxReviews = 1
SYMMETRY Symmetry
INVARIANTS
    GatesTypeOK
    ApprovedWasReviewed
    LatestDecisionCounts
    FormalChangeIsProved
    StartIsKept
