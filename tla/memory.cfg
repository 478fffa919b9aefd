SPECIFICATION MCSpec
CONSTANTS
    lesson = lesson
    old = old
    rewritten = rewritten
    other = other
    Callers = {m1, m2}
    Worktrees = {}
    Drafts = {lesson, old, rewritten, other}
    Id <- IdOf
    Title <- TitleOf
    Active <- ActiveOf
    Limit = 1
    NoOne = NoOne
    NoDraft = NoDraft
SYMMETRY Symmetry
INVARIANTS TypeOK NoDuplicates SearchIsCurrent
PROPERTIES StoreKeepsPromise CandidatesSurvive
